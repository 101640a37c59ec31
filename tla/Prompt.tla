------------------------------- MODULE Prompt --------------------------------
(* The shell's prompt: the line being typed, its echo on the screen and the  *)
(* command history (src/shell/mod.rs).  Keys come from the keyboard queue and *)
(* from the serial port; both are handled alike, one at a time.               *)
EXTENDS Sequences, Integers, FiniteSetsExt

CONSTANTS
    Keys,        \* printable characters a line is made of
    Space, Tab,  \* the blanks
    MaxLine,     \* the size of line_buf (256)
    MaxHistory   \* MAX_HISTORY (16)

VARIABLES
    items, index,   \* History
    line,           \* line_buf[..line_len]
    shown,          \* the cells of the screen after the prompt, up to the cursor
    plain           \* FALSE once a tab was echoed after this prompt, or the view scrolled

promptVars == <<items, index, line, shown, plain>>

ASSUME PromptAssumption == MaxLine \in Nat \ {0} /\ MaxHistory \in Nat \ {0}

InitPrompt == items = <<>> /\ index = -1 /\ line = <<>> /\ shown = <<>> /\ plain = TRUE

-----------------------------------------------------------------------------
\* The screen after n calls of vga::backspace and print! of s.  A tab takes
\* several cells and is erased as one, and a scrolled view moves the cursor:
\* from then on the cells are not followed until the next prompt.
Redraw(n, s) ==
    /\ plain' = (plain /\ \A i \in DOMAIN s : s[i] # Tab)
    /\ shown' = IF plain' THEN SubSeq(shown, 1, Len(shown) - n) \o s ELSE <<>>

\* str::trim.
Trim(s) ==
    LET ink == {i \in DOMAIN s : s[i] \notin {Space, Tab}} IN
    IF ink = {} THEN <<>> ELSE SubSeq(s, Min(ink), Max(ink))

\* History::push of a command, which is never empty here.
push(cmd) ==
    /\ items' = IF items # <<>> /\ items[Len(items)] = cmd THEN items
                ELSE IF Len(items) = MaxHistory THEN Append(Tail(items), cmd)
                ELSE Append(items, cmd)
    /\ index' = -1

-----------------------------------------------------------------------------
TypeChar(c) ==
    /\ Len(line) < MaxLine
    /\ line' = Append(line, c)
    /\ Redraw(0, <<c>>)
    /\ UNCHANGED <<items, index>>

EraseChar ==
    /\ line # <<>>
    /\ line' = SubSeq(line, 1, Len(line) - 1)
    /\ Redraw(1, <<>>)
    /\ UNCHANGED <<items, index>>

\* Mutant: the old line is erased only as far as the new one is long.
load_line_short(s) == line' = s /\ Redraw(Min({Len(line), Len(s)}), s)

load_line(s) == line' = s /\ Redraw(Len(line), s)

\* The up arrow: History::prev, then load_line.
prev ==
    /\ items # <<>>
    /\ index' = IF index < 0 THEN Len(items) - 1 ELSE Max({0, index - 1})
    /\ load_line(items[index' + 1])
    /\ UNCHANGED items

\* Mutant: the newest entry is not recognised as the last one.
next_past_end ==
    /\ index' = IF index >= 0 /\ index < Len(items) THEN index + 1 ELSE -1
    /\ load_line(<<>>)
    /\ UNCHANGED items

\* The down arrow: History::next, then load_line, or an empty line after the
\* newest entry.
next ==
    /\ \/ index >= 0 /\ index < Len(items) - 1 /\ index' = index + 1 /\ load_line(items[index' + 1])
       \/ (index < 0 \/ index >= Len(items) - 1) /\ index' = -1 /\ load_line(<<>>)
    /\ UNCHANGED items

\* The top of the outer loop: a new prompt on a new line.
NewPrompt == line' = <<>> /\ shown' = <<>> /\ plain' = TRUE

\* Ctrl+C leaves the loop with an empty line; so does Enter on a blank one.
\* Neither reaches push, so the place in the history stays.
Abandon == NewPrompt /\ UNCHANGED <<items, index>>

\* PageUp, PageDown and the mouse wheel redraw the screen from the scrollback.
\* (When there is nothing to show they change nothing.)
ScrollView == plain' = FALSE /\ shown' = <<>> /\ UNCHANGED <<items, index, line>>

typing ==
    \/ \E c \in Keys \cup {Space, Tab} : TypeChar(c)
    \/ EraseChar
    \/ prev \/ next
    \/ Abandon
    \/ ScrollView
=============================================================================
