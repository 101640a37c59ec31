-------------------------------- MODULE Vga --------------------------------
(***************************************************************************)
(* The text console of vga.rs: the writer and its cursor, the video memory *)
(* it draws in, the status bar below the text, and the scrollback ring.    *)
(* Only the shell task prints, and the locks are held within a call, so    *)
(* each public function is one action.                                     *)
(*                                                                         *)
(* Abstractions.  A cell is blank, text or part of the status bar; colours *)
(* and the hardware cursor are left out.  A text is a sequence of          *)
(* characters: "x" prints, the others are the control characters.          *)
(***************************************************************************)
EXTENDS Integers, Sequences

CONSTANTS
    Width,              \* WIDTH
    ContentRows,        \* CONTENT_ROWS; the row below holds the status bar
    ScrollbackLines,    \* SCROLLBACK_LINES
    TabStop,            \* 8
    Texts,              \* what one call of print! may write
    MaxGone             \* bound: rows that scroll off the screen

ASSUME VgaAssumption ==
    /\ {Width, ContentRows, ScrollbackLines, TabStop} \subseteq Nat \ {0}
    /\ Texts \subseteq Seq({"x", "nl", "cr", "tab"})
    /\ MaxGone \in Nat

VARIABLES
    screen,         \* video memory, row by row
    row, col,       \* WRITER.row, WRITER.col
    deferred,       \* DEFERRED_SCROLL_LINE: <<>> or <<line>>
    lines, current_line, scroll_offset,     \* SCROLLBACK
    status,         \* history: what status_line wrote last
    gone            \* history: the rows that have scrolled off, oldest first

writer == <<screen, row, col, deferred, gone>>
scrollback == <<lines, current_line, scroll_offset>>
vgaVars == <<writer, scrollback, status>>

Rows == 0 .. ContentRows - 1
StatusRow == ContentRows
Columns == 0 .. Width - 1
Cells == {" ", "x", "s", "t", "nul"}
Line == [Columns -> Cells]
Filled(cell) == [c \in Columns |-> cell]
Blank == Filled(" ")

VgaInit ==
    /\ screen = [r \in Rows \cup {StatusRow} |-> Blank]
    /\ row = 0 /\ col = 0
    /\ deferred = <<>>
    /\ lines = [k \in 0 .. ScrollbackLines - 1 |-> Filled("nul")]
    /\ current_line = 0 /\ scroll_offset = 0
    /\ status = Blank
    /\ gone = <<>>

AtMost(n, m) == IF n < m THEN n ELSE m
SaturatingSub(a, b) == IF a < b THEN 0 ELSE a - b

-----------------------------------------------------------------------------
(***************************************************************************)
(* The writer.  Its operations map the writer's part of the state, w, to   *)
(* the next.                                                               *)
(***************************************************************************)
W == [screen |-> screen, row |-> row, col |-> col,
      deferred |-> deferred, gone |-> gone]

\* Mutant of scroll: the top line is saved after the rows have moved up.
scroll_late(w) ==
    [w EXCEPT !.screen = [r \in DOMAIN @ |->
                            IF r = ContentRows - 1 THEN Blank
                            ELSE IF r < ContentRows - 1 THEN @[r + 1] ELSE @[r]],
              !.deferred = <<w.screen[AtMost(1, ContentRows - 1)]>>,
              !.gone = Append(@, w.screen[0])]

scroll(w) ==
    [w EXCEPT !.screen = [r \in DOMAIN @ |->
                            IF r = ContentRows - 1 THEN Blank
                            ELSE IF r < ContentRows - 1 THEN @[r + 1] ELSE @[r]],
              !.deferred = <<w.screen[0]>>,
              !.gone = Append(@, w.screen[0])]

newline(w) ==
    LET v == [w EXCEPT !.col = 0]
    IN  IF w.row + 1 >= ContentRows THEN scroll(v) ELSE [v EXCEPT !.row = @ + 1]

Printable(w) ==
    LET v == IF w.col >= Width THEN newline(w) ELSE w
    IN  [v EXCEPT !.screen[v.row][v.col] = "x", !.col = @ + 1]

Tab(w) ==
    LET v == [w EXCEPT !.col = ((@ + TabStop) \div TabStop) * TabStop]
    IN  IF v.col >= Width THEN newline(v) ELSE v

write_byte(w, b) ==
    CASE b = "nl" -> newline(w)
      [] b = "cr" -> [w EXCEPT !.col = 0]
      [] b = "tab" -> Tab(w)
      [] b = "x" -> Printable(w)

\* after[k] is the writer when the first k bytes are written.
write_str(w, s) ==
    LET after[k \in 0 .. Len(s)] ==
            IF k = 0 THEN w ELSE write_byte(after[k - 1], s[k])
    IN  after[Len(s)]

add_line(line) ==
    /\ lines' = [lines EXCEPT ![current_line % ScrollbackLines] = line]
    /\ current_line' = current_line + 1
    /\ scroll_offset' = 0

\* A call ends with the writer's state w: commit_scrollback moves the
\* deferred line, if there is one, to the scrollback.
commit_scrollback(w) ==
    /\ screen' = w.screen /\ row' = w.row /\ col' = w.col
    /\ gone' = w.gone
    /\ deferred' = <<>>
    /\ IF w.deferred = <<>> THEN UNCHANGED scrollback
       ELSE add_line(w.deferred[1])

-----------------------------------------------------------------------------
(***************************************************************************)
(* The public functions.                                                   *)
(***************************************************************************)
write_fmt(text) ==
    LET w == write_str(W, text)
    IN  /\ Len(w.gone) <= MaxGone
        /\ commit_scrollback(w)
        /\ UNCHANGED status

clear_screen ==
    /\ commit_scrollback([W EXCEPT
          !.screen = [r \in DOMAIN screen |->
                        IF r \in Rows THEN Blank ELSE screen[r]],
          !.row = 0, !.col = 0])
    /\ UNCHANGED status

set_cursor(r, c) ==
    /\ commit_scrollback([W EXCEPT !.row = AtMost(r, ContentRows - 1),
                                   !.col = AtMost(c, Width - 1)])
    /\ UNCHANGED status

\* Text of n cells at a place of the screen; what does not fit is cut off.
write_at(r, c, n) ==
    /\ commit_scrollback([W EXCEPT
          !.screen[AtMost(r, ContentRows - 1)] =
              [k \in Columns |-> IF k \in c .. c + n - 1 THEN "x" ELSE @[k]]])
    /\ UNCHANGED status

\* Mutant of clear_line: the row is not limited to the text.
clear_line_unclamped(r) ==
    /\ commit_scrollback([W EXCEPT !.screen[r] = Blank])
    /\ UNCHANGED status

clear_line(r) ==
    /\ commit_scrollback([W EXCEPT !.screen[AtMost(r, ContentRows - 1)] = Blank])
    /\ UNCHANGED status

backspace ==
    LET left == [W EXCEPT !.col = @ - 1]
        up == [W EXCEPT !.row = @ - 1, !.col = Width - 1]
        Erase(w) == [w EXCEPT !.screen[w.row][w.col] = " "]
    IN  /\ commit_scrollback(IF col > 0 THEN Erase(left)
                             ELSE IF row > 0 THEN Erase(up) ELSE W)
        /\ UNCHANGED status

\* status_line(text), for a text of one cell or none, after w.
StatusLine(w, text) ==
    LET bar == IF text = "" THEN Blank ELSE [Blank EXCEPT ![0] = text]
    IN  /\ screen' = [w.screen EXCEPT ![StatusRow] = bar]
        /\ status' = bar

\* Its commit_scrollback has nothing to move: deferred = <<>> between calls.
status_line(text) ==
    /\ StatusLine(W, text)
    /\ UNCHANGED <<row, col, deferred, gone, scrollback>>

\* get_line: the line a row of the screen shows when scrolled back by
\* offset; <<>> for none.
get_line(offset, r) ==
    LET history == SaturatingSub(SaturatingSub(current_line, ContentRows), offset) + r
    IN  IF current_line < ContentRows \/ history >= current_line THEN <<>>
        ELSE <<lines[history % ScrollbackLines]>>

\* Mutant of redraw_from_scrollback: the view is one row too new.
redraw_late(offset) ==
    IF offset = 0 THEN W
    ELSE [W EXCEPT
            !.screen = [r \in DOMAIN screen |->
                          IF r \in Rows /\ get_line(offset - 1, r) # <<>>
                          THEN get_line(offset - 1, r)[1] ELSE screen[r]],
            !.row = 0, !.col = 0]

redraw_from_scrollback(offset) ==
    IF offset = 0 THEN W
    ELSE [W EXCEPT
            !.screen = [r \in DOMAIN screen |->
                          IF r \in Rows /\ get_line(offset, r) # <<>>
                          THEN get_line(offset, r)[1] ELSE screen[r]],
            !.row = 0, !.col = 0]

\* The end of both scrolling functions.
ScrollTo(offset, w) ==
    /\ scroll_offset' = offset
    /\ row' = w.row /\ col' = w.col
    /\ UNCHANGED <<deferred, gone, lines, current_line>>

scroll_display_up(n) ==
    LET most == SaturatingSub(current_line, ContentRows)
        offset == AtMost(scroll_offset + n, most)
        w == redraw_from_scrollback(offset)
    IN  /\ ScrollTo(offset, w)
        /\ IF offset > 0 THEN StatusLine(w, "s")
           ELSE screen' = w.screen /\ UNCHANGED status

scroll_display_down(n) ==
    LET offset == SaturatingSub(scroll_offset, n)
        w == redraw_from_scrollback(offset)
    IN  /\ ScrollTo(offset, w)
        /\ StatusLine(w, IF offset = 0 THEN "" ELSE "s")

VgaNext ==
    \/ \E text \in Texts : write_fmt(text)
    \/ clear_screen
    \/ \E r \in 0 .. ContentRows, c \in 0 .. Width : set_cursor(r, c)
    \/ \E r \in 0 .. ContentRows, c \in 0 .. Width, n \in 1 .. Width : write_at(r, c, n)
    \/ \E r \in 0 .. ContentRows : clear_line(r)
    \/ backspace
    \/ \E text \in {"", "t"} : status_line(text)
    \/ \E n \in 1 .. ContentRows : scroll_display_up(n) \/ scroll_display_down(n)

VgaSpec == VgaInit /\ [][VgaNext]_vgaVars

-----------------------------------------------------------------------------
\* Types; the cursor is on a row of text, at most one past its last column,
\* and the view is scrolled back within the lines there are.
VgaTypeOK ==
    /\ screen \in [Rows \cup {StatusRow} -> Line]
    /\ row \in Rows /\ col \in 0 .. Width
    /\ deferred \in {<<>>} \cup {<<l>> : l \in Line}
    /\ lines \in [0 .. ScrollbackLines - 1 -> Line]
    /\ current_line \in Nat
    /\ scroll_offset \in 0 .. SaturatingSub(current_line, ContentRows)
    /\ status \in Line
    /\ gone \in Seq(Line)

\* Whatever is written, scrolled or erased, the status bar shows what
\* status_line wrote last.
StatusBarKept == screen[StatusRow] = status

\* Every row that left the top of the screen is in the scrollback, in order,
\* until SCROLLBACK_LINES newer ones have followed it, and none is pending
\* between calls.
LinesKept ==
    /\ deferred = <<>>
    /\ current_line = Len(gone)
    /\ \A k \in 0 .. current_line - 1 : k >= current_line - ScrollbackLines =>
          lines[k % ScrollbackLines] = gone[k + 1]

\* Scrolling back by an offset shows the rows that left the screen, in order
\* and without gaps, as far as the ring still holds them.
ViewShowsHistory ==
    [][ \A n \in 1 .. ContentRows :
          (scroll_display_up(n) \/ scroll_display_down(n)) /\ scroll_offset' > 0 =>
            \A r \in Rows :
              LET k == current_line - ContentRows - scroll_offset' + r
              IN  k >= current_line - ScrollbackLines => screen'[r] = gone[k + 1] ]_vgaVars
=============================================================================
