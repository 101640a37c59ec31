-------------------------------- MODULE Shell --------------------------------
(* The shell loop (src/shell/mod.rs): a prompt, a line, a command, and again; *)
(* the edit command hands the keyboard to the editor until Escape.  How the   *)
(* words of a line name a command is abstracted: a line that is not blank may *)
(* be any command.  Commands that do not touch the files change nothing here. *)
EXTENDS Prompt, Editor

VARIABLE mode   \* which loop reads the keyboard: "prompt" or "editor"

vars == <<files, edVars, promptVars, mode>>

Init == InitFiles /\ InitPrompt /\ InitEditor /\ mode = "prompt"

\* A key, a serial byte or a scroll event at the prompt.
AtPrompt == mode = "prompt" /\ typing /\ UNCHANGED <<files, edVars, mode>>

\* Enter on a line that is not blank: the command enters the history and runs.
Run(c) ==
    /\ mode = "prompt"
    /\ Trim(line) # <<>>
    /\ push(Trim(line))
    /\ NewPrompt
    /\ \/ dispatch(c) /\ UNCHANGED <<edVars, mode>>
       \/ c.op = "edit" /\ open(c.src) /\ mode' = "editor"

InEditor == mode = "editor" /\ edit /\ UNCHANGED <<promptVars, mode>>

\* Escape: the text is dropped, saved or not.
Escape ==
    /\ mode = "editor" /\ mode' = "prompt"
    /\ path' = BadName /\ buffer' = <<>> /\ cursor' = 0 /\ row' = 0 /\ col' = 0 /\ dirty' = FALSE
    /\ UNCHANGED <<files, promptVars>>

Next ==
    \/ AtPrompt
    \/ \E c \in Commands : Run(c)
    \/ InEditor
    \/ Escape

Spec == Init /\ [][Next]_vars

-----------------------------------------------------------------------------
Texts(n) == UNION {[1..k -> Letters \cup {NL}] : k \in 0..n}
Lines == UNION {[1..k -> Keys \cup {Space, Tab}] : k \in 0..MaxLine}

\* The state keeps its shape; history (history in src/shell/mod.rs) holds at
\* most MAX_HISTORY lines, none blank.
TypeOK ==
    /\ DOMAIN files \subseteq Names /\ \A f \in DOMAIN files : files[f] \in Texts(MaxText + 1)
    /\ path \in Words /\ buffer \in Texts(MaxText + 1) /\ dirty \in BOOLEAN
    /\ row \in Nat /\ col \in Nat /\ cursor \in Nat
    /\ Len(items) <= MaxHistory /\ \A i \in DOMAIN items : items[i] \in Lines \ {<<>>}
    /\ line \in Lines /\ plain \in BOOLEAN
    /\ mode \in {"prompt", "editor"}

\* No index the code uses unchecked is out of range: History::prev and next
\* index the items with a place that survives Ctrl+C and later commands, and
\* String::insert and remove panic beyond the end of the text.
NoPanic ==
    /\ index \in -1 .. Len(items) - 1
    /\ cursor <= Len(buffer)

\* The screen shows the line that Enter will run: echo, backspace, Ctrl+C and
\* the recall of a longer or shorter command keep the two in step.  (A tab is
\* echoed as several cells and erased as one; a scrolled view hides the line.)
EchoMatches == plain => shown = line

\* The editor's dirty flag tells the truth: while it is clear, the file holds
\* the text on the screen, or the text without the newline that opening it
\* added (a file saved under a name RamFs refuses excepted).
CleanMeansStored ==
    mode = "editor" /\ ~dirty /\ Valid(path) =>
        buffer = Opened(path) \/ (Stored(path) /\ buffer = files[path])

\* The files whose old content a command may do away with.
Overwritten(c) ==
    IF c.op \in {"rm", "write"} THEN {c.src} ELSE IF c.op \in {"cp", "mv"} THEN {c.dst} ELSE {}

\* Contents are not lost by accident: what a file held is still in some file
\* after a command, unless it removed that file or wrote, copied or moved over
\* it (a move onto itself included); and the editor changes no file but its own.
NothingLost ==
    [][/\ files' # files => \A c \in Commands : Run(c) =>
             \A f \in DOMAIN files \ Overwritten(c) :
                 \E g \in DOMAIN files' : files'[g] = files[f]
       /\ mode = "editor" =>
             \A f \in DOMAIN files \ {path} : f \in DOMAIN files' /\ files'[f] = files[f]]_vars
=============================================================================
