------------------------------- MODULE Editor --------------------------------
(* The text editor behind the shell's edit command (src/shell/editor.rs).    *)
(* It keeps an insertion offset (cursor) and, separately, the row and column  *)
(* of the hardware cursor; the arrow keys move only the latter.  Drawing is   *)
(* left out.                                                                 *)
EXTENDS RamFs, FiniteSetsExt

CONSTANT MaxText    \* bound on the length of the text being edited

VARIABLES
    path, buffer, cursor, row, col, dirty   \* the locals of editor::run

edVars == <<path, buffer, cursor, row, col, dirty>>

ASSUME EditorAssumption ==
    /\ NL \notin Letters /\ BadName \notin Names
    /\ MaxText \in Nat /\ Contents \subseteq Seq(Letters)

-----------------------------------------------------------------------------
(* str::lines() as offsets: a line starts at 0 and after every newline that   *)
(* is not the last character.                                                *)

Newlines(s) == {i \in DOMAIN s : s[i] = NL}
LineStarts(s) == IF s = <<>> THEN {} ELSE {0} \cup (Newlines(s) \ {Len(s)})

LenAt(s, x) ==
    LET after == {i \in Newlines(s) : i > x} IN
    (IF after = {} THEN Len(s) ELSE Min(after) - 1) - x

RowOf(s, x) == Cardinality({y \in LineStarts(s) : y < x})

line_count(s) == Max({1, Cardinality(LineStarts(s))})

line_len(s, r) ==
    LET here == {x \in LineStarts(s) : RowOf(s, x) = r} IN
    IF here = {} THEN 0 ELSE LenAt(s, CHOOSE x \in here : TRUE)

offset_to_pos(s, offset) ==
    LET reach == {x \in LineStarts(s) : offset <= x + LenAt(s, x)}
        last == line_count(s) - 1
    IN  IF reach # {}
        THEN <<RowOf(s, Min(reach)), offset - Min(reach)>>
        ELSE <<last, line_len(s, last)>>

-----------------------------------------------------------------------------
\* The text the editor starts from: the file, ended by a newline.
Opened(p) ==
    IF ~Stored(p) THEN <<>>
    ELSE IF files[p] = <<>> \/ files[p][Len(files[p])] = NL THEN files[p]
         ELSE Append(files[p], NL)

InitEditor ==
    path = BadName /\ buffer = <<>> /\ cursor = 0 /\ row = 0 /\ col = 0 /\ dirty = FALSE

open(p) ==
    /\ path' = p /\ buffer' = Opened(p) /\ cursor' = Len(Opened(p))
    /\ row' = 0 /\ col' = 0 /\ dirty' = FALSE
    /\ UNCHANGED files

\* Mutant: the flag is cleared, the text is not written.
save_forgets == dirty' = FALSE /\ UNCHANGED <<files, path, buffer, cursor, row, col>>

\* Ctrl+S: the result of the write is ignored.
save ==
    /\ write(path, buffer)
    /\ dirty' = FALSE
    /\ UNCHANGED <<path, buffer, cursor, row, col>>

MoveTo(r, c) ==
    row' = r /\ col' = c /\ UNCHANGED <<files, path, buffer, cursor, dirty>>

up == row > 0 /\ MoveTo(row - 1, Min({col, line_len(buffer, row - 1)}))

down ==
    /\ row + 1 < line_count(buffer)
    /\ MoveTo(row + 1, Min({col, line_len(buffer, row + 1)}))

left ==
    \/ col > 0 /\ MoveTo(row, col - 1)
    \/ col = 0 /\ row > 0 /\ MoveTo(row - 1, line_len(buffer, row - 1))

right ==
    \/ col < line_len(buffer, row) /\ MoveTo(row, col + 1)
    \/ /\ col >= line_len(buffer, row)
       /\ row + 1 < line_count(buffer)
       /\ MoveTo(row + 1, 0)

\* What every edit ends with: the changed text, the moved offset and the
\* position computed from it.
Edited(text, offset) ==
    /\ buffer' = text /\ cursor' = offset /\ dirty' = TRUE
    /\ row' = offset_to_pos(text, offset)[1]
    /\ col' = offset_to_pos(text, offset)[2]
    /\ UNCHANGED <<files, path>>

backspace ==
    /\ cursor > 0
    /\ Edited(SubSeq(buffer, 1, cursor - 1) \o SubSeq(buffer, cursor + 1, Len(buffer)),
              cursor - 1)

\* Enter inserts a newline, any other key its character.
insert(c) ==
    /\ Len(buffer) < MaxText
    /\ Edited(SubSeq(buffer, 1, cursor) \o <<c>> \o SubSeq(buffer, cursor + 1, Len(buffer)),
              cursor + 1)

edit ==
    \/ save
    \/ up \/ down \/ left \/ right
    \/ backspace
    \/ \E c \in Letters \cup {NL} : insert(c)

=============================================================================
