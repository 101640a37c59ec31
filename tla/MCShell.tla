------------------------------- MODULE MCShell -------------------------------
(* A small shell, and all short expressions for calc, for TLC. *)
EXTENDS ShellCalc
\* What the write command is given: nothing, or a word.
ShortContents == {<<>>} \cup {<<c>> : c \in Letters}
\* Operands of the expressions.
Numbers == {[neg |-> TRUE, digits |-> <<2>>], [neg |-> FALSE, digits |-> <<3>>],
            [neg |-> FALSE, digits |-> <<1, 2>>]}
=============================================================================
