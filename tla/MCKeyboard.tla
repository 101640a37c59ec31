----------------------------- MODULE MCKeyboard -----------------------------
(* The keyboard driver with a small keyboard and a small ring, for TLC. *)
EXTENDS Keyboard

Key(c) == [code |-> c, ext |-> FALSE]
ExtKey(c) == [code |-> c, ext |-> TRUE]

\* The letter a, and both control keys, whose codes differ only in the prefix.
SomeKeys == {Key(30), Key(LCtrl), ExtKey(LCtrl)}
=============================================================================
