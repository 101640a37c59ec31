------------------------------- MODULE MCVga -------------------------------
(* The console on a tiny screen, for TLC. *)
EXTENDS Vga

\* Calls that scroll the screen at most once.
ShortTexts == {<<"x">>, <<"x", "x">>, <<"nl">>, <<"tab">>, <<"cr", "x">>}
=============================================================================
