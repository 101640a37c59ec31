------------------------------- MODULE MCTcp -------------------------------
(* The TCP module on a small table and a small sequence space, for TLC. *)
EXTENDS HttpGet

OneSlot == {0}
\* An initial sequence number just before the wrap.
HighISN == {SeqMod - 2}
=============================================================================
