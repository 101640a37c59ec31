----------------------------- MODULE MCRtl8139 -----------------------------
(* A receive buffer of a few words and few descriptors, for TLC. *)
EXTENDS Rtl8139
=============================================================================
