------------------------------- MODULE MCExt3 -------------------------------
(* Two files on a disk of a few blocks, for TLC. *)
EXTENDS Ext3
=============================================================================
