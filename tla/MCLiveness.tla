----------------------------- MODULE MCLiveness -----------------------------
(***************************************************************************)
(* Instances of Liveness for TLC: all flow graphs of BlockCount blocks,    *)
(* and all sets read and written.                                          *)
(***************************************************************************)
EXTENDS Liveness

OneVreg == {1}
=============================================================================
