------------------------------ MODULE MCTimer -------------------------------
(* Small instances of IOTimer for TLC. *)
EXTENDS IOTimer, TLC

CONSTANTS t1, t2, t3

MCSymmetry == Permutations(Timers)
=============================================================================
