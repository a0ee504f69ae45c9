------------------------ MODULE MCGarbageCollector -------------------------
(* Small instances of IOGarbageCollector for TLC. *)
EXTENDS IOGarbageCollector

CONSTANTS o1, o2, o3, a1, a2, a3
=============================================================================
