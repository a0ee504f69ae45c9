---------------------------- MODULE MCEngineWait ----------------------------
(* Small instances of IOEngineWait: a second of 4 milliseconds of 2        *)
(* microseconds each, so that every borrow and every rounding happens.     *)
EXTENDS IOEngineWait

MCIntervals == {1, 3, 8, 11}
=============================================================================
