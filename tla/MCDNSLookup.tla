---------------------------- MODULE MCDNSLookup ----------------------------
(* Small instances of IODNSLookup for TLC. *)
EXTENDS IODNSLookup

CONSTANTS q1, q2
=============================================================================
