---------------------------- MODULE DeferredFree ----------------------------
(***************************************************************************)
(* What the library promises about the memory of a retired descriptor,     *)
(* with no list, no entries and no loop: an object that is put off stays   *)
(* allocated until the clock reads more than its grace period later; it is *)
(* given back once; objects that were put off are given back in the order  *)
(* in which they were.  An object may also be given back at once.          *)
(***************************************************************************)
EXTENDS Naturals

CONSTANTS Objects, Grace

VARIABLES
    clock,
    status,     \* "used", "waiting" or "freed"
    since,      \* when a waiting object was put off
    place,      \* its place in the order of putting off, 0 if never put off
    count       \* how many were put off

vars == <<clock, status, since, place, count>>

Init ==
    /\ clock = 0
    /\ status = [o \in Objects |-> "used"]
    /\ since = [o \in Objects |-> 0]
    /\ place = [o \in Objects |-> 0]
    /\ count = 0

PutOff(o) ==
    /\ status[o] = "used"
    /\ status' = [status EXCEPT ![o] = "waiting"]
    /\ since' = [since EXCEPT ![o] = clock]
    /\ place' = [place EXCEPT ![o] = count + 1]
    /\ count' = count + 1
    /\ UNCHANGED clock

FreeAtOnce(o) ==
    /\ status[o] = "used"
    /\ status' = [status EXCEPT ![o] = "freed"]
    /\ UNCHANGED <<clock, since, place, count>>

(* Only the object that waits longest is given back, and not too early. *)
Collect(o) ==
    /\ status[o] = "waiting"
    /\ clock > since[o] + Grace
    /\ \A p \in Objects : status[p] = "waiting" => place[o] <= place[p]
    /\ status' = [status EXCEPT ![o] = "freed"]
    /\ UNCHANGED <<clock, since, place, count>>

(* A wall clock: it can be set back. *)
ClockMoves ==
    /\ clock' \in Nat
    /\ UNCHANGED <<status, since, place, count>>

Next ==
    \/ \E o \in Objects : PutOff(o) \/ FreeAtOnce(o) \/ Collect(o)
    \/ ClockMoves

Spec == Init /\ [][Next]_vars
=============================================================================
