-------------------------- MODULE IOSocketCallback --------------------------
(***************************************************************************)
(* What the models of iosocket_events_callback() in                        *)
(* src/IOHandler/IOSockets.c share when it reads from a connection:        *)
(* IOSocketStream has the buffers and system calls, IOLineParser the loop  *)
(* that cuts what was read into lines.  The bytes that arrive are numbered *)
(* from 1 on.                                                              *)
(***************************************************************************)
EXTENDS Integers, Sequences

CONSTANT
    MaxIn       \* bound on the bytes that arrive

VARIABLES
    open,       \* iosocket_close() was not called yet
    pc,         \* where the handler is: "idle" when the loop has control,
                \* "callback" when user code has
    event,      \* the event that it is about to report or reports
    shown       \* history: what user code was shown of the bytes

(* The bytes m .. n *)
Bytes(m, n) == [k \in 1 .. n - m + 1 |-> m + k - 1]

(* User code runs between two dispatches, and in its callback. *)
UserRuns == open /\ pc \in {"idle", "callback"}
=============================================================================
