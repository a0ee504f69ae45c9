---------------------------- MODULE SocketEvents ----------------------------
(***************************************************************************)
(* What user code may rely on about the events of a descriptor, whatever   *)
(* happens underneath: an attempt to connect ends in at most one of        *)
(* CONNECTED, NOTCONNECTED and DNSFAILED, CLOSED comes only after the      *)
(* connection was there, ACCEPT only from a server, and nothing is heard   *)
(* of a descriptor that is closed.                                         *)
(***************************************************************************)
EXTENDS Sequences

CONSTANT Sockets

VARIABLES
    life,       \* of a descriptor: none, opening, serving, open, ending, closed
    heard       \* the events its callback was called with

Init ==
    /\ life = [s \in Sockets |-> "none"]
    /\ heard = [s \in Sockets |-> <<>>]

Becomes(s, from, to) ==
    /\ life[s] = from
    /\ life' = [life EXCEPT ![s] = to]

Hears(s, event) == heard' = [heard EXCEPT ![s] = Append(@, event)]

Request(s) == Becomes(s, "none", "opening") /\ UNCHANGED heard

Serve(s) == Becomes(s, "none", "serving") /\ UNCHANGED heard

Connected(s) == Becomes(s, "opening", "open") /\ Hears(s, "CONNECTED")

Refused(s) ==
    /\ Becomes(s, "opening", "ending")
    /\ \E e \in {"NOTCONNECTED", "DNSFAILED"} : Hears(s, e)

NotServed(s) == Becomes(s, "serving", "ending") /\ Hears(s, "DNSFAILED")

Lost(s) == Becomes(s, "open", "ending") /\ Hears(s, "CLOSED")

Accepted(server, s) ==
    /\ life[server] = "serving"
    /\ Becomes(s, "none", "open")
    /\ Hears(server, "ACCEPT")

Close(s) ==
    /\ life[s] \in {"opening", "serving", "open", "ending"}
    /\ life' = [life EXCEPT ![s] = "closed"]
    /\ UNCHANGED heard

Next ==
    \E s \in Sockets :
        \/ Request(s) \/ Serve(s) \/ Connected(s) \/ Refused(s)
        \/ NotServed(s) \/ Lost(s) \/ Close(s)
        \/ \E server \in Sockets : Accepted(server, s)

Spec == Init /\ [][Next]_<<life, heard>>
=============================================================================
