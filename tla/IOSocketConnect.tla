-------------------------- MODULE IOSocketConnect --------------------------
(***************************************************************************)
(* How the sockets of src/IOHandler/IOSockets.c come and go: looking up    *)
(* names, connecting with the fallback from IPv6 to IPv4, listening and    *)
(* accepting, the events user code hears of, and closing.  A connection is *)
(* without SSL; the data that passes through it is left to IOSocketStream. *)
(*                                                                         *)
(* One dispatch of an event by the engine is one step up to the call of    *)
(* the user's callback; while that runs, user code may call any function,  *)
(* and a last step does what iosocket_events_callback() does after it.     *)
(***************************************************************************)
EXTENDS Integers, Sequences, FiniteSets

CONSTANTS
    Sockets,    \* descriptors; each is used at most once
    NULL,
    MaxFd,      \* the file descriptors are 1 .. MaxFd; socket() and
                \* accept() fail when all are in use
    Requests,   \* the arguments user code gives to iosocket_connect():
                \* [dest, bind], of an address family, "name" or "none"
    Hosts,      \* the ones it gives to iosocket_listen()
    MaxClients  \* bound on the clients that wait at a server

Families == {"A", "AAAA"}

EventNames == {"CONNECTED", "NOTCONNECTED", "CLOSED", "ACCEPT", "DNSFAILED"}

ASSUME ConnectAssumption ==
    /\ NULL \notin [event : EventNames, about : Sockets]
    /\ MaxFd \in Nat
    /\ Requests \subseteq [dest : Families \cup {"name"},
                           bind : Families \cup {"name", "none"}]
    /\ Hosts \subseteq Families \cup {"name"}
    /\ MaxClients \in Nat

VARIABLES
    status,     \* of a descriptor: IOSocketStatus, "none" before it exists
    flags,      \* socket_flags
    addr,       \* the family of the addresses in dest and bind, or "none"
    lookup,     \* the lookups of dest and bind
    fd,         \* 0 before there is one, -1 after accept() failed
    kernel,     \* what is behind a file descriptor
    clients,    \* the connections that wait at a listening descriptor
    watched,    \* what was added to the engine
    cb,         \* the event of the callback that runs, or NULL
    asked,      \* history: the arguments the descriptor was made with
    heard,      \* history: the events of each descriptor
    forgotten,  \* history: the number of descriptors nothing refers to any more
    broken      \* the program goes on with a socket that it freed, through
                \* NULL, or with one that it connected twice; nothing is
                \* said of what follows

sock == <<status, flags, addr, lookup, fd>>
os == <<kernel, clients, watched>>
vars == <<sock, os, cb, asked, heard, forgotten, broken>>

-----------------------------------------------------------------------------
Fds == 1 .. MaxFd

Kinds == {"dest", "bind"}

NoLookup == [state |-> "none", found |-> {}]
Pending == [state |-> "pending", found |-> {}]
Done(found) == [state |-> "done", found |-> found]

Unused == [state |-> "unused", to |-> "none", data |-> FALSE]

Has(s, flag) == flag \in flags[s]

Init ==
    /\ status = [s \in Sockets |-> "none"]
    /\ flags = [s \in Sockets |-> {}]
    /\ addr = [s \in Sockets |-> [k \in Kinds |-> "none"]]
    /\ lookup = [s \in Sockets |-> [k \in Kinds |-> NoLookup]]
    /\ fd = [s \in Sockets |-> 0]
    /\ kernel = [f \in Fds |-> Unused]
    /\ clients = [f \in Fds |-> 0]
    /\ watched = {}
    /\ cb = NULL
    /\ asked = [s \in Sockets |-> [dest |-> "none", bind |-> "none"]]
    /\ heard = [s \in Sockets |-> <<>>]
    /\ forgotten = 0
    /\ broken = FALSE

FreeFds == {f \in Fds : kernel[f].state = "unused"}

LowestFree == CHOOSE f \in FreeFds : \A g \in FreeFds : f <= g

-----------------------------------------------------------------------------
(* The parts of the handlers. *)

SocketFamily(f) == IF "IPV6SOCKET" \in f THEN "AAAA" ELSE "A"

(* The call of socket(), bind(), connect() or listen() that ends           *)
(* iosocket_connect_finish() and iosocket_listen_finish(), with the flags  *)
(* f and the address to of s: without an address connect() fails at once;  *)
(* with one of the other family it goes somewhere else.  If there is no    *)
(* file descriptor left, both return without a word.                       *)
Finish(s, f, to, state) ==
    IF FreeFds = {}
    THEN /\ flags' = [flags EXCEPT ![s] = f]
         /\ UNCHANGED <<fd, kernel>>
    ELSE /\ kernel' = [kernel EXCEPT ![LowestFree] =
                [state |-> IF to = "none" THEN "failed" ELSE state,
                 to |-> IF to = SocketFamily(f) THEN "asked" ELSE "other",
                 data |-> FALSE]]
         /\ fd' = [fd EXCEPT ![s] = LowestFree]
         /\ flags' = [flags EXCEPT ![s] = f \cup {"ACTIVE"} \cup
                (IF state = "connecting" THEN {"CONNECTING"} ELSE {})]

(* Mutant of Watch: the socket is not activated. *)
WatchNothing(w, s) == watched' = w

(* iosocket_activate(): the engine watches s, and goes on watching w. *)
Watch(w, s) ==
    watched' = IF FreeFds = {} THEN w ELSE w \cup {<<LowestFree, s>>}

(* iosocket_deactivate() *)
Unwatched(s) == {x \in watched : x[2] # s}

(* iosocket_lookup_apply(): the families the lookups have in common. *)
UsableFamilies(look) ==
    {f \in Families : \A k \in Kinds :
        look[k].state = "done" => f \in look[k].found}

ChosenFamily(look, noip6) ==
    IF "AAAA" \in UsableFamilies(look) /\ ~ noip6 THEN "AAAA"
    ELSE IF "A" \in UsableFamilies(look) THEN "A" ELSE "none"

(* Mutant of AppliedFlags: going back to IPv4 leaves the flags. *)
KeepIPv6Flags(f, look, noip6) ==
    CASE ChosenFamily(look, noip6) = "AAAA" ->
            f \cup {"IPV6SOCKET"} \cup
                {x \in {"RECONNECT_IPV4"} : "A" \in UsableFamilies(look)}
      [] ChosenFamily(look, noip6) = "A" -> f
      [] OTHER -> f \cup {"DNSERROR"}

AppliedFlags(f, look, noip6) ==
    CASE ChosenFamily(look, noip6) = "AAAA" ->
            f \cup {"IPV6SOCKET"} \cup
                {x \in {"RECONNECT_IPV4"} : "A" \in UsableFamilies(look)}
      [] ChosenFamily(look, noip6) = "A" ->
            f \ {"IPV6SOCKET", "RECONNECT_IPV4"}
      [] OTHER -> f \cup {"DNSERROR"}

(* An address that was not looked up is dropped. *)
AppliedAddr(look, noip6) ==
    [k \in Kinds |-> IF look[k].state = "done"
                     THEN ChosenFamily(look, noip6) ELSE "none"]

(* socket_lookup_clear() *)
Cleared(look) ==
    [k \in Kinds |-> IF look[k].state = "done" THEN NoLookup ELSE look[k]]

(* iosocket_trigger_event(): the callback of a descriptor is called; about *)
(* names the socket that the handler goes on with when it returns.         *)
Trigger(s, event, about) ==
    /\ heard' = [heard EXCEPT ![s] = Append(@, event)]
    /\ cb' = [event |-> event, about |-> about]

Silent == UNCHANGED <<cb, heard>>

LookupsDone(look) == \A k \in Kinds : look[k].state # "pending"

(* iosocket_lookup_callback() when all lookups of s have ended, and the    *)
(* families of the answers leave one to use.                               *)
Apply(s, f, look) ==
    LET applied == AppliedFlags(f, look, FALSE)
        to == AppliedAddr(look, FALSE)
    IN
    /\ addr' = [addr EXCEPT ![s] = to]
    /\ IF "LISTENING" \in f
       THEN /\ lookup' = [lookup EXCEPT ![s] = Cleared(look)]
            /\ Finish(s, applied, to.bind, "listening")
       ELSE /\ lookup' = [lookup EXCEPT ![s] = look]
            /\ Finish(s, applied, to.dest, "connecting")
    /\ Watch(watched, s)

(* Mutant of CloseSocket: the descriptor is not closed. *)
CloseKeepsFd(s) ==
    /\ status' = [status EXCEPT ![s] = "CLOSED"]
    /\ flags' = [flags EXCEPT ![s] = {}]
    /\ addr' = [addr EXCEPT ![s] = [k \in Kinds |-> "none"]]
    /\ lookup' = [lookup EXCEPT ![s] = Cleared(@)]
    /\ fd' = [fd EXCEPT ![s] = 0]
    /\ watched' = Unwatched(s)
    /\ UNCHANGED <<kernel, clients>>

(* iosocket_close(): closing the descriptor takes it out of the engine,    *)
(* before _free_socket() wants to.                                         *)
CloseSocket(s) ==
    /\ status' = [status EXCEPT ![s] = "CLOSED"]
    /\ flags' = [flags EXCEPT ![s] = {}]
    /\ addr' = [addr EXCEPT ![s] = [k \in Kinds |-> "none"]]
    /\ lookup' = [lookup EXCEPT ![s] = Cleared(@)]
    /\ fd' = [fd EXCEPT ![s] = 0]
    /\ kernel' = [f \in Fds |-> IF f = fd[s] THEN Unused ELSE kernel[f]]
    /\ clients' = [f \in Fds |-> IF f = fd[s] THEN 0 ELSE clients[f]]
    /\ watched' = {x \in watched : x[1] # fd[s]}

-----------------------------------------------------------------------------
(* The functions of IOSockets.h, called by user code.                      *)

Exists(s) == status[s] \notin {"none", "CLOSED"}

LookupOf(host) == IF host = "name" THEN Pending ELSE NoLookup

(* Mutant of AddressOf: the result of parsing is not looked at. *)
AnyAddress(host) == host

(* iosocket_parse_address() *)
AddressOf(host) == IF host = "name" THEN "none" ELSE host

(* iosocket_connect_flags(): names are looked up, and an address of either *)
(* family is stored.  The family of the socket is not derived from it.     *)
Connect(s, r) ==
    /\ status[s] = "none"
    /\ status' = [status EXCEPT ![s] = "CONNECTING"]
    /\ asked' = [asked EXCEPT ![s] = r]
    /\ lookup' = [lookup EXCEPT ![s] = [k \in Kinds |-> LookupOf(r[k])]]
    /\ addr' = [addr EXCEPT ![s] = [k \in Kinds |-> AddressOf(r[k])]]
    /\ IF "name" \in {r.dest, r.bind}
       THEN UNCHANGED <<flags, fd, kernel, watched>>
       ELSE Finish(s, {}, r.dest, "connecting") /\ Watch(watched, s)
    /\ UNCHANGED <<clients, forgotten>>
    /\ Silent

(* iosocket_listen_flags() *)
Listen(s, host) ==
    /\ status[s] = "none"
    /\ status' = [status EXCEPT ![s] = "LISTENING"]
    /\ asked' = [asked EXCEPT ![s] = [dest |-> "none", bind |-> host]]
    /\ lookup' = [lookup EXCEPT ![s].bind = LookupOf(host)]
    /\ addr' = [addr EXCEPT ![s].bind = AddressOf(host)]
    /\ IF host = "name"
       THEN /\ flags' = [flags EXCEPT ![s] = {"LISTENING"}]
            /\ UNCHANGED <<fd, kernel, watched>>
       ELSE Finish(s, {"LISTENING"}, host, "listening") /\ Watch(watched, s)
    /\ UNCHANGED <<clients, forgotten>>
    /\ Silent

(* With c-ares a name may be answered within the call that asks for it.    *)
(* The answer goes on with the socket, and then the call does so again;    *)
(* what that leaves sound is here, the rest in Breaks.  If both names are  *)
(* looked up, the answer for dest only waits for the other one.            *)
ConnectAtOnce(s, r, found) ==
    LET look == [dest |-> Done(found), bind |-> LookupOf(r.bind)] IN
    /\ status[s] = "none" /\ r.dest = "name"
    /\ status' = [status EXCEPT ![s] = "CONNECTING"]
    /\ asked' = [asked EXCEPT ![s] = r]
    /\ IF LookupsDone(look)
       THEN /\ found # {} /\ Cardinality(FreeFds) < 2
            /\ Apply(s, {}, look)
       ELSE /\ lookup' = [lookup EXCEPT ![s] = look]
            /\ UNCHANGED <<flags, addr, fd, kernel, watched>>
    /\ UNCHANGED <<clients, forgotten>>
    /\ Silent

ListenAtOnce(s, host, found) ==
    /\ status[s] = "none" /\ host = "name"
    /\ found # {} /\ Cardinality(FreeFds) < 2
    /\ status' = [status EXCEPT ![s] = "LISTENING"]
    /\ asked' = [asked EXCEPT ![s] = [dest |-> "none", bind |-> host]]
    /\ Apply(s, {"LISTENING"}, [dest |-> NoLookup, bind |-> Done(found)])
    /\ UNCHANGED <<clients, forgotten>>
    /\ Silent

(* iosocket_close().  A lookup that is under way keeps its pointer to the  *)
(* socket, which is freed.                                                 *)
UserClose(s) ==
    /\ Exists(s)
    /\ CloseSocket(s)
    /\ UNCHANGED <<asked, forgotten>>
    /\ Silent

-----------------------------------------------------------------------------
(* What happens outside the program. *)

Kernel(f, from, to, data) ==
    /\ kernel[f].state = from
    /\ kernel' = [kernel EXCEPT ![f].state = to, ![f].data = data]
    /\ UNCHANGED <<sock, clients, watched, cb, asked, heard, forgotten>>

Handshaken(f) == Kernel(f, "connecting", "established", FALSE)

Refuse(f) == Kernel(f, "connecting", "failed", FALSE)

(* The program has yet to notice that f is connected.  What a peer sends   *)
(* later is of no interest here.                                           *)
Unnoticed(f) == \E s \in Sockets : fd[s] = f /\ Has(s, "CONNECTING")

PeerSends(f) ==
    /\ Unnoticed(f)
    /\ Kernel(f, "established", "established", TRUE)

PeerCloses(f) == Kernel(f, "established", "eof", kernel[f].data)

ClientArrives(f) ==
    /\ kernel[f].state = "listening"
    /\ clients[f] < MaxClients
    /\ clients' = [clients EXCEPT ![f] = @ + 1]
    /\ UNCHANGED <<sock, kernel, watched, cb, asked, heard, forgotten>>

-----------------------------------------------------------------------------
(* The handlers that the loop calls, when no callback runs. *)

(* iosocket_lookup_callback(): the last lookup to end goes on.  For the    *)
(* record of the answer, found is empty if the lookup failed.              *)
LookupAnswered(s, k, found) ==
    LET look == [lookup[s] EXCEPT ![k] = Done(found)]
        applied == AppliedFlags(flags[s], look, FALSE)
    IN
    /\ Exists(s)
    /\ lookup[s][k].state = "pending"
    /\ UNCHANGED <<status, clients, asked, forgotten>>
    /\ \/ /\ ~ LookupsDone(look)
          /\ lookup' = [lookup EXCEPT ![s] = look]
          /\ UNCHANGED <<flags, addr, fd, kernel, watched>>
          /\ Silent
       \/ /\ LookupsDone(look)
          /\ "DNSERROR" \in applied
          /\ lookup' = [lookup EXCEPT ![s] = look]
          /\ flags' = [flags EXCEPT ![s] = applied]
          /\ UNCHANGED <<addr, fd, kernel, watched>>
          /\ Trigger(s, "DNSFAILED", s)
       \/ /\ LookupsDone(look)
          /\ "DNSERROR" \notin applied
          /\ Apply(s, flags[s], look)
          /\ Silent

(* What the engine reports of s. *)
Watched(s) == <<fd[s], s>> \in watched

Readable(s) ==
    \/ kernel[fd[s]].state \in {"failed", "eof"}
    \/ kernel[fd[s]].data

Writeable(s) == kernel[fd[s]].state \in {"established", "eof", "failed"}

CanFallBack(s) == {"IPV6SOCKET", "RECONNECT_IPV4"} \subseteq flags[s]

(* iosocket_events_callback() for a socket that is connecting: readable is *)
(* taken for a failure.                                                    *)
CouldNotConnect(s) ==
    /\ Watched(s) /\ Has(s, "CONNECTING") /\ Readable(s)
    /\ ~ CanFallBack(s)
    /\ flags' = [flags EXCEPT ![s] = @ \cup {"DEAD"}]
    /\ UNCHANGED <<status, addr, lookup, fd, os, asked, forgotten>>
    /\ Trigger(s, "NOTCONNECTED", s)

(* The IPv6 descriptor is forgotten; it is not closed.  The name that is   *)
(* logged is that of the lookup for the address to connect to.             *)
FallBack(s) ==
    /\ Watched(s) /\ Has(s, "CONNECTING") /\ Readable(s)
    /\ CanFallBack(s)
    /\ lookup[s].dest.state = "done"
    /\ forgotten' = IF FreeFds = {} THEN forgotten ELSE forgotten + 1
    /\ addr' = [addr EXCEPT ![s] = AppliedAddr(lookup[s], TRUE)]
    /\ Finish(s, AppliedFlags(flags[s] \ {"ACTIVE"}, lookup[s], TRUE),
              AppliedAddr(lookup[s], TRUE).dest, "connecting")
    /\ Watch(Unwatched(s), s)
    /\ lookup' = [lookup EXCEPT ![s] = Cleared(@)]
    /\ UNCHANGED <<status, clients, asked>>
    /\ Silent

(* Mutants of Established: writeable is looked at before readable; the     *)
(* socket goes on connecting.                                              *)
EstablishedFirst(s) ==
    /\ Watched(s) /\ Has(s, "CONNECTING") /\ Writeable(s)
    /\ flags' = [flags EXCEPT ![s] = @ \ {"CONNECTING"}]
    /\ lookup' = [lookup EXCEPT ![s] = Cleared(@)]
    /\ status' = [status EXCEPT ![s] = "CONNECTED"]
    /\ UNCHANGED <<addr, fd, os, asked, forgotten>>
    /\ Trigger(s, "CONNECTED", s)

EstablishedAgain(s) ==
    /\ Watched(s) /\ Has(s, "CONNECTING") /\ ~ Readable(s) /\ Writeable(s)
    /\ lookup' = [lookup EXCEPT ![s] = Cleared(@)]
    /\ status' = [status EXCEPT ![s] = "CONNECTED"]
    /\ UNCHANGED <<flags, addr, fd, os, asked, forgotten>>
    /\ Trigger(s, "CONNECTED", s)

Established(s) ==
    /\ Watched(s) /\ Has(s, "CONNECTING") /\ ~ Readable(s) /\ Writeable(s)
    /\ flags' = [flags EXCEPT ![s] = @ \ {"CONNECTING"}]
    /\ lookup' = [lookup EXCEPT ![s] = Cleared(@)]
    /\ status' = [status EXCEPT ![s] = "CONNECTED"]
    /\ UNCHANGED <<addr, fd, os, asked, forgotten>>
    /\ Trigger(s, "CONNECTED", s)

(* The connection is at its end: recv() returns 0. *)
ConnectionLost(s) ==
    /\ Watched(s) /\ status[s] = "CONNECTED"
    /\ kernel[fd[s]].state = "eof"
    /\ flags' = [flags EXCEPT ![s] = @ \cup {"DEAD"}]
    /\ UNCHANGED <<status, addr, lookup, fd, os, asked, forgotten>>
    /\ Trigger(s, "CLOSED", s)

(* iosocket_accept_client(): s is the new socket.  When accept() fails the *)
(* client goes on waiting and the code goes on with the descriptor -1.     *)
AcceptClient(server, s) ==
    /\ Watched(server) /\ Has(server, "LISTENING")
    /\ clients[fd[server]] > 0
    /\ status[s] = "none"
    /\ status' = [status EXCEPT ![s] = "CONNECTED"]
    /\ flags' = [flags EXCEPT ![s] = {"INCOMING", "ACTIVE"} \cup
                    (flags[server] \cap {"IPV6SOCKET"})]
    /\ addr' = [addr EXCEPT ![s] =
                    [k \in Kinds |-> SocketFamily(flags[server])]]
    /\ IF FreeFds = {}
       THEN /\ fd' = [fd EXCEPT ![s] = -1]
            /\ UNCHANGED <<kernel, clients>>
       ELSE /\ fd' = [fd EXCEPT ![s] = LowestFree]
            /\ kernel' = [kernel EXCEPT ![LowestFree] =
                    [state |-> "established", to |-> "asked", data |-> FALSE]]
            /\ clients' = [clients EXCEPT ![fd[server]] = @ - 1]
    /\ Watch(watched, s)
    /\ UNCHANGED <<lookup, asked, forgotten>>
    /\ Trigger(server, "ACCEPT", server)

(* The callback returns.  A socket that is dead, or whose lookup failed,   *)
(* is closed, unless the callback did: iosocket_close() then only warns.   *)
(* If the callback closed it, the flags that are looked at are those of a  *)
(* freed socket, and whatever they say, nothing more is done.              *)
CallbackReturns ==
    /\ cb # NULL
    /\ cb' = NULL
    /\ IF Exists(cb.about) /\ flags[cb.about] \cap {"DEAD", "DNSERROR"} # {}
       THEN CloseSocket(cb.about)
       ELSE UNCHANGED <<sock, os>>
    /\ UNCHANGED <<asked, heard, forgotten>>

-----------------------------------------------------------------------------
(* The ways out of what the model describes. *)

(* The name is answered within iosocket_connect_flags().  If it was not    *)
(* found, that goes on with the socket, which the answer closed.  If the   *)
(* name to bind to was found, the answer connects, before there is an      *)
(* address to connect to.  If the other one was, both connect the socket.  *)
ConnectBreaks(s, r, k, found) ==
    /\ status[s] = "none" /\ r[k] = "name"
    /\ CASE k = "bind" -> found = {} \/ FreeFds # {}
         [] k = "dest" -> r.bind # "name" /\
                          (found = {} \/ Cardinality(FreeFds) >= 2)

(* The same within iosocket_listen_flags(). *)
ListenBreaks(s, host, found) ==
    /\ status[s] = "none" /\ host = "name"
    /\ found = {} \/ Cardinality(FreeFds) >= 2

(* The answer for a socket that was closed is written into it. *)
AnswerBreaks(s) ==
    /\ cb = NULL
    /\ status[s] = "CLOSED" /\ ~ LookupsDone(lookup[s])

(* There was no such lookup: the address was given as text, and the flags  *)
(* come from the name to bind to.  The pointer to the lookup is NULL.      *)
FallBackBreaks(s) ==
    /\ cb = NULL
    /\ Watched(s) /\ Has(s, "CONNECTING") /\ Readable(s)
    /\ CanFallBack(s)
    /\ lookup[s].dest.state # "done"

Break ==
    /\ ~ broken
    /\ broken' = TRUE
    /\ UNCHANGED <<sock, os, cb, asked, heard, forgotten>>

Breaks ==
    /\ \E s \in Sockets, found \in SUBSET Families :
          \/ \E r \in Requests, k \in Kinds : ConnectBreaks(s, r, k, found)
          \/ \E h \in Hosts : ListenBreaks(s, h, found)
          \/ AnswerBreaks(s) \/ FallBackBreaks(s)
    /\ Break

-----------------------------------------------------------------------------
UserCode ==
    \E s \in Sockets :
        \/ \E r \in Requests :
              \/ Connect(s, r)
              \/ \E found \in SUBSET Families : ConnectAtOnce(s, r, found)
        \/ \E h \in Hosts :
              \/ Listen(s, h)
              \/ \E found \in SUBSET Families : ListenAtOnce(s, h, found)
        \/ UserClose(s)

Answer == \E s \in Sockets, k \in Kinds, found \in SUBSET Families :
              cb = NULL /\ LookupAnswered(s, k, found)

Dispatch(s) ==
    /\ cb = NULL
    /\ \/ CouldNotConnect(s) \/ FallBack(s) \/ Established(s)
       \/ ConnectionLost(s)
       \/ \E server \in Sockets : AcceptClient(server, s)

Outside ==
    \E f \in Fds :
        \/ Handshaken(f) \/ Refuse(f)
        \/ PeerSends(f) \/ PeerCloses(f) \/ ClientArrives(f)

Runs(A) == ~ broken /\ A /\ UNCHANGED broken

Next ==
    \/ Runs(UserCode)
    \/ Runs(Answer)
    \/ \E s \in Sockets : Runs(Dispatch(s))
    \/ Runs(CallbackReturns)
    \/ Runs(Outside)
    \/ Breaks

Spec == Init /\ [][Next]_vars

(* The resolver answers each lookup, the kernel ends each attempt, user    *)
(* callbacks return and the loop dispatches what the engine reports.       *)
FairSpec ==
    /\ Spec
    /\ \A s \in Sockets :
          /\ \A k \in Kinds :
                SF_vars(Runs(\E found \in SUBSET Families :
                                 cb = NULL /\ LookupAnswered(s, k, found)))
          /\ SF_vars(Runs(Dispatch(s)) \/ (FallBackBreaks(s) /\ Break))
    /\ \A f \in Fds : WF_vars(Runs(Handshaken(f) \/ Refuse(f)))
    /\ SF_vars(Runs(CallbackReturns))

-----------------------------------------------------------------------------
TypeOK ==
    /\ status \in [Sockets -> {"none", "CLOSED", "LISTENING", "CONNECTING",
                               "CONNECTED"}]
    /\ flags \in [Sockets -> SUBSET {"ACTIVE", "LISTENING", "IPV6SOCKET",
                      "INCOMING", "CONNECTING", "DEAD", "RECONNECT_IPV4",
                      "DNSERROR"}]
    /\ addr \in [Sockets -> [Kinds -> Families \cup {"none"}]]
    /\ lookup \in [Sockets -> [Kinds ->
                      [state : {"none", "pending", "done"},
                       found : SUBSET Families]]]
    /\ fd \in [Sockets -> Fds \cup {0, -1}]
    /\ kernel \in [Fds ->
                      [state : {"unused", "connecting", "established", "failed",
                                "eof", "listening"},
                       to : {"none", "asked", "other"},
                       data : BOOLEAN]]
    /\ clients \in [Fds -> 0 .. MaxClients]
    /\ watched \subseteq Fds \X Sockets
    /\ cb = NULL \/ cb \in [event : EventNames, about : Sockets]
    /\ forgotten \in Nat
    /\ broken \in BOOLEAN

(* Every file descriptor that is open is that of one socket, apart from    *)
(* those the fallback to IPv4 forgot: no other path of connecting,         *)
(* accepting and closing leaks one, or closes that of somebody else.       *)
FdsAccounted ==
    LET owners == {s \in Sockets : fd[s] \in Fds} IN
    /\ \A s \in owners : kernel[fd[s]].state # "unused"
    /\ \A s, t \in owners : fd[s] = fd[t] => s = t
    /\ Cardinality(Fds \ FreeFds) = Cardinality(owners) + forgotten

(* The engine holds no pointer to a socket that is freed, or that went on  *)
(* to another file descriptor, and it has all that are active.             *)
WatchedIsLive ==
    /\ \A x \in watched : Exists(x[2]) /\ fd[x[2]] = x[1]
    /\ \A s \in Sockets : Has(s, "ACTIVE") /\ fd[s] \in Fds => Watched(s)

(* What becomes of the descriptors, in the system and in the engine. *)
DescriptorsSound == FdsAccounted /\ WatchedIsLive

(* What an event says of s is the case (IOSockets.h lines 161-169).        *)
EventIsTrue(event, s) ==
    CASE event = "NOTCONNECTED" -> kernel[fd[s]].state = "failed"
      [] event = "CONNECTED" -> kernel[fd[s]].state \in {"established", "eof"}
      [] event = "CLOSED" -> kernel[fd[s]].state = "eof"
      [] event = "DNSFAILED" -> fd[s] = 0
      [] OTHER -> TRUE

(* User code hears of a failure only after a failure, of a connection only *)
(* when there is one, and of its loss only when it was lost, except when   *)
(* the peer spoke or hung up before the program noticed the connection.    *)
EventsAreTrueUnlessEarly ==
    cb # NULL /\ Exists(cb.about) =>
        \/ EventIsTrue(cb.event, cb.about)
        \/ cb.event = "NOTCONNECTED" /\ Readable(cb.about)

(* What connects is connected with what user code asked for, also after    *)
(* falling back, if it asked for a name or for an IPv4 address.            *)
ConnectedAsAsked ==
    \A s \in Sockets :
        /\ status[s] = "CONNECTED" /\ fd[s] \in Fds
        /\ asked[s].dest # "AAAA"
        => kernel[fd[s]].to = "asked"

(* The life of a descriptor as SocketEvents has it. *)
Life(s) ==
    CASE status[s] = "none" -> "none"
      [] status[s] = "CLOSED" -> "closed"
      [] Exists(s) /\ flags[s] \cap {"DEAD", "DNSERROR"} # {} -> "ending"
      [] status[s] = "CONNECTING" /\ flags[s] \cap {"DEAD", "DNSERROR"} = {}
            -> "opening"
      [] status[s] = "LISTENING" /\ flags[s] \cap {"DEAD", "DNSERROR"} = {}
            -> "serving"
      [] status[s] = "CONNECTED" /\ flags[s] \cap {"DEAD", "DNSERROR"} = {}
            -> "open"

Events == INSTANCE SocketEvents WITH
    life <- [s \in Sockets |-> Life(s)]

(* User code hears of each descriptor what SocketEvents allows: one        *)
(* outcome of an attempt, the loss of a connection that was there, and     *)
(* nothing after the close.                                                *)
ImplementsSocketEvents == Events!Spec

(* An attempt to connect comes to an end, and so does the socket or it is  *)
(* connected: no lookup, failure or fallback leaves it where it is, if the *)
(* program goes on.                                                        *)
AttemptEndsUnlessBroken ==
    \A s \in Sockets :
        status[s] = "CONNECTING" ~> broken \/ status[s] # "CONNECTING"
=============================================================================
