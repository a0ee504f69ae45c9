-------------------------- MODULE IOEngineDispatch --------------------------
(***************************************************************************)
(* From the sockets of IOSockets.c to the system and back: how the engines *)
(* of IOEngine_epoll.c, IOEngine_kevent.c and IOEngine_select.c register a *)
(* descriptor, and how their loops visit the sockets that are ready, while *)
(* callbacks open and close others.  dnsengine_cares_update_sockets()      *)
(* registers the descriptors of c-ares, which it knows by their numbers    *)
(* only.                                                                   *)
(*                                                                         *)
(* Numbers of descriptors, and the memory of sockets, are used again, the  *)
(* lowest first.                                                           *)
(***************************************************************************)
EXTENDS Naturals, Sequences, FiniteSets, SequencesExt

CONSTANTS
    MaxSocks,   \* the places for an _IOSocket in memory
    MaxFds      \* the numbers of descriptors

ASSUME DispatchAssumption == MaxSocks \in Nat \ {0} /\ MaxFds \in Nat \ {0}

Socks == 1 .. MaxSocks

Fds == 1 .. MaxFds

NoSock == 0     \* NULL

VARIABLES
    engine,     \* "epoll", "kevent" or "select"
    list,       \* the sockets from iosocket_first on
    active,     \* those with IOSOCKETFLAG_ACTIVE
    fd,         \* their descriptors; 0 while the name is looked up
    fallback,   \* those that connect over IPv6, with an IPv4 address left
    wants,      \* what iosocket_wants_reads() and _writes() tell
    slot,       \* dnsengine_cares_sockets[0].iosock
    aresFd,     \* c-ares: the descriptor it has, or 0
    aresWants,  \* c-ares: ARES_GETSOCK_READABLE, ARES_GETSOCK_WRITABLE
    opened,     \* system: the numbers in use
    interest,   \* system: what is registered, and the socket to report
    batch,      \* the events that the loop did not come to yet
    bits,       \* select: read_fds and write_fds
    cursor,     \* select: iosock of the walk
    pc,         \* "loop", "serve", "callback", "ares" in ares_process_fd() or
                \* a call for a query, "update" behind it, "crashed"
    back,       \* where c-ares returns to
    pending,    \* history: what was reported in this round, and not served
    closed,     \* history: what was closed in this round, or left for IPv4:
                \* the numbers, and the socket the walk of select goes on with
    signal,     \* history: a signal ended the select() of this round
    reused      \* history: numbers c-ares closed, and that were used again
                \* before the engine was told

sockets == <<list, active, fd, fallback, wants>>
ares == <<slot, aresFd, aresWants>>
system == <<opened, interest>>
walk == <<batch, bits, cursor>>
round == <<walk, pending, closed, signal>>
vars == <<engine, sockets, ares, system, round, pc, back, reused>>

Directions == {"r", "w"}

Nothing == [d \in Directions |-> NoSock]

NoBits == [d \in Directions |-> {}]

Live == ToSet(list)

Init ==
    /\ engine \in {"epoll", "kevent", "select"}
    /\ list = <<>>
    /\ active = {}
    /\ fd = [s \in Socks |-> 0]
    /\ fallback = {}
    /\ wants = [s \in Socks |-> {}]
    /\ slot = NoSock /\ aresFd = 0 /\ aresWants = {}
    /\ opened = {}
    /\ interest = [f \in Fds |-> Nothing]
    /\ batch = <<>> /\ bits = NoBits /\ cursor = NoSock
    /\ pc = "loop" /\ back = "loop"
    /\ pending = {} /\ closed = {} /\ signal = FALSE
    /\ reused = {}

-----------------------------------------------------------------------------
(* The registrations: k is the system's table, f a number, s the socket    *)
(* that asks for w.  kevent() without room for events returns at the first *)
(* change that fails, and deleting what is not there fails.                *)

Asked(s, w) == [d \in Directions |-> IF d \in w THEN s ELSE NoSock]

(* engine_epoll_add(), engine_kevent_add() *)
EngineAdd(k, f, s, w) ==
    CASE engine = "epoll" ->
            IF k[f] = Nothing THEN [k EXCEPT ![f] = Asked(s, w)] ELSE k
      [] engine = "kevent" ->
            [k EXCEPT ![f] = [d \in Directions |->
                                 IF d \in w THEN s ELSE k[f][d]]]
      [] engine = "select" -> k

(* engine_epoll_remove(), engine_kevent_remove() *)
EngineRemove(k, f) ==
    CASE engine = "epoll" -> [k EXCEPT ![f] = Nothing]
      [] engine = "kevent" ->
            IF k[f]["r"] = NoSock THEN k ELSE [k EXCEPT ![f] = Nothing]
      [] engine = "select" -> k

(* Mutant of EngineUpdate: the descriptor is added instead. *)
EngineUpdateAdds(k, f, s, w) == EngineAdd(k, f, s, w)

(* engine_epoll_update(), engine_kevent_update() *)
EngineUpdate(k, f, s, w) ==
    CASE engine = "epoll" ->
            IF k[f] = Nothing THEN k ELSE [k EXCEPT ![f] = Asked(s, w)]
      [] engine = "kevent" ->
            IF "r" \notin w /\ k[f]["r"] = NoSock THEN k
            ELSE [k EXCEPT ![f] = Asked(s, w)]
      [] engine = "select" -> k

-----------------------------------------------------------------------------
(* User code, in a callback or from a timer, and what it reaches in        *)
(* IOSockets.c. *)

(* Bound: what c-ares calls back only lets sockets connect. *)
UserRuns == pc \in {"loop", "callback"}

(* The first of the places or numbers S that is not in T. *)
Lowest(S, T) == {n \in S \ T : \A m \in S \ T : n <= m}

(* _create_socket(): the socket is in the list, and inactive as long as    *)
(* its name is looked up.  Bound: a place is left for that of c-ares.      *)
Create(s) ==
    /\ UserRuns
    /\ s \in Lowest(Socks, Live)
    /\ Cardinality(Live \ {slot}) + 1 < Cardinality(Socks)
    /\ list' = Append(list, s)
    /\ wants' = [wants EXCEPT ![s] = {"r"}]
    /\ UNCHANGED <<engine, active, fd, fallback, ares, system, round, pc, back,
                   reused>>

(* A number that c-ares closed and the slot still holds. *)
Forgotten(f) == slot # NoSock /\ fd[slot] = f

Opens(f) ==
    /\ f \in Lowest(Fds, opened)
    /\ opened' = opened \cup {f}
    /\ reused' = IF Forgotten(f) THEN reused \cup {f} ELSE reused \ {f}

Directed == {{"r"}, {"r", "w"}}

(* iosocket_listen_finish() and iosocket_accept_client() register a new    *)
(* descriptor for reading, iosocket_connect_finish() for both.  That comes *)
(* with the last answer about the names, or within the call of the user    *)
(* for an address, or in the event of a listening socket, before its       *)
(* callback.  again: the names have addresses of both families.            *)
Activate(s, f, w, again) ==
    /\ UserRuns \/ pc = "ares"
    /\ s \in Live \ active /\ fd[s] = 0
    /\ again => "w" \in w
    /\ Opens(f)
    /\ fd' = [fd EXCEPT ![s] = f]
    /\ active' = active \cup {s}
    /\ wants' = [wants EXCEPT ![s] = w]
    /\ fallback' = IF again THEN fallback \cup {s} ELSE fallback
    /\ interest' = EngineAdd(interest, f, s, w)
    /\ UNCHANGED <<engine, list, ares, round, pc, back>>

(* Whatever changes what a socket wants ends in engine->update(); nothing  *)
(* does while it connects.                                                 *)
Want(s, w) ==
    /\ UserRuns
    /\ s \in active \ ({slot} \cup fallback)
    /\ wants' = [wants EXCEPT ![s] = w]
    /\ interest' = EngineUpdate(interest, fd[s], s, w)
    /\ UNCHANGED <<engine, list, active, fd, fallback, ares, opened, round, pc,
                   back, reused>>

(* The system forgets what was registered for a number that is closed. *)
Closed(k, f) == [k EXCEPT ![f] = Nothing]

Position(s) == CHOOSE i \in 1 .. Len(list) : list[i] = s

(* Mutant of Unlinked: it stays in the list. *)
StaysLinked(s) == list

Unlinked(s) == RemoveAt(list, Position(s))

Noted(things) ==
    IF pc = "callback" \/ back = "serve" THEN closed \cup things ELSE closed

(* s is freed, and may be where the walk of select goes on. *)
Forget(s) == IF s = cursor THEN {<<"next", s>>} ELSE {}

(* iosocket_close(), _free_socket(): closed first, then removed, by then   *)
(* without an effect.                                                      *)
Close(s) ==
    /\ UserRuns
    /\ s \in Live \ {slot}
    /\ list' = Unlinked(s)
    /\ active' = active \ {s}
    /\ fallback' = fallback \ {s}
    /\ IF fd[s] # 0
       THEN /\ opened' = opened \ {fd[s]}
            /\ interest' = Closed(interest, fd[s])
            /\ closed' = Noted(Forget(s) \cup {<<"fd", fd[s]>>})
            /\ reused' = reused \ {fd[s]}
       ELSE /\ closed' = Noted(Forget(s))
            /\ UNCHANGED <<system, reused>>
    /\ fd' = [fd EXCEPT ![s] = 0]
    /\ wants' = [wants EXCEPT ![s] = {}]
    /\ UNCHANGED <<engine, ares, walk, pending, signal, pc, back>>

-----------------------------------------------------------------------------
(* c-ares, as the code uses it: one connection to a server at a time. *)

(* User code asks for a name, or the timer of c-ares ends.  Bound: it asks *)
(* from timers, not between two events of a round.                         *)
CallAres ==
    /\ pc = "loop"
    /\ pc' = "ares"
    /\ back' = "loop"
    /\ UNCHANGED <<engine, sockets, ares, system, round, reused>>

AresOpens(f, w) ==
    /\ pc = "ares" /\ aresFd = 0
    /\ Opens(f)
    /\ aresFd' = f
    /\ aresWants' = w
    /\ UNCHANGED <<engine, sockets, slot, interest, round, pc, back>>

AresCloses ==
    /\ pc = "ares" /\ aresFd # 0
    /\ opened' = opened \ {aresFd}
    /\ interest' = Closed(interest, aresFd)
    /\ closed' = Noted({<<"fd", aresFd>>})
    /\ reused' = reused \ {aresFd}
    /\ aresFd' = 0
    /\ aresWants' = {}
    /\ UNCHANGED <<engine, sockets, slot, walk, pending, signal, pc, back>>

AresWants(w) ==
    /\ pc = "ares" /\ aresFd # 0
    /\ slot # NoSock /\ fd[slot] = aresFd
    /\ aresWants # w
    /\ aresWants' = w
    /\ UNCHANGED <<engine, sockets, slot, aresFd, system, round, pc, back,
                   reused>>

(* dnsengine_cares_update_sockets() frees the socket of a number that      *)
(* c-ares does not name any more, *)
Unregister ==
    /\ slot # NoSock /\ fd[slot] # aresFd
    /\ slot' = NoSock
    /\ interest' = EngineRemove(interest, fd[slot])
    /\ list' = Unlinked(slot)
    /\ active' = active \ {slot}
    /\ fd' = [fd EXCEPT ![slot] = 0]
    /\ wants' = [wants EXCEPT ![slot] = {}]
    /\ closed' = Noted(Forget(slot))
    /\ UNCHANGED <<pc, back>>

(* makes one for a number that is new to it, *)
Register ==
    /\ slot = NoSock /\ aresFd # 0
    /\ \E n \in Lowest(Socks, Live) :
          /\ slot' = n
          /\ list' = Append(list, n)
          /\ active' = active \cup {n}
          /\ fd' = [fd EXCEPT ![n] = aresFd]
          /\ wants' = [wants EXCEPT ![n] = aresWants]
          /\ interest' = EngineAdd(interest, aresFd, n, aresWants)
    /\ pc' = back /\ back' = "loop"
    /\ UNCHANGED closed

(* and tells the engine of one that it has when that wants something else. *)
Renew ==
    /\ slot # NoSock => fd[slot] = aresFd
    /\ slot = NoSock => aresFd = 0
    /\ IF slot = NoSock \/ wants[slot] = aresWants
       THEN UNCHANGED <<wants, interest>>
       ELSE /\ wants' = [wants EXCEPT ![slot] = aresWants]
            /\ interest' = EngineUpdate(interest, aresFd, slot, aresWants)
    /\ pc' = back /\ back' = "loop"
    /\ UNCHANGED <<slot, list, active, fd, closed>>

(* c-ares returned; from here on nothing comes between. *)
AresReturns ==
    /\ pc = "ares"
    /\ pc' = "update"
    /\ UNCHANGED <<engine, sockets, ares, system, round, back, reused>>

UpdateSockets ==
    /\ pc = "update"
    /\ Unregister \/ Register \/ Renew
    /\ UNCHANGED <<engine, fallback, aresFd, aresWants, opened, walk, pending,
                   signal, reused>>

-----------------------------------------------------------------------------
(* The loops. *)

(* What the system could report, and the events for the part R of it. *)
Reportable ==
    {p \in Fds \X Directions :
        IF engine = "select"
        THEN \E s \in active : fd[s] = p[1] /\ p[2] \in wants[s]
        ELSE interest[p[1]][p[2]] # NoSock}

Events(R) ==
    IF engine = "epoll"
    THEN {[sock |-> interest[p[1]][p[2]], from |-> p[1],
           ev |-> {d \in Directions : <<p[1], d>> \in R}] : p \in R}
    ELSE {[sock |-> interest[p[1]][p[2]], from |-> p[1], ev |-> {p[2]}] :
             p \in R}

(* epoll_wait(), kevent() *)
Wait(R) ==
    /\ pc = "loop" /\ engine # "select"
    /\ R \subseteq Reportable /\ R # {}
    /\ batch' \in SetToSeqs(Events(R))
    /\ pending' = R
    /\ pc' = "serve"
    /\ UNCHANGED <<engine, sockets, ares, system, bits, cursor, closed, signal,
                   back, reused>>

BitsOf(R) == [d \in Directions |-> {f \in Fds : <<f, d>> \in R}]

(* read_fds and write_fds are what select() leaves in them. *)
Select(R) ==
    /\ pc = "loop" /\ engine = "select"
    /\ R \subseteq Reportable /\ R # {}
    /\ bits' = BitsOf(R)
    /\ cursor' = list[1]
    /\ pending' = R
    /\ pc' = "serve"
    /\ UNCHANGED <<engine, sockets, ares, system, batch, closed, signal, back,
                   reused>>

(* A signal comes first: select() leaves the sets as they were given to it *)
(* and the walk goes over them.  The loops of the others skip the round.   *)
SelectInterrupted ==
    /\ pc = "loop" /\ engine = "select"
    /\ active # {}
    /\ bits' = BitsOf(Reportable)
    /\ cursor' = list[1]
    /\ signal' = TRUE
    /\ pc' = "serve"
    /\ UNCHANGED <<engine, sockets, ares, system, batch, pending, closed, back,
                   reused>>

(* A connection that is refused is readable. *)
Refused(event) == event.sock \in fallback /\ "r" \in event.ev

(* The socket is removed, and added with a descriptor for IPv4; that of    *)
(* IPv6 stays open.  Without a descriptor it stays removed.                *)
FallBack(s) ==
    /\ fallback' = fallback \ {s}
    /\ closed' = closed \cup {<<"fd", fd[s]>>}
    /\ \/ \E f \in Fds :
             /\ Opens(f)
             /\ fd' = [fd EXCEPT ![s] = f]
             /\ interest' =
                   EngineAdd(EngineRemove(interest, fd[s]), f, s, wants[s])
             /\ UNCHANGED active
       \/ /\ opened = Fds
          /\ active' = active \ {s}
          /\ interest' = EngineRemove(interest, fd[s])
          /\ UNCHANGED <<fd, opened, reused>>
    /\ UNCHANGED <<pc, back>>

(* A callback, or c-ares; one that connected is connected from here on. *)
Enter(s) ==
    /\ fallback' = fallback \ {s}
    /\ IF s = slot THEN pc' = "ares" /\ back' = "serve"
       ELSE pc' = "callback" /\ UNCHANGED back
    /\ UNCHANGED <<active, fd, system, closed, reused>>

(* iosocket_events_callback() *)
Serve(event) ==
    /\ event.sock \in Live
    /\ pending' = pending \ ({event.from} \X event.ev)
    /\ \/ Refused(event) /\ FallBack(event.sock)
       \/ ~ Refused(event) /\ Enter(event.sock)

RestOfBatch == Tail(batch)

ServeNext ==
    /\ pc = "serve" /\ engine # "select"
    /\ batch # <<>>
    /\ batch' = RestOfBatch
    /\ \/ Serve(Head(batch))
       \/ /\ Head(batch).sock \notin Live
          /\ pc' \in {"serve", "crashed"}
          /\ UNCHANGED <<active, fd, fallback, system, pending, closed, back,
                         reused>>
    /\ UNCHANGED <<engine, list, wants, ares, bits, cursor, signal>>

NextOf(s) ==
    IF Position(s) < Len(list) THEN list[Position(s) + 1] ELSE NoSock

(* Mutant of EventOf: one set stands for both. *)
EventOfBoth(s) ==
    [sock |-> s, from |-> fd[s],
     ev |-> {d \in Directions : \E e \in Directions : fd[s] \in bits[e]}]

EventOf(s) ==
    [sock |-> s, from |-> fd[s], ev |-> {d \in Directions : fd[s] \in bits[d]}]

(* The walk keeps the socket behind the one it visits. *)
Walk ==
    /\ pc = "serve" /\ engine = "select"
    /\ cursor \in active
    /\ cursor' = NextOf(cursor)
    /\ IF EventOf(cursor).ev # {} THEN Serve(EventOf(cursor))
       ELSE UNCHANGED <<active, fd, fallback, system, pending, closed, pc,
                        back, reused>>
    /\ UNCHANGED <<engine, list, wants, ares, batch, bits, signal>>

(* It was freed meanwhile. *)
WalkStrays ==
    /\ pc = "serve" /\ engine = "select"
    /\ cursor # NoSock /\ cursor \notin Live
    /\ pc' \in {"loop", "crashed"}
    /\ cursor' = NoSock
    /\ bits' = NoBits
    /\ pending' = {} /\ closed' = {} /\ signal' = FALSE
    /\ UNCHANGED <<engine, sockets, ares, system, batch, back, reused>>

(* Mutant of Stops: the walk stops at the first socket of which nothing is *)
(* reported.                                                               *)
StopsAtQuiet(s) == s \notin active \/ EventOf(s).ev = {}

(* The code returns at the first socket that is not active. *)
Stops(s) == s \notin active

RoundEnds ==
    /\ pc = "serve"
    /\ IF engine = "select"
       THEN cursor = NoSock \/ (cursor \in Live /\ Stops(cursor))
       ELSE batch = <<>>
    /\ pc' = "loop"
    /\ cursor' = NoSock
    /\ bits' = NoBits
    /\ pending' = {} /\ closed' = {} /\ signal' = FALSE
    /\ UNCHANGED <<engine, sockets, ares, system, batch, back, reused>>

CallbackReturns ==
    /\ pc = "callback"
    /\ pc' = "serve"
    /\ UNCHANGED <<engine, sockets, ares, system, round, back, reused>>

-----------------------------------------------------------------------------
Loop ==
    \/ \E R \in SUBSET (Fds \X Directions) : Wait(R) \/ Select(R)
    \/ SelectInterrupted
    \/ ServeNext \/ Walk \/ WalkStrays \/ RoundEnds
    \/ CallbackReturns \/ AresReturns \/ UpdateSockets

Sockets ==
    \E s \in Socks :
        \/ Create(s)
        \/ \E f \in Fds, w \in Directed, again \in BOOLEAN :
              Activate(s, f, w, again)
        \/ \E w \in {{"r"}, {"w"}, {"r", "w"}} : Want(s, w)
        \/ Close(s)

Ares ==
    \/ CallAres
    \/ \E f \in Fds, w \in Directed : AresOpens(f, w)
    \/ AresCloses
    \/ \E w \in Directed : AresWants(w)

Next ==
    \/ Loop
    \/ Sockets
    \/ Ares

Spec == Init /\ [][Next]_vars

-----------------------------------------------------------------------------
(* The types; the list holds the sockets that are not freed, once.         *)
TypeOK ==
    /\ engine \in {"epoll", "kevent", "select"}
    /\ list \in Seq(Socks)
    /\ \A i, j \in 1 .. Len(list) : list[i] = list[j] => i = j
    /\ \A s \in Socks : s \in Live <=> wants[s] # {}
    /\ active \subseteq Live
    /\ slot \in active \cup {NoSock}
    /\ fd \in [Socks -> Fds \cup {0}] /\ \A s \in active : fd[s] # 0
    /\ fallback \subseteq active
    /\ wants \in [Socks -> SUBSET Directions]
    /\ aresFd \in opened \cup {0} /\ aresWants \subseteq Directions
    /\ opened \subseteq Fds
    /\ interest \in [Fds -> [Directions -> Socks \cup {NoSock}]]
    /\ pending \subseteq Fds \X Directions
    /\ bits \in [Directions -> SUBSET Fds]
    /\ cursor \in Socks \cup {NoSock}
    /\ pc \in {"loop", "serve", "callback", "ares", "update", "crashed"}
    /\ back \in {"loop", "serve"}
    /\ closed \subseteq ({"next"} \X Socks) \cup ({"fd"} \X Fds)
    /\ signal \in BOOLEAN
    /\ reused \subseteq Fds

(* Whatever was opened, changed and closed, under numbers used again: what *)
(* the engine has registered is what the sockets want, to be reported for  *)
(* them.  A number that c-ares closed, and that was used again before the  *)
(* engine was told, may be without a registration.                         *)
RegisteredAsWanted ==
    engine # "select" /\ pc \in {"loop", "callback", "serve"} =>
        /\ \A s \in active \ {t \in Live : fd[t] \in reused} :
              interest[fd[s]] = Asked(s, wants[s])
        /\ \A f \in Fds, d \in Directions : interest[f][d] # NoSock =>
              interest[f][d] \in active /\ fd[interest[f][d]] = f

(* The event that is next. *)
Event == IF engine = "select" THEN EventOf(cursor) ELSE Head(batch)

(* A step of the loop is a visit of a socket. *)
Visits == pc = "serve" /\ (pc' \in {"callback", "ares"} \/ fallback' # fallback)

(* An event goes to the socket that its descriptor belongs to, and tells   *)
(* what was reported and not yet served, unless what had its number was    *)
(* closed by a callback of the same round, or left it to connect again, or *)
(* a signal ended select().                                                *)
EventsAreReal ==
    [][(Visits /\ ~ signal /\ <<"fd", Event.from>> \notin closed) =>
          /\ fd[Event.sock] = Event.from
          /\ {Event.from} \X Event.ev \subseteq pending]_vars

(* A socket that waits for its name, or got no descriptor, is in front. *)
BehindInactive(s) ==
    engine = "select" /\ \E i \in 1 .. Position(s) - 1 : list[i] \notin active

(* When a round ends, every socket that is open and was reported has been  *)
(* served, unless the walk of select stopped in front of it or came to a   *)
(* socket that was freed, or its number was closed or left in this round.  *)
ReportedIsServed ==
    [][RoundEnds =>
          \A s \in active :
              ({fd[s]} \X Directions) \cap pending # {} =>
                 \/ BehindInactive(s)
                 \/ \E t \in Socks : <<"next", t>> \in closed
                 \/ <<"fd", fd[s]>> \in closed]_vars
=============================================================================
