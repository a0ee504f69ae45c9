----------------------- MODULE IOSocketConnectProofs -----------------------
(***************************************************************************)
(* Proofs about how sockets come and go, for any number of them, of file   *)
(* descriptors and of clients that wait.                                   *)
(*                                                                         *)
(* The properties of the runs speak of what is there: descriptors, events, *)
(* connections.  They are kept because of what is there only for a while:  *)
(* while a name is looked up a socket has nothing but flags (Looking); a   *)
(* socket is dead only within its callback (EndsInCallback); and what is   *)
(* known of the lookups stays for as long as the attempt may fall back     *)
(* (FallBackKnows).                                                        *)
(***************************************************************************)
EXTENDS IOSocketConnect, SequenceTheorems, FiniteSetTheorems, TLAPS

-----------------------------------------------------------------------------
(* The inductive invariant, for each socket. *)

Idle(s) == status[s] \in {"none", "CLOSED"} => flags[s] = {} /\ fd[s] = 0

StillLooksUp(s) == \E k \in Kinds : lookup[s][k].state = "pending"

(* A lookup whose socket was closed goes on: of that one nothing is said.  *)
Looking(s) ==
    status[s] # "CLOSED" /\ StillLooksUp(s) =>
        /\ status[s] \in {"CONNECTING", "LISTENING"}
        /\ fd[s] = 0
        /\ flags[s] = IF status[s] = "LISTENING" THEN {"LISTENING"} ELSE {}

FlagsAsStatus(s) ==
    /\ Has(s, "CONNECTING") => status[s] = "CONNECTING"
    /\ Has(s, "LISTENING") <=> status[s] = "LISTENING"

EndsInCallback(s) ==
    flags[s] \cap {"DEAD", "DNSERROR"} # {} => cb # NULL /\ cb.about = s

MayFallBack(s) == Has(s, "CONNECTING") /\ CanFallBack(s)

FallBackKnows(s) == MayFallBack(s) => "A" \in UsableFamilies(lookup[s])

GoesWhereAsked(s) ==
    status[s] \in {"CONNECTING", "CONNECTED"} /\ fd[s] \in Fds /\ asked[s].dest # "AAAA"
    => kernel[fd[s]].to = "asked" \/ kernel[fd[s]].state = "failed"

ConnectedIsUp(s) ==
    status[s] = "CONNECTED" /\ fd[s] \in Fds =>
        kernel[fd[s]].state \in {"established", "eof"}

AskedTyped ==
    asked \in [Sockets -> [dest : Families \cup {"name", "none"},
                           bind : Families \cup {"name", "none"}]]

DataFromPeer ==
    \A f \in Fds : kernel[f].data => kernel[f].state \in {"established", "eof"}

SocketInv(s) ==
    /\ Idle(s)
    /\ Looking(s)
    /\ FlagsAsStatus(s)
    /\ EndsInCallback(s)
    /\ FallBackKnows(s)
    /\ GoesWhereAsked(s)
    /\ ConnectedIsUp(s)

(* The callback that runs is that of a descriptor that is in use or closed, *)
(* and if it speaks of a connection there is a file descriptor.            *)
CallbackOfSocket ==
    cb # NULL =>
        /\ status[cb.about] # "none"
        /\ Exists(cb.about) /\ cb.event \in {"CONNECTED", "NOTCONNECTED", "CLOSED"}
           => fd[cb.about] \in Fds

IInv ==
    /\ TypeOK
    /\ AskedTyped
    /\ DataFromPeer
    /\ \A s \in Sockets : SocketInv(s)
    /\ DescriptorsSound
    /\ CallbackOfSocket
    /\ EventsAreTrueUnlessEarly

-----------------------------------------------------------------------------
(* File descriptors. *)

LEMMA Least ==
    ASSUME NEW S, S \subseteq Nat, S # {}
    PROVE  \E n \in S : \A m \in S : n <= m
<1> DEFINE R == OpToRel(<, Nat)
<1>1. \A x, y \in Nat : <<x, y>> \in R <=> x < y BY Zenon DEF OpToRel
<1>2. IsWellFoundedOn(R, Nat) BY NatLessThanWellFounded, Zenon
<1> HIDE DEF R
<1>3. PICK x \in S : \A y \in S : ~ (<<y, x>> \in R) BY <1>2, WFMin
<1>4. \A y \in S : ~ (y < x) BY <1>1, <1>3
<1>5. \A y \in S : x <= y BY <1>4
<1> QED BY <1>5

(* socket() returns a descriptor that nobody has. *)
LEMMA LowestIsFree ==
    ASSUME FreeFds # {}
    PROVE  LowestFree \in Fds /\ kernel[LowestFree].state = "unused"
<1>1. MaxFd \in Nat BY ConnectAssumption
<1>2. FreeFds \subseteq Nat BY <1>1 DEF FreeFds, Fds
<1>3. \E f \in FreeFds : \A g \in FreeFds : f <= g BY <1>2, Least
<1>4. LowestFree \in FreeFds BY <1>3 DEF LowestFree
<1> QED BY <1>4 DEF FreeFds

Owners == {s \in Sockets : fd[s] \in Fds}

Used == {f \in Fds : kernel[f].state # "unused"}

OwnersHaveTheirs ==
    /\ \A s \in Owners : fd[s] \in Used
    /\ \A s, t \in Owners : fd[s] = fd[t] => s = t
    /\ Cardinality(Used) = Cardinality(Owners) + forgotten

(* FdsAccounted, with names for its sets. *)
LEMMA Accounted == FdsAccounted <=> OwnersHaveTheirs
<1>1. Fds \ FreeFds = Used BY DEF FreeFds, Used
<1>2. \A s \in Owners : fd[s] \in Used <=> kernel[fd[s]].state # "unused"
  BY DEF Owners, Used
<1> QED BY <1>1, <1>2 DEF FdsAccounted, Owners, OwnersHaveTheirs

LEMMA AccountedNext == FdsAccounted' <=> OwnersHaveTheirs'
BY Accounted, PTL

(* Both sets are finite, whatever Sockets is. *)
LEMMA Finite ==
    ASSUME TypeOK, FdsAccounted
    PROVE  /\ IsFiniteSet(Used) /\ IsFiniteSet(Owners)
           /\ Cardinality(Used) \in Nat /\ Cardinality(Owners) \in Nat
<1>1. IsFiniteSet(Fds)
  <2>1. 1 \in Int /\ MaxFd \in Int BY ConnectAssumption
  <2> QED BY <2>1, FS_Interval DEF Fds
<1>2. IsFiniteSet(Used) BY <1>1, FS_Subset DEF Used
<1>3. IsFiniteSet(Owners)
  <2> DEFINE g == [s \in Owners |-> fd[s]]
  <2>1. g \in [Owners -> Fds] BY DEF Owners
  <2>2. \A s, t \in Owners : g[s] = g[t] => s = t BY Accounted DEF OwnersHaveTheirs
  <2>3. g \in Injection(Owners, Fds) BY <2>1, <2>2 DEF Injection, IsInjective
  <2> QED BY <1>1, <2>3, FS_Injection
<1> QED BY <1>2, <1>3, FS_CardinalityType

(* A new descriptor is opened for s, and the engine watches it. *)
LEMMA Opened ==
    ASSUME TypeOK, DescriptorsSound,
           NEW s \in Sockets, fd[s] \notin Fds,
           NEW l \in Fds, kernel[l].state = "unused",
           fd' = [fd EXCEPT ![s] = l],
           \A f \in Fds : f # l => kernel'[f] = kernel[f],
           kernel'[l].state # "unused",
           watched' = watched \cup {<<l, s>>},
           forgotten' = forgotten,
           Exists(s)',
           \A t \in Sockets : t # s => status'[t] = status[t] /\ flags'[t] = flags[t]
    PROVE  DescriptorsSound'
<1>1. /\ \A t \in Owners : fd[t] \in Used
      /\ \A t, u \in Owners : fd[t] = fd[u] => t = u
      /\ Cardinality(Used) = Cardinality(Owners) + forgotten
  BY Accounted DEF DescriptorsSound, OwnersHaveTheirs
<1>2. /\ fd \in [Sockets -> Fds \cup {0, -1}] /\ forgotten \in Nat
      /\ watched \subseteq Fds \X Sockets
  BY DEF TypeOK
<1>3. fd'[s] = l /\ \A t \in Sockets : t # s => fd'[t] = fd[t] BY <1>2
<1>4. Owners' = Owners \cup {s} /\ s \notin Owners BY <1>3 DEF Owners, Fds
<1>5. Used' = Used \cup {l} /\ l \notin Used BY DEF Used, Fds
<1>6. FdsAccounted'
  <2>1. \A t \in Owners' : fd'[t] \in Used' BY <1>1, <1>3, <1>4, <1>5 DEF Owners
  <2>2. \A t \in Owners : fd'[t] = fd[t] /\ fd[t] # l
    BY <1>1, <1>3, <1>4, <1>5 DEF Owners
  <2>3. \A t, u \in Owners' : fd'[t] = fd'[u] => t = u BY <1>1, <1>3, <1>4, <2>2
  <2>4. /\ Cardinality(Used') = Cardinality(Used) + 1
        /\ Cardinality(Owners') = Cardinality(Owners) + 1
    <3>1. IsFiniteSet(Used) /\ IsFiniteSet(Owners) BY Finite DEF DescriptorsSound
    <3> QED BY <1>4, <1>5, <3>1, FS_AddElement
  <2>5. Cardinality(Used)' = Cardinality(Owners)' + forgotten'
    <3>1. Cardinality(Owners) \in Nat BY Finite DEF DescriptorsSound
    <3> QED BY <1>1, <1>2, <2>4, <3>1
  <2> QED BY <2>1, <2>3, <2>5, AccountedNext DEF OwnersHaveTheirs
<1>7. WatchedIsLive'
  <2>1. ASSUME NEW x \in watched' PROVE Exists(x[2])' /\ fd'[x[2]] = x[1]
    <3>1. CASE x \in watched
      <4>1. x[2] \in Sockets /\ x[1] \in Fds /\ fd[x[2]] = x[1] /\ Exists(x[2])
        BY <1>2, <3>1 DEF DescriptorsSound, WatchedIsLive
      <4>2. x[2] # s BY <4>1
      <4> QED BY <1>3, <4>1, <4>2 DEF Exists
    <3>2. CASE x = <<l, s>> BY <1>3, <3>2
    <3> QED BY <3>1, <3>2
  <2>2. ASSUME NEW t \in Sockets, "ACTIVE" \in flags'[t], fd'[t] \in Fds
        PROVE  <<fd'[t], t>> \in watched'
    <3>1. CASE t = s BY <1>3, <3>1
    <3>2. CASE t # s BY <1>3, <2>2, <3>2 DEF DescriptorsSound, WatchedIsLive, Has, Watched
    <3> QED BY <3>1, <3>2
  <2> QED BY <2>1, <2>2 DEF WatchedIsLive, Has, Watched, Fds
<1> QED BY <1>6, <1>7 DEF DescriptorsSound

(* Another descriptor is opened for s, and the one it had is forgotten. *)
LEMMA Replaced ==
    ASSUME TypeOK, DescriptorsSound,
           NEW s \in Sockets, fd[s] \in Fds,
           NEW l \in Fds, kernel[l].state = "unused",
           fd' = [fd EXCEPT ![s] = l],
           \A f \in Fds : f # l => kernel'[f] = kernel[f],
           kernel'[l].state # "unused",
           watched' = Unwatched(s) \cup {<<l, s>>},
           forgotten' = forgotten + 1,
           Exists(s)',
           \A t \in Sockets : t # s => status'[t] = status[t] /\ flags'[t] = flags[t]
    PROVE  DescriptorsSound'
<1>1. /\ \A t \in Owners : fd[t] \in Used
      /\ \A t, u \in Owners : fd[t] = fd[u] => t = u
      /\ Cardinality(Used) = Cardinality(Owners) + forgotten
  BY Accounted DEF DescriptorsSound, OwnersHaveTheirs
<1>2. /\ fd \in [Sockets -> Fds \cup {0, -1}] /\ forgotten \in Nat
      /\ watched \subseteq Fds \X Sockets
  BY DEF TypeOK
<1>3. fd'[s] = l /\ \A t \in Sockets : t # s => fd'[t] = fd[t] BY <1>2
<1>4. Owners' = Owners BY <1>3 DEF Owners, Fds
<1>5. Used' = Used \cup {l} /\ l \notin Used BY DEF Used, Fds
<1>6. FdsAccounted'
  <2>1. \A t \in Owners' : fd'[t] \in Used' BY <1>1, <1>3, <1>4, <1>5 DEF Owners
  <2>2. \A t \in Owners : t # s => fd'[t] = fd[t] /\ fd[t] # l
    BY <1>1, <1>3, <1>4, <1>5 DEF Owners
  <2>3. \A t, u \in Owners' : fd'[t] = fd'[u] => t = u BY <1>1, <1>3, <1>4, <2>2
  <2>4. Cardinality(Used') = Cardinality(Used) + 1
    <3>1. IsFiniteSet(Used) BY Finite DEF DescriptorsSound
    <3> QED BY <1>5, <3>1, FS_AddElement
  <2>5. Cardinality(Used)' = Cardinality(Owners)' + forgotten'
    <3>1. Cardinality(Owners) \in Nat BY Finite DEF DescriptorsSound
    <3> QED BY <1>1, <1>2, <1>4, <2>4, <3>1
  <2> QED BY <2>1, <2>3, <2>5, AccountedNext DEF OwnersHaveTheirs
<1>7. WatchedIsLive'
  <2>1. ASSUME NEW x \in watched' PROVE Exists(x[2])' /\ fd'[x[2]] = x[1]
    <3>1. CASE x \in Unwatched(s)
      <4>1. x[2] \in Sockets /\ fd[x[2]] = x[1] /\ Exists(x[2]) /\ x[2] # s
        BY <1>2, <3>1 DEF DescriptorsSound, WatchedIsLive, Unwatched
      <4> QED BY <1>3, <4>1 DEF Exists
    <3>2. CASE x = <<l, s>> BY <1>3, <3>2
    <3> QED BY <3>1, <3>2
  <2>2. ASSUME NEW t \in Sockets, "ACTIVE" \in flags'[t], fd'[t] \in Fds
        PROVE  <<fd'[t], t>> \in watched'
    <3>1. CASE t = s BY <1>3, <3>1
    <3>2. CASE t # s
      <4>1. <<fd[t], t>> \in watched
        BY <1>3, <2>2, <3>2 DEF DescriptorsSound, WatchedIsLive, Has, Watched
      <4> QED BY <1>3, <3>2, <4>1 DEF Unwatched
    <3> QED BY <3>1, <3>2
  <2> QED BY <2>1, <2>2 DEF WatchedIsLive, Has, Watched, Fds
<1> QED BY <1>6, <1>7 DEF DescriptorsSound

(* No descriptor is opened or closed. *)
LEMMA NoneOpened ==
    ASSUME TypeOK, DescriptorsSound, TypeOK',
           \A s \in Sockets : fd'[s] = fd[s] \/ (fd[s] \notin Fds /\ fd'[s] \notin Fds),
           \A f \in Fds : kernel'[f].state = "unused" <=> kernel[f].state = "unused",
           watched' \subseteq watched,
           \A x \in watched \ watched' : "ACTIVE" \notin flags'[x[2]],
           forgotten' = forgotten,
           \A s \in Sockets : Exists(s) => Exists(s)',
           \A s \in Sockets :
              "ACTIVE" \in flags'[s] => "ACTIVE" \in flags[s] \/ fd[s] \notin Fds
    PROVE  DescriptorsSound'
<1>1. OwnersHaveTheirs BY Accounted DEF DescriptorsSound
<1>2. Owners' = Owners /\ \A s \in Owners : fd'[s] = fd[s] BY DEF Owners, Fds
<1>3. Used' = Used BY DEF Used, Fds
<1>4. FdsAccounted'
  <2>1. \A s \in Owners' : fd'[s] \in Used' BY <1>1, <1>2, <1>3 DEF OwnersHaveTheirs
  <2>2. \A s, t \in Owners' : fd'[s] = fd'[t] => s = t
    BY <1>1, <1>2 DEF OwnersHaveTheirs
  <2>3. Cardinality(Used)' = Cardinality(Owners)' + forgotten'
    BY <1>1, <1>2, <1>3 DEF OwnersHaveTheirs
  <2> QED BY <2>1, <2>2, <2>3, AccountedNext DEF OwnersHaveTheirs
<1>5. WatchedIsLive'
  <2>1. ASSUME NEW x \in watched' PROVE Exists(x[2])' /\ fd'[x[2]] = x[1]
    <3>1. x[2] \in Sockets /\ x[1] \in Fds /\ fd[x[2]] = x[1] /\ Exists(x[2])
      BY <2>1 DEF TypeOK, DescriptorsSound, WatchedIsLive
    <3> QED BY <3>1
  <2>2. ASSUME NEW t \in Sockets, "ACTIVE" \in flags'[t], fd'[t] \in Fds
        PROVE  <<fd'[t], t>> \in watched'
    <3>1. fd'[t] = fd[t] /\ fd[t] \in Fds BY <2>2
    <3>2. <<fd[t], t>> \in watched
      BY <2>2, <3>1 DEF DescriptorsSound, WatchedIsLive, Has, Watched
    <3> DEFINE x == <<fd[t], t>>
    <3>3. x[2] = t OBVIOUS
    <3> HIDE DEF x
    <3>4. x \in watched BY <3>2 DEF x
    <3>5. x \in watched' BY <2>2, <3>3, <3>4
    <3> QED BY <3>1, <3>5 DEF x
  <2> QED BY <2>1, <2>2 DEF WatchedIsLive, Has, Watched, Fds
<1> QED BY <1>4, <1>5 DEF DescriptorsSound

(* iosocket_close() *)
LEMMA Closed ==
    ASSUME TypeOK, DescriptorsSound, NEW s \in Sockets, CloseSocket(s),
           forgotten' = forgotten
    PROVE  DescriptorsSound'
<1>1. /\ \A t \in Owners : fd[t] \in Used
      /\ \A t, u \in Owners : fd[t] = fd[u] => t = u
      /\ Cardinality(Used) = Cardinality(Owners) + forgotten
  BY Accounted DEF DescriptorsSound, OwnersHaveTheirs
<1>2. /\ fd \in [Sockets -> Fds \cup {0, -1}] /\ forgotten \in Nat
      /\ watched \subseteq Fds \X Sockets
      /\ status \in [Sockets -> {"none", "CLOSED", "LISTENING", "CONNECTING", "CONNECTED"}]
  BY DEF TypeOK
<1>3. /\ fd' = [fd EXCEPT ![s] = 0]
      /\ status' = [status EXCEPT ![s] = "CLOSED"]
      /\ flags' = [flags EXCEPT ![s] = {}]
      /\ kernel' = [f \in Fds |-> IF f = fd[s] THEN Unused ELSE kernel[f]]
      /\ watched' = {x \in watched : x[1] # fd[s]}
  BY DEF CloseSocket
<1>4. 0 \notin Fds BY ConnectAssumption DEF Fds
<1>5. fd'[s] = 0 /\ \A t \in Sockets : t # s => fd'[t] = fd[t] BY <1>2, <1>3
<1>6. Owners' = Owners \ {s} BY <1>4, <1>5 DEF Owners, Fds
<1>7. Used' = Used \ {fd[s]} BY <1>3 DEF Used, Unused, Fds
<1>8. FdsAccounted'
  <2>1. \A t \in Owners' : fd'[t] \in Used'
    <3> SUFFICES ASSUME NEW t \in Owners, t # s PROVE fd[t] \in Used /\ fd[t] # fd[s]
      BY <1>5, <1>6, <1>7 DEF Owners
    <3> QED BY <1>1, <1>2 DEF Owners
  <2>2. \A t, u \in Owners' : fd'[t] = fd'[u] => t = u BY <1>1, <1>5, <1>6 DEF Owners
  <2>3. Cardinality(Used)' = Cardinality(Owners)' + forgotten'
    <3>1. /\ IsFiniteSet(Used) /\ IsFiniteSet(Owners)
          /\ Cardinality(Used) \in Nat /\ Cardinality(Owners) \in Nat
      BY Finite DEF DescriptorsSound
    <3>2. /\ Cardinality(Used \ {fd[s]}) =
                IF fd[s] \in Used THEN Cardinality(Used) - 1 ELSE Cardinality(Used)
          /\ Cardinality(Owners \ {s}) =
                IF s \in Owners THEN Cardinality(Owners) - 1 ELSE Cardinality(Owners)
      BY <3>1, FS_RemoveElement
    <3>3. fd[s] \in Used <=> s \in Owners BY <1>1 DEF Owners, Used
    <3> QED BY <1>1, <1>2, <1>6, <1>7, <3>1, <3>2, <3>3
  <2> QED BY <2>1, <2>2, <2>3, AccountedNext DEF OwnersHaveTheirs
<1>9. WatchedIsLive'
  <2>1. ASSUME NEW x \in watched' PROVE Exists(x[2])' /\ fd'[x[2]] = x[1]
    <3>1. /\ x[2] \in Sockets /\ x[1] \in Fds /\ fd[x[2]] = x[1] /\ Exists(x[2])
          /\ x[1] # fd[s]
      BY <1>2, <1>3, <2>1 DEF DescriptorsSound, WatchedIsLive
    <3>2. x[2] # s BY <3>1
    <3> QED BY <1>2, <1>3, <1>5, <3>1, <3>2 DEF Exists
  <2>2. ASSUME NEW t \in Sockets, "ACTIVE" \in flags'[t], fd'[t] \in Fds
        PROVE  <<fd'[t], t>> \in watched'
    <3>1. t # s BY <1>4, <1>5, <2>2
    <3>2. fd'[t] = fd[t] /\ flags'[t] = flags[t]
      BY <1>3, <1>5, <3>1 DEF TypeOK
    <3>3. <<fd[t], t>> \in watched
      BY <2>2, <3>2 DEF DescriptorsSound, WatchedIsLive, Has, Watched
    <3>4. fd[t] # fd[s] BY <1>1, <2>2, <3>1, <3>2 DEF Owners
    <3> DEFINE x == <<fd[t], t>>
    <3>5. x \in watched /\ x[1] = fd[t] BY <3>3
    <3> HIDE DEF x
    <3>6. x \in watched' BY <1>3, <3>4, <3>5
    <3> QED BY <3>2, <3>6 DEF x
  <2> QED BY <2>1, <2>2 DEF WatchedIsLive, Has, Watched, Fds
<1> QED BY <1>8, <1>9 DEF DescriptorsSound

-----------------------------------------------------------------------------
(* What is kept by a step that is about something else. *)

(* What is behind f goes on as it may by itself. *)
GoesOn(f) ==
    /\ kernel'[f].to = kernel[f].to
    /\ kernel[f].state = "failed" => kernel'[f].state = "failed"
    /\ kernel[f].state = "eof" => kernel'[f].state = "eof"
    /\ kernel[f].state = "established" => kernel'[f].state \in {"established", "eof"}
    /\ kernel[f].data => kernel'[f].data

Untouched(s) ==
    /\ status'[s] = status[s] /\ flags'[s] = flags[s] /\ lookup'[s] = lookup[s]
    /\ fd'[s] = fd[s] /\ asked'[s] = asked[s]
    /\ fd[s] \in Fds => GoesOn(fd[s])

LEMMA SocketKept ==
    ASSUME NEW s \in Sockets, SocketInv(s), Untouched(s),
           cb' = cb \/ flags[s] \cap {"DEAD", "DNSERROR"} = {}
    PROVE  SocketInv(s)'
<1>1. Idle(s)' BY DEF SocketInv, Untouched, Idle
<1>2. Looking(s)' BY DEF SocketInv, Untouched, Looking, StillLooksUp
<1>3. FlagsAsStatus(s)' BY DEF SocketInv, Untouched, FlagsAsStatus, Has
<1>4. EndsInCallback(s)' BY DEF SocketInv, Untouched, EndsInCallback
<1>5. MayFallBack(s)' <=> MayFallBack(s) BY DEF Untouched, MayFallBack, CanFallBack, Has
<1>6. FallBackKnows(s)' BY <1>5 DEF SocketInv, Untouched, FallBackKnows
<1>7. GoesWhereAsked(s)'
  BY DEF SocketInv, Untouched, GoesWhereAsked, GoesOn, Fds
<1>8. ConnectedIsUp(s)' BY DEF SocketInv, Untouched, ConnectedIsUp, GoesOn, Fds
<1> QED
  BY <1>1, <1>2, <1>3, <1>4, <1>6, <1>7, <1>8 DEF SocketInv

(* The event that is being told of stays true. *)
LEMMA EventKept ==
    ASSUME CallbackOfSocket, EventsAreTrueUnlessEarly, TypeOK, cb' = cb,
           cb # NULL =>
              \/ status'[cb.about] = "CLOSED"
              \/ /\ status'[cb.about] = status[cb.about] /\ fd'[cb.about] = fd[cb.about]
                 /\ fd[cb.about] \in Fds => GoesOn(fd[cb.about])
    PROVE  (CallbackOfSocket /\ EventsAreTrueUnlessEarly)'
<1>1. CASE cb = NULL BY <1>1 DEF CallbackOfSocket, EventsAreTrueUnlessEarly
<1>2. CASE cb # NULL /\ status'[cb.about] = "CLOSED"
  <2>1. ~ Exists(cb.about)' BY <1>2 DEF Exists
  <2> QED BY <1>2, <2>1 DEF CallbackOfSocket, EventsAreTrueUnlessEarly, Exists
<1>3. CASE /\ cb # NULL
           /\ status'[cb.about] = status[cb.about] /\ fd'[cb.about] = fd[cb.about]
           /\ fd[cb.about] \in Fds => GoesOn(fd[cb.about])
  <2>1. Exists(cb.about)' <=> Exists(cb.about) BY <1>3 DEF Exists
  <2>2. CallbackOfSocket' BY <1>3, <2>1 DEF CallbackOfSocket, Fds
  <2>3. ASSUME Exists(cb.about)
        PROVE  \/ EventIsTrue(cb.event, cb.about)'
               \/ cb.event = "NOTCONNECTED" /\ Readable(cb.about)'
    <3> DEFINE a == cb.about  e == cb.event  f == fd[a]
    <3>1. e \in {"CONNECTED", "NOTCONNECTED", "CLOSED", "ACCEPT", "DNSFAILED"}
      BY <1>3 DEF TypeOK, EventNames
    <3>2. EventIsTrue(e, a) \/ (e = "NOTCONNECTED" /\ Readable(a))
      BY <1>3, <2>3 DEF EventsAreTrueUnlessEarly
    <3>3. e \in {"CONNECTED", "NOTCONNECTED", "CLOSED"} => GoesOn(f)
      BY <1>3, <2>3 DEF CallbackOfSocket
    <3>4. a' = a /\ e' = e /\ fd'[a] = f BY <1>3
    <3> HIDE DEF a, e, f
    <3>5. CASE e = "NOTCONNECTED"
      <4>1. Readable(a) => Readable(a)'
        <5>1. GoesOn(f) BY <3>3, <3>5
        <5>2. ASSUME kernel[f].data PROVE kernel'[f].data BY <5>1, <5>2, Zenon DEF GoesOn
        <5>3. ASSUME kernel[f].state \in {"failed", "eof"}
              PROVE  kernel'[f].state \in {"failed", "eof"}
          BY <5>1, <5>3 DEF GoesOn
        <5>4. /\ kernel'[fd'[a']].data = kernel'[f].data
              /\ kernel'[fd'[a']].state = kernel'[f].state
          BY <3>4
        <5>5. ASSUME kernel[f].data PROVE kernel'[fd'[a']].data
          BY <5>2, <5>4, <5>5, Zenon
        <5>6. CASE kernel[f].data BY <5>5, <5>6, Zenon DEF Readable
        <5>7. CASE kernel[f].state \in {"failed", "eof"}
          BY <5>3, <5>4, <5>7, Zenon DEF Readable
        <5> QED BY <5>6, <5>7, Zenon DEF Readable, f
      <4>2. EventIsTrue(e, a) => Readable(a) BY <3>5 DEF EventIsTrue, Readable
      <4> QED BY <3>2, <3>5, <4>1, <4>2 DEF a, e
    <3>6. CASE e = "CONNECTED" BY <3>2, <3>3, <3>4, <3>6 DEF EventIsTrue, GoesOn, a, e, f
    <3>7. CASE e = "CLOSED" BY <3>2, <3>3, <3>4, <3>7 DEF EventIsTrue, GoesOn, a, e, f
    <3>8. CASE e = "DNSFAILED" BY <3>2, <3>4, <3>8 DEF EventIsTrue, a, e, f
    <3>9. CASE e = "ACCEPT" BY <3>9 DEF EventIsTrue, a, e
    <3> QED BY <3>1, <3>5, <3>6, <3>7, <3>8, <3>9
  <2>4. EventsAreTrueUnlessEarly' BY <1>3, <2>1, <2>3 DEF EventsAreTrueUnlessEarly
  <2> QED BY <2>2, <2>4
<1> QED BY <1>1, <1>2, <1>3

(* Descriptors that were in use before are not the one socket() returns. *)
LEMMA OthersGoOn ==
    ASSUME TypeOK, DescriptorsSound, NEW l, kernel[l].state = "unused",
           \A f \in Fds : f # l => kernel'[f] = kernel[f]
    PROVE  \A s \in Sockets : fd[s] \in Fds => fd[s] # l /\ GoesOn(fd[s])
BY DEF DescriptorsSound, FdsAccounted, GoesOn

-----------------------------------------------------------------------------
(* What happens outside the program. *)

KernelStates ==
    {"unused", "connecting", "established", "failed", "eof", "listening"}

KernelType ==
    [Fds -> [state : KernelStates, to : {"none", "asked", "other"}, data : BOOLEAN]]

(* A step that is about what is behind f alone. *)
LEMMA KernelIs ==
    ASSUME TypeOK, NEW f \in Fds, NEW from, NEW to \in KernelStates, NEW data \in BOOLEAN,
           Kernel(f, from, to, data)
    PROVE  /\ kernel[f].state = from
           /\ kernel' \in KernelType
           /\ kernel'[f].state = to /\ kernel'[f].to = kernel[f].to
           /\ kernel'[f].data = data
           /\ \A g \in Fds : g # f => kernel'[g] = kernel[g]
<1>1. kernel \in KernelType BY DEF TypeOK, KernelType, KernelStates
<1>2. kernel' = [kernel EXCEPT ![f].state = to, ![f].data = data] BY DEF Kernel
<1>3. kernel'[f] = [kernel[f] EXCEPT !.state = to, !.data = data]
  BY <1>1, <1>2 DEF KernelType
<1>4. kernel[f] \in [state : KernelStates, to : {"none", "asked", "other"}, data : BOOLEAN]
  BY <1>1 DEF KernelType
<1>5. kernel'[f] \in [state : KernelStates, to : {"none", "asked", "other"}, data : BOOLEAN]
  BY <1>3, <1>4
<1>6. kernel'[f].state = to /\ kernel'[f].to = kernel[f].to /\ kernel'[f].data = data
  BY <1>3, <1>4
<1>7. \A g \in Fds : g # f => kernel'[g] = kernel[g] BY <1>1, <1>2 DEF KernelType
<1>8. kernel' \in KernelType BY <1>1, <1>2, <1>5 DEF KernelType
<1> QED BY <1>6, <1>7, <1>8 DEF Kernel

(* The peer, the system and the clients. *)
LEMMA OutsideSafe ==
    ASSUME IInv, Outside, UNCHANGED broken
    PROVE  IInv'
<1>1. TypeOK /\ DescriptorsSound /\ DataFromPeer BY DEF IInv
<1>2. UNCHANGED <<status, flags, addr, lookup, fd, watched, cb, asked, heard, forgotten>>
  BY DEF Outside, Handshaken, Refuse, PeerSends, PeerCloses, ClientArrives, Kernel, sock
<1> DEFINE Right ==
        /\ kernel' \in KernelType /\ clients' \in [Fds -> 0 .. MaxClients]
        /\ \A g \in Fds : GoesOn(g)
        /\ DataFromPeer'
        /\ \A g \in Fds : kernel'[g].state = "unused" <=> kernel[g].state = "unused"
<1>3. ASSUME NEW f \in Fds, NEW from, NEW to \in KernelStates, NEW data \in BOOLEAN,
             Kernel(f, from, to, data),
             \/ from = "connecting" /\ to \in {"established", "failed"} /\ data = FALSE
             \/ from = "established" /\ to \in {"established", "eof"}
                /\ data \in {TRUE, kernel[f].data}
      PROVE  Right
  <2>1. /\ kernel[f].state = from
        /\ kernel' \in KernelType
        /\ kernel'[f].state = to /\ kernel'[f].to = kernel[f].to
        /\ kernel'[f].data = data
        /\ \A g \in Fds : g # f => kernel'[g] = kernel[g]
    BY <1>1, <1>3, KernelIs
  <2>2. kernel[f].data => kernel'[f].data
    <3>1. CASE from = "connecting"
      <4>1. ~ kernel[f].data BY <1>1, <2>1, <3>1 DEF DataFromPeer
      <4> QED BY <4>1
    <3>2. CASE from # "connecting"
      <4>1. kernel'[f].data = TRUE \/ kernel'[f].data = kernel[f].data
        BY <1>3, <2>1, <3>2
      <4> QED BY <4>1, Zenon
    <3> QED BY <3>1, <3>2
  <2>3. /\ kernel[f].state # "failed" /\ kernel[f].state # "eof"
        /\ kernel[f].state = "established" => kernel'[f].state \in {"established", "eof"}
    BY <1>3, <2>1
  <2>4. ASSUME NEW g \in Fds PROVE GoesOn(g)
    <3>1. CASE g = f BY <2>1, <2>2, <2>3, <3>1, Zenon DEF GoesOn
    <3>2. CASE g # f
      <4>1. kernel'[g] = kernel[g] BY <2>1, <3>2
      <4>2. kernel[g].data => kernel'[g].data BY <4>1
      <4> QED BY <4>1, <4>2 DEF GoesOn
    <3> QED BY <3>1, <3>2
  <2>5. DataFromPeer'
    <3> SUFFICES ASSUME NEW g \in Fds, kernel'[g].data
                 PROVE  kernel'[g].state \in {"established", "eof"}
      BY DEF DataFromPeer, Fds
    <3>1. CASE g = f
      <4>1. kernel'[f].data BY <3>1
      <4>2. data # FALSE BY <2>1, <4>1, Zenon
      <4> QED BY <1>3, <2>1, <3>1, <4>2
    <3>2. CASE g # f
      <4>1. kernel'[g] = kernel[g] BY <2>1, <3>2
      <4>2. kernel[g].data BY <4>1
      <4> QED BY <1>1, <4>1, <4>2 DEF DataFromPeer
    <3> QED BY <3>1, <3>2
  <2>6. \A g \in Fds : kernel'[g].state = "unused" <=> kernel[g].state = "unused"
    BY <1>3, <2>1
  <2>7. clients' \in [Fds -> 0 .. MaxClients] BY <1>3 DEF Kernel, TypeOK, IInv
  <2> QED BY <2>1, <2>4, <2>5, <2>6, <2>7
<1>4. Right
  <2>1. PICK f \in Fds : \/ Handshaken(f) \/ Refuse(f)
                         \/ PeerSends(f) \/ PeerCloses(f) \/ ClientArrives(f)
    BY DEF Outside
  <2>2. /\ "connecting" \in KernelStates /\ "established" \in KernelStates
        /\ "failed" \in KernelStates /\ "eof" \in KernelStates
    BY DEF KernelStates
  <2>3. kernel[f].data \in BOOLEAN BY <1>1 DEF TypeOK
  <2> HIDE DEF Right
  <2>4. CASE Handshaken(f) BY <1>3, <2>2, <2>4 DEF Handshaken
  <2>5. CASE Refuse(f) BY <1>3, <2>2, <2>5 DEF Refuse
  <2>6. CASE PeerSends(f) BY <1>3, <2>2, <2>6 DEF PeerSends
  <2>7. CASE PeerCloses(f) BY <1>3, <2>2, <2>3, <2>7 DEF PeerCloses
  <2>8. CASE ClientArrives(f)
    <3>1. kernel' = kernel BY <2>8 DEF ClientArrives
    <3>2. kernel' \in KernelType BY <1>1, <3>1 DEF TypeOK, KernelType, KernelStates
    <3>3. clients' \in [Fds -> 0 .. MaxClients]
      BY <1>1, <2>8, ConnectAssumption DEF TypeOK, ClientArrives
    <3>4. \A g \in Fds : GoesOn(g) BY <3>1 DEF GoesOn
    <3>5. DataFromPeer' BY <1>1, <3>1 DEF DataFromPeer, Fds
    <3> QED BY <3>1, <3>2, <3>3, <3>4, <3>5 DEF Right
  <2> QED BY <2>1, <2>4, <2>5, <2>6, <2>7, <2>8
<1>5. TypeOK' BY <1>1, <1>2, <1>4 DEF TypeOK, KernelType, KernelStates, Fds
<1>6. AskedTyped' BY <1>2 DEF IInv, AskedTyped
<1>7. \A s \in Sockets : SocketInv(s)'
  <2> TAKE s \in Sockets
  <2>1. Untouched(s) BY <1>2, <1>4 DEF Untouched
  <2> QED BY <1>2, <2>1, SocketKept DEF IInv
<1>8. DescriptorsSound'
  <2>1. \A s \in Sockets : Exists(s) => Exists(s)' BY <1>2 DEF Exists
  <2> QED BY <1>1, <1>2, <1>4, <1>5, <2>1, NoneOpened
<1>9. (CallbackOfSocket /\ EventsAreTrueUnlessEarly)'
  BY <1>1, <1>2, <1>4, EventKept DEF IInv
<1> QED BY <1>4, <1>5, <1>6, <1>7, <1>8, <1>9 DEF IInv

-----------------------------------------------------------------------------
(* Closing. *)

(* While no callback runs, no socket is dead. *)
LEMMA NoneDead ==
    ASSUME IInv, cb = NULL, NEW s \in Sockets
    PROVE  flags[s] \cap {"DEAD", "DNSERROR"} = {}
BY DEF IInv, SocketInv, EndsInCallback

(* iosocket_close(), also of a socket whose name is looked up. *)
LEMMA CloseSafe ==
    ASSUME IInv, NEW s \in Sockets, CloseSocket(s),
           UNCHANGED <<asked, forgotten, broken>>,
           \/ cb' = cb
           \/ cb' = NULL /\ \A t \in Sockets : t # s => flags[t] \cap {"DEAD", "DNSERROR"} = {}
    PROVE  IInv'
<1>1. TypeOK /\ DescriptorsSound BY DEF IInv
<1>2. /\ status' = [status EXCEPT ![s] = "CLOSED"]
      /\ flags' = [flags EXCEPT ![s] = {}]
      /\ addr' = [addr EXCEPT ![s] = [k \in Kinds |-> "none"]]
      /\ lookup' = [lookup EXCEPT ![s] = Cleared(@)]
      /\ fd' = [fd EXCEPT ![s] = 0]
      /\ kernel' = [f \in Fds |-> IF f = fd[s] THEN Unused ELSE kernel[f]]
      /\ clients' = [f \in Fds |-> IF f = fd[s] THEN 0 ELSE clients[f]]
      /\ watched' = {x \in watched : x[1] # fd[s]}
  BY DEF CloseSocket
<1>3. TypeOK'
  <2>1. status' \in [Sockets -> {"none", "CLOSED", "LISTENING", "CONNECTING", "CONNECTED"}]
    BY <1>1, <1>2 DEF TypeOK
  <2>2. flags' \in [Sockets -> SUBSET {"ACTIVE", "LISTENING", "IPV6SOCKET",
                      "INCOMING", "CONNECTING", "DEAD", "RECONNECT_IPV4", "DNSERROR"}]
    BY <1>1, <1>2 DEF TypeOK
  <2>3. addr' \in [Sockets -> [Kinds -> Families \cup {"none"}]]
    BY <1>1, <1>2 DEF TypeOK
  <2>4. lookup' \in [Sockets -> [Kinds ->
            [state : {"none", "pending", "done"}, found : SUBSET Families]]]
    BY <1>1, <1>2 DEF TypeOK, Cleared, NoLookup
  <2>5. fd' \in [Sockets -> Fds \cup {0, -1}] BY <1>1, <1>2 DEF TypeOK
  <2>6. kernel' \in KernelType
    BY <1>1, <1>2 DEF TypeOK, Unused, KernelType, KernelStates
  <2>7. clients' \in [Fds -> 0 .. MaxClients]
    BY <1>1, <1>2, ConnectAssumption DEF TypeOK
  <2>8. watched' \subseteq Fds \X Sockets BY <1>1, <1>2 DEF TypeOK
  <2>9. cb' = NULL \/ cb' \in [event : EventNames, about : Sockets]
    BY <1>1 DEF TypeOK
  <2> QED
    BY <1>1, <2>1, <2>2, <2>3, <2>4, <2>5, <2>6, <2>7, <2>8, <2>9
       DEF TypeOK, KernelType, KernelStates, Fds
<1>4. AskedTyped' BY DEF IInv, AskedTyped
<1>5. DataFromPeer' BY <1>2 DEF IInv, DataFromPeer, Unused, Fds
<1>6. ASSUME NEW t \in Sockets, t # s PROVE Untouched(t)
  <2>1. /\ status'[t] = status[t] /\ flags'[t] = flags[t] /\ lookup'[t] = lookup[t]
        /\ fd'[t] = fd[t] /\ asked'[t] = asked[t]
    BY <1>1, <1>2, <1>6 DEF TypeOK
  <2>2. fd[t] \in Fds => fd[t] # fd[s]
    BY <1>1, <1>6 DEF DescriptorsSound, FdsAccounted
  <2>3. fd[t] \in Fds => kernel'[fd[t]] = kernel[fd[t]] BY <1>2, <2>2
  <2> QED BY <2>1, <2>3 DEF Untouched, GoesOn
<1>7. ASSUME NEW t \in Sockets PROVE SocketInv(t)'
  <2>1. CASE t # s BY <1>6, <2>1, SocketKept DEF IInv
  <2>2. CASE t = s
    <3>1. status'[s] = "CLOSED" /\ flags'[s] = {} /\ fd'[s] = 0
      BY <1>1, <1>2 DEF TypeOK
    <3>2. Idle(s)' /\ Looking(s)' BY <3>1 DEF Idle, Looking, StillLooksUp
    <3>3. FlagsAsStatus(s)' /\ EndsInCallback(s)'
      BY <3>1 DEF FlagsAsStatus, Has, EndsInCallback
    <3>4. FallBackKnows(s)' BY <3>1 DEF FallBackKnows, MayFallBack, Has
    <3>5. GoesWhereAsked(s)' /\ ConnectedIsUp(s)'
      BY <3>1 DEF GoesWhereAsked, ConnectedIsUp
    <3> QED BY <2>2, <3>2, <3>3, <3>4, <3>5 DEF SocketInv
  <2> QED BY <2>1, <2>2
<1>8. DescriptorsSound' BY <1>1, Closed
<1>9. (CallbackOfSocket /\ EventsAreTrueUnlessEarly)'
  <2>1. CASE cb' = cb
    <3>1. CASE cb # NULL
      <4>1. cb.about \in Sockets BY <1>1, <3>1 DEF TypeOK
      <4>2. cb.about # s => Untouched(cb.about) BY <1>6, <4>1
      <4>3. cb.about = s => status'[cb.about] = "CLOSED" BY <1>1, <1>2, <4>1 DEF TypeOK
      <4> QED BY <1>1, <2>1, <4>2, <4>3, EventKept DEF IInv, Untouched
    <3>2. CASE cb = NULL
      BY <2>1, <3>2 DEF CallbackOfSocket, EventsAreTrueUnlessEarly
    <3> QED BY <3>1, <3>2
  <2>2. CASE cb' = NULL BY <2>2 DEF CallbackOfSocket, EventsAreTrueUnlessEarly
  <2> QED BY <2>1, <2>2
<1> QED BY <1>3, <1>4, <1>5, <1>7, <1>8, <1>9 DEF IInv

LEMMA UserCloseSafe ==
    ASSUME IInv, NEW s \in Sockets, UserClose(s), UNCHANGED broken
    PROVE  IInv'
<1>1. CloseSocket(s) /\ UNCHANGED <<asked, forgotten, cb>>
  BY DEF UserClose, Silent
<1> QED BY <1>1, CloseSafe

(* The callback returns, and a dead socket is closed. *)
LEMMA CallbackReturnsSafe ==
    ASSUME IInv, CallbackReturns, UNCHANGED broken
    PROVE  IInv'
<1>1. cb # NULL /\ cb' = NULL /\ UNCHANGED <<asked, heard, forgotten>>
  BY DEF CallbackReturns
<1> DEFINE s == cb.about
<1>2. s \in Sockets BY <1>1 DEF IInv, TypeOK
<1>3. \A t \in Sockets : t # s => flags[t] \cap {"DEAD", "DNSERROR"} = {}
  BY DEF IInv, SocketInv, EndsInCallback
<1>4. CASE Exists(s) /\ flags[s] \cap {"DEAD", "DNSERROR"} # {}
  <2>1. CloseSocket(s) BY <1>4 DEF CallbackReturns
  <2> HIDE DEF s
  <2> QED BY <1>1, <1>2, <1>3, <2>1, CloseSafe
<1>5. CASE ~ (Exists(s) /\ flags[s] \cap {"DEAD", "DNSERROR"} # {})
  <2>1. UNCHANGED <<status, flags, addr, lookup, fd, kernel, clients, watched>>
    BY <1>5 DEF CallbackReturns, sock, os
  <2>2. \A t \in Sockets : flags[t] \cap {"DEAD", "DNSERROR"} = {}
    <3>1. ~ Exists(s) => flags[s] = {}
      BY <1>2 DEF IInv, SocketInv, Idle, Exists
    <3> QED BY <1>3, <1>5, <3>1
  <2> HIDE DEF s
  <2>3. TypeOK'
    <3>1. TypeOK BY DEF IInv
    <3> QED BY <1>1, <2>1, <3>1 DEF TypeOK, Fds
  <2>4. AskedTyped' BY <1>1 DEF IInv, AskedTyped
  <2>5. DataFromPeer' BY <2>1 DEF IInv, DataFromPeer, Fds
  <2>6. \A t \in Sockets : SocketInv(t)'
    <3> TAKE t \in Sockets
    <3>1. Untouched(t) BY <1>1, <2>1 DEF Untouched, GoesOn
    <3> QED BY <2>2, <3>1, SocketKept DEF IInv
  <2>7. DescriptorsSound'
    <3>1. \A t \in Sockets : Exists(t) => Exists(t)' BY <2>1 DEF Exists
    <3>2. TypeOK /\ DescriptorsSound BY DEF IInv
    <3> QED BY <1>1, <2>1, <2>3, <3>1, <3>2, NoneOpened
  <2>8. CallbackOfSocket' /\ EventsAreTrueUnlessEarly'
    BY <1>1 DEF CallbackOfSocket, EventsAreTrueUnlessEarly
  <2> QED BY <2>3, <2>4, <2>5, <2>6, <2>7, <2>8 DEF IInv
<1> QED BY <1>4, <1>5

-----------------------------------------------------------------------------
(* Handlers that open no descriptor. *)

(* They are about s alone. *)
LEMMA AboutOne ==
    ASSUME IInv, NEW s \in Sockets, cb = NULL,
           UNCHANGED <<fd, kernel, clients, watched, asked, forgotten>>,
           TypeOK',
           \A t \in Sockets : t # s =>
              status'[t] = status[t] /\ flags'[t] = flags[t] /\ lookup'[t] = lookup[t],
           status'[s] \notin {"none", "CLOSED"},
           "ACTIVE" \in flags'[s] => "ACTIVE" \in flags[s],
           SocketInv(s)', CallbackOfSocket', EventsAreTrueUnlessEarly'
    PROVE  IInv'
<1>1. TypeOK /\ DescriptorsSound BY DEF IInv
<1>2. AskedTyped' BY DEF IInv, AskedTyped
<1>3. DataFromPeer' BY DEF IInv, DataFromPeer, Fds
<1>4. ASSUME NEW t \in Sockets PROVE SocketInv(t)'
  <2>1. CASE t # s
    <3>1. Untouched(t) BY <2>1 DEF Untouched, GoesOn
    <3>2. flags[t] \cap {"DEAD", "DNSERROR"} = {} BY NoneDead
    <3> QED BY <3>1, <3>2, SocketKept DEF IInv
  <2> QED BY <2>1
<1>5. DescriptorsSound'
  <2>1. \A t \in Sockets : Exists(t) => Exists(t)' BY DEF Exists
  <2>2. \A t \in Sockets : "ACTIVE" \in flags'[t] => "ACTIVE" \in flags[t] OBVIOUS
  <2> QED BY <1>1, <2>1, <2>2, NoneOpened
<1> QED BY <1>2, <1>3, <1>4, <1>5 DEF IInv

(* A socket that the engine watches has a descriptor, and no lookups. *)
LEMMA WatchedHas ==
    ASSUME IInv, NEW s \in Sockets, Watched(s)
    PROVE  fd[s] \in Fds /\ Exists(s) /\ ~ StillLooksUp(s)
<1>1. fd[s] \in Fds /\ Exists(s)
  BY DEF IInv, TypeOK, DescriptorsSound, WatchedIsLive, Watched
<1>2. fd[s] # 0 BY <1>1, ConnectAssumption DEF Fds
<1> QED BY <1>1, <1>2 DEF IInv, SocketInv, Looking, Exists

SocketFlags ==
    {"ACTIVE", "LISTENING", "IPV6SOCKET", "INCOMING", "CONNECTING", "DEAD",
     "RECONNECT_IPV4", "DNSERROR"}

(* An attempt fails, or a connection is lost: the socket is dead. *)
LEMMA DiesSafe ==
    ASSUME IInv, NEW s \in Sockets, cb = NULL,
           CouldNotConnect(s) \/ ConnectionLost(s), UNCHANGED broken
    PROVE  IInv'
<1>1. TypeOK /\ DescriptorsSound BY DEF IInv
<1>2. /\ flags' = [flags EXCEPT ![s] = @ \cup {"DEAD"}]
      /\ UNCHANGED <<status, addr, lookup, fd, kernel, clients, watched, asked, forgotten>>
      /\ Watched(s)
      /\ cb'.about = s /\ cb'.event \in {"NOTCONNECTED", "CLOSED"}
      /\ cb' \in [event : EventNames, about : Sockets]
      /\ cb'.event = "NOTCONNECTED" => Readable(s)
      /\ cb'.event = "CLOSED" => kernel[fd[s]].state = "eof"
  BY DEF CouldNotConnect, ConnectionLost, Trigger, os, EventNames
<1>3. flags \in [Sockets -> SUBSET SocketFlags] BY <1>1 DEF TypeOK, SocketFlags
<1>4. flags' \in [Sockets -> SUBSET SocketFlags] BY <1>2, <1>3 DEF SocketFlags
<1>5. flags'[s] = flags[s] \cup {"DEAD"} /\ \A t \in Sockets : t # s => flags'[t] = flags[t]
  BY <1>2, <1>3
<1>6. TypeOK' BY <1>1, <1>2, <1>4 DEF TypeOK, SocketFlags, Fds
<1>7. fd[s] \in Fds /\ Exists(s) /\ ~ StillLooksUp(s) BY <1>2, WatchedHas
<1>8. cb' # NULL BY <1>2, ConnectAssumption
<1>9. SocketInv(s)'
  <2>1. SocketInv(s) BY DEF IInv
  <2>2. Idle(s)' BY <1>2, <1>7 DEF Idle, Exists
  <2>3. Looking(s)' BY <1>2, <1>7 DEF Looking, StillLooksUp
  <2>4. FlagsAsStatus(s)' BY <1>2, <1>5, <2>1 DEF SocketInv, FlagsAsStatus, Has
  <2>5. EndsInCallback(s)' BY <1>2, <1>8 DEF EndsInCallback
  <2>6. MayFallBack(s)' <=> MayFallBack(s) BY <1>5 DEF MayFallBack, CanFallBack, Has
  <2>8. FallBackKnows(s)' BY <1>2, <2>1, <2>6 DEF SocketInv, FallBackKnows
  <2>7. GoesWhereAsked(s)' /\ ConnectedIsUp(s)'
    BY <1>2, <2>1 DEF SocketInv, GoesWhereAsked, ConnectedIsUp, Fds
  <2> QED BY <2>2, <2>3, <2>4, <2>5, <2>7, <2>8 DEF SocketInv
<1>10. CallbackOfSocket'
  BY <1>2, <1>7 DEF CallbackOfSocket, Exists, Fds
<1>11. EventsAreTrueUnlessEarly'
  <2>1. cb'.event = "CLOSED" => EventIsTrue(cb.event, cb.about)'
    BY <1>2 DEF EventIsTrue
  <2>2. cb'.event = "NOTCONNECTED" => Readable(cb.about)'
    BY <1>2 DEF Readable
  <2> QED BY <1>2, <2>1, <2>2 DEF EventsAreTrueUnlessEarly
<1> QED BY <1>2, <1>5, <1>6, <1>7, <1>9, <1>10, <1>11, AboutOne DEF Exists

(* An attempt is connected. *)
LEMMA EstablishedSafe ==
    ASSUME IInv, NEW s \in Sockets, cb = NULL, Established(s), UNCHANGED broken
    PROVE  IInv'
<1>1. TypeOK /\ DescriptorsSound BY DEF IInv
<1>2. /\ flags' = [flags EXCEPT ![s] = @ \ {"CONNECTING"}]
      /\ lookup' = [lookup EXCEPT ![s] = Cleared(@)]
      /\ status' = [status EXCEPT ![s] = "CONNECTED"]
      /\ UNCHANGED <<addr, fd, kernel, clients, watched, asked, forgotten>>
      /\ Watched(s) /\ Has(s, "CONNECTING")
      /\ cb' = [event |-> "CONNECTED", about |-> s]
  BY DEF Established, Trigger, os
<1>3. kernel[fd[s]].state = "established"
  BY DEF Established, Readable, Writeable
<1>4. fd[s] \in Fds /\ Exists(s) /\ ~ StillLooksUp(s) BY <1>2, WatchedHas
<1>5. /\ flags \in [Sockets -> SUBSET SocketFlags]
      /\ lookup \in [Sockets -> [Kinds ->
            [state : {"none", "pending", "done"}, found : SUBSET Families]]]
      /\ status \in [Sockets -> {"none", "CLOSED", "LISTENING", "CONNECTING", "CONNECTED"}]
  BY <1>1 DEF TypeOK, SocketFlags
<1>6. /\ flags'[s] = flags[s] \ {"CONNECTING"} /\ status'[s] = "CONNECTED"
      /\ lookup'[s] = Cleared(lookup[s])
      /\ \A t \in Sockets : t # s =>
            status'[t] = status[t] /\ flags'[t] = flags[t] /\ lookup'[t] = lookup[t]
  BY <1>2, <1>5
<1>7. TypeOK'
  <2>1. flags' \in [Sockets -> SUBSET SocketFlags] BY <1>2, <1>5
  <2>2. lookup' \in [Sockets -> [Kinds ->
            [state : {"none", "pending", "done"}, found : SUBSET Families]]]
    BY <1>2, <1>5 DEF Cleared, NoLookup
  <2>3. status' \in [Sockets -> {"none", "CLOSED", "LISTENING", "CONNECTING", "CONNECTED"}]
    BY <1>2, <1>5
  <2>4. cb' \in [event : EventNames, about : Sockets] BY <1>2 DEF EventNames
  <2> QED BY <1>1, <1>2, <2>1, <2>2, <2>3, <2>4 DEF TypeOK, SocketFlags, Fds
<1>8. SocketInv(s)'
  <2>1. SocketInv(s) BY DEF IInv
  <2>2. status[s] = "CONNECTING" BY <1>2, <2>1 DEF SocketInv, FlagsAsStatus
  <2>3. \A k \in Kinds : lookup'[s][k].state # "pending"
    BY <1>4, <1>5, <1>6 DEF StillLooksUp, Cleared, NoLookup
  <2>4. Idle(s)' /\ Looking(s)' BY <1>6, <2>3 DEF Idle, Looking, StillLooksUp
  <2>5. FlagsAsStatus(s)'
    BY <1>6, <2>1, <2>2 DEF SocketInv, FlagsAsStatus, Has
  <2>6. EndsInCallback(s)' BY <1>6, NoneDead DEF EndsInCallback
  <2>7. FallBackKnows(s)' BY <1>6 DEF FallBackKnows, MayFallBack, Has
  <2>8. GoesWhereAsked(s)'
    BY <1>2, <1>6, <2>1, <2>2 DEF SocketInv, GoesWhereAsked, Fds
  <2>9. ConnectedIsUp(s)' BY <1>2, <1>3 DEF ConnectedIsUp
  <2> QED BY <2>4, <2>5, <2>6, <2>7, <2>8, <2>9 DEF SocketInv
<1>9. CallbackOfSocket' BY <1>2, <1>4, <1>6 DEF CallbackOfSocket, Fds
<1>10. EventsAreTrueUnlessEarly'
  BY <1>2, <1>3 DEF EventsAreTrueUnlessEarly, EventIsTrue
<1> QED BY <1>2, <1>6, <1>7, <1>8, <1>9, <1>10, AboutOne

(* What iosocket_lookup_apply() makes of the flags. *)
LEMMA Applied ==
    ASSUME NEW f \in SUBSET SocketFlags, "DNSERROR" \notin f, NEW look, NEW noip6 \in BOOLEAN
    PROVE  LET applied == AppliedFlags(f, look, noip6)
               chosen == ChosenFamily(look, noip6)
           IN  /\ applied \in SUBSET SocketFlags
               /\ chosen \in {"AAAA", "A", "none"}
               /\ "DNSERROR" \in applied <=> chosen = "none"
               /\ chosen = "none" => applied = f \cup {"DNSERROR"}
               /\ chosen = "A" => applied = f \ {"IPV6SOCKET", "RECONNECT_IPV4"}
               /\ chosen = "AAAA" =>
                     /\ ~ noip6
                     /\ "IPV6SOCKET" \in applied
                     /\ f \subseteq applied
                     /\ applied \subseteq f \cup {"IPV6SOCKET", "RECONNECT_IPV4"}
                     /\ "RECONNECT_IPV4" \in applied /\ "RECONNECT_IPV4" \notin f =>
                           "A" \in UsableFamilies(look)
<1> DEFINE applied == AppliedFlags(f, look, noip6)
           chosen == ChosenFamily(look, noip6)
<1>1. chosen \in {"AAAA", "A", "none"} BY DEF ChosenFamily
<1>2. CASE chosen = "AAAA"
  <2>1. applied = f \cup {"IPV6SOCKET"} \cup
                     {x \in {"RECONNECT_IPV4"} : "A" \in UsableFamilies(look)}
    BY <1>2 DEF AppliedFlags
  <2>2. ~ noip6 BY <1>2 DEF ChosenFamily
  <2> HIDE DEF applied, chosen
  <2> QED BY <1>2, <2>1, <2>2 DEF SocketFlags, applied, chosen
<1>3. CASE chosen = "A"
  <2>1. applied = f \ {"IPV6SOCKET", "RECONNECT_IPV4"} BY <1>3 DEF AppliedFlags
  <2> HIDE DEF applied, chosen
  <2> QED BY <1>3, <2>1 DEF SocketFlags, applied, chosen
<1>4. CASE chosen = "none"
  <2>1. applied = f \cup {"DNSERROR"} BY <1>4 DEF AppliedFlags
  <2> HIDE DEF applied, chosen
  <2> QED BY <1>4, <2>1 DEF SocketFlags, applied, chosen
<1> QED BY <1>1, <1>2, <1>3, <1>4

-----------------------------------------------------------------------------
(* Handlers that open a descriptor. *)

(* socket() fails for want of a descriptor. *)
NothingNew(s, f) ==
    /\ FreeFds = {}
    /\ UNCHANGED <<fd, kernel>>
    /\ flags'[s] = f

(* There is a new descriptor, with the address to behind it. *)
NewFd(s, f, to, state) ==
    /\ FreeFds # {}
    /\ LowestFree \in Fds /\ kernel[LowestFree].state = "unused"
    /\ fd' = [fd EXCEPT ![s] = LowestFree]
    /\ \A g \in Fds : g # LowestFree => kernel'[g] = kernel[g]
    /\ kernel'[LowestFree].state = IF to = "none" THEN "failed" ELSE state
    /\ to = SocketFamily(f) => kernel'[LowestFree].to = "asked"
    /\ kernel'[LowestFree].data = FALSE
    /\ flags'[s] = f \cup {"ACTIVE"} \cup
            (IF state = "connecting" THEN {"CONNECTING"} ELSE {})

(* What Finish does, with one descriptor or none. *)
Opens(s, f, to, state) ==
    /\ flags' \in [Sockets -> SUBSET SocketFlags]
    /\ fd' \in [Sockets -> Fds \cup {0, -1}]
    /\ kernel' \in KernelType
    /\ \A t \in Sockets : t # s => flags'[t] = flags[t] /\ fd'[t] = fd[t]
    /\ NothingNew(s, f) \/ NewFd(s, f, to, state)

LEMMA FinishIs ==
    ASSUME TypeOK, NEW s \in Sockets, NEW f \in SUBSET SocketFlags,
           NEW to \in Families \cup {"none"},
           NEW state \in {"connecting", "listening"}, Finish(s, f, to, state)
    PROVE  Opens(s, f, to, state)
<1>1. /\ flags \in [Sockets -> SUBSET SocketFlags]
      /\ fd \in [Sockets -> Fds \cup {0, -1}]
      /\ kernel \in KernelType
  BY DEF TypeOK, SocketFlags, KernelType, KernelStates
<1>2. CASE FreeFds = {}
  <2>1. flags' = [flags EXCEPT ![s] = f] /\ UNCHANGED <<fd, kernel>>
    BY <1>2 DEF Finish
  <2>2. NothingNew(s, f) BY <1>1, <1>2, <2>1 DEF NothingNew
  <2> QED BY <1>1, <2>1, <2>2 DEF KernelType, Opens
<1>3. CASE FreeFds # {}
  <2> DEFINE l == LowestFree
             new == [state |-> IF to = "none" THEN "failed" ELSE state,
                     to |-> IF to = SocketFamily(f) THEN "asked" ELSE "other",
                     data |-> FALSE]
             set == f \cup {"ACTIVE"} \cup
                        (IF state = "connecting" THEN {"CONNECTING"} ELSE {})
  <2>1. l \in Fds /\ kernel[l].state = "unused" BY <1>3, LowestIsFree
  <2>2. /\ kernel' = [kernel EXCEPT ![l] = new]
        /\ fd' = [fd EXCEPT ![s] = l]
        /\ flags' = [flags EXCEPT ![s] = set]
    BY <1>3 DEF Finish
  <2>3. /\ new \in [state : KernelStates, to : {"none", "asked", "other"}, data : BOOLEAN]
        /\ new.state = IF to = "none" THEN "failed" ELSE state
        /\ to = SocketFamily(f) => new.to = "asked"
        /\ new.data = FALSE
    BY DEF KernelStates
  <2>4. set \in SUBSET SocketFlags BY DEF SocketFlags
  <2> HIDE DEF l, new, set
  <2>6. kernel' \in KernelType /\ kernel'[l] = new
        /\ \A g \in Fds : g # l => kernel'[g] = kernel[g]
    BY <1>1, <2>1, <2>2, <2>3 DEF KernelType
  <2>7. /\ flags' \in [Sockets -> SUBSET SocketFlags] /\ flags'[s] = set
        /\ fd' \in [Sockets -> Fds \cup {0, -1}]
        /\ \A t \in Sockets : t # s => flags'[t] = flags[t] /\ fd'[t] = fd[t]
    BY <1>1, <2>1, <2>2, <2>4
  <2>8. NewFd(s, f, to, state)
    BY <1>3, <2>1, <2>2, <2>3, <2>6, <2>7 DEF NewFd, set, l
  <2> QED BY <2>1, <2>6, <2>7, <2>8 DEF Opens
<1> QED BY <1>2, <1>3

(* A socket without a descriptor begins to connect or to listen, with the  *)
(* flags f and the address to.                                             *)
LEMMA StartsSafe ==
    ASSUME IInv, NEW s \in Sockets, fd[s] = 0,
           NEW f \in SUBSET {"LISTENING", "IPV6SOCKET", "RECONNECT_IPV4"},
           NEW to \in Families \cup {"none"},
           NEW state \in {"connecting", "listening"},
           Finish(s, f, to, state), Watch(watched, s),
           "LISTENING" \in f <=> state = "listening",
           /\ state = "connecting" /\ {"IPV6SOCKET", "RECONNECT_IPV4"} \subseteq f
           => "A" \in UsableFamilies(lookup'[s]),
           state = "connecting" /\ asked'[s].dest # "AAAA"
           => to \in {SocketFamily(f), "none"},
           status'[s] = IF state = "listening" THEN "LISTENING" ELSE "CONNECTING",
           status' \in [Sockets -> {"none", "CLOSED", "LISTENING", "CONNECTING", "CONNECTED"}],
           addr' \in [Sockets -> [Kinds -> Families \cup {"none"}]],
           lookup' \in [Sockets -> [Kinds ->
                [state : {"none", "pending", "done"}, found : SUBSET Families]]],
           AskedTyped',
           \A k \in Kinds : lookup'[s][k].state # "pending",
           \A t \in Sockets : t # s =>
              status'[t] = status[t] /\ lookup'[t] = lookup[t] /\ asked'[t] = asked[t],
           UNCHANGED <<clients, forgotten, cb, broken>>,
           cb = NULL \/ cb.about # s,
           cb = NULL \/ flags[s] = {}
    PROVE  IInv'
<1>1. TypeOK /\ DescriptorsSound /\ f \in SUBSET SocketFlags
  BY DEF IInv, SocketFlags
<1>2. /\ flags' \in [Sockets -> SUBSET SocketFlags]
      /\ fd' \in [Sockets -> Fds \cup {0, -1}]
      /\ kernel' \in KernelType
      /\ \A t \in Sockets : t # s => flags'[t] = flags[t] /\ fd'[t] = fd[t]
      /\ NothingNew(s, f) \/ NewFd(s, f, to, state)
  <2>1. Opens(s, f, to, state) BY <1>1, FinishIs
  <2> QED BY <2>1 DEF Opens
<1>3. TypeOK'
  <2>1. watched' \subseteq Fds \X Sockets
    BY <1>1, LowestIsFree DEF TypeOK, Watch
  <2> QED BY <1>1, <1>2, <2>1 DEF TypeOK, SocketFlags, KernelType, KernelStates, Fds
<1>4. 0 \notin Fds BY ConnectAssumption DEF Fds
<1>5. /\ flags'[s] \subseteq f \cup {"ACTIVE", "CONNECTING"} /\ f \subseteq flags'[s]
      /\ "CONNECTING" \in flags'[s] => state = "connecting"
  <2>1. CASE NothingNew(s, f) BY <2>1 DEF NothingNew
  <2>2. CASE NewFd(s, f, to, state)
    <3>1. flags'[s] = f \cup {"ACTIVE"} \cup
                (IF state = "connecting" THEN {"CONNECTING"} ELSE {})
      BY <2>2 DEF NewFd
    <3> QED BY <3>1
  <2> QED BY <1>2, <2>1, <2>2
<1>6. Exists(s)' BY DEF Exists
<1>7. fd'[s] \notin Fds \/ NewFd(s, f, to, state)
  BY <1>2, <1>4 DEF NothingNew
<1>8. ASSUME NEW t \in Sockets, t # s PROVE Untouched(t) /\ fd'[t] = fd[t]
  <2>1. CASE NothingNew(s, f)
    BY <1>2, <1>8, <2>1 DEF NothingNew, Untouched, GoesOn
  <2>2. ASSUME NewFd(s, f, to, state)
        PROVE  Untouched(t)
    <3>1. /\ kernel[LowestFree].state = "unused"
          /\ \A g \in Fds : g # LowestFree => kernel'[g] = kernel[g]
      BY <2>2 DEF NewFd
    <3>2. fd[t] \in Fds => GoesOn(fd[t]) BY <1>1, <3>1, OthersGoOn
    <3> QED BY <1>2, <1>8, <3>2 DEF Untouched
  <2> QED BY <1>2, <1>8, <2>1, <2>2
<1>9. SocketInv(s)'
  <2>1. Idle(s)' /\ Looking(s)' BY DEF Idle, Looking, StillLooksUp
  <2>2. FlagsAsStatus(s)' BY <1>5 DEF FlagsAsStatus, Has
  <2>3. EndsInCallback(s)' BY <1>5 DEF EndsInCallback
  <2>4. FallBackKnows(s)'
    <3> SUFFICES ASSUME MayFallBack(s)' PROVE ("A" \in UsableFamilies(lookup[s]))'
      BY DEF FallBackKnows
    <3>1. state = "connecting" /\ {"IPV6SOCKET", "RECONNECT_IPV4"} \subseteq f
      BY <1>5 DEF MayFallBack, CanFallBack, Has
    <3>2. "A" \in UsableFamilies(lookup'[s]) BY <3>1
    <3> QED BY <3>2 DEF UsableFamilies
  <2>5. ASSUME NewFd(s, f, to, state)
        PROVE  GoesWhereAsked(s)'
    <3>1. fd'[s] = LowestFree BY <1>1, <2>5 DEF TypeOK, NewFd
    <3>2. state = "connecting" /\ asked'[s].dest # "AAAA" =>
            \/ kernel'[LowestFree].to = "asked"
            \/ kernel'[LowestFree].state = "failed"
      BY <2>5 DEF NewFd
    <3> QED BY <3>1, <3>2 DEF GoesWhereAsked
  <2>6. fd'[s] \notin Fds => GoesWhereAsked(s)' BY DEF GoesWhereAsked, Fds
  <2>7. ConnectedIsUp(s)' BY DEF ConnectedIsUp
  <2> QED BY <1>7, <2>1, <2>2, <2>3, <2>4, <2>5, <2>6, <2>7 DEF SocketInv
<1>10. ASSUME NEW t \in Sockets PROVE SocketInv(t)'
  <2>1. CASE t # s BY <1>8, <2>1, SocketKept DEF IInv
  <2> QED BY <1>9, <2>1
<1>11. DataFromPeer'
  <2>1. DataFromPeer BY DEF IInv
  <2>2. CASE NothingNew(s, f) BY <2>1, <2>2 DEF NothingNew, DataFromPeer, Fds
  <2>3. ASSUME NewFd(s, f, to, state)
        PROVE  DataFromPeer'
    <3> SUFFICES ASSUME NEW g \in Fds, kernel'[g].data
                 PROVE  kernel'[g].state \in {"established", "eof"}
      BY DEF DataFromPeer, Fds
    <3>1. g # LowestFree BY <2>3 DEF NewFd
    <3>2. kernel'[g] = kernel[g] BY <2>3, <3>1 DEF NewFd
    <3>3. kernel[g].data BY <3>2
    <3> QED BY <2>1, <3>2, <3>3 DEF DataFromPeer
  <2> QED BY <1>2, <2>2, <2>3
<1>12. DescriptorsSound'
  <2>1. CASE NothingNew(s, f)
    <3>1. UNCHANGED <<fd, kernel, watched>> BY <2>1 DEF NothingNew, Watch
    <3>2. \A t \in Sockets : Exists(t) => Exists(t)' BY <1>6 DEF Exists
    <3>3. \A t \in Sockets :
              "ACTIVE" \in flags'[t] => "ACTIVE" \in flags[t] \/ fd[t] \notin Fds
      BY <1>2, <1>4
    <3> QED BY <1>1, <1>3, <3>1, <3>2, <3>3, NoneOpened
  <2>2. ASSUME NewFd(s, f, to, state)
        PROVE  DescriptorsSound'
    <3>1. /\ LowestFree \in Fds /\ kernel[LowestFree].state = "unused"
          /\ fd' = [fd EXCEPT ![s] = LowestFree]
          /\ \A g \in Fds : g # LowestFree => kernel'[g] = kernel[g]
          /\ kernel'[LowestFree].state # "unused"
          /\ watched' = watched \cup {<<LowestFree, s>>}
      BY <2>2 DEF NewFd, Watch
    <3>2. fd[s] \notin Fds /\ forgotten' = forgotten BY <1>4
    <3>3. \A t \in Sockets : t # s => status'[t] = status[t] /\ flags'[t] = flags[t]
      BY <1>2
    <3> QED BY <1>1, <1>6, <3>1, <3>2, <3>3, Opened
  <2> QED BY <1>2, <2>1, <2>2
<1>13. (CallbackOfSocket /\ EventsAreTrueUnlessEarly)'
  <2>1. cb # NULL => Untouched(cb.about) BY <1>1, <1>8 DEF TypeOK
  <2> QED BY <1>1, <2>1, EventKept DEF IInv, Untouched
<1> QED BY <1>3, <1>10, <1>11, <1>12, <1>13 DEF IInv

(* A socket begins, and has a name looked up first. *)
LEMMA LooksUpSafe ==
    ASSUME IInv, NEW s \in Sockets, status[s] = "none",
           status'[s] \in {"CONNECTING", "LISTENING"},
           status'[s] = "LISTENING" => flags'[s] = {"LISTENING"},
           status'[s] = "CONNECTING" => flags'[s] = {},
           flags' \in [Sockets -> SUBSET SocketFlags],
           status' \in [Sockets -> {"none", "CLOSED", "LISTENING", "CONNECTING", "CONNECTED"}],
           addr' \in [Sockets -> [Kinds -> Families \cup {"none"}]],
           lookup' \in [Sockets -> [Kinds ->
                [state : {"none", "pending", "done"}, found : SUBSET Families]]],
           AskedTyped',
           \A t \in Sockets : t # s =>
              /\ status'[t] = status[t] /\ flags'[t] = flags[t]
              /\ lookup'[t] = lookup[t] /\ asked'[t] = asked[t],
           UNCHANGED <<fd, kernel, watched, clients, forgotten, cb, broken>>
    PROVE  IInv'
<1>1. TypeOK /\ DescriptorsSound BY DEF IInv
<1>2. flags[s] = {} /\ fd[s] = 0 BY DEF IInv, SocketInv, Idle
<1>3. 0 \notin Fds BY ConnectAssumption DEF Fds
<1>4. TypeOK' BY <1>1 DEF TypeOK, SocketFlags, Fds
<1>5. ASSUME NEW t \in Sockets, t # s PROVE Untouched(t)
  BY <1>5 DEF Untouched, GoesOn
<1>6. SocketInv(s)'
  <2>1. Idle(s)' /\ Looking(s)' BY <1>2 DEF Idle, Looking, StillLooksUp
  <2>2. FlagsAsStatus(s)' BY DEF FlagsAsStatus, Has
  <2>3. EndsInCallback(s)' BY DEF EndsInCallback
  <2>4. FallBackKnows(s)' BY DEF FallBackKnows, MayFallBack, Has
  <2>5. GoesWhereAsked(s)' /\ ConnectedIsUp(s)'
    BY <1>2, <1>3 DEF GoesWhereAsked, ConnectedIsUp, Fds
  <2> QED BY <2>1, <2>2, <2>3, <2>4, <2>5 DEF SocketInv
<1>7. ASSUME NEW t \in Sockets PROVE SocketInv(t)'
  <2>1. CASE t # s BY <1>5, <2>1, SocketKept DEF IInv
  <2> QED BY <1>6, <2>1
<1>8. DataFromPeer' BY DEF IInv, DataFromPeer, Fds
<1>9. DescriptorsSound'
  <2>1. \A t \in Sockets : Exists(t) => Exists(t)' BY DEF Exists
  <2>2. "ACTIVE" \notin flags'[s] OBVIOUS
  <2>3. \A t \in Sockets : "ACTIVE" \in flags'[t] => "ACTIVE" \in flags[t] BY <2>2
  <2> QED BY <1>1, <1>4, <2>1, <2>3, NoneOpened
<1>10. (CallbackOfSocket /\ EventsAreTrueUnlessEarly)'
  <2>1. cb # NULL => cb.about # s BY DEF IInv, CallbackOfSocket
  <2>2. cb # NULL => Untouched(cb.about) BY <1>1, <1>5, <2>1 DEF TypeOK
  <2> QED BY <1>1, <2>2, EventKept DEF IInv, Untouched
<1> QED BY <1>4, <1>7, <1>8, <1>9, <1>10 DEF IInv

(* iosocket_connect() *)
LEMMA ConnectSafe ==
    ASSUME IInv, NEW s \in Sockets, NEW r \in Requests, Connect(s, r), UNCHANGED broken
    PROVE  IInv'
<1>1. TypeOK /\ AskedTyped BY DEF IInv
<1>2. /\ status[s] = "none"
      /\ status' = [status EXCEPT ![s] = "CONNECTING"]
      /\ asked' = [asked EXCEPT ![s] = r]
      /\ lookup' = [lookup EXCEPT ![s] = [k \in Kinds |-> LookupOf(r[k])]]
      /\ addr' = [addr EXCEPT ![s] = [k \in Kinds |-> AddressOf(r[k])]]
      /\ UNCHANGED <<clients, forgotten, cb>>
  BY DEF Connect, Silent
<1>3. /\ r \in [dest : Families \cup {"name"}, bind : Families \cup {"name", "none"}]
      /\ \A k \in Kinds : r[k] \in Families \cup {"name", "none"}
  <2>1. r \in [dest : Families \cup {"name"}, bind : Families \cup {"name", "none"}]
    BY ConnectAssumption
  <2> QED BY <2>1 DEF Kinds
<1>4. AskedTyped' BY <1>1, <1>2, <1>3 DEF AskedTyped
<1>5. status' \in [Sockets -> {"none", "CLOSED", "LISTENING", "CONNECTING", "CONNECTED"}]
  BY <1>1, <1>2 DEF TypeOK
<1>6. lookup' \in [Sockets -> [Kinds ->
            [state : {"none", "pending", "done"}, found : SUBSET Families]]]
  <2>1. \A k \in Kinds :
            LookupOf(r[k]) \in [state : {"none", "pending", "done"}, found : SUBSET Families]
    BY DEF LookupOf, Pending, NoLookup
  <2> QED BY <1>1, <1>2, <2>1 DEF TypeOK
<1>7. addr' \in [Sockets -> [Kinds -> Families \cup {"none"}]]
  <2>1. \A k \in Kinds : AddressOf(r[k]) \in Families \cup {"none"}
    BY <1>3 DEF AddressOf
  <2> QED BY <1>1, <1>2, <2>1 DEF TypeOK
<1>8. /\ status'[s] = "CONNECTING" /\ asked'[s] = r
      /\ \A k \in Kinds : lookup'[s][k] = LookupOf(r[k])
      /\ \A t \in Sockets : t # s =>
            status'[t] = status[t] /\ lookup'[t] = lookup[t] /\ asked'[t] = asked[t]
  BY <1>1, <1>2 DEF TypeOK, AskedTyped
<1>9. fd[s] = 0 /\ flags[s] = {} BY <1>2 DEF IInv, SocketInv, Idle
<1>10. CASE "name" \in {r.dest, r.bind}
  <2>1. UNCHANGED <<flags, fd, kernel, watched>> BY <1>10 DEF Connect
  <2>2. flags' \in [Sockets -> SUBSET SocketFlags]
    BY <1>1, <2>1 DEF TypeOK, SocketFlags
  <2> QED BY <1>2, <1>4, <1>5, <1>6, <1>7, <1>8, <1>9, <2>1, <2>2, LooksUpSafe
<1>11. CASE "name" \notin {r.dest, r.bind}
  <2>1. Finish(s, {}, r.dest, "connecting") /\ Watch(watched, s)
    BY <1>11 DEF Connect
  <2>2. r.dest \in Families \cup {"none"} BY <1>3, <1>11
  <2>3. r.dest # "AAAA" => r.dest \in {SocketFamily({}), "none"}
    BY <2>2 DEF Families, SocketFamily
  <2>4. \A k \in Kinds : lookup'[s][k].state # "pending"
    BY <1>8, <1>11 DEF LookupOf, NoLookup, Kinds
  <2>5. cb = NULL \/ cb.about # s BY <1>2 DEF IInv, CallbackOfSocket
  <2> DEFINE f == {}
             to == r.dest
  <2>6. /\ f \in SUBSET {"LISTENING", "IPV6SOCKET", "RECONNECT_IPV4"}
        /\ "LISTENING" \notin f /\ "IPV6SOCKET" \notin f
        /\ to \in Families \cup {"none"}
        /\ Finish(s, f, to, "connecting")
        /\ asked'[s].dest # "AAAA" => to \in {SocketFamily(f), "none"}
    BY <1>8, <2>1, <2>2, <2>3
  <2> HIDE DEF f, to
  <2> QED
    BY <1>2, <1>4, <1>5, <1>6, <1>7, <1>8, <1>9, <2>1, <2>4, <2>5, <2>6, StartsSafe
<1> QED BY <1>10, <1>11

(* iosocket_listen() *)
LEMMA ListenSafe ==
    ASSUME IInv, NEW s \in Sockets, NEW host \in Hosts, Listen(s, host), UNCHANGED broken
    PROVE  IInv'
<1>1. TypeOK /\ AskedTyped BY DEF IInv
<1>2. /\ status[s] = "none"
      /\ status' = [status EXCEPT ![s] = "LISTENING"]
      /\ asked' = [asked EXCEPT ![s] = [dest |-> "none", bind |-> host]]
      /\ lookup' = [lookup EXCEPT ![s].bind = LookupOf(host)]
      /\ addr' = [addr EXCEPT ![s].bind = AddressOf(host)]
      /\ UNCHANGED <<clients, forgotten, cb>>
  BY DEF Listen, Silent
<1>3. host \in Families \cup {"name"} BY ConnectAssumption
<1>4. AskedTyped' BY <1>1, <1>2, <1>3 DEF AskedTyped
<1>5. status' \in [Sockets -> {"none", "CLOSED", "LISTENING", "CONNECTING", "CONNECTED"}]
  BY <1>1, <1>2 DEF TypeOK
<1>6. lookup' \in [Sockets -> [Kinds ->
            [state : {"none", "pending", "done"}, found : SUBSET Families]]]
  <2>1. LookupOf(host) \in [state : {"none", "pending", "done"}, found : SUBSET Families]
    BY DEF LookupOf, Pending, NoLookup
  <2> QED BY <1>1, <1>2, <2>1 DEF TypeOK
<1>7. addr' \in [Sockets -> [Kinds -> Families \cup {"none"}]]
  <2>1. AddressOf(host) \in Families \cup {"none"} BY <1>3 DEF AddressOf
  <2> QED BY <1>1, <1>2, <2>1 DEF TypeOK
<1>8. /\ status'[s] = "LISTENING" /\ asked'[s].dest = "none"
      /\ lookup'[s].dest = lookup[s].dest /\ lookup'[s].bind = LookupOf(host)
      /\ \A t \in Sockets : t # s =>
            status'[t] = status[t] /\ lookup'[t] = lookup[t] /\ asked'[t] = asked[t]
  BY <1>1, <1>2 DEF TypeOK, AskedTyped, Kinds
<1>9. /\ fd[s] = 0 /\ flags[s] = {}
      /\ \A k \in Kinds : lookup[s][k].state # "pending"
  BY <1>2 DEF IInv, SocketInv, Idle, Looking, StillLooksUp
<1>10. CASE host = "name"
  <2>1. flags' = [flags EXCEPT ![s] = {"LISTENING"}] /\ UNCHANGED <<fd, kernel, watched>>
    BY <1>10 DEF Listen
  <2>2. /\ flags' \in [Sockets -> SUBSET SocketFlags] /\ flags'[s] = {"LISTENING"}
        /\ \A t \in Sockets : t # s => flags'[t] = flags[t]
    BY <1>1, <2>1 DEF TypeOK, SocketFlags
  <2> QED BY <1>2, <1>4, <1>5, <1>6, <1>7, <1>8, <2>1, <2>2, LooksUpSafe
<1>11. CASE host # "name"
  <2>1. Finish(s, {"LISTENING"}, host, "listening") /\ Watch(watched, s)
    BY <1>11 DEF Listen
  <2>2. host \in Families \cup {"none"} BY <1>3, <1>11
  <2>3. \A k \in Kinds : lookup'[s][k].state # "pending"
    BY <1>8, <1>9, <1>11 DEF LookupOf, NoLookup, Kinds
  <2>4. cb = NULL \/ cb.about # s BY <1>2 DEF IInv, CallbackOfSocket
  <2> QED
    BY <1>2, <1>4, <1>5, <1>6, <1>7, <1>8, <1>9, <2>1, <2>2, <2>3, <2>4, StartsSafe
<1> QED BY <1>10, <1>11

LookupType ==
    [Kinds -> [state : {"none", "pending", "done"}, found : SUBSET Families]]

LEMMA ClearedTyped ==
    ASSUME NEW look \in LookupType
    PROVE  /\ Cleared(look) \in LookupType
           /\ \A k \in Kinds : Cleared(look)[k].state = "pending" <=> look[k].state = "pending"
BY DEF LookupType, Cleared, NoLookup

(* The lookups of a socket without a descriptor are over and leave a       *)
(* family to use: it goes on to connect or to listen.                      *)
LEMMA ApplySafe ==
    ASSUME IInv, NEW s \in Sockets, fd[s] = 0,
           NEW g \in {{}, {"LISTENING"}}, NEW look \in LookupType, LookupsDone(look),
           ChosenFamily(look, FALSE) # "none", Apply(s, g, look),
           status'[s] = IF "LISTENING" \in g THEN "LISTENING" ELSE "CONNECTING",
           status' \in [Sockets -> {"none", "CLOSED", "LISTENING", "CONNECTING", "CONNECTED"}],
           AskedTyped',
           \A t \in Sockets : t # s => status'[t] = status[t] /\ asked'[t] = asked[t],
           UNCHANGED <<clients, forgotten, cb, broken>>,
           cb = NULL \/ cb.about # s,
           cb = NULL \/ flags[s] = {}
    PROVE  IInv'
<1> DEFINE applied == AppliedFlags(g, look, FALSE)
           chosen == ChosenFamily(look, FALSE)
           state == IF "LISTENING" \in g THEN "listening" ELSE "connecting"
           to == IF "LISTENING" \in g THEN AppliedAddr(look, FALSE).bind
                 ELSE AppliedAddr(look, FALSE).dest
<1>1. /\ addr' = [addr EXCEPT ![s] = AppliedAddr(look, FALSE)]
      /\ lookup' = [lookup EXCEPT ![s] = IF "LISTENING" \in g THEN Cleared(look) ELSE look]
      /\ Finish(s, applied, to, state) /\ state \in {"connecting", "listening"}
      /\ Watch(watched, s)
  BY DEF Apply
<1>2. /\ lookup \in [Sockets -> LookupType]
      /\ addr \in [Sockets -> [Kinds -> Families \cup {"none"}]]
  BY DEF IInv, TypeOK, LookupType
<1>3. /\ chosen \in {"AAAA", "A"}
      /\ chosen = "A" => applied = g \ {"IPV6SOCKET", "RECONNECT_IPV4"}
      /\ chosen = "AAAA" =>
            /\ "IPV6SOCKET" \in applied /\ g \subseteq applied
            /\ applied \subseteq g \cup {"IPV6SOCKET", "RECONNECT_IPV4"}
            /\ "RECONNECT_IPV4" \in applied => "A" \in UsableFamilies(look)
  <2>1. g \in SUBSET SocketFlags /\ "DNSERROR" \notin g /\ "RECONNECT_IPV4" \notin g
    BY DEF SocketFlags
  <2> QED BY <2>1, Applied
<1>4. to \in {chosen, "none"} BY DEF AppliedAddr, Kinds
<1>5. \A j \in Kinds : AppliedAddr(look, FALSE)[j] \in {chosen, "none"} BY DEF AppliedAddr
<1>6. AppliedAddr(look, FALSE) \in [Kinds -> Families \cup {"none"}]
  BY <1>3, <1>5 DEF AppliedAddr, Families
<1>7. /\ applied \in SUBSET {"LISTENING", "IPV6SOCKET", "RECONNECT_IPV4"}
      /\ "LISTENING" \in applied <=> "LISTENING" \in g
  BY <1>3
<1>8. chosen = SocketFamily(applied) BY <1>3 DEF SocketFamily
<1>9. state = "listening" <=> "LISTENING" \in g OBVIOUS
<1> HIDE DEF applied, chosen, state, to
<1>10. addr' \in [Sockets -> [Kinds -> Families \cup {"none"}]] BY <1>1, <1>2, <1>6
<1>11. /\ lookup' \in [Sockets -> LookupType]
       /\ "LISTENING" \notin g => lookup'[s] = look
       /\ \A j \in Kinds : lookup'[s][j].state # "pending"
       /\ \A t \in Sockets : t # s => lookup'[t] = lookup[t]
  <2>1. Cleared(look) \in LookupType
        /\ \A j \in Kinds : Cleared(look)[j].state # "pending" /\ look[j].state # "pending"
    BY ClearedTyped DEF LookupsDone
  <2> QED BY <1>1, <1>2, <2>1
<1>12. PICK f, a, b : f = applied /\ a = to /\ b = state OBVIOUS
<1>13. lookup' \in [Sockets -> [Kinds ->
            [state : {"none", "pending", "done"}, found : SUBSET Families]]]
  BY <1>11 DEF LookupType
<1>14. state = "connecting" /\ {"IPV6SOCKET", "RECONNECT_IPV4"} \subseteq applied
       => "A" \in UsableFamilies(lookup'[s])
  <2>1. "RECONNECT_IPV4" \in applied => "A" \in UsableFamilies(look)
    BY <1>3
  <2> QED BY <1>9, <1>11, <2>1
<1>15. Finish(s, f, a, b) BY <1>1, <1>12 DEF Finish
<1>16. /\ f \in SUBSET {"LISTENING", "IPV6SOCKET", "RECONNECT_IPV4"}
       /\ a \in Families \cup {"none"} /\ a \in {SocketFamily(f), "none"}
       /\ b \in {"connecting", "listening"}
       /\ "LISTENING" \in f <=> b = "listening"
       /\ status'[s] = IF b = "listening" THEN "LISTENING" ELSE "CONNECTING"
       /\ b = "connecting" /\ {"IPV6SOCKET", "RECONNECT_IPV4"} \subseteq f
          => "A" \in UsableFamilies(lookup'[s])
  <2>1. to \in Families \cup {"none"} BY <1>3, <1>4 DEF Families
  <2> QED BY <1>1, <1>4, <1>7, <1>8, <1>9, <1>12, <1>14, <2>1
<1>17. \A t \in Sockets : t # s =>
          status'[t] = status[t] /\ lookup'[t] = lookup[t] /\ asked'[t] = asked[t]
  BY <1>11
<1>18. CASE b = "listening"
  BY <1>1, <1>10, <1>11, <1>13, <1>15, <1>16, <1>17, <1>18, StartsSafe
<1>19. CASE b = "connecting"
  BY <1>1, <1>10, <1>11, <1>13, <1>15, <1>16, <1>17, <1>19, StartsSafe
<1> QED BY <1>16, <1>18, <1>19

(* iosocket_lookup_callback() *)
LEMMA LookupAnsweredSafe ==
    ASSUME IInv, NEW s \in Sockets, NEW k \in Kinds, NEW found \in SUBSET Families,
           cb = NULL, LookupAnswered(s, k, found), UNCHANGED broken
    PROVE  IInv'
<1> DEFINE look == [lookup[s] EXCEPT ![k] = Done(found)]
           applied == AppliedFlags(flags[s], look, FALSE)
<1>1. TypeOK /\ DescriptorsSound BY DEF IInv
<1>2. /\ flags \in [Sockets -> SUBSET SocketFlags]
      /\ lookup \in [Sockets -> LookupType]
      /\ addr \in [Sockets -> [Kinds -> Families \cup {"none"}]]
      /\ status \in [Sockets -> {"none", "CLOSED", "LISTENING", "CONNECTING", "CONNECTED"}]
  BY <1>1 DEF TypeOK, SocketFlags, LookupType
<1>3. UNCHANGED <<status, clients, asked, forgotten>> BY DEF LookupAnswered
<1>4. /\ status[s] \in {"CONNECTING", "LISTENING"}
      /\ fd[s] = 0
      /\ flags[s] = IF status[s] = "LISTENING" THEN {"LISTENING"} ELSE {}
  BY DEF LookupAnswered, Exists, IInv, SocketInv, Looking, StillLooksUp
<1>5. look \in LookupType BY <1>2 DEF LookupType, Done
<1>6. 0 \notin Fds BY ConnectAssumption DEF Fds
<1>7. AskedTyped' BY <1>3 DEF IInv, AskedTyped
<1>8. Exists(s) /\ status'[s] = status[s] BY <1>3, <1>4 DEF Exists
<1>9. CASE /\ ~ LookupsDone(look)
           /\ lookup' = [lookup EXCEPT ![s] = look]
           /\ UNCHANGED <<flags, addr, fd, kernel, watched, cb>>
  <2> HIDE DEF look, applied
  <2>1. /\ lookup' \in [Sockets -> LookupType] /\ lookup'[s] = look
        /\ \A t \in Sockets : t # s => lookup'[t] = lookup[t]
    BY <1>2, <1>5, <1>9
  <2>2. TypeOK' BY <1>1, <1>3, <1>9, <2>1 DEF TypeOK, LookupType, Fds
  <2>3. SocketInv(s)'
    <3>1. SocketInv(s) BY DEF IInv
    <3>2. Idle(s)' /\ Looking(s)' BY <1>3, <1>4, <1>9 DEF Idle, Looking, StillLooksUp
    <3>3. FlagsAsStatus(s)' BY <1>3, <1>9, <3>1 DEF SocketInv, FlagsAsStatus, Has
    <3>4. EndsInCallback(s)' BY <1>9, <3>1 DEF SocketInv, EndsInCallback
    <3>5. FallBackKnows(s)' BY <1>4, <1>9 DEF FallBackKnows, MayFallBack, Has
    <3>6. GoesWhereAsked(s)' /\ ConnectedIsUp(s)'
      BY <1>4, <1>6, <1>9 DEF GoesWhereAsked, ConnectedIsUp, Fds
    <3> QED BY <3>2, <3>3, <3>4, <3>5, <3>6 DEF SocketInv
  <2>4. CallbackOfSocket' /\ EventsAreTrueUnlessEarly'
    BY <1>9 DEF CallbackOfSocket, EventsAreTrueUnlessEarly
  <2> QED BY <1>3, <1>4, <1>9, <2>1, <2>2, <2>3, <2>4, AboutOne
<1>10. CASE /\ LookupsDone(look) /\ "DNSERROR" \in applied
            /\ lookup' = [lookup EXCEPT ![s] = look]
            /\ flags' = [flags EXCEPT ![s] = applied]
            /\ UNCHANGED <<addr, fd, kernel, watched>>
            /\ cb' = [event |-> "DNSFAILED", about |-> s]
  <2>1. applied = flags[s] \cup {"DNSERROR"}
    <3>1. flags[s] \in SUBSET SocketFlags /\ "DNSERROR" \notin flags[s]
      BY <1>2, <1>4
    <3> HIDE DEF look
    <3> QED BY <1>10, <3>1, Applied
  <2> HIDE DEF look, applied
  <2>2. /\ lookup' \in [Sockets -> LookupType] /\ lookup'[s] = look
        /\ \A t \in Sockets : t # s => lookup'[t] = lookup[t]
    BY <1>2, <1>5, <1>10
  <2>3. flags[s] \cup {"DNSERROR"} \in SUBSET SocketFlags BY <1>2 DEF SocketFlags
  <2>4. /\ flags' \in [Sockets -> SUBSET SocketFlags]
        /\ flags'[s] = flags[s] \cup {"DNSERROR"}
        /\ \A t \in Sockets : t # s => flags'[t] = flags[t]
    BY <1>2, <1>10, <2>1, <2>3
  <2>5. cb' \in [event : EventNames, about : Sockets] BY <1>10 DEF EventNames
  <2>6. TypeOK'
    BY <1>1, <1>3, <1>10, <2>2, <2>4, <2>5 DEF TypeOK, LookupType, SocketFlags, Fds
  <2>7. cb' # NULL BY <2>5, ConnectAssumption
  <2>8. SocketInv(s)'
    <3>1. SocketInv(s) BY DEF IInv
    <3>2. \A j \in Kinds : lookup'[s][j].state # "pending"
      BY <1>10, <2>2 DEF LookupsDone
    <3>3. Idle(s)' /\ Looking(s)' BY <1>3, <1>4, <3>2 DEF Idle, Looking, StillLooksUp
    <3>4. FlagsAsStatus(s)' BY <1>3, <2>4, <3>1 DEF SocketInv, FlagsAsStatus, Has
    <3>5. EndsInCallback(s)' BY <1>10, <2>7 DEF EndsInCallback
    <3>6. FallBackKnows(s)' BY <1>4, <2>4 DEF FallBackKnows, MayFallBack, Has
    <3>7. GoesWhereAsked(s)' /\ ConnectedIsUp(s)'
      BY <1>4, <1>6, <1>10 DEF GoesWhereAsked, ConnectedIsUp, Fds
    <3> QED BY <3>3, <3>4, <3>5, <3>6, <3>7 DEF SocketInv
  <2>9. CallbackOfSocket' BY <1>4, <1>8, <1>10 DEF CallbackOfSocket
  <2>10. EventsAreTrueUnlessEarly'
    BY <1>4, <1>10 DEF EventsAreTrueUnlessEarly, EventIsTrue
  <2>11. "ACTIVE" \notin flags'[s] BY <1>4, <2>4
  <2> QED BY <1>3, <1>4, <1>10, <2>2, <2>4, <2>6, <2>8, <2>9, <2>10, <2>11, AboutOne
<1>11. CASE /\ LookupsDone(look) /\ "DNSERROR" \notin applied
            /\ Apply(s, flags[s], look)
            /\ cb' = cb
  <2>1. flags[s] \in {{}, {"LISTENING"}} /\ ("LISTENING" \in flags[s] <=> status[s] = "LISTENING")
    BY <1>4
  <2>2. ChosenFamily(look, FALSE) # "none"
    <3>1. flags[s] \in SUBSET SocketFlags /\ "DNSERROR" \notin flags[s] BY <1>2, <1>4
    <3> HIDE DEF look
    <3> QED BY <1>11, <3>1, Applied
  <2>3. status'[s] = IF "LISTENING" \in flags[s] THEN "LISTENING" ELSE "CONNECTING"
    BY <1>4, <1>8, <2>1
  <2>4. PICK g \in {{}, {"LISTENING"}} : g = flags[s] BY <2>1
  <2>5. Apply(s, g, look) BY <1>11, <2>4
  <2> HIDE DEF look, applied
  <2> QED
    BY <1>2, <1>3, <1>4, <1>5, <1>7, <1>11, <2>2, <2>3, <2>4, <2>5, ApplySafe
<1> QED
  BY <1>9, <1>10, <1>11 DEF LookupAnswered, Silent, Trigger

(* The answer comes within the call that asks. *)
LEMMA ChosenIfFound ==
    ASSUME NEW k \in Kinds, NEW found \in SUBSET Families, found # {}, NEW look,
           look[k].state = "done" /\ look[k].found = found,
           \A j \in Kinds \ {k} : look[j].state # "done"
    PROVE  ChosenFamily(look, FALSE) # "none"
<1>1. UsableFamilies(look) = found BY DEF UsableFamilies
<1> QED BY <1>1 DEF ChosenFamily, Families

LEMMA ConnectAtOnceSafe ==
    ASSUME IInv, NEW s \in Sockets, NEW r \in Requests, NEW found \in SUBSET Families,
           ConnectAtOnce(s, r, found), UNCHANGED broken
    PROVE  IInv'
<1> DEFINE look == [dest |-> Done(found), bind |-> LookupOf(r.bind)]
<1>1. TypeOK /\ AskedTyped BY DEF IInv
<1>2. /\ status[s] = "none"
      /\ status' = [status EXCEPT ![s] = "CONNECTING"]
      /\ asked' = [asked EXCEPT ![s] = r]
      /\ UNCHANGED <<clients, forgotten, cb>>
  BY DEF ConnectAtOnce, Silent
<1>3. r \in [dest : Families \cup {"name"}, bind : Families \cup {"name", "none"}]
  BY ConnectAssumption
<1>4. AskedTyped' BY <1>1, <1>2, <1>3 DEF AskedTyped
<1>5. status' \in [Sockets -> {"none", "CLOSED", "LISTENING", "CONNECTING", "CONNECTED"}]
  BY <1>1, <1>2 DEF TypeOK
<1>6. /\ look \in LookupType
      /\ look["dest"].state = "done" /\ look["dest"].found = found
      /\ look["bind"].state # "done"
  BY DEF LookupType, Kinds, Done, LookupOf, Pending, NoLookup
<1>7. /\ status'[s] = "CONNECTING"
      /\ \A t \in Sockets : t # s => status'[t] = status[t] /\ asked'[t] = asked[t]
  BY <1>1, <1>2 DEF TypeOK, AskedTyped
<1>8. fd[s] = 0 /\ flags[s] = {} BY <1>2 DEF IInv, SocketInv, Idle
<1>9. cb = NULL \/ cb.about # s BY <1>2 DEF IInv, CallbackOfSocket
<1>10. CASE LookupsDone(look)
  <2>1. found # {} /\ Apply(s, {}, look) BY <1>10 DEF ConnectAtOnce
  <2> HIDE DEF look
  <2>2. ChosenFamily(look, FALSE) # "none"
    <3>1. \A j \in Kinds \ {"dest"} : look[j].state # "done" BY <1>6 DEF Kinds
    <3>2. "dest" \in Kinds BY DEF Kinds
    <3> QED BY <1>6, <2>1, <3>1, <3>2, ChosenIfFound
  <2>3. PICK g \in {{}, {"LISTENING"}} : g = {} OBVIOUS
  <2>4. Apply(s, g, look) /\ "LISTENING" \notin g BY <2>1, <2>3
  <2> QED
    BY <1>2, <1>4, <1>5, <1>6, <1>7, <1>8, <1>9, <1>10, <2>2, <2>4, ApplySafe
<1>11. CASE ~ LookupsDone(look)
  <2>1. lookup' = [lookup EXCEPT ![s] = look] /\ UNCHANGED <<flags, addr, fd, kernel, watched>>
    BY <1>11 DEF ConnectAtOnce
  <2> HIDE DEF look
  <2>2. /\ flags' \in [Sockets -> SUBSET SocketFlags]
        /\ addr' \in [Sockets -> [Kinds -> Families \cup {"none"}]]
        /\ lookup' \in [Sockets -> [Kinds ->
                [state : {"none", "pending", "done"}, found : SUBSET Families]]]
        /\ \A t \in Sockets : t # s => lookup'[t] = lookup[t]
    BY <1>1, <1>6, <2>1 DEF TypeOK, SocketFlags, LookupType
  <2> QED BY <1>2, <1>4, <1>5, <1>7, <1>8, <2>1, <2>2, LooksUpSafe
<1> QED BY <1>10, <1>11

LEMMA ListenAtOnceSafe ==
    ASSUME IInv, NEW s \in Sockets, NEW host \in Hosts, NEW found \in SUBSET Families,
           ListenAtOnce(s, host, found), UNCHANGED broken
    PROVE  IInv'
<1> DEFINE look == [dest |-> NoLookup, bind |-> Done(found)]
           g == {"LISTENING"}
<1>1. TypeOK /\ AskedTyped BY DEF IInv
<1>2. /\ status[s] = "none" /\ found # {}
      /\ status' = [status EXCEPT ![s] = "LISTENING"]
      /\ asked' = [asked EXCEPT ![s] = [dest |-> "none", bind |-> host]]
      /\ Apply(s, g, look)
      /\ UNCHANGED <<clients, forgotten, cb>>
  BY DEF ListenAtOnce, Silent
<1>3. host \in Families \cup {"name"} BY ConnectAssumption
<1>4. AskedTyped' BY <1>1, <1>2, <1>3 DEF AskedTyped
<1>5. status' \in [Sockets -> {"none", "CLOSED", "LISTENING", "CONNECTING", "CONNECTED"}]
  BY <1>1, <1>2 DEF TypeOK
<1>6. /\ look \in LookupType /\ LookupsDone(look)
      /\ look["bind"].state = "done" /\ look["bind"].found = found
      /\ look["dest"].state # "done"
  BY DEF LookupType, LookupsDone, Kinds, Done, NoLookup
<1>7. /\ status'[s] = "LISTENING"
      /\ \A t \in Sockets : t # s => status'[t] = status[t] /\ asked'[t] = asked[t]
  BY <1>1, <1>2 DEF TypeOK, AskedTyped
<1>8. fd[s] = 0 /\ flags[s] = {} BY <1>2 DEF IInv, SocketInv, Idle
<1>9. cb = NULL \/ cb.about # s BY <1>2 DEF IInv, CallbackOfSocket
<1>10. g \in {{}, {"LISTENING"}} /\ "LISTENING" \in g OBVIOUS
<1> HIDE DEF look, g
<1>11. ChosenFamily(look, FALSE) # "none"
  <2>1. \A j \in Kinds \ {"bind"} : look[j].state # "done" BY <1>6 DEF Kinds
  <2>2. "bind" \in Kinds BY DEF Kinds
  <2> QED BY <1>2, <1>6, <2>1, <2>2, ChosenIfFound
<1> QED
  BY <1>2, <1>4, <1>5, <1>6, <1>7, <1>8, <1>9, <1>10, <1>11, ApplySafe

(* Going back to IPv4. *)
LEMMA FallBackSafe ==
    ASSUME IInv, NEW s \in Sockets, cb = NULL, FallBack(s), UNCHANGED broken
    PROVE  IInv'
<1>1. TypeOK /\ DescriptorsSound BY DEF IInv
<1>2. /\ flags \in [Sockets -> SUBSET SocketFlags]
      /\ lookup \in [Sockets -> LookupType]
      /\ addr \in [Sockets -> [Kinds -> Families \cup {"none"}]]
      /\ fd \in [Sockets -> Fds \cup {0, -1}] /\ forgotten \in Nat
  BY <1>1 DEF TypeOK, SocketFlags, LookupType
<1>3. /\ Watched(s) /\ Has(s, "CONNECTING") /\ CanFallBack(s)
      /\ forgotten' = IF FreeFds = {} THEN forgotten ELSE forgotten + 1
      /\ addr' = [addr EXCEPT ![s] = AppliedAddr(lookup[s], TRUE)]
      /\ lookup' = [lookup EXCEPT ![s] = Cleared(@)]
      /\ UNCHANGED <<status, clients, asked, cb>>
  BY DEF FallBack, Silent
<1>4. fd[s] \in Fds /\ Exists(s) /\ ~ StillLooksUp(s) BY <1>3, WatchedHas
<1>5. "A" \in UsableFamilies(lookup[s])
  BY <1>3 DEF IInv, SocketInv, FallBackKnows, MayFallBack
<1>6. ChosenFamily(lookup[s], TRUE) = "A" BY <1>5 DEF ChosenFamily
<1>7. flags[s] \cap {"DEAD", "DNSERROR"} = {} BY NoneDead
<1>8. /\ status[s] = "CONNECTING" /\ "LISTENING" \notin flags[s]
  BY <1>3 DEF IInv, SocketInv, FlagsAsStatus, Has
<1>9. PICK f, to :
        /\ f = flags[s] \ {"ACTIVE", "IPV6SOCKET", "RECONNECT_IPV4"}
        /\ to = AppliedAddr(lookup[s], TRUE).dest
  OBVIOUS
<1>10. f \in SUBSET SocketFlags /\ SocketFamily(f) = "A" /\ "CONNECTING" \in f
  BY <1>2, <1>3, <1>9 DEF SocketFamily, Has
<1>11. to \in {"A", "none"} BY <1>6, <1>9 DEF AppliedAddr, Kinds
<1>12. AppliedFlags(flags[s] \ {"ACTIVE"}, lookup[s], TRUE) = f
  BY <1>6, <1>9 DEF AppliedFlags
<1>13. Finish(s, f, to, "connecting") BY <1>9, <1>12 DEF FallBack, Finish
<1>14. Opens(s, f, to, "connecting")
  BY <1>1, <1>10, <1>11, <1>13, FinishIs DEF Families
<1>15. watched' = IF FreeFds = {} THEN Unwatched(s) ELSE Unwatched(s) \cup {<<LowestFree, s>>}
  BY DEF FallBack, Watch
<1>16. flags' \in [Sockets -> SUBSET SocketFlags] BY <1>14 DEF Opens
<1>17. \A t \in Sockets : t # s => flags'[t] = flags[t] /\ fd'[t] = fd[t]
  BY <1>14 DEF Opens
<1>18. NothingNew(s, f) \/ NewFd(s, f, to, "connecting") BY <1>14 DEF Opens
<1>19. /\ lookup' \in [Sockets -> LookupType]
       /\ \A k \in Kinds : lookup'[s][k].state # "pending"
       /\ \A t \in Sockets : t # s => lookup'[t] = lookup[t]
  BY <1>2, <1>3, <1>4, ClearedTyped DEF StillLooksUp
<1>20. TypeOK'
  <2>1. fd' \in [Sockets -> Fds \cup {0, -1}] /\ kernel' \in KernelType
    BY <1>14 DEF Opens
  <2>2. addr' \in [Sockets -> [Kinds -> Families \cup {"none"}]]
    <3>1. AppliedAddr(lookup[s], TRUE) \in [Kinds -> Families \cup {"none"}]
      BY <1>6 DEF AppliedAddr, Families
    <3> QED BY <1>2, <1>3, <3>1
  <2>3. watched' \subseteq Fds \X Sockets
    BY <1>1, <1>15, LowestIsFree DEF TypeOK, Unwatched
  <2>4. forgotten' \in Nat BY <1>2, <1>3
  <2> QED
    BY <1>1, <1>3, <1>16, <1>19, <2>1, <2>2, <2>3, <2>4
       DEF TypeOK, SocketFlags, KernelType, KernelStates, LookupType, Fds
<1>21. /\ f \subseteq flags'[s] /\ flags'[s] \subseteq f \cup {"ACTIVE", "CONNECTING"}
  <2>1. CASE NothingNew(s, f) BY <2>1 DEF NothingNew
  <2>2. CASE NewFd(s, f, to, "connecting")
    <3>1. flags'[s] = f \cup {"ACTIVE"} \cup {"CONNECTING"} BY <2>2 DEF NewFd
    <3> QED BY <3>1
  <2> QED BY <1>18, <2>1, <2>2
<1>22. ASSUME NEW t \in Sockets, t # s PROVE Untouched(t)
  <2>1. fd[t] \in Fds => GoesOn(fd[t])
    <3>1. CASE NothingNew(s, f) BY <3>1 DEF NothingNew, GoesOn
    <3>2. CASE NewFd(s, f, to, "connecting")
      <4>1. /\ kernel[LowestFree].state = "unused"
            /\ \A g \in Fds : g # LowestFree => kernel'[g] = kernel[g]
        BY <3>2 DEF NewFd
      <4> QED BY <1>1, <4>1, OthersGoOn
    <3> QED BY <1>18, <3>1, <3>2
  <2> QED BY <1>3, <1>17, <1>19, <1>22, <2>1 DEF Untouched
<1>23. SocketInv(s)'
  <2>1. status'[s] = "CONNECTING" BY <1>3, <1>8
  <2>2. Idle(s)' /\ Looking(s)' BY <1>19, <2>1 DEF Idle, Looking, StillLooksUp
  <2>3. FlagsAsStatus(s)' BY <1>8, <1>9, <1>21, <2>1 DEF FlagsAsStatus, Has
  <2>4. EndsInCallback(s)' BY <1>7, <1>9, <1>21 DEF EndsInCallback
  <2>5. FallBackKnows(s)'
    BY <1>9, <1>21 DEF FallBackKnows, MayFallBack, CanFallBack
  <2>6. GoesWhereAsked(s)'
    <3>1. CASE NothingNew(s, f)
      <4>1. UNCHANGED <<fd, kernel>> BY <3>1 DEF NothingNew
      <4> QED BY <1>3, <4>1 DEF IInv, SocketInv, GoesWhereAsked, Fds
    <3>2. CASE NewFd(s, f, to, "connecting")
      <4>1. fd'[s] = LowestFree BY <1>2, <3>2 DEF NewFd
      <4>2. kernel'[LowestFree].to = "asked" \/ kernel'[LowestFree].state = "failed"
        BY <1>10, <1>11, <3>2 DEF NewFd
      <4> QED BY <4>1, <4>2 DEF GoesWhereAsked
    <3> QED BY <1>18, <3>1, <3>2
  <2>7. ConnectedIsUp(s)' BY <2>1 DEF ConnectedIsUp
  <2> QED BY <2>2, <2>3, <2>4, <2>5, <2>6, <2>7 DEF SocketInv
<1>24. ASSUME NEW t \in Sockets PROVE SocketInv(t)'
  <2>1. CASE t # s BY <1>3, <1>22, <2>1, SocketKept DEF IInv
  <2> QED BY <1>23, <2>1
<1>25. AskedTyped' BY <1>3 DEF IInv, AskedTyped
<1>26. DataFromPeer'
  <2>1. DataFromPeer BY DEF IInv
  <2>2. CASE NothingNew(s, f) BY <2>1, <2>2 DEF NothingNew, DataFromPeer, Fds
  <2>3. CASE NewFd(s, f, to, "connecting")
    <3> SUFFICES ASSUME NEW g \in Fds, kernel'[g].data
                 PROVE  kernel'[g].state \in {"established", "eof"}
      BY DEF DataFromPeer, Fds
    <3>1. g # LowestFree BY <2>3 DEF NewFd
    <3>2. kernel'[g] = kernel[g] BY <2>3, <3>1 DEF NewFd
    <3>3. kernel[g].data BY <3>2
    <3> QED BY <2>1, <3>2, <3>3 DEF DataFromPeer
  <2> QED BY <1>18, <2>2, <2>3
<1>27. Exists(s)' BY <1>3, <1>4 DEF Exists
<1>28. DescriptorsSound'
  <2>1. CASE NothingNew(s, f)
    <3>1. UNCHANGED <<fd, kernel, forgotten>> /\ watched' = Unwatched(s) /\ flags'[s] = f
      BY <1>3, <1>15, <2>1 DEF NothingNew
    <3>2. watched' \subseteq watched /\ \A x \in watched \ watched' : x[2] = s
      BY <3>1 DEF Unwatched
    <3>3. \A x \in watched \ watched' : "ACTIVE" \notin flags'[x[2]]
      BY <1>9, <3>1, <3>2
    <3>4. \A t \in Sockets : Exists(t) => Exists(t)' BY <1>3 DEF Exists
    <3>5. \A t \in Sockets : "ACTIVE" \in flags'[t] => "ACTIVE" \in flags[t]
      BY <1>9, <1>17, <3>1
    <3> QED BY <1>1, <1>20, <3>1, <3>2, <3>3, <3>4, <3>5, NoneOpened
  <2>2. CASE NewFd(s, f, to, "connecting")
    <3>1. /\ LowestFree \in Fds /\ kernel[LowestFree].state = "unused"
          /\ fd' = [fd EXCEPT ![s] = LowestFree]
          /\ \A g \in Fds : g # LowestFree => kernel'[g] = kernel[g]
          /\ kernel'[LowestFree].state # "unused"
          /\ watched' = Unwatched(s) \cup {<<LowestFree, s>>}
          /\ forgotten' = forgotten + 1
      BY <1>3, <1>15, <2>2 DEF NewFd
    <3>2. \A t \in Sockets : t # s => status'[t] = status[t] /\ flags'[t] = flags[t]
      BY <1>3, <1>17
    <3> QED BY <1>1, <1>4, <1>27, <3>1, <3>2, Replaced
  <2> QED BY <1>18, <2>1, <2>2
<1>29. CallbackOfSocket' /\ EventsAreTrueUnlessEarly'
  BY <1>3 DEF CallbackOfSocket, EventsAreTrueUnlessEarly
<1> QED BY <1>20, <1>24, <1>25, <1>26, <1>28, <1>29 DEF IInv

(* iosocket_accept_client() *)
LEMMA AcceptClientSafe ==
    ASSUME IInv, NEW server \in Sockets, NEW s \in Sockets, cb = NULL,
           AcceptClient(server, s), UNCHANGED broken
    PROVE  IInv'
<1>1. TypeOK /\ DescriptorsSound BY DEF IInv
<1>2. /\ flags \in [Sockets -> SUBSET SocketFlags]
      /\ addr \in [Sockets -> [Kinds -> Families \cup {"none"}]]
      /\ fd \in [Sockets -> Fds \cup {0, -1}]
      /\ status \in [Sockets -> {"none", "CLOSED", "LISTENING", "CONNECTING", "CONNECTED"}]
      /\ kernel \in KernelType
      /\ clients \in [Fds -> 0 .. MaxClients]
  BY <1>1 DEF TypeOK, SocketFlags, KernelType, KernelStates
<1> DEFINE set == {"INCOMING", "ACTIVE"} \cup (flags[server] \cap {"IPV6SOCKET"})
           new == [state |-> "established", to |-> "asked", data |-> FALSE]
<1>3. /\ Watched(server) /\ Has(server, "LISTENING") /\ clients[fd[server]] > 0
      /\ status[s] = "none"
      /\ status' = [status EXCEPT ![s] = "CONNECTED"]
      /\ flags' = [flags EXCEPT ![s] = set]
      /\ addr' = [addr EXCEPT ![s] = [k \in Kinds |-> SocketFamily(flags[server])]]
      /\ watched' = IF FreeFds = {} THEN watched ELSE watched \cup {<<LowestFree, s>>}
      /\ UNCHANGED <<lookup, asked, forgotten>>
      /\ cb' = [event |-> "ACCEPT", about |-> server]
  BY DEF AcceptClient, Watch, Trigger
<1>4. FreeFds = {} =>
        fd' = [fd EXCEPT ![s] = -1] /\ UNCHANGED <<kernel, clients>>
  BY DEF AcceptClient
<1>5. FreeFds # {} =>
        /\ fd' = [fd EXCEPT ![s] = LowestFree]
        /\ kernel' = [kernel EXCEPT ![LowestFree] = new]
        /\ clients' = [clients EXCEPT ![fd[server]] = @ - 1]
  BY DEF AcceptClient
<1>6. /\ set \in SUBSET SocketFlags
      /\ "CONNECTING" \notin set /\ "LISTENING" \notin set
      /\ set \cap {"DEAD", "DNSERROR"} = {}
  BY DEF SocketFlags
<1>7. /\ new \in [state : KernelStates, to : {"none", "asked", "other"}, data : BOOLEAN]
      /\ new.state = "established" /\ new.to = "asked"
  BY DEF KernelStates
<1> HIDE DEF set, new
<1>8. fd[server] \in Fds /\ Exists(server) BY <1>3, WatchedHas
<1>9. server # s BY <1>3, <1>8 DEF Exists
<1>10. fd[s] = 0 /\ flags[s] = {} /\ \A k \in Kinds : lookup[s][k].state # "pending"
  BY <1>3 DEF IInv, SocketInv, Idle, Looking, StillLooksUp
<1>11. 0 \notin Fds /\ -1 \notin Fds BY ConnectAssumption DEF Fds
<1>12. /\ status'[s] = "CONNECTED" /\ flags'[s] = set
       /\ \A t \in Sockets : t # s =>
            status'[t] = status[t] /\ flags'[t] = flags[t] /\ fd'[t] = fd[t]
  BY <1>2, <1>3, <1>4, <1>5
<1>13. FreeFds # {} =>
        /\ LowestFree \in Fds /\ kernel[LowestFree].state = "unused"
        /\ fd'[s] = LowestFree
        /\ kernel'[LowestFree] = new
        /\ \A g \in Fds : g # LowestFree => kernel'[g] = kernel[g]
  BY <1>2, <1>5, LowestIsFree DEF KernelType
<1>14. FreeFds = {} => fd'[s] = -1 /\ kernel' = kernel BY <1>2, <1>4
<1>15. TypeOK'
  <2>1. status' \in [Sockets -> {"none", "CLOSED", "LISTENING", "CONNECTING", "CONNECTED"}]
    BY <1>2, <1>3
  <2>2. flags' \in [Sockets -> SUBSET SocketFlags] BY <1>2, <1>3, <1>6
  <2>3. addr' \in [Sockets -> [Kinds -> Families \cup {"none"}]]
    BY <1>2, <1>3 DEF SocketFamily, Families
  <2>4. fd' \in [Sockets -> Fds \cup {0, -1}]
    BY <1>2, <1>4, <1>5, LowestIsFree
  <2>5. kernel' \in KernelType
    BY <1>2, <1>4, <1>5, <1>7, LowestIsFree DEF KernelType
  <2>6. clients' \in [Fds -> 0 .. MaxClients]
    BY <1>2, <1>3, <1>4, <1>5, <1>8, ConnectAssumption
  <2>7. watched' \subseteq Fds \X Sockets
    BY <1>1, <1>3, LowestIsFree DEF TypeOK
  <2>8. cb' \in [event : EventNames, about : Sockets] BY <1>3 DEF EventNames
  <2> QED
    BY <1>1, <1>3, <2>1, <2>2, <2>3, <2>4, <2>5, <2>6, <2>7, <2>8
       DEF TypeOK, SocketFlags, KernelType, KernelStates, Fds
<1>16. ASSUME NEW t \in Sockets, t # s PROVE Untouched(t)
  <2>1. fd[t] \in Fds => GoesOn(fd[t])
    <3>1. CASE FreeFds = {} BY <1>14, <3>1 DEF GoesOn
    <3>2. CASE FreeFds # {}
      <4>1. /\ kernel[LowestFree].state = "unused"
            /\ \A g \in Fds : g # LowestFree => kernel'[g] = kernel[g]
        BY <1>13, <3>2
      <4> QED BY <1>1, <4>1, OthersGoOn
    <3> QED BY <3>1, <3>2
  <2> QED BY <1>3, <1>12, <1>16, <2>1 DEF Untouched
<1>17. SocketInv(s)'
  <2>1. Idle(s)' BY <1>12 DEF Idle
  <2>2. Looking(s)' BY <1>3, <1>10 DEF Looking, StillLooksUp
  <2>3. FlagsAsStatus(s)' BY <1>6, <1>12 DEF FlagsAsStatus, Has
  <2>4. EndsInCallback(s)' BY <1>6, <1>12 DEF EndsInCallback
  <2>5. FallBackKnows(s)' BY <1>6, <1>12 DEF FallBackKnows, MayFallBack, Has
  <2>6. GoesWhereAsked(s)' /\ ConnectedIsUp(s)'
    <3>1. CASE FreeFds = {}
      <4>1. fd'[s] \notin Fds BY <1>11, <1>14, <3>1
      <4> QED BY <4>1 DEF GoesWhereAsked, ConnectedIsUp, Fds
    <3>2. CASE FreeFds # {}
      BY <1>7, <1>13, <3>2 DEF GoesWhereAsked, ConnectedIsUp
    <3> QED BY <3>1, <3>2
  <2> QED BY <2>1, <2>2, <2>3, <2>4, <2>5, <2>6 DEF SocketInv
<1>18. ASSUME NEW t \in Sockets PROVE SocketInv(t)'
  <2>1. CASE t # s
    <3>1. flags[t] \cap {"DEAD", "DNSERROR"} = {} BY NoneDead
    <3> QED BY <1>16, <2>1, <3>1, SocketKept DEF IInv
  <2> QED BY <1>17, <2>1
<1>19. AskedTyped' BY <1>3 DEF IInv, AskedTyped
<1>20. DataFromPeer'
  <2>1. DataFromPeer BY DEF IInv
  <2>2. CASE FreeFds = {} BY <1>14, <2>1, <2>2 DEF DataFromPeer, Fds
  <2>3. CASE FreeFds # {}
    <3> SUFFICES ASSUME NEW g \in Fds, kernel'[g].data
                 PROVE  kernel'[g].state \in {"established", "eof"}
      BY DEF DataFromPeer, Fds
    <3>1. CASE g = LowestFree BY <1>7, <1>13, <2>3, <3>1
    <3>2. CASE g # LowestFree
      <4>1. kernel'[g] = kernel[g] BY <1>13, <2>3, <3>2
      <4>2. kernel[g].data BY <4>1
      <4> QED BY <2>1, <4>1, <4>2 DEF DataFromPeer
    <3> QED BY <3>1, <3>2
  <2> QED BY <2>2, <2>3
<1>21. DescriptorsSound'
  <2>1. CASE FreeFds = {}
    <3>1. UNCHANGED <<kernel, watched, forgotten>> BY <1>3, <1>14, <2>1
    <3>2. \A t \in Sockets : Exists(t) => Exists(t)' BY <1>3, <1>12 DEF Exists
    <3>3. \A t \in Sockets : fd'[t] = fd[t] \/ (fd[t] \notin Fds /\ fd'[t] \notin Fds)
      BY <1>10, <1>11, <1>12, <1>14, <2>1
    <3>4. \A t \in Sockets :
              "ACTIVE" \in flags'[t] => "ACTIVE" \in flags[t] \/ fd[t] \notin Fds
      BY <1>10, <1>11, <1>12
    <3> QED BY <1>1, <1>15, <3>1, <3>2, <3>3, <3>4, NoneOpened
  <2>2. CASE FreeFds # {}
    <3>1. /\ fd' = [fd EXCEPT ![s] = LowestFree]
          /\ watched' = watched \cup {<<LowestFree, s>>}
          /\ kernel'[LowestFree].state # "unused"
      BY <1>3, <1>5, <1>7, <1>13, <2>2
    <3>2. fd[s] \notin Fds /\ Exists(s)' BY <1>10, <1>11, <1>12 DEF Exists
    <3>3. forgotten' = forgotten BY <1>3
    <3> QED BY <1>1, <1>12, <1>13, <2>2, <3>1, <3>2, <3>3, Opened
  <2> QED BY <2>1, <2>2
<1>22. CallbackOfSocket'
  <2>1. status'[server] # "none" BY <1>8, <1>9, <1>12 DEF Exists
  <2> QED BY <1>3, <2>1 DEF CallbackOfSocket
<1>23. EventsAreTrueUnlessEarly'
  BY <1>3 DEF EventsAreTrueUnlessEarly, EventIsTrue
<1> QED BY <1>15, <1>18, <1>19, <1>20, <1>21, <1>22, <1>23 DEF IInv

-----------------------------------------------------------------------------
(* The invariant. *)

LEMMA InitSafe == Init => IInv
<1> SUFFICES ASSUME Init PROVE IInv OBVIOUS
<1>1. 0 \notin Fds /\ MaxClients \in Nat BY ConnectAssumption DEF Fds
<1>2. TypeOK
  <2>1. broken \in BOOLEAN BY DEF Init
  <2> QED BY <1>1, <2>1 DEF Init, TypeOK, NoLookup, Unused, Families
<1>3. AskedTyped BY DEF Init, AskedTyped
<1>4. DataFromPeer BY DEF Init, DataFromPeer, Unused
<1>5. ASSUME NEW s \in Sockets PROVE SocketInv(s)
  <2>1. /\ status[s] = "none" /\ flags[s] = {} /\ fd[s] = 0
        /\ \A k \in Kinds : lookup[s][k].state = "none"
    BY DEF Init, NoLookup
  <2>2. Idle(s) /\ Looking(s) BY <2>1 DEF Idle, Looking, StillLooksUp
  <2>3. FlagsAsStatus(s) /\ EndsInCallback(s) /\ FallBackKnows(s)
    BY <2>1 DEF FlagsAsStatus, EndsInCallback, FallBackKnows, MayFallBack, Has
  <2>4. GoesWhereAsked(s) /\ ConnectedIsUp(s)
    BY <2>1 DEF GoesWhereAsked, ConnectedIsUp
  <2> QED BY <2>2, <2>3, <2>4 DEF SocketInv
<1>6. DescriptorsSound
  <2>1. Used = {} /\ Owners = {} BY <1>1 DEF Init, Used, Owners, Unused
  <2>2. OwnersHaveTheirs
    BY <2>1, FS_EmptySet DEF Init, OwnersHaveTheirs
  <2>3. WatchedIsLive BY <1>1 DEF Init, WatchedIsLive, Has
  <2> QED BY <2>2, <2>3, Accounted DEF DescriptorsSound
<1>7. CallbackOfSocket /\ EventsAreTrueUnlessEarly
  BY DEF Init, CallbackOfSocket, EventsAreTrueUnlessEarly
<1> QED BY <1>2, <1>3, <1>4, <1>5, <1>6, <1>7 DEF IInv

(* A step that changes nothing, or breaks the program. *)
LEMMA StandsSafe ==
    ASSUME IInv, UNCHANGED <<sock, os, cb, asked, heard, forgotten>>, broken' \in BOOLEAN
    PROVE  IInv'
<1>1. UNCHANGED <<status, flags, addr, lookup, fd, kernel, clients, watched, cb,
                  asked, heard, forgotten>>
  BY DEF sock, os
<1>2. TypeOK /\ DescriptorsSound BY DEF IInv
<1>3. TypeOK' BY <1>1, <1>2 DEF TypeOK, Fds
<1>4. AskedTyped' /\ DataFromPeer' BY <1>1 DEF IInv, AskedTyped, DataFromPeer, Fds
<1>5. \A s \in Sockets : SocketInv(s)'
  <2> TAKE s \in Sockets
  <2>1. Untouched(s) BY <1>1 DEF Untouched, GoesOn
  <2> QED BY <1>1, <2>1, SocketKept DEF IInv
<1>6. DescriptorsSound'
  <2>1. \A s \in Sockets : Exists(s) => Exists(s)' BY <1>1 DEF Exists
  <2> QED BY <1>1, <1>2, <1>3, <2>1, NoneOpened
<1>7. (CallbackOfSocket /\ EventsAreTrueUnlessEarly)'
  <2>1. cb # NULL => GoesOn(fd[cb.about]) BY <1>1 DEF GoesOn
  <2> QED BY <1>1, <1>2, <2>1, EventKept DEF IInv
<1> QED BY <1>3, <1>4, <1>5, <1>6, <1>7 DEF IInv

LEMMA StepSafe == IInv /\ [Next]_vars => IInv'
<1> SUFFICES ASSUME IInv, [Next]_vars PROVE IInv' OBVIOUS
<1>1. CASE Runs(UserCode)
  <2>1. UNCHANGED broken BY <1>1 DEF Runs
  <2>2. PICK s \in Sockets :
            \/ \E r \in Requests : \/ Connect(s, r)
                                   \/ \E found \in SUBSET Families : ConnectAtOnce(s, r, found)
            \/ \E h \in Hosts : \/ Listen(s, h)
                                \/ \E found \in SUBSET Families : ListenAtOnce(s, h, found)
            \/ UserClose(s)
    BY <1>1 DEF Runs, UserCode
  <2> QED
    BY <2>1, <2>2, ConnectSafe, ConnectAtOnceSafe, ListenSafe, ListenAtOnceSafe, UserCloseSafe
<1>2. CASE Runs(Answer)
  BY <1>2, LookupAnsweredSafe DEF Runs, Answer
<1>3. ASSUME NEW s \in Sockets, Runs(Dispatch(s)) PROVE IInv'
  <2>1. Dispatch(s) /\ UNCHANGED broken BY <1>3 DEF Runs
  <2> QED
    BY <2>1, DiesSafe, FallBackSafe, EstablishedSafe, AcceptClientSafe DEF Dispatch
<1>4. CASE Runs(CallbackReturns) BY <1>4, CallbackReturnsSafe DEF Runs
<1>5. CASE Runs(Outside) BY <1>5, OutsideSafe DEF Runs
<1>6. CASE Breaks BY <1>6, StandsSafe DEF Breaks, Break
<1>7. CASE UNCHANGED vars
  <2>1. broken' \in BOOLEAN BY <1>7 DEF IInv, TypeOK, vars
  <2> QED BY <1>7, <2>1, StandsSafe DEF vars
<1> QED BY <1>1, <1>2, <1>3, <1>4, <1>5, <1>6, <1>7 DEF Next

LEMMA Inductive == Spec => []IInv
BY InitSafe, StepSafe, PTL DEF Spec

(* The state stays of its types: each socket has flags, addresses and      *)
(* lookups that the code knows, a file descriptor or none.                 *)
THEOREM SocketsTypeCorrect == Spec => []TypeOK
<1>1. IInv => TypeOK BY DEF IInv
<1> QED BY <1>1, Inductive, PTL

(* No path of connecting, accepting, falling back and closing leaks a      *)
(* descriptor, but for those the fallback forgets, or closes that of       *)
(* another socket, and the engine watches what is active and nothing that  *)
(* is gone: whatever the number of sockets and of descriptors, and also    *)
(* when socket() and accept() find none free.                              *)
THEOREM DescriptorsStaySound == Spec => []DescriptorsSound
<1>1. IInv => DescriptorsSound BY DEF IInv
<1> QED BY <1>1, Inductive, PTL

(* A socket that is connected is so with what user code asked for, if that *)
(* was a name or an IPv4 address, after a fallback too.                    *)
THEOREM ConnectsAsAsked == Spec => []ConnectedAsAsked
<1>1. IInv => ConnectedAsAsked
  <2> SUFFICES ASSUME IInv, NEW s \in Sockets, status[s] = "CONNECTED", fd[s] \in Fds,
                      asked[s].dest # "AAAA"
               PROVE  kernel[fd[s]].to = "asked"
    BY DEF ConnectedAsAsked
  <2>1. GoesWhereAsked(s) /\ ConnectedIsUp(s) BY DEF IInv, SocketInv
  <2> QED BY <2>1 DEF GoesWhereAsked, ConnectedIsUp
<1> QED BY <1>1, Inductive, PTL

(* What user code is told of a socket is the case while its callback runs, *)
(* but for a NOTCONNECTED that came from data, or from the end of a        *)
(* connection, before the program had noticed the connection.              *)
THEOREM EventsStayTrue == Spec => []EventsAreTrueUnlessEarly
<1>1. IInv => EventsAreTrueUnlessEarly BY DEF IInv
<1> QED BY <1>1, Inductive, PTL

-----------------------------------------------------------------------------
(* SocketEvents. *)

Lives == [s \in Sockets |-> Life(s)]

Dead(s) == flags[s] \cap {"DEAD", "DNSERROR"} # {}

LEMMA LifeIs ==
    ASSUME NEW s \in Sockets
    PROVE  /\ status[s] = "none" => Life(s) = "none"
           /\ status[s] = "CLOSED" => Life(s) = "closed"
           /\ Exists(s) /\ Dead(s) => Life(s) = "ending"
           /\ status[s] = "CONNECTING" /\ ~ Dead(s) => Life(s) = "opening"
           /\ status[s] = "LISTENING" /\ ~ Dead(s) => Life(s) = "serving"
           /\ status[s] = "CONNECTED" /\ ~ Dead(s) => Life(s) = "open"
BY DEF Life, Dead, Exists

LEMMA LifeIsNext ==
    ASSUME NEW s \in Sockets
    PROVE  /\ status'[s] = "CLOSED" => Life(s)' = "closed"
           /\ status'[s] \notin {"none", "CLOSED"} /\ Dead(s)' => Life(s)' = "ending"
           /\ status'[s] = "CONNECTING" /\ ~ Dead(s)' => Life(s)' = "opening"
           /\ status'[s] = "LISTENING" /\ ~ Dead(s)' => Life(s)' = "serving"
           /\ status'[s] = "CONNECTED" /\ ~ Dead(s)' => Life(s)' = "open"
BY DEF Life, Dead, Exists

(* What the life of a socket depends on. *)
LifeKept(s) == status'[s] = status[s] /\ (Dead(s)' <=> Dead(s))

LEMMA LifeStays ==
    ASSUME TypeOK, NEW s \in Sockets, LifeKept(s)
    PROVE  Life(s)' = Life(s)
<1>1. status[s] \in {"none", "CLOSED", "LISTENING", "CONNECTING", "CONNECTED"}
  BY DEF TypeOK
<1>2. CASE status[s] = "none" BY <1>2 DEF LifeKept, Life
<1>3. CASE status[s] = "CLOSED" BY <1>3 DEF LifeKept, Life
<1>4. CASE status[s] \in {"LISTENING", "CONNECTING", "CONNECTED"}
  <2>1. CASE Dead(s) BY <1>4, <2>1, LifeIs, LifeIsNext DEF LifeKept, Exists
  <2>2. CASE ~ Dead(s) BY <1>4, <2>2, LifeIs, LifeIsNext DEF LifeKept
  <2> QED BY <2>1, <2>2
<1> QED BY <1>1, <1>2, <1>3, <1>4

(* One socket goes on to another part of its life. *)
LEMMA LifeGoesOn ==
    ASSUME TypeOK, NEW s \in Sockets, NEW to, Life(s)' = to,
           \A t \in Sockets : t # s => LifeKept(t)
    PROVE  Lives' = [Lives EXCEPT ![s] = to]
<1>1. \A t \in Sockets : t # s => Life(t)' = Life(t) BY LifeStays
<1>2. Lives' = [t \in Sockets |-> IF t = s THEN to ELSE Life(t)]
  BY <1>1 DEF Lives
<1> QED BY <1>2 DEF Lives

LEMMA LivesStay ==
    ASSUME TypeOK, \A t \in Sockets : LifeKept(t)
    PROVE  Lives' = Lives
BY LifeStays DEF Lives

(* While no callback runs after the step, no socket is dead. *)
LEMMA NoneDeadNext ==
    ASSUME IInv', cb' = NULL, NEW s \in Sockets
    PROVE  ~ Dead(s)'
BY DEF IInv, SocketInv, EndsInCallback, Dead

(* How the steps look from outside. *)

LEMMA EventsInit == Init => Events!Init
BY LifeIs DEF Init, Events!Init

LEMMA StartIs ==
    ASSUME IInv, IInv', NEW s \in Sockets, status[s] = "none",
           NEW to \in {"CONNECTING", "LISTENING"}, status' = [status EXCEPT ![s] = to],
           \A t \in Sockets : t # s => flags'[t] = flags[t],
           UNCHANGED <<cb, heard>>
    PROVE  \/ to = "CONNECTING" /\ Events!Request(s)
           \/ to = "LISTENING" /\ Events!Serve(s)
<1>1. TypeOK BY DEF IInv
<1>2. \A t \in Sockets : t # s => LifeKept(t) BY <1>1 DEF LifeKept, Dead, TypeOK
<1>3. ~ Dead(s)'
  <2>1. cb = NULL \/ cb.about # s BY DEF IInv, CallbackOfSocket
  <2> QED BY <2>1 DEF IInv, SocketInv, EndsInCallback, Dead
<1>4. status'[s] = to BY <1>1 DEF TypeOK
<1>5. Lives[s] = "none" BY LifeIs DEF Lives
<1>6. CASE to = "CONNECTING"
  <2>1. Life(s)' = "opening" BY <1>3, <1>4, <1>6, LifeIsNext
  <2>2. Lives' = [Lives EXCEPT ![s] = "opening"] BY <1>1, <1>2, <2>1, LifeGoesOn
  <2> QED BY <1>5, <1>6, <2>2 DEF Lives, Events!Request, Events!Becomes
<1>7. CASE to = "LISTENING"
  <2>1. Life(s)' = "serving" BY <1>3, <1>4, <1>7, LifeIsNext
  <2>2. Lives' = [Lives EXCEPT ![s] = "serving"] BY <1>1, <1>2, <2>1, LifeGoesOn
  <2> QED BY <1>5, <1>7, <2>2 DEF Lives, Events!Serve, Events!Becomes
<1> QED BY <1>6, <1>7

LEMMA ConnectIsRequest ==
    ASSUME IInv, IInv', NEW s \in Sockets, NEW r \in Requests,
           Connect(s, r) \/ \E found \in SUBSET Families : ConnectAtOnce(s, r, found)
    PROVE  Events!Request(s)
<1>1. /\ status[s] = "none" /\ status' = [status EXCEPT ![s] = "CONNECTING"]
      /\ UNCHANGED <<cb, heard>>
  BY DEF Connect, ConnectAtOnce, Silent
<1>2. \A t \in Sockets : t # s => flags'[t] = flags[t]
  <2>1. flags \in [Sockets -> SUBSET SocketFlags] BY DEF IInv, TypeOK, SocketFlags
  <2>2. ASSUME NEW to, NEW state, NEW f, Finish(s, f, to, state)
        PROVE  \A t \in Sockets : t # s => flags'[t] = flags[t]
    BY <2>1, <2>2 DEF Finish
  <2>3. flags' = flags \/ \E to, state, f : Finish(s, f, to, state)
    BY Zenon DEF Connect, ConnectAtOnce, Apply
  <2> QED BY <2>2, <2>3
<1>3. PICK to \in {"CONNECTING", "LISTENING"} : to = "CONNECTING" OBVIOUS
<1> QED BY <1>1, <1>2, <1>3, StartIs

LEMMA ListenIsServe ==
    ASSUME IInv, IInv', NEW s \in Sockets, NEW host \in Hosts,
           Listen(s, host) \/ \E found \in SUBSET Families : ListenAtOnce(s, host, found)
    PROVE  Events!Serve(s)
<1>1. /\ status[s] = "none" /\ status' = [status EXCEPT ![s] = "LISTENING"]
      /\ UNCHANGED <<cb, heard>>
  BY DEF Listen, ListenAtOnce, Silent
<1>2. \A t \in Sockets : t # s => flags'[t] = flags[t]
  <2>1. flags \in [Sockets -> SUBSET SocketFlags] BY DEF IInv, TypeOK, SocketFlags
  <2>2. ASSUME NEW to, NEW state, NEW f, Finish(s, f, to, state)
        PROVE  \A t \in Sockets : t # s => flags'[t] = flags[t]
    BY <2>1, <2>2 DEF Finish
  <2>3. \/ flags' = [flags EXCEPT ![s] = {"LISTENING"}]
        \/ \E to, state, f : Finish(s, f, to, state)
    BY Zenon DEF Listen, ListenAtOnce, Apply
  <2> QED BY <2>1, <2>2, <2>3
<1>3. PICK to \in {"CONNECTING", "LISTENING"} : to = "LISTENING" OBVIOUS
<1> QED BY <1>1, <1>2, <1>3, StartIs

LEMMA CloseIsClose ==
    ASSUME IInv, NEW s \in Sockets, Exists(s), CloseSocket(s), UNCHANGED heard
    PROVE  Events!Close(s)
<1>1. TypeOK BY DEF IInv
<1>2. /\ status' = [status EXCEPT ![s] = "CLOSED"] /\ flags' = [flags EXCEPT ![s] = {}]
  BY DEF CloseSocket
<1>3. \A t \in Sockets : t # s => LifeKept(t)
  BY <1>1, <1>2 DEF LifeKept, Dead, TypeOK
<1>4. status'[s] = "CLOSED" BY <1>1, <1>2 DEF TypeOK
<1>5. Life(s)' = "closed" BY <1>4, LifeIsNext
<1>6. Lives' = [Lives EXCEPT ![s] = "closed"] BY <1>1, <1>3, <1>5, LifeGoesOn
<1>7. Lives[s] \in {"opening", "serving", "open", "ending"}
  BY <1>1, LifeIs DEF Lives, TypeOK, Exists
<1> QED BY <1>6, <1>7 DEF Lives, Events!Close

(* A socket ends: its callback hears why. *)
LEMMA EndsIs ==
    ASSUME IInv, NEW s \in Sockets, NEW event, Exists(s),
           status' = status, Dead(s)', \A t \in Sockets : t # s => flags'[t] = flags[t],
           heard' = [heard EXCEPT ![s] = Append(@, event)]
    PROVE  /\ Lives' = [Lives EXCEPT ![s] = "ending"]
           /\ Events!Hears(s, event)
<1>1. TypeOK BY DEF IInv
<1>2. \A t \in Sockets : t # s => LifeKept(t) BY DEF LifeKept, Dead
<1>3. Life(s)' = "ending" BY LifeIsNext DEF Exists
<1>4. Lives' = [Lives EXCEPT ![s] = "ending"] BY <1>1, <1>2, <1>3, LifeGoesOn
<1> QED BY <1>4 DEF Events!Hears

LEMMA LookupAnsweredIs ==
    ASSUME IInv, IInv', NEW s \in Sockets, NEW k \in Kinds, NEW found \in SUBSET Families,
           cb = NULL, LookupAnswered(s, k, found)
    PROVE  Events!Next \/ UNCHANGED <<Lives, heard>>
<1>1. TypeOK BY DEF IInv
<1>2. status' = status BY DEF LookupAnswered
<1>3. status[s] \in {"CONNECTING", "LISTENING"}
  BY DEF LookupAnswered, Exists, IInv, SocketInv, Looking, StillLooksUp
<1>4. \A t \in Sockets : ~ Dead(t) BY NoneDead DEF Dead
<1>5. CASE Silent
  <2>1. cb' = NULL /\ heard' = heard BY <1>5 DEF Silent
  <2>2. \A t \in Sockets : LifeKept(t) BY <1>2, <1>4, <2>1, NoneDeadNext DEF LifeKept
  <2> QED BY <1>1, <2>1, <2>2, LivesStay
<1>6. CASE ~ Silent
  <2> DEFINE applied == AppliedFlags(flags[s], [lookup[s] EXCEPT ![k] = Done(found)], FALSE)
  <2>1. /\ "DNSERROR" \in applied
        /\ flags' = [flags EXCEPT ![s] = applied]
        /\ heard' = [heard EXCEPT ![s] = Append(@, "DNSFAILED")]
    BY <1>6 DEF LookupAnswered, Trigger
  <2> HIDE DEF applied
  <2>2. Dead(s)' /\ \A t \in Sockets : t # s => flags'[t] = flags[t]
    BY <1>1, <2>1 DEF Dead, TypeOK
  <2>3. Exists(s) BY <1>3 DEF Exists
  <2>4. Lives' = [Lives EXCEPT ![s] = "ending"] /\ Events!Hears(s, "DNSFAILED")
    BY <1>2, <2>1, <2>2, <2>3, EndsIs
  <2>5. CASE status[s] = "CONNECTING"
    <3>1. Lives[s] = "opening" BY <1>4, <2>5, LifeIs DEF Lives
    <3>2. Events!Refused(s)
      BY <2>4, <3>1 DEF Lives, Events!Refused, Events!Becomes
    <3> QED BY <3>2 DEF Events!Next
  <2>6. CASE status[s] = "LISTENING"
    <3>1. Lives[s] = "serving" BY <1>4, <2>6, LifeIs DEF Lives
    <3>2. Events!NotServed(s)
      BY <2>4, <3>1 DEF Lives, Events!NotServed, Events!Becomes
    <3> QED BY <3>2 DEF Events!Next
  <2> QED BY <1>3, <2>5, <2>6
<1> QED BY <1>5, <1>6

LEMMA CouldNotConnectIsRefused ==
    ASSUME IInv, NEW s \in Sockets, cb = NULL, CouldNotConnect(s)
    PROVE  Events!Refused(s)
<1>1. TypeOK BY DEF IInv
<1>2. /\ Has(s, "CONNECTING") /\ status' = status
      /\ flags' = [flags EXCEPT ![s] = @ \cup {"DEAD"}]
      /\ heard' = [heard EXCEPT ![s] = Append(@, "NOTCONNECTED")]
  BY DEF CouldNotConnect, Trigger
<1>3. status[s] = "CONNECTING" BY <1>2 DEF IInv, SocketInv, FlagsAsStatus
<1>4. Dead(s)' /\ \A t \in Sockets : t # s => flags'[t] = flags[t]
  BY <1>1, <1>2 DEF Dead, TypeOK
<1>5. Lives' = [Lives EXCEPT ![s] = "ending"] /\ Events!Hears(s, "NOTCONNECTED")
  BY <1>2, <1>3, <1>4, EndsIs DEF Exists
<1>6. ~ Dead(s) BY NoneDead DEF Dead
<1>7. Lives[s] = "opening" BY <1>3, <1>6, LifeIs DEF Lives
<1> QED BY <1>5, <1>7 DEF Lives, Events!Refused, Events!Becomes

LEMMA ConnectionLostIsLost ==
    ASSUME IInv, NEW s \in Sockets, cb = NULL, ConnectionLost(s)
    PROVE  Events!Lost(s)
<1>1. TypeOK BY DEF IInv
<1>2. /\ status[s] = "CONNECTED" /\ status' = status
      /\ flags' = [flags EXCEPT ![s] = @ \cup {"DEAD"}]
      /\ heard' = [heard EXCEPT ![s] = Append(@, "CLOSED")]
  BY DEF ConnectionLost, Trigger
<1>3. Dead(s)' /\ \A t \in Sockets : t # s => flags'[t] = flags[t]
  BY <1>1, <1>2 DEF Dead, TypeOK
<1>4. Lives' = [Lives EXCEPT ![s] = "ending"] /\ Events!Hears(s, "CLOSED")
  BY <1>2, <1>3, EndsIs DEF Exists
<1>5. ~ Dead(s) BY NoneDead DEF Dead
<1>6. Lives[s] = "open" BY <1>2, <1>5, LifeIs DEF Lives
<1> QED BY <1>4, <1>6 DEF Lives, Events!Lost, Events!Becomes

LEMMA EstablishedIsConnected ==
    ASSUME IInv, NEW s \in Sockets, cb = NULL, Established(s)
    PROVE  Events!Connected(s)
<1>1. TypeOK BY DEF IInv
<1>2. /\ Has(s, "CONNECTING")
      /\ status' = [status EXCEPT ![s] = "CONNECTED"]
      /\ flags' = [flags EXCEPT ![s] = @ \ {"CONNECTING"}]
      /\ heard' = [heard EXCEPT ![s] = Append(@, "CONNECTED")]
  BY DEF Established, Trigger
<1>3. status[s] = "CONNECTING" BY <1>2 DEF IInv, SocketInv, FlagsAsStatus
<1>4. ~ Dead(s) BY NoneDead DEF Dead
<1>5. /\ ~ Dead(s)' /\ status'[s] = "CONNECTED"
      /\ \A t \in Sockets : t # s => LifeKept(t)
  BY <1>1, <1>2, <1>4 DEF Dead, TypeOK, LifeKept
<1>6. Life(s)' = "open" BY <1>5, LifeIsNext
<1>7. Lives' = [Lives EXCEPT ![s] = "open"] BY <1>1, <1>5, <1>6, LifeGoesOn
<1>8. Lives[s] = "opening" BY <1>3, <1>4, LifeIs DEF Lives
<1> QED BY <1>2, <1>7, <1>8 DEF Lives, Events!Connected, Events!Becomes, Events!Hears

LEMMA AcceptClientIsAccepted ==
    ASSUME IInv, NEW server \in Sockets, NEW s \in Sockets, cb = NULL,
           AcceptClient(server, s)
    PROVE  Events!Accepted(server, s)
<1>1. TypeOK BY DEF IInv
<1>2. /\ Has(server, "LISTENING") /\ status[s] = "none"
      /\ status' = [status EXCEPT ![s] = "CONNECTED"]
      /\ flags' = [flags EXCEPT ![s] = {"INCOMING", "ACTIVE"} \cup
                    (flags[server] \cap {"IPV6SOCKET"})]
      /\ heard' = [heard EXCEPT ![server] = Append(@, "ACCEPT")]
  BY DEF AcceptClient, Trigger
<1>3. status[server] = "LISTENING" BY <1>2 DEF IInv, SocketInv, FlagsAsStatus
<1>4. ~ Dead(server) BY NoneDead DEF Dead
<1>5. /\ ~ Dead(s)' /\ status'[s] = "CONNECTED"
      /\ \A t \in Sockets : t # s => LifeKept(t)
  BY <1>1, <1>2 DEF Dead, TypeOK, LifeKept
<1>6. Life(s)' = "open" BY <1>5, LifeIsNext
<1>7. Lives' = [Lives EXCEPT ![s] = "open"] BY <1>1, <1>5, <1>6, LifeGoesOn
<1>8. Lives[server] = "serving" BY <1>3, <1>4, LifeIs DEF Lives
<1>9. Lives[s] = "none" BY <1>2, LifeIs DEF Lives
<1> QED
  BY <1>2, <1>7, <1>8, <1>9 DEF Lives, Events!Accepted, Events!Becomes, Events!Hears

LEMMA FallBackIsUnseen ==
    ASSUME IInv, IInv', NEW s \in Sockets, cb = NULL, FallBack(s)
    PROVE  UNCHANGED <<Lives, heard>>
<1>1. TypeOK BY DEF IInv
<1>2. status' = status /\ cb' = NULL /\ heard' = heard BY DEF FallBack, Silent
<1>3. \A t \in Sockets : ~ Dead(t) BY NoneDead DEF Dead
<1>4. \A t \in Sockets : LifeKept(t) BY <1>2, <1>3, NoneDeadNext DEF LifeKept
<1> QED BY <1>1, <1>2, <1>4, LivesStay

LEMMA CallbackReturnsIs ==
    ASSUME IInv, CallbackReturns
    PROVE  Events!Next \/ UNCHANGED <<Lives, heard>>
<1>1. TypeOK BY DEF IInv
<1>2. cb # NULL /\ heard' = heard BY DEF CallbackReturns
<1> DEFINE s == cb.about
<1>3. s \in Sockets BY <1>1, <1>2 DEF TypeOK
<1>4. CASE Exists(s) /\ flags[s] \cap {"DEAD", "DNSERROR"} # {}
  <2>1. CloseSocket(s) BY <1>4 DEF CallbackReturns
  <2>2. PICK t \in Sockets : t = s BY <1>3
  <2>3. Exists(t) /\ CloseSocket(t)
    <3> HIDE DEF s
    <3> QED BY <1>4, <2>1, <2>2 DEF CloseSocket, Exists
  <2>4. Events!Close(t) BY <1>2, <2>3, CloseIsClose
  <2> QED BY <2>4 DEF Events!Next
<1>5. CASE ~ (Exists(s) /\ flags[s] \cap {"DEAD", "DNSERROR"} # {})
  <2>1. UNCHANGED <<status, flags>> BY <1>5 DEF CallbackReturns, sock
  <2>2. \A t \in Sockets : LifeKept(t) BY <2>1 DEF LifeKept, Dead
  <2> QED BY <1>1, <1>2, <2>2, LivesStay
<1> QED BY <1>4, <1>5

LEMMA EventsNext ==
    IInv /\ IInv' /\ [Next]_vars => [Events!Next]_<<Lives, heard>>
<1> SUFFICES ASSUME IInv, IInv', [Next]_vars
             PROVE  Events!Next \/ UNCHANGED <<Lives, heard>>
  OBVIOUS
<1>1. TypeOK BY DEF IInv
<1>2. CASE UserCode
  <2>1. PICK s \in Sockets :
            \/ \E r \in Requests : \/ Connect(s, r)
                                   \/ \E found \in SUBSET Families : ConnectAtOnce(s, r, found)
            \/ \E h \in Hosts : \/ Listen(s, h)
                                \/ \E found \in SUBSET Families : ListenAtOnce(s, h, found)
            \/ UserClose(s)
    BY <1>2 DEF UserCode
  <2>2. CASE \E r \in Requests : \/ Connect(s, r)
                                 \/ \E found \in SUBSET Families : ConnectAtOnce(s, r, found)
    BY <2>2, ConnectIsRequest DEF Events!Next
  <2>3. CASE \E h \in Hosts : \/ Listen(s, h)
                              \/ \E found \in SUBSET Families : ListenAtOnce(s, h, found)
    BY <2>3, ListenIsServe DEF Events!Next
  <2>4. CASE UserClose(s)
    BY <2>4, CloseIsClose DEF UserClose, Silent, Events!Next
  <2> QED BY <2>1, <2>2, <2>3, <2>4
<1>3. CASE Answer
  BY <1>3, LookupAnsweredIs DEF Answer
<1>4. ASSUME NEW s \in Sockets, Dispatch(s)
      PROVE  Events!Next \/ UNCHANGED <<Lives, heard>>
  <2>1. cb = NULL BY <1>4 DEF Dispatch
  <2>2. CASE CouldNotConnect(s)
    BY <2>1, <2>2, CouldNotConnectIsRefused DEF Events!Next
  <2>3. CASE FallBack(s) BY <2>1, <2>3, FallBackIsUnseen
  <2>4. CASE Established(s)
    BY <2>1, <2>4, EstablishedIsConnected DEF Events!Next
  <2>5. CASE ConnectionLost(s)
    BY <2>1, <2>5, ConnectionLostIsLost DEF Events!Next
  <2>6. ASSUME NEW server \in Sockets, AcceptClient(server, s) PROVE Events!Next
    BY <2>1, <2>6, AcceptClientIsAccepted DEF Events!Next
  <2> QED BY <1>4, <2>2, <2>3, <2>4, <2>5, <2>6 DEF Dispatch
<1>5. CASE CallbackReturns BY <1>5, CallbackReturnsIs
<1>6. CASE Outside \/ Breaks \/ UNCHANGED vars
  <2>1. UNCHANGED <<status, flags, heard>>
    BY <1>6 DEF Outside, Handshaken, Refuse, PeerSends, PeerCloses, ClientArrives,
                Kernel, Breaks, Break, vars, sock
  <2>2. \A t \in Sockets : LifeKept(t) BY <2>1 DEF LifeKept, Dead
  <2> QED BY <1>1, <2>1, <2>2, LivesStay
<1> QED BY <1>2, <1>3, <1>4, <1>5, <1>6 DEF Next, Runs

(* Sockets implement SocketEvents, read through Life: an attempt ends in   *)
(* one outcome, a loss follows a connection, nothing is heard after the    *)
(* close; looking up, falling back and what the system does are unseen.    *)
THEOREM EventsRefinement == Spec => ImplementsSocketEvents
<1>1. Init => Events!Init BY EventsInit
<1>2. IInv /\ IInv' /\ [Next]_vars => [Events!Next]_<<[s \in Sockets |-> Life(s)], heard>>
  BY EventsNext DEF Lives
<1> QED BY <1>1, <1>2, Inductive, PTL DEF Spec, ImplementsSocketEvents, Events!Spec
=============================================================================
