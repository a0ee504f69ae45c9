------------------------- MODULE IOSSLSocketProofs -------------------------
(***************************************************************************)
(* Proofs about an SSL connection, for any bounds on what is on its way.   *)
(*                                                                         *)
(* The handlers do not check what they rely on: that a connection in its   *)
(* first handshake is not read or written (Phases), that reading never     *)
(* leaves the flag of a handshake in writing (Visit), that an end is heard *)
(* only of a socket that is dead or closed (Finishes), and that            *)
(* SSL_WANTWRITE says what the library wants (Watched).  SSLInv is that.   *)
(***************************************************************************)
EXTENDS IOSSLSocket, SequenceTheorems, FiniteSetTheorems, TLAPS

Flight == {"in", "out"}

Flags == {"CONNECTING", "INCOMING", "DEAD", "SSL_HANDSHAKE", "SSL_ESTABLISHED",
          "SSL_WANTWRITE", "SSL_READHS", "SSL_WRITEHS"}

Results == {"read", "write", "done", "fatal"}

-----------------------------------------------------------------------------
(* The library. *)

LEMMA Ins ==
    ASSUME NEW h \in Seq(Flight), NEW k \in 0 .. Len(h)
    PROVE  /\ InsOf(h, k) \in Nat
           /\ InsOf(h, 0) = 0
           /\ k < Len(h) =>
                 InsOf(h, k + 1) =
                    InsOf(h, k) + (IF h[k + 1] = "in" THEN 1 ELSE 0)
<1> DEFINE In(n) == {j \in 1 .. n : h[j] = "in"}
<1>1. \A n \in 0 .. Len(h) : IsFiniteSet(In(n)) /\ Cardinality(In(n)) \in Nat
  <2> SUFFICES ASSUME NEW n \in 0 .. Len(h)
               PROVE  IsFiniteSet(In(n)) /\ Cardinality(In(n)) \in Nat
    OBVIOUS
  <2>1. IsFiniteSet(1 .. n) /\ In(n) \subseteq 1 .. n BY FS_Interval
  <2>2. IsFiniteSet(In(n)) BY <2>1, FS_Subset
  <2> QED BY <2>2, FS_CardinalityType
<1>2. InsOf(h, 0) = 0
  <2>1. In(0) = {} OBVIOUS
  <2> QED BY <2>1, FS_EmptySet DEF InsOf
<1>3. ASSUME k < Len(h)
      PROVE  InsOf(h, k + 1) =
                InsOf(h, k) + (IF h[k + 1] = "in" THEN 1 ELSE 0)
  <2>1. Len(h) \in Nat /\ k \in Nat BY LenProperties
  <2>2. CASE h[k + 1] = "in"
    <3>1. In(k + 1) = In(k) \cup {k + 1} /\ k + 1 \notin In(k)
      BY <1>3, <2>1, <2>2
    <3>2. Cardinality(In(k) \cup {k + 1}) = Cardinality(In(k)) + 1
      BY <1>1, <3>1, FS_AddElement
    <3> QED BY <2>2, <3>1, <3>2 DEF InsOf
  <2>3. CASE h[k + 1] # "in"
    <3>1. In(k + 1) = In(k) BY <1>3, <2>1, <2>3
    <3>2. Cardinality(In(k)) \in Nat BY <1>1
    <3>3. InsOf(h, k) = Cardinality(In(k)) /\ InsOf(h, k + 1) = Cardinality(In(k + 1))
      BY DEF InsOf
    <3> HIDE DEF In
    <3> QED BY <2>3, <3>1, <3>2, <3>3
  <2> QED BY <2>2, <2>3
<1> QED BY <1>1, <1>2, <1>3 DEF InsOf

LEMMA FlightsCounted == ASSUME NEW q \in Seq(Items) PROVE Flights(q) \in Nat
<1> DEFINE First == {j \in 1 .. Len(q) : \A i \in 1 .. j : q[i] = "hs"}
<1>1. IsFiniteSet(1 .. Len(q)) /\ First \subseteq 1 .. Len(q)
  BY LenProperties, FS_Interval
<1>2. IsFiniteSet(First) BY <1>1, FS_Subset
<1> QED BY <1>2, FS_CardinalityType DEF Flights

(* A handshake stops somewhere: behind its last flight at the latest. *)
LEMMA StepsExist ==
    ASSUME TypeOK, NEW h \in Seq(Flight), Len(h) <= 4, NEW q \in Seq(Items)
    PROVE  StepsOf(h, q) \in 0 .. Len(h)
<1> DEFINE Room(k) == \A j \in 1 .. k : h[j] = "out" => room
           Going(k) == /\ k < Len(h)
                       /\ IF h[k + 1] = "out" THEN room
                          ELSE InsOf(h, k) # Flights(q)
           Gets(k) == k \in 0 .. Len(h) /\ Room(k) /\ InsOf(h, k) <= Flights(q)
           Ends(k) == /\ Room(k)
                      /\ InsOf(h, k) <= Flights(q)
                      /\ k < Len(h) =>
                            IF h[k + 1] = "out" THEN ~ room
                            ELSE InsOf(h, k) = Flights(q)
<1>1. Len(h) \in Nat /\ Flights(q) \in Nat BY LenProperties, FlightsCounted
<1>2. Gets(0) BY <1>1, Ins
<1>3. ASSUME NEW k \in 0 .. 4, NEW l \in 1 .. 5, l = k + 1, Gets(k)
      PROVE  Ends(k) \/ Gets(l)
  <2>1. CASE Going(k)
    <3>1. /\ k + 1 \in 0 .. Len(h)
          /\ InsOf(h, k + 1) = InsOf(h, k) + (IF h[k + 1] = "in" THEN 1 ELSE 0)
          /\ InsOf(h, k) \in Nat
      BY <1>1, <1>3, <2>1, Ins
    <3>2. h[k + 1] \in Flight BY <1>1, <3>1, ElementOfSeq, <1>3
    <3>3. InsOf(h, l) <= Flights(q)
      <4>1. InsOf(h, k) <= Flights(q) BY <1>3
      <4>2. h[k + 1] = "in" => InsOf(h, k) # Flights(q) BY <2>1
      <4> QED BY <1>1, <1>3, <3>1, <4>1, <4>2
    <3>4. Room(l)
      <4>1. Room(k) /\ l = k + 1 /\ (h[l] = "out" => room) BY <1>3, <2>1
      <4> QED BY <4>1
    <3> QED BY <1>3, <3>1, <3>3, <3>4
  <2>2. CASE ~ Going(k) BY <1>3, <2>2
  <2> QED BY <2>1, <2>2
<1>4. \E k \in 0 .. Len(h) : Ends(k)
  <2>1. ~ Gets(5) BY <1>1
  <2>2. \/ Gets(0) /\ Ends(0)
        \/ Gets(1) /\ Ends(1)
        \/ Gets(2) /\ Ends(2)
        \/ Gets(3) /\ Ends(3)
        \/ Gets(4) /\ Ends(4)
    <3> HIDE DEF Gets, Ends
    <3>1. Gets(0) => Ends(0) \/ Gets(1) BY <1>3
    <3>2. Gets(1) => Ends(1) \/ Gets(2) BY <1>3
    <3>3. Gets(2) => Ends(2) \/ Gets(3) BY <1>3
    <3>4. Gets(3) => Ends(3) \/ Gets(4) BY <1>3
    <3>5. Gets(4) => Ends(4) \/ Gets(5) BY <1>3
    <3> QED BY <1>2, <2>1, <3>1, <3>2, <3>3, <3>4, <3>5
  <2> QED BY <2>2
<1>5. StepsOf(h, q) = CHOOSE k \in 0 .. Len(h) : Ends(k) BY DEF StepsOf
<1> HIDE DEF Ends
<1> QED BY <1>4, <1>5

LEMMA HandshakeTypes ==
    ASSUME TypeOK, NEW h \in Seq(Flight), Len(h) <= 4,
           NEW q \in Seq(Items), Len(q) <= MaxIn,
           NEW result \in Results, LibraryHandshake(h, q, result)
    PROVE  /\ hs' \in Seq(Flight) /\ Len(hs') <= 4
           /\ inq' \in Seq(Items) /\ Len(inq') <= MaxIn
           /\ failed' \in BOOLEAN /\ room' \in BOOLEAN
           /\ waits' = IF result \in {"read", "write"} THEN result ELSE "none"
           /\ asks' = asks
<1>1. MaxIn \in Nat /\ Len(h) \in Nat /\ Len(q) \in Nat
  BY SSLAssumption, LenProperties
<1>2. StepsOf(h, q) \in 0 .. Len(h) BY StepsExist
<1>3. InsOf(h, StepsOf(h, q)) \in Nat BY <1>2, Ins
<1>4. FlightsLeft(h, q) \in Seq(Flight) /\ Len(FlightsLeft(h, q)) <= 4
  BY <1>1, <1>2, SubSeqProperties DEF FlightsLeft
<1>5. InputLeft(h, q) \in Seq(Items) /\ Len(InputLeft(h, q)) <= MaxIn
  BY <1>1, <1>3, SubSeqProperties DEF InputLeft
<1>6. /\ hs' \in Seq(Flight) /\ Len(hs') <= 4
      /\ inq' \in Seq(Items) /\ Len(inq') <= MaxIn
  BY <1>4, <1>5 DEF LibraryHandshake
<1>7. room' \in BOOLEAN BY DEF LibraryHandshake, TypeOK
<1> QED BY <1>6, <1>7 DEF LibraryHandshake

(* What reading leaves out. *)
LEMMA SkippedTypes ==
    ASSUME TypeOK
    PROVE  /\ Skipped \in Seq(Items) /\ Len(Skipped) <= MaxIn
           /\ NextItem \in {"rehs", "data"} =>
                 Tail(Skipped) \in Seq(Items) /\ Len(Tail(Skipped)) <= MaxIn
<1> DEFINE extra == {j \in 1 .. Len(inq) : \A i \in 1 .. j : inq[i] = "extra"}
<1>1. MaxIn \in Nat /\ Len(inq) \in Nat /\ inq \in Seq(Items) /\ Len(inq) <= MaxIn
  BY SSLAssumption, LenProperties DEF TypeOK
<1>2. IsFiniteSet(1 .. Len(inq)) /\ extra \subseteq 1 .. Len(inq)
  BY <1>1, FS_Interval
<1>3. IsFiniteSet(extra) BY <1>2, FS_Subset
<1>4. Cardinality(extra) \in Nat BY <1>3, FS_CardinalityType
<1>5. Cardinality(extra) > 0 => inq # <<>>
  <2> SUFFICES ASSUME inq = <<>> PROVE Cardinality(extra) = 0 BY <1>4
  <2>1. extra = {} OBVIOUS
  <2> QED BY <2>1, FS_EmptySet
<1>6. Skipped = IF backend = "openssl"
                THEN SubSeq(inq, Cardinality(extra) + 1, Len(inq))
                ELSE IF Cardinality(extra) > 0 THEN Tail(inq) ELSE inq
  BY DEF Skipped
<1> HIDE DEF extra
<1>7. Skipped \in Seq(Items) /\ Len(Skipped) <= MaxIn
  BY <1>1, <1>4, <1>5, <1>6, SubSeqProperties, HeadTailProperties
<1>8. ASSUME NextItem \in {"rehs", "data"}
      PROVE  Tail(Skipped) \in Seq(Items) /\ Len(Tail(Skipped)) <= MaxIn
  <2>1. Skipped # <<>> BY <1>8 DEF NextItem
  <2> QED BY <1>1, <1>7, <2>1, HeadTailProperties
<1> QED BY <1>7, <1>8

-----------------------------------------------------------------------------
(* Types, action by action. *)

Branches == [writeable : BOOLEAN, rehandshake : 0 .. 2,
             event : Events \cup {"IGNORE"}, nested : BOOLEAN]

(* What is said once is not said again at once. *)
LEMMA Heard ==
    ASSUME TypeOK, NEW event \in Events, Hear(event)
    PROVE  /\ heard' \in Seq(Events)
           /\ \/ /\ heard' = heard
                 /\ Len(heard) \in Nat \ {0} /\ heard[Len(heard)] = event
              \/ /\ Len(heard') = Len(heard) + 1
                 /\ heard'[Len(heard) + 1] = event
                 /\ \A n \in 1 .. Len(heard) : heard'[n] = heard[n]
<1>1. heard \in Seq(Events) /\ Len(heard) \in Nat BY LenProperties DEF TypeOK
<1>2. CASE heard' = heard /\ heard # <<>> /\ heard[Len(heard)] = event
  BY <1>1, <1>2, EmptySeq
<1>3. CASE heard' = Append(heard, event)
  BY <1>1, <1>3, AppendProperties
<1> QED BY <1>2, <1>3 DEF Hear

(* How a visit of iosocket_events_callback() ends. *)
LEMMA Left ==
    ASSUME TypeOK, NEW event \in Events \cup {"IGNORE"}, NEW f, NEW nested \in BOOLEAN,
           Leave(event, f, nested)
    PROVE  /\ flags' = f
           /\ pc' \in {"loop", "callback"}
           /\ branch' \in Branches
           /\ open' \in BOOLEAN
           /\ heard' \in Seq(Events)
<1>1. NoBranch \in Branches BY DEF NoBranch, Branches
<1>2. [NoBranch EXCEPT !.event = event, !.nested = nested] \in Branches
  BY <1>1 DEF Branches
<1>3. open \in BOOLEAN /\ heard \in Seq(Events) BY DEF TypeOK
<1>4. CASE event # "IGNORE" /\ HasCallback(event)
  <2>1. event \in Events /\ Hear(event) BY <1>4 DEF Leave
  <2>2. heard' \in Seq(Events) BY <2>1, Heard
  <2> QED BY <1>2, <1>3, <1>4, <2>2 DEF Leave
<1>5. CASE ~ (event # "IGNORE" /\ HasCallback(event))
  BY <1>1, <1>3, <1>5 DEF Leave
<1> QED BY <1>4, <1>5

LEMMA WantsTypes ==
    ASSUME NEW f, NEW q
    PROVE  /\ Wants(f, q) \subseteq {"r", "w"}
           /\ f \cap {"SSL_READHS", "SSL_WRITEHS"} = {} => "r" \in Wants(f, q)
           /\ "SSL_WANTWRITE" \in f \/ f \cap {"SSL_READHS", "SSL_WRITEHS"} = {}
              \/ "r" \in Wants(f, q)
           /\ "SSL_WANTWRITE" \in f /\ f \cap {"SSL_READHS", "SSL_WRITEHS"} # {}
              => "w" \in Wants(f, q)
BY DEF Wants

(* The handshake that ends in a visit within the visit. *)
LEMMA HandshakeStepTypes ==
    ASSUME TypeOK, NEW f \in SUBSET Flags, ~ ({"SSL_READHS", "SSL_WRITEHS"} \subseteq f),
           Handshake(f), UNCHANGED <<mode, queued, again, listener>>
    PROVE  TypeOK'
<1>1. PICK result \in Results :
         /\ LibraryHandshake(hs, inq, result)
         /\ watch' = Wants(FlagsAfter(f, result), queued)
         /\ \/ Leave("IGNORE", FlagsAfter(f, result), FALSE)
            \/ Leave(EndOf(result), FlagsAfter(f, result), TRUE)
            \/ Leave("IGNORE", FlagsAfter(f, result), TRUE)
  BY DEF Handshake, Results
<1>2. PICK g : g = FlagsAfter(f, result) OBVIOUS
<1>3. g \in SUBSET Flags /\ ~ ({"SSL_READHS", "SSL_WRITEHS"} \subseteq g)
  BY <1>2 DEF FlagsAfter, Flags, Results
<1>4. PICK event \in Events \cup {"IGNORE"}, nested \in BOOLEAN :
         Leave(event, g, nested)
  <2>1. PICK event : event = EndOf(result) OBVIOUS
  <2>2. event \in Events \cup {"IGNORE"} BY <2>1 DEF EndOf, Events
  <2> QED BY <1>1, <1>2, <2>1, <2>2
<1>5. hs \in Seq(Flight) /\ Len(hs) <= 4 /\ inq \in Seq(Items) /\ Len(inq) <= MaxIn
  BY DEF TypeOK, Flight
<1>6. /\ hs' \in Seq(Flight) /\ Len(hs') <= 4
      /\ inq' \in Seq(Items) /\ Len(inq') <= MaxIn
      /\ failed' \in BOOLEAN /\ room' \in BOOLEAN
      /\ waits' \in {"none", "read", "write"}
      /\ asks' = asks
  BY <1>1, <1>5, HandshakeTypes
<1>7. /\ flags' = g /\ pc' \in {"loop", "callback"} /\ branch' \in Branches
      /\ open' \in BOOLEAN /\ heard' \in Seq(Events)
  BY <1>4, Left
<1>8. watch' \subseteq {"r", "w"} BY <1>1, WantsTypes
<1> QED BY <1>3, <1>6, <1>7, <1>8
        DEF TypeOK, Flags, Flight, Branches, mode, Has

LEMMA DispatchTypes == ASSUME TypeOK, Dispatch PROVE TypeOK'
<1>1. branch' \in Branches
  <2>1. NoBranch \in Branches BY DEF NoBranch, Branches
  <2> DEFINE re == IF Has("SSL_READHS") THEN 1
                   ELSE IF Has("SSL_WRITEHS") THEN 2 ELSE 0
  <2>2. re \in 0 .. 2 OBVIOUS
  <2>3. Writeable \in BOOLEAN BY DEF Writeable, TypeOK
  <2>4. branch' = [NoBranch EXCEPT !.writeable = Writeable, !.rehandshake = re]
    BY DEF Dispatch
  <2> HIDE DEF re
  <2> QED BY <2>1, <2>2, <2>3, <2>4 DEF Branches
<1>2. pc' \in {"loop", "read", "write", "callback"} BY DEF Dispatch
<1> QED BY <1>1, <1>2 DEF Dispatch, TypeOK, Branches, mode, library, system, Has

(* Reading: what becomes of the flags and of the branch.  Everything but   *)
(* the flags of a handshake stays; DEAD comes with CLOSED.                 *)
Reads ==
    /\ UNCHANGED <<mode, open, watch, queued, listener, heard>>
    /\ pc' \in {"read", "write"}
    /\ flags' \subseteq flags \cup {"SSL_READHS", "SSL_WANTWRITE", "DEAD"}
    /\ flags \ {"SSL_READHS", "SSL_WANTWRITE", "SSL_WRITEHS"} \subseteq flags'
    /\ branch' \in Branches
    /\ branch'.writeable = branch.writeable
    /\ branch'.rehandshake \in {branch.rehandshake, 1}
    /\ \/ branch'.event = branch.event
       \/ branch'.event = "RECV" /\ Has("SSL_ESTABLISHED")
       \/ branch'.event = "CLOSED" /\ "DEAD" \in flags'
    /\ "DEAD" \in flags' => Has("DEAD") \/ branch'.event = "CLOSED"
    /\ pc' = "write" /\ "SSL_READHS" \in flags' => branch'.rehandshake = 1
    /\ "SSL_READHS" \in flags' =>
          \/ waits' = waits /\ flags' \in {flags, flags \cup {"DEAD"}}
          \/ waits' = "none"
          \/ waits' = "write" <=> "SSL_WANTWRITE" \in flags'

LEMMA ReadFailsTypes ==
    ASSUME TypeOK, NEW f \in SUBSET Flags, ReadFails(f)
    PROVE  /\ pc' = "write"
           /\ branch' \in Branches
           /\ branch'.writeable = branch.writeable
           /\ branch'.rehandshake \in {branch.rehandshake, 1}
           /\ branch'.event \in {branch.event, "CLOSED"}
           /\ flags' \in {f, f \cup {"DEAD"}}
           /\ "DEAD" \in flags' => "DEAD" \in f \/ branch'.event = "CLOSED"
           /\ branch'.event # branch.event => "DEAD" \in flags'
           /\ "SSL_READHS" \in f => branch'.rehandshake = 1
<1>1. branch \in Branches BY DEF TypeOK, Branches
<1>2. [branch EXCEPT !.rehandshake = 1] \in Branches
  BY <1>1 DEF Branches
<1>3. [branch EXCEPT !.event = "CLOSED"] \in Branches
  BY <1>1 DEF Branches, Events
<1>4. CASE "SSL_READHS" \in f /\ branch' = [branch EXCEPT !.rehandshake = 1] /\ flags' = f
  BY <1>1, <1>2, <1>4 DEF ReadFails, Branches
<1>5. CASE /\ "SSL_READHS" \notin f /\ branch' = [branch EXCEPT !.event = "CLOSED"]
           /\ flags' = f \cup {"DEAD"}
  BY <1>1, <1>3, <1>5 DEF ReadFails, Branches
<1>6. CASE "SSL_READHS" \notin f /\ flags' = f /\ branch' = branch
  BY <1>1, <1>6 DEF ReadFails
<1> QED BY <1>4, <1>5, <1>6 DEF ReadFails

(* The handshake that reading goes into. *)
LEMMA ReadHandshakeTypes ==
    ASSUME TypeOK, NEW result \in Results, ReadHandshake(result)
    PROVE  /\ hs' \in Seq(Flight) /\ Len(hs') <= 4
           /\ inq' \in Seq(Items) /\ Len(inq') <= MaxIn
           /\ failed' \in BOOLEAN /\ room' \in BOOLEAN
           /\ waits' = IF result \in {"read", "write"} THEN result ELSE "none"
           /\ asks' = asks
<1>1. PICK h, q : /\ LibraryHandshake(h, q, result)
                  /\ \/ h = hs /\ q = inq
                     \/ h = Rehandshake /\ q = Tail(Skipped) /\ NextItem = "rehs"
  BY DEF ReadHandshake
<1>2. h \in Seq(Flight) /\ Len(h) <= 4
  <2>1. <<"out", "in">> \in Seq(Flight) /\ Len(<<"out", "in">>) = 2 BY DEF Flight
  <2>2. Rehandshake \in Seq(Flight) /\ Len(Rehandshake) <= 4
    BY <2>1 DEF Rehandshake
  <2>3. hs \in Seq(Flight) /\ Len(hs) <= 4 BY DEF TypeOK, Flight
  <2>4. h = hs \/ h = Rehandshake BY <1>1
  <2>5. CASE h = hs BY <2>3, <2>5
  <2>6. CASE h = Rehandshake BY <2>2, <2>6
  <2> QED BY <2>4, <2>5, <2>6
<1>3. q \in Seq(Items) /\ Len(q) <= MaxIn
  BY <1>1, SkippedTypes DEF TypeOK
<1> QED BY <1>1, <1>2, <1>3, HandshakeTypes

LEMMA ReadReads == ASSUME TypeOK, Read PROVE Reads
<1> USE DEF Reads, Has
<1>1. /\ UNCHANGED <<mode, open, watch, queued, listener, heard>>
      /\ pc = "read" /\ flags \in SUBSET Flags /\ branch \in Branches
  BY DEF Read, TypeOK, Flags, Branches
<1>2. CASE ReadNoSession
  <2>1. ReadFails(flags) /\ waits' = waits BY <1>2 DEF ReadNoSession, LibraryRests, library
  <2> QED BY <1>1, <2>1, ReadFailsTypes
<1>3. CASE ReadInHandshakeGnuTLS
  <2>1. PICK result \in Results :
           /\ ReadHandshake(result)
           /\ ReadFails(RehandshakeFlags("SSL_READHS", result))
    BY <1>3 DEF ReadInHandshakeGnuTLS, Results
  <2>2. waits' = IF result \in {"read", "write"} THEN result ELSE "none"
    BY <2>1, ReadHandshakeTypes
  <2>3. PICK f : f = RehandshakeFlags("SSL_READHS", result) /\ ReadFails(f)
    BY <2>1
  <2>4. /\ f \in SUBSET Flags
        /\ f \subseteq flags \cup {"SSL_READHS", "SSL_WANTWRITE"}
        /\ flags \ {"SSL_READHS", "SSL_WANTWRITE", "SSL_WRITEHS"} \subseteq f
        /\ "SSL_READHS" \in f =>
              waits' = "none" \/ (waits' = "write" <=> "SSL_WANTWRITE" \in f)
    BY <1>1, <2>2, <2>3 DEF RehandshakeFlags, Results, Flags
  <2> QED BY <1>1, <2>3, <2>4, ReadFailsTypes
<1>4. ASSUME NEW result \in {"read", "write", "fatal", "end", "data"},
             NEW f, f = ReadFlags(result)
      PROVE  /\ f \in SUBSET Flags
             /\ f \subseteq flags \cup {"SSL_READHS", "SSL_WANTWRITE"}
             /\ flags \ {"SSL_READHS", "SSL_WANTWRITE", "SSL_WRITEHS"} \subseteq f
             /\ backend = "openssl" =>
                   /\ "SSL_READHS" \in f <=> result \in {"read", "write"}
                   /\ "SSL_WANTWRITE" \in f <=> result = "write"
             /\ result \notin {"read", "write"} /\ backend = "gnutls" => f = flags
  BY <1>1, <1>4 DEF ReadFlags, ReadCleared, Flags
<1>5. CASE ReadInHandshakeOpenSSL
  <2>1. CASE \E result \in {"read", "write", "fatal"} :
                ReadHandshake(result) /\ ReadFails(ReadFlags(result))
    <3>1. PICK result \in {"read", "write", "fatal"} :
             ReadHandshake(result) /\ ReadFails(ReadFlags(result))
      BY <2>1
    <3>2. waits' = IF result \in {"read", "write"} THEN result ELSE "none"
      BY <3>1, ReadHandshakeTypes DEF Results
    <3>3. PICK f : f = ReadFlags(result) /\ ReadFails(f) BY <3>1
    <3>4. backend = "openssl" BY <1>5 DEF ReadInHandshakeOpenSSL
    <3> QED BY <1>1, <1>4, <3>2, <3>3, <3>4, ReadFailsTypes
  <2>2. CASE ReadHandshake("done") /\ UNCHANGED <<flags, pc, branch, again>>
    <3>1. waits' = "none" BY <2>2, ReadHandshakeTypes DEF Results
    <3> QED BY <1>1, <2>2, <3>1
  <2> QED BY <1>5, <2>1, <2>2 DEF ReadInHandshakeOpenSSL
<1>6. CASE ReadRecord /\ Has("SSL_ESTABLISHED")
  <2>1. backend \in {"gnutls", "openssl"} BY DEF TypeOK
  <2>2. backend = "gnutls" => ~ Has("SSL_READHS")
    BY <1>6 DEF ReadRecord, ReadsHandshake
  <2>3. CASE waits' = "none" /\ \E result \in {"fatal", "end"} : ReadFails(ReadFlags(result))
    <3>1. PICK result \in {"fatal", "end"} : ReadFails(ReadFlags(result)) BY <2>3
    <3>2. PICK f : f = ReadFlags(result) /\ ReadFails(f) BY <3>1
    <3> QED BY <1>1, <1>4, <2>1, <2>3, <3>2, ReadFailsTypes
  <2>4. CASE /\ waits' = "read"
             /\ ReadFails(IF backend = "openssl" THEN ReadFlags("read") ELSE flags)
    <3>1. PICK f : /\ ReadFails(f)
                   /\ f = IF backend = "openssl" THEN ReadFlags("read") ELSE flags
      BY <2>4
    <3> QED BY <1>1, <1>4, <2>1, <2>2, <2>4, <3>1, ReadFailsTypes
  <2>5. CASE /\ waits' = "none" /\ flags' = ReadFlags("data")
             /\ branch' = [branch EXCEPT !.event = "RECV"]
             /\ pc' \in {"read", "write"}
    <3>1. PICK f : f = ReadFlags("data") OBVIOUS
    <3>2. branch' \in Branches BY <1>1, <2>5 DEF Branches, Events
    <3>3. /\ branch'.event = "RECV" /\ branch'.writeable = branch.writeable
          /\ branch'.rehandshake = branch.rehandshake
      BY <1>1, <2>5 DEF Branches
    <3>4. "DEAD" \in f <=> Has("DEAD") BY <3>1 DEF ReadFlags, ReadCleared, Has
    <3>5. "SSL_READHS" \notin f BY <1>4, <2>1, <2>2, <3>1 DEF Has
    <3> QED BY <1>1, <1>4, <1>6, <2>1, <2>5, <3>1, <3>2, <3>3, <3>4, <3>5
  <2> QED BY <1>6, <2>3, <2>4, <2>5 DEF ReadRecord
<1> QED BY <1>2, <1>3, <1>5, <1>6 DEF Read

-----------------------------------------------------------------------------
(* The invariant. *)

First == IF role = "client" THEN "CONNECTED" ELSE "ACCEPT"

Ends == {"CLOSED", "NOTCONNECTED"}

Starting == flags \cap {"CONNECTING", "SSL_HANDSHAKE"} # {}

Interrupted == flags \cap {"SSL_READHS", "SSL_WRITEHS"} # {}

(* A connection is connecting, in its handshake or established.            *)
Phases ==
    /\ ~ (Has("CONNECTING") /\ Has("SSL_HANDSHAKE"))
    /\ Starting =>
          /\ flags \cap {"SSL_ESTABLISHED", "SSL_READHS", "SSL_WRITEHS"} = {}
          /\ pc \in {"loop", "callback"}
    /\ backend = "gnutls" => ~ Has("SSL_WRITEHS")

(* What a visit that reads and writes relies on. *)
Visit ==
    pc \in {"read", "write"} =>
       /\ open
       /\ branch.event \in {"IGNORE", "RECV", "CLOSED"}
       /\ branch.event = "RECV" => Has("SSL_ESTABLISHED")
       /\ branch.event = "CLOSED" => Has("DEAD")
       /\ branch.writeable => "w" \in watch
       /\ branch.rehandshake = 0 => "r" \in watch
       /\ pc = "read" => ~ Has("SSL_WRITEHS")
       /\ pc = "write" =>
             /\ Has("SSL_READHS") => branch.rehandshake = 1
             /\ Has("SSL_WRITEHS") => branch.rehandshake = 2

(* What user code heard first. *)
Begins ==
    /\ Has("SSL_ESTABLISHED") =>
          HeardAt(1, First) \/ (role = "server" /\ heard = <<>> /\ ~ listener)
    /\ ~ Has("SSL_ESTABLISHED") =>
          IF role = "client" THEN \A n \in 1 .. Len(heard) : heard[n] \in Ends
          ELSE heard = <<>>
    /\ \A n \in 2 .. Len(heard) : heard[n] \in {"RECV", "CLOSED"}

(* What user code heard last: behind an end the socket is dead or closed.  *)
Finishes ==
    /\ pc = "loop" /\ open => ~ Has("DEAD")
    /\ \A n \in 1 .. Len(heard) :
          heard[n] \in Ends =>
             /\ n = Len(heard)
             /\ pc \in {"loop", "callback"}
             /\ ~ open \/ Has("DEAD")

(* SSL_WANTWRITE tells what the library wants, and the engine watches it,  *)
(* but for a handshake that SSL_HANDSHAKE stands for: it always reads.     *)
Watched ==
    /\ Starting \/ Interrupted =>
          /\ waits = "read" => ~ Has("SSL_WANTWRITE")
          /\ waits = "write" => Has("SSL_WANTWRITE")
    /\ pc \in {"loop", "callback"} =>
          IF Interrupted THEN /\ waits = "read" => "r" \in watch
                              /\ waits = "write" => "w" \in watch
          ELSE "r" \in watch

SSLInv == Phases /\ Visit /\ Begins /\ Finishes /\ Watched

-----------------------------------------------------------------------------
(* Writing: how the visit ends. *)
WriteEnds(event, f, told) ==
    /\ event \in {branch.event, "CLOSED"}
    /\ f \ {"SSL_WRITEHS", "SSL_WANTWRITE", "DEAD"} \subseteq flags
    /\ flags \ {"SSL_WRITEHS", "SSL_WANTWRITE", "SSL_READHS"} \subseteq f
    /\ event = "CLOSED" => "DEAD" \in f
    /\ "DEAD" \in f => Has("DEAD") \/ event = "CLOSED"
    /\ "SSL_WRITEHS" \in f => "SSL_READHS" \notin f /\ backend = "openssl"
    /\ f \cap {"SSL_READHS", "SSL_WRITEHS"} # {} =>
          /\ \/ waits' = waits /\ f = flags
             \/ waits' = "none"
             \/ waits' = "write" <=> "SSL_WANTWRITE" \in f
          /\ told \/ branch.rehandshake # 0 \/ {"r", "w"} \subseteq watch

LEMMA WriteWrites ==
    ASSUME TypeOK, SSLInv, Write
    PROVE  \E event \in Events \cup {"IGNORE"}, f \in SUBSET Flags,
              q \in BOOLEAN, told \in BOOLEAN :
              VisitEnds(event, f, q, told) /\ WriteEnds(event, f, told)
<1> USE DEF Has
<1>1. /\ pc = "write" /\ Visit /\ Phases /\ flags \in SUBSET Flags
      /\ branch \in Branches /\ queued \in BOOLEAN
      /\ ~ ({"SSL_READHS", "SSL_WRITEHS"} \subseteq flags)
      /\ backend \in {"gnutls", "openssl"}
  BY DEF Write, SSLInv, TypeOK, Flags, Branches
<1>2. PICK event, q, f, g : event = branch.event /\ q = queued /\ f = flags /\ g = WriteCleared
  OBVIOUS
<1>3. event \in Events \cup {"IGNORE"} /\ "CLOSED" \in Events
  BY <1>1, <1>2 DEF Branches, Events
<1>4. CASE NoWrite \/ WriteNoSession
  <2>1. PICK told \in BOOLEAN : VisitEnds(event, f, q, told)
    BY <1>2, <1>4 DEF NoWrite, WriteNoSession
  <2>2. waits' = waits BY <1>4 DEF NoWrite, WriteNoSession, LibraryRests, library
  <2>3. WriteEnds(event, f, told)
    BY <1>1, <1>2, <2>2 DEF WriteEnds, Visit, Phases
  <2> QED BY <1>3, <1>1, <1>2, <2>1, <2>3
<1>5. ASSUME Writes
      PROVE  /\ "SSL_READHS" \notin flags
             /\ branch.rehandshake # 0 \/ {"r", "w"} \subseteq watch
  BY <1>1, <1>5 DEF Writes, Visit
<1>6. /\ g \in SUBSET Flags /\ g \subseteq flags
      /\ flags \ {"SSL_WRITEHS", "SSL_WANTWRITE", "SSL_READHS"} \subseteq g
      /\ "SSL_WRITEHS" \notin g
  BY <1>1, <1>2 DEF WriteCleared, Phases
<1>7. CASE Writes /\ WriteDone
  <2>1. VisitEnds(event, g, FALSE, TRUE) BY <1>2, <1>7 DEF WriteDone
  <2>2. WriteEnds(event, g, TRUE)
    BY <1>1, <1>2, <1>5, <1>6, <1>7 DEF WriteEnds, Visit
  <2> QED BY <1>3, <1>6, <2>1, <2>2
<1>8. CASE Writes /\ WriteWaits
  <2>1. PICK h : h = WriteFlags OBVIOUS
  <2>2. waits' = (IF room THEN "read" ELSE "write") /\ VisitEnds(event, h, q, FALSE)
    BY <1>2, <1>8, <2>1 DEF WriteWaits
  <2>3. /\ h \in SUBSET Flags
        /\ backend = "gnutls" => h = flags
        /\ backend = "openssl" =>
              /\ h \subseteq g \cup {"SSL_WRITEHS", "SSL_WANTWRITE"} /\ g \subseteq h
              /\ "SSL_WANTWRITE" \in h <=> ~ room
    BY <1>1, <1>2, <1>6, <2>1 DEF WriteFlags, WriteCleared, Flags
  <2>4. waits' = "write" <=> ~ room BY <2>2
  <2>5. WriteEnds(event, h, FALSE)
    BY <1>1, <1>2, <1>5, <1>6, <1>8, <2>3, <2>4 DEF WriteEnds, Visit, Phases
  <2> QED BY <1>3, <1>1, <1>2, <2>2, <2>3, <2>5
<1>9. CASE Writes /\ WriteFails
  <2>1. CASE VisitEnds(branch.event, WriteCleared, queued, FALSE)
    <3>1. VisitEnds(event, g, q, FALSE) BY <1>2, <2>1
    <3>2. WriteEnds(event, g, FALSE)
      BY <1>1, <1>2, <1>5, <1>6, <1>9 DEF WriteEnds, Visit
    <3> QED BY <1>3, <1>1, <1>2, <1>6, <3>1, <3>2
  <2>2. CASE VisitEnds("CLOSED", WriteCleared \cup {"DEAD"}, queued, FALSE)
    <3>1. PICK d : d = g \cup {"DEAD"} OBVIOUS
    <3>2. d \in SUBSET Flags BY <1>6, <3>1 DEF Flags
    <3>3. VisitEnds("CLOSED", d, q, FALSE) BY <1>2, <2>2, <3>1
    <3>4. WriteEnds("CLOSED", d, FALSE)
      BY <1>1, <1>5, <1>6, <1>9, <3>1 DEF WriteEnds, Visit
    <3> QED BY <1>3, <1>1, <1>2, <3>2, <3>3, <3>4
  <2> QED BY <1>9, <2>1, <2>2 DEF WriteFails
<1> QED BY <1>4, <1>7, <1>8, <1>9 DEF Write

-----------------------------------------------------------------------------
(* The rest of the types. *)

LEMMA ReadTypes == ASSUME TypeOK, Visit, Read PROVE TypeOK'
<1>1. /\ inq \in Seq(Items) /\ Len(inq) <= MaxIn /\ room \in BOOLEAN
      /\ hs \in Seq(Flight) /\ Len(hs) <= 4 /\ failed \in BOOLEAN
      /\ waits \in {"none", "read", "write"} /\ again \in BOOLEAN
  BY DEF TypeOK, Flight
<1>2. /\ hs' \in Seq(Flight) /\ Len(hs') <= 4
      /\ inq' \in Seq(Items) /\ Len(inq') <= MaxIn
      /\ failed' \in BOOLEAN /\ room' \in BOOLEAN
      /\ waits' \in {"none", "read", "write"} /\ asks' = asks
      /\ again' \in BOOLEAN
  <2>1. CASE ReadNoSession
    BY <1>1, <2>1 DEF ReadNoSession, LibraryRests, library, system
  <2>2. CASE ReadInHandshakeGnuTLS \/ ReadInHandshakeOpenSSL
    <3>1. PICK result \in Results : ReadHandshake(result)
      BY <2>2 DEF ReadInHandshakeGnuTLS, ReadInHandshakeOpenSSL, Results
    <3>2. again' \in BOOLEAN
      BY <1>1, <2>2 DEF ReadInHandshakeGnuTLS, ReadInHandshakeOpenSSL, FatalErrno
    <3> QED BY <3>1, <3>2, ReadHandshakeTypes
  <2>3. CASE ReadRecord
    <3>1. again' \in BOOLEAN BY <1>1, <2>3 DEF ReadRecord, FatalErrno
    <3>2. inq' \in Seq(Items) /\ Len(inq') <= MaxIn
      BY <1>1, <2>3, SkippedTypes DEF ReadRecord
    <3> QED BY <1>1, <2>3, <3>1, <3>2 DEF ReadRecord
  <2> QED BY <2>1, <2>2, <2>3 DEF Read
<1>3. Reads BY ReadReads
<1>4. "SSL_WRITEHS" \notin flags' /\ flags' \subseteq Flags
  BY <1>3 DEF Reads, Read, Visit, TypeOK, Flags, Has
<1>5. /\ UNCHANGED <<mode, open, watch, queued, listener, heard>>
      /\ pc' \in {"read", "write"} /\ branch' \in Branches
  BY <1>3 DEF Reads
<1> QED BY <1>2, <1>4, <1>5 DEF TypeOK, Flags, Flight, Branches, mode, Has

LEMMA WriteTypes == ASSUME TypeOK, SSLInv, Write PROVE TypeOK'
<1>1. PICK event \in Events \cup {"IGNORE"}, f \in SUBSET Flags,
           q \in BOOLEAN, told \in BOOLEAN :
              VisitEnds(event, f, q, told) /\ WriteEnds(event, f, told)
  BY WriteWrites
<1>2. /\ flags' = f /\ pc' \in {"loop", "callback"} /\ branch' \in Branches
      /\ open' \in BOOLEAN /\ heard' \in Seq(Events)
  BY <1>1, Left DEF VisitEnds
<1>3. queued' \in BOOLEAN /\ watch' \subseteq {"r", "w"}
  BY <1>1, WantsTypes DEF VisitEnds, TypeOK
<1>4. ~ ({"SSL_READHS", "SSL_WRITEHS"} \subseteq f) BY <1>1 DEF WriteEnds
<1>5. /\ hs' = hs /\ inq' = inq /\ failed' = failed /\ asks' = asks
      /\ room' \in BOOLEAN /\ waits' \in {"none", "read", "write"}
      /\ again' \in BOOLEAN /\ mode' = mode /\ listener' = listener
  BY DEF Write, NoWrite, WriteNoSession, WriteDone, WriteWaits, WriteFails,
         FatalErrno, LibraryRests, library, system, TypeOK
<1> QED BY <1>2, <1>3, <1>4, <1>5 DEF TypeOK, Flags, Branches, mode, Has

(* What user code, the peer and the system may do between the steps of the *)
(* program: they change no flag and nothing that was heard.                *)
Around ==
    /\ UNCHANGED <<mode, flags, pc, branch, waits, heard>>
    /\ \/ open' = open
       \/ ~ open' /\ pc \in {"loop", "callback"}
    /\ \/ watch' = watch
       \/ pc \in {"loop", "callback"} /\ watch' = Wants(flags, TRUE)
    /\ listener' = listener \/ ~ listener'

Surroundings ==
    UserCode \/ PeerAnswers \/ PeerSends \/ PeerEnds \/ PeerReads

LEMMA GoesAround == ASSUME Surroundings PROVE Around
<1> USE DEF Around, mode, control, library, system
<1>1. CASE UserCode
  BY <1>1 DEF UserCode, Send, Close, CloseListener, ErrnoChanges, UserRuns
<1>2. CASE PeerAnswers BY <1>2 DEF PeerAnswers, Arrives
<1>3. CASE PeerSends BY <1>3 DEF PeerSends, Arrives
<1>4. CASE PeerEnds BY <1>4 DEF PeerEnds, Arrives
<1>5. CASE PeerReads BY <1>5 DEF PeerReads
<1> QED BY <1>1, <1>2, <1>3, <1>4, <1>5 DEF Surroundings

LEMMA ArrivesTypes ==
    ASSUME TypeOK, NEW item \in Items, Arrives(item), item = "rehs" => asks < MaxAsks
    PROVE  TypeOK'
<1>1. inq' \in Seq(Items) /\ Len(inq') <= MaxIn
  <2>1. inq \in Seq(Items) /\ Len(inq) \in Nat /\ MaxIn \in Nat
    BY SSLAssumption, LenProperties DEF TypeOK
  <2> QED BY <2>1, AppendProperties DEF Arrives
<1>2. asks' \in 0 .. MaxAsks BY SSLAssumption DEF Arrives, TypeOK
<1> QED BY <1>1, <1>2 DEF Arrives, TypeOK, mode, control, library, Has

LEMMA SurroundingTypes == ASSUME TypeOK, Surroundings PROVE TypeOK'
<1>1. CASE Send \/ Close \/ CloseListener \/ ErrnoChanges \/ PeerReads
  <2>1. watch' \subseteq {"r", "w"}
    <3>1. watch' = watch \/ watch' = Wants(flags, TRUE)
      <4>1. CASE Send BY <4>1 DEF Send
      <4>2. CASE Close BY <4>2 DEF Close
      <4>3. CASE CloseListener \/ ErrnoChanges BY <4>3 DEF CloseListener, ErrnoChanges
      <4>4. CASE PeerReads BY <4>4 DEF PeerReads
      <4> QED BY <1>1, <4>1, <4>2, <4>3, <4>4
    <3>2. Wants(flags, TRUE) \subseteq {"r", "w"} BY DEF Wants
    <3> QED BY <3>1, <3>2 DEF TypeOK
  <2>2. /\ open' \in BOOLEAN /\ queued' \in BOOLEAN /\ again' \in BOOLEAN
        /\ listener' \in BOOLEAN /\ room' \in BOOLEAN
    BY <1>1 DEF Send, Close, CloseListener, ErrnoChanges, PeerReads, TypeOK, system
  <2>3. UNCHANGED <<mode, flags, control, library, inq, asks, heard>>
    BY <1>1 DEF Send, Close, CloseListener, ErrnoChanges, PeerReads, system
  <2> QED BY <2>1, <2>2, <2>3 DEF TypeOK, mode, control, library, Has
<1>2. CASE PeerAnswers \/ PeerSends \/ PeerEnds
  <2>1. PICK item \in Items : Arrives(item) /\ (item = "rehs" => asks < MaxAsks)
    BY <1>2 DEF PeerAnswers, PeerSends, PeerEnds, Items
  <2> QED BY <2>1, ArrivesTypes
<1> QED BY <1>1, <1>2 DEF Surroundings, UserCode

LEMMA CallbackTypes == ASSUME TypeOK, CallbackReturns PROVE TypeOK'
<1>1. NoBranch \in Branches BY DEF NoBranch, Branches
<1>2. watch' \subseteq {"r", "w"}
  BY WantsTypes DEF CallbackReturns, TypeOK
<1>3. open' \in BOOLEAN /\ pc' = "loop" /\ branch' \in Branches
  BY <1>1 DEF CallbackReturns, TypeOK
<1> QED BY <1>2, <1>3 DEF CallbackReturns, TypeOK, Branches, mode, library, system, Has

LEMMA ConnectedTypes == ASSUME TypeOK, Phases, Connected PROVE TypeOK'
<1>1. PICK f : f = flags \ {"CONNECTING"} OBVIOUS
<1>2. PICK g : g = f \cup {"SSL_HANDSHAKE"} OBVIOUS
<1>3. /\ f \in SUBSET Flags /\ g \in SUBSET Flags
      /\ ~ ({"SSL_READHS", "SSL_WRITEHS"} \subseteq f)
      /\ ~ ({"SSL_READHS", "SSL_WRITEHS"} \subseteq g)
  BY <1>1, <1>2 DEF TypeOK, Flags, Has
<1>4. CASE Handshake(g)
  BY <1>3, <1>4, HandshakeStepTypes DEF Connected
<1>5. CASE /\ flags' = f /\ watch' = Wants(f, queued)
           /\ LibraryRests /\ UNCHANGED <<open, control, heard>>
  <2>1. watch' \subseteq {"r", "w"} BY <1>5, WantsTypes
  <2> QED BY <1>3, <1>5, <2>1
          DEF Connected, TypeOK, Flags, LibraryRests, library, system, control, mode, Has
<1> QED BY <1>1, <1>2, <1>4, <1>5 DEF Connected

LEMMA GoesOnTypes == ASSUME TypeOK, HandshakeGoesOn PROVE TypeOK'
<1>1. PICK f : f = flags OBVIOUS
<1>2. f \in SUBSET Flags /\ ~ ({"SSL_READHS", "SSL_WRITEHS"} \subseteq f)
  BY <1>1 DEF TypeOK, Flags, Has
<1>3. Handshake(f) BY <1>1 DEF HandshakeGoesOn
<1> QED BY <1>2, <1>3, HandshakeStepTypes DEF HandshakeGoesOn

LEMMA InitTypes == Init => TypeOK
<1> SUFFICES ASSUME Init PROVE TypeOK OBVIOUS
<1>1. NoBranch \in Branches BY DEF NoBranch, Branches
<1>2. <<"out", "in", "out", "in">> \in Seq(Flight) /\ Len(<<"out", "in", "out", "in">>) = 4
  BY DEF Flight
<1>3. <<"in", "out", "in", "out">> \in Seq(Flight) /\ Len(<<"in", "out", "in", "out">>) = 4
  BY DEF Flight
<1>4. hs \in Seq(Flight) /\ Len(hs) <= 4
  BY <1>2, <1>3 DEF Init, FullHandshake
<1>5. inq \in Seq(Items) /\ Len(inq) <= MaxIn /\ heard \in Seq(Events)
  BY SSLAssumption, EmptySeq DEF Init
<1>6. asks \in 0 .. MaxAsks BY SSLAssumption DEF Init
<1>7. flags \in {{"CONNECTING"}, {"INCOMING", "SSL_HANDSHAKE"}, {"INCOMING"}}
  BY DEF Init
<1>8. flags \subseteq Flags /\ ~ (Has("SSL_READHS") /\ Has("SSL_WRITEHS"))
  BY <1>7 DEF Flags, Has
<1>9. watch \subseteq {"r", "w"} BY DEF Init
<1> QED BY <1>1, <1>4, <1>5, <1>6, <1>8, <1>9 DEF Init, TypeOK, Branches, Flight, Flags

-----------------------------------------------------------------------------
(* The invariant holds. *)

LEMMA AroundKeeps == ASSUME TypeOK, SSLInv, Around PROVE SSLInv'
<1> USE DEF Has, Around, mode
<1>1. Phases' BY DEF SSLInv, Phases, Starting
<1>2. Visit'
  <2>1. pc \in {"read", "write"} => open' = open /\ watch' = watch OBVIOUS
  <2>2. UNCHANGED <<flags, pc, branch>> OBVIOUS
  <2> QED BY <2>1, <2>2 DEF SSLInv, Visit
<1>3. Begins' BY DEF SSLInv, Begins, HeardAt, First, Ends
<1>4. Finishes' BY DEF SSLInv, Finishes, Ends
<1>5. Watched' BY DEF SSLInv, Watched, Starting, Interrupted, Wants
<1> QED BY <1>1, <1>2, <1>3, <1>4, <1>5 DEF SSLInv

LEMMA ReadKeeps == ASSUME TypeOK, SSLInv, Read PROVE SSLInv'
<1>1. Reads BY ReadReads
<1>2. pc = "read" BY DEF Read
<1> USE DEF Has
<1>3. Phases' BY <1>1, <1>2 DEF SSLInv, Reads, Visit, Phases, Starting, mode
<1>4. Visit' BY <1>1, <1>2 DEF SSLInv, Reads, Visit
<1>5. Begins' BY <1>1, <1>2 DEF SSLInv, Reads, Begins, HeardAt, First, Ends, mode
<1>6. Finishes' BY <1>1, <1>2 DEF SSLInv, Reads, Finishes, Ends
<1>7. Watched'
  BY <1>1, <1>2, <1>3 DEF SSLInv, Reads, Visit, Phases, Watched, Starting, Interrupted
<1> QED BY <1>3, <1>4, <1>5, <1>6, <1>7 DEF SSLInv

LEMMA DispatchKeeps == ASSUME TypeOK, SSLInv, Dispatch PROVE SSLInv'
<1> USE DEF Has, Dispatch, mode, library
<1>1. /\ branch'.event = "IGNORE"
      /\ branch'.writeable = Writeable
      /\ branch'.rehandshake = IF Has("SSL_READHS") THEN 1
                               ELSE IF Has("SSL_WRITEHS") THEN 2 ELSE 0
  BY DEF NoBranch
<1>2. Phases' BY DEF SSLInv, Phases, Starting
<1>3. Visit'
  <2>1. branch'.writeable => "w" \in watch BY <1>1 DEF Writeable
  <2>2. branch'.rehandshake = 0 => "r" \in watch
    BY <1>1 DEF SSLInv, Watched, Interrupted
  <2>3. UNCHANGED <<flags, open, watch>> /\ open OBVIOUS
  <2>4. /\ pc' = "read" => "SSL_WRITEHS" \notin flags
        /\ pc' = "write" =>
              /\ "SSL_READHS" \in flags => branch'.rehandshake = 1
              /\ "SSL_WRITEHS" \in flags => branch'.rehandshake = 2
    BY <1>1 DEF TypeOK
  <2> HIDE DEF Dispatch
  <2> QED BY <1>1, <2>1, <2>2, <2>3, <2>4 DEF Visit
<1>4. Begins' BY DEF SSLInv, Begins, HeardAt, First, Ends
<1>5. Finishes' BY DEF SSLInv, Finishes, Ends
<1>6. Watched' BY DEF SSLInv, Watched, Starting, Interrupted
<1> QED BY <1>2, <1>3, <1>4, <1>5, <1>6 DEF SSLInv

LEMMA CallbackKeeps == ASSUME TypeOK, SSLInv, CallbackReturns PROVE SSLInv'
<1> USE DEF Has, CallbackReturns, mode, library
<1>1. Phases' BY DEF SSLInv, Phases, Starting
<1>2. Visit' BY DEF Visit
<1>3. Begins' BY DEF SSLInv, Begins, HeardAt, First, Ends
<1>4. Finishes' BY DEF SSLInv, Finishes, Ends
<1>5. Watched' BY DEF SSLInv, Watched, Starting, Interrupted, Wants
<1> QED BY <1>1, <1>2, <1>3, <1>4, <1>5 DEF SSLInv

(* What user code hears at the end of a visit that reads and writes. *)
LEMMA LeaveHeard ==
    ASSUME TypeOK, SSLInv, pc \in {"read", "write"}, NEW f,
           NEW event \in {"IGNORE", "RECV", "CLOSED"}, NEW nested \in BOOLEAN,
           Leave(event, f, nested), UNCHANGED <<mode, listener>>,
           "SSL_ESTABLISHED" \in f <=> Has("SSL_ESTABLISHED"),
           event = "RECV" => Has("SSL_ESTABLISHED"),
           event = "CLOSED" => "DEAD" \in f
    PROVE  Begins' /\ Finishes'
<1> USE DEF Has
<1>1. Visit /\ Begins /\ Finishes /\ heard \in Seq(Events) /\ Len(heard) \in Nat
  BY LenProperties DEF SSLInv, TypeOK
<1>2. \A n \in 1 .. Len(heard) : heard[n] \notin Ends BY <1>1 DEF Finishes
<1>3. /\ flags' = f /\ pc' \in {"loop", "callback"} /\ role' = role /\ listener' = listener
  BY Left DEF mode, Events
<1>4. CASE event # "IGNORE" /\ HasCallback(event)
  <2>1. Hear(event) /\ event \in Events /\ open' = open /\ pc' = "callback"
    BY <1>4 DEF Leave, Events
  <2>2. role # "client" => heard # <<>>
    BY <1>4 DEF HasCallback
  <2>3. HeardAt(1, First) \/ (heard = <<>> /\ event = "CLOSED" /\ role = "client"
                              /\ ~ Has("SSL_ESTABLISHED"))
    <3>1. CASE Has("SSL_ESTABLISHED") BY <1>1, <2>2, <3>1 DEF Begins, TypeOK
    <3>2. CASE ~ Has("SSL_ESTABLISHED")
      <4>1. role = "client" /\ Len(heard) = 0
        BY <1>1, <1>2, <2>2, <3>2 DEF Begins
      <4> QED BY <1>1, <1>4, <3>2, <4>1, EmptySeq
    <3> QED BY <3>1, <3>2
  <2>4. CASE heard' = heard
    <3>1. event \notin Ends BY <1>1, <1>2, <2>1, <2>4, Heard
    <3> QED BY <1>1, <1>2, <1>3, <2>1, <2>4 DEF Begins, Finishes, HeardAt, First
  <2>5. CASE /\ Len(heard') = Len(heard) + 1
             /\ heard'[Len(heard) + 1] = event
             /\ \A n \in 1 .. Len(heard) : heard'[n] = heard[n]
    <3>1. Begins'
      BY <1>1, <1>2, <1>3, <1>4, <2>3, <2>5 DEF Begins, HeardAt, First, Ends
    <3>2. Finishes'
      BY <1>1, <1>2, <1>3, <1>4, <2>1, <2>5 DEF Finishes, Ends
    <3> QED BY <3>1, <3>2
  <2> QED BY <2>1, <2>4, <2>5, Heard
<1>5. CASE ~ (event # "IGNORE" /\ HasCallback(event))
  <2>1. heard' = heard /\ (open' => "DEAD" \notin f) BY <1>5 DEF Leave
  <2>2. Begins' BY <1>1, <1>3, <2>1 DEF Begins, HeardAt, First, Ends
  <2>3. Finishes' BY <1>2, <1>3, <2>1 DEF Finishes, Ends
  <2> QED BY <2>2, <2>3
<1> QED BY <1>4, <1>5

LEMMA WriteKeeps == ASSUME TypeOK, SSLInv, Write PROVE SSLInv'
<1>1. PICK event \in Events \cup {"IGNORE"}, f \in SUBSET Flags,
           q \in BOOLEAN, told \in BOOLEAN :
              VisitEnds(event, f, q, told) /\ WriteEnds(event, f, told)
  BY WriteWrites
<1>2. pc = "write" /\ UNCHANGED <<mode, listener>> BY DEF Write
<1>3. Leave(event, f, FALSE) BY <1>1 DEF VisitEnds
<1>4. flags' = f /\ pc' \in {"loop", "callback"} BY <1>3, Left
<1>5. watch' = IF told \/ branch.rehandshake # 0 THEN Wants(f, q) ELSE watch
  BY <1>1 DEF VisitEnds
<1> USE DEF Has
<1>6. Phases'
  BY <1>1, <1>2, <1>4 DEF SSLInv, Phases, Starting, WriteEnds, mode
<1>7. Visit' BY <1>4 DEF Visit
<1>8. Begins' /\ Finishes'
  <2>1. /\ event \in {"IGNORE", "RECV", "CLOSED"}
        /\ event = "RECV" => Has("SSL_ESTABLISHED")
        /\ event = "CLOSED" => "DEAD" \in f
    BY <1>1, <1>2 DEF SSLInv, Visit, WriteEnds
  <2>2. "SSL_ESTABLISHED" \in f <=> Has("SSL_ESTABLISHED")
    BY <1>1 DEF WriteEnds
  <2> QED BY <1>2, <1>3, <2>1, <2>2, LeaveHeard
<1>9. Watched'
  <2>1. ~ Starting' BY <1>1, <1>2, <1>4 DEF SSLInv, Phases, Starting, WriteEnds
  <2>2. waits \in {"none", "read", "write"} /\ waits' \in {"none", "read", "write"}
    BY WriteTypes DEF TypeOK
  <2>3. Interrupted' =>
           /\ waits' = "read" => "SSL_WANTWRITE" \notin f
           /\ waits' = "write" => "SSL_WANTWRITE" \in f
    BY <1>1, <1>4, <2>2 DEF SSLInv, Watched, Interrupted, WriteEnds
  <2>4. CASE told \/ branch.rehandshake # 0
    <3>1. watch' = Wants(f, q) BY <1>5, <2>4
    <3> QED BY <1>4, <2>1, <2>3, <3>1 DEF Watched, Interrupted, Wants
  <2>5. CASE ~ (told \/ branch.rehandshake # 0)
    <3>1. watch' = watch BY <1>5, <2>5
    <3>2. "r" \in watch BY <1>2, <2>5 DEF SSLInv, Visit
    <3>3. Interrupted' => "w" \in watch
      BY <1>1, <1>4, <2>5 DEF Interrupted, WriteEnds
    <3> QED BY <1>4, <2>1, <2>3, <3>1, <3>2, <3>3 DEF Watched, Interrupted
  <2> QED BY <2>4, <2>5
<1> QED BY <1>6, <1>7, <1>8, <1>9 DEF SSLInv

(* A handshake goes on: it waits, it is done and the connection is         *)
(* reported, or it failed and the socket is dead.                          *)
LEMMA HandshakeKeeps ==
    ASSUME TypeOK, SSLInv, pc = "loop", open, Starting, NEW f \in SUBSET Flags,
           f = (flags \ {"CONNECTING"}) \cup {"SSL_HANDSHAKE"},
           Handshake(f), UNCHANGED <<mode, queued, again, listener>>
    PROVE  SSLInv'
<1> USE DEF Has
<1>1. PICK result \in Results :
         /\ LibraryHandshake(hs, inq, result)
         /\ watch' = Wants(FlagsAfter(f, result), queued)
         /\ \/ Leave("IGNORE", FlagsAfter(f, result), FALSE) /\ result \in {"read", "write"}
            \/ /\ Leave(EndOf(result), FlagsAfter(f, result), TRUE)
               /\ result \in {"done", "fatal"}
            \/ /\ Leave("IGNORE", FlagsAfter(f, result), TRUE)
               /\ result = "done" /\ role = "server" /\ ~ listener
  BY DEF Handshake, Results
<1>2. PICK g : g = FlagsAfter(f, result) OBVIOUS
<1>3. PICK event \in Events \cup {"IGNORE"}, nested \in BOOLEAN :
         /\ Leave(event, g, nested)
         /\ \/ event = "IGNORE" /\ result \in {"read", "write"}
            \/ event = EndOf(result) /\ result \in {"done", "fatal"}
            \/ event = "IGNORE" /\ result = "done" /\ role = "server" /\ ~ listener
  <2>1. PICK event : event = EndOf(result) OBVIOUS
  <2>2. event \in Events \cup {"IGNORE"} BY <2>1 DEF EndOf, Events
  <2> QED BY <1>1, <1>2, <2>1, <2>2
<1>4. /\ hs \in Seq(Flight) /\ Len(hs) <= 4
      /\ inq \in Seq(Items) /\ Len(inq) <= MaxIn
      /\ heard \in Seq(Events) /\ role \in {"client", "server"}
  BY DEF TypeOK, Flight
<1>5. waits' = IF result \in {"read", "write"} THEN result ELSE "none"
  BY <1>1, <1>4, HandshakeTypes
<1>6. /\ Phases /\ Begins /\ Finishes
      /\ "SSL_ESTABLISHED" \notin flags /\ "DEAD" \notin flags
      /\ flags \cap {"SSL_READHS", "SSL_WRITEHS"} = {}
  BY DEF SSLInv, Phases, Finishes
<1>7. /\ "CONNECTING" \notin g
      /\ g \cap {"SSL_READHS", "SSL_WRITEHS"} = {}
      /\ "SSL_HANDSHAKE" \in g <=> result # "done"
      /\ "SSL_ESTABLISHED" \in g <=> result = "done"
      /\ "DEAD" \in g <=> result = "fatal"
      /\ result = "read" => "SSL_WANTWRITE" \notin g
      /\ result = "write" => "SSL_WANTWRITE" \in g
  BY <1>2, <1>6 DEF FlagsAfter, Results
<1>8. flags' = g /\ pc' \in {"loop", "callback"} BY <1>3, Left
<1>9. heard = <<>>
  <2>1. \A n \in 1 .. Len(heard) : heard[n] \notin Ends BY <1>6 DEF Finishes
  <2>2. CASE role = "client"
    <3>1. Len(heard) = 0 BY <1>4, <1>6, <2>1, <2>2, LenProperties DEF Begins
    <3> QED BY <1>4, <3>1, EmptySeq
  <2>3. CASE role # "client" BY <1>6, <2>3 DEF Begins
  <2> QED BY <2>2, <2>3
<1>10. Phases' BY <1>6, <1>7, <1>8 DEF Phases, Starting, mode
<1>11. Visit' BY <1>8 DEF Visit
<1>12. Watched'
  <2>1. "r" \in Wants(g, queued) BY <1>7, WantsTypes
  <2>2. watch' = Wants(g, queued) BY <1>1, <1>2
  <2> QED BY <1>5, <1>7, <1>8, <2>1, <2>2 DEF Watched, Interrupted
<1>13. Begins' /\ Finishes'
  <2>1. /\ role' = role /\ listener' = listener /\ First' = First
        /\ Len(heard) = 0 /\ First \notin Ends /\ First # "IGNORE"
    BY <1>9 DEF mode, First, Ends
  <2>2. CASE event # "IGNORE" /\ HasCallback(event)
    <3>1. Hear(event) /\ pc' = "callback" BY <1>3, <2>2 DEF Leave
    <3>2. Len(heard') = 1 /\ heard'[1] = event BY <2>1, <2>2, <3>1, Heard
    <3>3. event = IF result = "done" THEN First ELSE "NOTCONNECTED"
      BY <1>3, <1>4, <2>2 DEF EndOf, First, Results
    <3>4. result = "fatal" => role = "client" BY <1>3, <1>4, <2>2 DEF EndOf
    <3>5. result \in {"done", "fatal"} BY <1>3, <2>2
    <3>6. Begins'
      BY <1>7, <1>8, <2>1, <3>2, <3>3, <3>4, <3>5 DEF Begins, HeardAt, Ends
    <3>7. Finishes'
      BY <1>7, <1>8, <2>1, <3>1, <3>2, <3>3, <3>5 DEF Finishes, Ends
    <3> QED BY <3>6, <3>7
  <2>3. CASE ~ (event # "IGNORE" /\ HasCallback(event))
    <3>1. heard' = heard /\ pc' = "loop" /\ (open' => "DEAD" \notin g)
      BY <1>3, <2>3 DEF Leave
    <3>2. result = "done" => role = "server" /\ ~ listener
      BY <1>3, <1>4, <2>3 DEF EndOf, HasCallback
    <3>3. Begins'
      BY <1>7, <1>8, <1>9, <2>1, <3>1, <3>2 DEF Begins
    <3>4. Finishes' BY <1>8, <2>1, <3>1 DEF Finishes
    <3> QED BY <3>3, <3>4
  <2> QED BY <2>2, <2>3
<1> QED BY <1>10, <1>11, <1>12, <1>13 DEF SSLInv

LEMMA ConnectedKeeps == ASSUME TypeOK, SSLInv, Connected PROVE SSLInv'
<1> USE DEF Has
<1>1. PICK f : f = flags \ {"CONNECTING"} OBVIOUS
<1>2. PICK g : g = f \cup {"SSL_HANDSHAKE"} OBVIOUS
<1>3. f \in SUBSET Flags /\ g \in SUBSET Flags BY <1>1, <1>2 DEF TypeOK, Flags
<1>4. /\ pc = "loop" /\ open /\ Starting /\ "CONNECTING" \in flags
      /\ UNCHANGED <<mode, queued, again, listener>>
  BY DEF Connected, Starting
<1>5. CASE Handshake(g)
  <2>1. g = (flags \ {"CONNECTING"}) \cup {"SSL_HANDSHAKE"} BY <1>1, <1>2
  <2> QED BY <1>3, <1>4, <1>5, <2>1, HandshakeKeeps
<1>6. CASE /\ flags' = f /\ watch' = Wants(f, queued)
           /\ LibraryRests /\ UNCHANGED <<open, control, heard>>
  <2>1. /\ f \cap {"CONNECTING", "SSL_HANDSHAKE", "SSL_ESTABLISHED",
                   "SSL_READHS", "SSL_WRITEHS"} = {}
        /\ "DEAD" \in f <=> "DEAD" \in flags
        /\ "SSL_ESTABLISHED" \notin flags
    BY <1>1, <1>4 DEF SSLInv, Phases
  <2>2. pc' = pc /\ mode' = mode /\ flags' = f /\ heard' = heard /\ open' = open
    BY <1>4, <1>6 DEF control
  <2>3. Phases' BY <2>1, <2>2 DEF Phases, Starting
  <2>4. Visit' BY <1>4, <2>2 DEF Visit
  <2>5. Begins' BY <2>1, <2>2 DEF SSLInv, Begins, HeardAt, First, Ends, mode
  <2>6. Finishes' BY <2>1, <2>2 DEF SSLInv, Finishes, Ends
  <2>7. Watched' BY <1>6, <2>1, <2>2, WantsTypes DEF Watched, Starting, Interrupted
  <2> QED BY <2>3, <2>4, <2>5, <2>6, <2>7 DEF SSLInv
<1> QED BY <1>1, <1>2, <1>5, <1>6 DEF Connected

LEMMA GoesOnKeeps == ASSUME TypeOK, SSLInv, HandshakeGoesOn PROVE SSLInv'
<1>1. PICK f : f = flags OBVIOUS
<1>2. f \in SUBSET Flags BY <1>1 DEF TypeOK, Flags
<1>3. /\ pc = "loop" /\ open /\ Starting /\ Handshake(f)
      /\ UNCHANGED <<mode, queued, again, listener>>
  BY <1>1 DEF HandshakeGoesOn, Starting, Has
<1>4. f = (flags \ {"CONNECTING"}) \cup {"SSL_HANDSHAKE"}
  BY <1>1 DEF HandshakeGoesOn, SSLInv, Phases, Has
<1> QED BY <1>2, <1>3, <1>4, HandshakeKeeps

LEMMA InitInv == Init => SSLInv
<1> SUFFICES ASSUME Init PROVE SSLInv OBVIOUS
<1> USE DEF Has
<1>1. /\ flags \in {{"CONNECTING"}, {"INCOMING", "SSL_HANDSHAKE"}, {"INCOMING"}}
      /\ heard = <<>> /\ Len(heard) = 0
      /\ pc = "loop" /\ "r" \in watch /\ waits = "none"
  BY DEF Init
<1>2. Phases BY <1>1 DEF Phases, Starting
<1>3. Visit BY <1>1 DEF Visit
<1>4. Begins BY <1>1 DEF Begins
<1>5. Finishes BY <1>1 DEF Finishes
<1>6. Watched BY <1>1 DEF Watched, Starting, Interrupted
<1> QED BY <1>2, <1>3, <1>4, <1>5, <1>6 DEF SSLInv

IInv == TypeOK /\ SSLInv

LEMMA Inductive == /\ Init => IInv
                   /\ IInv /\ [Next]_vars => IInv'
<1>1. Init => IInv BY InitTypes, InitInv DEF IInv
<1>2. ASSUME IInv, Next PROVE IInv'
  <2>1. TypeOK /\ SSLInv /\ Phases /\ Visit BY <1>2 DEF IInv, SSLInv
  <2>2. CASE Connected
    BY <2>1, <2>2, ConnectedTypes, ConnectedKeeps DEF IInv
  <2>3. CASE HandshakeGoesOn
    BY <2>1, <2>3, GoesOnTypes, GoesOnKeeps DEF IInv
  <2>4. CASE Dispatch
    BY <2>1, <2>4, DispatchTypes, DispatchKeeps DEF IInv
  <2>5. CASE Read
    BY <2>1, <2>5, ReadTypes, ReadKeeps DEF IInv
  <2>6. CASE Write
    BY <2>1, <2>6, WriteTypes, WriteKeeps DEF IInv
  <2>7. CASE CallbackReturns
    BY <2>1, <2>7, CallbackTypes, CallbackKeeps DEF IInv
  <2>8. CASE Surroundings
    BY <2>1, <2>8, SurroundingTypes, GoesAround, AroundKeeps DEF IInv
  <2> QED
    BY <1>2, <2>2, <2>3, <2>4, <2>5, <2>6, <2>7, <2>8
       DEF Next, Program, Surroundings
<1>3. ASSUME IInv, UNCHANGED vars PROVE IInv'
  <2>1. TypeOK'
    BY <1>3 DEF IInv, vars, TypeOK, mode, control, library, system, Has
  <2>2. Around BY <1>3 DEF vars, Around, control, library
  <2> QED BY <1>3, <2>1, <2>2, AroundKeeps DEF IInv
<1> QED BY <1>1, <1>2, <1>3

LEMMA Invariant == Spec => []IInv
  BY Inductive, PTL DEF Spec

(* A connection and its library have their types, and SSL_WANTWRITE is     *)
(* never shared by a handshake in reading and one in writing (TypeOK).     *)
THEOREM ConnectionTypeCorrect == Spec => []TypeOK
<1>1. IInv => TypeOK BY DEF IInv
<1> QED BY <1>1, Invariant, PTL

(* Whenever the loop waits, the engine watches what the library waits for, *)
(* in the first handshake and in later ones within reading or writing, but *)
(* for a first handshake that is blocked (WaitsAreWatched).                *)
THEOREM WaitsStayWatched == Spec => []WaitsAreWatched
<1>1. ASSUME IInv PROVE WaitsAreWatched
  <2> SUFFICES ASSUME pc = "loop", ~ Blocked,
                      flags \cap {"SSL_READHS", "SSL_WRITEHS", "SSL_HANDSHAKE"} # {}
               PROVE  /\ waits = "read" => "r" \in watch
                      /\ waits = "write" => "w" \in watch
    BY DEF WaitsAreWatched
  <2>1. Watched /\ Phases BY <1>1 DEF IInv, SSLInv
  <2>2. CASE Interrupted BY <2>1, <2>2 DEF Watched
  <2>3. CASE ~ Interrupted
    <3>1. Has("SSL_HANDSHAKE") /\ Starting
      BY <2>3 DEF Interrupted, Starting, Has
    <3> QED BY <2>1, <2>3, <3>1 DEF Watched, Blocked
  <2> QED BY <2>2, <2>3
<1> QED BY <1>1, Invariant, PTL

(* User code hears of the connection once, first, and only when it is      *)
(* established; of data only after that; and of nothing behind the end     *)
(* (HeardAsEstablished).                                                   *)
THEOREM HeardOnlyAsEstablished == Spec => []HeardAsEstablished
<1>1. ASSUME IInv PROVE HeardAsEstablished
  <2> USE DEF Has
  <2>1. /\ Begins /\ Finishes /\ heard \in Seq(Events) /\ Len(heard) \in Nat
        /\ role \in {"client", "server"}
    BY <1>1, LenProperties DEF IInv, SSLInv, TypeOK
  <2>2. First \notin Ends /\ First \notin {"RECV", "CLOSED"}
    BY DEF First, Ends
  <2>3. ASSUME NEW n \in 1 .. Len(heard)
        PROVE  /\ heard[n] = First <=> n = 1 /\ Has("SSL_ESTABLISHED")
               /\ heard[n] \in {"CLOSED", "NOTCONNECTED"} => n = Len(heard)
               /\ heard[n] = "RECV" => Has("SSL_ESTABLISHED")
               /\ heard[n] = "NOTCONNECTED" => n = 1
    <3>1. heard # <<>> BY EmptySeq
    <3>2. ~ Has("SSL_ESTABLISHED") => heard[n] \in Ends
      BY <2>1, <3>1 DEF Begins
    <3>3. Has("SSL_ESTABLISHED") => heard[1] = First
      BY <2>1, <3>1 DEF Begins, HeardAt
    <3>4. n # 1 => heard[n] \in {"RECV", "CLOSED"} BY <2>1 DEF Begins
    <3> QED BY <2>1, <2>2, <3>2, <3>3, <3>4 DEF Finishes, Ends
  <2>4. Has("SSL_ESTABLISHED") => HeardAt(1, First) \/ ~ listener
    BY <2>1 DEF Begins
  <2>5. open /\ pc = "loop" => ~ Has("DEAD") BY <2>1 DEF Finishes
  <2> QED BY <2>3, <2>4, <2>5 DEF HeardAsEstablished, First
<1> QED BY <1>1, Invariant, PTL
=============================================================================
