----------------------- MODULE IOEngineDispatchProofs -----------------------
(***************************************************************************)
(* Proofs about how the engines register and serve sockets, for any number *)
(* of sockets and of descriptors.                                          *)
(*                                                                         *)
(* The invariant has two parts.  RegistrationInv is about epoll and        *)
(* kevent's tables and holds at any time, also while c-ares is at work:    *)
(* the one socket registered for it may then have a number that c-ares has *)
(* closed and somebody else owns.  RoundInv is about the events of a round *)
(* and who was closed in it: what is left of the batch, or in front of the *)
(* walk of select, is true and is all that was not served.                 *)
(***************************************************************************)
EXTENDS IOEngineDispatch, SequenceTheorems, FiniteSetTheorems, TLAPS

-----------------------------------------------------------------------------
(* The list. *)

Distinct(s) == \A i, j \in 1 .. Len(s) : s[i] = s[j] => i = j

(* b is a, or comes behind it. *)
Behind(s, a, b) == \E i, j \in 1 .. Len(s) : i <= j /\ s[i] = a /\ s[j] = b

(* A new socket goes to the end. *)
LEMMA Appended ==
    ASSUME NEW s \in Seq(Socks), Distinct(s), NEW e \in Socks \ ToSet(s)
    PROVE  /\ Append(s, e) \in Seq(Socks)
           /\ Distinct(Append(s, e))
           /\ ToSet(Append(s, e)) = ToSet(s) \cup {e}
           /\ \A a, b \in Socks : Behind(s, a, b) => Behind(Append(s, e), a, b)
           /\ \A a, b \in Socks :
                 Behind(Append(s, e), a, b) => Behind(s, a, b) \/ b = e
<1> DEFINE t == Append(s, e)
<1>1. /\ t \in Seq(Socks)
      /\ Len(t) = Len(s) + 1
      /\ \A i \in 1 .. Len(s) : t[i] = s[i]
      /\ t[Len(s) + 1] = e
      /\ DOMAIN t = 1 .. Len(t) /\ DOMAIN s = 1 .. Len(s)
  BY AppendProperties, LenProperties
<1>2. Len(s) \in Nat BY LenProperties
<1> HIDE DEF t
<1>3. \A i \in 1 .. Len(s) : s[i] # e BY <1>1 DEF ToSet
<1>4. Distinct(t)
  <2> SUFFICES ASSUME NEW i \in 1 .. Len(t), NEW j \in 1 .. Len(t), t[i] = t[j]
               PROVE  i = j
    BY DEF Distinct
  <2>1. CASE i \in 1 .. Len(s) /\ j \in 1 .. Len(s) BY <1>1, <2>1 DEF Distinct
  <2>2. CASE i = Len(s) + 1 /\ j \in 1 .. Len(s) BY <1>1, <1>3, <2>2
  <2>3. CASE i \in 1 .. Len(s) /\ j = Len(s) + 1 BY <1>1, <1>3, <2>3
  <2> QED BY <1>1, <1>2, <2>1, <2>2, <2>3
<1>5. ToSet(t) = ToSet(s) \cup {e}
  <2>1. ASSUME NEW x \in ToSet(t) PROVE x \in ToSet(s) \cup {e}
    BY <1>1, <1>2 DEF ToSet
  <2>2. ASSUME NEW x \in ToSet(s) PROVE x \in ToSet(t)
    BY <1>1, <1>2 DEF ToSet
  <2>3. e \in ToSet(t) BY <1>1, <1>2 DEF ToSet
  <2> QED BY <2>1, <2>2, <2>3
<1>6. ASSUME NEW a \in Socks, NEW b \in Socks, Behind(s, a, b)
      PROVE  Behind(t, a, b)
  BY <1>1, <1>2, <1>6 DEF Behind
<1>7. ASSUME NEW a \in Socks, NEW b \in Socks, Behind(t, a, b), b # e
      PROVE  Behind(s, a, b)
  BY <1>1, <1>2, <1>7 DEF Behind
<1> QED BY <1>1, <1>4, <1>5, <1>6, <1>7 DEF t

(* One at position p is taken out. *)
LEMMA TakenOut ==
    ASSUME NEW s \in Seq(Socks), Distinct(s), NEW p \in 1 .. Len(s)
    PROVE  /\ RemoveAt(s, p) \in Seq(Socks)
           /\ Distinct(RemoveAt(s, p))
           /\ ToSet(RemoveAt(s, p)) = ToSet(s) \ {s[p]}
           /\ \A a, b \in Socks \ {s[p]} :
                 Behind(RemoveAt(s, p), a, b) <=> Behind(s, a, b)
<1> DEFINE a == SubSeq(s, 1, p - 1)
           b == SubSeq(s, p + 1, Len(s))
           t == a \o b
<1>1. Len(s) \in Nat BY LenProperties
<1>2. \A i \in 1 .. Len(s) : s[i] \in Socks BY ElementOfSeq
<1>3. /\ a \in Seq(Socks) /\ Len(a) = p - 1
      /\ \A i \in 1 .. p - 1 : a[i] = s[i]
  <2>1. 1 \in Int /\ p - 1 \in Int /\ \A i \in 1 .. p - 1 : s[i] \in Socks
    BY <1>1, <1>2
  <2>2. /\ a \in Seq(Socks)
        /\ Len(a) = IF 1 <= p - 1 THEN (p - 1) - 1 + 1 ELSE 0
        /\ \A i \in 1 .. (p - 1) - 1 + 1 : a[i] = s[1 + i - 1]
    BY <2>1, SubSeqProperties
  <2> HIDE DEF a
  <2> QED BY <1>1, <2>2
<1>4. /\ b \in Seq(Socks) /\ Len(b) = Len(s) - p
      /\ \A i \in 1 .. Len(s) - p : b[i] = s[p + i]
  <2>1. p + 1 \in Int /\ Len(s) \in Int /\ \A i \in p + 1 .. Len(s) : s[i] \in Socks
    BY <1>1, <1>2
  <2>2. /\ b \in Seq(Socks)
        /\ Len(b) = IF p + 1 <= Len(s) THEN Len(s) - (p + 1) + 1 ELSE 0
        /\ \A i \in 1 .. Len(s) - (p + 1) + 1 : b[i] = s[(p + 1) + i - 1]
    BY <2>1, SubSeqProperties
  <2> HIDE DEF b
  <2> QED BY <1>1, <2>2
<1> HIDE DEF a, b
<1>5. /\ t \in Seq(Socks) /\ Len(t) = Len(a) + Len(b)
      /\ \A i \in 1 .. Len(a) + Len(b) :
            t[i] = IF i <= Len(a) THEN a[i] ELSE b[i - Len(a)]
  BY <1>3, <1>4, ConcatProperties
<1> HIDE DEF t
<1>6. /\ Len(t) = Len(s) - 1
      /\ \A i \in 1 .. Len(t) : t[i] = IF i < p THEN s[i] ELSE s[i + 1]
      /\ DOMAIN t = 1 .. Len(t) /\ DOMAIN s = 1 .. Len(s)
  BY <1>1, <1>3, <1>4, <1>5, LenProperties
<1>7. \A i \in 1 .. Len(s) : i # p => s[i] # s[p] BY DEF Distinct
<1>8. ASSUME NEW i \in 1 .. Len(s), i # p
      PROVE  \E k \in 1 .. Len(t) :
                t[k] = s[i] /\ k = IF i < p THEN i ELSE i - 1
  <2>1. CASE i < p BY <1>1, <1>6, <2>1
  <2>2. CASE i > p
    <3>1. i - 1 \in 1 .. Len(t) /\ t[i - 1] = s[(i - 1) + 1]
      BY <1>1, <1>6, <2>2
    <3> QED BY <1>1, <2>2, <3>1
  <2> QED BY <1>8, <2>1, <2>2
<1>9. Distinct(t)
  <2> SUFFICES ASSUME NEW i \in 1 .. Len(t), NEW j \in 1 .. Len(t), t[i] = t[j]
               PROVE  i = j
    BY DEF Distinct
  <2> QED BY <1>1, <1>6 DEF Distinct
<1>10. ToSet(t) = ToSet(s) \ {s[p]}
  <2>1. ASSUME NEW i \in 1 .. Len(t) PROVE t[i] \in ToSet(s) \ {s[p]}
    BY <1>1, <1>6, <1>7 DEF ToSet
  <2>2. ASSUME NEW i \in 1 .. Len(s), i # p PROVE s[i] \in ToSet(t)
    BY <1>6, <1>8, <2>2 DEF ToSet
  <2>3. ASSUME NEW x \in ToSet(s), x # s[p] PROVE x \in ToSet(t)
    BY <1>6, <2>2, <2>3 DEF ToSet
  <2>4. ASSUME NEW x \in ToSet(t) PROVE x \in ToSet(s) \ {s[p]}
    BY <1>6, <2>1, <2>4 DEF ToSet
  <2> QED BY <2>3, <2>4
<1>11. ASSUME NEW x \in Socks \ {s[p]}, NEW y \in Socks \ {s[p]}
       PROVE  Behind(t, x, y) <=> Behind(s, x, y)
  <2>1. ASSUME Behind(t, x, y) PROVE Behind(s, x, y)
    BY <1>1, <1>6, <2>1 DEF Behind
  <2>2. ASSUME Behind(s, x, y) PROVE Behind(t, x, y)
    <3>1. PICK i \in 1 .. Len(s), j \in 1 .. Len(s) :
             i <= j /\ s[i] = x /\ s[j] = y
      BY <2>2 DEF Behind
    <3>2. i # p /\ j # p BY <3>1
    <3>3. PICK k \in 1 .. Len(t) : t[k] = x /\ k = IF i < p THEN i ELSE i - 1
      BY <1>8, <3>1, <3>2
    <3>4. PICK m \in 1 .. Len(t) : t[m] = y /\ m = IF j < p THEN j ELSE j - 1
      BY <1>8, <3>1, <3>2
    <3>5. k <= m BY <1>1, <3>1, <3>2, <3>3, <3>4
    <3> QED BY <3>3, <3>4, <3>5 DEF Behind
  <2> QED BY <2>1, <2>2
<1> QED BY <1>5, <1>9, <1>10, <1>11 DEF t, a, b, RemoveAt

-----------------------------------------------------------------------------
(* The registrations. *)

(* c-ares is not at work. *)
AresRests == pc \in {"loop", "serve", "callback"}

(* Each number is that of one socket, active or not, and open, except that *)
(* the socket in the slot may hold a number that c-ares closed.            *)
NumbersOwned ==
    /\ slot \notin fallback
    /\ \A s \in Socks \ Live : fd[s] = 0
    /\ \A s \in Live \ {slot} : fd[s] # 0 => fd[s] \in opened \ {aresFd}
    /\ \A s, t \in Live \ {slot} : fd[s] # 0 /\ fd[s] = fd[t] => s = t
    /\ aresFd # 0 => aresWants \in Directed
    /\ reused \subseteq opened

(* That is put right before anything else runs. *)
SlotAgrees ==
    AresRests =>
        /\ slot = NoSock => aresFd = 0
        /\ slot # NoSock => fd[slot] = aresFd /\ wants[slot] = aresWants

SlotStale ==
    slot # NoSock /\ fd[slot] # aresFd /\ fd[slot] \in opened =>
        fd[slot] \in reused

Registered ==
    engine # "select" =>
        \A s \in active :
            (fd[s] \notin reused /\ (s = slot => fd[s] = aresFd)) =>
                interest[fd[s]] = Asked(s, wants[s])

(* What is reported for a number is the socket that has it. *)
OwnerReported ==
    engine # "select" =>
        \A f \in Fds, d \in Directions :
            interest[f][d] # NoSock =>
                /\ interest[f][d] \in active
                /\ fd[interest[f][d]] = f
                /\ interest[f][d] = slot => aresFd = f

(* kevent removes nothing of a socket that is not registered for reading:  *)
(* one that may fall back is, if it is at all.                             *)
Removable ==
    engine # "select" =>
        \A s \in fallback :
            interest[fd[s]]["r"] = NoSock => interest[fd[s]]["w"] = NoSock

RegistrationInv ==
    /\ NumbersOwned
    /\ SlotAgrees
    /\ SlotStale
    /\ Registered
    /\ OwnerReported
    /\ Removable

LEMMA InitType == Init => TypeOK
<1> SUFFICES ASSUME Init PROVE TypeOK OBVIOUS
<1> USE DEF Init
<1>1. list \in Seq(Socks) /\ Len(list) = 0 /\ Live = {}
  BY EmptySeq DEF Live, ToSet
<1>2. interest \in [Fds -> [Directions -> Socks \cup {NoSock}]]
  BY DEF Nothing
<1>3. bits \in [Directions -> SUBSET Fds] BY DEF NoBits
<1>4. fd \in [Socks -> Fds \cup {0}] /\ wants \in [Socks -> SUBSET Directions]
  OBVIOUS
<1>5. \A s \in Socks : s \in Live <=> wants[s] # {} BY <1>1
<1>6. pending \subseteq Fds \X Directions
      /\ closed \subseteq ({"next"} \X Socks) \cup ({"fd"} \X Fds)
  OBVIOUS
<1> HIDE DEF Init
<1>7. /\ engine \in {"epoll", "kevent", "select"}
      /\ active = {} /\ slot = NoSock /\ aresFd = 0 /\ aresWants = {}
      /\ opened = {} /\ cursor = NoSock /\ pc = "loop" /\ back = "loop"
      /\ signal = FALSE /\ reused = {} /\ fallback = {}
  BY DEF Init
<1>8. \A i, j \in 1 .. Len(list) : list[i] = list[j] => i = j BY <1>1
<1>9. /\ active \subseteq Live /\ fallback \subseteq active /\ slot \in active \cup {NoSock}
      /\ \A s \in active : fd[s] # 0
      /\ aresFd \in opened \cup {0} /\ aresWants \subseteq Directions
      /\ opened \subseteq Fds /\ cursor \in Socks \cup {NoSock}
      /\ signal \in BOOLEAN /\ reused \subseteq Fds
  BY <1>7
<1> QED BY <1>1, <1>2, <1>3, <1>4, <1>5, <1>6, <1>7, <1>8, <1>9 DEF TypeOK

LEMMA InitRegistration == Init => RegistrationInv
<1> SUFFICES ASSUME Init PROVE RegistrationInv OBVIOUS
<1> USE DEF Init
<1>1. NumbersOwned
  <2>1. Live = {} BY EmptySeq DEF Live, ToSet
  <2> QED BY <2>1 DEF NumbersOwned
<1>2. SlotAgrees /\ SlotStale BY DEF SlotAgrees, SlotStale
<1>3. Registered BY DEF Registered
<1>4. OwnerReported BY DEF OwnerReported, Nothing
<1>5. Removable BY DEF Removable
<1> QED BY <1>1, <1>2, <1>3, <1>4, <1>5 DEF RegistrationInv

(* What the functions of the engines do to the entry of a number. *)
Entries == [Directions -> Socks \cup {NoSock}]

LEMMA Table ==
    ASSUME TypeOK, NEW f \in Fds, NEW s \in Socks, NEW w \in SUBSET Directions
    PROVE  /\ EngineAdd(interest, f, s, w) \in [Fds -> Entries]
           /\ EngineUpdate(interest, f, s, w) \in [Fds -> Entries]
           /\ EngineRemove(interest, f) \in [Fds -> Entries]
           /\ Closed(interest, f) \in [Fds -> Entries]
           /\ Closed(interest, f)[f] = Nothing
           /\ Asked(s, w) \in Entries
           /\ \A g \in Fds \ {f} :
                 /\ EngineAdd(interest, f, s, w)[g] = interest[g]
                 /\ EngineUpdate(interest, f, s, w)[g] = interest[g]
                 /\ EngineRemove(interest, f)[g] = interest[g]
                 /\ Closed(interest, f)[g] = interest[g]
<1>1. interest \in [Fds -> Entries] /\ Nothing \in Entries /\ Asked(s, w) \in Entries
  BY DEF TypeOK, Entries, Nothing, Asked
<1>2. [d \in Directions |-> IF d \in w THEN s ELSE interest[f][d]] \in Entries
  BY <1>1 DEF Entries
<1>3. engine \in {"epoll", "kevent", "select"} BY DEF TypeOK
<1> HIDE DEF Entries
<1>4. /\ EngineAdd(interest, f, s, w) \in [Fds -> Entries]
      /\ \A g \in Fds \ {f} : EngineAdd(interest, f, s, w)[g] = interest[g]
  BY <1>1, <1>2, <1>3 DEF EngineAdd
<1>5. /\ EngineUpdate(interest, f, s, w) \in [Fds -> Entries]
      /\ \A g \in Fds \ {f} : EngineUpdate(interest, f, s, w)[g] = interest[g]
  BY <1>1, <1>3 DEF EngineUpdate
<1>6. /\ EngineRemove(interest, f) \in [Fds -> Entries]
      /\ \A g \in Fds \ {f} : EngineRemove(interest, f)[g] = interest[g]
  BY <1>1, <1>3 DEF EngineRemove
<1>7. /\ Closed(interest, f) \in [Fds -> Entries]
      /\ Closed(interest, f)[f] = Nothing
      /\ \A g \in Fds \ {f} : Closed(interest, f)[g] = interest[g]
  BY <1>1 DEF Closed
<1> QED BY <1>1, <1>4, <1>5, <1>6, <1>7

LEMMA ClosedTable ==
    ASSUME TypeOK, NEW f \in Fds
    PROVE  /\ Closed(interest, f) \in [Fds -> Entries]
           /\ Closed(interest, f)[f] = Nothing
           /\ \A g \in Fds \ {f} : Closed(interest, f)[g] = interest[g]
<1>1. interest \in [Fds -> Entries] /\ Nothing \in Entries
  BY DEF TypeOK, Entries, Nothing
<1> QED BY <1>1 DEF Closed

(* A number of which nothing is reported gets its entry. *)
LEMMA Added ==
    ASSUME TypeOK, engine # "select",
           NEW f \in Fds, NEW s \in Socks, NEW w \in SUBSET Directions,
           \A d \in Directions : interest[f][d] = NoSock
    PROVE  EngineAdd(interest, f, s, w)[f] = Asked(s, w)
<1>1. interest \in [Fds -> Entries] BY DEF TypeOK, Entries
<1>2. interest[f] = Nothing BY <1>1 DEF Entries, Nothing
<1>3. CASE engine = "epoll" BY <1>1, <1>2, <1>3 DEF EngineAdd
<1>4. CASE engine = "kevent"
  <2>1. [d \in Directions |-> IF d \in w THEN s ELSE interest[f][d]] = Asked(s, w)
    BY DEF Asked
  <2> QED BY <1>1, <1>4, <2>1 DEF EngineAdd
<1> QED BY <1>3, <1>4 DEF TypeOK

(* An entry of the socket itself is brought up to date. *)
LEMMA Updated ==
    ASSUME TypeOK, engine # "select",
           NEW f \in Fds, NEW s \in Socks, NEW v \in SUBSET Directions,
           NEW w \in SUBSET Directions, v # {}, w # {},
           interest[f] = Asked(s, v)
    PROVE  EngineUpdate(interest, f, s, w)[f] = Asked(s, w)
<1>1. interest \in [Fds -> Entries] BY DEF TypeOK, Entries
<1>2. s # NoSock BY DEF Socks, NoSock
<1>3. interest[f] # Nothing
  <2>1. PICK d \in v : TRUE OBVIOUS
  <2>2. Asked(s, v)[d] = s /\ Nothing[d] = NoSock BY <2>1 DEF Asked, Nothing
  <2> QED BY <1>2, <2>2
<1>4. CASE engine = "epoll" BY <1>1, <1>3, <1>4 DEF EngineUpdate
<1>5. CASE engine = "kevent"
  <2>1. CASE "r" \notin w /\ interest[f]["r"] = NoSock
    <3>1. "r" \notin v BY <1>2, <2>1 DEF Asked, Directions
    <3>2. v = {"w"} /\ w = {"w"} BY <2>1, <3>1 DEF Directions
    <3> QED BY <1>5, <2>1, <3>2 DEF EngineUpdate
  <2>2. CASE ~ ("r" \notin w /\ interest[f]["r"] = NoSock)
    BY <1>1, <1>5, <2>2 DEF EngineUpdate
  <2> QED BY <2>1, <2>2
<1> QED BY <1>4, <1>5 DEF TypeOK

(* Whatever update and remove leave was there, or is the socket's. *)
LEMMA Reported ==
    ASSUME TypeOK, NEW f \in Fds, NEW s \in Socks, NEW w \in SUBSET Directions,
           NEW d \in Directions
    PROVE  /\ EngineAdd(interest, f, s, w)[f][d] \in {interest[f][d], s, NoSock}
           /\ EngineUpdate(interest, f, s, w)[f][d] \in {interest[f][d], s, NoSock}
           /\ EngineRemove(interest, f)[f][d] \in {interest[f][d], NoSock}
<1>1. interest \in [Fds -> Entries] BY DEF TypeOK, Entries
<1>2. Asked(s, w)[d] \in {s, NoSock} /\ Nothing[d] = NoSock BY DEF Asked, Nothing
<1>3. engine \in {"epoll", "kevent", "select"} BY DEF TypeOK
<1>4. EngineAdd(interest, f, s, w)[f][d] \in {interest[f][d], s, NoSock}
  BY <1>1, <1>2, <1>3 DEF EngineAdd
<1>5. EngineUpdate(interest, f, s, w)[f][d] \in {interest[f][d], s, NoSock}
  BY <1>1, <1>2, <1>3 DEF EngineUpdate
<1>6. EngineRemove(interest, f)[f][d] \in {interest[f][d], NoSock}
  BY <1>1, <1>2, <1>3 DEF EngineRemove
<1> QED BY <1>4, <1>5, <1>6

(* A socket is removed under one number and added under another. *)
LEMMA Moved ==
    ASSUME TypeOK, NEW g \in Fds, NEW f \in Fds \ {g}, NEW s \in Socks,
           NEW w \in SUBSET Directions
    PROVE  /\ EngineAdd(EngineRemove(interest, g), f, s, w) \in [Fds -> Entries]
           /\ EngineAdd(EngineRemove(interest, g), f, s, w)[f]
                 = EngineAdd(interest, f, s, w)[f]
           /\ \A h \in Fds \ {f} :
                 EngineAdd(EngineRemove(interest, g), f, s, w)[h]
                    = EngineRemove(interest, g)[h]
<1> DEFINE k == EngineRemove(interest, g)
<1>1. k \in [Fds -> Entries] /\ k[f] = interest[f] BY Table
<1>2. interest \in [Fds -> Entries] /\ Asked(s, w) \in Entries
  BY DEF TypeOK, Entries, Asked
<1>3. [d \in Directions |-> IF d \in w THEN s ELSE k[f][d]] \in Entries
  BY <1>1, <1>2 DEF Entries
<1>4. engine \in {"epoll", "kevent", "select"} BY DEF TypeOK
<1> HIDE DEF k, Entries
<1>5. /\ EngineAdd(k, f, s, w) \in [Fds -> Entries]
      /\ EngineAdd(k, f, s, w)[f] = EngineAdd(interest, f, s, w)[f]
      /\ \A h \in Fds \ {f} : EngineAdd(k, f, s, w)[h] = k[h]
  BY <1>1, <1>2, <1>3, <1>4 DEF EngineAdd
<1> QED BY <1>5 DEF k

-----------------------------------------------------------------------------
(* The steps. *)

LEMMA PositionOf ==
    ASSUME TypeOK, NEW s \in Live
    PROVE  Position(s) \in 1 .. Len(list) /\ list[Position(s)] = s
<1>1. \E i \in 1 .. Len(list) : list[i] = s
  BY LenProperties DEF TypeOK, Live, ToSet
<1> QED BY <1>1 DEF Position

LEMMA Linked ==
    ASSUME TypeOK
    PROVE  /\ list \in Seq(Socks) /\ Distinct(list)
           /\ Live \subseteq Socks /\ NoSock \notin Socks
           /\ active \subseteq Live
<1>1. list \in Seq(Socks) /\ Distinct(list) BY DEF TypeOK, Distinct
<1>2. \A i \in 1 .. Len(list) : list[i] \in Socks BY <1>1, ElementOfSeq
<1>3. Live \subseteq Socks BY <1>1, <1>2, LenProperties DEF Live, ToSet
<1> QED BY <1>1, <1>3 DEF TypeOK, Socks, NoSock

LEMMA ActiveTyped ==
    ASSUME TypeOK, NEW s \in active
    PROVE  /\ s \in Socks /\ s \in Live
           /\ fd[s] \in Fds /\ fd[s] # 0
           /\ wants[s] \in SUBSET Directions /\ wants[s] # {}
<1>1. s \in Socks /\ s \in Live BY Linked
<1> QED BY <1>1 DEF TypeOK

LEMMA TakenOff ==
    ASSUME TypeOK, NEW s \in Live
    PROVE  /\ Unlinked(s) \in Seq(Socks) /\ Distinct(Unlinked(s))
           /\ ToSet(Unlinked(s)) = Live \ {s}
           /\ \A a, b \in Socks \ {s} :
                 Behind(Unlinked(s), a, b) <=> Behind(list, a, b)
<1>1. list \in Seq(Socks) /\ Distinct(list) BY Linked
<1>2. Position(s) \in 1 .. Len(list) /\ list[Position(s)] = s BY PositionOf
<1> QED BY <1>1, <1>2, TakenOut DEF Unlinked, Live

(* What the loops of the engines do, between two calls, unless a socket    *)
(* falls back.                                                             *)
Serving ==
    /\ UNCHANGED <<engine, list, active, fd, wants, ares, system, reused>>
    /\ fallback' \subseteq fallback
    /\ AresRests' => AresRests
    /\ pc \in {"loop", "serve", "callback", "ares"}

(* The event is not that of a refused connection. *)
Stays ==
    /\ UNCHANGED <<active, fd, system, closed, reused>>
    /\ fallback' \subseteq fallback

LoopSteps ==
    \/ \E R \in SUBSET (Fds \X Directions) : Wait(R) \/ Select(R)
    \/ SelectInterrupted
    \/ (ServeNext /\ Stays) \/ (Walk /\ Stays) \/ WalkStrays \/ RoundEnds
    \/ CallbackReturns \/ AresReturns \/ CallAres

LEMMA LoopServes == LoopSteps => Serving
<1> USE DEF Serving, AresRests, round, walk, sockets, ares, system, Stays
<1>1. ASSUME NEW R \in SUBSET (Fds \X Directions), Wait(R) PROVE Serving
  BY <1>1 DEF Wait
<1>2. ASSUME NEW R \in SUBSET (Fds \X Directions), Select(R) PROVE Serving
  BY <1>2 DEF Select
<1>3. SelectInterrupted => Serving BY DEF SelectInterrupted
<1>4. ServeNext /\ Stays => Serving BY DEF ServeNext
<1>5. Walk /\ Stays => Serving BY DEF Walk
<1>6. WalkStrays => Serving BY DEF WalkStrays
<1>7. RoundEnds => Serving BY DEF RoundEnds
<1>8. CallbackReturns => Serving BY DEF CallbackReturns
<1>9. AresReturns => Serving BY DEF AresReturns
<1>10. CallAres => Serving BY DEF CallAres
<1> QED BY <1>1, <1>2, <1>3, <1>4, <1>5, <1>6, <1>7, <1>8, <1>9, <1>10 DEF LoopSteps

(* A connection over IPv6 was refused. *)
Retreat(s) ==
    /\ s \in fallback /\ pc = "serve"
    /\ FallBack(s)
    /\ UNCHANGED <<engine, list, wants, ares, signal>>

RefusedStep == (ServeNext \/ Walk) /\ \E s \in fallback : Retreat(s)

(* What a visit of s may change of the sockets. *)
LEMMA ServeNextSplit ==
    ASSUME ServeNext
    PROVE  /\ Stays \/ (Head(batch).sock \in Live /\ Retreat(Head(batch).sock))
           /\ UNCHANGED <<engine, list, wants, ares, bits, cursor, signal>>
           /\ \/ /\ Head(batch).sock \in Live
                 /\ pending' = pending \ ({Head(batch).from} \X Head(batch).ev)
                 /\ \/ pc' = "ares" /\ back' = "serve"
                    \/ pc' \in {"callback", "serve"} /\ UNCHANGED back
              \/ /\ Head(batch).sock \notin Live
                 /\ pc' \in {"serve", "crashed"}
                 /\ UNCHANGED <<pending, back>>
<1> DEFINE e == Head(batch)
<1>1. /\ pc = "serve" /\ UNCHANGED <<engine, list, wants, ares, bits, cursor, signal>>
      /\ \/ Serve(e)
         \/ /\ e.sock \notin Live /\ pc' \in {"serve", "crashed"}
            /\ UNCHANGED <<active, fd, fallback, system, pending, closed, back, reused>>
  BY DEF ServeNext
<1> HIDE DEF e
<1>2. CASE Serve(e) /\ Refused(e) /\ FallBack(e.sock)
  BY <1>1, <1>2 DEF Serve, Refused, Retreat, FallBack, e
<1>3. CASE Serve(e) /\ ~ Refused(e) /\ Enter(e.sock)
  BY <1>1, <1>3 DEF Serve, Enter, Stays, e
<1>4. CASE ~ Serve(e) BY <1>1, <1>4 DEF Stays, e
<1> QED BY <1>2, <1>3, <1>4 DEF Serve

LEMMA WalkSplit ==
    ASSUME Walk, TypeOK
    PROVE  /\ Stays \/ Retreat(cursor)
           /\ UNCHANGED <<engine, list, wants, ares, batch, bits, signal>>
           /\ \/ pending' = pending \ ({EventOf(cursor).from} \X EventOf(cursor).ev)
              \/ pending' = pending /\ EventOf(cursor).ev = {}
           /\ \/ pc' = "ares" /\ back' = "serve"
              \/ pc' \in {"callback", "serve"} /\ UNCHANGED back
<1> DEFINE e == EventOf(cursor)
<1>1. /\ pc = "serve" /\ UNCHANGED <<engine, list, wants, ares, batch, bits, signal>>
      /\ e.sock = cursor
      /\ \/ Serve(e)
         \/ /\ e.ev = {}
            /\ UNCHANGED <<active, fd, fallback, system, pending, closed, pc, back, reused>>
  BY DEF Walk, EventOf
<1> HIDE DEF e
<1>2. CASE Serve(e) /\ Refused(e) /\ FallBack(e.sock)
  BY <1>1, <1>2 DEF Serve, Refused, Retreat, FallBack, e
<1>3. CASE Serve(e) /\ ~ Refused(e) /\ Enter(e.sock)
  BY <1>1, <1>3 DEF Serve, Enter, Stays, e
<1>4. CASE ~ Serve(e) BY <1>1, <1>4 DEF Stays, e
<1> QED BY <1>2, <1>3, <1>4 DEF Serve

(* The steps that change what is registered. *)
UnregisterStep ==
    /\ pc = "update" /\ Unregister
    /\ UNCHANGED <<engine, fallback, aresFd, aresWants, opened, walk, pending,
                   signal, reused>>

RegisterStep ==
    /\ pc = "update" /\ Register
    /\ UNCHANGED <<engine, fallback, aresFd, aresWants, opened, walk, pending,
                   signal, reused>>

RenewStep ==
    /\ pc = "update" /\ Renew
    /\ UNCHANGED <<engine, fallback, aresFd, aresWants, opened, walk, pending,
                   signal, reused>>

LEMMA Steps ==
    ASSUME TypeOK, Next
    PROVE  \/ LoopSteps
           \/ RefusedStep
           \/ \E s \in Socks : Create(s)
           \/ \E s \in Socks, f \in Fds, w \in Directed, again \in BOOLEAN :
                 Activate(s, f, w, again)
           \/ \E s \in Socks, w \in {{"r"}, {"w"}, {"r", "w"}} : Want(s, w)
           \/ \E s \in Socks : Close(s)
           \/ \E f \in Fds, w \in Directed : AresOpens(f, w)
           \/ AresCloses
           \/ \E w \in Directed : AresWants(w)
           \/ UnregisterStep \/ RegisterStep \/ RenewStep
<1>1. ServeNext \/ Walk => LoopSteps \/ RefusedStep
  BY ServeNextSplit, WalkSplit DEF LoopSteps, RefusedStep, Retreat
<1>2. CASE Loop
  BY <1>1, <1>2 DEF Loop, LoopSteps, UpdateSockets, UnregisterStep, RegisterStep,
                    RenewStep
<1>3. CASE Sockets BY <1>3 DEF Sockets
<1>4. CASE Ares BY <1>4 DEF Ares, LoopSteps
<1> QED BY <1>2, <1>3, <1>4 DEF Next

(* Types. *)
LEMMA TypeSame ==
    ASSUME TypeOK, UNCHANGED <<engine, list, active, fd, wants, ares, system, reused>>,
           fallback' \subseteq fallback,
           pending' \subseteq Fds \X Directions,
           bits' \in [Directions -> SUBSET Fds],
           cursor' \in Socks \cup {NoSock},
           pc' \in {"loop", "serve", "callback", "ares", "update", "crashed"},
           back' \in {"loop", "serve"},
           closed' \in {closed, {}}, signal' \in BOOLEAN
    PROVE  TypeOK'
<1>1. Live' = Live BY DEF Live
<1>2. closed' \subseteq ({"next"} \X Socks) \cup ({"fd"} \X Fds) BY DEF TypeOK
<1> QED BY <1>1, <1>2 DEF TypeOK, ares, system

LEMMA LoopTypes ==
    ASSUME TypeOK, LoopSteps PROVE TypeOK'
<1>1. /\ list \in Seq(Socks) /\ Live \subseteq Socks /\ active \subseteq Live
      /\ \A i \in 1 .. Len(list) : list[i] \in Socks
      /\ Len(list) \in Nat
      /\ NoBits \in [Directions -> SUBSET Fds]
      /\ active # {} => list[1] \in Socks
  <2>1. /\ list \in Seq(Socks) /\ Live \subseteq Socks /\ active \subseteq Live
    BY Linked
  <2>2. \A i \in 1 .. Len(list) : list[i] \in Socks BY <2>1, ElementOfSeq
  <2>3. DOMAIN list = 1 .. Len(list) /\ Len(list) \in Nat BY <2>1, LenProperties
  <2>4. active # {} => list[1] \in Socks BY <2>1, <2>2, <2>3 DEF Live, ToSet
  <2> QED BY <2>1, <2>2, <2>3, <2>4 DEF NoBits
<1>2. ASSUME NEW R \in SUBSET (Fds \X Directions)
      PROVE  BitsOf(R) \in [Directions -> SUBSET Fds]
  BY DEF BitsOf
<1>3. Reportable \in SUBSET (Fds \X Directions) BY DEF Reportable
<1> USE DEF round, walk, sockets
<1>4. ASSUME NEW R \in SUBSET (Fds \X Directions), Wait(R) PROVE TypeOK'
  BY <1>4, TypeSame DEF Wait, TypeOK
<1>5. ASSUME NEW R \in SUBSET (Fds \X Directions), Select(R) PROVE TypeOK'
  <2>1. active # {} BY <1>5 DEF Select, Reportable
  <2> QED BY <1>1, <1>2, <1>5, <2>1, TypeSame DEF Select, TypeOK
<1>6. ASSUME SelectInterrupted PROVE TypeOK'
  BY <1>1, <1>2, <1>3, <1>6, TypeSame DEF SelectInterrupted, TypeOK
<1>7. ASSUME ServeNext, Stays PROVE TypeOK'
  <2>1. UNCHANGED <<engine, list, wants, ares, bits, cursor, signal>>
        /\ pending' \subseteq pending /\ back' \in {"serve", back}
        /\ pc' \in {"serve", "crashed", "callback", "ares"}
    BY <1>7, ServeNextSplit
  <2> QED BY <1>7, <2>1, TypeSame DEF Stays, TypeOK
<1>8. ASSUME Walk, Stays PROVE TypeOK'
  <2>1. NextOf(cursor) \in Socks \cup {NoSock}
    BY <1>1, <1>8, PositionOf DEF NextOf, Walk
  <2>2. UNCHANGED <<engine, list, wants, ares, bits, signal>>
        /\ pending' \subseteq pending /\ back' \in {"serve", back}
        /\ pc' \in {"serve", "callback", "ares"}
    BY <1>8, WalkSplit
  <2> QED BY <1>8, <2>1, <2>2, TypeSame DEF Walk, Stays, TypeOK
<1>9. ASSUME WalkStrays \/ RoundEnds PROVE TypeOK'
  BY <1>1, <1>9, TypeSame DEF WalkStrays, RoundEnds, TypeOK
<1>10. ASSUME CallbackReturns \/ AresReturns \/ CallAres PROVE TypeOK'
  BY <1>10, TypeSame DEF CallbackReturns, AresReturns, CallAres, TypeOK
<1> QED BY <1>4, <1>5, <1>6, <1>7, <1>8, <1>9, <1>10 DEF LoopSteps

LEMMA ListTypes ==
    ASSUME TypeOK
    PROVE  /\ \A s \in Lowest(Socks, Live) :
                 /\ s \in Socks \ Live
                 /\ list' = Append(list, s) =>
                       /\ list' \in Seq(Socks) /\ Distinct(list')
                       /\ Live' = Live \cup {s}
           /\ \A s \in Live :
                 list' = Unlinked(s) =>
                       /\ list' \in Seq(Socks) /\ Distinct(list')
                       /\ Live' = Live \ {s}
           /\ list' = list => Live' = Live /\ Distinct(list')
<1>1. list \in Seq(Socks) /\ Distinct(list) BY Linked
<1>2. ASSUME NEW s \in Lowest(Socks, Live)
      PROVE  /\ s \in Socks \ Live
             /\ list' = Append(list, s) =>
                   /\ list' \in Seq(Socks) /\ Distinct(list')
                   /\ Live' = Live \cup {s}
  <2>1. s \in Socks \ Live BY DEF Lowest
  <2>2. /\ Append(list, s) \in Seq(Socks) /\ Distinct(Append(list, s))
        /\ ToSet(Append(list, s)) = Live \cup {s}
    BY <1>1, <2>1, Appended DEF Live
  <2> QED BY <2>1, <2>2 DEF Live
<1>3. ASSUME NEW s \in Live, list' = Unlinked(s)
      PROVE  /\ list' \in Seq(Socks) /\ Distinct(list')
             /\ Live' = Live \ {s}
  BY <1>3, TakenOff DEF Live
<1> QED BY <1>1, <1>2, <1>3 DEF Live

LEMMA NotedTypes ==
    ASSUME TypeOK, NEW s \in Socks
    PROVE  /\ Noted(Forget(s)) \subseteq ({"next"} \X Socks) \cup ({"fd"} \X Fds)
           /\ \A f \in Fds :
                 /\ Noted(Forget(s) \cup {<<"fd", f>>})
                       \subseteq ({"next"} \X Socks) \cup ({"fd"} \X Fds)
                 /\ Noted({<<"fd", f>>})
                       \subseteq ({"next"} \X Socks) \cup ({"fd"} \X Fds)
<1>1. closed \subseteq ({"next"} \X Socks) \cup ({"fd"} \X Fds) BY DEF TypeOK
<1>2. Forget(s) \subseteq {"next"} \X Socks BY DEF Forget
<1>3. \A f \in Fds : {<<"fd", f>>} \subseteq {"fd"} \X Fds OBVIOUS
<1> QED BY <1>1, <1>2, <1>3 DEF Noted

LEMMA SocketTypes ==
    ASSUME TypeOK, NumbersOwned, NEW s \in Socks,
           \/ Create(s)
           \/ \E f \in Fds, w \in Directed, again \in BOOLEAN :
                 Activate(s, f, w, again)
           \/ \E w \in {{"r"}, {"w"}, {"r", "w"}} : Want(s, w)
           \/ Close(s)
    PROVE  TypeOK'
<1> USE DEF ares, system, round, walk
<1>1. active \subseteq Live /\ Live \subseteq Socks BY Linked
<1>2. interest \in [Fds -> Entries] BY DEF TypeOK, Entries
<1>3. CASE Create(s)
  <2>1. /\ s \in Socks \ Live
        /\ list' \in Seq(Socks) /\ Distinct(list') /\ Live' = Live \cup {s}
    BY <1>3, ListTypes DEF Create
  <2>2. {"r"} \subseteq Directions /\ {"r"} # {} BY DEF Directions
  <2> QED BY <1>1, <1>3, <2>1, <2>2 DEF Create, TypeOK, Distinct
<1>4. ASSUME NEW f \in Fds, NEW w \in Directed, NEW again \in BOOLEAN,
             Activate(s, f, w, again)
      PROVE  TypeOK'
  <2>1. list' = list /\ Live' = Live /\ Distinct(list') BY <1>4, ListTypes DEF Activate
  <2>2. f \notin opened BY <1>4 DEF Activate, Opens, Lowest
  <2>3. w \in SUBSET Directions /\ w # {} /\ s \in Live
    BY <1>4 DEF Activate, Directed, Directions
  <2>4. interest' \in [Fds -> Entries] BY <1>4, <2>3, Table DEF Activate
  <2>5. f # 0 BY DEF Fds
  <2>6. opened' = opened \cup {f} /\ reused' \subseteq Fds
    BY <1>4 DEF Activate, Opens, TypeOK
  <2>7. fallback' \subseteq active' BY <1>4 DEF Activate, TypeOK
  <2> QED BY <1>1, <1>4, <2>1, <2>3, <2>4, <2>5, <2>6, <2>7
          DEF Activate, TypeOK, Distinct, Entries
<1>5. ASSUME NEW w \in {{"r"}, {"w"}, {"r", "w"}}, Want(s, w) PROVE TypeOK'
  <2>1. list' = list /\ Live' = Live /\ Distinct(list') BY <1>5, ListTypes DEF Want
  <2>2. w \in SUBSET Directions /\ w # {} BY DEF Directions
  <2>3. fd[s] \in Fds BY <1>5 DEF Want, TypeOK
  <2>4. interest' \in [Fds -> Entries] BY <1>5, <2>2, <2>3, Table DEF Want
  <2> QED BY <1>1, <1>5, <2>1, <2>2, <2>4 DEF Want, TypeOK, Distinct, Entries
<1>6. CASE Close(s)
  <2>1. list' \in Seq(Socks) /\ Distinct(list') /\ Live' = Live \ {s}
    BY <1>6, ListTypes DEF Close
  <2>2. fd[s] # 0 => fd[s] \in Fds BY DEF TypeOK
  <2>3. interest' \in [Fds -> Entries]
    BY <1>2, <1>6, <2>2, Table DEF Close
  <2>4. closed' \subseteq ({"next"} \X Socks) \cup ({"fd"} \X Fds)
    <3>1. CASE fd[s] # 0
      <4>1. closed' = Noted(Forget(s) \cup {<<"fd", fd[s]>>})
        BY <1>6, <3>1 DEF Close
      <4> QED BY <2>2, <3>1, <4>1, NotedTypes
    <3>2. CASE fd[s] = 0
      <4>1. closed' = Noted(Forget(s)) BY <1>6, <3>2 DEF Close
      <4> QED BY <4>1, NotedTypes
    <3> QED BY <3>1, <3>2
  <2>5. /\ opened' \subseteq opened /\ aresFd \in opened' \cup {0}
        /\ reused' \subseteq reused
    BY <1>6 DEF Close, TypeOK, NumbersOwned
  <2>6. /\ \A t \in Socks : /\ wants'[t] = IF t = s THEN {} ELSE wants[t]
                            /\ fd'[t] = IF t = s THEN 0 ELSE fd[t]
        /\ wants' \in [Socks -> SUBSET Directions]
        /\ fd' \in [Socks -> Fds \cup {0}]
    BY <1>6 DEF Close, TypeOK
  <2>7. /\ active' = active \ {s} /\ s # slot /\ fallback' = fallback \ {s}
        /\ UNCHANGED <<engine, slot, aresFd, aresWants, pending, signal, pc, back,
                       bits, cursor>>
    BY <1>6 DEF Close
  <2> QED BY <1>1, <2>1, <2>3, <2>4, <2>5, <2>6, <2>7 DEF TypeOK, Distinct, Entries
<1> QED BY <1>3, <1>4, <1>5, <1>6

LEMMA AresTypes ==
    ASSUME TypeOK, NumbersOwned,
           \/ \E f \in Fds, w \in Directed : AresOpens(f, w)
           \/ AresCloses
           \/ \E w \in Directed : AresWants(w)
           \/ UnregisterStep \/ RegisterStep \/ RenewStep
    PROVE  TypeOK'
<1> USE DEF sockets, ares, system, round, walk
<1>1. active \subseteq Live /\ Live \subseteq Socks /\ NoSock \notin Socks BY Linked
<1>2. interest \in [Fds -> Entries] BY DEF TypeOK, Entries
<1>3. \A w \in Directed : w \in SUBSET Directions /\ w # {}
  BY DEF Directed, Directions
<1>4. ASSUME NEW f \in Fds, NEW w \in Directed, AresOpens(f, w) PROVE TypeOK'
  <2>1. list' = list /\ Live' = Live /\ Distinct(list') BY <1>4, ListTypes DEF AresOpens
  <2>2. opened' = opened \cup {f} /\ reused' \subseteq Fds
    BY <1>4 DEF AresOpens, Opens, TypeOK
  <2> QED BY <1>1, <1>3, <1>4, <2>1, <2>2 DEF AresOpens, TypeOK, Distinct
<1>5. CASE AresCloses
  <2>1. list' = list /\ Live' = Live /\ Distinct(list') BY <1>5, ListTypes DEF AresCloses
  <2>2. aresFd \in Fds BY <1>5 DEF AresCloses, TypeOK
  <2>3. interest' \in [Fds -> Entries] BY <1>2, <1>5, <2>2 DEF AresCloses, Closed, Nothing, Entries
  <2>4. closed' \subseteq ({"next"} \X Socks) \cup ({"fd"} \X Fds)
    BY <1>5, <2>2 DEF AresCloses, Noted, TypeOK
  <2> QED BY <1>1, <1>5, <2>1, <2>2, <2>3, <2>4 DEF AresCloses, TypeOK, Distinct, Entries
<1>6. ASSUME NEW w \in Directed, AresWants(w) PROVE TypeOK'
  <2>1. list' = list /\ Live' = Live /\ Distinct(list') BY <1>6, ListTypes DEF AresWants
  <2> QED BY <1>3, <1>6, <2>1 DEF AresWants, TypeOK, Distinct
<1>7. CASE UnregisterStep
  <2>1. slot \in active /\ fd[slot] \in Fds
    BY <1>7, ActiveTyped DEF UnregisterStep, Unregister, TypeOK
  <2>2. list' \in Seq(Socks) /\ Distinct(list') /\ Live' = Live \ {slot}
    BY <1>1, <1>7, <2>1, ListTypes DEF UnregisterStep, Unregister
  <2>3. interest' \in [Fds -> Entries]
    BY <1>1, <1>7, <2>1, Table DEF UnregisterStep, Unregister
  <2>4. closed' \subseteq ({"next"} \X Socks) \cup ({"fd"} \X Fds)
    BY <1>1, <1>7, <2>1, NotedTypes DEF UnregisterStep, Unregister
  <2>5. slot \notin fallback /\ fallback' = fallback
    BY <1>1, <1>7 DEF NumbersOwned, UnregisterStep
  <2>6. fallback' \subseteq active' BY <1>7, <2>5 DEF UnregisterStep, Unregister, TypeOK
  <2> QED BY <1>1, <1>7, <2>1, <2>2, <2>3, <2>4, <2>6
          DEF UnregisterStep, Unregister, TypeOK, Distinct, Entries
<1>8. CASE RegisterStep
  <2>1. PICK n \in Lowest(Socks, Live) :
           /\ slot' = n
           /\ list' = Append(list, n)
           /\ active' = active \cup {n}
           /\ fd' = [fd EXCEPT ![n] = aresFd]
           /\ wants' = [wants EXCEPT ![n] = aresWants]
           /\ interest' = EngineAdd(interest, aresFd, n, aresWants)
    BY <1>8 DEF RegisterStep, Register
  <2>2. /\ n \in Socks \ Live
        /\ list' \in Seq(Socks) /\ Distinct(list') /\ Live' = Live \cup {n}
    BY <2>1, ListTypes
  <2>3. aresFd \in Fds /\ aresFd # 0 /\ aresWants \in SUBSET Directions /\ aresWants # {}
    BY <1>3, <1>8 DEF RegisterStep, Register, TypeOK, NumbersOwned
  <2>4. interest' \in [Fds -> Entries] BY <2>1, <2>2, <2>3, Table
  <2> QED BY <1>1, <1>8, <2>1, <2>2, <2>3, <2>4
          DEF RegisterStep, Register, TypeOK, Distinct, Entries
<1>9. CASE RenewStep
  <2>1. list' = list /\ Live' = Live /\ Distinct(list')
    BY <1>9, ListTypes DEF RenewStep, Renew
  <2>2. CASE slot = NoSock \/ wants[slot] = aresWants
    BY <1>1, <1>9, <2>1, <2>2 DEF RenewStep, Renew, TypeOK, Distinct
  <2>3. CASE ~ (slot = NoSock \/ wants[slot] = aresWants)
    <3>1. slot \in active /\ aresFd = fd[slot] /\ aresFd \in Fds /\ aresFd # 0
      BY <1>9, <2>3, ActiveTyped DEF RenewStep, Renew, TypeOK
    <3>2. aresWants \in SUBSET Directions /\ aresWants # {}
      BY <1>3, <3>1 DEF NumbersOwned
    <3>3. interest' \in [Fds -> Entries]
      BY <1>1, <1>9, <2>3, <3>1, <3>2, Table DEF RenewStep, Renew
    <3>4. /\ wants' = [wants EXCEPT ![slot] = aresWants]
          /\ UNCHANGED <<engine, active, fd, fallback, slot, aresFd, aresWants,
                         opened, pending, signal, closed, bits, cursor, reused>>
          /\ pc' \in {"loop", "serve"} /\ back' = "loop"
      BY <1>9, <2>3 DEF RenewStep, Renew, TypeOK
    <3>5. /\ wants' \in [Socks -> SUBSET Directions]
          /\ \A t \in Socks : wants'[t] = {} <=> wants[t] = {}
      BY <1>1, <3>1, <3>2, <3>4, ActiveTyped DEF TypeOK
    <3> QED BY <1>1, <2>1, <3>3, <3>4, <3>5 DEF TypeOK, Distinct, Entries
  <2> QED BY <2>2, <2>3
<1> QED BY <1>4, <1>5, <1>6, <1>7, <1>8, <1>9

LEMMA Retreats ==
    ASSUME TypeOK, NumbersOwned, NEW s \in fallback, Retreat(s)
    PROVE  /\ s \in active /\ s \in Socks /\ s # slot
           /\ fd[s] \in Fds /\ fd[s] \in opened \ {aresFd}
           /\ UNCHANGED <<engine, list, wants, slot, aresFd, aresWants, signal,
                          pc, back>>
           /\ fallback' = fallback \ {s}
           /\ closed' = closed \cup {<<"fd", fd[s]>>}
           /\ \/ /\ UNCHANGED <<fd, opened, reused>>
                 /\ active' = active \ {s}
                 /\ interest' = EngineRemove(interest, fd[s])
              \/ \E f \in Fds \ opened :
                    /\ fd' = [fd EXCEPT ![s] = f]
                    /\ active' = active
                    /\ opened' = opened \cup {f}
                    /\ reused' = IF Forgotten(f) THEN reused \cup {f}
                                 ELSE reused \ {f}
                    /\ interest' =
                          EngineAdd(EngineRemove(interest, fd[s]), f, s, wants[s])
<1>1. /\ s \in active /\ s \in Socks /\ s \in Live /\ fd[s] \in Fds /\ fd[s] # 0
  BY ActiveTyped DEF TypeOK
<1>2. s # slot /\ fd[s] \in opened \ {aresFd} BY <1>1 DEF NumbersOwned
<1>3. UNCHANGED <<engine, list, wants, slot, aresFd, aresWants, signal, pc, back>>
      /\ fallback' = fallback \ {s}
      /\ closed' = closed \cup {<<"fd", fd[s]>>}
  BY DEF Retreat, FallBack, ares
<1>4. ASSUME NEW f \in Fds, Opens(f)
      PROVE  /\ f \in Fds \ opened /\ opened' = opened \cup {f}
             /\ reused' = IF Forgotten(f) THEN reused \cup {f} ELSE reused \ {f}
  BY <1>4 DEF Opens, Lowest
<1>5. \/ /\ UNCHANGED <<fd, opened, reused>>
         /\ active' = active \ {s}
         /\ interest' = EngineRemove(interest, fd[s])
      \/ \E f \in Fds :
            /\ Opens(f)
            /\ fd' = [fd EXCEPT ![s] = f]
            /\ active' = active
            /\ interest' = EngineAdd(EngineRemove(interest, fd[s]), f, s, wants[s])
  BY DEF Retreat, FallBack
<1> QED BY <1>1, <1>2, <1>3, <1>4, <1>5

LEMMA RefusedTypes ==
    ASSUME TypeOK, NumbersOwned, RefusedStep PROVE TypeOK'
<1>1. PICK s \in fallback : Retreat(s) BY DEF RefusedStep
<1>2. /\ s \in active /\ s \in Socks /\ s # slot /\ fd[s] \in Fds
      /\ UNCHANGED <<engine, list, wants, slot, aresFd, aresWants, signal, pc, back>>
      /\ fallback' = fallback \ {s}
      /\ closed' = closed \cup {<<"fd", fd[s]>>}
  BY <1>1, Retreats
<1>3. wants[s] \in SUBSET Directions /\ active \subseteq Live BY <1>2 DEF TypeOK
<1>4. /\ pending' \subseteq Fds \X Directions
      /\ bits' \in [Directions -> SUBSET Fds] /\ cursor' \in Socks \cup {NoSock}
  <2>1. CASE ServeNext
    <3>1. pending' \subseteq pending /\ bits' = bits /\ cursor' = cursor
      BY <2>1, ServeNextSplit
    <3> QED BY <3>1 DEF TypeOK
  <2>2. CASE Walk
    <3>1. cursor \in Live /\ Len(list) \in Nat
          /\ \A i \in 1 .. Len(list) : list[i] \in Socks
      BY <2>2, Linked, ElementOfSeq, LenProperties DEF Walk
    <3>2. NextOf(cursor) \in Socks \cup {NoSock} BY <3>1, PositionOf DEF NextOf
    <3>3. cursor' = NextOf(cursor) BY <2>2 DEF Walk
    <3>4. bits' = bits /\ pending' \subseteq pending BY <2>2, WalkSplit
    <3> QED BY <3>2, <3>3, <3>4 DEF TypeOK
  <2> QED BY <2>1, <2>2 DEF RefusedStep
<1> DEFINE Kept ==
        /\ fd' \in [Socks -> Fds \cup {0}] /\ \A t \in active' : fd'[t] # 0
        /\ active' \subseteq active /\ active \ {s} \subseteq active'
        /\ interest' \in [Fds -> Entries]
        /\ opened \subseteq opened' /\ opened' \subseteq Fds /\ reused' \subseteq Fds
<1>5. Kept
  <2>1. CASE /\ UNCHANGED <<fd, opened, reused>> /\ active' = active \ {s}
             /\ interest' = EngineRemove(interest, fd[s])
    <3>1. interest' \in [Fds -> Entries] BY <1>2, <1>3, <2>1, Table
    <3> QED BY <2>1, <3>1 DEF TypeOK
  <2>2. ASSUME NEW f \in Fds \ opened, fd' = [fd EXCEPT ![s] = f], active' = active,
               opened' = opened \cup {f},
               reused' = IF Forgotten(f) THEN reused \cup {f} ELSE reused \ {f},
               interest' = EngineAdd(EngineRemove(interest, fd[s]), f, s, wants[s])
        PROVE  Kept
    <3>1. fd[s] \in opened BY <1>1, Retreats
    <3>2. interest' \in [Fds -> Entries] BY <1>2, <1>3, <2>2, <3>1, Moved
    <3>3. f # 0 BY DEF Fds
    <3>4. reused' \subseteq Fds BY <2>2 DEF TypeOK
    <3> QED BY <1>2, <2>2, <3>2, <3>3, <3>4 DEF TypeOK
  <2> QED BY <1>1, <2>1, <2>2, Retreats
<1>6. list' = list /\ Live' = Live /\ Distinct(list') BY <1>2, ListTypes
<1>7. slot \in active' \cup {NoSock} /\ fallback' \subseteq active'
      /\ aresFd \in opened' \cup {0}
  BY <1>2, <1>5 DEF TypeOK
<1>8. closed' \subseteq ({"next"} \X Socks) \cup ({"fd"} \X Fds)
  BY <1>2 DEF TypeOK
<1> QED BY <1>2, <1>3, <1>4, <1>5, <1>6, <1>7, <1>8 DEF TypeOK, Distinct, Entries

LEMMA NextTypes ==
    ASSUME TypeOK, NumbersOwned, Next PROVE TypeOK'
  BY Steps, LoopTypes, RefusedTypes, SocketTypes, AresTypes

(* What is registered, step by step. *)
LEMMA LoopRegistration ==
    ASSUME TypeOK, RegistrationInv, Serving PROVE RegistrationInv'
<1> USE DEF Serving, ares, system, RegistrationInv
<1>1. NumbersOwned' BY DEF NumbersOwned, Live
<1>2. SlotAgrees' BY DEF SlotAgrees
<1>3. SlotStale' BY DEF SlotStale
<1>4. Registered'
  <2>1. ASSUME NEW s \in active PROVE Asked(s, wants[s])' = Asked(s, wants[s])
    BY DEF Asked
  <2> QED BY <2>1 DEF Registered
<1>5. OwnerReported' BY DEF OwnerReported
<1>6. Removable' BY DEF Removable
<1> QED BY <1>1, <1>2, <1>3, <1>4, <1>5, <1>6

(* A number that is not open has no entry. *)
LEMMA NoEntry ==
    ASSUME TypeOK, RegistrationInv, engine # "select",
           NEW f \in Fds \ opened, NEW d \in Directions
    PROVE  interest[f][d] = NoSock
<1>1. interest[f][d] # NoSock =>
         /\ interest[f][d] \in active /\ fd[interest[f][d]] = f
         /\ interest[f][d] = slot => aresFd = f
  BY DEF RegistrationInv, OwnerReported
<1>2. f # 0 /\ active \subseteq Live BY Linked DEF Fds
<1> QED BY <1>1, <1>2 DEF RegistrationInv, NumbersOwned, TypeOK

(* A number that a socket has, or c-ares, is not that of another.          *)
LEMMA OtherNumbers ==
    ASSUME TypeOK, NumbersOwned, NEW s \in fallback
    PROVE  /\ s \in active /\ s \in Socks /\ s # slot
           /\ fd[s] \in Fds /\ fd[s] \in opened /\ fd[s] # aresFd
           /\ \A t \in Live \ {slot, s} : fd[t] # fd[s]
<1>1. s \in active /\ s \in Live /\ s \in Socks /\ fd[s] \in Fds /\ fd[s] # 0
  BY ActiveTyped DEF TypeOK
<1> QED BY <1>1 DEF NumbersOwned

LEMMA CreateRegistration ==
    ASSUME TypeOK, RegistrationInv, NEW s \in Socks, Create(s)
    PROVE  RegistrationInv'
<1> USE DEF ares, system, round, RegistrationInv
<1>1. s \notin Live /\ active \subseteq Live /\ slot \in active \cup {NoSock}
      /\ NoSock \notin Socks
  BY Linked DEF Create, Lowest, TypeOK
<1>2. NumbersOwned'
  <2>1. Live' = Live \cup {s} BY ListTypes DEF Create
  <2>2. fd[s] = 0 BY <1>1 DEF NumbersOwned
  <2> QED BY <1>1, <2>1, <2>2 DEF Create, NumbersOwned
<1>3. SlotAgrees' BY <1>1 DEF Create, SlotAgrees, AresRests, TypeOK
<1>4. SlotStale' BY DEF Create, SlotStale
<1>5. Registered'
  <2>1. \A t \in active : wants'[t] = wants[t] BY <1>1 DEF Create, TypeOK
  <2> QED BY <2>1 DEF Create, Registered, Asked
<1>6. OwnerReported' BY DEF Create, OwnerReported
<1>7. Removable' BY DEF Create, Removable
<1> QED BY <1>2, <1>3, <1>4, <1>5, <1>6, <1>7

LEMMA ActivateRegistration ==
    ASSUME TypeOK, RegistrationInv, NEW s \in Socks, NEW f \in Fds,
           NEW w \in Directed, NEW again \in BOOLEAN, Activate(s, f, w, again)
    PROVE  RegistrationInv'
<1> USE DEF ares, round, RegistrationInv
<1>1. /\ s \in Live \ active /\ s # slot /\ slot \in active \cup {NoSock}
      /\ f \in Fds \ opened /\ f # 0 /\ fd[s] = 0
      /\ active \subseteq Live /\ Live \subseteq Socks /\ NoSock \notin Socks
      /\ w \in SUBSET Directions
      /\ aresFd # f
  <2>1. s \in Live \ active /\ fd[s] = 0 BY DEF Activate
  <2>2. slot \in active \cup {NoSock} BY DEF TypeOK
  <2>3. active \subseteq Live /\ Live \subseteq Socks /\ NoSock \notin Socks
    BY Linked
  <2>4. f \in Fds \ opened BY DEF Activate, Opens, Lowest
  <2>5. f # 0 BY DEF Fds
  <2>6. aresFd # f BY <2>4, <2>5 DEF TypeOK
  <2>7. w \in SUBSET Directions BY DEF Directed, Directions
  <2>8. s # slot BY <2>1, <2>2, <2>3
  <2> QED BY <2>1, <2>2, <2>3, <2>4, <2>5, <2>6, <2>7, <2>8
<1>2. engine # "select" => \A d \in Directions : interest[f][d] = NoSock
  BY <1>1, NoEntry
<1>3. /\ fd' = [fd EXCEPT ![s] = f] /\ active' = active \cup {s}
      /\ opened' = opened \cup {f} /\ Live' = Live
      /\ fallback' = IF again THEN fallback \cup {s} ELSE fallback
      /\ reused' = IF Forgotten(f) THEN reused \cup {f} ELSE reused \ {f}
      /\ \A t \in Socks \ {s} : fd'[t] = fd[t] /\ wants'[t] = wants[t]
      /\ fd'[s] = f /\ wants'[s] = w
      /\ UNCHANGED <<engine, slot, aresFd, aresWants, pc>>
  BY <1>1 DEF Activate, Opens, TypeOK, Live
<1>4. \A g \in Fds \ {f} : interest'[g] = interest[g]
  BY <1>1, Table DEF Activate
<1>5. engine # "select" => interest'[f] = Asked(s, w)
  BY <1>1, <1>2, Added DEF Activate
<1>6. f \notin reused BY <1>1 DEF NumbersOwned
<1>7. NumbersOwned'
  <2>1. slot \notin fallback' BY <1>1, <1>3 DEF NumbersOwned
  <2>2. \A t \in Socks \ Live : fd'[t] = 0 BY <1>1, <1>3 DEF NumbersOwned
  <2>3. \A t \in Live \ {slot} : fd'[t] # 0 => fd'[t] \in opened' \ {aresFd}
    BY <1>1, <1>3 DEF NumbersOwned
  <2>4. \A t, u \in Live \ {slot} : fd'[t] # 0 /\ fd'[t] = fd'[u] => t = u
    BY <1>1, <1>3 DEF NumbersOwned
  <2>5. (aresFd # 0 => aresWants \in Directed) /\ reused' \subseteq opened'
    BY <1>3 DEF NumbersOwned
  <2> QED BY <1>3, <2>1, <2>2, <2>3, <2>4, <2>5 DEF NumbersOwned
<1>8. SlotAgrees' BY <1>1, <1>3 DEF SlotAgrees, AresRests, TypeOK
<1>9. SlotStale' BY <1>1, <1>3 DEF SlotStale, Forgotten, TypeOK
<1>10. Registered'
  <2> SUFFICES ASSUME engine # "select", NEW t \in active',
                      fd'[t] \notin reused', t = slot => fd'[t] = aresFd
               PROVE  interest'[fd'[t]] = Asked(t, wants'[t])
    BY <1>3 DEF Registered, Asked
  <2>1. CASE t = s BY <1>3, <1>5, <2>1
  <2>2. CASE t # s
    <3>1. /\ t \in active /\ fd'[t] = fd[t] /\ fd[t] \in Fds /\ fd[t] # 0
          /\ wants'[t] = wants[t] /\ t \in Live
      BY <1>1, <1>3, <2>2, ActiveTyped
    <3>2. CASE fd[t] = f
      <4>1. t = slot BY <1>1, <3>1, <3>2 DEF NumbersOwned
      <4> QED BY <1>1, <1>3, <3>2, <4>1
    <3>3. CASE fd[t] # f
      <4>1. fd[t] \notin reused BY <1>3, <3>1, <3>3
      <4> QED BY <1>3, <1>4, <3>1, <3>3, <4>1 DEF Registered
    <3> QED BY <3>2, <3>3
  <2> QED BY <2>1, <2>2
<1>11. OwnerReported'
  <2> SUFFICES ASSUME engine # "select",
                      NEW g \in Fds, NEW d \in Directions, interest'[g][d] # NoSock
               PROVE  /\ interest'[g][d] \in active'
                      /\ fd'[interest'[g][d]] = g
                      /\ interest'[g][d] = slot => aresFd = g
    BY <1>3 DEF OwnerReported
  <2>1. CASE g = f
    <3>1. interest'[g][d] = s
      BY <1>1, <1>2, <2>1, Reported DEF Activate
    <3> QED BY <1>1, <1>3, <2>1, <3>1
  <2>2. CASE g # f
    <3>1. interest[g][d] \in active /\ interest[g][d] \in Socks \ {s}
      BY <1>1, <1>4, <2>2 DEF OwnerReported
    <3> QED BY <1>3, <1>4, <2>2, <3>1 DEF OwnerReported
  <2> QED BY <2>1, <2>2
<1>12. Removable'
  <2> SUFFICES ASSUME engine # "select", NEW t \in fallback',
                      interest'[fd'[t]]["r"] = NoSock
               PROVE  interest'[fd'[t]]["w"] = NoSock
    BY <1>3 DEF Removable
  <2>1. CASE t = s
    <3>1. "r" \in w BY DEF Directed
    <3>2. Asked(s, w)["r"] = s BY <3>1 DEF Asked, Directions
    <3> QED BY <1>1, <1>3, <1>5, <2>1, <3>2
  <2>2. CASE t # s
    <3>1. t \in fallback BY <1>3, <2>2
    <3>2. t \in Socks /\ fd[t] \in Fds \ {f} BY <1>1, <3>1, OtherNumbers
    <3>3. fd'[t] = fd[t] BY <1>3, <2>2, <3>2
    <3> QED BY <1>4, <3>1, <3>2, <3>3 DEF Removable
  <2> QED BY <2>1, <2>2
<1> QED BY <1>7, <1>8, <1>9, <1>10, <1>11, <1>12

LEMMA WantRegistration ==
    ASSUME TypeOK, RegistrationInv, NEW s \in Socks,
           NEW w \in {{"r"}, {"w"}, {"r", "w"}}, Want(s, w)
    PROVE  RegistrationInv'
<1> USE DEF ares, round, RegistrationInv
<1>1. /\ s \in active /\ s # slot /\ slot \in active \cup {NoSock}
      /\ active \subseteq Socks /\ NoSock \notin Socks
      /\ fd[s] \in Fds /\ fd[s] # 0 /\ w \in SUBSET Directions /\ w # {}
      /\ wants[s] \in SUBSET Directions /\ wants[s] # {}
      /\ AresRests /\ s \notin fallback /\ active \subseteq Live
  BY Linked DEF Want, UserRuns, TypeOK, Directions, AresRests
<1>2. /\ UNCHANGED <<engine, list, active, fd, fallback, slot, aresFd, aresWants, opened,
                     pc, reused>>
      /\ wants' = [wants EXCEPT ![s] = w]
      /\ \A t \in Socks : wants'[t] = IF t = s THEN w ELSE wants[t]
  BY <1>1 DEF Want, TypeOK
<1>3. \A g \in Fds \ {fd[s]} : interest'[g] = interest[g]
  BY <1>1, Table DEF Want
<1>4. ASSUME NEW t \in active, fd[t] = fd[s] PROVE t = s
  BY <1>1, <1>4 DEF NumbersOwned, SlotAgrees, TypeOK
<1>5. NumbersOwned' BY <1>2 DEF NumbersOwned, Live
<1>6. SlotAgrees' BY <1>1, <1>2 DEF SlotAgrees, AresRests
<1>7. SlotStale' BY <1>2 DEF SlotStale
<1>8. Registered'
  <2> SUFFICES ASSUME engine # "select", NEW t \in active,
                      fd[t] \notin reused, t = slot => fd[t] = aresFd
               PROVE  interest'[fd[t]] = Asked(t, wants'[t])
    BY <1>2 DEF Registered, Asked
  <2>1. interest[fd[t]] = Asked(t, wants[t]) BY DEF Registered
  <2>2. CASE t = s
    <3>1. EngineUpdate(interest, fd[s], s, w)[fd[s]] = Asked(s, w)
      BY <1>1, <2>1, <2>2, Updated
    <3> QED BY <1>1, <1>2, <2>2, <3>1 DEF Want
  <2>3. CASE t # s
    <3>1. fd[t] \in Fds \ {fd[s]} BY <1>4, <2>3, ActiveTyped
    <3> QED BY <1>1, <1>2, <1>3, <2>1, <2>3, <3>1
  <2> QED BY <2>2, <2>3
<1>9. OwnerReported'
  <2> SUFFICES ASSUME engine # "select", NEW g \in Fds, NEW d \in Directions, interest'[g][d] # NoSock
               PROVE  /\ interest'[g][d] \in active
                      /\ fd[interest'[g][d]] = g
                      /\ interest'[g][d] = slot => aresFd = g
    BY <1>2 DEF OwnerReported
  <2>1. CASE g = fd[s]
    <3>1. interest'[g][d] \in {interest[g][d], s}
      BY <1>1, <2>1, Reported DEF Want
    <3> QED BY <1>1, <2>1, <3>1 DEF OwnerReported
  <2>2. CASE g # fd[s] BY <1>3, <2>2 DEF OwnerReported
  <2> QED BY <2>1, <2>2
<1>10. Removable'
  <2> SUFFICES ASSUME engine # "select", NEW t \in fallback,
                      interest'[fd[t]]["r"] = NoSock
               PROVE  interest'[fd[t]]["w"] = NoSock
    BY <1>2 DEF Removable
  <2>1. fd[t] \in Fds \ {fd[s]} BY <1>1, OtherNumbers
  <2> QED BY <1>3, <2>1 DEF Removable
<1> QED BY <1>5, <1>6, <1>7, <1>8, <1>9, <1>10

LEMMA CloseRegistration ==
    ASSUME TypeOK, RegistrationInv, NEW s \in Socks, Close(s)
    PROVE  RegistrationInv'
<1> USE DEF ares, system, walk, RegistrationInv
<1>1. /\ s # slot /\ slot \in active \cup {NoSock} /\ s \in Live
      /\ active \subseteq Live /\ Live \subseteq Socks /\ NoSock \notin Socks
      /\ fd[s] # 0 => fd[s] \in Fds
      /\ s \in active => fd[s] # 0
      /\ AresRests
  BY Linked DEF Close, TypeOK, AresRests, UserRuns
<1>2. /\ UNCHANGED <<engine, slot, aresFd, aresWants, pc>>
      /\ active' = active \ {s} /\ fallback' = fallback \ {s}
      /\ Live' = Live \ {s}
      /\ \A t \in Socks : /\ wants'[t] = IF t = s THEN {} ELSE wants[t]
                          /\ fd'[t] = IF t = s THEN 0 ELSE fd[t]
      /\ fd[s] = 0 => UNCHANGED <<opened, interest, reused>>
      /\ fd[s] # 0 => /\ opened' = opened \ {fd[s]}
                      /\ reused' = reused \ {fd[s]}
                      /\ interest' = Closed(interest, fd[s])
  <2>1. Live' = Live \ {s} BY <1>1, ListTypes DEF Close
  <2> QED BY <2>1 DEF Close, TypeOK
<1>3. ASSUME NEW t \in Live, fd[s] # 0, fd[t] = fd[s] PROVE t = s
  <2>1. slot # NoSock => fd[slot] = aresFd BY <1>1 DEF SlotAgrees
  <2>2. fd[s] # aresFd BY <1>1, <1>3 DEF NumbersOwned
  <2> QED BY <1>1, <1>3, <2>1, <2>2 DEF NumbersOwned
<1>4. ASSUME NEW g \in Fds, interest'[g] # Nothing
      PROVE  interest'[g] = interest[g] /\ g # fd[s]
  <2>1. g # 0 BY DEF Fds
  <2> QED BY <1>1, <1>2, <1>4, <2>1, ClosedTable
<1>5. ASSUME NEW g \in Fds, g # fd[s] PROVE interest'[g] = interest[g]
  BY <1>1, <1>2, <1>5, ClosedTable
<1>6. NumbersOwned'
  <2>1. slot \notin fallback' /\ (aresFd # 0 => aresWants \in Directed)
    BY <1>2 DEF NumbersOwned
  <2>2. \A t \in Socks \ Live' : fd'[t] = 0 BY <1>1, <1>2 DEF NumbersOwned
  <2>3. ASSUME NEW t \in Live' \ {slot}, fd'[t] # 0
        PROVE  fd'[t] \in opened' \ {aresFd}
    <3>1. t \in Live \ {slot} /\ t # s /\ fd'[t] = fd[t] BY <1>1, <1>2
    <3>2. fd[t] \in opened \ {aresFd} BY <2>3, <3>1 DEF NumbersOwned
    <3>3. fd[s] # 0 => fd[t] # fd[s] BY <1>3, <3>1
    <3> QED BY <1>2, <3>1, <3>2, <3>3
  <2>4. \A t, u \in Live' \ {slot} : fd'[t] # 0 /\ fd'[t] = fd'[u] => t = u
    BY <1>1, <1>2 DEF NumbersOwned
  <2>5. reused' \subseteq opened' BY <1>2 DEF NumbersOwned
  <2> QED BY <1>2, <2>1, <2>2, <2>3, <2>4, <2>5 DEF NumbersOwned
<1>7. SlotAgrees' BY <1>1, <1>2 DEF SlotAgrees, AresRests
<1>8. SlotStale' BY <1>1, <1>2 DEF SlotStale, SlotAgrees
<1>9. Registered'
  <2> SUFFICES ASSUME engine # "select", NEW t \in active \ {s},
                      fd[t] \notin reused', t = slot => fd[t] = aresFd
               PROVE  interest'[fd[t]] = Asked(t, wants[t])
    BY <1>1, <1>2 DEF Registered, Asked
  <2>1. fd[t] # 0 /\ fd[t] \in Fds /\ t \in Live BY ActiveTyped
  <2>2. fd[t] # fd[s] BY <1>3, <2>1
  <2>3. fd[t] \notin reused BY <1>2, <2>2
  <2>4. interest[fd[t]] = Asked(t, wants[t]) BY <2>3 DEF Registered
  <2> QED BY <1>5, <2>1, <2>2, <2>4
<1>10. OwnerReported'
  <2> SUFFICES ASSUME engine # "select",
                      NEW g \in Fds, NEW d \in Directions, interest'[g][d] # NoSock
               PROVE  /\ interest'[g][d] \in active \ {s}
                      /\ fd[interest'[g][d]] = g
                      /\ interest'[g][d] = slot => aresFd = g
    BY <1>1, <1>2 DEF OwnerReported
  <2>1. interest'[g] # Nothing BY DEF Nothing
  <2>2. interest'[g] = interest[g] /\ g # fd[s] BY <1>4, <2>1
  <2> QED BY <1>1, <2>2 DEF OwnerReported
<1>11. Removable'
  <2> SUFFICES ASSUME engine # "select", NEW t \in fallback, t # s,
                      interest'[fd'[t]]["r"] = NoSock
               PROVE  interest'[fd'[t]]["w"] = NoSock
    BY <1>2 DEF Removable
  <2>1. t \in Socks /\ fd[t] \in Fds \ {fd[s]} BY <1>1, OtherNumbers
  <2>2. fd'[t] = fd[t] BY <1>2, <2>1
  <2> QED BY <1>5, <2>1, <2>2 DEF Removable
<1> QED BY <1>6, <1>7, <1>8, <1>9, <1>10, <1>11

LEMMA AresOpensRegistration ==
    ASSUME TypeOK, RegistrationInv, NEW f \in Fds, NEW w \in Directed, AresOpens(f, w)
    PROVE  RegistrationInv'
<1> USE DEF sockets, round, RegistrationInv
<1>1. /\ slot \in active \cup {NoSock} /\ aresFd = 0
      /\ f \in Fds \ opened /\ f # 0
      /\ active \subseteq Socks /\ NoSock \notin Socks
      /\ ~ AresRests
  BY Linked DEF AresOpens, Opens, Lowest, TypeOK, Fds, AresRests
<1>3. /\ UNCHANGED <<engine, list, active, fd, fallback, wants, slot, interest, pc>>
      /\ opened' = opened \cup {f} /\ aresFd' = f /\ aresWants' = w
      /\ reused' = IF Forgotten(f) THEN reused \cup {f} ELSE reused \ {f}
  BY DEF AresOpens, Opens
<1>4. f \notin reused BY <1>1 DEF NumbersOwned
<1>5. NumbersOwned' BY <1>1, <1>3, <1>4 DEF NumbersOwned, Live
<1>6. SlotAgrees' BY <1>1, <1>3 DEF SlotAgrees, AresRests
<1>7. SlotStale' BY <1>1, <1>3 DEF SlotStale, Forgotten, TypeOK
<1>8. Registered'
  <2> SUFFICES ASSUME engine # "select", NEW t \in active,
                      fd[t] \notin reused', t = slot => fd[t] = f
               PROVE  interest[fd[t]] = Asked(t, wants[t])
    BY <1>3 DEF Registered, Asked
  <2>1. t # slot BY <1>1, <1>3 DEF Forgotten
  <2>2. fd[t] \notin reused
    <3>1. t \in Live /\ fd[t] # 0 BY ActiveTyped
    <3> QED BY <1>1, <1>3, <2>1, <3>1 DEF NumbersOwned
  <2> QED BY <2>1, <2>2 DEF Registered
<1>9. OwnerReported' BY <1>1, <1>3 DEF OwnerReported, TypeOK, Fds
<1>10. Removable' BY <1>3 DEF Removable
<1> QED BY <1>5, <1>6, <1>7, <1>8, <1>9, <1>10

LEMMA AresClosesRegistration ==
    ASSUME TypeOK, RegistrationInv, AresCloses PROVE RegistrationInv'
<1> USE DEF sockets, walk, RegistrationInv
<1>1. /\ slot \in active \cup {NoSock} /\ aresFd \in Fds /\ aresFd # 0
      /\ active \subseteq Socks /\ NoSock \notin Socks
      /\ ~ AresRests
  BY Linked DEF AresCloses, TypeOK, AresRests
<1>2. /\ UNCHANGED <<engine, list, active, fd, fallback, wants, slot, pc>>
      /\ opened' = opened \ {aresFd} /\ aresFd' = 0
      /\ reused' = reused \ {aresFd}
      /\ interest' = Closed(interest, aresFd)
  BY DEF AresCloses
<1>4. /\ interest'[aresFd] = Nothing
      /\ \A g \in Fds \ {aresFd} : interest'[g] = interest[g]
  BY <1>1, <1>2, ClosedTable
<1>5. NumbersOwned' BY <1>1, <1>2 DEF NumbersOwned, Live
<1>6. SlotAgrees' BY <1>1, <1>2 DEF SlotAgrees, AresRests
<1>7. SlotStale' BY <1>1, <1>2 DEF SlotStale
<1>8. Registered'
  <2> SUFFICES ASSUME engine # "select", NEW t \in active,
                      fd[t] \notin reused', t = slot => fd[t] = 0
               PROVE  interest'[fd[t]] = Asked(t, wants[t])
    BY <1>2 DEF Registered, Asked
  <2>1. fd[t] # 0 /\ fd[t] \in Fds /\ t # slot /\ t \in Live BY ActiveTyped
  <2>2. fd[t] # aresFd BY <2>1 DEF NumbersOwned
  <2> QED BY <1>2, <1>4, <2>1, <2>2 DEF Registered
<1>9. OwnerReported'
  <2> SUFFICES ASSUME engine # "select", NEW g \in Fds, NEW d \in Directions, interest'[g][d] # NoSock
               PROVE  /\ interest'[g][d] \in active
                      /\ fd[interest'[g][d]] = g
                      /\ interest'[g][d] = slot => FALSE
    BY <1>2, <1>1 DEF OwnerReported
  <2>1. g # aresFd BY <1>4 DEF Nothing
  <2> QED BY <1>4, <2>1 DEF OwnerReported
<1>10. Removable'
  <2> SUFFICES ASSUME engine # "select", NEW t \in fallback,
                      interest'[fd[t]]["r"] = NoSock
               PROVE  interest'[fd[t]]["w"] = NoSock
    BY <1>2 DEF Removable
  <2>1. fd[t] \in Fds \ {aresFd} BY OtherNumbers
  <2> QED BY <1>4, <2>1 DEF Removable
<1> QED BY <1>5, <1>6, <1>7, <1>8, <1>9, <1>10

LEMMA AresWantsRegistration ==
    ASSUME TypeOK, RegistrationInv, NEW w \in Directed, AresWants(w)
    PROVE  RegistrationInv'
<1> USE DEF sockets, system, round, RegistrationInv
<1>1. ~ AresRests /\ aresFd # 0 BY DEF AresWants, AresRests
<1>2. /\ UNCHANGED <<engine, list, active, fd, fallback, wants, slot, aresFd,
                     interest, opened, pc, reused>>
      /\ aresWants' = w
  BY DEF AresWants
<1>3. NumbersOwned' BY <1>2 DEF NumbersOwned, Live
<1>4. SlotAgrees' BY <1>1, <1>2 DEF SlotAgrees, AresRests
<1>5. SlotStale' BY <1>2 DEF SlotStale
<1>6. Registered' BY <1>2 DEF Registered, Asked
<1>7. OwnerReported' BY <1>2 DEF OwnerReported
<1>8. Removable' BY <1>2 DEF Removable
<1> QED BY <1>3, <1>4, <1>5, <1>6, <1>7, <1>8

LEMMA UnregisterRegistration ==
    ASSUME TypeOK, RegistrationInv, UnregisterStep PROVE RegistrationInv'
<1> USE DEF walk, RegistrationInv
<1>1. /\ slot \in active /\ slot \in Socks /\ fd[slot] \in Fds /\ fd[slot] # aresFd
      /\ slot \in Live /\ active \subseteq Socks /\ active \subseteq Live
      /\ NoSock \notin Socks /\ ~ AresRests
  BY Linked DEF UnregisterStep, Unregister, TypeOK, AresRests
<1>2. /\ UNCHANGED <<engine, fallback, opened, aresFd, aresWants, pc, reused>>
      /\ Live' = Live \ {slot}
      /\ slot' = NoSock /\ active' = active \ {slot}
      /\ \A t \in Socks : /\ wants'[t] = IF t = slot THEN {} ELSE wants[t]
                          /\ fd'[t] = IF t = slot THEN 0 ELSE fd[t]
      /\ interest' = EngineRemove(interest, fd[slot])
  <2>1. Live' = Live \ {slot} BY <1>1, ListTypes DEF UnregisterStep, Unregister
  <2> QED BY <2>1 DEF UnregisterStep, Unregister, TypeOK
<1>3. \A g \in Fds \ {fd[slot]} : interest'[g] = interest[g] BY <1>1, <1>2, Table
<1>4. NumbersOwned'
  <2>1. slot' \notin fallback
    <3>1. NoSock \notin fallback BY <1>1 DEF TypeOK
    <3> QED BY <1>2, <3>1
  <2>2. \A t \in Socks \ Live' : fd'[t] = 0 BY <1>2 DEF NumbersOwned
  <2>3. \A t \in Live' : t \in Live \ {slot} /\ fd'[t] = fd[t] BY <1>2, Linked
  <2> QED BY <1>2, <2>1, <2>2, <2>3 DEF NumbersOwned
<1>5. SlotAgrees' BY <1>1, <1>2 DEF SlotAgrees, AresRests
<1>6. SlotStale' BY <1>2 DEF SlotStale
<1>7. Registered'
  <2> SUFFICES ASSUME engine # "select", NEW t \in active \ {slot}, fd[t] \notin reused
               PROVE  interest'[fd[t]] = Asked(t, wants[t])
    BY <1>1, <1>2 DEF Registered, Asked
  <2>1. fd[t] \in opened /\ fd[t] \in Fds BY ActiveTyped DEF NumbersOwned
  <2>2. fd[t] # fd[slot] BY <1>1, <2>1 DEF SlotStale
  <2> QED BY <1>3, <2>1, <2>2 DEF Registered
<1>8. OwnerReported'
  <2> SUFFICES ASSUME engine # "select", NEW g \in Fds, NEW d \in Directions, interest'[g][d] # NoSock
               PROVE  /\ interest'[g][d] \in active \ {slot}
                      /\ fd[interest'[g][d]] = g
    BY <1>1, <1>2 DEF OwnerReported
  <2>1. interest'[g][d] = interest[g][d]
    BY <1>1, <1>2, <1>3, Reported
  <2>2. /\ interest[g][d] \in active /\ fd[interest[g][d]] = g
        /\ interest[g][d] = slot => aresFd = g
    BY <2>1 DEF OwnerReported
  <2> QED BY <1>1, <2>1, <2>2
<1>9. Removable'
  <2> SUFFICES ASSUME engine # "select", NEW t \in fallback,
                      interest'[fd[t]]["r"] = NoSock
               PROVE  interest'[fd[t]]["w"] = NoSock
    <3>1. \A t \in fallback : fd'[t] = fd[t] BY <1>2, OtherNumbers DEF RegistrationInv
    <3> QED BY <1>2, <3>1 DEF Removable
  <2>1. fd[t] \in Fds BY OtherNumbers
  <2>2. CASE fd[t] # fd[slot] BY <1>3, <2>1, <2>2 DEF Removable
  <2>3. CASE fd[t] = fd[slot]
    <3>1. interest \in [Fds -> Entries] /\ engine \in {"epoll", "kevent"}
      BY DEF TypeOK, Entries
    <3>2. interest'[fd[t]] \in {interest[fd[t]], Nothing}
      BY <1>2, <2>1, <2>3, <3>1 DEF EngineRemove
    <3>3. Nothing["w"] = NoSock BY DEF Nothing, Directions
    <3> QED BY <3>2, <3>3 DEF Removable
  <2> QED BY <2>2, <2>3
<1> QED BY <1>4, <1>5, <1>6, <1>7, <1>8, <1>9

LEMMA RegisterRegistration ==
    ASSUME TypeOK, RegistrationInv, RegisterStep PROVE RegistrationInv'
<1> USE DEF walk, RegistrationInv
<1>1. PICK n \in Lowest(Socks, Live) :
         /\ slot' = n
         /\ list' = Append(list, n)
         /\ active' = active \cup {n}
         /\ fd' = [fd EXCEPT ![n] = aresFd]
         /\ wants' = [wants EXCEPT ![n] = aresWants]
         /\ interest' = EngineAdd(interest, aresFd, n, aresWants)
  BY DEF RegisterStep, Register
<1>2. /\ n \in Socks \ Live /\ n \in Socks \ active /\ slot = NoSock
      /\ aresFd \in Fds /\ aresFd # 0 /\ aresFd \in opened
      /\ aresWants \in Directed /\ aresWants \in SUBSET Directions
      /\ active \subseteq Socks /\ active \subseteq Live /\ NoSock \notin Socks
  BY Linked DEF RegisterStep, Register, Lowest, TypeOK, NumbersOwned
<1>3. /\ UNCHANGED <<engine, fallback, opened, aresFd, aresWants, reused>>
      /\ \A t \in Socks : /\ wants'[t] = IF t = n THEN aresWants ELSE wants[t]
                          /\ fd'[t] = IF t = n THEN aresFd ELSE fd[t]
  BY <1>1, <1>2 DEF RegisterStep, Register, TypeOK
<1>4. engine # "select" => \A d \in Directions : interest[aresFd][d] = NoSock
  BY <1>2, Linked DEF OwnerReported, NumbersOwned
<1>5. /\ \A g \in Fds \ {aresFd} : interest'[g] = interest[g]
      /\ engine # "select" => interest'[aresFd] = Asked(n, aresWants)
      /\ engine # "select" =>
            \A d \in Directions : interest'[aresFd][d] \in {n, NoSock}
  <2>1. \A g \in Fds \ {aresFd} : interest'[g] = interest[g]
    BY <1>1, <1>2, Table
  <2>2. engine # "select" => interest'[aresFd] = Asked(n, aresWants)
    BY <1>1, <1>2, <1>4, Added
  <2>3. ASSUME engine # "select", NEW d \in Directions
        PROVE  interest'[aresFd][d] \in {n, NoSock}
    BY <1>1, <1>2, <1>4, <2>3, Reported
  <2> QED BY <2>1, <2>2, <2>3
<1>6. \A t \in Live : fd[t] # aresFd BY <1>2, Linked DEF NumbersOwned
<1>7. NumbersOwned'
  <2>1. Live' = Live \cup {n} BY <1>1, ListTypes
  <2>2. slot' \notin fallback' BY <1>1, <1>2, <1>3 DEF TypeOK
  <2>3. \A t \in Socks \ Live' : fd'[t] = 0 BY <1>2, <1>3, <2>1 DEF NumbersOwned
  <2>4. \A t \in Live' \ {slot'} : t \in Live \ {slot} /\ fd'[t] = fd[t]
    BY <1>1, <1>2, <1>3, <2>1, Linked
  <2> QED BY <1>3, <2>2, <2>3, <2>4 DEF NumbersOwned
<1>8. SlotAgrees' BY <1>1, <1>2, <1>3 DEF SlotAgrees
<1>9. SlotStale' BY <1>1, <1>2, <1>3 DEF SlotStale
<1>10. Registered'
  <2> SUFFICES ASSUME engine # "select", NEW t \in active', fd'[t] \notin reused
               PROVE  interest'[fd'[t]] = Asked(t, wants'[t])
    BY <1>3 DEF Registered, Asked
  <2>1. CASE t = n BY <1>2, <1>3, <1>5, <2>1
  <2>2. CASE t # n
    <3>1. t \in active /\ fd'[t] = fd[t] /\ fd[t] \in Fds /\ wants'[t] = wants[t]
      BY <1>1, <1>2, <1>3, <2>2 DEF TypeOK
    <3> QED BY <1>2, <1>5, <1>6, <3>1 DEF Registered
  <2> QED BY <2>1, <2>2
<1>11. OwnerReported'
  <2> SUFFICES ASSUME engine # "select", NEW g \in Fds, NEW d \in Directions, interest'[g][d] # NoSock
               PROVE  /\ interest'[g][d] \in active \cup {n}
                      /\ fd'[interest'[g][d]] = g
                      /\ interest'[g][d] = n => aresFd = g
    BY <1>1, <1>3 DEF OwnerReported
  <2>1. CASE g = aresFd BY <1>2, <1>3, <1>5, <2>1
  <2>2. CASE g # aresFd
    <3>1. interest'[g][d] = interest[g][d] BY <1>5, <2>2
    <3>2. interest[g][d] \in active /\ fd[interest[g][d]] = g
      BY <3>1 DEF OwnerReported
    <3> QED BY <1>2, <1>3, <3>1, <3>2
  <2> QED BY <2>1, <2>2
<1>12. Removable'
  <2> SUFFICES ASSUME engine # "select", NEW t \in fallback,
                      interest'[fd[t]]["r"] = NoSock
               PROVE  interest'[fd[t]]["w"] = NoSock
    <3>1. \A t \in fallback : fd'[t] = fd[t] BY <1>2, <1>3, OtherNumbers
    <3> QED BY <1>3, <3>1 DEF Removable
  <2>1. fd[t] \in Fds \ {aresFd} BY OtherNumbers
  <2> QED BY <1>5, <2>1 DEF Removable
<1> QED BY <1>7, <1>8, <1>9, <1>10, <1>11, <1>12

LEMMA RenewRegistration ==
    ASSUME TypeOK, RegistrationInv, RenewStep PROVE RegistrationInv'
<1> USE DEF walk, RegistrationInv
<1>1. /\ UNCHANGED <<engine, opened, aresFd, aresWants, reused, slot, list,
                     active, fallback, fd>>
      /\ slot # NoSock => fd[slot] = aresFd
      /\ slot = NoSock => aresFd = 0
      /\ slot \in active \cup {NoSock}
      /\ active \subseteq Socks /\ active \subseteq Live /\ NoSock \notin Socks
  BY Linked DEF RenewStep, Renew, TypeOK
<1>2. CASE slot = NoSock \/ wants[slot] = aresWants
  <2>1. UNCHANGED <<wants, interest>> BY <1>2 DEF RenewStep, Renew
  <2>2. NumbersOwned' BY <1>1, <2>1 DEF NumbersOwned, Live
  <2>3. SlotAgrees' BY <1>1, <1>2, <2>1 DEF SlotAgrees
  <2>4. SlotStale' BY <1>1 DEF SlotStale
  <2>5. Registered' BY <1>1, <2>1 DEF Registered, Asked
  <2>6. OwnerReported' BY <1>1, <2>1 DEF OwnerReported
  <2>7. Removable' BY <1>1, <2>1 DEF Removable
  <2> QED BY <2>2, <2>3, <2>4, <2>5, <2>6, <2>7
<1>3. CASE ~ (slot = NoSock \/ wants[slot] = aresWants)
  <2>1. /\ slot \in active /\ slot \in Socks /\ aresFd \in Fds /\ aresFd # 0
        /\ wants[slot] \in SUBSET Directions /\ wants[slot] # {}
    BY <1>1, <1>3, Linked DEF TypeOK
  <2>2. aresWants \in SUBSET Directions /\ aresWants # {}
    BY <2>1 DEF NumbersOwned, Directed, Directions
  <2>3. /\ interest' = EngineUpdate(interest, aresFd, slot, aresWants)
        /\ \A t \in Socks : wants'[t] = IF t = slot THEN aresWants ELSE wants[t]
    BY <1>3, <2>1 DEF RenewStep, Renew, TypeOK
  <2>4. \A g \in Fds \ {aresFd} : interest'[g] = interest[g]
    BY <2>1, <2>2, <2>3, Table
  <2>5. NumbersOwned' BY <1>1 DEF NumbersOwned, Live
  <2>6. SlotAgrees' BY <1>1, <1>3, <2>1, <2>3 DEF SlotAgrees
  <2>7. SlotStale' BY <1>1 DEF SlotStale
  <2>8. Registered'
    <3> SUFFICES ASSUME engine # "select", NEW t \in active, fd[t] \notin reused
                 PROVE  interest'[fd[t]] = Asked(t, wants'[t])
      BY <1>1 DEF Registered, Asked
    <3>1. interest[fd[t]] = Asked(t, wants[t]) BY <1>1, <1>3 DEF Registered
    <3>2. CASE t = slot
      <4>1. EngineUpdate(interest, aresFd, slot, aresWants)[aresFd]
               = Asked(slot, aresWants)
        BY <1>1, <1>3, <2>1, <2>2, <3>1, <3>2, Updated
      <4> QED BY <1>1, <1>3, <2>1, <2>3, <3>2, <4>1
    <3>3. CASE t # slot
      <4>1. fd[t] \in Fds \ {aresFd} BY <3>3, ActiveTyped DEF NumbersOwned
      <4> QED BY <1>1, <2>3, <2>4, <3>1, <3>3, <4>1
    <3> QED BY <3>2, <3>3
  <2>9. OwnerReported'
    <3> SUFFICES ASSUME engine # "select", NEW g \in Fds, NEW d \in Directions, interest'[g][d] # NoSock
                 PROVE  /\ interest'[g][d] \in active
                        /\ fd[interest'[g][d]] = g
                        /\ interest'[g][d] = slot => aresFd = g
      BY <1>1 DEF OwnerReported
    <3>1. CASE g = aresFd
      <4>1. interest'[g][d] \in {interest[g][d], slot}
        BY <2>1, <2>2, <2>3, <3>1, Reported
      <4> QED BY <1>1, <1>3, <2>1, <3>1, <4>1 DEF OwnerReported
    <3>2. CASE g # aresFd BY <2>4, <3>2 DEF OwnerReported
    <3> QED BY <3>1, <3>2
  <2>10. Removable'
    <3> SUFFICES ASSUME engine # "select", NEW t \in fallback,
                        interest'[fd[t]]["r"] = NoSock
                 PROVE  interest'[fd[t]]["w"] = NoSock
      BY <1>1 DEF Removable
    <3>1. fd[t] \in Fds \ {aresFd} BY OtherNumbers
    <3> QED BY <2>4, <3>1 DEF Removable
  <2> QED BY <2>5, <2>6, <2>7, <2>8, <2>9, <2>10
<1> QED BY <1>2, <1>3

(* The entry of the number that is left is empty, and that of the new one  *)
(* is what the socket wants.                                               *)
LEMMA RefusedRegistration ==
    ASSUME TypeOK, RegistrationInv, RefusedStep PROVE RegistrationInv'
<1> USE DEF RegistrationInv
<1>1. PICK s \in fallback : Retreat(s) BY DEF RefusedStep
<1> DEFINE g == fd[s]
<1>2. /\ s \in active /\ s \in Socks /\ s # slot /\ g \in Fds /\ g \in opened /\ g # aresFd
      /\ UNCHANGED <<engine, list, wants, slot, aresFd, aresWants, pc>>
      /\ fallback' = fallback \ {s}
  BY <1>1, Retreats
<1>3. /\ active \subseteq Live /\ Live \subseteq Socks /\ Live' = Live
      /\ slot \in active \cup {NoSock} /\ NoSock \notin Socks
      /\ wants[s] \in SUBSET Directions /\ AresRests
  BY <1>1, <1>2, Linked DEF TypeOK, Live, Retreat, AresRests
<1>4. ASSUME NEW t \in Live, t # s PROVE fd[t] # g
  <2>1. slot # NoSock => fd[slot] = aresFd BY <1>3 DEF SlotAgrees
  <2> QED BY <1>1, <1>3, <1>4, <2>1, OtherNumbers
<1>5. engine # "select" => \A d \in Directions : EngineRemove(interest, g)[g][d] = NoSock
  <2>1. interest \in [Fds -> Entries] BY DEF TypeOK, Entries
  <2>2. Nothing["r"] = NoSock /\ Nothing["w"] = NoSock BY DEF Nothing, Directions
  <2>3. CASE engine = "epoll" BY <1>2, <2>1, <2>2, <2>3 DEF EngineRemove, Directions
  <2>4. CASE engine = "kevent"
    <3>1. interest[g]["r"] = NoSock => interest[g]["w"] = NoSock
      BY <2>4 DEF Removable
    <3> QED BY <1>2, <2>1, <2>2, <2>4, <3>1 DEF EngineRemove, Directions
  <2> QED BY <2>3, <2>4 DEF TypeOK
<1>6. \A h \in Fds \ {g} : EngineRemove(interest, g)[h] = interest[h] BY <1>2, <1>3, Table
<1> HIDE DEF g
<1>7. CASE /\ UNCHANGED <<fd, opened, reused>>
           /\ active' = active \ {s}
           /\ interest' = EngineRemove(interest, g)
  <2>1. NumbersOwned' BY <1>2, <1>3, <1>7 DEF NumbersOwned
  <2>2. SlotAgrees' BY <1>2, <1>3, <1>7 DEF SlotAgrees
  <2>3. SlotStale' BY <1>2, <1>7 DEF SlotStale
  <2>4. Registered'
    <3> SUFFICES ASSUME engine # "select", NEW t \in active \ {s},
                        fd[t] \notin reused, t = slot => fd[t] = aresFd
                 PROVE  interest'[fd[t]] = Asked(t, wants[t])
      BY <1>2, <1>7 DEF Registered, Asked
    <3>1. fd[t] \in Fds \ {g} BY <1>3, <1>4, ActiveTyped
    <3> QED BY <1>6, <1>7, <3>1 DEF Registered
  <2>5. OwnerReported'
    <3> SUFFICES ASSUME engine # "select", NEW h \in Fds, NEW d \in Directions,
                        interest'[h][d] # NoSock
                 PROVE  /\ interest'[h][d] \in active \ {s}
                        /\ fd[interest'[h][d]] = h
                        /\ interest'[h][d] = slot => aresFd = h
      BY <1>2, <1>7 DEF OwnerReported
    <3>1. h # g BY <1>5, <1>7
    <3>2. interest'[h] = interest[h] BY <1>6, <1>7, <3>1
    <3> QED BY <3>1, <3>2 DEF OwnerReported, g
  <2>6. Removable'
    <3> SUFFICES ASSUME engine # "select", NEW t \in fallback \ {s},
                        interest'[fd[t]]["r"] = NoSock
                 PROVE  interest'[fd[t]]["w"] = NoSock
      BY <1>2, <1>7 DEF Removable
    <3>1. fd[t] \in Fds \ {g} BY <1>3, <1>4, OtherNumbers
    <3> QED BY <1>6, <1>7, <3>1 DEF Removable
  <2> QED BY <2>1, <2>2, <2>3, <2>4, <2>5, <2>6
<1>8. ASSUME NEW f \in Fds \ opened,
             fd' = [fd EXCEPT ![s] = f], active' = active,
             opened' = opened \cup {f},
             reused' = IF Forgotten(f) THEN reused \cup {f} ELSE reused \ {f},
             interest' = EngineAdd(EngineRemove(interest, g), f, s, wants[s])
      PROVE  RegistrationInv'
  <2>1. /\ f # g /\ f # 0 /\ f # aresFd /\ f \notin reused
        /\ \A t \in Socks \ {s} : fd'[t] = fd[t]
        /\ fd'[s] = f
    BY <1>2, <1>8 DEF Fds, TypeOK, NumbersOwned
  <2>2. /\ interest'[f] = EngineAdd(interest, f, s, wants[s])[f]
        /\ \A h \in Fds \ {f} : interest'[h] = EngineRemove(interest, g)[h]
    BY <1>2, <1>3, <1>8, <2>1, Moved
  <2>3. engine # "select" => \A d \in Directions : interest[f][d] = NoSock
    BY NoEntry
  <2>4. engine # "select" => interest'[f] = Asked(s, wants[s])
    BY <1>2, <1>3, <2>2, <2>3, Added
  <2>5. ASSUME NEW t \in Live, t # s PROVE fd'[t] = fd[t] /\ fd[t] # f
    <3>1. slot # NoSock => fd[slot] = aresFd BY <1>3 DEF SlotAgrees
    <3> QED BY <1>3, <2>1, <2>5, <3>1 DEF NumbersOwned
  <2>6. NumbersOwned'
    <3>1. \A t \in Socks \ Live : fd'[t] = 0 BY <1>2, <1>3, <2>1 DEF NumbersOwned
    <3>2. \A t \in Live \ {slot} : fd'[t] # 0 => fd'[t] \in opened' \ {aresFd}
      BY <1>2, <1>8, <2>1, <2>5 DEF NumbersOwned
    <3>3. \A t, u \in Live \ {slot} : fd'[t] # 0 /\ fd'[t] = fd'[u] => t = u
      BY <2>1, <2>5 DEF NumbersOwned
    <3>4. reused' \subseteq opened' /\ slot \notin fallback'
      BY <1>2, <1>8 DEF NumbersOwned
    <3> QED BY <1>2, <1>3, <3>1, <3>2, <3>3, <3>4 DEF NumbersOwned
  <2>7. SlotAgrees' BY <1>2, <1>3, <2>1 DEF SlotAgrees
  <2>8. SlotStale' BY <1>2, <1>3, <2>1 DEF SlotStale, SlotAgrees
  <2>9. Registered'
    <3> SUFFICES ASSUME engine # "select", NEW t \in active,
                        fd'[t] \notin reused', t = slot => fd'[t] = aresFd
                 PROVE  interest'[fd'[t]] = Asked(t, wants[t])
      BY <1>2, <1>8 DEF Registered, Asked
    <3>1. CASE t = s BY <2>1, <2>4, <3>1
    <3>2. CASE t # s
      <4>1. fd'[t] = fd[t] /\ fd[t] \in Fds \ {f, g}
        BY <1>3, <1>4, <2>5, <3>2, ActiveTyped
      <4>2. fd[t] \notin reused BY <1>8, <4>1
      <4> QED BY <1>6, <2>2, <4>1, <4>2 DEF Registered
    <3> QED BY <3>1, <3>2
  <2>10. OwnerReported'
    <3> SUFFICES ASSUME engine # "select", NEW h \in Fds, NEW d \in Directions,
                        interest'[h][d] # NoSock
                 PROVE  /\ interest'[h][d] \in active
                        /\ fd'[interest'[h][d]] = h
                        /\ interest'[h][d] = slot => aresFd = h
      BY <1>2, <1>8 DEF OwnerReported
    <3>1. CASE h = f
      <4>1. interest'[h][d] \in {s, NoSock} BY <2>4, <3>1 DEF Asked
      <4> QED BY <1>2, <2>1, <3>1, <4>1
    <3>2. CASE h # f
      <4>1. h # g BY <1>2, <1>5, <2>2, <3>2
      <4>2. interest'[h] = interest[h] BY <1>6, <2>2, <3>2, <4>1
      <4>3. interest[h][d] # s /\ interest[h][d] \in Socks
        BY <1>3, <4>1, <4>2 DEF OwnerReported, g
      <4> QED BY <2>1, <4>2, <4>3 DEF OwnerReported
    <3> QED BY <3>1, <3>2
  <2>11. Removable'
    <3> SUFFICES ASSUME engine # "select", NEW t \in fallback \ {s},
                        interest'[fd'[t]]["r"] = NoSock
                 PROVE  interest'[fd'[t]]["w"] = NoSock
      BY <1>2 DEF Removable
    <3>1. t \in Live /\ fd[t] \in Fds BY <1>3, OtherNumbers
    <3>2. fd'[t] = fd[t] /\ fd[t] \in Fds \ {f, g} BY <1>4, <2>5, <3>1
    <3> QED BY <1>6, <2>2, <3>2 DEF Removable
  <2> QED BY <2>6, <2>7, <2>8, <2>9, <2>10, <2>11
<1> QED BY <1>1, <1>7, <1>8, Retreats DEF g

LEMMA NextRegistration ==
    ASSUME TypeOK, RegistrationInv, Next PROVE RegistrationInv'
  BY Steps, LoopServes, LoopRegistration, RefusedRegistration, CreateRegistration,
     ActivateRegistration, WantRegistration, CloseRegistration,
     AresOpensRegistration, AresClosesRegistration, AresWantsRegistration,
     UnregisterRegistration, RegisterRegistration, RenewRegistration

-----------------------------------------------------------------------------
(* Stuttering changes nothing. *)
LEMMA TypeStutters == ASSUME TypeOK, UNCHANGED vars PROVE TypeOK'
<1>1. UNCHANGED <<engine, list, active, fd, fallback, wants, ares, system, reused>>
      /\ UNCHANGED <<batch, bits, cursor, pc, back, pending, closed, signal>>
  BY DEF vars, round, walk, sockets
<1> QED BY <1>1, TypeSame DEF TypeOK

LEMMA RegistrationStutters ==
    ASSUME TypeOK, RegistrationInv, UNCHANGED vars PROVE RegistrationInv'
<1>1. CASE pc \in {"loop", "serve", "callback", "ares"}
  <2>1. Serving BY <1>1 DEF vars, Serving, AresRests, sockets, ares, system
  <2> QED BY <2>1, LoopRegistration
<1>2. CASE pc \notin {"loop", "serve", "callback", "ares"}
  <2> USE DEF vars, sockets, ares, system, RegistrationInv
  <2>1. NumbersOwned' BY DEF NumbersOwned, Live
  <2>2. SlotAgrees' BY DEF SlotAgrees, AresRests
  <2>3. SlotStale' BY DEF SlotStale
  <2>4. Registered' BY DEF Registered, Asked
  <2>5. OwnerReported' BY DEF OwnerReported
  <2>6. Removable' BY DEF Removable
  <2> QED BY <2>1, <2>2, <2>3, <2>4, <2>5, <2>6
<1> QED BY <1>1, <1>2

-----------------------------------------------------------------------------
(* The rounds. *)

EventRecords == [sock : Socks, from : Fds, ev : SUBSET Directions]

NoRound ==
    /\ batch = <<>> /\ bits = NoBits /\ cursor = NoSock
    /\ pending = {} /\ closed = {} /\ signal = FALSE

(* No round goes on, though c-ares may be called. *)
Resting == pc = "loop" \/ (pc \in {"ares", "update"} /\ back = "loop")

Gone(f) == <<"fd", f>> \in closed

OneAtATime ==
    /\ AresRests => back = "loop"
    /\ Resting => NoRound
    /\ batch \in Seq(EventRecords)
    /\ engine = "select" => batch = <<>>

(* epoll and kevent: what is left of the batch is true and reported, each  *)
(* direction once, and what is reported is in it.                          *)
BatchIsTrue ==
    engine # "select" =>
        \A i \in 1 .. Len(batch) :
            ~ Gone(batch[i].from) =>
                /\ batch[i].sock \in active
                /\ fd[batch[i].sock] = batch[i].from
                /\ {batch[i].from} \X batch[i].ev \subseteq pending

BatchIsApart ==
    engine # "select" =>
        \A i, j \in 1 .. Len(batch) :
            i # j => \/ batch[i].from # batch[j].from
                     \/ batch[i].ev \cap batch[j].ev = {}

BatchIsAll ==
    engine # "select" =>
        \A f \in Fds, d \in Directions :
            <<f, d>> \in pending =>
                \/ Gone(f)
                \/ \E i \in 1 .. Len(batch) :
                      batch[i].from = f /\ d \in batch[i].ev

(* select: what is ahead of the walk is reported if its bits are set, and  *)
(* what is reported is ahead of the walk.                                  *)
BitsAreOld ==
    \A d \in Directions : \A f \in bits[d] : f \in opened \/ Gone(f)

AheadIsTrue ==
    engine = "select" /\ ~ signal =>
        \A s \in active, d \in Directions :
            Behind(list, cursor, s) /\ fd[s] \in bits[d] =>
                <<fd[s], d>> \in pending \/ Gone(fd[s])

AheadIsAll ==
    engine = "select" =>
        \A s \in active, d \in Directions :
            <<fd[s], d>> \in pending =>
                \/ Behind(list, cursor, s)
                \/ \E t \in Socks : <<"next", t>> \in closed
                \/ Gone(fd[s])

PendingHasBits ==
    engine = "select" =>
        \A f \in Fds, d \in Directions : <<f, d>> \in pending => f \in bits[d]

(* What c-ares closed in a round is noted, and what it opened is new.      *)
SlotNoted ==
    slot # NoSock /\ fd[slot] # aresFd /\ back = "serve" => Gone(fd[slot])

AresIsNew ==
    aresFd # 0 /\ (slot # NoSock => fd[slot] # aresFd) =>
        \A d \in Directions : aresFd \in bits[d] => Gone(aresFd)

RoundInv ==
    /\ OneAtATime
    /\ BatchIsTrue /\ BatchIsApart /\ BatchIsAll
    /\ BitsAreOld /\ AheadIsTrue /\ AheadIsAll /\ PendingHasBits
    /\ SlotNoted /\ AresIsNew

IInv == TypeOK /\ RegistrationInv /\ RoundInv

(* Between two rounds there is nothing to say. *)
LEMMA Empty ==
    ASSUME NoRound, back = "loop" PROVE RoundInv
<1> USE DEF NoRound, NoBits
<1>1. batch \in Seq(EventRecords) /\ Len(batch) = 0 BY EmptySeq
<1>2. OneAtATime BY <1>1 DEF OneAtATime
<1>3. BatchIsTrue /\ BatchIsApart /\ BatchIsAll
  BY <1>1 DEF BatchIsTrue, BatchIsApart, BatchIsAll
<1>4. BitsAreOld /\ AheadIsTrue /\ AheadIsAll /\ PendingHasBits
  BY DEF BitsAreOld, AheadIsTrue, AheadIsAll, PendingHasBits
<1>5. SlotNoted /\ AresIsNew BY DEF SlotNoted, AresIsNew
<1> QED BY <1>2, <1>3, <1>4, <1>5 DEF RoundInv

LEMMA EmptyNext ==
    ASSUME NoRound', back' = "loop" PROVE RoundInv'
<1> USE DEF NoRound, NoBits
<1>1. (batch \in Seq(EventRecords))' /\ (Len(batch) = 0)' BY EmptySeq DEF EventRecords
<1>2. OneAtATime' BY <1>1 DEF OneAtATime
<1>3. BatchIsTrue' /\ BatchIsApart' /\ BatchIsAll'
  BY <1>1 DEF BatchIsTrue, BatchIsApart, BatchIsAll
<1>4. BitsAreOld' /\ AheadIsTrue' /\ AheadIsAll' /\ PendingHasBits'
  BY DEF BitsAreOld, AheadIsTrue, AheadIsAll, PendingHasBits
<1>5. SlotNoted' /\ AresIsNew' BY DEF SlotNoted, AresIsNew
<1> QED BY <1>2, <1>3, <1>4, <1>5 DEF RoundInv

(* Steps of a round that only pass control. *)
Passes ==
    /\ UNCHANGED <<engine, sockets, ares, system, round, back>>
    /\ Resting' => Resting
    /\ AresRests' => AresRests

LEMMA PassesRound ==
    ASSUME RoundInv, Passes PROVE RoundInv'
<1> USE DEF Passes, sockets, ares, system, round, walk, RoundInv, Gone
<1>1. OneAtATime' BY DEF OneAtATime, NoRound
<1>2. BatchIsTrue' /\ BatchIsApart' /\ BatchIsAll'
  BY DEF BatchIsTrue, BatchIsApart, BatchIsAll
<1>3. BitsAreOld' /\ AheadIsTrue' /\ AheadIsAll' /\ PendingHasBits'
  BY DEF BitsAreOld, AheadIsTrue, AheadIsAll, PendingHasBits
<1>4. SlotNoted' /\ AresIsNew' BY DEF SlotNoted, AresIsNew
<1> QED BY <1>1, <1>2, <1>3, <1>4

(* Steps of sockets and of c-ares.  What was closed is noted, and what is  *)
(* new has no bits of this round.                                          *)
New(f) == \A d \in Directions : f \in bits[d] => Gone(f)

Outside ==
    /\ UNCHANGED <<engine, walk, pending, signal>>
    /\ closed \subseteq closed'
    /\ \A f \in opened : f \in opened' \/ Gone(f)'
    /\ \A s \in active : <<"fd", fd[s]>> \in closed' \/ (s \in active' /\ fd'[s] = fd[s])
    /\ \A s \in active' : (s \in active /\ fd'[s] = fd[s]) \/ New(fd'[s])
    /\ \A s \in active \cap active' :
          Behind(list', cursor, s) => Behind(list, cursor, s)
    /\ \A s \in active \cap active' :
          Behind(list, cursor, s) =>
             Behind(list', cursor, s) \/ \E t \in Socks : <<"next", t>> \in closed'
    /\ AresRests' => back' = "loop"
    /\ ~ Resting'
    /\ SlotNoted' /\ AresIsNew'

LEMMA OutsideRound ==
    ASSUME TypeOK, TypeOK', RegistrationInv, RoundInv, Outside PROVE RoundInv'
<1> USE DEF Outside, walk, RoundInv
<1>1. \A f : Gone(f) => Gone(f)' BY DEF Gone
<1>3. active \subseteq Socks /\ active' \subseteq Socks
  <2>1. active \subseteq Socks BY Linked
  <2>2. (active \subseteq Live)' BY DEF TypeOK
  <2>3. Live' \subseteq Socks
    <3>1. list' \in Seq(Socks) BY DEF TypeOK
    <3>2. \A i \in 1 .. Len(list') : list'[i] \in Socks BY <3>1, ElementOfSeq
    <3> QED BY <3>1, <3>2, LenProperties DEF Live, ToSet
  <2> QED BY <2>1, <2>2, <2>3
<1>4. OneAtATime' BY DEF OneAtATime
<1>5. BatchIsTrue'
  <2> SUFFICES ASSUME engine # "select", NEW i \in 1 .. Len(batch),
                      ~ Gone(batch[i].from)'
               PROVE  /\ batch[i].sock \in active'
                      /\ fd'[batch[i].sock] = batch[i].from
                      /\ {batch[i].from} \X batch[i].ev \subseteq pending
    BY DEF BatchIsTrue, Gone
  <2>3. /\ batch[i].sock \in active /\ fd[batch[i].sock] = batch[i].from
        /\ {batch[i].from} \X batch[i].ev \subseteq pending
    BY <1>1 DEF BatchIsTrue
  <2>5. <<"fd", batch[i].from>> \notin closed' BY DEF Gone
  <2> QED BY <2>3, <2>5
<1>6. BatchIsApart' BY DEF BatchIsApart
<1>7. BatchIsAll' BY <1>1 DEF BatchIsAll
<1>8. BitsAreOld' BY <1>1 DEF BitsAreOld
<1>9. AheadIsTrue'
  <2> SUFFICES ASSUME engine = "select", ~ signal,
                      NEW s \in active', NEW d \in Directions,
                      Behind(list', cursor, s), fd'[s] \in bits[d]
               PROVE  <<fd'[s], d>> \in pending \/ <<"fd", fd'[s]>> \in closed'
    BY DEF AheadIsTrue, Gone
  <2>1. CASE s \in active /\ fd'[s] = fd[s]
    BY <2>1 DEF AheadIsTrue, Gone
  <2>2. CASE New(fd'[s]) BY <1>1, <2>2 DEF New, Gone
  <2> QED BY <2>1, <2>2
<1>10. AheadIsAll'
  <2> SUFFICES ASSUME engine = "select", NEW s \in active', NEW d \in Directions,
                      <<fd'[s], d>> \in pending
               PROVE  \/ Behind(list', cursor, s)
                      \/ \E t \in Socks : <<"next", t>> \in closed'
                      \/ <<"fd", fd'[s]>> \in closed'
    BY DEF AheadIsAll, Gone
  <2>1. CASE s \in active /\ fd'[s] = fd[s]
    BY <2>1 DEF AheadIsAll, Gone
  <2>2. CASE New(fd'[s])
    <3>1. fd'[s] \in Fds BY <1>3 DEF TypeOK
    <3> QED BY <1>1, <2>2, <3>1 DEF New, Gone, PendingHasBits
  <2> QED BY <2>1, <2>2
<1>11. PendingHasBits' BY DEF PendingHasBits
<1> QED BY <1>4, <1>5, <1>6, <1>7, <1>8, <1>9, <1>10, <1>11

(* Without a round these steps note nothing. *)
LEMMA RestingRound ==
    ASSUME RoundInv, Resting,
           \/ \E s \in Socks :
                 \/ Create(s)
                 \/ \E f \in Fds, w \in Directed, again \in BOOLEAN :
                       Activate(s, f, w, again)
                 \/ \E w \in {{"r"}, {"w"}, {"r", "w"}} : Want(s, w)
                 \/ Close(s)
           \/ \E f \in Fds, w \in Directed : AresOpens(f, w)
           \/ AresCloses
           \/ \E w \in Directed : AresWants(w)
           \/ UnregisterStep \/ RegisterStep \/ RenewStep
    PROVE  RoundInv'
<1> USE DEF ares, system, round, walk
<1>1. NoRound /\ back = "loop" /\ pc # "callback"
  BY DEF RoundInv, OneAtATime, Resting, AresRests
<1>2. \A things : Noted(things) = closed BY <1>1 DEF Noted
<1>3. back' = "loop" /\ NoRound'
  <2>1. ASSUME NEW s \in Socks,
               \/ Create(s)
               \/ \E f \in Fds, w \in Directed, again \in BOOLEAN :
                     Activate(s, f, w, again)
               \/ \E w \in {{"r"}, {"w"}, {"r", "w"}} : Want(s, w)
        PROVE  back' = "loop" /\ NoRound'
    BY <1>1, <2>1 DEF Create, Activate, Want, NoRound, NoBits
  <2>2. ASSUME NEW s \in Socks, Close(s) PROVE back' = "loop" /\ NoRound'
    BY <1>1, <1>2, <2>2 DEF Close, NoRound, NoBits
  <2>3. ASSUME NEW f \in Fds, NEW w \in Directed, AresOpens(f, w)
        PROVE  back' = "loop" /\ NoRound'
    BY <1>1, <2>3 DEF AresOpens, NoRound, NoBits
  <2>4. ASSUME AresCloses PROVE back' = "loop" /\ NoRound'
    BY <1>1, <1>2, <2>4 DEF AresCloses, NoRound, NoBits
  <2>5. ASSUME NEW w \in Directed, AresWants(w) PROVE back' = "loop" /\ NoRound'
    BY <1>1, <2>5 DEF AresWants, NoRound, NoBits
  <2>6. ASSUME UnregisterStep PROVE back' = "loop" /\ NoRound'
    BY <1>1, <1>2, <2>6 DEF UnregisterStep, Unregister, NoRound, NoBits
  <2>7. ASSUME RegisterStep \/ RenewStep PROVE back' = "loop" /\ NoRound'
    BY <1>1, <2>7 DEF RegisterStep, Register, RenewStep, Renew, NoRound, NoBits
  <2> QED BY <2>1, <2>2, <2>3, <2>4, <2>5, <2>6, <2>7
<1> QED BY <1>3, EmptyNext

(* In a round they note what they close. *)
Busy == pc = "callback" \/ (pc \in {"ares", "update"} /\ back = "serve")

LEMMA NotedInRound ==
    ASSUME Busy, NEW things PROVE Noted(things) = closed \cup things
  BY DEF Busy, Noted

LEMMA CursorListed ==
    ASSUME NEW l \in Seq(Socks), NEW a, NEW b, Behind(l, a, b)
    PROVE  a \in ToSet(l) /\ b \in ToSet(l) /\ a \in Socks
<1>1. \A i \in 1 .. Len(l) : l[i] \in Socks BY ElementOfSeq
<1>2. DOMAIN l = 1 .. Len(l) BY LenProperties
<1> QED BY <1>1, <1>2 DEF Behind, ToSet

LEMMA CreateOutside ==
    ASSUME TypeOK, RegistrationInv, RoundInv, Busy, NEW s \in Socks, Create(s)
    PROVE  Outside
<1> USE DEF ares, system, round, walk, RoundInv
<1>1. list \in Seq(Socks) /\ Distinct(list) /\ active \subseteq Live
      /\ Live \subseteq Socks
  BY Linked
<1>2. s \notin Live BY DEF Create, Lowest
<1>3. /\ list' \in Seq(Socks) /\ Live' = Live \cup {s}
      /\ \A a, b \in Socks : Behind(list, a, b) => Behind(list', a, b)
      /\ \A a, b \in Socks : Behind(list', a, b) => Behind(list, a, b) \/ b = s
  BY <1>1, <1>2, Appended DEF Create, Live
<1>4. ASSUME NEW t \in active
      PROVE  Behind(list', cursor, t) <=> Behind(list, cursor, t)
  <2>1. t \in Socks /\ t # s BY <1>1, <1>2
  <2>2. Behind(list', cursor, t) => Behind(list, cursor, t)
    BY <1>3, <2>1, CursorListed
  <2>3. Behind(list, cursor, t) => Behind(list', cursor, t)
    BY <1>1, <1>3, <2>1, CursorListed
  <2> QED BY <2>2, <2>3
<1>5. SlotNoted' /\ AresIsNew' BY DEF Create, SlotNoted, AresIsNew, Gone
<1>6. (AresRests' => back' = "loop") /\ ~ Resting'
  BY DEF Create, AresRests, Resting, OneAtATime, Busy
<1> QED BY <1>4, <1>5, <1>6 DEF Create, Outside, Gone

LEMMA ActivateOutside ==
    ASSUME TypeOK, RegistrationInv, RoundInv, Busy,
           NEW s \in Socks, NEW f \in Fds, NEW w \in Directed,
           NEW again \in BOOLEAN, Activate(s, f, w, again)
    PROVE  Outside
<1> USE DEF ares, round, walk, RoundInv
<1>1. /\ active \subseteq Socks /\ s \notin active
      /\ slot \in active \cup {NoSock} /\ NoSock \notin Socks
      /\ f \notin opened
  BY Linked DEF Activate, Opens, Lowest, TypeOK
<1>2. New(f) BY <1>1 DEF New, BitsAreOld
<1>3. /\ active' = active \cup {s} /\ fd'[s] = f
      /\ \A t \in active : fd'[t] = fd[t]
      /\ opened' = opened \cup {f}
  BY <1>1 DEF Activate, Opens, TypeOK
<1>4. SlotNoted' /\ AresIsNew'
  BY <1>1, <1>3 DEF Activate, SlotNoted, AresIsNew, Gone, TypeOK
<1>5. (AresRests' => back' = "loop") /\ ~ Resting'
  BY DEF Activate, AresRests, Resting, OneAtATime, Busy
<1> QED BY <1>2, <1>3, <1>4, <1>5 DEF Activate, Outside, Gone

LEMMA WantOutside ==
    ASSUME TypeOK, RegistrationInv, RoundInv, Busy, NEW s \in Socks,
           NEW w \in {{"r"}, {"w"}, {"r", "w"}}, Want(s, w)
    PROVE  Outside
<1> USE DEF ares, round, walk, RoundInv
<1>1. UNCHANGED <<engine, list, active, fd, slot, aresFd, opened, batch, bits,
                  cursor, pending, closed, signal, pc, back>>
  BY DEF Want
<1>2. SlotNoted' /\ AresIsNew' BY <1>1 DEF SlotNoted, AresIsNew, Gone
<1>3. (AresRests' => back' = "loop") /\ ~ Resting'
  BY <1>1 DEF AresRests, Resting, OneAtATime, Busy
<1> QED BY <1>1, <1>2, <1>3 DEF Outside, Gone

LEMMA CloseOutside ==
    ASSUME TypeOK, RegistrationInv, RoundInv, Busy, NEW s \in Socks, Close(s)
    PROVE  Outside
<1> USE DEF ares, system, walk, RoundInv
<1>1. /\ list \in Seq(Socks) /\ Distinct(list)
      /\ active \subseteq Socks /\ s \in Live /\ s # slot
      /\ slot \in active \cup {NoSock} /\ NoSock \notin Socks
  BY Linked DEF Close, TypeOK
<1>2. /\ list' \in Seq(Socks) /\ Live' = Live \ {s}
      /\ \A a, b \in Socks \ {s} : Behind(list', a, b) <=> Behind(list, a, b)
  BY <1>1, TakenOff DEF Close, Live
<1>3. /\ active' = active \ {s}
      /\ \A t \in active \ {s} : fd'[t] = fd[t]
      /\ closed' = closed \cup IF fd[s] # 0
                               THEN Forget(s) \cup {<<"fd", fd[s]>>} ELSE Forget(s)
      /\ s \in active => fd[s] # 0
      /\ opened' = IF fd[s] # 0 THEN opened \ {fd[s]} ELSE opened
  BY <1>1, NotedInRound DEF Close, TypeOK
<1>4. ASSUME NEW t \in active \ {s}, Behind(list', cursor, t)
      PROVE  Behind(list, cursor, t)
  <2>1. cursor \in Socks \ {s} BY <1>2, <1>4, CursorListed DEF Live
  <2> QED BY <1>1, <1>2, <1>4, <2>1
<1>5. ASSUME NEW t \in active \ {s}, Behind(list, cursor, t)
      PROVE  \/ Behind(list', cursor, t)
             \/ \E u \in Socks : <<"next", u>> \in closed'
  <2>1. cursor \in Socks BY <1>1, <1>5, CursorListed
  <2>2. CASE cursor = s BY <1>3, <2>1, <2>2 DEF Forget
  <2>3. CASE cursor # s BY <1>1, <1>2, <1>5, <2>1, <2>3
  <2> QED BY <2>2, <2>3
<1>6. SlotNoted' /\ AresIsNew'
  BY <1>1, <1>3 DEF Close, SlotNoted, AresIsNew, Gone
<1>7. (AresRests' => back' = "loop") /\ ~ Resting'
  BY DEF Close, AresRests, Resting, OneAtATime, Busy
<1> QED BY <1>3, <1>4, <1>5, <1>6, <1>7 DEF Close, Outside, Gone

LEMMA AresOutside ==
    ASSUME TypeOK, RegistrationInv, RoundInv, Busy,
           \/ \E f \in Fds, w \in Directed : AresOpens(f, w)
           \/ AresCloses
           \/ \E w \in Directed : AresWants(w)
           \/ RenewStep
    PROVE  Outside
<1> USE DEF sockets, system, round, walk, RoundInv
<1>1. slot \in active \cup {NoSock} /\ NoSock \notin Socks /\ active \subseteq Socks
      /\ \A t \in active : fd[t] # 0
  BY Linked DEF TypeOK
<1>2. ASSUME NEW f \in Fds, NEW w \in Directed, AresOpens(f, w) PROVE Outside
  <2>1. f \notin opened /\ aresFd = 0 /\ opened' = opened \cup {f}
    BY <1>2 DEF AresOpens, Opens, Lowest
  <2>2. New(f) BY <2>1 DEF New, BitsAreOld
  <2>3. SlotNoted' BY <1>1, <1>2, <2>1 DEF AresOpens, SlotNoted, Gone
  <2>4. AresIsNew' BY <1>2, <2>2 DEF AresOpens, AresIsNew, New, Gone
  <2>5. (AresRests' => back' = "loop") /\ ~ Resting'
    BY <1>2 DEF AresOpens, AresRests, Resting, OneAtATime, Busy
  <2> QED BY <1>2, <2>1, <2>3, <2>4, <2>5 DEF AresOpens, Outside, Gone
<1>3. CASE AresCloses
  <2>1. closed' = closed \cup {<<"fd", aresFd>>}
    BY <1>3, NotedInRound DEF AresCloses
  <2>2. SlotNoted' BY <1>1, <1>3, <2>1 DEF AresCloses, SlotNoted, Gone
  <2>3. AresIsNew' BY <1>3 DEF AresCloses, AresIsNew
  <2>4. (AresRests' => back' = "loop") /\ ~ Resting'
    BY <1>3 DEF AresCloses, AresRests, Resting, OneAtATime, Busy
  <2> QED BY <1>3, <2>1, <2>2, <2>3, <2>4 DEF AresCloses, Outside, Gone
<1>4. ASSUME NEW w \in Directed, AresWants(w) PROVE Outside
  <2>1. SlotNoted' /\ AresIsNew' BY <1>4 DEF AresWants, SlotNoted, AresIsNew, Gone
  <2>2. (AresRests' => back' = "loop") /\ ~ Resting'
    BY <1>4 DEF AresWants, AresRests, Resting, OneAtATime, Busy
  <2> QED BY <1>4, <2>1, <2>2 DEF AresWants, Outside, Gone
<1>5. CASE RenewStep
  <2>1. UNCHANGED <<engine, aresFd, opened, slot, list, active, fd, closed,
                    batch, bits, cursor, pending, signal>>
    BY <1>5 DEF RenewStep, Renew
  <2>2. SlotNoted' /\ AresIsNew'
    BY <1>5 DEF RenewStep, Renew, SlotNoted, AresIsNew, Gone
  <2>3. (AresRests' => back' = "loop") /\ ~ Resting'
    BY <1>5 DEF RenewStep, Renew, AresRests, Resting, OneAtATime, Busy
  <2> QED BY <2>1, <2>2, <2>3 DEF Outside, Gone
<1> QED BY <1>2, <1>3, <1>4, <1>5

LEMMA UnregisterOutside ==
    ASSUME TypeOK, RegistrationInv, RoundInv, Busy, UnregisterStep PROVE Outside
<1> USE DEF walk, RoundInv
<1>1. /\ list \in Seq(Socks) /\ Distinct(list)
      /\ active \subseteq Socks /\ active \subseteq Live
      /\ slot \in active /\ fd[slot] # aresFd /\ NoSock \notin Socks
  BY Linked DEF UnregisterStep, Unregister, TypeOK
<1>2. /\ list' \in Seq(Socks) /\ Live' = Live \ {slot}
      /\ \A a, b \in Socks \ {slot} : Behind(list', a, b) <=> Behind(list, a, b)
  BY <1>1, TakenOff DEF UnregisterStep, Unregister, Live
<1>3. /\ active' = active \ {slot}
      /\ \A t \in active \ {slot} : fd'[t] = fd[t]
      /\ closed' = closed \cup Forget(slot)
      /\ opened' = opened /\ slot' = NoSock
  BY <1>1, NotedInRound DEF UnregisterStep, Unregister, TypeOK
<1>4. ASSUME NEW t \in active \ {slot}, Behind(list', cursor, t)
      PROVE  Behind(list, cursor, t)
  <2>1. cursor \in Socks \ {slot} BY <1>2, <1>4, CursorListed DEF Live
  <2> QED BY <1>1, <1>2, <1>4, <2>1
<1>5. ASSUME NEW t \in active \ {slot}, Behind(list, cursor, t)
      PROVE  \/ Behind(list', cursor, t)
             \/ \E u \in Socks : <<"next", u>> \in closed'
  <2>1. cursor \in Socks BY <1>1, <1>5, CursorListed
  <2>2. CASE cursor = slot BY <1>3, <2>1, <2>2 DEF Forget
  <2>3. CASE cursor # slot BY <1>1, <1>2, <1>5, <2>1, <2>3
  <2> QED BY <2>2, <2>3
<1>6. Gone(fd[slot])
  BY <1>1 DEF UnregisterStep, Busy, SlotNoted
<1>7. SlotNoted' /\ AresIsNew'
  BY <1>1, <1>3 DEF UnregisterStep, Unregister, SlotNoted, AresIsNew, Gone
<1>8. (AresRests' => back' = "loop") /\ ~ Resting'
  BY DEF UnregisterStep, Unregister, AresRests, Resting, OneAtATime, Busy
<1> QED BY <1>3, <1>4, <1>5, <1>6, <1>7, <1>8 DEF UnregisterStep, Outside, Gone

LEMMA RegisterOutside ==
    ASSUME TypeOK, RegistrationInv, RoundInv, Busy, RegisterStep PROVE Outside
<1> USE DEF walk, RoundInv
<1>1. PICK n \in Lowest(Socks, Live) :
         /\ slot' = n
         /\ list' = Append(list, n)
         /\ active' = active \cup {n}
         /\ fd' = [fd EXCEPT ![n] = aresFd]
  BY DEF RegisterStep, Register
<1>2. /\ list \in Seq(Socks) /\ Distinct(list)
      /\ Live \subseteq Socks /\ active \subseteq Live
      /\ n \in Socks \ Live /\ slot = NoSock /\ aresFd # 0 /\ NoSock \notin Socks
  BY Linked DEF RegisterStep, Register, Lowest
<1>3. /\ list' \in Seq(Socks)
      /\ \A a, b \in Socks : Behind(list, a, b) => Behind(list', a, b)
      /\ \A a, b \in Socks : Behind(list', a, b) => Behind(list, a, b) \/ b = n
  BY <1>1, <1>2, Appended DEF Live
<1>4. ASSUME NEW t \in active
      PROVE  Behind(list', cursor, t) <=> Behind(list, cursor, t)
  <2>1. t \in Socks /\ t # n BY <1>2
  <2>2. Behind(list', cursor, t) => Behind(list, cursor, t)
    BY <1>3, <2>1, CursorListed
  <2>3. Behind(list, cursor, t) => Behind(list', cursor, t)
    BY <1>2, <1>3, <2>1, CursorListed
  <2> QED BY <2>2, <2>3
<1>5. /\ fd'[n] = aresFd /\ \A t \in active : fd'[t] = fd[t]
      /\ UNCHANGED <<engine, aresFd, opened, closed, batch, bits, cursor,
                     pending, signal>>
  BY <1>1, <1>2 DEF RegisterStep, Register, TypeOK
<1>6. New(aresFd) BY <1>2 DEF AresIsNew, New
<1>7. SlotNoted' /\ AresIsNew' BY <1>1, <1>2, <1>5 DEF SlotNoted, AresIsNew
<1>8. (AresRests' => back' = "loop") /\ ~ Resting'
  BY DEF RegisterStep, Register, AresRests, Resting, OneAtATime, Busy
<1> QED BY <1>1, <1>4, <1>5, <1>6, <1>7, <1>8 DEF Outside, Gone

LEMMA OutsideSteps ==
    ASSUME TypeOK, RegistrationInv, RoundInv, TypeOK',
           \/ \E s \in Socks :
                 \/ Create(s)
                 \/ \E f \in Fds, w \in Directed, again \in BOOLEAN :
                       Activate(s, f, w, again)
                 \/ \E w \in {{"r"}, {"w"}, {"r", "w"}} : Want(s, w)
                 \/ Close(s)
           \/ \E f \in Fds, w \in Directed : AresOpens(f, w)
           \/ AresCloses
           \/ \E w \in Directed : AresWants(w)
           \/ UnregisterStep \/ RegisterStep \/ RenewStep
    PROVE  RoundInv'
<1>1. CASE Resting BY <1>1, RestingRound
<1>2. CASE ~ Resting
  <2>1. Busy
    BY <1>2 DEF Resting, Busy, Create, Activate, Want, Close, AresOpens,
                AresCloses, AresWants, UnregisterStep, RegisterStep, RenewStep,
                UserRuns, TypeOK
  <2>2. Outside
    BY <2>1, CreateOutside, ActivateOutside, WantOutside, CloseOutside,
       AresOutside, UnregisterOutside, RegisterOutside
  <2> QED BY <2>2, OutsideRound
<1> QED BY <1>1, <1>2

(* A round begins.  The batch has each event of the part of the system,    *)
(* and each has the socket of its number.                                  *)
LEMMA Finite ==
    ASSUME NEW R \in SUBSET (Fds \X Directions)
    PROVE  IsFiniteSet(Events(R)) /\ Cardinality(Events(R)) \in Nat
<1>1. IsFiniteSet(Fds) BY DispatchAssumption, FS_Interval DEF Fds, DispatchAssumption
<1>2. IsFiniteSet(Directions)
  <2>1. IsFiniteSet({"r"}) BY FS_Singleton
  <2>2. IsFiniteSet({"r"} \cup {"w"}) BY <2>1, FS_AddElement
  <2>3. Directions = {"r"} \cup {"w"} BY DEF Directions
  <2> QED BY <2>2, <2>3
<1>3. IsFiniteSet(R) BY <1>1, <1>2, FS_Product, FS_Subset
<1>4. IsFiniteSet(Events(R))
  <2>1. CASE engine = "epoll"
    <3> DEFINE g == [p \in R |->
                       [sock |-> interest[p[1]][p[2]], from |-> p[1],
                        ev |-> {d \in Directions : <<p[1], d>> \in R}]]
    <3>1. g \in Surjection(R, Events(R)) BY <2>1 DEF Surjection, Events
    <3> QED BY <1>3, <3>1, FS_Surjection
  <2>2. CASE engine # "epoll"
    <3> DEFINE g == [p \in R |->
                       [sock |-> interest[p[1]][p[2]], from |-> p[1], ev |-> {p[2]}]]
    <3>1. g \in Surjection(R, Events(R)) BY <2>2 DEF Surjection, Events
    <3> QED BY <1>3, <3>1, FS_Surjection
  <2> QED BY <2>1, <2>2
<1> QED BY <1>4, FS_CardinalityType

(* An order of a finite set has each element, once. *)
LEMMA Ordered ==
    ASSUME NEW S, IsFiniteSet(S), Cardinality(S) \in Nat, NEW q \in SetToSeqs(S)
    PROVE  /\ q \in Seq(S)
           /\ \A i, j \in 1 .. Len(q) : i # j => q[i] # q[j]
           /\ \A e \in S : \E i \in 1 .. Len(q) : q[i] = e
<1> DEFINE n == Cardinality(S)
<1>1. q \in [1 .. n -> S] /\ \A i, j \in 1 .. n : i # j => q[i] # q[j]
  BY DEF SetToSeqs
<1>2. q \in Seq(S) /\ Len(q) = n BY <1>1, IsASeq
<1>3. q \in Injection(1 .. n, S) BY <1>1 DEF Injection, IsInjective
<1>4. Cardinality(1 .. n) = n
  <2>1. Cardinality(1 .. n) = IF 1 > n THEN 0 ELSE n - 1 + 1 BY FS_Interval
  <2> QED BY <2>1
<1>5. q \in Surjection(1 .. n, S) BY <1>3, <1>4, FS_Injection
<1> QED BY <1>1, <1>2, <1>5 DEF Surjection

(* When c-ares rests, no two sockets have the same number. *)
LEMMA OneOwner ==
    ASSUME TypeOK, RegistrationInv, AresRests,
           NEW s \in active, NEW t \in active, fd[s] = fd[t]
    PROVE  s = t
<1>1. /\ fd[s] # 0 /\ s \in Socks /\ NoSock \notin Socks
      /\ s \in Live /\ t \in Live
  BY ActiveTyped, Linked
<1>2. NumbersOwned /\ SlotAgrees BY DEF RegistrationInv
<1>3. CASE s = slot
  <2>1. fd[s] = aresFd BY <1>1, <1>2, <1>3 DEF SlotAgrees
  <2> QED BY <1>1, <1>2, <1>3, <2>1 DEF NumbersOwned
<1>4. CASE t = slot
  <2>1. fd[t] = aresFd BY <1>1, <1>2, <1>4, ActiveTyped DEF SlotAgrees
  <2> QED BY <1>1, <1>2, <1>4, <2>1 DEF NumbersOwned
<1>5. CASE s # slot /\ t # slot BY <1>1, <1>2, <1>5 DEF NumbersOwned
<1> QED BY <1>3, <1>4, <1>5

LEMMA OpenOwned ==
    ASSUME TypeOK, RegistrationInv, AresRests, NEW s \in active
    PROVE  fd[s] \in opened /\ fd[s] \in Fds
<1>1. fd[s] # 0 /\ fd[s] \in Fds /\ s \in Socks /\ s \in Live /\ NoSock \notin Socks
  BY ActiveTyped, Linked
<1>2. aresFd \in opened \cup {0} BY DEF TypeOK
<1> QED BY <1>1, <1>2 DEF RegistrationInv, NumbersOwned, SlotAgrees

LEMMA WaitRound ==
    ASSUME TypeOK, RegistrationInv, RoundInv,
           NEW R \in SUBSET (Fds \X Directions), Wait(R)
    PROVE  RoundInv'
<1> USE DEF sockets, ares, system, RoundInv
<1>1. AresRests /\ NoRound /\ back = "loop" /\ engine # "select"
  BY DEF Wait, AresRests, Resting, OneAtATime
<1>2. active \subseteq Socks /\ Live \subseteq Socks BY Linked
<1>3. /\ batch' \in Seq(Events(R))
      /\ \A i, j \in 1 .. Len(batch') : i # j => batch'[i] # batch'[j]
      /\ \A e \in Events(R) : \E i \in 1 .. Len(batch') : batch'[i] = e
  BY Finite, Ordered DEF Wait
<1>4. \A i \in 1 .. Len(batch') : batch'[i] \in Events(R) BY <1>3, ElementOfSeq
<1>5. ASSUME NEW e \in Events(R)
      PROVE  /\ e \in EventRecords
             /\ e.sock \in active /\ fd[e.sock] = e.from
             /\ {e.from} \X e.ev \subseteq R
             /\ engine = "epoll" => e.ev = {d \in Directions : <<e.from, d>> \in R}
             /\ engine # "epoll" => \E d \in Directions : e.ev = {d}
  <2>1. PICK p \in R :
           e = [sock |-> interest[p[1]][p[2]], from |-> p[1],
                ev |-> IF engine = "epoll"
                       THEN {d \in Directions : <<p[1], d>> \in R} ELSE {p[2]}]
    BY DEF Events
  <2>2. p[1] \in Fds /\ p[2] \in Directions /\ interest[p[1]][p[2]] # NoSock
        /\ p = <<p[1], p[2]>>
    BY DEF Wait, Reportable
  <2>3. interest[p[1]][p[2]] \in active /\ fd[interest[p[1]][p[2]]] = p[1]
    BY <1>1, <2>2 DEF RegistrationInv, OwnerReported
  <2> QED BY <1>2, <2>1, <2>2, <2>3 DEF EventRecords
<1>6. pending' = R /\ closed' = {} /\ bits' = NoBits
      /\ UNCHANGED <<engine, list, active, fd, slot, aresFd, opened, cursor, signal, back>>
      /\ pc' = "serve"
  BY <1>1 DEF Wait, NoRound
<1>7. OneAtATime'
  <2>1. Events(R) \subseteq EventRecords BY <1>5
  <2>2. batch' \in Seq(EventRecords)
    <3>1. \A i \in 1 .. Len(batch') : batch'[i] \in EventRecords BY <1>4, <1>5
    <3>2. batch' \in [1 .. Len(batch') -> EventRecords] /\ Len(batch') \in Nat
      BY <1>3, <3>1, LenProperties
    <3> QED BY <3>2, IsASeq
  <2> QED BY <1>1, <1>6, <2>2 DEF OneAtATime, AresRests, Resting, EventRecords
<1>8. BatchIsTrue'
  <2>1. ASSUME NEW i \in 1 .. Len(batch')
        PROVE  /\ batch'[i].sock \in active
               /\ fd[batch'[i].sock] = batch'[i].from
               /\ {batch'[i].from} \X batch'[i].ev \subseteq R
    BY <1>4, <1>5
  <2> QED BY <1>6, <2>1 DEF BatchIsTrue
<1>9. BatchIsApart'
  <2> SUFFICES ASSUME NEW i \in 1 .. Len(batch'), NEW j \in 1 .. Len(batch'), i # j,
                      batch'[i].from = batch'[j].from
               PROVE  batch'[i].ev \cap batch'[j].ev = {}
    BY DEF BatchIsApart
  <2> DEFINE e == batch'[i]  g == batch'[j]
  <2>1. e \in Events(R) /\ g \in Events(R) /\ e # g BY <1>3, <1>4
  <2>2. e.sock = g.sock BY <1>1, <1>5, <2>1, OneOwner
  <2>3. e.ev # g.ev BY <1>5, <2>1, <2>2 DEF EventRecords
  <2>4. engine # "epoll" BY <1>5, <2>1, <2>3
  <2> QED BY <1>5, <2>1, <2>3, <2>4
<1>10. BatchIsAll'
  <2> SUFFICES ASSUME NEW f \in Fds, NEW d \in Directions, <<f, d>> \in R
               PROVE  \E i \in 1 .. Len(batch') :
                         batch'[i].from = f /\ d \in batch'[i].ev
    BY <1>6 DEF BatchIsAll
  <2> DEFINE e == [sock |-> interest[f][d], from |-> f,
                   ev |-> IF engine = "epoll"
                          THEN {x \in Directions : <<f, x>> \in R} ELSE {d}]
  <2>1. e \in Events(R)
    <3>1. <<f, d>>[1] = f /\ <<f, d>>[2] = d OBVIOUS
    <3> QED BY <3>1 DEF Events
  <2>2. e.from = f /\ d \in e.ev OBVIOUS
  <2> QED BY <1>3, <2>1, <2>2
<1>11. BitsAreOld' /\ AheadIsTrue' /\ AheadIsAll' /\ PendingHasBits'
  BY <1>1, <1>6 DEF BitsAreOld, AheadIsTrue, AheadIsAll, PendingHasBits, NoBits
<1>12. SlotNoted' BY <1>1, <1>6 DEF SlotNoted
<1>13. AresIsNew' BY <1>6 DEF AresIsNew, NoBits
<1> QED BY <1>7, <1>8, <1>9, <1>10, <1>11, <1>12, <1>13

LEMMA SelectRound ==
    ASSUME TypeOK, RegistrationInv, RoundInv,
           \/ \E R \in SUBSET (Fds \X Directions) : Select(R)
           \/ SelectInterrupted
    PROVE  RoundInv'
<1> USE DEF sockets, ares, system, RoundInv
<1>1. /\ AresRests /\ NoRound /\ back = "loop" /\ engine = "select" /\ pc' = "serve"
      /\ UNCHANGED <<engine, list, active, fd, slot, aresFd, opened, batch, closed, back>>
      /\ cursor' = list[1]
  BY DEF Select, SelectInterrupted, AresRests, Resting, OneAtATime
<1>2. PICK R \in SUBSET (Fds \X Directions) :
         /\ R \subseteq Reportable
         /\ bits' = BitsOf(R)
         /\ \/ pending' = R /\ UNCHANGED signal
            \/ pending' = {} /\ signal' = TRUE
  <2>1. Reportable \in SUBSET (Fds \X Directions) BY DEF Reportable
  <2> QED BY <1>1, <2>1 DEF Select, SelectInterrupted, NoRound
<1>3. ASSUME NEW d \in Directions, NEW f \in bits'[d]
      PROVE  /\ f \in Fds /\ <<f, d>> \in R
             /\ \E s \in active : fd[s] = f
  <2>1. <<f, d>> \in R /\ f \in Fds BY <1>2 DEF BitsOf
  <2>2. <<f, d>> \in Reportable /\ <<f, d>>[1] = f BY <1>2, <2>1
  <2> QED BY <1>1, <2>1, <2>2 DEF Reportable
<1>4. OneAtATime'
  <2>1. batch' = <<>> BY <1>1 DEF NoRound
  <2> QED BY <1>1, <2>1, EmptySeq DEF OneAtATime, AresRests, Resting, EventRecords
<1>5. BatchIsTrue' /\ BatchIsApart' /\ BatchIsAll'
  BY <1>1 DEF BatchIsTrue, BatchIsApart, BatchIsAll
<1>6. BitsAreOld' BY <1>1, <1>3, OpenOwned DEF BitsAreOld
<1>7. AheadIsTrue' BY <1>1, <1>2, <1>3 DEF AheadIsTrue, NoRound
<1>8. ASSUME NEW s \in active PROVE Behind(list, list[1], s)
  <2>1. s \in Live /\ list \in Seq(Socks) BY Linked
  <2>2. PICK i \in 1 .. Len(list) : list[i] = s
    BY <2>1, LenProperties DEF Live, ToSet
  <2>3. 1 \in 1 .. Len(list) /\ 1 <= i BY <2>1, <2>2, LenProperties
  <2> QED BY <2>2, <2>3 DEF Behind
<1>9. AheadIsAll' BY <1>1, <1>8 DEF AheadIsAll
<1>10. PendingHasBits' BY <1>2 DEF PendingHasBits, BitsOf
<1>11. SlotNoted' BY <1>1 DEF SlotNoted
<1>12. AresIsNew' BY <1>1 DEF AresIsNew, AresRests, RegistrationInv, SlotAgrees
<1> QED BY <1>4, <1>5, <1>6, <1>7, <1>9, <1>10, <1>11, <1>12

(* What a visit of s may change: it goes on with a new number, or without  *)
(* one, and the one it had is noted.                                       *)
Visited(s) ==
    /\ UNCHANGED <<engine, list, slot, aresFd, signal>>
    /\ closed \subseteq closed' /\ opened \subseteq opened'
    /\ active' \subseteq active
    /\ \A t \in active \ {s} : t \in active' /\ fd'[t] = fd[t]
    /\ \/ active' = active /\ fd' = fd
       \/ /\ s # slot /\ <<"fd", fd[s]>> \in closed'
          /\ s \in active' => fd'[s] \notin opened

LEMMA VisitOf ==
    ASSUME TypeOK, RegistrationInv, NEW s,
           UNCHANGED <<engine, list, wants, ares, signal>>,
           Stays \/ Retreat(s)
    PROVE  Visited(s)
<1>1. CASE Stays BY <1>1 DEF Stays, Visited, ares, system
<1>2. CASE Retreat(s)
  <2>1. s \in fallback /\ NumbersOwned BY <1>2 DEF Retreat, RegistrationInv
  <2>2. /\ s \in active /\ s # slot
        /\ UNCHANGED <<engine, list, slot, aresFd, signal>>
        /\ closed' = closed \cup {<<"fd", fd[s]>>}
    BY <1>2, <2>1, Retreats
  <2>3. fd \in [Socks -> Fds \cup {0}] /\ active \subseteq Socks BY Linked DEF TypeOK
  <2>4. CASE UNCHANGED <<fd, opened, reused>> /\ active' = active \ {s}
    BY <2>2, <2>4 DEF Visited
  <2>5. ASSUME NEW f \in Fds \ opened, fd' = [fd EXCEPT ![s] = f], active' = active,
               opened' = opened \cup {f}
        PROVE  Visited(s)
    BY <2>2, <2>3, <2>5 DEF Visited
  <2> QED BY <1>2, <2>1, <2>4, <2>5, Retreats
<1> QED BY <1>1, <1>2

(* The socket of c-ares keeps its number.                                  *)
LEMMA VisitKeepsSlot ==
    ASSUME TypeOK, RegistrationInv, AresRests, NEW s, Visited(s)
    PROVE  SlotNoted' /\ AresIsNew'
<1>1. slot # NoSock => slot \in active /\ fd[slot] = aresFd
  BY DEF RegistrationInv, SlotAgrees, TypeOK
<1>2. slot = NoSock => aresFd = 0 BY DEF RegistrationInv, SlotAgrees
<1>3. slot # NoSock => fd'[slot] = aresFd BY <1>1 DEF Visited
<1>4. SlotNoted' BY <1>3 DEF SlotNoted, Visited
<1>5. AresIsNew' BY <1>2, <1>3 DEF AresIsNew, Visited
<1> QED BY <1>4, <1>5

(* The next event. *)
LEMMA ServeNextRound ==
    ASSUME TypeOK, RegistrationInv, RoundInv, ServeNext PROVE RoundInv'
<1> USE DEF RoundInv
<1>1. /\ AresRests /\ back = "loop" /\ engine # "select" /\ batch # <<>>
      /\ batch \in Seq(EventRecords)
      /\ UNCHANGED <<engine, bits, cursor>>
  BY ServeNextSplit DEF ServeNext, AresRests, OneAtATime
<1>2. /\ Len(batch) \in Nat /\ Len(batch) # 0
      /\ batch' \in Seq(EventRecords)
      /\ Len(batch') = Len(batch) - 1
      /\ \A i \in 1 .. Len(batch') : batch'[i] = batch[i + 1]
      /\ Head(batch) = batch[1]
  BY <1>1, HeadTailProperties, LenProperties, EmptySeq DEF ServeNext, RestOfBatch
<1>3. \A i \in 1 .. Len(batch) : batch[i] \in EventRecords BY <1>1, ElementOfSeq
<1> DEFINE e == batch[1]
<1>4. e \in EventRecords BY <1>2, <1>3
<1> HIDE DEF e
<1>5. \/ pending' = pending \ ({e.from} \X e.ev) /\ e.sock \in Live
         /\ \/ pc' = "ares" /\ back' = "serve"
            \/ pc' \in {"callback", "serve"} /\ back' = "loop"
      \/ /\ pending' = pending /\ e.sock \notin Live
         /\ back' = "loop" /\ pc' \in {"serve", "crashed"}
  BY <1>1, <1>2, ServeNextSplit DEF e
<1>51. Visited(e.sock) BY <1>2, ServeNextSplit, VisitOf DEF e
<1>52. \A f : Gone(f) => Gone(f)' BY <1>51 DEF Visited, Gone
<1>6. OneAtATime' BY <1>1, <1>2, <1>5 DEF OneAtATime, AresRests, Resting, EventRecords
<1>7. ASSUME NEW i \in 1 .. Len(batch')
      PROVE  /\ i + 1 \in 1 .. Len(batch) /\ i + 1 # 1
             /\ batch'[i] = batch[i + 1]
             /\ batch[i + 1].from # e.from \/ batch[i + 1].ev \cap e.ev = {}
  BY <1>1, <1>2 DEF BatchIsApart, e
<1>8. BatchIsTrue'
  <2> SUFFICES ASSUME NEW i \in 1 .. Len(batch'),
                      <<"fd", batch'[i].from>> \notin closed'
               PROVE  /\ batch'[i].sock \in active'
                      /\ fd'[batch'[i].sock] = batch'[i].from
                      /\ {batch'[i].from} \X batch'[i].ev \subseteq pending'
    BY DEF BatchIsTrue, Gone
  <2> DEFINE g == batch[i + 1]
  <2>1. /\ batch'[i] = g /\ g.sock \in active /\ fd[g.sock] = g.from
        /\ {g.from} \X g.ev \subseteq pending
    <3>1. batch'[i] = g /\ i + 1 \in 1 .. Len(batch) BY <1>7
    <3>2. ~ Gone(g.from) BY <1>51, <3>1 DEF Visited, Gone
    <3> QED BY <1>1, <3>1, <3>2 DEF BatchIsTrue
  <2>2. ({g.from} \X g.ev) \cap ({e.from} \X e.ev) = {} BY <1>7
  <2>3. <<"fd", fd[g.sock]>> \notin closed' BY <2>1 DEF Gone
  <2>4. g.sock \in active' /\ fd'[g.sock] = fd[g.sock]
    BY <1>51, <2>1, <2>3 DEF Visited
  <2> QED BY <1>5, <2>1, <2>2, <2>4
<1>9. BatchIsApart' BY <1>1, <1>2, <1>7 DEF BatchIsApart
<1>10. BatchIsAll'
  <2> SUFFICES ASSUME NEW f \in Fds, NEW d \in Directions, <<f, d>> \in pending',
                      ~ Gone(f)
               PROVE  \E i \in 1 .. Len(batch') :
                         batch'[i].from = f /\ d \in batch'[i].ev
    BY <1>52 DEF BatchIsAll, Gone
  <2>1. <<f, d>> \in pending BY <1>5
  <2>2. PICK i \in 1 .. Len(batch) : batch[i].from = f /\ d \in batch[i].ev
    BY <1>1, <2>1 DEF BatchIsAll
  <2>3. i # 1
    <3>1. SUFFICES ASSUME i = 1 PROVE FALSE OBVIOUS
    <3>2. e.from = f /\ d \in e.ev BY <2>2, <3>1 DEF e
    <3>3. e.sock \notin Live BY <1>5, <3>2
    <3>4. e.sock \in active BY <1>1, <1>2, <3>2 DEF BatchIsTrue, e
    <3> QED BY <3>3, <3>4, Linked
  <2>4. i - 1 \in 1 .. Len(batch') /\ batch'[i - 1] = batch[(i - 1) + 1]
    BY <1>2, <2>3
  <2> QED BY <1>2, <2>2, <2>4
<1>11. BitsAreOld' BY <1>1, <1>51, <1>52 DEF BitsAreOld, Visited
<1>12. AheadIsTrue' /\ AheadIsAll' /\ PendingHasBits'
  BY <1>1 DEF AheadIsTrue, AheadIsAll, PendingHasBits
<1>13. SlotNoted' /\ AresIsNew' BY <1>1, <1>51, VisitKeepsSlot
<1> QED BY <1>6, <1>8, <1>9, <1>10, <1>11, <1>12, <1>13

(* The walk of select goes on. *)
LEMMA WalkRound ==
    ASSUME TypeOK, TypeOK', RegistrationInv, RoundInv, Walk PROVE RoundInv'
<1> USE DEF RoundInv
<1>1. /\ AresRests /\ back = "loop" /\ engine = "select" /\ pc = "serve"
      /\ cursor \in active /\ cursor' = NextOf(cursor)
      /\ UNCHANGED <<engine, list, slot, aresFd, batch, bits, signal>>
  BY WalkSplit DEF Walk, AresRests, OneAtATime, ares
<1> DEFINE e == EventOf(cursor)
<1>2. /\ e.sock = cursor /\ e.from = fd[cursor]
      /\ e.ev = {d \in Directions : fd[cursor] \in bits[d]}
  BY DEF EventOf
<1> HIDE DEF e
<1>3. /\ pending' = pending \ ({e.from} \X e.ev) \/ (pending' = pending /\ e.ev = {})
      /\ \/ pc' = "ares" /\ back' = "serve"
         \/ pc' \in {"callback", "serve"} /\ back' = "loop"
  BY <1>1, WalkSplit DEF e
<1>31. Visited(cursor) BY WalkSplit, VisitOf
<1>32. \A f : Gone(f) => Gone(f)' BY <1>31 DEF Visited, Gone
<1>33. ASSUME NEW s \in active' PROVE s \in active BY <1>31 DEF Visited
<1>4. /\ list \in Seq(Socks) /\ Distinct(list) /\ Len(list) \in Nat
      /\ \A i \in 1 .. Len(list) : list[i] \in Socks
      /\ NoSock \notin Socks /\ cursor \in Live
  BY <1>1, Linked, ElementOfSeq, LenProperties
<1> DEFINE p == Position(cursor)
<1>5. p \in 1 .. Len(list) /\ list[p] = cursor BY <1>4, PositionOf
<1>6. cursor' = IF p < Len(list) THEN list[p + 1] ELSE NoSock
  BY <1>1 DEF NextOf
<1> HIDE DEF p
<1>7. ASSUME NEW s \in active
      PROVE  Behind(list, cursor', s) <=> (Behind(list, cursor, s) /\ s # cursor)
  <2>1. ASSUME Behind(list, cursor', s)
        PROVE  Behind(list, cursor, s) /\ s # cursor
    <3>1. PICK i \in 1 .. Len(list), j \in 1 .. Len(list) :
             i <= j /\ list[i] = cursor' /\ list[j] = s
      BY <2>1 DEF Behind
    <3>2. p < Len(list) /\ list[i] = list[p + 1] BY <1>4, <1>6, <3>1
    <3>3. p + 1 \in 1 .. Len(list) BY <1>4, <1>5, <3>2
    <3>4. i = p + 1 BY <1>4, <3>2, <3>3 DEF Distinct
    <3>5. p <= j /\ p # j BY <1>4, <1>5, <3>1, <3>4
    <3>6. s # cursor BY <1>4, <1>5, <3>1, <3>5 DEF Distinct
    <3> QED BY <1>5, <3>1, <3>5, <3>6 DEF Behind
  <2>2. ASSUME Behind(list, cursor, s), s # cursor
        PROVE  Behind(list, cursor', s)
    <3>1. PICK i \in 1 .. Len(list), j \in 1 .. Len(list) :
             i <= j /\ list[i] = cursor /\ list[j] = s
      BY <2>2 DEF Behind
    <3>2. i = p BY <1>4, <1>5, <3>1 DEF Distinct
    <3>3. i # j BY <2>2, <3>1
    <3>4. p + 1 \in 1 .. Len(list) /\ p + 1 <= j /\ p < Len(list)
      BY <1>4, <1>5, <3>1, <3>2, <3>3
    <3>5. list[p + 1] = cursor' BY <1>6, <3>4
    <3> QED BY <3>1, <3>4, <3>5 DEF Behind
  <2> QED BY <2>1, <2>2
<1>8. ASSUME NEW s \in active, s # cursor PROVE fd[s] # fd[cursor]
  BY <1>1, <1>8, OneOwner
<1>9. pending' \subseteq pending BY <1>3
<1>10. OneAtATime'
  BY <1>1, <1>3 DEF OneAtATime, AresRests, Resting, EventRecords
<1>11. BatchIsTrue' /\ BatchIsApart' /\ BatchIsAll'
  BY <1>1 DEF BatchIsTrue, BatchIsApart, BatchIsAll
<1>12. BitsAreOld' BY <1>1, <1>31, <1>32 DEF BitsAreOld, Visited
<1>13. AheadIsTrue'
  <2> SUFFICES ASSUME ~ signal, NEW s \in active', NEW d \in Directions,
                      Behind(list, cursor', s), fd'[s] \in bits[d]
               PROVE  <<fd'[s], d>> \in pending' \/ <<"fd", fd'[s]>> \in closed'
    BY <1>1 DEF AheadIsTrue, Gone
  <2>1. s \in active /\ Behind(list, cursor, s) /\ s # cursor BY <1>7, <1>33
  <2>4. fd'[s] = fd[s] BY <1>31, <2>1 DEF Visited
  <2>2. <<fd[s], d>> \in pending \/ <<"fd", fd[s]>> \in closed'
    BY <1>1, <1>31, <2>1, <2>4 DEF AheadIsTrue, Gone, Visited
  <2>3. fd[s] # e.from BY <1>2, <1>8, <2>1
  <2> QED BY <1>3, <2>2, <2>3, <2>4
<1>14. AheadIsAll'
  <2> DEFINE Excused(s) == \/ Behind(list, cursor', s)
                           \/ \E t \in Socks : <<"next", t>> \in closed'
                           \/ <<"fd", fd'[s]>> \in closed'
  <2> SUFFICES ASSUME NEW s \in active', NEW d \in Directions,
                      <<fd'[s], d>> \in pending'
               PROVE  Excused(s)
    BY <1>1 DEF AheadIsAll, Gone
  <2>4. s \in active BY <1>33
  <2>5. CASE fd'[s] # fd[s]
    <3>1. s = cursor /\ fd'[s] \notin opened BY <1>31, <2>4, <2>5 DEF Visited
    <3>2. fd'[s] \in Fds BY DEF TypeOK
    <3>3. fd'[s] \in bits[d] BY <1>1, <1>9, <3>2 DEF PendingHasBits
    <3>4. <<"fd", fd'[s]>> \in closed BY <3>1, <3>3 DEF BitsAreOld, Gone
    <3> QED BY <1>31, <3>4 DEF Visited
  <2> SUFFICES ASSUME fd'[s] = fd[s] PROVE Excused(s) BY <2>5
  <2>1. <<fd[s], d>> \in pending BY <1>9
  <2>2. \/ Behind(list, cursor, s)
        \/ \E t \in Socks : <<"next", t>> \in closed'
        \/ <<"fd", fd'[s]>> \in closed'
    BY <1>1, <1>31, <2>1, <2>4 DEF AheadIsAll, Gone, Visited
  <2>3. s # cursor
    <3>1. SUFFICES ASSUME s = cursor PROVE FALSE OBVIOUS
    <3>2. fd[cursor] \in Fds BY <1>1, ActiveTyped
    <3>3. fd[cursor] \in bits[d] BY <1>1, <2>1, <3>1, <3>2 DEF PendingHasBits
    <3>4. d \in e.ev BY <1>2, <3>3
    <3> QED BY <1>2, <1>3, <3>1, <3>4
  <2> QED BY <1>7, <2>2, <2>3, <2>4
<1>15. PendingHasBits' BY <1>1, <1>9 DEF PendingHasBits
<1>16. SlotNoted' /\ AresIsNew' BY <1>1, <1>31, VisitKeepsSlot
<1> QED BY <1>10, <1>11, <1>12, <1>13, <1>14, <1>15, <1>16

LEMMA EndRound ==
    ASSUME TypeOK, RoundInv, RoundEnds \/ WalkStrays PROVE RoundInv'
<1>1. back = "loop" /\ (engine = "select" => batch = <<>>)
  BY DEF RoundInv, OneAtATime, RoundEnds, WalkStrays, AresRests
<1>2. back' = "loop" /\ batch' = <<>>
  BY <1>1 DEF RoundEnds, WalkStrays
<1>3. NoRound' BY <1>2 DEF RoundEnds, WalkStrays, NoRound, NoBits
<1> QED BY <1>2, <1>3, EmptyNext

LEMMA LoopRound ==
    ASSUME TypeOK, TypeOK', RegistrationInv, RoundInv, LoopSteps \/ RefusedStep
    PROVE  RoundInv'
<1>1. ASSUME CallbackReturns \/ AresReturns \/ CallAres PROVE RoundInv'
  <2>1. Passes
    BY <1>1 DEF CallbackReturns, AresReturns, CallAres, Passes, Resting,
                AresRests, RoundInv, OneAtATime
  <2> QED BY <2>1, PassesRound
<1> QED BY <1>1, WaitRound, SelectRound, ServeNextRound, WalkRound, EndRound
        DEF LoopSteps, RefusedStep

-----------------------------------------------------------------------------
(* The invariant. *)

LEMMA Inductive ==
    /\ Init => IInv
    /\ IInv /\ [Next]_vars => IInv'
<1>1. Init => IInv
  <2>1. ASSUME Init PROVE NoRound /\ back = "loop"
    BY <2>1 DEF Init, NoRound, NoBits
  <2> QED BY <2>1, InitType, InitRegistration, Empty DEF IInv
<1>2. ASSUME IInv, Next PROVE IInv'
  <2>1. TypeOK /\ RegistrationInv /\ RoundInv BY <1>2 DEF IInv
  <2>2. TypeOK' BY <1>2, <2>1, NextTypes DEF RegistrationInv
  <2>3. RegistrationInv' BY <1>2, <2>1, NextRegistration
  <2>4. RoundInv' BY <1>2, <2>1, <2>2, Steps, LoopRound, OutsideSteps
  <2> QED BY <2>2, <2>3, <2>4 DEF IInv
<1>3. ASSUME IInv, UNCHANGED vars PROVE IInv'
  <2>1. TypeOK /\ RegistrationInv /\ RoundInv BY <1>3 DEF IInv
  <2>2. Passes
    BY <1>3 DEF vars, Passes, sockets, ares, system, round, walk, Resting, AresRests
  <2> QED BY <1>3, <2>1, <2>2, TypeStutters, RegistrationStutters, PassesRound DEF IInv
<1> QED BY <1>1, <1>2, <1>3

LEMMA Invariant == Spec => []IInv
  BY Inductive, PTL DEF Spec

(* The engines, the sockets, and what is kept of a round have their types. *)
THEOREM DispatchTypeCorrect == Spec => []TypeOK
<1>1. IInv => TypeOK BY DEF IInv
<1> QED BY <1>1, Invariant, PTL

(* What epoll and kevent have registered is what the sockets want, to be   *)
(* reported for the socket that has the number (RegisteredAsWanted).       *)
THEOREM RegistersAsWanted == Spec => []RegisteredAsWanted
<1>1. ASSUME IInv PROVE RegisteredAsWanted
  <2> SUFFICES ASSUME engine # "select", AresRests
               PROVE  /\ \A s \in active \ {t \in Live : fd[t] \in reused} :
                            interest[fd[s]] = Asked(s, wants[s])
                      /\ \A f \in Fds, d \in Directions :
                            interest[f][d] # NoSock =>
                               interest[f][d] \in active /\ fd[interest[f][d]] = f
    BY DEF RegisteredAsWanted, AresRests
  <2>1. TypeOK /\ RegistrationInv BY <1>1 DEF IInv
  <2>2. ASSUME NEW s \in active, fd[s] \notin reused
        PROVE  interest[fd[s]] = Asked(s, wants[s])
    <3>1. s = slot => fd[s] = aresFd
      BY <2>1, ActiveTyped, Linked DEF RegistrationInv, SlotAgrees
    <3> QED BY <2>1, <2>2, <3>1 DEF RegistrationInv, Registered
  <2>3. active \subseteq Live BY <2>1, Linked
  <2> QED BY <2>1, <2>2, <2>3 DEF RegistrationInv, OwnerReported
<1> QED BY <1>1, Invariant, PTL

(* An event goes to the socket that its descriptor belongs to, and tells   *)
(* what was reported and not yet served (EventsAreReal).                   *)
THEOREM EventsGoToTheirSockets == Spec => EventsAreReal
<1> DEFINE Real ==
        (Visits /\ ~ signal /\ <<"fd", Event.from>> \notin closed) =>
           /\ fd[Event.sock] = Event.from
           /\ {Event.from} \X Event.ev \subseteq pending
<1>1. ASSUME IInv, [Next]_vars PROVE [Real]_vars
  <2> SUFFICES ASSUME Next, Visits, ~ signal, <<"fd", Event.from>> \notin closed
               PROVE  /\ fd[Event.sock] = Event.from
                      /\ {Event.from} \X Event.ev \subseteq pending
    BY <1>1
  <2>1. TypeOK /\ RegistrationInv /\ RoundInv BY <1>1 DEF IInv
  <2>2. ServeNext \/ Walk
    BY DEF Next, Loop, Sockets, Ares, Wait, Select, SelectInterrupted, WalkStrays,
           RoundEnds, CallbackReturns, AresReturns, UpdateSockets, Create, Activate,
           Want, Close, UserRuns, CallAres, AresOpens, AresCloses, AresWants,
           Visits, sockets
  <2>3. CASE ServeNext
    <3>1. engine # "select" /\ batch # <<>> /\ batch \in Seq(EventRecords)
      BY <2>1, <2>3 DEF ServeNext, RoundInv, OneAtATime
    <3>2. 1 \in 1 .. Len(batch) /\ Event = batch[1]
      BY <3>1, EmptySeq, LenProperties, HeadTailProperties DEF Event
    <3> QED BY <2>1, <3>1, <3>2 DEF RoundInv, BatchIsTrue, Gone
  <2>4. CASE Walk
    <3>1. engine = "select" /\ cursor \in active BY <2>4 DEF Walk
    <3>2. /\ Event.sock = cursor /\ Event.from = fd[cursor]
          /\ Event.ev = {d \in Directions : fd[cursor] \in bits[d]}
      BY <3>1 DEF Event, EventOf
    <3>3. Behind(list, cursor, cursor)
      <4>1. cursor \in Live BY <2>1, <3>1, Linked
      <4>2. Position(cursor) \in 1 .. Len(list) /\ list[Position(cursor)] = cursor
        BY <2>1, <4>1, PositionOf
      <4> QED BY <4>2 DEF Behind
    <3>4. ASSUME NEW d \in Event.ev PROVE <<Event.from, d>> \in pending
      BY <2>1, <3>1, <3>2, <3>3 DEF RoundInv, AheadIsTrue, Gone
    <3> QED BY <3>2, <3>4
  <2> QED BY <2>2, <2>3, <2>4
<1>2. EventsAreReal <=> [][Real]_vars BY DEF EventsAreReal
<1> QED BY <1>1, <1>2, Invariant, PTL DEF Spec

(* When a round ends, every socket that is open and was reported has been  *)
(* served, unless the walk of select stopped in front of it or came to a   *)
(* socket that was freed, or its number was closed or left                 *)
(* (ReportedIsServed).                                                     *)
THEOREM ReportedAreServed == Spec => ReportedIsServed
<1> DEFINE Served ==
        RoundEnds =>
          \A s \in active :
              ({fd[s]} \X Directions) \cap pending # {} =>
                 \/ BehindInactive(s)
                 \/ \E t \in Socks : <<"next", t>> \in closed
                 \/ <<"fd", fd[s]>> \in closed
<1>1. ASSUME IInv, [Next]_vars PROVE [Served]_vars
  <2> SUFFICES ASSUME RoundEnds, NEW s \in active, NEW d \in Directions,
                      <<fd[s], d>> \in pending,
                      \A t \in Socks : <<"next", t>> \notin closed,
                      <<"fd", fd[s]>> \notin closed
               PROVE  BehindInactive(s)
    OBVIOUS
  <2>1. TypeOK /\ RegistrationInv /\ RoundInv BY <1>1 DEF IInv
  <2>2. s \in Socks /\ s \in Live /\ fd[s] \in Fds BY <2>1, ActiveTyped
  <2>3. engine = "select"
    <3>1. SUFFICES ASSUME engine # "select" PROVE FALSE OBVIOUS
    <3>2. batch = <<>> BY <3>1 DEF RoundEnds
    <3>3. Len(batch) = 0 BY <3>2
    <3> QED BY <2>1, <2>2, <3>1, <3>3 DEF RoundInv, BatchIsAll, Gone
  <2>4. Behind(list, cursor, s)
    BY <2>1, <2>3 DEF RoundInv, AheadIsAll, Gone
  <2>5. list \in Seq(Socks) /\ Distinct(list) /\ NoSock \notin Socks BY <2>1, Linked
  <2>6. PICK i \in 1 .. Len(list), j \in 1 .. Len(list) :
           i <= j /\ list[i] = cursor /\ list[j] = s
    BY <2>4 DEF Behind
  <2>7. cursor \in Socks BY <2>5, <2>6, ElementOfSeq
  <2>8. cursor \notin active BY <2>3, <2>5, <2>7 DEF RoundEnds, Stops
  <2>9. Position(s) \in 1 .. Len(list) /\ list[Position(s)] = s
    BY <2>1, <2>2, PositionOf
  <2>10. j = Position(s) BY <2>5, <2>6, <2>9 DEF Distinct
  <2>11. i # j BY <2>6, <2>8
  <2>12. i \in 1 .. Position(s) - 1 /\ list[i] \notin active
    BY <2>5, <2>6, <2>8, <2>10, <2>11, LenProperties
  <2> QED BY <2>3, <2>12 DEF BehindInactive
<1>2. ReportedIsServed <=> [][Served]_vars BY DEF ReportedIsServed
<1> QED BY <1>1, <1>2, Invariant, PTL DEF Spec
=============================================================================
