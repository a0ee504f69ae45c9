---------------------------- MODULE IOTimerProofs ----------------------------
(***************************************************************************)
(* Proofs about the timers, for any sets of timers, times and intervals.   *)
(*                                                                         *)
(* That the head is due first is a fact about the whole list, while the    *)
(* links are facts about neighbours.  The invariant connects the two by an *)
(* order of the listed timers: behind[t] are the timers that come after t. *)
(* It exists as long as no timer was linked with an old link left in it.   *)
(***************************************************************************)
EXTENDS IOTimer, TLAPS

TheListed == {t \in Timers : Listed(t)}

Orders == [Timers -> SUBSET Timers]

(* behind orders the timers of X strictly and totally. *)
OrderOf(X, behind) ==
    /\ \A u \in X, v \in X : v \in behind[u] => u \notin behind[v]
    /\ \A u \in X, v \in X : u = v \/ v \in behind[u] \/ u \in behind[v]
    /\ \A u \in X, v \in X, w \in X :
          v \in behind[u] /\ w \in behind[v] => w \in behind[u]

(* The head of l is the first timer of X, if there is one. *)
HeadIsFirst(l, X, behind) ==
    /\ l.head = NULL => X = {}
    /\ l.head # NULL => /\ l.head \in X
                        /\ l.prev[l.head] = NULL
                        /\ \A u \in X : u = l.head \/ u \in behind[l.head]

(* The next of u is the first of the timers behind u, and points back. *)
NextIsNext(l, X, behind, u) ==
    /\ l.next[u] = NULL => \A v \in X : v \notin behind[u]
    /\ l.next[u] # NULL =>
          /\ l.next[u] \in X
          /\ l.next[u] \in behind[u]
          /\ l.prev[l.next[u]] = u
          /\ \A v \in X :
                v \in behind[u] => v = l.next[u] \/ v \in behind[l.next[u]]

PrevIsPrev(l, X, u) ==
    /\ l.prev[u] = NULL => u = l.head
    /\ l.prev[u] # NULL => l.prev[u] \in X /\ l.next[l.prev[u]] = u

(* The links of l list the timers of X in the order of behind. *)
Queue(l, X, behind) ==
    /\ OrderOf(X, behind)
    /\ HeadIsFirst(l, X, behind)
    /\ \A u \in X : NextIsNext(l, X, behind, u) /\ PrevIsPrev(l, X, u)

(* None is due before one that it is behind. *)
InOrderOf(X, behind, times) ==
    \A u \in X, v \in X : v \in behind[u] => times[u] <= times[v]

(* The walk has passed only entries that are due no later than the timer. *)
Passed(X, behind) ==
    \A u \in X : \/ u = ctimer
                 \/ u \in behind[ctimer]
                 \/ timeout[u] <= timeout[timer]

-----------------------------------------------------------------------------
(* The operations on the list. *)

(* Taking a timer out sets the link before it and the link behind it. *)
LEMMA UnlinkedLinks ==
    ASSUME NEW l \in ListRecord, NEW t \in Timers
    PROVE  /\ Unlinked(l, t) \in ListRecord
           /\ Unlinked(l, t).head =
                 IF l.prev[t] = NULL THEN l.next[t] ELSE l.head
           /\ \A u \in Timers :
                /\ Unlinked(l, t).next[u] =
                      IF u = l.prev[t] THEN l.next[t] ELSE l.next[u]
                /\ Unlinked(l, t).prev[u] =
                      IF u = l.next[t] THEN l.prev[t] ELSE l.prev[u]
  BY TimerAssumption DEF Unlinked, SetBefore, SetAfter, ListRecord, Pointer,
     TimerAssumption

(* Taking a timer out leaves the others listed in their order. *)
LEMMA UnlinkedQueue ==
    ASSUME NEW l \in ListRecord, NEW X \in SUBSET Timers,
           NEW behind \in Orders, NEW t \in X, Queue(l, X, behind)
    PROVE  Queue(Unlinked(l, t), X \ {t}, behind)
  <1> DEFINE Y == X \ {t}
             k == Unlinked(l, t)
             p == l.prev[t]
             n == l.next[t]
  <1>1. t \in Timers /\ p \in Pointer /\ n \in Pointer /\ NULL \notin Timers
    BY TimerAssumption DEF ListRecord, TimerAssumption
  <1>2. /\ k.head = IF p = NULL THEN n ELSE l.head
        /\ \A u \in Timers : /\ k.next[u] = IF u = p THEN n ELSE l.next[u]
                             /\ k.prev[u] = IF u = n THEN p ELSE l.prev[u]
    BY <1>1, UnlinkedLinks
  <1>3. /\ OrderOf(X, behind)
        /\ HeadIsFirst(l, X, behind)
        /\ NextIsNext(l, X, behind, t)
        /\ PrevIsPrev(l, X, t)
    BY DEF Queue
  <1>4. t \notin behind[t] /\ p # t /\ n # t
    BY <1>3, <1>1 DEF OrderOf, NextIsNext, PrevIsPrev, Queue
  <1> HIDE DEF k
  <1>5. OrderOf(Y, behind)
    BY <1>3 DEF OrderOf
  <1>6. HeadIsFirst(k, Y, behind)
    <2>1. CASE p = NULL
      <3>1. t = l.head
        BY <1>3, <2>1 DEF PrevIsPrev
      <3>2. CASE n = NULL
        BY <1>1, <1>2, <1>3, <2>1, <3>1, <3>2 DEF HeadIsFirst, NextIsNext
      <3>3. CASE n # NULL
        BY <1>1, <1>2, <1>3, <1>4, <2>1, <3>1, <3>3 DEF HeadIsFirst, NextIsNext
      <3> QED BY <3>2, <3>3
    <2>2. CASE p # NULL
      BY <1>1, <1>2, <1>3, <1>4, <2>2
         DEF HeadIsFirst, NextIsNext, PrevIsPrev
    <2> QED BY <2>1, <2>2
  <1>7. ASSUME NEW u \in Y PROVE NextIsNext(k, Y, behind, u)
    <2>1. u \in X /\ u \in Timers /\ u # t /\ NextIsNext(l, X, behind, u)
      BY DEF Queue
    <2>2. CASE u = p
      <3>1. l.next[u] = t
        BY <1>1, <1>3, <2>1, <2>2 DEF PrevIsPrev
      <3>2. CASE n = NULL
        BY <1>1, <1>2, <1>3, <2>1, <2>2, <3>1, <3>2 DEF NextIsNext
      <3>3. CASE n # NULL
        BY <1>1, <1>2, <1>3, <1>4, <2>1, <2>2, <3>1, <3>3
           DEF NextIsNext, OrderOf
      <3> QED BY <3>2, <3>3
    <2>3. CASE u # p
      <3>1. l.next[u] # t
        BY <1>1, <2>1, <2>3 DEF NextIsNext
      <3>2. l.next[u] # NULL => l.next[u] \in Timers /\ l.next[u] # n
        BY <1>1, <1>3, <2>1 DEF NextIsNext
      <3> QED BY <1>1, <1>2, <2>1, <2>3, <3>1, <3>2 DEF NextIsNext
    <2> QED BY <2>2, <2>3
  <1>8. ASSUME NEW u \in Y PROVE PrevIsPrev(k, Y, u)
    <2>1. u \in X /\ u \in Timers /\ u # t /\ PrevIsPrev(l, X, u)
      BY DEF Queue
    <2>2. CASE u = n
      BY <1>1, <1>2, <1>3, <1>4, <2>1, <2>2
         DEF PrevIsPrev, NextIsNext, HeadIsFirst
    <2>3. CASE u # n
      <3>1. l.prev[u] # t
        BY <1>1, <2>1, <2>3 DEF PrevIsPrev
      <3>2. l.prev[u] # NULL => l.prev[u] \in Timers /\ l.prev[u] # p
        BY <1>1, <1>3, <2>1 DEF PrevIsPrev
      <3>3. l.prev[u] = NULL => p # NULL
        BY <1>3, <2>1 DEF PrevIsPrev
      <3> QED BY <1>1, <1>2, <2>1, <2>3, <3>1, <3>2, <3>3 DEF PrevIsPrev
    <2> QED BY <2>2, <2>3
  <1> QED BY <1>5, <1>6, <1>7, <1>8 DEF Queue, k

(* _trigger_timer() takes out the head as _rearrange_timer() would. *)
LEMMA PoppedIsUnlinked ==
    ASSUME NEW l \in ListRecord, l.head \in Timers, l.prev[l.head] = NULL
    PROVE  Popped(l) = Unlinked(l, l.head)
  BY DEF Popped, Unlinked, SetAfter

LEMMA PoppedLinks ==
    ASSUME NEW l \in ListRecord, l.head \in Timers
    PROVE  Popped(l) \in ListRecord
  BY TimerAssumption DEF Popped, SetBefore, ListRecord, Pointer,
     TimerAssumption

(* A timer without links is a list of its own. *)
LEMMA AloneLinks ==
    ASSUME NEW l \in ListRecord, NEW t \in Timers
    PROVE  /\ Alone(l, t) \in ListRecord
           /\ Alone(l, t).head = t
           /\ Alone(l, t).next = l.next
           /\ Alone(l, t).prev = l.prev
  BY DEF Alone, ListRecord, Pointer

LEMMA AloneQueue ==
    ASSUME NEW l \in ListRecord, NEW t \in Timers,
           l.prev[t] = NULL, l.next[t] = NULL
    PROVE  Queue(Alone(l, t), {t}, [u \in Timers |-> {}])
  <1>1. t # NULL
    BY TimerAssumption DEF TimerAssumption
  <1> QED
    BY <1>1, AloneLinks
       DEF Queue, OrderOf, HeadIsFirst, NextIsNext, PrevIsPrev

(* The last of the list gets a successor. *)
LastIn(behind, t) ==
    [u \in Timers |-> IF u = t THEN {} ELSE behind[u] \cup {t}]

LEMMA AppendedLinks ==
    ASSUME NEW l \in ListRecord, NEW c \in Timers, NEW t \in Timers
    PROVE  /\ AppendedTo(l, c, t) \in ListRecord
           /\ AppendedTo(l, c, t).head = l.head
           /\ \A u \in Timers :
                /\ AppendedTo(l, c, t).next[u] = IF u = c THEN t ELSE l.next[u]
                /\ AppendedTo(l, c, t).prev[u] = IF u = t THEN c ELSE l.prev[u]
  BY DEF AppendedTo, ListRecord, Pointer

LEMMA AppendedQueue ==
    ASSUME NEW l \in ListRecord, NEW X \in SUBSET Timers,
           NEW behind \in Orders, Queue(l, X, behind),
           NEW c \in X, NEW t \in Timers \ X,
           l.next[c] = NULL, l.next[t] = NULL
    PROVE  /\ LastIn(behind, t) \in Orders
           /\ Queue(AppendedTo(l, c, t), X \cup {t}, LastIn(behind, t))
  <1> DEFINE Y == X \cup {t}
             k == AppendedTo(l, c, t)
             b == LastIn(behind, t)
  <1>1. t \in Timers /\ c \in Timers /\ c # t /\ NULL \notin Timers
    BY TimerAssumption DEF TimerAssumption
  <1>2. /\ k.head = l.head
        /\ \A u \in Timers : /\ k.next[u] = IF u = c THEN t ELSE l.next[u]
                             /\ k.prev[u] = IF u = t THEN c ELSE l.prev[u]
    BY <1>1, AppendedLinks
  <1>3. /\ OrderOf(X, behind)
        /\ HeadIsFirst(l, X, behind)
        /\ \A u \in X : NextIsNext(l, X, behind, u) /\ PrevIsPrev(l, X, u)
    BY DEF Queue
  <1>4. /\ b \in Orders
        /\ b[t] = {}
        /\ \A u \in X : b[u] = behind[u] \cup {t}
    BY <1>1 DEF LastIn, Orders
  <1>5. \A u \in X : u = c \/ c \in behind[u]
    BY <1>3 DEF NextIsNext, OrderOf
  <1> HIDE DEF k, b
  <1>6. OrderOf(Y, b)
    BY <1>1, <1>3, <1>4 DEF OrderOf
  <1>7. HeadIsFirst(k, Y, b)
    BY <1>1, <1>2, <1>3, <1>4 DEF HeadIsFirst
  <1>8. ASSUME NEW u \in Y PROVE NextIsNext(k, Y, b, u)
    <2>1. CASE u = t
      BY <1>1, <1>2, <1>4, <2>1 DEF NextIsNext
    <2>2. CASE u = c
      BY <1>1, <1>2, <1>3, <1>4, <2>2 DEF NextIsNext
    <2>3. CASE u # t /\ u # c
      BY <1>1, <1>2, <1>3, <1>4, <1>5, <2>3 DEF NextIsNext
    <2> QED BY <2>1, <2>2, <2>3
  <1>9. ASSUME NEW u \in Y PROVE PrevIsPrev(k, Y, u)
    BY <1>1, <1>2, <1>3 DEF PrevIsPrev
  <1> QED BY <1>4, <1>6, <1>7, <1>8, <1>9 DEF Queue, k, b

(* A timer goes before c: behind all that c is behind, before the rest. *)
JustBefore(behind, c, t) ==
    [u \in Timers |->
        IF u = t THEN ({c} \cup behind[c]) \ {t}
        ELSE IF u = c \/ u \in behind[c] THEN behind[u] \ {t}
        ELSE behind[u] \cup {t}]

LEMMA InsertedLinks ==
    ASSUME NEW l \in ListRecord, NEW c \in Timers, NEW t \in Timers, c # t
    PROVE  /\ InsertedBefore(l, c, t) \in ListRecord
           /\ InsertedBefore(l, c, t).head =
                 IF l.prev[c] = NULL THEN t ELSE l.head
           /\ \A u \in Timers :
                /\ InsertedBefore(l, c, t).next[u] =
                      IF u = l.prev[c] THEN t
                      ELSE IF u = t THEN c ELSE l.next[u]
                /\ InsertedBefore(l, c, t).prev[u] =
                      IF u = c THEN t
                      ELSE IF u = t THEN l.prev[c] ELSE l.prev[u]
  BY TimerAssumption
     DEF InsertedBefore, SetAfter, ListRecord, Pointer, TimerAssumption

LEMMA InsertedQueue ==
    ASSUME NEW l \in ListRecord, NEW X \in SUBSET Timers,
           NEW behind \in Orders, Queue(l, X, behind),
           NEW c \in X, NEW t \in Timers \ X
    PROVE  /\ JustBefore(behind, c, t) \in Orders
           /\ Queue(InsertedBefore(l, c, t), X \cup {t},
                    JustBefore(behind, c, t))
  <1> DEFINE Y == X \cup {t}
             k == InsertedBefore(l, c, t)
             b == JustBefore(behind, c, t)
             p == l.prev[c]
  <1>1. t \in Timers /\ c \in Timers /\ c # t /\ NULL \notin Timers
    BY TimerAssumption DEF TimerAssumption
  <1>2. /\ k.head = IF p = NULL THEN t ELSE l.head
        /\ \A u \in Timers :
             /\ k.next[u] = IF u = p THEN t ELSE IF u = t THEN c ELSE l.next[u]
             /\ k.prev[u] = IF u = c THEN t ELSE IF u = t THEN p ELSE l.prev[u]
    BY <1>1, InsertedLinks
  <1>3. /\ OrderOf(X, behind)
        /\ HeadIsFirst(l, X, behind)
        /\ \A u \in X : NextIsNext(l, X, behind, u) /\ PrevIsPrev(l, X, u)
    BY DEF Queue
  <1>4. /\ b \in Orders
        /\ b[t] = ({c} \cup behind[c]) \ {t}
        /\ \A u \in X : b[u] = IF u = c \/ u \in behind[c]
                               THEN behind[u] \ {t} ELSE behind[u] \cup {t}
    BY <1>1 DEF JustBefore, Orders
  <1>5. p # NULL => p \in X /\ l.next[p] = c /\ c \in behind[p] /\ p # c
                    /\ p \notin behind[c]
    BY <1>1, <1>3 DEF PrevIsPrev, NextIsNext, OrderOf
  <1> HIDE DEF k, b, p
  <1>6. OrderOf(Y, b)
    <2>1. /\ t \notin b[t]
          /\ \A u \in X : u \in b[t] <=> (u = c \/ u \in behind[c])
          /\ \A u \in X : t \in b[u] <=> (u # c /\ u \notin behind[c])
          /\ \A u \in X, v \in X : v \in b[u] <=> v \in behind[u]
          /\ \A u \in Y : u = t \/ u \in X
      BY <1>1, <1>4
    <2>2. \A u \in Y, v \in Y : v \in b[u] => u \notin b[v]
      BY <1>3, <2>1 DEF OrderOf
    <2>3. ASSUME NEW v \in X PROVE v \in b[t] \/ t \in b[v]
      <3>1. v \in b[t] <=> (v = c \/ v \in behind[c])
        BY <2>1
      <3>2. t \in b[v] <=> (v # c /\ v \notin behind[c])
        BY <2>1
      <3> QED BY <3>1, <3>2
    <2>4. \A u \in X, v \in X : u = v \/ v \in b[u] \/ u \in b[v]
      BY <1>3, <2>1 DEF OrderOf
    <2>5. \A u \in Y, v \in Y : u = v \/ v \in b[u] \/ u \in b[v]
      BY <2>1, <2>3, <2>4
    <2>6. \A u \in X, v \in X, w \in X :
             v \in behind[u] /\ w \in behind[v] => w \in behind[u]
      BY <1>3 DEF OrderOf
    <2>7. ASSUME NEW v \in X, NEW w \in X, v \in b[t], w \in b[v]
          PROVE  w \in b[t]
      <3>1. v = c \/ v \in behind[c]
        BY <2>1, <2>7
      <3>2. w \in behind[v]
        BY <2>1, <2>7
      <3>3. w \in behind[c]
        BY <2>6, <3>1, <3>2
      <3> QED BY <2>1, <3>3
    <2>8. ASSUME NEW u \in X, NEW w \in X, t \in b[u], w \in b[t]
          PROVE  w \in b[u]
      <3>1. u # c /\ u \notin behind[c]
        BY <2>1, <2>8
      <3>2. c \in behind[u]
        BY <1>3, <3>1 DEF OrderOf
      <3>3. w = c \/ w \in behind[c]
        BY <2>1, <2>8
      <3>4. w \in behind[u]
        BY <2>6, <3>2, <3>3
      <3> QED BY <2>1, <3>4
    <2>9. ASSUME NEW u \in X, NEW v \in X, v \in b[u], t \in b[v]
          PROVE  t \in b[u]
      <3>1. v # c /\ v \notin behind[c]
        BY <2>1, <2>9
      <3>2. v \in behind[u]
        BY <2>1, <2>9
      <3>3. u # c /\ u \notin behind[c]
        BY <2>6, <3>1, <3>2
      <3> QED BY <2>1, <3>3
    <2>10. \A u \in X, v \in X, w \in X :
              v \in b[u] /\ w \in b[v] => w \in b[u]
      BY <2>1, <2>6
    <2>11. \A u \in Y, v \in Y, w \in Y :
              v \in b[u] /\ w \in b[v] => w \in b[u]
      BY <2>1, <2>2, <2>7, <2>8, <2>9, <2>10
    <2> QED BY <2>2, <2>5, <2>11 DEF OrderOf
  <1>7. HeadIsFirst(k, Y, b)
    <2>1. CASE p = NULL
      <3>1. c = l.head /\ t # c
        BY <1>1, <1>3, <2>1 DEF PrevIsPrev, p
      <3>2. \A u \in X : u = c \/ u \in behind[c]
        BY <1>1, <1>3, <3>1 DEF HeadIsFirst
      <3> QED BY <1>1, <1>2, <1>4, <2>1, <3>1, <3>2 DEF HeadIsFirst
    <2>2. CASE p # NULL
      <3>1. l.head \in X /\ l.head # c /\ l.prev[l.head] = NULL
            /\ k.head = l.head
        BY <1>1, <1>2, <1>3, <2>2 DEF HeadIsFirst, p
      <3>2. l.head \notin behind[c]
        BY <1>1, <1>3, <3>1 DEF HeadIsFirst, OrderOf
      <3>3. b[l.head] = behind[l.head] \cup {t}
        BY <1>4, <3>1, <3>2
      <3> QED BY <1>1, <1>2, <1>3, <3>1, <3>3 DEF HeadIsFirst
    <2> QED BY <2>1, <2>2
  <1>8. ASSUME NEW u \in Y PROVE NextIsNext(k, Y, b, u)
    <2>1. CASE u = t
      <3>1. k.next[u] = c /\ k.prev[c] = t
        BY <1>1, <1>2, <1>5, <2>1
      <3> QED BY <1>1, <1>4, <2>1, <3>1 DEF NextIsNext
    <2>2. CASE u = p
      <3>1. u \in X /\ u # t /\ k.next[u] = t /\ k.prev[t] = u
        BY <1>1, <1>2, <1>5, <2>2
      <3>2. b[u] = behind[u] \cup {t}
        BY <1>1, <1>4, <1>5, <2>2, <3>1
      <3>3. \A v \in X : v \in behind[u] => v = c \/ v \in behind[c]
        BY <1>1, <1>3, <1>5, <2>2, <3>1 DEF NextIsNext
      <3> QED BY <1>1, <1>4, <3>1, <3>2, <3>3 DEF NextIsNext
    <2>3. CASE u # t /\ u # p
      <3>1. u \in X /\ k.next[u] = l.next[u] /\ NextIsNext(l, X, behind, u)
        BY <1>1, <1>2, <1>3, <2>3
      <3>2. l.next[u] # c
        BY <1>1, <2>3, <3>1 DEF NextIsNext, p
      <3>3. CASE u = c \/ u \in behind[c]
        <4>1. b[u] = behind[u] \ {t}
          BY <1>4, <3>1, <3>3
        <4>2. l.next[u] # NULL =>
                /\ l.next[u] \in X /\ l.next[u] \in behind[u]
                /\ l.next[u] \in behind[c]
          BY <1>3, <3>1, <3>3 DEF NextIsNext, OrderOf
        <4>3. l.next[u] # NULL => b[l.next[u]] = behind[l.next[u]] \ {t}
          BY <1>4, <4>2
        <4>4. l.next[u] # NULL => k.prev[l.next[u]] = u
          BY <1>1, <1>2, <3>1, <3>2, <4>2 DEF NextIsNext
        <4> QED BY <1>1, <3>1, <4>1, <4>2, <4>3, <4>4 DEF NextIsNext
      <3>4. CASE ~ (u = c \/ u \in behind[c])
        <4>1. c \in behind[u] /\ b[u] = behind[u] \cup {t}
          BY <1>3, <1>4, <3>1, <3>4 DEF OrderOf
        <4>2. /\ l.next[u] # NULL
              /\ l.next[u] \in X
              /\ c \in behind[l.next[u]]
          BY <3>1, <3>2, <4>1 DEF NextIsNext
        <4>3. b[l.next[u]] = behind[l.next[u]] \cup {t}
          BY <1>3, <1>4, <3>2, <4>2 DEF OrderOf
        <4> QED BY <1>1, <1>2, <3>1, <3>2, <4>1, <4>2, <4>3 DEF NextIsNext
      <3> QED BY <3>3, <3>4
    <2> QED BY <2>1, <2>2, <2>3
  <1>9. ASSUME NEW u \in Y PROVE PrevIsPrev(k, Y, u)
    <2>1. CASE u = t
      BY <1>1, <1>2, <1>5, <2>1 DEF PrevIsPrev
    <2>2. CASE u = c
      BY <1>1, <1>2, <1>5, <2>2 DEF PrevIsPrev
    <2>3. CASE u # t /\ u # c
      <3>1. u \in X /\ k.prev[u] = l.prev[u] /\ PrevIsPrev(l, X, u)
        BY <1>1, <1>2, <1>3, <2>3
      <3>2. l.prev[u] # NULL => l.prev[u] # p
        BY <1>1, <1>5, <2>3, <3>1 DEF PrevIsPrev
      <3>3. l.prev[u] = NULL => p # NULL
        BY <1>3, <2>3, <3>1 DEF PrevIsPrev, p
      <3> QED BY <1>1, <1>2, <2>3, <3>1, <3>2, <3>3 DEF PrevIsPrev
    <2> QED BY <2>1, <2>2, <2>3
  <1> QED BY <1>4, <1>6, <1>7, <1>8, <1>9 DEF Queue, k, b

-----------------------------------------------------------------------------
(* The invariant, in three parts: what holds always, what holds while each *)
(* timer is linked once, and what holds as long as no old link was used.   *)

(* Who runs, and for whom: a walk returns to where it was called. *)
Turns ==
    /\ pc # "walk" => back = "user"
    /\ (pc \in {"user", "trigger"} \/ (pc = "walk" /\ back = "user"))
          => fired = NULL
    /\ pc = "walk" => /\ state[timer] = "open"
                      /\ Has(timer, "ACTIVE")
                      /\ ~ Listed(timer)

(* A timer that was not created, or was destroyed, has no flags. *)
Unborn == \A t \in Timers : state[t] # "open" => flags[t] = {}

Always == TypeOK /\ Turns /\ Unborn

WhileLinkedOnce ==
    ~ Rearming =>
        /\ ~ stale
        /\ ActiveIsListed
        /\ \A t \in Timers : ~ Has(t, "PERIODIC")
        /\ \A t \in Timers \ linked : /\ ~ Listed(t)
                                      /\ list.prev[t] = NULL
                                      /\ list.next[t] = NULL
        /\ pc = "walk" => timer \notin linked

(* The list has the timers with IN_LIST in an order that their due times   *)
(* respect, and the walk is where it should be.                            *)
Shaped(behind) ==
    /\ Queue(list, TheListed, behind)
    /\ InOrderOf(TheListed, behind, timeout)
    /\ pc = "walk" => ctimer \in TheListed /\ Passed(TheListed, behind)

WhileNotStale == ~ stale => \E behind \in Orders : Shaped(behind)

IInv == Always /\ WhileLinkedOnce /\ WhileNotStale

(* In the initial state no timer is listed. *)
LEMMA InitIInv == Init => IInv
  <1> SUFFICES ASSUME Init PROVE IInv
    OBVIOUS
  <1> USE TimerAssumption DEF TimerAssumption, Init
  <1>1. TypeOK
    <2>1. list \in ListRecord
      BY DEF ListRecord, Pointer
    <2>2. now \in 1 .. MaxTime
      OBVIOUS
    <2>3. (pc = "walk") = (timer # NULL) /\ (pc = "walk") = (ctimer # NULL)
      OBVIOUS
    <2> QED BY <2>1, <2>2, <2>3 DEF TypeOK, Pointer
  <1>2. Turns /\ Unborn
    BY DEF Turns, Unborn
  <1>3. WhileLinkedOnce
    BY DEF WhileLinkedOnce, ActiveIsListed, Has, Listed
  <1>4. TheListed = {} /\ list.head = NULL
    BY DEF TheListed, Listed, Has
  <1>5. [t \in Timers |-> {}] \in Orders
    BY DEF Orders
  <1>6. Shaped([t \in Timers |-> {}])
    BY <1>4 DEF Shaped, Queue, OrderOf, HeadIsFirst, InOrderOf
  <1> QED BY <1>1, <1>2, <1>3, <1>5, <1>6 DEF IInv, Always, WhileNotStale

-----------------------------------------------------------------------------
(* What holds always. *)

LEMMA WithoutTyped ==
    ASSUME TypeOK, NEW t \in Timers
    PROVE  Without(t) \in ListRecord
  BY UnlinkedLinks DEF Without, TypeOK

(* What _rearrange_timer(t) leaves alone, and where it goes on. *)
Rearranged(t, f, r) ==
    /\ list' \in ListRecord
    /\ flags' \in [Timers -> SUBSET Flags]
    /\ \A u \in Timers : u # t => flags'[u] = flags[u]
    /\ flags'[t] = f \/ (flags'[t] = InList(f) /\ "ACTIVE" \in f)
    /\ \/ /\ pc' = r
          /\ timer' = NULL /\ ctimer' = NULL /\ back' = "user"
       \/ /\ pc' = "walk"
          /\ timer' = t /\ ctimer' \in Timers /\ back' = r
          /\ "ACTIVE" \in f /\ flags'[t] = f
    /\ linked' \subseteq Timers
    /\ stale' \in BOOLEAN

LEMMA RearrangeLeaves ==
    ASSUME TypeOK, Turns, pc # "walk",
           NEW l \in ListRecord, NEW t \in Timers, NEW f \in SUBSET Flags,
           NEW r \in {"user", "callback"}, Rearrange(l, t, f, r)
    PROVE  Rearranged(t, f, r)
  <1>1. timer = NULL /\ ctimer = NULL /\ back = "user"
    BY DEF TypeOK, Turns
  <1>2. Alone(l, t) \in ListRecord
    BY AloneLinks
  <1>3. InList(f) \in SUBSET Flags
    BY DEF InList, Flags
  <1>4. l.head \in Pointer
    BY DEF ListRecord
  <1> QED
    BY <1>1, <1>2, <1>3, <1>4
       DEF Rearrange, Rearranged, LinkedInto, walk, history, TypeOK, Pointer

LEMMA RearrangeAlways ==
    ASSUME Always, NEW t \in Timers, NEW f \in SUBSET Flags,
           NEW r \in {"user", "callback"}, Rearranged(t, f, r),
           "IN_LIST" \notin f, state[t] = "open",
           now' = now, state' = state,
           timeout' \in [Timers -> Nat],
           autoreload' \in [Timers -> Periods \cup {0}],
           IF r = "user" THEN fired' = NULL ELSE fired' \in Timers
    PROVE  Always'
  <1> USE TimerAssumption DEF TimerAssumption, Always
  <1>1. TypeOK'
    <2>1. InList(f) \in SUBSET Flags
      BY DEF InList, Flags
    <2>2. /\ pc' \in {"user", "walk", "callback"}
          /\ timer' \in Pointer /\ ctimer' \in Pointer /\ fired' \in Pointer
          /\ back' \in {"user", "callback"}
          /\ pc' = "callback" \/ back' = "callback" => fired' # NULL
      BY DEF Rearranged, Pointer
    <2>3. /\ pc' = "walk" <=> timer' # NULL
          /\ pc' = "walk" <=> ctimer' # NULL
      BY DEF Rearranged
    <2> QED BY <2>1, <2>2, <2>3 DEF TypeOK, Rearranged
  <1>2. Turns'
    BY DEF TypeOK, Turns, Rearranged, Has, Listed
  <1>3. Unborn'
    BY DEF TypeOK, Unborn, Rearranged
  <1> QED BY <1>1, <1>2, <1>3

LEMMA DestroyAlways ==
    ASSUME Always, NEW t \in Timers, DestroyTimer(t), pc # "walk",
           pc' \in {"user", "callback", "trigger"},
           IF pc' = "callback" THEN fired' \in Timers ELSE fired' = NULL
    PROVE  Always'
  <1> USE TimerAssumption DEF TimerAssumption, Always, DestroyTimer
  <1>1. TypeOK'
    BY WithoutTyped DEF TypeOK, Turns, Pointer, walk, history
  <1>2. Turns'
    BY DEF Turns, walk
  <1>3. Unborn'
    BY DEF TypeOK, Unborn
  <1> QED BY <1>1, <1>2, <1>3

-----------------------------------------------------------------------------
(* What the actions do to the list, told by the timer they are about. *)

(* A call of _rearrange_timer(t), with what its caller changes. *)
Relinks(t) ==
    /\ pc # "walk" /\ state[t] = "open"
    /\ UNCHANGED <<now, state>>
    /\ timeout' \in [Timers -> Nat]
    /\ \A u \in Timers : u # t => timeout'[u] = timeout[u]
    /\ autoreload' \in [Timers -> Periods \cup {0}]
    /\ ~ Rearming => fired' = fired
    /\ \E l \in ListRecord, f \in SUBSET Flags, r \in {"user", "callback"} :
          /\ Rearrange(l, t, f, r)
          /\ ~ stale => l = Without(t)
          /\ "IN_LIST" \notin f
          /\ IF r = "user" THEN fired' = NULL ELSE fired' \in Timers
          /\ ~ Rearming => /\ "PERIODIC" \notin f
                           /\ "ACTIVE" \in f => t \notin linked

(* The timer is destroyed by user code or after its callback. *)
Destroys(t) ==
    /\ DestroyTimer(t)
    /\ pc # "walk" /\ pc' \in {"user", "callback", "trigger"}
    /\ IF pc' = "callback" THEN fired' \in Timers ELSE fired' = NULL
    /\ fired' = fired \/ t = fired

(* The clock, the turn, and what the list does not depend on. *)
Keeps ==
    /\ UNCHANGED <<list, timer, ctimer, back, linked, stale>>
    /\ now' \in 1 .. MaxTime
    /\ state' \in [Timers -> {"none", "open", "destroyed"}]
    /\ flags' \in [Timers -> SUBSET Flags]
    /\ timeout' \in [Timers -> Nat]
    /\ autoreload' \in [Timers -> Periods \cup {0}]
    /\ \A u \in Timers :
          /\ state'[u] = state[u] \/ state'[u] = "open"
          /\ flags'[u] = flags[u] \/ state[u] = "open"
          /\ state[u] = "open" => state'[u] = "open"
          /\ timeout'[u] = timeout[u] \/ flags[u] = {}
          /\ "ACTIVE" \in flags'[u] => "ACTIVE" \in flags[u]
          /\ "ACTIVE" \in flags[u] => "ACTIVE" \in flags'[u]
          /\ "IN_LIST" \in flags'[u] => "IN_LIST" \in flags[u]
          /\ "IN_LIST" \in flags[u] => "IN_LIST" \in flags'[u]
          /\ ~ Rearming /\ "PERIODIC" \in flags'[u] => "PERIODIC" \in flags[u]
    /\ \/ pc' = pc /\ fired' = fired
       \/ pc \in {"user", "trigger"} /\ pc' \in {"user", "trigger"}
          /\ fired' = fired
       \/ /\ pc = "callback" /\ pc' = "trigger" /\ fired' = NULL
          /\ ~ Rearming => state[fired] # "open"

LEMMA KeepsAlways ==
    ASSUME Always, Keeps
    PROVE  Always'
  <1> USE TimerAssumption DEF TimerAssumption, Always, Keeps
  <1>1. TypeOK'
    <2>1. (pc' = "walk" <=> pc = "walk") /\ pc' \in {"user", "walk", "trigger", "callback"}
      BY DEF TypeOK
    <2>2. /\ fired' \in Pointer
          /\ pc' = "callback" \/ back' = "callback" => fired' # NULL
      BY DEF TypeOK, Turns, Pointer
    <2>3. (pc' = "walk") = (timer' # NULL) /\ (pc' = "walk") = (ctimer' # NULL)
      BY <2>1 DEF TypeOK
    <2> QED BY <2>1, <2>2, <2>3 DEF TypeOK
  <1>2. Turns'
    BY DEF TypeOK, Turns, Has, Listed, Pointer
  <1>3. Unborn'
    BY DEF TypeOK, Unborn
  <1> QED BY <1>1, <1>2, <1>3

(* The calls that rearrange a timer. *)
LEMMA StartRelinks ==
    ASSUME IInv, NEW t \in Timers, Start(t)
    PROVE  Relinks(t)
  <1>1. TypeOK /\ Turns /\ WhileLinkedOnce
    BY DEF IInv, Always
  <1>2. PICK l \in ListRecord, f \in SUBSET Flags, r \in {"user", "callback"} :
           /\ l = Without(t)
           /\ f = (flags[t] \ {"IN_LIST"}) \cup {"ACTIVE"}
           /\ r = pc
    <2>1. (flags[t] \ {"IN_LIST"}) \cup {"ACTIVE"} \in SUBSET Flags
      BY <1>1 DEF TypeOK, Flags
    <2> QED BY <1>1, <2>1, WithoutTyped DEF Start, UserCalls
  <1>3. Rearrange(l, t, f, r)
    BY <1>2 DEF Start
  <1> QED
    BY <1>1, <1>2, <1>3
       DEF Relinks, Start, UserCalls, MayLink, TypeOK, Turns, WhileLinkedOnce,
           Has, Pointer

LEMMA SetTimeoutRelinks ==
    ASSUME IInv, NEW t \in Timers, NEW to \in Timeouts, SetTimeout(t, to)
    PROVE  Relinks(t)
  <1>1. TypeOK /\ Turns /\ WhileLinkedOnce
    BY DEF IInv, Always
  <1>2. PICK l \in ListRecord, f \in SUBSET Flags, r \in {"user", "callback"} :
           /\ l = Without(t)
           /\ f = flags[t] \ {"IN_LIST"}
           /\ r = pc
    <2>1. flags[t] \ {"IN_LIST"} \in SUBSET Flags
      BY <1>1 DEF TypeOK, Flags
    <2> QED BY <1>1, <2>1, WithoutTyped DEF SetTimeout, UserCalls
  <1>3. Rearrange(l, t, f, r)
    BY <1>2 DEF SetTimeout
  <1> QED
    BY <1>1, <1>2, <1>3, TimerAssumption
       DEF Relinks, SetTimeout, UserCalls, MayLink, TypeOK, Turns,
           WhileLinkedOnce, Has, Pointer, TimerAssumption

LEMMA SetAutoreloadRelinks ==
    ASSUME IInv, NEW t \in Timers, NEW p \in Periods, SetAutoreload(t, p)
    PROVE  Relinks(t) \/ Keeps
  <1>1. TypeOK /\ Turns /\ WhileLinkedOnce
    BY DEF IInv, Always
  <1>2. CASE timeout[t] = 0
    <2>1. PICK l \in ListRecord, f \in SUBSET Flags,
               r \in {"user", "callback"} :
             /\ l = Without(t)
             /\ f = (flags[t] \ {"IN_LIST"}) \cup {"PERIODIC"}
             /\ r = pc
      <3>1. (flags[t] \ {"IN_LIST"}) \cup {"PERIODIC"} \in SUBSET Flags
        BY <1>1 DEF TypeOK, Flags
      <3> QED BY <1>1, <3>1, WithoutTyped DEF SetAutoreload, UserCalls
    <2>2. Rearrange(l, t, f, r)
      BY <1>2, <2>1 DEF SetAutoreload
    <2>3. now + p \in Nat /\ Rearming
      BY <1>1, TimerAssumption DEF SetAutoreload, TypeOK, TimerAssumption
    <2> QED
      BY <1>1, <1>2, <2>1, <2>2, <2>3
         DEF Relinks, SetAutoreload, UserCalls, TypeOK, Turns, Pointer
  <1>3. CASE timeout[t] # 0
    BY <1>1, <1>3
       DEF Keeps, SetAutoreload, UserCalls, TypeOK, walk, history, Flags
  <1> QED BY <1>2, <1>3

LEMMA StopRelinks ==
    ASSUME IInv, NEW t \in Timers, Stop(t)
    PROVE  Relinks(t) \/ Destroys(t)
  <1>1. TypeOK /\ Turns /\ WhileLinkedOnce
    BY DEF IInv, Always
  <1>2. CASE Has(t, "PERSISTENT")
    <2>1. PICK l \in ListRecord, f \in SUBSET Flags,
               r \in {"user", "callback"} :
             /\ l = Without(t)
             /\ f = flags[t] \ {"IN_LIST", "ACTIVE"}
             /\ r = pc
      <3>1. flags[t] \ {"IN_LIST", "ACTIVE"} \in SUBSET Flags
        BY <1>1 DEF TypeOK, Flags
      <3> QED BY <1>1, <3>1, WithoutTyped DEF Stop, UserCalls
    <2>2. Rearrange(l, t, f, r)
      BY <1>2, <2>1 DEF Stop
    <2> QED
      BY <1>1, <1>2, <2>1, <2>2
         DEF Relinks, Stop, UserCalls, TypeOK, Turns, WhileLinkedOnce, Has,
             Pointer
  <1>3. CASE ~ Has(t, "PERSISTENT")
    BY <1>1, <1>3 DEF Destroys, Stop, UserCalls, TypeOK, Turns, Pointer
  <1> QED BY <1>2, <1>3

(* As long as no old link was used, the head is a listed timer. *)
LEMMA HeadIsListed ==
    ASSUME IInv, ~ stale, list.head # NULL
    PROVE  /\ list.head \in TheListed
           /\ list.prev[list.head] = NULL
  BY DEF IInv, WhileNotStale, Shaped, Queue, HeadIsFirst

LEMMA PoppedWithout ==
    ASSUME IInv, list.head # NULL
    PROVE  /\ list.head \in Timers
           /\ Popped(list) \in ListRecord
           /\ ~ stale => Popped(list) = Without(list.head)
  <1>1. list \in ListRecord /\ list.head \in Timers
    BY DEF IInv, Always, TypeOK, ListRecord, Pointer
  <1>2. ~ stale => Listed(list.head) /\ list.prev[list.head] = NULL
    BY HeadIsListed DEF TheListed
  <1> QED BY <1>1, <1>2, PoppedIsUnlinked, PoppedLinks DEF Without

LEMMA FirePeriodicRelinks ==
    ASSUME IInv, FirePeriodic
    PROVE  list.head \in Timers /\ Relinks(list.head)
  <1>1. TypeOK /\ Turns /\ Unborn /\ WhileLinkedOnce
    BY DEF IInv, Always
  <1>2. PICK t \in Timers, l \in ListRecord, f \in SUBSET Flags,
             r \in {"user", "callback"} :
           /\ t = list.head
           /\ l = Popped(list)
           /\ f = flags[t] \ {"IN_LIST"}
           /\ r = "callback"
    <2>1. flags[list.head] \ {"IN_LIST"} \in SUBSET Flags
      BY <1>1, PoppedWithout DEF TypeOK, Flags, FirePeriodic
    <2> QED BY <2>1, PoppedWithout DEF FirePeriodic
  <1>3. Rearrange(l, t, f, r)
    BY <1>2 DEF FirePeriodic
  <1>4. Rearming /\ state[t] = "open"
    BY <1>1, <1>2 DEF FirePeriodic, WhileLinkedOnce, Unborn, Has
  <1>5. ~ stale => l = Without(t)
    BY <1>2, PoppedWithout DEF FirePeriodic
  <1>6. timeout[t] + autoreload[t] \in Nat
    <2>1. timeout[t] \in Nat /\ autoreload[t] \in Periods \cup {0}
      BY <1>1 DEF TypeOK
    <2>2. Periods \cup {0} \subseteq Nat
      BY TimerAssumption DEF TimerAssumption
    <2>3. autoreload[t] \in Nat
      BY <2>1, <2>2
    <2> QED BY <2>1, <2>3
  <1>7. timeout' = [timeout EXCEPT ![t] = timeout[t] + autoreload[t]]
        /\ fired' = t
    BY <1>2 DEF FirePeriodic
  <1>8. /\ pc # "walk" /\ now' = now /\ state' = state
        /\ autoreload' \in [Timers -> Periods \cup {0}]
    BY <1>1 DEF FirePeriodic, TypeOK
  <1>9. /\ timeout' \in [Timers -> Nat]
        /\ \A u \in Timers : u # t => timeout'[u] = timeout[u]
    BY <1>1, <1>6, <1>7 DEF TypeOK
  <1>10. "IN_LIST" \notin f
    BY <1>2
  <1>11. Relinks(t)
    BY <1>2, <1>3, <1>4, <1>5, <1>7, <1>8, <1>9, <1>10 DEF Relinks
  <1> QED BY <1>2, <1>11

(* Every step is of one of these kinds. *)
LEMMA Steps ==
    ASSUME IInv, [Next]_vars
    PROVE  \/ \E t \in Timers : Relinks(t) \/ Destroys(t)
           \/ WalkInsert \/ WalkAppend \/ WalkOn
           \/ FireOneShot
           \/ Keeps
  <1>1. TypeOK /\ Turns /\ Unborn /\ WhileLinkedOnce
    BY DEF IInv, Always
  <1>2. ASSUME NEW t \in Timers, NEW to \in Timeouts, Create(t, to)
        PROVE  Keeps
    BY <1>1, <1>2, TimerAssumption
       DEF Create, Keeps, TypeOK, Unborn, walk, history, TimerAssumption
  <1>3. ASSUME NEW t \in Timers, Destroy(t)
        PROVE  Destroys(t)
    BY <1>1, <1>3
       DEF Destroy, Destroys, UserCalls, TypeOK, Turns, Pointer
  <1>4. ASSUME NEW t \in Timers, ClearAutoreload(t)
        PROVE  Keeps
    BY <1>1, <1>4
       DEF ClearAutoreload, SetFlags, UserCalls, Keeps, TypeOK, walk, history
  <1>5. ASSUME NEW t \in Timers, SetPersistent(t)
        PROVE  Keeps
    BY <1>1, <1>5
       DEF SetPersistent, SetFlags, UserCalls, Keeps, TypeOK, walk, history,
           Flags
  <1>6. ASSUME NEW t \in Timers, ClearPersistent(t)
        PROVE  Keeps
    BY <1>1, <1>6
       DEF ClearPersistent, SetFlags, UserCalls, Keeps, TypeOK, walk, history
  <1>7. ASSUME NEW t \in Timers, UserCall(t)
        PROVE  Relinks(t) \/ Destroys(t) \/ Keeps
    BY <1>2, <1>3, <1>4, <1>5, <1>6, <1>7, StartRelinks, SetTimeoutRelinks,
       SetAutoreloadRelinks, StopRelinks DEF UserCall
  <1>8. CASE UNCHANGED vars
    BY <1>1, <1>8 DEF Keeps, TypeOK, vars, fields, walk, history
  <1>9. CASE TriggerBegin \/ TriggerEnd
    BY <1>1, <1>9
       DEF TriggerBegin, TriggerEnd, Keeps, TypeOK, fields, walk, history
  <1>10. CASE Tick
    BY <1>1, <1>10, TimerAssumption
       DEF Tick, Keeps, TypeOK, fields, walk, history, TimerAssumption
  <1>11. CASE CallbackReturns
    <2>1. fired \in Timers
      BY <1>1, <1>11 DEF CallbackReturns, TypeOK, Pointer
    <2>2. CASE state[fired] = "open" /\ ~ Has(fired, "PERIODIC")
      <3>1. DestroyTimer(fired) /\ pc = "callback" /\ pc' = "trigger"
            /\ fired' = NULL
        BY <1>11, <2>2 DEF CallbackReturns
      <3>2. PICK t \in Timers : t = fired
        BY <2>1
      <3>3. Destroys(t)
        BY <3>1, <3>2 DEF Destroys
      <3> QED BY <3>3
    <2>3. CASE ~ (state[fired] = "open" /\ ~ Has(fired, "PERIODIC"))
      BY <1>1, <1>11, <2>1, <2>3
         DEF CallbackReturns, Keeps, TypeOK, WhileLinkedOnce, fields, walk,
             history
    <2> QED BY <2>2, <2>3
  <1> QED
    BY <1>7, <1>8, <1>9, <1>10, <1>11, FirePeriodicRelinks
       DEF Next, Walk, Trigger, TriggerSkipped

LEMMA RelinksAlways ==
    ASSUME IInv, NEW t \in Timers, Relinks(t)
    PROVE  Always'
  <1>1. Always /\ TypeOK /\ Turns
    BY DEF IInv, Always
  <1>2. PICK l \in ListRecord, f \in SUBSET Flags, r \in {"user", "callback"} :
           /\ Rearrange(l, t, f, r)
           /\ "IN_LIST" \notin f
           /\ IF r = "user" THEN fired' = NULL ELSE fired' \in Timers
    BY DEF Relinks
  <1>3. Rearranged(t, f, r)
    BY <1>1, <1>2, RearrangeLeaves DEF Relinks
  <1> QED BY <1>1, <1>2, <1>3, RearrangeAlways DEF Relinks

LEMMA WalkDoneAlways ==
    ASSUME Always, pc = "walk", WalkDone, list' \in ListRecord,
           linked' = linked \cup {timer}, stale' \in BOOLEAN
    PROVE  Always'
  <1>1. TypeOK /\ Turns /\ Unborn /\ timer \in Timers
    BY DEF Always, TypeOK, Pointer
  <1>2. InList(flags[timer]) \in SUBSET Flags
    BY <1>1 DEF TypeOK, InList, Flags
  <1>3. flags' = [flags EXCEPT ![timer] = InList(flags[timer])]
    BY DEF WalkDone
  <1>4. (pc' = "walk") = (timer' # NULL) /\ (pc' = "walk") = (ctimer' # NULL)
    BY <1>1 DEF WalkDone, TypeOK
  <1>5. TypeOK'
    BY <1>1, <1>2, <1>3, <1>4 DEF WalkDone, TypeOK, Pointer
  <1>6. Turns'
    BY <1>1 DEF WalkDone, TypeOK, Turns
  <1>7. Unborn'
    BY <1>1, <1>3 DEF WalkDone, TypeOK, Turns, Unborn
  <1> QED BY <1>5, <1>6, <1>7 DEF Always

LEMMA AlwaysHolds ==
    ASSUME IInv, [Next]_vars
    PROVE  Always'
  <1>1. Always /\ TypeOK /\ Turns /\ Unborn
    BY DEF IInv, Always
  <1>2. ASSUME NEW t \in Timers, Destroys(t) PROVE Always'
    BY <1>1, <1>2, DestroyAlways DEF Destroys
  <1>3. CASE WalkInsert
    <2>1. ctimer \in Timers /\ timer \in Timers /\ list \in ListRecord
      BY <1>1, <1>3 DEF WalkInsert, TypeOK, Pointer
    <2>2. ctimer # timer
      BY <1>1, <1>3, <2>1 DEF WalkInsert, IsBigger, TypeOK
    <2>3. PICK l, c, t : l = list /\ c = ctimer /\ t = timer
      OBVIOUS
    <2>4. InsertedBefore(l, c, t) \in ListRecord
      BY <2>1, <2>2, <2>3, InsertedLinks
    <2>5. list' \in ListRecord
      BY <1>3, <2>3, <2>4 DEF WalkInsert, LinkedInto
    <2> QED
      BY <1>1, <1>3, <2>5, WalkDoneAlways
         DEF WalkInsert, LinkedInto, TypeOK
  <1>4. CASE WalkAppend
    <2>1. ctimer \in Timers /\ timer \in Timers /\ list \in ListRecord
      BY <1>1, <1>4 DEF WalkAppend, TypeOK, Pointer
    <2>2. PICK l, c, t : l = list /\ c = ctimer /\ t = timer
      OBVIOUS
    <2>3. AppendedTo(l, c, t) \in ListRecord
      BY <2>1, <2>2, AppendedLinks
    <2>4. list' \in ListRecord
      BY <1>4, <2>2, <2>3 DEF WalkAppend, LinkedInto
    <2> QED
      BY <1>1, <1>4, <2>4, WalkDoneAlways
         DEF WalkAppend, LinkedInto, TypeOK
  <1>5. CASE WalkOn
    <2>1. ctimer' \in Timers
      BY <1>1, <1>5 DEF WalkOn, TypeOK, ListRecord, Pointer
    <2>2. TypeOK'
      BY <1>1, <1>5, <2>1, TimerAssumption
         DEF WalkOn, TypeOK, fields, history, Pointer, TimerAssumption
    <2>3. Turns' /\ Unborn'
      BY <1>1, <1>5
         DEF WalkOn, Turns, Unborn, fields, Has, Listed
    <2> QED BY <2>2, <2>3 DEF Always
  <1>6. CASE FireOneShot
    <2>1. list.head \in Timers /\ list' \in ListRecord
      BY <1>6, PoppedWithout DEF FireOneShot
    <2>2. TypeOK'
      BY <1>1, <1>6, <2>1, TimerAssumption
         DEF FireOneShot, TypeOK, Pointer, walk, history, TimerAssumption
    <2>3. Turns' /\ Unborn'
      BY <1>1, <1>6, <2>1 DEF FireOneShot, Turns, Unborn, TypeOK, walk
    <2> QED BY <2>2, <2>3 DEF Always
  <1> QED
    BY <1>1, <1>2, <1>3, <1>4, <1>5, <1>6, Steps, RelinksAlways, KeepsAlways

-----------------------------------------------------------------------------
(* While each timer is linked once. *)

(* Taking a timer out touches no timer that was never linked. *)
LEMMA WithoutFresh ==
    ASSUME IInv, ~ Rearming, NEW t \in Timers, NEW u \in Timers \ linked
    PROVE  /\ Without(t).prev[u] = NULL
           /\ Without(t).next[u] = NULL
           /\ t \notin linked => Without(t) = list
  <1>1. TypeOK /\ WhileLinkedOnce
    BY DEF IInv, Always
  <1>2. list.prev[u] = NULL /\ list.next[u] = NULL
    BY <1>1 DEF WhileLinkedOnce
  <1>3. t \notin linked => ~ Listed(t)
    BY <1>1 DEF WhileLinkedOnce
  <1>4. CASE ~ Listed(t)
    BY <1>2, <1>4 DEF Without
  <1>5. CASE Listed(t)
    <2>1. PICK behind \in Orders : Shaped(behind)
      BY <1>1 DEF IInv, WhileNotStale, WhileLinkedOnce
    <2>2. t \in TheListed /\ TheListed \subseteq linked
      BY <1>1, <1>5 DEF TheListed, WhileLinkedOnce
    <2>3. PICK l \in ListRecord : l = list
      BY <1>1 DEF TypeOK
    <2>4. /\ l.prev[t] # NULL => l.prev[t] \in linked
          /\ l.next[t] # NULL => l.next[t] \in linked
      BY <2>1, <2>2, <2>3 DEF Shaped, Queue, NextIsNext, PrevIsPrev
    <2>5. u # NULL
      BY TimerAssumption DEF TimerAssumption
    <2>6. Unlinked(l, t).prev[u] = NULL /\ Unlinked(l, t).next[u] = NULL
      BY <1>2, <2>3, <2>4, <2>5, UnlinkedLinks
    <2> QED BY <1>3, <1>5, <2>3, <2>6 DEF Without
  <1> QED BY <1>4, <1>5

LEMMA RelinksOnce ==
    ASSUME IInv, NEW t \in Timers, Relinks(t), ~ Rearming
    PROVE  WhileLinkedOnce'
  <1>1. TypeOK /\ Turns /\ WhileLinkedOnce
    BY DEF IInv, Always
  <1>2. ~ stale
    BY <1>1 DEF WhileLinkedOnce
  <1>3. PICK l \in ListRecord, f \in SUBSET Flags, r \in {"user", "callback"} :
           /\ Rearrange(l, t, f, r)
           /\ l = Without(t)
           /\ "IN_LIST" \notin f /\ "PERIODIC" \notin f
           /\ "ACTIVE" \in f => t \notin linked
    BY <1>2 DEF Relinks
  <1>4. Rearranged(t, f, r)
    BY <1>1, <1>3, RearrangeLeaves DEF Relinks
  <1>5. \A u \in Timers \ linked : l.prev[u] = NULL /\ l.next[u] = NULL
    BY <1>3, WithoutFresh
  <1>6. /\ ~ stale'
        /\ linked \subseteq linked'
        /\ "IN_LIST" \in flags'[t] => t \in linked'
        /\ pc' = "walk" => linked' = linked /\ t \notin linked
        /\ \A u \in Timers \ linked' : list'.prev[u] = NULL
                                       /\ list'.next[u] = NULL
    <2>1. CASE "ACTIVE" \notin f
      <3>1. /\ list' = l /\ linked' = linked /\ stale' = stale
            /\ flags' = [flags EXCEPT ![t] = f]
            /\ pc' = r
        BY <1>3, <2>1 DEF Rearrange, history
      <3> QED BY <1>1, <1>2, <1>3, <1>5, <3>1 DEF TypeOK
    <2>2. CASE "ACTIVE" \in f /\ l.head = NULL
      <3>1. /\ list' = Alone(l, t)
            /\ linked' = linked \cup {t}
            /\ stale' = (stale \/ l.prev[t] # NULL \/ l.next[t] # NULL)
            /\ pc' = r
        BY <2>2 , <1>3 DEF Rearrange, LinkedInto
      <3>2. list'.prev = l.prev /\ list'.next = l.next
        BY <3>1, AloneLinks
      <3>3. t \notin linked
        BY <1>3, <2>2
      <3> QED BY <1>2, <1>5, <3>1, <3>2, <3>3
    <2>3. CASE "ACTIVE" \in f /\ l.head # NULL
      <3>1. /\ list' = l /\ linked' = linked /\ stale' = stale
            /\ flags' = [flags EXCEPT ![t] = f]
        BY <1>3, <2>3 DEF Rearrange, history
      <3> QED BY <1>1, <1>2, <1>3, <1>5, <2>3, <3>1 DEF TypeOK
    <2> QED BY <2>1, <2>2, <2>3
  <1>7. ActiveIsListed'
    <2> SUFFICES ASSUME NEW u \in Timers,
                        state'[u] = "open", "ACTIVE" \in flags'[u],
                        "IN_LIST" \notin flags'[u]
                 PROVE  u \in {timer', fired'}
      BY DEF ActiveIsListed, Has, Listed
    <2>1. CASE u # t
      <3>1. flags'[u] = flags[u] /\ state'[u] = state[u]
        BY <1>4, <2>1 DEF Rearranged, Relinks
      <3>2. u \in {timer, fired}
        BY <1>1, <3>1 DEF WhileLinkedOnce, ActiveIsListed, Has, Listed
      <3>3. timer = NULL /\ u # NULL /\ fired' = fired
        BY <1>1, TimerAssumption DEF TypeOK, Relinks, TimerAssumption
      <3> QED BY <3>2, <3>3
    <2>2. CASE u = t
      <3>1. flags'[t] = f
        BY <1>4, <2>2 DEF Rearranged, InList
      <3>2. "ACTIVE" \in f /\ "IN_LIST" \notin flags'[t]
        BY <2>2, <3>1
      <3>3. flags' # [flags EXCEPT ![t] = InList(f)]
        BY <1>1, <3>2 DEF InList, TypeOK
      <3>4. timer' = t
        BY <1>3, <3>2, <3>3 DEF Rearrange
      <3> QED BY <2>2, <3>4
    <2> QED BY <2>1, <2>2
  <1>8. \A u \in Timers : ~ Has(u, "PERIODIC")'
    BY <1>1, <1>3, <1>4 DEF Rearranged, WhileLinkedOnce, Has, InList
  <1>9. \A u \in Timers \ linked' : ~ Listed(u)'
    <2> SUFFICES ASSUME NEW u \in Timers \ linked'
                 PROVE  "IN_LIST" \notin flags'[u]
      BY DEF Has, Listed
    <2>1. CASE u = t
      BY <1>6, <2>1
    <2>2. CASE u # t
      BY <1>1, <1>4, <1>6, <2>2 DEF Rearranged, WhileLinkedOnce, Has, Listed
    <2> QED BY <2>1, <2>2
  <1>10. pc' = "walk" => timer' \notin linked'
    BY <1>1, <1>4, <1>6 DEF Rearranged
  <1> QED BY <1>6, <1>7, <1>8, <1>9, <1>10 DEF WhileLinkedOnce

LEMMA DestroysOnce ==
    ASSUME IInv, NEW t \in Timers, Destroys(t), ~ Rearming
    PROVE  WhileLinkedOnce'
  <1>1. TypeOK /\ Turns /\ WhileLinkedOnce
    BY DEF IInv, Always
  <1>2. /\ list' = Without(t)
        /\ linked' = linked /\ stale' = stale /\ timer' = timer
        /\ flags' = [flags EXCEPT ![t] = {}]
        /\ state' = [state EXCEPT ![t] = "destroyed"]
        /\ fired' = fired \/ t = fired
        /\ pc' # "walk"
    BY DEF Destroys, DestroyTimer, walk, history
  <1>3. \A u \in Timers \ linked' : list'.prev[u] = NULL
                                    /\ list'.next[u] = NULL
    BY <1>2, WithoutFresh
  <1>4. ActiveIsListed'
    BY <1>1, <1>2
       DEF WhileLinkedOnce, ActiveIsListed, Has, Listed, TypeOK
  <1>5. /\ \A u \in Timers : ~ Has(u, "PERIODIC")'
        /\ \A u \in Timers \ linked' : ~ Listed(u)'
    BY <1>1, <1>2 DEF WhileLinkedOnce, Has, Listed, TypeOK
  <1> QED BY <1>1, <1>2, <1>3, <1>4, <1>5 DEF WhileLinkedOnce

(* The end of a walk. *)
LEMMA WalkDoneOnce ==
    ASSUME IInv, ~ Rearming, pc = "walk", WalkDone, ~ stale',
           linked' = linked \cup {timer},
           \A u \in Timers \ linked' : list'.prev[u] = NULL
                                       /\ list'.next[u] = NULL
    PROVE  WhileLinkedOnce'
  <1>1. TypeOK /\ Turns /\ WhileLinkedOnce /\ timer \in Timers
    BY DEF IInv, Always, TypeOK, Pointer
  <1>2. /\ flags' = [flags EXCEPT ![timer] = InList(flags[timer])]
        /\ state' = state /\ fired' = fired
        /\ timer' = NULL /\ pc' # "walk"
    BY <1>1 DEF WalkDone, TypeOK
  <1>3. ActiveIsListed'
    BY <1>1, <1>2
       DEF WhileLinkedOnce, ActiveIsListed, Has, Listed, TypeOK, InList
  <1>4. /\ \A u \in Timers : ~ Has(u, "PERIODIC")'
        /\ \A u \in Timers \ linked' : ~ Listed(u)'
    BY <1>1, <1>2 DEF WhileLinkedOnce, Has, Listed, TypeOK, InList
  <1> QED BY <1>2, <1>3, <1>4 DEF WhileLinkedOnce

LEMMA OnceHolds ==
    ASSUME IInv, [Next]_vars
    PROVE  WhileLinkedOnce'
  <1> SUFFICES ASSUME ~ Rearming PROVE WhileLinkedOnce'
    BY DEF WhileLinkedOnce
  <1>1. TypeOK /\ Turns /\ WhileLinkedOnce /\ ~ stale
    BY DEF IInv, Always, WhileLinkedOnce
  <1>2. PICK behind \in Orders : Shaped(behind)
    BY <1>1 DEF IInv, WhileNotStale
  <1>3. TheListed \subseteq linked
    BY <1>1 DEF TheListed, WhileLinkedOnce
  <1>4. CASE WalkInsert
    <2>1. /\ ctimer \in TheListed /\ ctimer \in Timers /\ timer \in Timers
          /\ timer \notin linked
      BY <1>1, <1>2, <1>4
         DEF WalkInsert, Shaped, TypeOK, Pointer, WhileLinkedOnce
    <2>2. PICK l \in ListRecord, c \in Timers, t \in Timers :
             l = list /\ c = ctimer /\ t = timer
      BY <1>1, <2>1 DEF TypeOK
    <2>3. l.prev[c] # NULL => l.prev[c] \in linked
      BY <1>2, <1>3, <2>1, <2>2 DEF Shaped, Queue, PrevIsPrev
    <2>4. /\ list' = InsertedBefore(l, c, t)
          /\ linked' = linked \cup {t}
          /\ ~ stale'
      BY <1>1, <1>4, <2>2 DEF WalkInsert, LinkedInto
    <2>5. \A u \in Timers \ linked' : l.prev[u] = NULL /\ l.next[u] = NULL
      BY <1>1, <2>2, <2>4 DEF WhileLinkedOnce
    <2>6. c # t /\ c \in linked /\ NULL \notin Timers
      BY <1>3, <2>1, <2>2, TimerAssumption DEF TimerAssumption
    <2>7. \A u \in Timers \ linked' : list'.prev[u] = NULL
                                      /\ list'.next[u] = NULL
      <3> TAKE u \in Timers \ linked'
      <3>1. u # t /\ u # c /\ u # l.prev[c] /\ u \in Timers
        BY <2>3, <2>4, <2>6
      <3>2. /\ InsertedBefore(l, c, t).prev[u] = l.prev[u]
            /\ InsertedBefore(l, c, t).next[u] = l.next[u]
        BY <2>6, <3>1, InsertedLinks
      <3> QED BY <2>4, <2>5, <3>2
    <2> QED BY <1>4, <2>2, <2>4, <2>7, WalkDoneOnce DEF WalkInsert
  <1>5. CASE WalkAppend
    <2>1. /\ ctimer \in TheListed /\ ctimer \in Timers /\ timer \in Timers
          /\ timer \notin linked /\ list.next[timer] = NULL
      BY <1>1, <1>2, <1>5
         DEF WalkAppend, Shaped, TypeOK, Pointer, WhileLinkedOnce
    <2>2. PICK l \in ListRecord, c \in Timers, t \in Timers :
             l = list /\ c = ctimer /\ t = timer
      BY <1>1, <2>1 DEF TypeOK
    <2>3. /\ list' = AppendedTo(l, c, t)
          /\ linked' = linked \cup {t}
          /\ ~ stale'
      BY <1>1, <1>5, <2>1, <2>2 DEF WalkAppend, LinkedInto
    <2>4. \A u \in Timers \ linked' : l.prev[u] = NULL /\ l.next[u] = NULL
      BY <1>1, <2>2, <2>3 DEF WhileLinkedOnce
    <2>5. c \in linked
      BY <1>3, <2>1, <2>2
    <2>6. \A u \in Timers \ linked' : list'.prev[u] = NULL
                                      /\ list'.next[u] = NULL
      <3> TAKE u \in Timers \ linked'
      <3>1. u # t /\ u # c /\ u \in Timers
        BY <2>3, <2>5
      <3>2. /\ AppendedTo(l, c, t).prev[u] = l.prev[u]
            /\ AppendedTo(l, c, t).next[u] = l.next[u]
        BY <3>1, AppendedLinks
      <3> QED BY <2>3, <2>4, <3>2
    <2> QED BY <1>5, <2>2, <2>3, <2>6, WalkDoneOnce DEF WalkAppend
  <1>6. CASE WalkOn
    BY <1>1, <1>6
       DEF WalkOn, WhileLinkedOnce, ActiveIsListed, Has, Listed, fields,
           history
  <1>7. CASE FireOneShot
    <2>1. PICK t \in Timers : t = list.head
      BY <1>7, PoppedWithout DEF FireOneShot
    <2>2. /\ list' = Without(t)
          /\ linked' = linked /\ stale' = stale /\ timer' = timer
          /\ flags' = [flags EXCEPT ![t] = flags[t] \ {"IN_LIST"}]
          /\ state' = state /\ fired' = t /\ fired = NULL /\ pc' # "walk"
      BY <1>1, <1>7, <2>1, PoppedWithout
         DEF FireOneShot, walk, history, Turns
    <2>3. \A u \in Timers \ linked' : list'.prev[u] = NULL
                                      /\ list'.next[u] = NULL
      BY <2>2, WithoutFresh
    <2>4. ActiveIsListed'
      BY <1>1, <2>2, TimerAssumption
         DEF WhileLinkedOnce, ActiveIsListed, Has, Listed, TypeOK,
             TimerAssumption
    <2>5. /\ \A u \in Timers : ~ Has(u, "PERIODIC")'
          /\ \A u \in Timers \ linked' : ~ Listed(u)'
      BY <1>1, <2>2 DEF WhileLinkedOnce, Has, Listed, TypeOK
    <2> QED BY <1>1, <2>2, <2>3, <2>4, <2>5 DEF WhileLinkedOnce
  <1>8. CASE Keeps
    <2>1. ActiveIsListed'
      <3> SUFFICES ASSUME NEW u \in Timers,
                          state'[u] = "open", "ACTIVE" \in flags'[u],
                          "IN_LIST" \notin flags'[u]
                   PROVE  u \in {timer', fired'}
        BY DEF ActiveIsListed, Has, Listed
      <3>1. "ACTIVE" \in flags[u] /\ "IN_LIST" \notin flags[u]
        BY <1>8 DEF Keeps
      <3>2. state[u] = "open"
        BY <3>1 DEF IInv, Always, Unborn
      <3>3. u \in {timer, fired}
        BY <1>1, <3>1, <3>2 DEF WhileLinkedOnce, ActiveIsListed, Has, Listed
      <3> QED BY <1>8, <3>2, <3>3 DEF Keeps
    <2>2. /\ \A u \in Timers : ~ Has(u, "PERIODIC")'
          /\ \A u \in Timers \ linked' : ~ Listed(u)'
      BY <1>1, <1>8 DEF Keeps, WhileLinkedOnce, Has, Listed
    <2>3. pc' = "walk" => pc = "walk"
      BY <1>8 DEF Keeps
    <2> QED BY <1>1, <1>8, <2>1, <2>2, <2>3 DEF Keeps, WhileLinkedOnce
  <1> QED
    BY <1>4, <1>5, <1>6, <1>7, <1>8, Steps, RelinksOnce, DestroysOnce

-----------------------------------------------------------------------------
(* As long as no old link was used. *)

(* The others stay listed, in their order, when a timer is taken out. *)
LEMMA WithoutQueue ==
    ASSUME IInv, NEW behind \in Orders, Shaped(behind),
           NEW t \in Timers, NEW X, X = TheListed \ {t}
    PROVE  /\ X \in SUBSET Timers
           /\ Queue(Without(t), X, behind)
           /\ InOrderOf(X, behind, timeout)
  <1>1. X \in SUBSET Timers /\ InOrderOf(X, behind, timeout)
    BY DEF TheListed, Shaped, InOrderOf
  <1>2. PICK l \in ListRecord, Y \in SUBSET Timers : l = list /\ Y = TheListed
    BY DEF IInv, Always, TypeOK, TheListed
  <1>3. Queue(l, Y, behind)
    BY <1>2 DEF Shaped
  <1>4. CASE t \in Y
    <2>1. Queue(Unlinked(l, t), Y \ {t}, behind)
      BY <1>3, <1>4, UnlinkedQueue
    <2>2. Without(t) = Unlinked(l, t)
      BY <1>2, <1>4 DEF Without, TheListed
    <2> QED BY <1>1, <1>2, <2>1, <2>2
  <1>5. CASE t \notin Y
    <2>1. X = Y
      BY <1>2, <1>5
    <2>2. Without(t) = l
      BY <1>2, <1>5 DEF Without, TheListed
    <2> QED BY <1>1, <1>3, <2>1, <2>2
  <1> QED BY <1>4, <1>5

LEMMA RelinksShape ==
    ASSUME IInv, NEW t \in Timers, Relinks(t), ~ stale'
    PROVE  \E behind \in Orders : Shaped(behind)'
  <1>1. TypeOK /\ Turns
    BY DEF IInv, Always
  <1>2. PICK l \in ListRecord, f \in SUBSET Flags, r \in {"user", "callback"} :
           /\ Rearrange(l, t, f, r)
           /\ ~ stale => l = Without(t)
           /\ "IN_LIST" \notin f
    BY DEF Relinks
  <1>3. ~ stale
    BY <1>2 DEF Rearrange, LinkedInto, history
  <1>4. PICK behind \in Orders : Shaped(behind)
    BY <1>3 DEF IInv, WhileNotStale
  <1>5. PICK X \in SUBSET Timers : X = TheListed \ {t}
    BY DEF TheListed
  <1>6. Queue(l, X, behind) /\ InOrderOf(X, behind, timeout)
    BY <1>2, <1>3, <1>4, <1>5, WithoutQueue
  <1>7. InOrderOf(X, behind, timeout')
    BY <1>5, <1>6 DEF InOrderOf, Relinks
  <1>8. \A u \in Timers : u # t => flags'[u] = flags[u]
    BY <1>1, <1>2, RearrangeLeaves DEF Rearranged, Relinks
  <1>9. X = {u \in Timers : u # t /\ "IN_LIST" \in flags'[u]}
    BY <1>5, <1>8 DEF TheListed, Listed, Has
  <1>10. CASE "ACTIVE" \notin f
    <2>1. list' = l /\ flags' = [flags EXCEPT ![t] = f] /\ pc' # "walk"
      BY <1>2, <1>10 DEF Rearrange
    <2>2. X = TheListed'
      BY <1>1, <1>2, <1>9, <2>1 DEF TheListed, Listed, Has, TypeOK
    <2> QED BY <1>6, <1>7, <2>1, <2>2 DEF Shaped
  <1>11. CASE "ACTIVE" \in f /\ l.head = NULL
    <2>1. /\ list' = Alone(l, t)
          /\ l.prev[t] = NULL /\ l.next[t] = NULL
          /\ flags' = [flags EXCEPT ![t] = InList(f)]
          /\ pc' # "walk"
      BY <1>2, <1>11 DEF Rearrange, LinkedInto
    <2>2. X = {}
      BY <1>6, <1>11 DEF Queue, HeadIsFirst
    <2>3. TheListed' = {t}
      BY <1>1, <1>9, <2>1, <2>2 DEF TheListed, Listed, Has, InList, TypeOK
    <2>4. PICK b \in Orders : b = [u \in Timers |-> {}]
      BY DEF Orders
    <2>5. Queue(list', {t}, b)
      BY <2>1, <2>4, AloneQueue
    <2>6. InOrderOf({t}, b, timeout')
      BY <2>4 DEF InOrderOf
    <2> QED BY <2>1, <2>3, <2>5, <2>6 DEF Shaped
  <1>12. CASE "ACTIVE" \in f /\ l.head # NULL
    <2>1. /\ list' = l
          /\ flags' = [flags EXCEPT ![t] = f]
          /\ timer' = t /\ ctimer' = l.head
      BY <1>2, <1>12 DEF Rearrange
    <2>2. X = TheListed'
      BY <1>1, <1>2, <1>9, <2>1 DEF TheListed, Listed, Has, TypeOK
    <2>3. ctimer' \in X /\ \A u \in X : u = ctimer' \/ u \in behind[ctimer']
      BY <1>6, <1>12, <2>1 DEF Queue, HeadIsFirst
    <2> QED BY <1>6, <1>7, <2>1, <2>2, <2>3 DEF Shaped, Passed
  <1> QED BY <1>10, <1>11, <1>12

(* A timer that leaves the list, and nothing else that matters to it. *)
LEMMA LeavesShape ==
    ASSUME IInv, ~ stale, NEW t \in Timers,
           list' = Without(t),
           flags' = [flags EXCEPT ![t] = @ \ {"IN_LIST"}]
              \/ flags' = [flags EXCEPT ![t] = {}],
           timeout' = timeout, pc' # "walk"
    PROVE  \E behind \in Orders : Shaped(behind)'
  <1>1. TypeOK
    BY DEF IInv, Always
  <1>2. PICK behind \in Orders : Shaped(behind)
    BY DEF IInv, WhileNotStale
  <1>3. PICK X : X = TheListed \ {t}
    OBVIOUS
  <1>4. Queue(list', X, behind) /\ InOrderOf(X, behind, timeout')
    BY <1>2, <1>3, WithoutQueue
  <1>5. X = TheListed'
    BY <1>1, <1>3 DEF TheListed, Listed, Has, TypeOK
  <1> QED BY <1>4, <1>5 DEF Shaped

(* The walk ends in front of the first entry that is due later. *)
LEMMA WalkInsertShape ==
    ASSUME IInv, WalkInsert, ~ stale'
    PROVE  \E behind \in Orders : Shaped(behind)'
  <1>1. TypeOK /\ Turns /\ ~ stale
    BY DEF IInv, Always, WalkInsert, LinkedInto
  <1>2. PICK behind \in Orders : Shaped(behind)
    BY <1>1 DEF IInv, WhileNotStale
  <1>3. PICK l \in ListRecord, X \in SUBSET Timers :
           l = list /\ X = TheListed
    BY <1>1 DEF TheListed, TypeOK
  <1>4. ctimer \in X /\ timer \in Timers \ X
    BY <1>1, <1>2, <1>3
       DEF Shaped, WalkInsert, Turns, TheListed, TypeOK, Pointer
  <1>5. PICK c \in X, t \in Timers \ X : c = ctimer /\ t = timer
    BY <1>4
  <1>6. /\ list' = InsertedBefore(l, c, t)
        /\ flags' = [flags EXCEPT ![t] = InList(flags[t])]
        /\ timeout' = timeout /\ pc' # "walk"
        /\ timeout[c] > timeout[t]
    BY <1>1, <1>3, <1>5
       DEF WalkInsert, WalkDone, LinkedInto, IsBigger, TypeOK
  <1>7. PICK b : b = JustBefore(behind, c, t)
    OBVIOUS
  <1>8. b \in Orders /\ Queue(list', X \cup {t}, b)
    BY <1>2, <1>3, <1>6, <1>7, InsertedQueue DEF Shaped
  <1>9. InOrderOf(X \cup {t}, b, timeout')
    <2>1. \A u \in X, v \in X : v \in behind[u] => timeout[u] <= timeout[v]
      BY <1>2, <1>3 DEF Shaped, InOrderOf
    <2>2. \A u \in X : timeout[u] \in Nat
      BY <1>1 DEF TypeOK
    <2>3. timeout[t] \in Nat /\ timeout[c] \in Nat
      BY <1>1 DEF TypeOK
    <2>4. \A v \in X : v = c \/ v \in behind[c] => timeout[t] <= timeout[v]
      BY <1>6, <2>1, <2>2, <2>3
    <2>5. \A u \in X : u # c /\ u \notin behind[c] => timeout[u] <= timeout[t]
      BY <1>2, <1>3, <1>5 DEF Shaped, Passed, WalkInsert
    <2>6. ASSUME NEW u \in X \cup {t}, NEW v \in X \cup {t}, v \in b[u]
          PROVE  timeout[u] <= timeout[v]
      <3>1. CASE u = t
        <4>1. v \in {c} \cup behind[c] /\ v # t
          BY <1>7, <2>6, <3>1 DEF JustBefore
        <4> QED BY <2>4, <3>1, <4>1
      <3>2. CASE u # t /\ v = t
        <4>1. u # c /\ u \notin behind[c]
          BY <1>7, <2>6, <3>2 DEF JustBefore
        <4> QED BY <2>5, <3>2, <4>1
      <3>3. CASE u # t /\ v # t
        <4>1. v \in behind[u]
          BY <1>7, <2>6, <3>3 DEF JustBefore
        <4> QED BY <2>1, <3>3, <4>1
      <3> QED BY <3>1, <3>2, <3>3
    <2> QED BY <1>6, <2>6 DEF InOrderOf
  <1>10. X \cup {t} = TheListed'
    BY <1>1, <1>3, <1>6 DEF TheListed, Listed, Has, InList, TypeOK
  <1> QED BY <1>6, <1>8, <1>9, <1>10 DEF Shaped

(* The walk passed all of them. *)
LEMMA WalkAppendShape ==
    ASSUME IInv, WalkAppend, ~ stale'
    PROVE  \E behind \in Orders : Shaped(behind)'
  <1>1. TypeOK /\ Turns /\ ~ stale /\ list.next[timer] = NULL
    BY DEF IInv, Always, WalkAppend, LinkedInto
  <1>2. PICK behind \in Orders : Shaped(behind)
    BY <1>1 DEF IInv, WhileNotStale
  <1>3. PICK l \in ListRecord, X \in SUBSET Timers :
           l = list /\ X = TheListed
    BY <1>1 DEF TheListed, TypeOK
  <1>4. ctimer \in X /\ timer \in Timers \ X
    BY <1>1, <1>2, <1>3
       DEF Shaped, WalkAppend, Turns, TheListed, TypeOK, Pointer
  <1>5. PICK c \in X, t \in Timers \ X : c = ctimer /\ t = timer
    BY <1>4
  <1>6. /\ list' = AppendedTo(l, c, t)
        /\ flags' = [flags EXCEPT ![t] = InList(flags[t])]
        /\ timeout' = timeout /\ pc' # "walk"
        /\ ~ timeout[c] > timeout[t]
        /\ l.next[c] = NULL /\ l.next[t] = NULL
    BY <1>1, <1>3, <1>5
       DEF WalkAppend, WalkDone, LinkedInto, IsBigger, TypeOK
  <1>7. PICK b : b = LastIn(behind, t)
    OBVIOUS
  <1>8. Queue(l, X, behind)
    BY <1>2, <1>3 DEF Shaped
  <1>9. b \in Orders /\ Queue(list', X \cup {t}, b)
    BY <1>6, <1>7, <1>8, AppendedQueue
  <1>10. InOrderOf(X \cup {t}, b, timeout')
    <2>1. \A u \in X, v \in X : v \in behind[u] => timeout[u] <= timeout[v]
      BY <1>2, <1>3 DEF Shaped, InOrderOf
    <2>2. timeout[t] \in Nat /\ timeout[c] \in Nat
      BY <1>1 DEF TypeOK
    <2>3. \A u \in X : u \notin behind[c]
      BY <1>6, <1>8 DEF Queue, NextIsNext
    <2>4. \A u \in X : timeout[u] <= timeout[t]
      BY <1>2, <1>3, <1>5, <1>6, <2>2, <2>3 DEF Shaped, Passed, WalkAppend
    <2>5. ASSUME NEW u \in X \cup {t}, NEW v \in X \cup {t}, v \in b[u]
          PROVE  timeout[u] <= timeout[v]
      <3>1. u # t
        BY <1>7, <2>5 DEF LastIn
      <3>2. v = t \/ v \in behind[u]
        BY <1>7, <2>5, <3>1 DEF LastIn
      <3> QED BY <2>1, <2>4, <3>1, <3>2
    <2> QED BY <1>6, <2>5 DEF InOrderOf
  <1>11. X \cup {t} = TheListed'
    BY <1>1, <1>3, <1>6 DEF TheListed, Listed, Has, InList, TypeOK
  <1> QED BY <1>6, <1>9, <1>10, <1>11 DEF Shaped

LEMMA WalkOnShape ==
    ASSUME IInv, WalkOn, ~ stale'
    PROVE  \E behind \in Orders : Shaped(behind)'
  <1>1. TypeOK /\ ~ stale /\ timer \in Timers
    BY DEF IInv, Always, WalkOn, history, TypeOK, Pointer
  <1>2. PICK behind \in Orders : Shaped(behind)
    BY <1>1 DEF IInv, WhileNotStale
  <1>3. /\ TheListed' = TheListed /\ list' = list /\ timeout' = timeout
        /\ timer' = timer /\ ctimer' = list.next[ctimer] /\ pc = "walk"
        /\ ~ timeout[ctimer] > timeout[timer]
        /\ list.next[ctimer] # NULL
    BY DEF WalkOn, TheListed, Listed, Has, fields, IsBigger
  <1>4. ctimer \in TheListed /\ ctimer \in Timers
    BY <1>2, <1>3 DEF Shaped, TheListed
  <1>5. NextIsNext(list, TheListed, behind, ctimer)
    BY <1>2, <1>4 DEF Shaped, Queue
  <1>6. timeout[ctimer] <= timeout[timer]
    BY <1>1, <1>3, <1>4 DEF TypeOK
  <1>7. ctimer' \in TheListed
    BY <1>3, <1>5 DEF NextIsNext
  <1>8. Passed(TheListed, behind)'
    <2> SUFFICES ASSUME NEW u \in TheListed
                 PROVE  \/ u = ctimer' \/ u \in behind[ctimer']
                        \/ timeout[u] <= timeout[timer]
      BY <1>3 DEF Passed
    <2>1. \/ u = ctimer \/ u \in behind[ctimer]
          \/ timeout[u] <= timeout[timer]
      BY <1>2, <1>3 DEF Shaped, Passed
    <2>2. u \in behind[ctimer] => u = ctimer' \/ u \in behind[ctimer']
      BY <1>3, <1>5 DEF NextIsNext
    <2> QED BY <1>6, <2>1, <2>2
  <1> QED BY <1>2, <1>3, <1>7, <1>8 DEF Shaped

LEMMA KeepsShape ==
    ASSUME IInv, Keeps, ~ stale'
    PROVE  \E behind \in Orders : Shaped(behind)'
  <1>1. ~ stale
    BY DEF Keeps
  <1>2. PICK behind \in Orders : Shaped(behind)
    BY <1>1 DEF IInv, WhileNotStale
  <1>3. TheListed' = TheListed
    BY DEF Keeps, TheListed, Listed, Has
  <1>4. \A u \in TheListed : timeout'[u] = timeout[u]
    BY DEF Keeps, TheListed, Listed, Has
  <1>5. /\ list' = list /\ timer' = timer /\ ctimer' = ctimer
        /\ pc' = "walk" => pc = "walk"
    BY DEF Keeps
  <1>6. InOrderOf(TheListed, behind, timeout')
    BY <1>2, <1>4 DEF Shaped, InOrderOf
  <1>7. pc = "walk" => timeout'[timer] = timeout[timer]
    <2> SUFFICES ASSUME pc = "walk" PROVE timeout'[timer] = timeout[timer]
      OBVIOUS
    <2>1. timer \in Timers /\ "ACTIVE" \in flags[timer]
      BY DEF IInv, Always, TypeOK, Turns, Has, Pointer
    <2> QED BY <2>1 DEF Keeps
  <1>8. pc' = "walk" => ctimer' \in TheListed /\ Passed(TheListed, behind)'
    BY <1>2, <1>3, <1>4, <1>5, <1>7 DEF Shaped, Passed
  <1> QED BY <1>2, <1>3, <1>5, <1>6, <1>8 DEF Shaped

LEMMA ShapeHolds ==
    ASSUME IInv, [Next]_vars
    PROVE  WhileNotStale'
  <1> SUFFICES ASSUME ~ stale' PROVE \E behind \in Orders : Shaped(behind)'
    BY DEF WhileNotStale, Orders
  <1>1. ASSUME NEW t \in Timers, Destroys(t)
        PROVE  \E behind \in Orders : Shaped(behind)'
    BY <1>1, LeavesShape DEF Destroys, DestroyTimer, history
  <1>2. CASE FireOneShot
    <2>1. ~ stale
      BY <1>2 DEF FireOneShot, history
    <2>2. PICK t \in Timers : t = list.head
      BY <1>2, PoppedWithout DEF FireOneShot
    <2>3. /\ list' = Without(t)
          /\ flags' = [flags EXCEPT ![t] = @ \ {"IN_LIST"}]
          /\ timeout' = timeout /\ pc' # "walk"
      BY <1>2, <2>1, <2>2, PoppedWithout DEF FireOneShot
    <2> QED BY <2>1, <2>3, LeavesShape
  <1> QED
    BY <1>1, <1>2, Steps, RelinksShape, WalkInsertShape, WalkAppendShape,
       WalkOnShape, KeepsShape

-----------------------------------------------------------------------------
(* The invariant is inductive. *)
LEMMA NextIInv == IInv /\ [Next]_vars => IInv'
  BY AlwaysHolds, OnceHolds, ShapeHolds DEF IInv

LEMMA InvariantHolds == Spec => []IInv
  BY InitIInv, NextIInv, PTL DEF Spec

(* Every variable keeps its type, also after an old link was used. *)
THEOREM TimersTypeCorrect == Spec => []TypeOK
  <1>1. IInv => TypeOK
    BY DEF IInv, Always
  <1> QED BY <1>1, InvariantHolds, PTL

(* _rearrange_timer() and _trigger_timer() keep the links of neighbours in *)
(* agreement with each other and with the flags, the earliest timer in     *)
(* front, and, where each timer is linked once, every active timer listed. *)
THEOREM ListStaysSorted == Spec => []ListIsSorted
  <1>1. ASSUME IInv PROVE ListIsSorted
    <2>1. TypeOK /\ Unborn /\ WhileLinkedOnce /\ WhileNotStale
      BY <1>1 DEF IInv, Always
    <2>2. ~ Rearming => ActiveIsListed
      BY <2>1 DEF WhileLinkedOnce
    <2>3. ASSUME ~ stale PROVE LinksAgree /\ HeadIsEarliest
      <3>1. PICK behind \in Orders : Shaped(behind)
        BY <2>1, <2>3 DEF WhileNotStale
      <3>2. /\ HeadIsFirst(list, TheListed, behind)
            /\ \A u \in TheListed : /\ NextIsNext(list, TheListed, behind, u)
                                    /\ PrevIsPrev(list, TheListed, u)
        BY <3>1 DEF Shaped, Queue
      <3>3. LinksAgree
        <4>1. list.head # NULL => /\ Listed(list.head)
                                  /\ list.prev[list.head] = NULL
          BY <3>2 DEF HeadIsFirst, TheListed
        <4>2. ASSUME NEW t \in Timers, Listed(t)
              PROVE  /\ state[t] = "open"
                     /\ list.prev[t] = NULL <=> list.head = t
                     /\ list.next[t] # NULL =>
                           /\ Listed(list.next[t])
                           /\ list.prev[list.next[t]] = t
                     /\ list.prev[t] # NULL =>
                           /\ Listed(list.prev[t])
                           /\ list.next[list.prev[t]] = t
          <5>1. t \in TheListed /\ t # NULL
            BY <4>2, TimerAssumption DEF TheListed, TimerAssumption
          <5>2. state[t] = "open"
            BY <2>1, <4>2 DEF Unborn, Listed, Has
          <5>3. list.prev[t] = NULL <=> list.head = t
            BY <3>2, <5>1 DEF HeadIsFirst, PrevIsPrev
          <5>4. list.next[t] # NULL => /\ list.next[t] \in TheListed
                                       /\ list.prev[list.next[t]] = t
            BY <3>2, <5>1 DEF NextIsNext
          <5>5. list.prev[t] # NULL => /\ list.prev[t] \in TheListed
                                       /\ list.next[list.prev[t]] = t
            BY <3>2, <5>1 DEF PrevIsPrev
          <5> QED BY <5>2, <5>3, <5>4, <5>5 DEF TheListed
        <4> QED BY <4>1, <4>2 DEF LinksAgree
      <3>4. HeadIsEarliest
        <4> SUFFICES ASSUME NEW t \in Timers, Listed(t)
                     PROVE  /\ list.head # NULL
                            /\ timeout[list.head] <= timeout[t]
          BY DEF HeadIsEarliest
        <4>1. t \in TheListed
          BY DEF TheListed
        <4>2. /\ list.head # NULL /\ list.head \in TheListed
              /\ t = list.head \/ t \in behind[list.head]
          BY <3>2, <4>1 DEF HeadIsFirst
        <4>3. timeout[t] \in Nat
          BY <2>1 DEF TypeOK
        <4> QED BY <3>1, <4>1, <4>2, <4>3 DEF Shaped, InOrderOf
      <3> QED BY <3>3, <3>4
    <2> QED BY <2>2, <2>3 DEF ListIsSorted, LinksAgree, HeadIsEarliest
  <1> QED BY <1>1, InvariantHolds, PTL

(* _trigger_timer() fires no timer before its time, and none while another *)
(* listed timer is due earlier.                                            *)
THEOREM TimersFireInOrder == Spec => FiresInOrder
  <1>1. ASSUME IInv, ListIsSorted, [Next]_vars,
               pc = "trigger", fired' # NULL
        PROVE  /\ timeout[fired'] <= now
               /\ ~ stale => \A t \in Timers :
                                Listed(t) => timeout[fired'] <= timeout[t]
    <2>1. fired = NULL
      BY <1>1 DEF IInv, Always, Turns
    <2>2. FireOneShot \/ FirePeriodic
      BY <1>1, <2>1
         DEF Next, vars, UserCall, Create, SetTimeout, SetAutoreload, Start,
             Stop, Destroy, ClearAutoreload, SetPersistent, ClearPersistent,
             SetFlags, UserCalls, Walk, WalkInsert, WalkAppend, WalkOn,
             Trigger, TriggerBegin, TriggerEnd, TriggerSkipped,
             CallbackReturns, Tick
    <2>3. fired' = list.head /\ timeout[list.head] <= now
      BY <2>2 DEF FireOneShot, FirePeriodic, IsDue
    <2> QED BY <1>1, <2>3 DEF ListIsSorted, HeadIsEarliest
  <1>2. IInv /\ ListIsSorted /\ [Next]_vars =>
           [ (pc = "trigger" /\ fired' # NULL) =>
               /\ timeout[fired'] <= now
               /\ ~ stale => \A t \in Timers :
                                Listed(t) => timeout[fired'] <= timeout[t]
           ]_vars
    BY <1>1
  <1> QED
    BY <1>2, InvariantHolds, ListStaysSorted, PTL DEF Spec, FiresInOrder

(* Where no timer is linked twice, no old link is ever used, so that what  *)
(* ListIsSorted and FiresInOrder say of the list holds without exception.  *)
THEOREM LinkedOnceIsNeverStale == Spec => [](~ Rearming => ~ stale)
  <1>1. IInv => (~ Rearming => ~ stale)
    BY DEF IInv, WhileLinkedOnce
  <1> QED BY <1>1, InvariantHolds, PTL
=============================================================================
