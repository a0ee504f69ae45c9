---------------------- MODULE IOGarbageCollectorProofs ----------------------
(***************************************************************************)
(* Proofs about the collector, for any sets of objects and heap cells, any *)
(* grace period and any bounds of the model.                               *)
(*                                                                         *)
(* Two things make the invariants hold although last_object dangles after  *)
(* the list ran empty: while the list has a head, its entries are linked   *)
(* in the order of their tickets (Chain), and once it has lost its head it *)
(* never gets one back, because first_object is only set when there is no  *)
(* last_object (NeverUsed).                                                *)
(***************************************************************************)
EXTENDS IOGarbageCollector, TLAPS

(* The entry in cell a holds an object that waits, with its due time. *)
Entries ==
    \A a \in live :
        /\ node[a].object \in Objects
        /\ Queued(node[a].object)
        /\ node[a].timeout = queuedAt[node[a].object] + IogcTimeout

OneEntryPerObject ==
    \A a, b \in live : node[a].object = node[b].object => a = b

Tickets ==
    /\ \A o \in Objects : ticket[o] <= tickets
    /\ \A o, p \in Objects : ticket[o] = ticket[p] /\ ticket[o] # 0 => o = p

Chain ==
    Head # NULL =>
        /\ Head \in live
        /\ last \in live
        /\ node[last].next = NULL
        /\ ticket[node[last].object] = tickets
        /\ \A a \in live :
              /\ ticket[node[Head].object] <= ticket[node[a].object]
              /\ a # last =>
                    /\ node[a].next \in live
                    /\ ticket[node[node[a].next].object] =
                          ticket[node[a].object] + 1
        /\ \A o \in Objects :
              Queued(o) => \E a \in live : node[a].object = o

NeverUsed ==
    last = NULL => /\ live = {}
                   /\ first = NULL
                   /\ obj = NULL
                   /\ \A o \in Objects : ticket[o] = 0

IInv ==
    /\ TypeOK
    /\ FreedAtMostOnce
    /\ Entries
    /\ OneEntryPerObject
    /\ Tickets
    /\ Chain
    /\ NeverUsed
    /\ CollectedInOrder

(* The initial state satisfies the invariant. *)
LEMMA InitIInv == Init => IInv
<1> USE GCAssumption
<1> SUFFICES ASSUME Init PROVE IInv
  OBVIOUS
<1>1. TypeOK
  BY DEF Init, TypeOK, Time, IOGCObject
<1>2. FreedAtMostOnce /\ CollectedInOrder /\ Tickets
  BY DEF Init, FreedAtMostOnce, CollectedInOrder, Tickets
<1>3. Entries /\ OneEntryPerObject /\ Chain /\ NeverUsed
  BY DEF Init, Entries, OneEntryPerObject, Chain, NeverUsed, Head
<1> QED BY <1>1, <1>2, <1>3 DEF IInv

(* Appending an entry keeps the invariant: with a head, the new entry is   *)
(* linked behind the last one; without, the list stays out of use, even if *)
(* malloc() returned the cell last_object points to.                       *)
LEMMA AddEntryIInv ==
    ASSUME IInv, NEW o \in Objects, NEW a \in Addrs, AddEntry(o, a)
    PROVE  IInv'
<1> USE GCAssumption
<1> DEFINE entry == [object |-> o, timeout |-> now + IogcTimeout, next |-> NULL]
           heap  == [node EXCEPT ![a] = entry]
<1>1. TypeOK BY DEF IInv
<1>2. /\ a \notin live /\ live' = live \cup {a}
      /\ node' = LinkBehindLast(heap, a)
      /\ first' = IF last = NULL THEN a ELSE first
      /\ last' = a
      /\ tickets' = tickets + 1
      /\ ticket' = [ticket EXCEPT ![o] = tickets + 1]
      /\ queuedAt' = [queuedAt EXCEPT ![o] = now]
      /\ pc = "dispatch" /\ pc' = pc /\ obj' = obj
      /\ freeCount' = freeCount
      /\ freeCount[o] = 0 /\ ticket[o] = 0
      /\ now' = now
      /\ setbacks' = setbacks /\ enabled' = enabled
  BY DEF AddEntry, HeadAfterAdd, DueTime, InUse
<1>3. entry \in IOGCObject
  BY <1>1 DEF TypeOK, IOGCObject, Time
<1>4. heap \in [Addrs -> IOGCObject] /\ heap[a] = entry
  BY <1>1, <1>3 DEF TypeOK
<1>5. node' \in [Addrs -> IOGCObject]
  BY <1>1, <1>2, <1>4 DEF TypeOK, LinkBehindLast, IOGCObject
<1>6. /\ node'[a].object = o
      /\ node'[a].timeout = now + IogcTimeout
      /\ \A b \in Addrs : b # a => /\ node'[b].object = node[b].object
                                   /\ node'[b].timeout = node[b].timeout
                                   /\ b # last => node'[b].next = node[b].next
      /\ last # a => node'[a].next = NULL
      /\ last # NULL => node'[last].next = a
  BY <1>1, <1>2, <1>4 DEF TypeOK, LinkBehindLast, IOGCObject
<1> HIDE DEF heap, entry
<1>7. \A b \in live : /\ node[b].object \in Objects
                      /\ node[b].object # o
                      /\ Queued(node[b].object)
  BY <1>2 DEF IInv, Entries, Queued
<1>8. TypeOK'
  BY <1>1, <1>2, <1>5 DEF TypeOK, Time
<1>9. FreedAtMostOnce' /\ Tickets' /\ CollectedInOrder'
  BY <1>1, <1>2 DEF IInv, TypeOK, FreedAtMostOnce, Tickets, CollectedInOrder
<1>10. Entries'
  BY <1>1, <1>2, <1>6, <1>7 DEF IInv, TypeOK, Entries, Queued
<1>11. OneEntryPerObject'
  BY <1>1, <1>2, <1>6, <1>7 DEF IInv, TypeOK, OneEntryPerObject
<1>12. NeverUsed'
  BY <1>2 DEF NeverUsed
<1>13. Chain'
  <2>1. Head = first /\ Head' = first'
    BY <1>2 DEF Head
  <2>2. CASE last = NULL
    <3>1. live' = {a} /\ Head' = a /\ node'[a].next = NULL
      BY <1>2, <1>6, <2>1, <2>2 DEF IInv, NeverUsed
    <3>2. \A p \in Objects : p # o => ~ Queued(p)'
      BY <1>1, <1>2, <2>2 DEF IInv, NeverUsed, Queued, TypeOK
    <3> QED BY <1>1, <1>2, <1>6, <3>1, <3>2 DEF Chain, TypeOK
  <2>3. CASE last # NULL /\ first = NULL
    BY <1>2, <2>1, <2>3 DEF Chain
  <2>4. CASE last # NULL /\ first # NULL
    <3>1. /\ first \in live /\ last \in live /\ last # a /\ first # a
          /\ first' = first
          /\ ticket[node[last].object] = tickets
      BY <1>2, <2>1, <2>4 DEF IInv, Chain
    <3>2. \A b \in live : /\ ticket'[node'[b].object] = ticket[node[b].object]
                          /\ ticket[node[b].object] <= tickets
      BY <1>1, <1>2, <1>6, <1>7 DEF IInv, Tickets, TypeOK
    <3>3. ticket'[node'[a].object] = tickets + 1
      BY <1>1, <1>2, <1>6 DEF TypeOK
    <3>4. \A p \in Objects : Queued(p)' => \E b \in live' : node'[b].object = p
      <4> SUFFICES ASSUME NEW p \in Objects, Queued(p)'
                   PROVE  \E b \in live' : node'[b].object = p
        OBVIOUS
      <4>1. CASE p = o BY <4>1, <1>2, <1>6
      <4>2. CASE p # o
        <5>1. Queued(p) BY <4>2, <1>1, <1>2 DEF Queued, TypeOK
        <5>2. PICK b \in live : node[b].object = p
          BY <5>1, <2>1, <2>4 DEF IInv, Chain
        <5> QED BY <5>2, <1>1, <1>2, <1>6 DEF TypeOK
      <4> QED BY <4>1, <4>2
    <3>5. \A b \in live' :
             /\ ticket'[node'[first].object] <= ticket'[node'[b].object]
             /\ b # a => /\ node'[b].next \in live'
                         /\ ticket'[node'[node'[b].next].object] =
                               ticket'[node'[b].object] + 1
      <4> SUFFICES ASSUME NEW b \in live'
                   PROVE /\ ticket'[node'[first].object] <= ticket'[node'[b].object]
                         /\ b # a => /\ node'[b].next \in live'
                                     /\ ticket'[node'[node'[b].next].object] =
                                           ticket'[node'[b].object] + 1
        OBVIOUS
      <4>1. CASE b = a
        BY <1>1, <1>7, <3>1, <3>2, <3>3, <4>1 DEF TypeOK
      <4>2. CASE b = last
        BY <1>2, <1>6, <2>1, <2>4, <3>1, <3>2, <3>3, <4>2 DEF IInv, Chain
      <4>3. CASE b \in live /\ b # last
        BY <1>1, <1>2, <1>6, <2>1, <2>4, <3>1, <3>2, <4>3 DEF IInv, Chain, TypeOK
      <4> QED BY <1>2, <4>1, <4>2, <4>3
    <3> QED BY <1>2, <1>6, <2>1, <3>1, <3>3, <3>4, <3>5 DEF Chain
  <2> QED BY <2>2, <2>3, <2>4
<1> QED BY <1>8, <1>9, <1>10, <1>11, <1>12, <1>13 DEF IInv

(* Freeing the head keeps the invariant: its successor has the next ticket *)
(* and no allocated entry leads back to it.                                *)
LEMMA ExecFreeIInv ==
    ASSUME IInv, ExecFree
    PROVE  IInv'
<1> USE GCAssumption
<1> DEFINE o == node[obj].object
<1>1. TypeOK BY DEF IInv
<1>2. /\ pc = "exec" /\ pc' = pc /\ obj # NULL
      /\ freeCount' = [freeCount EXCEPT ![o] = @ + 1]
      /\ live' = live \ {obj}
      /\ obj' = node[obj].next
      /\ UNCHANGED <<now, setbacks, enabled, node, first, last,
                     ticket, tickets, queuedAt>>
  BY DEF ExecFree
<1>3. /\ Head = obj /\ Head' = obj'
      /\ obj \in live
      /\ o \in Objects /\ Queued(o)
  BY <1>2 DEF IInv, Chain, Entries, Head
<1>4. TypeOK'
  BY <1>1, <1>2, <1>3 DEF TypeOK, IOGCObject
<1>5. FreedAtMostOnce' /\ Tickets'
  BY <1>1, <1>2, <1>3 DEF IInv, TypeOK, FreedAtMostOnce, Tickets, Queued
<1>6. Entries' /\ OneEntryPerObject'
  BY <1>1, <1>2, <1>3 DEF IInv, TypeOK, Entries, OneEntryPerObject, Queued
<1>7. NeverUsed'
  BY <1>2, <1>3 DEF IInv, NeverUsed
<1>8. CollectedInOrder'
  <2> SUFFICES ASSUME NEW q \in Objects, NEW p \in Objects,
                      ticket[p] # 0, ticket[p] < ticket[q], freeCount'[q] > 0
               PROVE  freeCount'[p] > 0
    BY <1>2 DEF CollectedInOrder
  <2>1. CASE q # o
    BY <1>1, <1>2, <2>1 DEF IInv, CollectedInOrder, TypeOK
  <2>2. CASE q = o
    <3> SUFFICES ASSUME Queued(p) PROVE FALSE
      BY <1>1, <1>2 DEF TypeOK, Queued
    <3>1. PICK a \in live : node[a].object = p
      BY <1>2, <1>3 DEF IInv, Chain
    <3>2. ticket[o] <= ticket[p]
      BY <1>3, <3>1, <1>2 DEF IInv, Chain
    <3> QED BY <1>1, <1>3, <2>2, <3>2 DEF TypeOK
  <2> QED BY <2>1, <2>2
<1>9. Chain'
  <2>1. CASE obj = last
    BY <1>2, <1>3, <2>1 DEF IInv, Chain
  <2>2. CASE obj # last
    <3>1. /\ node[obj].next \in live
          /\ ticket[node[node[obj].next].object] = ticket[o] + 1
          /\ node[obj].next # obj
      BY <1>1, <1>2, <1>3, <2>2 DEF IInv, Chain, TypeOK
    <3>2. \A a \in live' :
             /\ node[a].object \in Objects
             /\ ticket[o] + 1 <= ticket[node[a].object]
      <4> SUFFICES ASSUME NEW a \in live'
                   PROVE  /\ node[a].object \in Objects
                          /\ ticket[o] + 1 <= ticket[node[a].object]
        OBVIOUS
      <4>1. a \in live /\ a # obj /\ node[a].object \in Objects
        BY <1>2 DEF IInv, Entries
      <4>2. node[a].object # o
        BY <1>3, <4>1 DEF IInv, OneEntryPerObject
      <4>3. ticket[o] # ticket[node[a].object]
        BY <1>3, <4>1, <4>2 DEF IInv, Tickets, Queued
      <4>4. ticket[o] <= ticket[node[a].object]
        BY <1>2, <1>3, <4>1 DEF IInv, Chain
      <4> QED BY <1>1, <1>3, <4>1, <4>3, <4>4 DEF TypeOK
    <3>3. \A a \in live' :
             a # last => /\ node[a].next \in live'
                         /\ ticket[node[node[a].next].object] =
                               ticket[node[a].object] + 1
      BY <1>1, <1>2, <1>3, <3>2 DEF IInv, Chain, TypeOK
    <3>4. \A p \in Objects : Queued(p)' => \E a \in live' : node[a].object = p
      BY <1>1, <1>2, <1>3 DEF IInv, Chain, TypeOK, Queued
    <3> QED BY <1>2, <1>3, <2>2, <3>1, <3>2, <3>3, <3>4 DEF IInv, Chain
  <2> QED BY <2>1, <2>2
<1> QED BY <1>4, <1>5, <1>6, <1>7, <1>8, <1>9 DEF IInv

(* Freeing an object at once, when the collector is off or without memory. *)
LEMMA AddDirectIInv ==
    ASSUME IInv, NEW o \in Objects, AddDirect(o)
    PROVE  IInv'
<1> USE GCAssumption
<1>1. TypeOK BY DEF IInv
<1>2. /\ freeCount' = [freeCount EXCEPT ![o] = @ + 1]
      /\ freeCount[o] = 0 /\ ticket[o] = 0
      /\ UNCHANGED <<now, setbacks, enabled, live, node, first, last, obj, pc,
                     ticket, tickets, queuedAt>>
  BY DEF AddDirect, InUse, heapVars
<1>3. \A p \in Objects : /\ Queued(p)' <=> Queued(p)
                         /\ p # o => freeCount'[p] = freeCount[p]
  BY <1>1, <1>2 DEF Queued, TypeOK
<1>4. TypeOK' /\ FreedAtMostOnce' /\ Tickets' /\ CollectedInOrder'
  BY <1>1, <1>2, <1>3 DEF IInv, TypeOK, FreedAtMostOnce, Tickets, CollectedInOrder
<1>5. Entries' /\ OneEntryPerObject' /\ NeverUsed'
  BY <1>2, <1>3 DEF IInv, Entries, OneEntryPerObject, NeverUsed
<1>6. Chain'
  BY <1>2, <1>3 DEF IInv, Chain, Head
<1> QED BY <1>4, <1>5, <1>6 DEF IInv

(* The steps that leave the heap and the objects alone. *)
LEMMA HeapAloneIInv ==
    ASSUME IInv, TypeOK', Head' = Head, first' # NULL => last # NULL,
           obj' # NULL => last # NULL,
           UNCHANGED <<live, node, last, history>>
    PROVE  IInv'
<1>1. UNCHANGED <<live, node, last, freeCount, ticket, tickets, queuedAt>>
  BY DEF history
<1>2. \A p \in Objects : Queued(p)' <=> Queued(p)
  BY <1>1 DEF Queued
<1>3. FreedAtMostOnce' /\ Tickets' /\ CollectedInOrder'
  BY <1>1 DEF IInv, FreedAtMostOnce, Tickets, CollectedInOrder
<1>4. Entries' /\ OneEntryPerObject' /\ NeverUsed'
  BY <1>1, <1>2 DEF IInv, Entries, OneEntryPerObject, NeverUsed
<1>5. Chain'
  BY <1>1, <1>2 DEF IInv, Chain
<1> QED BY <1>3, <1>4, <1>5 DEF IInv

(* Every step of the specification keeps the invariant. *)
LEMMA NextIInv == IInv /\ [Next]_vars => IInv'
<1> USE GCAssumption
<1> SUFFICES ASSUME IInv, [Next]_vars PROVE IInv'
  OBVIOUS
<1>1. TypeOK /\ (last = NULL => first = NULL /\ obj = NULL)
  BY DEF IInv, NeverUsed
<1>2. ASSUME NEW b \in BOOLEAN, SetGc(b) PROVE IInv'
  <2>1. TypeOK' /\ Head' = Head
    BY <1>1, <1>2 DEF SetGc, TypeOK, heapVars, history, Head
  <2> QED BY <1>1, <1>2, <2>1, HeapAloneIInv DEF SetGc, heapVars
<1>3. ASSUME NEW o \in Objects, AddDirect(o) PROVE IInv'
  BY <1>3, AddDirectIInv
<1>4. ASSUME NEW o \in Objects, NEW a \in Addrs, AddEntry(o, a) PROVE IInv'
  BY <1>4, AddEntryIInv
<1>5. CASE ExecBegin
  <2>1. TypeOK' /\ Head' = Head
    BY <1>1, <1>5 DEF ExecBegin, TypeOK, heapVars, history, Head
  <2> QED BY <1>1, <1>5, <2>1, HeapAloneIInv DEF ExecBegin, heapVars
<1>6. CASE ExecFree
  BY <1>6, ExecFreeIInv
<1>7. CASE ExecEnd
  <2>1. TypeOK' /\ Head' = Head
    BY <1>1, <1>7 DEF ExecEnd, TypeOK, history, Head, HeadAfterExec
  <2> QED BY <1>1, <1>7, <2>1, HeapAloneIInv DEF ExecEnd, HeadAfterExec
<1>8. CASE Tick
  <2>1. TypeOK' /\ Head' = Head
    BY <1>1, <1>8 DEF Tick, TypeOK, heapVars, history, Head, Time
  <2> QED BY <1>1, <1>8, <2>1, HeapAloneIInv DEF Tick, heapVars
<1>9. CASE ClockSetBack
  <2>1. TypeOK' /\ Head' = Head
    BY <1>1, <1>9 DEF ClockSetBack, TypeOK, heapVars, history, Head, Time
  <2> QED BY <1>1, <1>9, <2>1, HeapAloneIInv DEF ClockSetBack, heapVars
<1>10. CASE UNCHANGED vars
  <2>1. TypeOK' /\ Head' = Head
    BY <1>1, <1>10 DEF vars, TypeOK, heapVars, history, Head
  <2> QED BY <1>1, <1>10, <2>1, HeapAloneIInv DEF vars, heapVars
<1> QED BY <1>2, <1>3, <1>4, <1>5, <1>6, <1>7, <1>8, <1>9, <1>10
        DEF Next, Add, Exec

(* The invariant holds in every reachable state. *)
LEMMA Invariance == Spec => []IInv
  BY InitIInv, NextIInv, PTL DEF Spec

(* Type correctness of the collector's pointers, heap and history. *)
THEOREM TypeCorrect == Spec => []TypeOK
<1>1. IInv => TypeOK BY DEF IInv
<1> QED BY Invariance, <1>1, PTL

(* No object is ever passed to free() twice by iogc_add_callback() and     *)
(* iogc_exec(), for any number of objects and whatever cells malloc()      *)
(* returns.                                                                *)
THEOREM NoDoubleFree == Spec => []FreedAtMostOnce
<1>1. IInv => FreedAtMostOnce BY DEF IInv
<1> QED BY Invariance, <1>1, PTL

(* iogc_exec() only follows pointers to allocated entries, although        *)
(* iogc_add_callback() may write through last_object to a freed one.       *)
THEOREM WalkSafe == Spec => []WalkStaysOnHeap
<1>1. IInv => WalkStaysOnHeap BY DEF IInv, Chain, WalkStaysOnHeap
<1> QED BY Invariance, <1>1, PTL

(* The objects that were queued are freed first in, first out. *)
THEOREM FirstInFirstOut == Spec => []CollectedInOrder
<1>1. IInv => CollectedInOrder BY DEF IInv
<1> QED BY Invariance, <1>1, PTL

(* While the list has a head it holds exactly the objects that wait. *)
THEOREM ListIsComplete == Spec => []NothingLost
<1>1. IInv => NothingLost
  <2> SUFFICES ASSUME IInv, Head # NULL PROVE NothingLost
    BY DEF NothingLost
  <2>1. {node[a].object : a \in live} = {o \in Objects : Queued(o)}
    BY DEF IInv, Entries, Chain
  <2> QED BY <2>1 DEF IInv, Chain, NothingLost
<1> QED BY Invariance, <1>1, PTL

(* The three together, as the run checks them. *)
THEOREM ListStaysSafe == Spec => []ListIsSafe
<1>1. FreedAtMostOnce /\ WalkStaysOnHeap /\ NothingLost => ListIsSafe
  BY DEF ListIsSafe
<1> QED BY NoDoubleFree, WalkSafe, ListIsComplete, <1>1, PTL

(* A queued object outlives its grace period: a step frees it only if the  *)
(* clock reads more than IOGC_TIMEOUT after it was queued.                 *)
THEOREM Grace == Spec => KeptForTimeout
<1>1. IInv /\ [Next]_vars
        => [\A o \in Objects : (Queued(o) /\ freeCount'[o] # freeCount[o])
                => now > queuedAt[o] + IogcTimeout]_vars
  <2> SUFFICES ASSUME IInv, Next, NEW o \in Objects,
                      Queued(o), freeCount'[o] # freeCount[o]
               PROVE  now > queuedAt[o] + IogcTimeout
    BY DEF vars, history
  <2>1. TypeOK /\ IInv BY DEF IInv
  <2>2. CASE ExecFree
    <3>1. obj \in live /\ node[obj].object = o
      BY <2>1, <2>2 DEF ExecFree, IInv, Chain, Head, Entries, TypeOK
    <3> QED BY <2>1, <2>2, <3>1 DEF ExecFree, Expired, IInv, Entries, TypeOK,
                                    Time, IOGCObject
  <2>3. ASSUME NEW p \in Objects, AddDirect(p) PROVE FALSE
    <3>1. p # o BY <2>3 DEF AddDirect, InUse, Queued
    <3> QED BY <2>1, <2>3, <3>1 DEF AddDirect, TypeOK
  <2>4. ASSUME freeCount' = freeCount PROVE FALSE
    BY <2>4
  <2> QED BY <2>2, <2>3, <2>4 DEF Next, Add, Exec, SetGc, AddEntry, ExecBegin,
                                  ExecEnd, Tick, ClockSetBack, history
<1> QED BY Invariance, <1>1, PTL DEF Spec, KeptForTimeout

(* The pointer list implements DeferredFree: every step that appends, that *)
(* frees or that moves the clock is the abstract step of that name and all *)
(* others change nothing that the abstract specification sees.             *)
THEOREM Refinement == Spec => ImplementsDeferredFree
<1> USE GCAssumption
<1> DEFINE status == [o \in Objects |-> Status(o)]
<1>1. Init => Deferred!Init
  BY DEF Init, Deferred!Init, Status
<1>2. IInv /\ [Next]_vars => [Deferred!Next]_(Deferred!vars)
  <2> SUFFICES ASSUME IInv, [Next]_vars
               PROVE  [Deferred!Next]_(Deferred!vars)
    OBVIOUS
  <2>1. TypeOK BY DEF IInv
  <2>2. ASSUME NEW o \in Objects, NEW a \in Addrs, AddEntry(o, a)
        PROVE  Deferred!PutOff(o)
    <3>1. status' = [status EXCEPT ![o] = "waiting"]
      <4>1. \A p \in Objects :
               Status(p)' = IF p = o THEN "waiting" ELSE Status(p)
        BY <2>1, <2>2 DEF AddEntry, InUse, TypeOK, Status
      <4> QED BY <4>1
    <3> QED BY <2>1, <2>2, <3>1 DEF AddEntry, InUse, Deferred!PutOff, TypeOK, Status
  <2>3. ASSUME NEW o \in Objects, AddDirect(o) PROVE Deferred!FreeAtOnce(o)
    <3>1. status' = [status EXCEPT ![o] = "freed"]
      <4>1. \A p \in Objects :
               Status(p)' = IF p = o THEN "freed" ELSE Status(p)
        BY <2>1, <2>3 DEF AddDirect, InUse, TypeOK, Status
      <4> QED BY <4>1
    <3> QED BY <2>1, <2>3, <3>1 DEF AddDirect, InUse, Deferred!FreeAtOnce, TypeOK, Status
  <2>4. CASE ExecFree
    <3> DEFINE o == node[obj].object
    <3>1. /\ obj \in live /\ Head = obj
          /\ o \in Objects /\ Queued(o)
          /\ now > queuedAt[o] + IogcTimeout
      BY <2>1, <2>4 DEF ExecFree, Expired, IInv, Chain, Head, Entries, TypeOK,
                        Time, IOGCObject
    <3>2. status' = [status EXCEPT ![o] = "freed"]
      <4>1. \A p \in Objects :
               Status(p)' = IF p = o THEN "freed" ELSE Status(p)
        BY <2>1, <2>4, <3>1 DEF ExecFree, Queued, TypeOK, Status
      <4> QED BY <4>1
    <3>3. \A p \in Objects : Status(p) = "waiting" => ticket[o] <= ticket[p]
      BY <2>1, <2>4, <3>1 DEF ExecFree, IInv, Chain, Queued, TypeOK, Status
    <3>4. Deferred!Collect(o)
      BY <2>1, <2>4, <3>1, <3>2, <3>3
      DEF ExecFree, Queued, Deferred!Collect, TypeOK, Status
    <3> HIDE DEF o, status
    <3> QED BY <3>1, <3>4 DEF Deferred!Next
  <2>5. CASE Tick \/ ClockSetBack
    BY <2>1, <2>5 DEF Tick, ClockSetBack, Deferred!Next, Deferred!ClockMoves,
                      history, TypeOK, Time, Status
  <2>6. CASE \/ \E b \in BOOLEAN : SetGc(b)
             \/ ExecBegin \/ ExecEnd \/ UNCHANGED vars
    <3>1. UNCHANGED <<now, freeCount, ticket, tickets, queuedAt>>
      BY <2>6 DEF SetGc, ExecBegin, ExecEnd, vars, history
    <3>2. status' = status
      BY <3>1 DEF Status
    <3> QED BY <3>1, <3>2 DEF Deferred!vars
  <2> QED BY <2>2, <2>3, <2>4, <2>5, <2>6 DEF Next, Add, Exec, Deferred!Next
<1> QED BY <1>1, <1>2, Invariance, PTL
        DEF Spec, ImplementsDeferredFree, Deferred!Spec
=============================================================================
