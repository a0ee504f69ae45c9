------------------------- MODULE IOGarbageCollector -------------------------
(***************************************************************************)
(* The deferred free of src/IOHandler/IOGarbageCollector.c.                *)
(*                                                                         *)
(* Descriptors that user code may still hold (sockets, timers, queries)    *)
(* are not freed by the handler that retires them: iogc_add() appends them *)
(* to a singly linked list with a due time, and iogc_exec(), called at the *)
(* top of every turn of the event loop, frees the due prefix of that list. *)
(*                                                                         *)
(* The list is kept as the pointers of the source keep it, over a heap     *)
(* whose cells can be reused by a later malloc(), because what the code    *)
(* does after the list ran empty depends on a pointer to a freed cell.     *)
(***************************************************************************)
EXTENDS Naturals

CONSTANTS
    Objects,        \* descriptors handed to the collector, each at most once
    Addrs,          \* heap cells malloc() can return for an IOGCObject
    NULL,
    IogcTimeout,    \* IOGC_TIMEOUT, in ticks of the clock
    MaxTime,        \* bound on the clock
    MaxSetbacks     \* bound on the times the wall clock is set back

ASSUME GCAssumption ==
    /\ NULL \notin Addrs
    /\ NULL \notin Objects
    /\ IogcTimeout \in Nat
    /\ MaxTime \in Nat
    /\ MaxSetbacks \in Nat

VARIABLES
    now,            \* what gettimeofday() returns
    setbacks,       \* how often the wall clock was set back
    enabled,        \* iogc_enabled
    live,           \* the cells of Addrs that are allocated
    node,           \* their contents; a freed cell keeps its bytes
    first, last,    \* first_object, last_object
    obj,            \* the loop variable of iogc_exec()
    pc,             \* "dispatch": handlers and user code; "exec": iogc_exec()
    freeCount,      \* history: how often free() was called on an object
    ticket,         \* history: the place of an object in the order of queueing
    tickets,        \* history: the number of objects queued so far
    queuedAt        \* history: the clock when an object was queued

heapVars == <<live, node, first, last>>
history == <<freeCount, ticket, tickets, queuedAt>>
vars == <<now, setbacks, enabled, heapVars, obj, pc, history>>

Time == 0 .. MaxTime

IOGCObject == [object : Objects \cup {NULL},
               timeout : 0 .. (MaxTime + IogcTimeout),
               next : Addrs \cup {NULL}]

(* An object the program still uses: neither queued nor freed. *)
InUse(o) == freeCount[o] = 0 /\ ticket[o] = 0

(* An object that waits for removal. *)
Queued(o) == freeCount[o] = 0 /\ ticket[o] # 0

-----------------------------------------------------------------------------
Init ==
    /\ now = 0
    /\ setbacks = 0
    /\ enabled = TRUE
    /\ live = {}
    /\ node = [a \in Addrs |-> [object |-> NULL, timeout |-> 0, next |-> NULL]]
    /\ first = NULL
    /\ last = NULL
    /\ obj = NULL
    /\ pc = "dispatch"
    /\ freeCount = [o \in Objects |-> 0]
    /\ ticket = [o \in Objects |-> 0]
    /\ tickets = 0
    /\ queuedAt = [o \in Objects |-> 0]

(* iohandler_set_gc() *)
SetGc(b) ==
    /\ pc = "dispatch"
    /\ enabled' = b
    /\ UNCHANGED <<now, setbacks, heapVars, obj, pc, history>>

(* Mutants of DueTime: the timeout is forgotten; its unit is mistaken.     *)
DueTimeNow == now
DueTimeInMsec == now + 1000 * IogcTimeout

(* The due time written into a new entry. *)
DueTime == now + IogcTimeout

(* iogc_add_callback() frees at once when the collector is off, and also   *)
(* when malloc() has no memory for the entry.                              *)
AddDirect(o) ==
    /\ pc = "dispatch"
    /\ InUse(o)
    /\ freeCount' = [freeCount EXCEPT ![o] = @ + 1]
    /\ UNCHANGED <<now, setbacks, enabled, heapVars, obj, pc,
                   ticket, tickets, queuedAt>>

(* The store last_object->next = obj of iogc_add_callback(): last_object   *)
(* may point to a cell that was freed, or even to the new cell itself.     *)
LinkBehindLast(heap, a) ==
    IF last = NULL THEN heap ELSE [heap EXCEPT ![last].next = a]

(* first_object is only set when there is no last_object. *)
HeadAfterAdd(a) == IF last = NULL THEN a ELSE first

(* iogc_add_callback() appends an entry in the cell a that malloc() gave.  *)
AddEntry(o, a) ==
    /\ pc = "dispatch"
    /\ enabled
    /\ InUse(o)
    /\ a \notin live
    /\ now + IogcTimeout < MaxTime      \* bound: the entry can come due
    /\ live' = live \cup {a}
    /\ node' = LinkBehindLast(
                  [node EXCEPT ![a] = [object |-> o,
                                       timeout |-> DueTime,
                                       next |-> NULL]], a)
    /\ first' = HeadAfterAdd(a)
    /\ last' = a
    /\ tickets' = tickets + 1
    /\ ticket' = [ticket EXCEPT ![o] = tickets + 1]
    /\ queuedAt' = [queuedAt EXCEPT ![o] = now]
    /\ UNCHANGED <<now, setbacks, enabled, obj, pc, freeCount>>

(* iogc_exec() takes its one reading of the clock and starts at the head.  *)
ExecBegin ==
    /\ pc = "dispatch"
    /\ pc' = "exec"
    /\ obj' = first
    /\ UNCHANGED <<now, setbacks, enabled, heapVars, history>>

(* timeval_is_smaler(obj->timeout, now) *)
Expired(a) == node[a].timeout < now

(* One turn of the loop of iogc_exec(): the object and its entry are freed *)
ExecFree ==
    /\ pc = "exec"
    /\ obj # NULL
    /\ Expired(obj)
    /\ freeCount' = [freeCount EXCEPT ![node[obj].object] = @ + 1]
    /\ live' = live \ {obj}
    /\ obj' = node[obj].next
    /\ UNCHANGED <<now, setbacks, enabled, node, first, last, pc,
                   ticket, tickets, queuedAt>>

(* Mutants of HeadAfterExec: the head is not written back, or is cleared   *)
(* although the loop stopped at an entry that is not due.                  *)
StaleHead == first
ClearedHead == NULL

(* first_object = obj at the end of iogc_exec() *)
HeadAfterExec == obj

(* The loop of iogc_exec() ends: only the head of the list is written back *)
ExecEnd ==
    /\ pc = "exec"
    /\ obj # NULL => ~ Expired(obj)
    /\ first' = HeadAfterExec
    /\ obj' = NULL
    /\ pc' = "dispatch"
    /\ UNCHANGED <<now, setbacks, enabled, live, node, last, history>>

(* The wall clock. iogc_exec() reads it once, so that it need not move     *)
(* while the loop runs. gettimeofday() is not monotonic.                   *)
Tick ==
    /\ pc = "dispatch"
    /\ now < MaxTime
    /\ now' = now + 1
    /\ UNCHANGED <<setbacks, enabled, heapVars, obj, pc, history>>

ClockSetBack ==
    /\ pc = "dispatch"
    /\ setbacks < MaxSetbacks
    /\ setbacks' = setbacks + 1
    /\ \E t \in Time : t < now /\ now' = t
    /\ UNCHANGED <<enabled, heapVars, obj, pc, history>>

Add(o) == AddDirect(o) \/ \E a \in Addrs : AddEntry(o, a)

Exec == ExecBegin \/ ExecFree \/ ExecEnd

Next ==
    \/ \E b \in BOOLEAN : SetGc(b)
    \/ \E o \in Objects : Add(o)
    \/ Exec
    \/ Tick
    \/ ClockSetBack

Spec == Init /\ [][Next]_vars

(* iohandler_loop() calls iogc_exec() again and again and its loop runs to *)
(* the end; time passes.                                                   *)
FairSpec == Spec /\ WF_vars(Exec) /\ SF_vars(Tick)

-----------------------------------------------------------------------------
(* Where the list starts: first_object is stale while iogc_exec() runs. *)
Head == IF pc = "exec" THEN obj ELSE first

TypeOK ==
    /\ now \in Time
    /\ setbacks \in 0 .. MaxSetbacks
    /\ enabled \in BOOLEAN
    /\ live \subseteq Addrs
    /\ node \in [Addrs -> IOGCObject]
    /\ first \in Addrs \cup {NULL}
    /\ last \in Addrs \cup {NULL}
    /\ obj \in Addrs \cup {NULL}
    /\ pc \in {"dispatch", "exec"}
    /\ freeCount \in [Objects -> Nat]
    /\ ticket \in [Objects -> Nat]
    /\ tickets \in Nat
    /\ queuedAt \in [Objects -> Time]

(* free() is never called twice on an object, whatever cells malloc()      *)
(* reuses and however the collector is switched on and off: the loop of    *)
(* iogc_exec() never meets an entry again that it or an earlier run freed. *)
FreedAtMostOnce == \A o \in Objects : freeCount[o] <= 1

(* The walk of iogc_exec() only dereferences entries that are allocated.   *)
WalkStaysOnHeap == Head # NULL => Head \in live

(* Objects are freed in the order in which they were queued: what was      *)
(* queued before a freed object was freed too, even when the wall clock    *)
(* was set back in between and due times are out of order in the list.     *)
CollectedInOrder ==
    \A o, p \in Objects :
        (ticket[p] # 0 /\ ticket[p] < ticket[o] /\ freeCount[o] > 0)
            => freeCount[p] > 0

(* While the list has a head, the objects that wait for removal are the    *)
(* objects of the allocated entries, each entry leads to the one queued    *)
(* next, and last_object is the end: appending and freeing a prefix lose   *)
(* and duplicate nothing.                                                  *)
NothingLost ==
    Head # NULL =>
        /\ {node[a].object : a \in live} = {o \in Objects : Queued(o)}
        /\ \A a \in live :
              /\ ticket[node[Head].object] <= ticket[node[a].object]
              /\ IF a = last
                 THEN node[a].next = NULL
                 ELSE /\ node[a].next \in live
                      /\ ticket[node[node[a].next].object] =
                            ticket[node[a].object] + 1

(* The list behind a tail pointer that may be stale, over cells that are   *)
(* used again: nothing is freed twice, lost or reached when it is free.    *)
ListIsSafe == FreedAtMostOnce /\ WalkStaysOnHeap /\ NothingLost

(* The collector keeps an object for IOGC_TIMEOUT: an object that was      *)
(* queued is only freed when the clock reads more than that after the time *)
(* at which it was queued, so a handler on the stack still finds it.       *)
KeptForTimeout ==
    [][\A o \in Objects :
          (Queued(o) /\ freeCount'[o] # freeCount[o])
              => now > queuedAt[o] + IogcTimeout]_vars

(* The list implements deferred freeing: the abstract object waits while   *)
(* it is queued and is freed when free() was called.                       *)
Status(o) == IF freeCount[o] > 0 THEN "freed"
             ELSE IF ticket[o] # 0 THEN "waiting" ELSE "used"

Deferred == INSTANCE DeferredFree WITH
    Grace <- IogcTimeout,
    clock <- now,
    status <- [o \in Objects |-> Status(o)],
    since <- queuedAt,
    place <- ticket,
    count <- tickets

(* Every step of the collector is a step of DeferredFree or leaves it      *)
(* alone: no order of releases, clock changes, switches and reuse of heap  *)
(* cells shows that a list with a stale tail pointer is behind it.         *)
ImplementsDeferredFree == Deferred!Spec

Linked(o) == Head # NULL /\ \E a \in live : node[a].object = o

(* iogc_exec() stops at the first entry that is not due and ends: every    *)
(* object of the list it starts with is freed some time later, also when   *)
(* the clock is set back and a late entry holds up the ones behind it.     *)
LinkedIsFreed == \A o \in Objects : Linked(o) ~> freeCount[o] = 1
=============================================================================
