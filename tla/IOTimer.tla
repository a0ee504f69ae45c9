------------------------------ MODULE IOTimer ------------------------------
(***************************************************************************)
(* The timers of src/IOHandler/IOTimer.c: a doubly linked list of the      *)
(* active timers in the order of their due times, whose head the engines   *)
(* compare with the clock, and the functions that link and unlink timers,  *)
(* called by user code, also from the callback of a timer that fires.      *)
(*                                                                         *)
(* The links are the ones of struct _IOTimerDescriptor: taking a timer out *)
(* of the list leaves its own prev and next as they were.  The walk of     *)
(* _rearrange_timer() along the list is made of steps of its own, so that  *)
(* a walk that never ends is a behaviour of the model.                     *)
(***************************************************************************)
EXTENDS Naturals

CONSTANTS
    Timers,     \* descriptors; each is created and destroyed at most once
    NULL,
    MaxTime,    \* bound on the clock
    Timeouts,   \* the times user code asks for; 0 is an unset timeval
    Periods,    \* the autoreload intervals user code asks for
    Rearming    \* whether user code links a timer into the list again:
                \* autoreload, a new timeout while active, a restart

ASSUME TimerAssumption ==
    /\ NULL \notin Timers
    /\ MaxTime \in Nat \ {0}
    /\ Timeouts \subseteq Nat
    /\ Periods \subseteq Nat
    /\ Rearming \in BOOLEAN

VARIABLES
    now,        \* what gettimeofday() returns
    state,      \* of a descriptor: "none", "open", or "destroyed" when
                \* descriptor->iotimer is NULL and the timer is freed
    flags,      \* PERIODIC, ACTIVE, IN_LIST and PERSISTENT
    timeout,
    autoreload,
    list,       \* head: iotimer_sorted_descriptors; prev, next: the links
                \* of every timer, also of those that are not in the list
    pc,         \* who runs: "user", "walk", "trigger" or "callback"
    timer,      \* the argument of _rearrange_timer() during a walk
    ctimer,     \* the loop variable of the walk
    back,       \* the value of pc that _rearrange_timer() returns to
    fired,      \* the timer whose callback runs
    linked,     \* history: the timers that were ever linked
    stale       \* history: a timer was linked with an old link left in it

fields == <<state, flags, timeout, autoreload>>
walk == <<timer, ctimer, back>>
history == <<linked, stale>>
vars == <<now, fields, list, pc, walk, fired, history>>

Pointer == Timers \cup {NULL}

Flags == {"PERIODIC", "ACTIVE", "IN_LIST", "PERSISTENT"}

Has(t, f) == f \in flags[t]

Listed(t) == Has(t, "IN_LIST")

Init ==
    /\ now = 1
    /\ state = [t \in Timers |-> "none"]
    /\ flags = [t \in Timers |-> {}]
    /\ timeout = [t \in Timers |-> 0]
    /\ autoreload = [t \in Timers |-> 0]
    /\ list = [head |-> NULL,
               prev |-> [t \in Timers |-> NULL],
               next |-> [t \in Timers |-> NULL]]
    /\ pc = "user"
    /\ timer = NULL
    /\ ctimer = NULL
    /\ back = "user"
    /\ fired = NULL
    /\ linked = {}
    /\ stale = FALSE

-----------------------------------------------------------------------------
(* The list. *)

(* What follows p, or comes first if there is no p, becomes v. *)
SetAfter(l, p, v) ==
    IF p = NULL THEN [l EXCEPT !.head = v] ELSE [l EXCEPT !.next[p] = v]

(* Mutant of SetBefore: the back link is forgotten. *)
KeepBefore(l, n, v) == l

SetBefore(l, n, v) ==
    IF n = NULL THEN l ELSE [l EXCEPT !.prev[n] = v]

Unlinked(l, t) ==
    SetBefore(SetAfter(l, l.prev[t], l.next[t]), l.next[t], l.prev[t])

(* Mutant of Popped: the timer stays in the list. *)
PoppedNone(l) == l

(* What _trigger_timer() does to take the first timer off. *)
Popped(l) ==
    SetBefore([l EXCEPT !.head = l.next[l.head]],
              l.next[l.head], l.prev[l.head])

InsertedBefore(l, c, t) ==
    [SetAfter([l EXCEPT !.next[t] = c, !.prev[t] = l.prev[c]], l.prev[c], t)
        EXCEPT !.prev[c] = t]

(* The end of the list: the next of t itself is not written. *)
AppendedTo(l, c, t) == [l EXCEPT !.next[c] = t, !.prev[t] = c]

(* An empty list: neither link of t is written. *)
Alone(l, t) == [l EXCEPT !.head = t]

(* The history of a timer that is in the list l from now on. *)
LinkedInto(l, t, dirty) ==
    /\ list' = l
    /\ linked' = linked \cup {t}
    /\ stale' = (stale \/ dirty)

InList(f) == f \cup {"IN_LIST"}

(* _rearrange_timer(t), once t is not in the list l any more: f are its    *)
(* flags without IN_LIST, r is the value of pc to return to.               *)
Rearrange(l, t, f, r) ==
    \/ /\ "ACTIVE" \notin f
       /\ list' = l
       /\ flags' = [flags EXCEPT ![t] = f]
       /\ pc' = r
       /\ UNCHANGED <<walk, history>>
    \/ /\ "ACTIVE" \in f
       /\ l.head = NULL
       /\ LinkedInto(Alone(l, t), t, l.prev[t] # NULL \/ l.next[t] # NULL)
       /\ flags' = [flags EXCEPT ![t] = InList(f)]
       /\ pc' = r
       /\ UNCHANGED walk
    \/ /\ "ACTIVE" \in f
       /\ l.head # NULL
       /\ list' = l
       /\ flags' = [flags EXCEPT ![t] = f]
       /\ pc' = "walk"
       /\ timer' = t
       /\ ctimer' = l.head
       /\ back' = r
       /\ UNCHANGED history

(* The list without t, if t is in it. *)
Without(t) == IF Listed(t) THEN Unlinked(list, t) ELSE list

(* timeval_is_bigger() for an entry c of the list and the timer t, and a   *)
(* mutant that compares the other way round.                               *)
IsSmaller(c, t) == timeout[c] < timeout[t]
IsBigger(c, t) == timeout[c] > timeout[t]

(* _rearrange_timer() sets IN_LIST and returns. *)
WalkDone ==
    /\ flags' = [flags EXCEPT ![timer] = InList(@)]
    /\ pc' = back
    /\ timer' = NULL
    /\ ctimer' = NULL
    /\ back' = "user"
    /\ UNCHANGED <<now, state, timeout, autoreload, fired>>

(* An entry that is due later is found: the timer goes before it. *)
WalkInsert ==
    /\ pc = "walk"
    /\ IsBigger(ctimer, timer)
    /\ LinkedInto(InsertedBefore(list, ctimer, timer), timer, FALSE)
    /\ WalkDone

(* There is none: the timer goes behind the last entry. *)
WalkAppend ==
    /\ pc = "walk"
    /\ ~ IsBigger(ctimer, timer)
    /\ list.next[ctimer] = NULL
    /\ LinkedInto(AppendedTo(list, ctimer, timer), timer,
                  list.next[timer] # NULL)
    /\ WalkDone

(* Mutant of WalkOn: the end of the list is not noticed. *)
WalkOnPastEnd ==
    /\ pc = "walk"
    /\ ~ IsBigger(ctimer, timer)
    /\ ctimer' = list.next[ctimer]
    /\ UNCHANGED <<now, fields, list, pc, timer, back, fired, history>>

WalkOn ==
    /\ pc = "walk"
    /\ ~ IsBigger(ctimer, timer)
    /\ list.next[ctimer] # NULL
    /\ ctimer' = list.next[ctimer]
    /\ UNCHANGED <<now, fields, list, pc, timer, back, fired, history>>

-----------------------------------------------------------------------------
(* The functions of IOTimer.h, called by user code and by callbacks. They  *)
(* return at once for a descriptor that was destroyed.                     *)

UserCalls(t) == pc \in {"user", "callback"} /\ state[t] = "open"

MayLink(t) == Rearming \/ t \notin linked

(* iotimer_create() *)
Create(t, to) ==
    /\ pc \in {"user", "callback"}
    /\ state[t] = "none"
    /\ state' = [state EXCEPT ![t] = "open"]
    /\ timeout' = [timeout EXCEPT ![t] = to]
    /\ UNCHANGED <<now, flags, autoreload, list, pc, walk, fired, history>>

(* iotimer_start() *)
Start(t) ==
    /\ UserCalls(t)
    /\ MayLink(t)
    /\ Rearrange(Without(t), t, (flags[t] \ {"IN_LIST"}) \cup {"ACTIVE"}, pc)
    /\ UNCHANGED <<now, state, timeout, autoreload, fired>>

(* iotimer_destroy(): the timer is unlinked and freed, its descriptor goes *)
(* to the garbage collector.                                               *)
DestroyTimer(t) ==
    /\ state' = [state EXCEPT ![t] = "destroyed"]
    /\ flags' = [flags EXCEPT ![t] = {}]
    /\ list' = Without(t)
    /\ UNCHANGED <<now, timeout, autoreload, walk, history>>

Destroy(t) ==
    /\ UserCalls(t)
    /\ DestroyTimer(t)
    /\ UNCHANGED <<pc, fired>>

(* iotimer_stop(): only a persistent timer survives it. *)
Stop(t) ==
    /\ UserCalls(t)
    /\ IF Has(t, "PERSISTENT")
       THEN /\ Rearrange(Without(t), t, flags[t] \ {"IN_LIST", "ACTIVE"}, pc)
            /\ UNCHANGED <<now, state, timeout, autoreload>>
       ELSE DestroyTimer(t) /\ UNCHANGED pc
    /\ UNCHANGED fired

(* iotimer_set_timeout() *)
SetTimeout(t, to) ==
    /\ UserCalls(t)
    /\ MayLink(t)
    /\ timeout' = [timeout EXCEPT ![t] = to]
    /\ Rearrange(Without(t), t, flags[t] \ {"IN_LIST"}, pc)
    /\ UNCHANGED <<now, state, autoreload, fired>>

(* iotimer_set_autoreload(): a timer without a time gets one. *)
SetAutoreload(t, p) ==
    /\ UserCalls(t)
    /\ Rearming
    /\ autoreload' = [autoreload EXCEPT ![t] = p]
    /\ \/ /\ timeout[t] = 0
          /\ timeout' = [timeout EXCEPT ![t] = now + p]
          /\ Rearrange(Without(t), t,
                       (flags[t] \ {"IN_LIST"}) \cup {"PERIODIC"}, pc)
       \/ /\ timeout[t] # 0
          /\ flags' = [flags EXCEPT ![t] = @ \cup {"PERIODIC"}]
          /\ UNCHANGED <<timeout, list, pc, walk, history>>
    /\ UNCHANGED <<now, state, fired>>

(* The calls that only change a flag: iotimer_set_autoreload(NULL) and     *)
(* iotimer_set_persistent().                                               *)
SetFlags(t, f) ==
    /\ UserCalls(t)
    /\ flags' = [flags EXCEPT ![t] = f]
    /\ UNCHANGED <<now, state, timeout, autoreload, list, pc, walk, fired,
                   history>>

ClearAutoreload(t) == SetFlags(t, flags[t] \ {"PERIODIC"})

SetPersistent(t) == SetFlags(t, flags[t] \cup {"PERSISTENT"})

ClearPersistent(t) == SetFlags(t, flags[t] \ {"PERSISTENT"})

-----------------------------------------------------------------------------
(* _trigger_timer(), called by the engines when the head is past its time. *)

TriggerBegin ==
    /\ pc = "user"
    /\ list.head # NULL
    /\ now > timeout[list.head]
    /\ pc' = "trigger"
    /\ UNCHANGED <<now, fields, list, walk, fired, history>>

(* The engine's check finds nothing to do. *)
TriggerSkipped ==
    /\ pc = "user"
    /\ list.head # NULL => now <= timeout[list.head]
    /\ UNCHANGED vars

(* Mutant of IsDue: a timer fires one unit of time too early. *)
IsNearlyDue(t) == timeout[t] <= now + 1

IsDue(t) == timeout[t] <= now

TriggerEnd ==
    /\ pc = "trigger"
    /\ list.head # NULL => ~ IsDue(list.head)
    /\ pc' = "user"
    /\ UNCHANGED <<now, fields, list, walk, fired, history>>

(* A timer that is not periodic is only taken off the list. *)
FireOneShot ==
    /\ pc = "trigger"
    /\ list.head # NULL
    /\ IsDue(list.head)
    /\ ~ Has(list.head, "PERIODIC")
    /\ fired' = list.head
    /\ list' = Popped(list)
    /\ flags' = [flags EXCEPT ![list.head] = @ \ {"IN_LIST"}]
    /\ pc' = "callback"
    /\ UNCHANGED <<now, state, timeout, autoreload, walk, history>>

(* A periodic timer is moved on by its interval and linked again before    *)
(* its callback runs (_autoreload_timer()).                                *)
FirePeriodic ==
    /\ pc = "trigger"
    /\ list.head # NULL
    /\ IsDue(list.head)
    /\ Has(list.head, "PERIODIC")
    /\ fired' = list.head
    /\ timeout' = [timeout EXCEPT ![list.head] = @ + autoreload[list.head]]
    /\ Rearrange(Popped(list), list.head, flags[list.head] \ {"IN_LIST"},
                 "callback")
    /\ UNCHANGED <<now, state, autoreload>>

(* The callback returned: a timer that is not periodic is destroyed, also  *)
(* if the callback started it again.  Nothing is left to do for one that   *)
(* the callback destroyed.                                                 *)
CallbackReturns ==
    /\ pc = "callback"
    /\ pc' = "trigger"
    /\ fired' = NULL
    /\ IF state[fired] = "open" /\ ~ Has(fired, "PERIODIC")
       THEN DestroyTimer(fired)
       ELSE UNCHANGED <<now, fields, list, walk, history>>

(* Time passes in user code and between the calls of the library. *)
Tick ==
    /\ pc \in {"user", "callback"}
    /\ now < MaxTime
    /\ now' = now + 1
    /\ UNCHANGED <<fields, list, pc, walk, fired, history>>

-----------------------------------------------------------------------------
UserCall(t) ==
    \/ \E to \in Timeouts : Create(t, to) \/ SetTimeout(t, to)
    \/ \E p \in Periods : SetAutoreload(t, p)
    \/ Start(t) \/ Stop(t) \/ Destroy(t)
    \/ ClearAutoreload(t) \/ SetPersistent(t) \/ ClearPersistent(t)

Walk == WalkInsert \/ WalkAppend \/ WalkOn

Trigger == TriggerBegin \/ TriggerEnd \/ FireOneShot \/ FirePeriodic

Next ==
    \/ \E t \in Timers : UserCall(t)
    \/ Walk
    \/ Trigger
    \/ TriggerSkipped
    \/ CallbackReturns
    \/ Tick

Spec == Init /\ [][Next]_vars

(* The library's own code runs on, callbacks return, time passes, and the  *)
(* loop of IOHandler.c reaches the check of the engine again and again.    *)
FairSpec ==
    /\ Spec
    /\ WF_vars(Walk)
    /\ SF_vars(Trigger)
    /\ SF_vars(CallbackReturns)
    /\ SF_vars(Tick)

-----------------------------------------------------------------------------
ListRecord == [head : Pointer,
               prev : [Timers -> Pointer],
               next : [Timers -> Pointer]]

TypeOK ==
    /\ now \in 1 .. MaxTime
    /\ state \in [Timers -> {"none", "open", "destroyed"}]
    /\ flags \in [Timers -> SUBSET Flags]
    /\ timeout \in [Timers -> Nat]
    /\ autoreload \in [Timers -> Periods \cup {0}]
    /\ list \in ListRecord
    /\ pc \in {"user", "walk", "trigger", "callback"}
    /\ timer \in Pointer /\ ctimer \in Pointer /\ fired \in Pointer
    /\ back \in {"user", "callback"}
    /\ (pc = "walk") = (timer # NULL) /\ (pc = "walk") = (ctimer # NULL)
    /\ (pc = "callback" \/ back = "callback") => fired # NULL
    /\ linked \subseteq Timers
    /\ stale \in BOOLEAN

(* No pointer of the list leads to a timer that was freed, and both links  *)
(* of two neighbours agree, in every state a callback can see. The one     *)
(* exception is the code's own: a timer linked with an old link left in.   *)
LinksAgree ==
    ~ stale =>
        /\ list.head # NULL => /\ Listed(list.head)
                               /\ list.prev[list.head] = NULL
        /\ \A t \in Timers : Listed(t) =>
              /\ state[t] = "open"
              /\ list.prev[t] = NULL <=> list.head = t
              /\ list.next[t] # NULL =>
                    Listed(list.next[t]) /\ list.prev[list.next[t]] = t
              /\ list.prev[t] # NULL =>
                    Listed(list.prev[t]) /\ list.next[list.prev[t]] = t

(* The engines only look at the head: no listed timer is due before it.    *)
HeadIsEarliest ==
    ~ stale => \A t \in Timers :
        Listed(t) => /\ list.head # NULL
                     /\ timeout[list.head] <= timeout[t]

(* A timer that was started is in the list until it fires, is stopped or   *)
(* is destroyed: the only one that is not is the one being rearranged, or  *)
(* the one whose callback runs.                                            *)
ActiveIsListed ==
    \A t \in Timers :
        (state[t] = "open" /\ Has(t, "ACTIVE") /\ ~ Listed(t))
            => t \in {timer, fired}

(* The list in every state that a callback can see.  A timer that its own  *)
(* callback makes periodic is too late to be linked again, and stays       *)
(* active without being listed, which Rearming allows.                     *)
ListIsSorted ==
    /\ LinksAgree /\ HeadIsEarliest
    /\ ~ Rearming => ActiveIsListed

(* A timer fires when its time has come and in the order of the times: no  *)
(* listed timer is due before the one taken off.                           *)
FiresInOrder ==
    [][ (pc = "trigger" /\ fired' # NULL) =>
            /\ timeout[fired'] <= now
            /\ ~ stale => \A t \in Timers :
                              Listed(t) => timeout[fired'] <= timeout[t] ]_vars

(* A timer that waits for its time fires, is stopped or is destroyed, and  *)
(* the loop of _trigger_timer() ends and gives control back to the engine. *)
TimersProgress ==
    /\ \A t \in Timers : Listed(t) ~> ~ Listed(t)
    /\ (pc = "trigger") ~> (pc = "user")
=============================================================================
