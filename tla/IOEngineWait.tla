---------------------------- MODULE IOEngineWait ----------------------------
(***************************************************************************)
(* How long an engine sleeps: the arithmetic on struct timeval with which  *)
(* engine_epoll_loop(), engine_select_loop() and engine_kevent_loop() turn *)
(* the due time of the first timer and the limit of iosocket_loop() into   *)
(* the timeout of the system call, in the loop it is part of:              *)
(*   check the timers - sleep - dispatch events - check the timers.        *)
(*                                                                         *)
(* The timers are the set of their due times: IOTimer shows that the head  *)
(* of the list is the earliest of them.                                    *)
(***************************************************************************)
EXTENDS Integers, FiniteSets

CONSTANTS
    MsecPerSec,     \* 1000
    UsecPerMsec,    \* 1000
    NsecPerUsec,    \* 1000
    IntMax,         \* the largest int; msec of engine_epoll_loop() is an int
    LoopMaxTime,    \* IOHANDLER_LOOP_MAXTIME, in microseconds
    Intervals,      \* the delays, in microseconds, user code asks for
    MaxWork,        \* bound on the time callbacks take, in microseconds
    MaxTimers,      \* bound on the timers that wait at a time
    MaxTime         \* bound: the clock stops there

UsecPerSec == MsecPerSec * UsecPerMsec

ASSUME WaitAssumption ==
    /\ MsecPerSec \in Nat \ {0}
    /\ UsecPerMsec \in Nat \ {0}
    /\ NsecPerUsec \in Nat \ {0}
    /\ IntMax \in Nat
    /\ LoopMaxTime \in 0 .. (UsecPerSec - 1)
    /\ LoopMaxTime <= IntMax
    /\ Intervals \subseteq Nat
    /\ MaxWork \in Nat
    /\ MaxTimers \in Nat
    /\ MaxTime \in Nat

VARIABLES
    engine,     \* "epoll", "select" or "kevent"
    clock,      \* the time, in microseconds
    due,        \* the due times of the listed timers
    now,        \* the variable of that name: the last gettimeofday()
    wait,       \* the timeout of the system call in microseconds, or Forever
    pc          \* "check", "prepare", "sleep", "dispatch" or "recheck"

vars == <<engine, clock, due, now, wait, pc>>

-----------------------------------------------------------------------------
(* struct timeval *)

Timeval == [sec : Nat, usec : Nat]

Micros(tv) == tv.sec * UsecPerSec + tv.usec

(* gettimeofday() at a time t *)
TimeOfDay(t) == [sec |-> t \div UsecPerSec, usec |-> t % UsecPerSec]

(* timeval_is_bigger(), timeval_is_smaler() *)
IsBigger(x, y) == x.sec > y.sec \/ (x.sec = y.sec /\ x.usec > y.usec)
IsSmaler(x, y) == x.sec < y.sec \/ (x.sec = y.sec /\ x.usec < y.usec)

(* Mutant of Plus: the microseconds are not carried over. *)
PlusNoCarry(x, y) == [sec |-> x.sec + y.sec, usec |-> x.usec + y.usec]

(* The sum of _autoreload_timer(): microseconds are carried over when they *)
(* exceed a second, so that the result may hold exactly 1000000 of them.   *)
Plus(x, y) ==
    LET usec == x.usec + y.usec IN
    IF usec > UsecPerSec
    THEN [sec |-> x.sec + y.sec + usec \div UsecPerSec,
          usec |-> usec % UsecPerSec]
    ELSE [sec |-> x.sec + y.sec, usec |-> usec]

-----------------------------------------------------------------------------
(* The timeout of the system call. *)

Forever == -1

Smallest(set) == CHOOSE x \in set : \A y \in set : ~ IsBigger(x, y)

(* iotimer_sorted_descriptors->timeout *)
HeadTime == Smallest(due)

(* The conversion of a long to an int. *)
ToInt(n) == ((n + IntMax + 1) % (2 * (IntMax + 1))) - (IntMax + 1)

(* Division in C rounds towards zero. *)
Quotient(a, b) == IF a >= 0 THEN a \div b ELSE -((-a) \div b)

(* The limit iosocket_loop() passes to the engine. *)
Limit == [sec |-> LoopMaxTime \div UsecPerSec,
          usec |-> LoopMaxTime % UsecPerSec]

(* Mutant of MsecBetween: rounded up instead of towards zero. *)
MsecBetweenUp(x, y) ==
    (x.sec - y.sec) * MsecPerSec + Quotient(x.usec - y.usec, UsecPerMsec) + 1

(* The milliseconds from y to x, before they are stored in an int. *)
MsecBetween(x, y) ==
    ToInt((x.sec - y.sec) * MsecPerSec) + Quotient(x.usec - y.usec, UsecPerMsec)

MsecToHead == ToInt(MsecBetween(HeadTime, now))

MsecLimit == ToInt(Limit.sec * MsecPerSec + Limit.usec \div UsecPerMsec)

(* engine_epoll_loop(); a negative timeout means no timeout. *)
EpollWait ==
    LET msec == IF due = {} \/ MsecLimit < MsecToHead
                THEN MsecLimit ELSE MsecToHead
    IN  IF msec < 0 THEN Forever ELSE msec * UsecPerMsec

(* The difference that select and kevent compute, with one borrow. *)
TimeToHead ==
    LET sec == HeadTime.sec - now.sec
        usec == HeadTime.usec - now.usec
    IN  IF usec < 0 THEN [sec |-> sec - 1, usec |-> usec + UsecPerSec]
        ELSE [sec |-> sec, usec |-> usec]

(* The variable tout of select and kevent. *)
Tout == IF due = {} \/ IsSmaler(Limit, TimeToHead) THEN Limit ELSE TimeToHead

SelectWait == Micros(Tout)

(* kevent() takes a struct timespec and is given the address of tout, a    *)
(* struct timeval: the microseconds are read as nanoseconds.  The clock of *)
(* this module counts microseconds, a part of one is a whole one.          *)
KeventWait ==
    Tout.sec * UsecPerSec + (Tout.usec + NsecPerUsec - 1) \div NsecPerUsec

(* Mutant of EngineTimeout: the limit is not taken into account. *)
WaitForHead == IF due = {} THEN LoopMaxTime ELSE Micros(TimeToHead)

EngineTimeout ==
    CASE engine = "epoll" -> EpollWait
      [] engine = "select" -> SelectWait
      [] engine = "kevent" -> KeventWait

-----------------------------------------------------------------------------
(* iosockets_init_engine() takes the first engine that can be started. *)
Init ==
    /\ engine \in {"epoll", "select", "kevent"}
    /\ clock = 0
    /\ due = {}
    /\ now = TimeOfDay(0)
    /\ wait = 0
    /\ pc = "check"

Later(t, d) == IF t + d < MaxTime THEN t + d ELSE MaxTime

(* User code starts a timer: before the loop runs, at the end of the       *)
(* callbacks of a check, or from an event.                                 *)
Arm(i) ==
    /\ pc \in {"check", "prepare", "dispatch"}
    /\ Cardinality(due) < MaxTimers
    /\ clock + i < MaxTime             \* bound: it comes due
    /\ due' = due \cup {Plus(TimeOfDay(clock), TimeOfDay(i))}
    /\ UNCHANGED <<engine, clock, now, wait, pc>>

(* Mutant of HeadIsPast: the check is left out. *)
NeverPast(t) == FALSE

(* The test of the engines for the first timer. *)
HeadIsPast(t) == due # {} /\ IsBigger(t, HeadTime)

(* _trigger_timer(), called for a head that is past its time at the        *)
(* reading t: callbacks take the time w, it reads the clock again and      *)
(* stops only when the head is due later than that.                        *)
Trigger(t, w) ==
    IF HeadIsPast(t)
    THEN /\ clock' = Later(clock, w)
         /\ due' = {d \in due : IsBigger(d, TimeOfDay(clock'))}
    ELSE UNCHANGED <<clock, due>>

(* The first check. The reading in now is not renewed after it. *)
Check(w) ==
    /\ pc = "check"
    /\ pc' = "prepare"
    /\ now' = TimeOfDay(clock)
    /\ Trigger(TimeOfDay(clock), w)
    /\ UNCHANGED <<engine, wait>>

Prepare ==
    /\ pc = "prepare"
    /\ pc' = "sleep"
    /\ wait' = EngineTimeout
    /\ UNCHANGED <<engine, clock, due, now>>

(* engine_select_loop() reads the clock before it dispatches the events,   *)
(* the other engines after it.                                             *)
Wake(d) ==
    /\ pc = "sleep"
    /\ pc' = "dispatch"
    /\ clock' = Later(clock, d)
    /\ now' = IF engine = "select" THEN TimeOfDay(clock') ELSE now
    /\ UNCHANGED <<engine, due, wait>>

(* The system call returns when its time is over. *)
SleepTimesOut ==
    /\ wait # Forever
    /\ Wake(wait)

(* Or earlier, with an event. *)
SleepInterrupted(d) ==
    /\ wait = Forever \/ d < wait
    /\ Wake(d)

(* Or it fails other than with EINTR, as kevent() does if what is behind   *)
(* the microseconds of tout in memory makes no number of nanoseconds: the  *)
(* loop function returns.                                                  *)
CallFails ==
    /\ pc = "sleep"
    /\ pc' = "check"
    /\ UNCHANGED <<engine, clock, due, now, wait>>

DispatchEnds ==
    /\ pc = "dispatch"
    /\ pc' = "recheck"
    /\ UNCHANGED <<engine, clock, due, now, wait>>

(* engine_select_loop() returns at the first socket that is not active: it *)
(* leaves out the second check.                                            *)
DispatchCutShort ==
    /\ pc = "dispatch"
    /\ engine = "select"
    /\ pc' = "check"
    /\ UNCHANGED <<engine, clock, due, now, wait>>

(* The second check, and the loop of IOHandler.c calls the engine again.   *)
Recheck(w) ==
    /\ pc = "recheck"
    /\ pc' = "check"
    /\ now' = IF engine = "select" THEN now ELSE TimeOfDay(clock)
    /\ Trigger(now', w)
    /\ UNCHANGED <<engine, wait>>

(* Callbacks take time, and so does the rest of the program. *)
Tick ==
    /\ pc \in {"check", "dispatch"}
    /\ clock < MaxTime
    /\ clock' = clock + 1
    /\ UNCHANGED <<engine, due, now, wait, pc>>

Loop ==
    \/ \E w \in 0 .. MaxWork : Check(w) \/ Recheck(w)
    \/ Prepare
    \/ SleepTimesOut \/ CallFails
    \/ DispatchEnds \/ DispatchCutShort

Next ==
    \/ \E i \in Intervals : Arm(i)
    \/ Loop
    \/ \E d \in 0 .. LoopMaxTime : SleepInterrupted(d)
    \/ Tick

Spec == Init /\ [][Next]_vars

(* The loop of the library runs on; a system call with a timeout returns;  *)
(* time passes, also for a loop whose system calls fail at once.           *)
FairSpec == Spec /\ SF_vars(Loop) /\ SF_vars(Tick)

-----------------------------------------------------------------------------
TypeOK ==
    /\ engine \in {"epoll", "select", "kevent"}
    /\ clock \in 0 .. MaxTime
    /\ due \subseteq Timeval
    /\ now \in Timeval /\ now.usec < UsecPerSec
    /\ \A d \in due : d.usec <= UsecPerSec
    /\ wait \in Int
    /\ pc \in {"check", "prepare", "sleep", "dispatch", "recheck"}

(* "#define IOHANDLER_LOOP_MAXTIME 100000 /* 100ms */" (IOHandler_config.h *)
(* line 55): whatever timers are listed, one turn of the loop sleeps no    *)
(* longer than that, and never without a timeout.                          *)
SleepsAtMostLoopMaxTime == pc = "sleep" => wait \in 0 .. LoopMaxTime

Spent == clock - Micros(now)

Distance == Micros(HeadTime) - Micros(now)

(* "//get timeout (timer or given timeout)" (IOEngine_epoll.c line 81,     *)
(* IOEngine_select.c line 75, IOEngine_kevent.c line 87).  An engine does  *)
(* not sleep past a due time by a millisecond or more, apart from the time *)
(* the callbacks of the first check took: now is read before they run.     *)
(* Rounding towards zero goes the wrong way only when the microseconds are *)
(* negative.  And its timeout is no shorter by a millisecond or more than  *)
(* the first timer and the given timeout allow, so that it does not spin   *)
(* while nothing is to do - with kevent, which waits a thousandth of the   *)
(* microseconds in tout, it does.                                          *)
WakesInTimeUnlessKevent ==
    pc = "sleep" =>
        /\ due # {} => clock + wait < Micros(HeadTime) + Spent + UsecPerMsec
        /\ engine # "kevent" =>
               \/ wait > LoopMaxTime - UsecPerMsec
               \/ due # {} /\ wait > Distance - UsecPerMsec

(* A timer that is due fires: the loop neither sleeps past it for ever nor *)
(* spins without letting it fire.                                          *)
DueFires ==
    \A t \in 0 .. MaxTime :
        (\E d \in due : Micros(d) = t) ~> ~ (\E d \in due : Micros(d) = t)
=============================================================================
