---------------------------- MODULE IODNSLookup ----------------------------
(***************************************************************************)
(* The DNS queries of src/IOHandler/IODNSLookup.c and the two engines that *)
(* work on them: the default one, which iodns_poll() lets resolve query by *)
(* query before the loop goes on, and c-ares, which asks for each kind of  *)
(* record by itself and gets the answers from the loop, in any order, or   *)
(* before the call that asks returns.                                      *)
(*                                                                         *)
(* A query belongs to a descriptor of user code, or to the lookup of a     *)
(* socket.  Its callback is user code again, which may ask and abort.  So  *)
(* the calls that are under way are a stack.  The sockets of c-ares are    *)
(* left to IOEngineDispatch.                                               *)
(***************************************************************************)
EXTENDS Naturals, Sequences, FiniteSets

CONSTANTS
    Queries     \* each is used at most once

VARIABLES
    dnsengine,  \* "default" or "cares"
    list,       \* the queries, from iodnsquery_first on
    flags,      \* RUNNING, PROCESSING
    type,       \* the records a query is for; {} before it is used
    result,     \* the records that were found
    left,       \* c-ares: the records it has not answered for; their number
                \* is query_count
    descriptor, \* whose query it is, and if the descriptor points to it
    timer,      \* dnsengine_cares_timer is started
    stack,      \* the calls under way, the innermost first
    answers,    \* history: how often the callback of a query was called
    aborted     \* history: the queries that user code aborted

query == <<flags, type, result, left>>
vars == <<dnsengine, list, query, descriptor, timer, stack, answers, aborted>>

(* The calls: iodns_process_queries(), ares_process_fd(), the callback of  *)
(* a query with the type of its event, and dnsengine_cares_add() for q     *)
(* with the records it still has to ask for; or the program crashed, or    *)
(* goes on in freed memory.                                                *)
Scan == [at |-> "scan"]
Process == [at |-> "process"]
Callback(event) == [at |-> "callback", event |-> event]
Adding(q, todo) == [at |-> "add", query |-> q, todo |-> todo]
Crashed == [at |-> "crashed"]

(* "loop" when no call is under way *)
Pc == IF stack = <<>> THEN "loop" ELSE Head(stack).at

-----------------------------------------------------------------------------
Records == {"A", "AAAA", "PTR"}

(* iodns_getaddrinfo() asks for one or both families, iodns_getnameinfo()  *)
(* for a name.                                                             *)
Types == {{"A"}, {"AAAA"}, {"A", "AAAA"}, {"PTR"}}

Has(q, flag) == flag \in flags[q]

Listed == {list[i] : i \in 1 .. Len(list)}

(* iodns_init_engine() takes c-ares if it was built in and can be started. *)
Init ==
    /\ dnsengine \in {"default", "cares"}
    /\ list = <<>>
    /\ flags = [q \in Queries |-> {}]
    /\ type = [q \in Queries |-> {}]
    /\ result = [q \in Queries |-> {}]
    /\ left = [q \in Queries |-> {}]
    /\ descriptor = [q \in Queries |-> "none"]
    /\ timer = FALSE
    /\ stack = <<>>
    /\ answers = [q \in Queries |-> 0]
    /\ aborted = {}

Position(q) == CHOOSE i \in 1 .. Len(list) : list[i] = q

(* The list when q, which is in it, is taken out. *)
Without(q) ==
    SubSeq(list, 1, Position(q) - 1) \o SubSeq(list, Position(q) + 1, Len(list))

(* What _start_dnsquery() and the add function of the engine set. *)
NewFlags ==
    {"RUNNING"} \cup (IF dnsengine = "cares" THEN {"PROCESSING"} ELSE {})

(* Mutant of Requests: both families are always asked for. *)
RequestsBoth(records) == {"A", "AAAA"}

(* c-ares is asked for each kind of record by itself. *)
Requests(records) == records

(* What the default engine keeps of what getaddrinfo() or getnameinfo()    *)
(* find: only records of the types that were asked for.                    *)
Resolvable(q) == type[q]

-----------------------------------------------------------------------------
(* User code, from a timer or in a callback. *)

UserRuns == Pc \in {"loop", "callback"}

(* iodns_getaddrinfo(), iodns_getnameinfo(), iosocket_lookup_hostname():   *)
(* the query goes to the end of the list and to the engine.                *)
Ask(q, records, whose) ==
    /\ UserRuns
    /\ type[q] = {}
    /\ whose = "socket" => "PTR" \notin records
    /\ type' = [type EXCEPT ![q] = records]
    /\ list' = Append(list, q)
    /\ flags' = [flags EXCEPT ![q] = NewFlags]
    /\ descriptor' = [descriptor EXCEPT ![q] = whose]
    /\ stack' = IF dnsengine = "default" THEN stack
                ELSE <<Adding(q, Requests(records))>> \o stack
    /\ UNCHANGED <<dnsengine, result, left, timer, answers, aborted>>

(* Mutant of Stop: the query goes on. *)
StopKeeps(q) == UNCHANGED <<flags, list>>

(* _stop_dnsquery(): a query that an engine works on stays until that has  *)
(* an answer, any other is freed.                                          *)
Stop(q) ==
    /\ flags' = [flags EXCEPT ![q] = @ \ {"RUNNING"}]
    /\ list' = IF Has(q, "PROCESSING") THEN list ELSE Without(q)

(* iodns_abort(), for a query that was not freed: the descriptor goes on   *)
(* pointing to it.                                                         *)
Abort(q) ==
    /\ UserRuns
    /\ descriptor[q] = "public" /\ q \in Listed
    /\ Stop(q)
    /\ aborted' = aborted \cup {q}
    /\ UNCHANGED <<dnsengine, type, result, left, descriptor, timer, stack,
                   answers>>

-----------------------------------------------------------------------------
Detached(q) ==
    [descriptor EXCEPT ![q] = IF @ = "public" THEN "null" ELSE @]

EventFor(found) == IF found # {} THEN "SUCCESS" ELSE "FAILED"

(* iodns_event_callback(), from where calls are under way: the query is    *)
(* freed and its callback is called.                                       *)
Deliver(q, found, calls) ==
    /\ result' = [result EXCEPT ![q] = found]
    /\ flags' = [flags EXCEPT ![q] = {}]
    /\ list' = Without(q)
    /\ descriptor' = Detached(q)
    /\ answers' = [answers EXCEPT ![q] = @ + 1]
    /\ stack' = <<Callback(EventFor(found))>> \o calls

CallbackReturns ==
    /\ Pc = "callback"
    /\ stack' = Tail(stack)
    /\ UNCHANGED <<dnsengine, list, query, descriptor, timer, answers, aborted>>

-----------------------------------------------------------------------------
(* The default engine. *)

Poll ==
    /\ Pc = "loop" /\ dnsengine = "default"
    /\ stack' = <<Scan>>
    /\ UNCHANGED <<dnsengine, list, query, descriptor, timer, answers, aborted>>

Runnable(q) == Has(q, "RUNNING") /\ ~ Has(q, "PROCESSING")

(* Mutant of Picked: from the end of the list. *)
PickedLast ==
    list[CHOOSE i \in 1 .. Len(list) :
            /\ Runnable(list[i])
            /\ \A j \in i + 1 .. Len(list) : ~ Runnable(list[j])]

(* The query iodns_process_queries() comes to first. *)
Picked ==
    list[CHOOSE i \in 1 .. Len(list) :
            /\ Runnable(list[i])
            /\ \A j \in 1 .. i - 1 : ~ Runnable(list[j])]

(* It is resolved while nothing else runs, and then the scan begins anew.  *)
Resolve(found) ==
    /\ Pc = "scan"
    /\ \E q \in Listed : Runnable(q)
    /\ found \subseteq Resolvable(Picked)
    /\ Deliver(Picked, found, stack)
    /\ UNCHANGED <<dnsengine, type, left, timer, aborted>>

ScanEnds ==
    /\ Pc = "scan"
    /\ ~ \E q \in Listed : Runnable(q)
    /\ stack' = <<>>
    /\ UNCHANGED <<dnsengine, list, query, descriptor, timer, answers, aborted>>

-----------------------------------------------------------------------------
(* The c-ares engine. *)

(* query_count is 0 *)
AllAnswered(records) == Cardinality(records) <= 0

(* dnsengine_cares_callback() for a query that runs: records is what was   *)
(* found for it, rest what c-ares has not answered for.                    *)
Answered(q, records, rest, calls) ==
    IF AllAnswered(rest)
    THEN Deliver(q, records, calls)
    ELSE /\ result' = [result EXCEPT ![q] = records]
         /\ stack' = calls
         /\ UNCHANGED <<list, flags, descriptor, answers>>

Found(q, r) == {result[q], result[q] \cup {r}}

(* dnsengine_cares_add() asks for A before AAAA. *)
NextRecord(todo) == IF "A" \in todo THEN "A" ELSE CHOOSE r \in todo : TRUE

(* It goes on with record r of q, and will have todo left. *)
AddGoesOn(q, r, todo) ==
    /\ Pc = "add" /\ Head(stack).todo # {}
    /\ q = Head(stack).query /\ q \in Listed
    /\ r = NextRecord(Head(stack).todo)
    /\ todo = Head(stack).todo \ {r}

(* c-ares sends the request off, *)
AskLater(q, r, todo) ==
    /\ AddGoesOn(q, r, todo)
    /\ left' = [left EXCEPT ![q] = @ \cup {r}]
    /\ stack' = <<Adding(q, todo)>> \o Tail(stack)
    /\ UNCHANGED <<dnsengine, list, flags, type, result, descriptor, timer,
                   answers, aborted>>

(* or has the answer, and calls back before it returns: query_count counts *)
(* the records that were asked for so far.                                 *)
AnswerAtOnce(q, r, todo) ==
    /\ AddGoesOn(q, r, todo)
    /\ \E records \in Found(q, r) :
          Answered(q, records, left[q], <<Adding(q, todo)>> \o Tail(stack))
    /\ UNCHANGED <<dnsengine, type, left, timer, aborted>>

(* The query was freed within the call for A.  Whether to ask for AAAA is  *)
(* read from the freed memory; to ask goes through another that is freed.  *)
AddToFreed ==
    /\ Pc = "add"
    /\ LET q == Head(stack).query IN q \notin Listed /\ "A" \in type[q]
    /\ stack' = <<Crashed>>
    /\ UNCHANGED <<dnsengine, list, query, descriptor, timer, answers, aborted>>

(* dnsengine_cares_update_timeout() *)
AddEnds ==
    /\ Pc = "add"
    /\ Head(stack).todo = {} \/ Head(stack).query \notin Listed
    /\ timer' = TRUE
    /\ stack' = Tail(stack)
    /\ UNCHANGED <<dnsengine, list, query, descriptor, answers, aborted>>

(* A socket of c-ares is ready: dnsengine_cares_socket_callback(). *)
SocketReady ==
    /\ Pc = "loop" /\ dnsengine = "cares"
    /\ \E q \in Queries : left[q] # {}
    /\ stack' = <<Process>>
    /\ UNCHANGED <<dnsengine, list, query, descriptor, timer, answers, aborted>>

(* dnsengine_cares_timer_callback() *)
TimerFires ==
    /\ Pc = "loop" /\ timer
    /\ timer' = FALSE
    /\ stack' = <<Process>>
    /\ UNCHANGED <<dnsengine, list, query, descriptor, answers, aborted>>

(* Mutant of TimerAfter: a timer that fired is not started again. *)
TimerAsIs == timer

(* dnsengine_cares_update_timeout() *)
TimerAfter == TRUE

ProcessEnds ==
    /\ Pc = "process"
    /\ timer' = TimerAfter
    /\ stack' = Tail(stack)
    /\ UNCHANGED <<dnsengine, list, query, descriptor, answers, aborted>>

(* ares_process_fd() has an answer to request r of q. *)
Answer(q, r) ==
    /\ Pc = "process"
    /\ r \in left[q]
    /\ Has(q, "RUNNING")
    /\ left' = [left EXCEPT ![q] = @ \ {r}]
    /\ \E records \in Found(q, r) :
          Answered(q, records, left[q] \ {r}, stack)
    /\ UNCHANGED <<dnsengine, type, timer, aborted>>

(* An answer for a query that was stopped: the code sets its pointer to    *)
(* NULL before it goes through it to free the query.                       *)
AnswerForStopped(q, r) ==
    /\ Pc = "process"
    /\ r \in left[q]
    /\ ~ Has(q, "RUNNING")
    /\ left' = [left EXCEPT ![q] = @ \ {r}]
    /\ stack' = <<Crashed>>
    /\ UNCHANGED <<dnsengine, list, flags, type, result, descriptor, timer,
                   answers, aborted>>

-----------------------------------------------------------------------------
User(q) ==
    \/ \E records \in Types, whose \in {"public", "socket"} :
          Ask(q, records, whose)
    \/ Abort(q)

Default ==
    \/ Poll
    \/ \E found \in SUBSET Records : Resolve(found)
    \/ ScanEnds

Add ==
    \/ \E q \in Queries, r \in Records, todo \in SUBSET Records :
          AskLater(q, r, todo) \/ AnswerAtOnce(q, r, todo)
    \/ AddToFreed
    \/ AddEnds

Next ==
    \/ \E q \in Queries : User(q)
    \/ Default
    \/ Add
    \/ SocketReady \/ TimerFires \/ ProcessEnds
    \/ \E q \in Queries, r \in Records : Answer(q, r) \/ AnswerForStopped(q, r)
    \/ CallbackReturns

Spec == Init /\ [][Next]_vars

(* The loop calls iodns_poll() and the timer again and again, calls       *)
(* return, and c-ares answers each request that it goes on working on, if  *)
(* only with a failure.  That its sockets become ready is not assumed.     *)
FairSpec ==
    /\ Spec
    /\ WF_vars(Default)
    /\ WF_vars(Add)
    /\ WF_vars(TimerFires)
    /\ WF_vars(ProcessEnds)
    /\ WF_vars(CallbackReturns)
    /\ \A q \in Queries : SF_vars(\E r \in Records : Answer(q, r))

-----------------------------------------------------------------------------
Calls ==
    {Scan, Process, Crashed, Callback("SUCCESS"), Callback("FAILED")} \cup
    {Adding(q, todo) : q \in Queries, todo \in SUBSET Records}

TypeOK ==
    /\ dnsengine \in {"default", "cares"}
    /\ list \in Seq(Queries)
    /\ flags \in [Queries -> SUBSET {"RUNNING", "PROCESSING"}]
    /\ type \in [Queries -> SUBSET Records]
    /\ \A q \in Queries : (result[q] \cup left[q]) \subseteq type[q]
    /\ descriptor \in [Queries -> {"none", "public", "socket", "null"}]
    /\ timer \in BOOLEAN
    /\ stack \in Seq(Calls)
    /\ answers \in [Queries -> Nat]
    /\ aborted \subseteq Queries

(* The list holds each query that was asked and neither answered nor       *)
(* freed, once: none is leaked, and none is freed before its callback.     *)
ListIsExact ==
    /\ \A i, j \in 1 .. Len(list) : list[i] = list[j] => i = j
    /\ \A q \in Queries :
          (type[q] # {} /\ answers[q] = 0 /\ q \notin aborted) => q \in Listed
    /\ \A q \in Listed :
          answers[q] = 0 /\ (Has(q, "RUNNING") \/ Has(q, "PROCESSING"))

(* No request of c-ares outlives the query that its answer goes to, and    *)
(* when the loop has control, c-ares has a request for each query, and its *)
(* timer.                                                                  *)
RequestsHaveQuery ==
    /\ \A q \in Queries : left[q] # {} => q \in Listed
    /\ Pc = "loop" /\ dnsengine = "cares" =>
          \A q \in Listed : left[q] # {} /\ timer

(* A callback is called at most once, and never after an abort, whether    *)
(* c-ares answers at once, later, or one request so and one so.            *)
AnsweredOnce ==
    \A q \in Queries : answers[q] <= IF q \in aborted THEN 0 ELSE 1

(* Queries, requests and answers agree in every state user code can see.   *)
QueriesAccounted == ListIsExact /\ RequestsHaveQuery /\ AnsweredOnce

(* The default engine answers in the order the queries were asked in.      *)
AnswersInOrder ==
    [][(Pc = "scan" /\ Pc' = "callback") => list' = Tail(list)]_vars

(* Every query is answered, also when only the timer lets c-ares go on,    *)
(* unless it is aborted, or the program crashes: for an answer to a query  *)
(* that was aborted, or because one was freed while c-ares was asked.      *)
EveryQueryAnswered ==
    \A q \in Queries :
        type[q] # {} ~> (answers[q] = 1 \/ q \in aborted \/ Pc = "crashed")
=============================================================================
