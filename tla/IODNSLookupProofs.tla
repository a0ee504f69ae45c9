------------------------- MODULE IODNSLookupProofs -------------------------
(***************************************************************************)
(* Proofs about the DNS queries, for any number of them and with either    *)
(* engine.                                                                 *)
(*                                                                         *)
(* What TLC finds true of the list in each state is not inductive: whether *)
(* a query has a request left when the loop goes on is decided by the      *)
(* calls under way.  So the invariant says of every call of the stack what *)
(* it may go on with (Sound), that all the calls of dnsengine_cares_add()  *)
(* under the innermost one have lost their query (Freed), and that a       *)
(* callback was called from somewhere.                                     *)
(***************************************************************************)
EXTENDS IODNSLookup, SequenceTheorems, FiniteSetTheorems, TLAPS

-----------------------------------------------------------------------------
(* Sequences without repetition, and stacks. *)

Elements(s) == {s[i] : i \in 1 .. Len(s)}

Distinct(s) == \A i, j \in 1 .. Len(s) : s[i] = s[j] => i = j

(* The list when a new query goes to its end. *)
LEMMA Appended ==
    ASSUME NEW S, NEW s \in Seq(S), Distinct(s),
           NEW e \in S, e \notin Elements(s)
    PROVE  /\ Append(s, e) \in Seq(S)
           /\ Distinct(Append(s, e))
           /\ Elements(Append(s, e)) = Elements(s) \cup {e}
<1> DEFINE t == Append(s, e)
<1>1. /\ t \in Seq(S)
      /\ Len(t) = Len(s) + 1
      /\ \A i \in 1 .. Len(s) : t[i] = s[i]
      /\ t[Len(s) + 1] = e
  BY AppendProperties
<1>2. Len(s) \in Nat BY LenProperties
<1> HIDE DEF t
<1>3. \A i \in 1 .. Len(s) : s[i] # e BY DEF Elements
<1>4. Distinct(t)
  <2> SUFFICES ASSUME NEW i \in 1 .. Len(t), NEW j \in 1 .. Len(t), t[i] = t[j]
               PROVE  i = j
    BY DEF Distinct
  <2>1. CASE i \in 1 .. Len(s) /\ j \in 1 .. Len(s) BY <1>1, <2>1 DEF Distinct
  <2>2. CASE i = Len(s) + 1 /\ j \in 1 .. Len(s) BY <1>1, <1>3, <2>2
  <2>3. CASE i \in 1 .. Len(s) /\ j = Len(s) + 1 BY <1>1, <1>3, <2>3
  <2> QED BY <1>1, <1>2, <2>1, <2>2, <2>3
<1>5. Elements(t) = Elements(s) \cup {e}
  <2>1. ASSUME NEW x \in Elements(t) PROVE x \in Elements(s) \cup {e}
    BY <1>1, <1>2 DEF Elements
  <2>2. ASSUME NEW x \in Elements(s) PROVE x \in Elements(t)
    BY <1>1, <1>2 DEF Elements
  <2>3. e \in Elements(t) BY <1>1, <1>2 DEF Elements
  <2> QED BY <2>1, <2>2, <2>3
<1> QED BY <1>1, <1>4, <1>5 DEF t

(* The list when the one at position p is taken out. *)
LEMMA TakenOut ==
    ASSUME NEW S, NEW s \in Seq(S), Distinct(s), NEW p \in 1 .. Len(s)
    PROVE  LET t == SubSeq(s, 1, p - 1) \o SubSeq(s, p + 1, Len(s))
           IN  /\ t \in Seq(S)
               /\ Distinct(t)
               /\ Elements(t) = Elements(s) \ {s[p]}
<1> DEFINE a == SubSeq(s, 1, p - 1)
           b == SubSeq(s, p + 1, Len(s))
           t == a \o b
<1>1. Len(s) \in Nat BY LenProperties
<1>2. \A i \in 1 .. Len(s) : s[i] \in S BY ElementOfSeq
<1>3. /\ a \in Seq(S) /\ Len(a) = p - 1
      /\ \A i \in 1 .. p - 1 : a[i] = s[i]
  <2>1. 1 \in Int /\ p - 1 \in Int /\ \A i \in 1 .. p - 1 : s[i] \in S BY <1>1, <1>2
  <2>2. /\ a \in Seq(S)
        /\ Len(a) = IF 1 <= p - 1 THEN (p - 1) - 1 + 1 ELSE 0
        /\ \A i \in 1 .. (p - 1) - 1 + 1 : a[i] = s[1 + i - 1]
    BY <2>1, SubSeqProperties
  <2> HIDE DEF a
  <2> QED BY <1>1, <2>2
<1>4. /\ b \in Seq(S) /\ Len(b) = Len(s) - p
      /\ \A i \in 1 .. Len(s) - p : b[i] = s[p + i]
  <2>1. p + 1 \in Int /\ Len(s) \in Int /\ \A i \in p + 1 .. Len(s) : s[i] \in S
    BY <1>1, <1>2
  <2>2. /\ b \in Seq(S)
        /\ Len(b) = IF p + 1 <= Len(s) THEN Len(s) - (p + 1) + 1 ELSE 0
        /\ \A i \in 1 .. Len(s) - (p + 1) + 1 : b[i] = s[(p + 1) + i - 1]
    BY <2>1, SubSeqProperties
  <2> HIDE DEF b
  <2> QED BY <1>1, <2>2
<1> HIDE DEF a, b
<1>5. /\ t \in Seq(S) /\ Len(t) = Len(a) + Len(b)
      /\ \A i \in 1 .. Len(a) + Len(b) :
            t[i] = IF i <= Len(a) THEN a[i] ELSE b[i - Len(a)]
  BY <1>3, <1>4, ConcatProperties
<1> HIDE DEF t
<1>6. Len(t) = Len(s) - 1 BY <1>1, <1>3, <1>4, <1>5
<1>7. \A i \in 1 .. Len(s) - 1 : t[i] = IF i < p THEN s[i] ELSE s[i + 1]
  <2> TAKE i \in 1 .. Len(s) - 1
  <2>1. t[i] = IF i <= p - 1 THEN a[i] ELSE b[i - (p - 1)]
    BY <1>1, <1>3, <1>4, <1>5
  <2>2. CASE i < p BY <1>1, <1>3, <2>1, <2>2
  <2>3. CASE ~ i < p
    <3>1. i - (p - 1) \in 1 .. Len(s) - p BY <1>1, <2>3
    <3>2. t[i] = b[i - (p - 1)] BY <1>1, <2>1, <2>3
    <3>3. b[i - (p - 1)] = s[p + (i - (p - 1))] BY <1>4, <3>1
    <3>4. p + (i - (p - 1)) = i + 1 BY <1>1
    <3> QED BY <2>3, <3>2, <3>3, <3>4
  <2> QED BY <2>2, <2>3
<1>8. Distinct(t)
  <2> SUFFICES ASSUME NEW i \in 1 .. Len(t), NEW j \in 1 .. Len(t), t[i] = t[j]
               PROVE  i = j
    BY DEF Distinct
  <2>1. CASE i < p /\ j < p BY <1>1, <1>6, <1>7, <2>1 DEF Distinct
  <2>2. CASE i < p /\ ~ j < p BY <1>1, <1>6, <1>7, <2>2 DEF Distinct
  <2>3. CASE ~ i < p /\ j < p BY <1>1, <1>6, <1>7, <2>3 DEF Distinct
  <2>4. CASE ~ i < p /\ ~ j < p BY <1>1, <1>6, <1>7, <2>4 DEF Distinct
  <2> QED BY <2>1, <2>2, <2>3, <2>4
<1>9. Elements(t) = Elements(s) \ {s[p]}
  <2>1. ASSUME NEW i \in 1 .. Len(t)
        PROVE  \E k \in 1 .. Len(s) : k # p /\ t[i] = s[k]
    <3>1. CASE i < p BY <1>1, <1>6, <1>7, <3>1
    <3>2. CASE ~ i < p
      <4>1. i + 1 \in 1 .. Len(s) /\ i + 1 # p /\ t[i] = s[i + 1]
        BY <1>1, <1>6, <1>7, <3>2
      <4> QED BY <4>1
    <3> QED BY <3>1, <3>2
  <2>2. ASSUME NEW k \in 1 .. Len(s), k # p
        PROVE  \E i \in 1 .. Len(t) : t[i] = s[k]
    <3>1. CASE k < p BY <1>1, <1>6, <1>7, <3>1
    <3>2. CASE p < k
      <4>1. k - 1 \in 1 .. Len(t) /\ t[k - 1] = s[k] BY <1>1, <1>6, <1>7, <3>2
      <4> QED BY <4>1
    <3> QED BY <1>1, <2>2, <3>1, <3>2
  <2>3. Elements(t) \subseteq Elements(s) \ {s[p]} BY <2>1 DEF Elements, Distinct
  <2>4. Elements(s) \ {s[p]} \subseteq Elements(t) BY <2>2 DEF Elements
  <2> QED BY <2>3, <2>4
<1>10. t = SubSeq(s, 1, p - 1) \o SubSeq(s, p + 1, Len(s)) BY DEF t, a, b
<1> QED BY <1>5, <1>8, <1>9, <1>10

(* A call is made. *)
LEMMA Pushed ==
    ASSUME NEW S, NEW s \in Seq(S), NEW x \in S
    PROVE  LET t == <<x>> \o s
           IN  /\ t \in Seq(S) /\ t # <<>> /\ Head(t) = x
               /\ Len(t) = Len(s) + 1
               /\ t[1] = x /\ \A i \in 2 .. Len(t) : t[i] = s[i - 1]
<1> DEFINE t == <<x>> \o s
<1>1. <<x>> \in Seq(S) /\ Len(<<x>>) = 1 /\ <<x>>[1] = x OBVIOUS
<1>2. Len(s) \in Nat BY LenProperties
<1>3. /\ t \in Seq(S) /\ Len(t) = 1 + Len(s)
      /\ \A i \in 1 .. 1 + Len(s) : t[i] = IF i <= 1 THEN <<x>>[i] ELSE s[i - 1]
  <2> DEFINE o == <<x>>
  <2>1. o \in Seq(S) /\ Len(o) = 1 BY <1>1
  <2> HIDE DEF o
  <2>2. /\ o \o s \in Seq(S) /\ Len(o \o s) = Len(o) + Len(s)
        /\ \A i \in 1 .. Len(o) + Len(s) : (o \o s)[i] =
              IF i <= Len(o) THEN o[i] ELSE s[i - Len(o)]
    BY <2>1, ConcatProperties
  <2> QED BY <2>1, <2>2 DEF o
<1> HIDE DEF t
<1>4. t[1] = x /\ \A i \in 2 .. Len(t) : t[i] = s[i - 1] BY <1>1, <1>2, <1>3
<1>5. t # <<>> BY <1>2, <1>3
<1>6. Head(t) = x BY <1>2, <1>3, <1>4
<1> QED BY <1>2, <1>3, <1>4, <1>5, <1>6 DEF t

-----------------------------------------------------------------------------
(* The inductive invariant. *)

(* The parts of ListIsExact and RequestsHaveQuery that no call under way  *)
(* disturbs.                                                               *)
NoneLost ==
    \A q \in Queries :
        (type[q] # {} /\ answers[q] = 0 /\ q \notin aborted) => q \in Listed

ListedAlive ==
    \A q \in Listed :
        answers[q] = 0 /\ (Has(q, "RUNNING") \/ Has(q, "PROCESSING"))

RequestsListed == \A q \in Queries : left[q] # {} => q \in Listed

(* A query that was not used yet has left no trace. *)
Fresh ==
    \A q \in Queries :
        type[q] = {} => q \notin Listed /\ answers[q] = 0 /\ q \notin aborted

(* The default engine has no query that is being processed or was aborted, *)
(* c-ares processes them all.                                              *)
AsEngine ==
    \A q \in Listed :
        IF dnsengine = "default"
        THEN flags[q] = {"RUNNING"} /\ left[q] = {}
        ELSE Has(q, "PROCESSING")

AbortedStopped == \A q \in aborted : ~ Has(q, "RUNNING")

(* The calls that can be under way. *)
Sound ==
    {c \in Calls :
        /\ c.at = "add" =>
              dnsengine = "cares" /\ type[c.query] # {} /\ c.todo \subseteq type[c.query]
        /\ c.at = "scan" => dnsengine = "default"}

(* Those that have no query to go on with. *)
Freed == {c \in Calls : c.at = "add" => c.query \notin Listed}

Callers == {c \in Calls : c.at # "callback"}

(* A stack of sound calls, all freed but the innermost. *)
Stacked(s, sound, freed) ==
    /\ s \in Seq(sound)
    /\ \A i \in 2 .. Len(s) : s[i] \in freed
    /\ s # <<>> => s[Len(s)] \in Callers

(* The query that c-ares is asked for now goes on. *)
AddingGoesOn ==
    Pc = "add" /\ Head(stack).query \in Listed => Has(Head(stack).query, "RUNNING")

(* c-ares works on each query, or is about to be asked. *)
Working ==
    dnsengine = "cares" /\ Pc # "crashed" =>
        \A q \in Listed :
            \/ left[q] # {}
            \/ Pc = "add" /\ Head(stack).query = q /\ Head(stack).todo # {}

TimerRuns ==
    dnsengine = "cares" /\ stack = <<>> /\ Listed # {} => timer

QueriesTyped ==
    /\ dnsengine \in {"default", "cares"}
    /\ list \in Seq(Queries)
    /\ flags \in [Queries -> SUBSET {"RUNNING", "PROCESSING"}]
    /\ type \in [Queries -> SUBSET Records]
    /\ result \in [Queries -> SUBSET Records]
    /\ left \in [Queries -> SUBSET Records]
    /\ \A q \in Queries : (result[q] \cup left[q]) \subseteq type[q]
    /\ descriptor \in [Queries -> {"none", "public", "socket", "null"}]
    /\ answers \in [Queries -> Nat]
    /\ aborted \subseteq Queries

QueriesInv ==
    /\ QueriesTyped
    /\ Distinct(list)
    /\ NoneLost
    /\ ListedAlive
    /\ RequestsListed
    /\ AnsweredOnce
    /\ Fresh
    /\ AsEngine
    /\ AbortedStopped

CallsInv ==
    /\ timer \in BOOLEAN
    /\ Stacked(stack, Sound, Freed)
    /\ AddingGoesOn
    /\ Working
    /\ TimerRuns

IInv == QueriesInv /\ CallsInv

-----------------------------------------------------------------------------
(* The calls under way. *)

(* The calls of a stack, and what each can be. *)
LEMMA CallKinds ==
    ASSUME NEW c \in Calls
    PROVE  /\ c.at \in {"scan", "process", "crashed", "callback", "add"}
           /\ c.at = "add" => c.query \in Queries /\ c.todo \in SUBSET Records
<1>1. CASE c \in {Scan, Process, Crashed, Callback("SUCCESS"), Callback("FAILED")}
  BY <1>1 DEF Scan, Process, Crashed, Callback
<1>2. CASE c \in {Adding(q, todo) : q \in Queries, todo \in SUBSET Records}
  <2>1. PICK q \in Queries, todo \in SUBSET Records : c = Adding(q, todo) BY <1>2
  <2> QED BY <2>1 DEF Adding
<1> QED BY <1>1, <1>2 DEF Calls

(* A call is made from one that has no query to go on with. *)
LEMMA Pushing ==
    ASSUME NEW sound, NEW freed, NEW s, Stacked(s, sound, freed),
           NEW x \in sound,
           s # <<>> => Head(s) \in freed,
           s = <<>> => x \in Callers
    PROVE  Stacked(<<x>> \o s, sound, freed)
<1> DEFINE t == <<x>> \o s
<1>1. s \in Seq(sound) BY DEF Stacked
<1>2. Len(s) \in Nat BY <1>1, LenProperties
<1>3. /\ t \in Seq(sound) /\ t # <<>> /\ Len(t) = Len(s) + 1
      /\ t[1] = x /\ \A i \in 2 .. Len(t) : t[i] = s[i - 1]
  BY <1>1, Pushed
<1> HIDE DEF t
<1>4. \A i \in 2 .. Len(t) : t[i] \in freed
  <2> TAKE i \in 2 .. Len(t)
  <2>1. i - 1 \in 1 .. Len(s) /\ t[i] = s[i - 1] BY <1>2, <1>3
  <2>2. s # <<>> BY <1>2, <2>1
  <2>3. CASE i = 2 BY <1>1, <2>1, <2>2, <2>3
  <2>4. CASE i # 2 BY <1>2, <2>1, <2>4 DEF Stacked
  <2> QED BY <2>3, <2>4
<1>5. t[Len(t)] \in Callers
  <2>1. CASE s = <<>> BY <1>3, <2>1
  <2>2. CASE s # <<>>
    <3>1. Len(s) >= 1 BY <1>1, <1>2, <2>2, EmptySeq
    <3>2. t[Len(t)] = s[Len(s)] BY <1>2, <1>3, <3>1
    <3> QED BY <2>2, <3>2 DEF Stacked
  <2> QED BY <2>1, <2>2
<1> QED BY <1>3, <1>4, <1>5 DEF Stacked, t

(* The innermost call returns. *)
LEMMA Popping ==
    ASSUME NEW sound, NEW freed, NEW s, Stacked(s, sound, freed), s # <<>>
    PROVE  /\ Head(s) \in sound
           /\ Stacked(Tail(s), sound, freed)
           /\ Tail(s) # <<>> => Head(Tail(s)) \in freed \cap sound
           /\ Head(s) \notin Callers => Tail(s) # <<>>
<1> DEFINE t == Tail(s)
<1>1. s \in Seq(sound) BY DEF Stacked
<1>2. Len(s) \in Nat \ {0} BY <1>1, EmptySeq
<1>3. /\ Head(s) \in sound /\ t \in Seq(sound) /\ Len(t) = Len(s) - 1
      /\ \A i \in 1 .. Len(t) : t[i] = s[i + 1]
  BY <1>1, HeadTailProperties
<1> HIDE DEF t
<1>4. \A i \in 1 .. Len(t) : t[i] \in freed
  <2> TAKE i \in 1 .. Len(t)
  <2>1. i + 1 \in 2 .. Len(s) BY <1>2, <1>3
  <2> QED BY <1>3, <2>1 DEF Stacked
<1>5. \A i \in 2 .. Len(t) : t[i] \in freed BY <1>2, <1>3, <1>4
<1>6. t # <<>> => Len(t) \in Nat \ {0} BY <1>3, EmptySeq
<1>7. t # <<>> => t[Len(t)] \in Callers
  <2> HAVE t # <<>>
  <2>1. t[Len(t)] = s[Len(s)] BY <1>2, <1>3, <1>6
  <2> QED BY <2>1 DEF Stacked
<1>8. t # <<>> => Head(t) \in freed \cap sound
  <2> HAVE t # <<>>
  <2>1. Head(t) = t[1] /\ 1 \in 1 .. Len(t) BY <1>3, <1>6
  <2> QED BY <1>3, <1>4, <2>1, ElementOfSeq
<1>9. ASSUME t = <<>> PROVE Head(s) \in Callers
  <2>1. Len(s) = 1 BY <1>2, <1>3, <1>9, EmptySeq
  <2>2. Head(s) = s[1] BY <1>1
  <2> QED BY <2>1, <2>2 DEF Stacked
<1> QED BY <1>3, <1>5, <1>7, <1>8, <1>9 DEF Stacked, t

(* Under the innermost call the stack is as before. *)
LEMMA Staying ==
    ASSUME NEW a, NEW b, NEW c, NEW d, NEW s, Stacked(s, a, b),
           a \subseteq c, a \cap b \subseteq d
    PROVE  Stacked(s, c, d)
<1>1. s \in Seq(a) /\ s \in Seq(c) BY SeqMonotonic DEF Stacked
<1>2. Len(s) \in Nat BY <1>1, LenProperties
<1>3. \A i \in 1 .. Len(s) : s[i] \in a BY <1>1, ElementOfSeq
<1>4. \A i \in 2 .. Len(s) : s[i] \in d BY <1>2, <1>3 DEF Stacked
<1> QED BY <1>1, <1>4 DEF Stacked

(* A call stays sound, and one that was freed stays so, while the list    *)
(* only loses queries.                                                     *)
LEMMA Lasting ==
    ASSUME UNCHANGED <<dnsengine, type>>, Listed' \subseteq Listed
    PROVE  Sound' = Sound /\ Freed \subseteq Freed'
<1>1. Sound' = Sound BY DEF Sound
<1>2. Freed \subseteq Freed' BY DEF Freed
<1> QED BY <1>1, <1>2

-----------------------------------------------------------------------------
(* What the steps do to the queries. *)

(* Nothing, when the calls go on without them. *)
LEMMA QueriesUntouched ==
    ASSUME QueriesInv,
           UNCHANGED <<dnsengine, list, query, descriptor, answers, aborted>>
    PROVE  QueriesInv' /\ Listed' = Listed
<1>1. UNCHANGED <<dnsengine, list, flags, type, result, left, descriptor, answers, aborted>>
  BY DEF query
<1>2. Listed' = Listed BY <1>1 DEF Listed
<1>3. QueriesTyped' BY <1>1 DEF QueriesInv, QueriesTyped
<1>4. Distinct(list)' BY <1>1 DEF QueriesInv, Distinct
<1>5. NoneLost' BY <1>1, <1>2 DEF QueriesInv, NoneLost
<1>6. ListedAlive' BY <1>1, <1>2 DEF QueriesInv, ListedAlive, Has
<1>7. RequestsListed' BY <1>1, <1>2 DEF QueriesInv, RequestsListed
<1>8. AnsweredOnce' BY <1>1 DEF QueriesInv, AnsweredOnce
<1>9. Fresh' BY <1>1, <1>2 DEF QueriesInv, Fresh
<1>10. AsEngine' BY <1>1, <1>2 DEF QueriesInv, AsEngine, Has
<1>11. AbortedStopped' BY <1>1 DEF QueriesInv, AbortedStopped, Has
<1> QED
  BY <1>2, <1>3, <1>4, <1>5, <1>6, <1>7, <1>8, <1>9, <1>10, <1>11 DEF QueriesInv

(* A query that is in the list is taken out of it, and no other. *)
LEMMA TakesOne ==
    ASSUME QueriesInv, NEW q \in Listed
    PROVE  /\ Without(q) \in Seq(Queries)
           /\ Distinct(Without(q))
           /\ Elements(Without(q)) = Listed \ {q}
<1>1. list \in Seq(Queries) /\ Distinct(list) BY DEF QueriesInv, QueriesTyped
<1>2. \E i \in 1 .. Len(list) : list[i] = q BY DEF Listed
<1>3. Position(q) \in 1 .. Len(list) /\ list[Position(q)] = q BY <1>2 DEF Position
<1>4. Elements(list) = Listed BY DEF Elements, Listed
<1> QED BY <1>1, <1>3, <1>4, TakenOut DEF Without

(* iodns_event_callback() takes out a query that has no request left. *)
LEMMA DeliverKeeps ==
    ASSUME QueriesInv,
           NEW q \in Listed, NEW found \in SUBSET type[q], NEW calls,
           q \notin aborted,
           Deliver(q, found, calls),
           left' = [left EXCEPT ![q] = {}],
           UNCHANGED <<dnsengine, type, aborted>>
    PROVE  QueriesInv' /\ Listed' = Listed \ {q}
<1>1. q \in Queries
  BY ElementOfSeq DEF QueriesInv, QueriesTyped, Listed
<1>2. /\ list' \in Seq(Queries) /\ Distinct(list)' /\ Listed' = Listed \ {q}
  <2>1. list' = Without(q) BY DEF Deliver
  <2>2. Listed' = Elements(list') BY DEF Listed, Elements
  <2>3. Distinct(list)' <=> Distinct(list') BY DEF Distinct
  <2> QED BY <2>1, <2>2, <2>3, TakesOne
<1>3. /\ result' = [result EXCEPT ![q] = found]
      /\ flags' = [flags EXCEPT ![q] = {}]
      /\ answers' = [answers EXCEPT ![q] = @ + 1]
      /\ descriptor' = Detached(q)
  BY DEF Deliver
<1>4. QueriesTyped' BY <1>1, <1>2, <1>3 DEF QueriesInv, QueriesTyped, Detached
<1>5. answers[q] = 0 /\ answers'[q] = 1 /\ type[q] # {}
  BY <1>1, <1>3 DEF QueriesInv, QueriesTyped, ListedAlive, Fresh
<1>6. NoneLost'
  BY <1>1, <1>2, <1>3, <1>5 DEF QueriesInv, QueriesTyped, NoneLost
<1>7. ListedAlive'
  BY <1>1, <1>2, <1>3 DEF QueriesInv, QueriesTyped, ListedAlive, Has
<1>8. RequestsListed'
  BY <1>1, <1>2 DEF QueriesInv, QueriesTyped, RequestsListed
<1>9. AnsweredOnce'
  BY <1>1, <1>3, <1>5 DEF QueriesInv, QueriesTyped, AnsweredOnce
<1>10. Fresh'
  BY <1>1, <1>2, <1>3, <1>5 DEF QueriesInv, QueriesTyped, Fresh
<1>11. AsEngine'
  BY <1>1, <1>2, <1>3 DEF QueriesInv, QueriesTyped, AsEngine, Has
<1>12. AbortedStopped'
  BY <1>1, <1>3 DEF QueriesInv, QueriesTyped, AbortedStopped, Has
<1> QED
  BY <1>2, <1>4, <1>6, <1>7, <1>8, <1>9, <1>10, <1>11, <1>12 DEF QueriesInv

(* c-ares has a request more or less for a query, and results for it. *)
LEMMA RequestsChange ==
    ASSUME QueriesInv,
           NEW q \in Listed, dnsengine = "cares",
           NEW records \in SUBSET type[q], NEW rest \in SUBSET type[q],
           result' = [result EXCEPT ![q] = records],
           left' = [left EXCEPT ![q] = rest],
           UNCHANGED <<dnsengine, list, flags, type, descriptor, answers, aborted>>
    PROVE  QueriesInv' /\ Listed' = Listed
<1>1. q \in Queries
  BY ElementOfSeq DEF QueriesInv, QueriesTyped, Listed
<1>2. Listed' = Listed BY DEF Listed
<1>3. QueriesTyped' BY <1>1 DEF QueriesInv, QueriesTyped
<1>4. Distinct(list)' BY DEF QueriesInv, Distinct
<1>5. NoneLost' BY <1>2 DEF QueriesInv, NoneLost
<1>6. ListedAlive' BY <1>2 DEF QueriesInv, ListedAlive, Has
<1>7. RequestsListed' BY <1>1, <1>2 DEF QueriesInv, QueriesTyped, RequestsListed
<1>8. AnsweredOnce' BY DEF QueriesInv, AnsweredOnce
<1>9. Fresh' BY <1>1, <1>2 DEF QueriesInv, QueriesTyped, Fresh
<1>10. AsEngine' BY <1>2 DEF QueriesInv, AsEngine, Has
<1>11. AbortedStopped' BY DEF QueriesInv, AbortedStopped, Has
<1> QED
  BY <1>2, <1>3, <1>4, <1>5, <1>6, <1>7, <1>8, <1>9, <1>10, <1>11 DEF QueriesInv

(* A query is asked. *)
LEMMA AskKeeps ==
    ASSUME QueriesInv, NEW q \in Queries, NEW records \in Types,
           NEW whose \in {"public", "socket"}, Ask(q, records, whose)
    PROVE  /\ QueriesInv' /\ Listed' = Listed \cup {q}
           /\ q \notin Listed /\ records # {} /\ records \in SUBSET Records
           /\ flags'[q] = NewFlags /\ type' = [type EXCEPT ![q] = records]
<1>1. /\ type[q] = {} /\ q \notin Listed /\ answers[q] = 0 /\ q \notin aborted
      /\ left[q] = {} /\ result[q] = {}
  BY DEF Ask, QueriesInv, QueriesTyped, Fresh
<1>2. records # {} /\ records \in SUBSET Records BY DEF Types, Records
<1>3. /\ type' = [type EXCEPT ![q] = records]
      /\ flags' = [flags EXCEPT ![q] = NewFlags]
      /\ descriptor' = [descriptor EXCEPT ![q] = whose]
      /\ UNCHANGED <<dnsengine, result, left, timer, answers, aborted>>
  BY DEF Ask
<1>4. list' \in Seq(Queries) /\ Distinct(list)' /\ Listed' = Listed \cup {q}
  <2>1. list' = Append(list, q) BY DEF Ask
  <2>2. Listed' = Elements(list') /\ Listed = Elements(list) BY DEF Listed, Elements
  <2>3. Distinct(list)' <=> Distinct(list') BY DEF Distinct
  <2>4. list \in Seq(Queries) /\ Distinct(list) BY DEF QueriesInv, QueriesTyped
  <2> QED BY <1>1, <2>1, <2>2, <2>3, <2>4, Appended
<1>5. /\ NewFlags \in SUBSET {"RUNNING", "PROCESSING"} /\ "RUNNING" \in NewFlags
      /\ dnsengine = "default" => NewFlags = {"RUNNING"}
      /\ dnsengine # "default" => "PROCESSING" \in NewFlags
  BY DEF NewFlags, QueriesInv, QueriesTyped
<1> HIDE DEF NewFlags
<1>6. QueriesTyped'
  <2>1. /\ flags' \in [Queries -> SUBSET {"RUNNING", "PROCESSING"}]
        /\ type' \in [Queries -> SUBSET Records]
        /\ descriptor' \in [Queries -> {"none", "public", "socket", "null"}]
    BY <1>2, <1>3, <1>5 DEF QueriesInv, QueriesTyped
  <2>2. \A p \in Queries : (result'[p] \cup left'[p]) \subseteq type'[p]
    BY <1>1, <1>3 DEF QueriesInv, QueriesTyped
  <2> QED BY <1>3, <1>4, <2>1, <2>2 DEF QueriesInv, QueriesTyped
<1>7. NoneLost' BY <1>3, <1>4 DEF QueriesInv, QueriesTyped, NoneLost
<1>8. ListedAlive'
  BY <1>1, <1>3, <1>4, <1>5 DEF QueriesInv, QueriesTyped, ListedAlive, Has
<1>9. RequestsListed' BY <1>3, <1>4 DEF QueriesInv, RequestsListed
<1>10. AnsweredOnce' BY <1>3 DEF QueriesInv, AnsweredOnce
<1>11. Fresh' BY <1>2, <1>3, <1>4 DEF QueriesInv, QueriesTyped, Fresh
<1>12. AsEngine'
  BY <1>1, <1>3, <1>4, <1>5 DEF QueriesInv, QueriesTyped, AsEngine, Has
<1>13. AbortedStopped'
  BY <1>1, <1>3 DEF QueriesInv, QueriesTyped, AbortedStopped, Has
<1>14. flags'[q] = NewFlags BY <1>3 DEF QueriesInv, QueriesTyped
<1>15. QueriesInv'
  BY <1>4, <1>6, <1>7, <1>8, <1>9, <1>10, <1>11, <1>12, <1>13 DEF QueriesInv
<1> QED BY <1>1, <1>2, <1>3, <1>4, <1>14, <1>15

(* A query is aborted. *)
LEMMA AbortKeeps ==
    ASSUME QueriesInv, NEW q \in Queries, Abort(q)
    PROVE  QueriesInv' /\ Listed' \subseteq Listed
<1>1. /\ q \in Listed
      /\ flags' = [flags EXCEPT ![q] = @ \ {"RUNNING"}]
      /\ aborted' = aborted \cup {q}
      /\ UNCHANGED <<dnsengine, type, result, left, descriptor, timer, stack, answers>>
  BY DEF Abort, Stop
<1>2. answers[q] = 0 /\ type[q] # {}
  BY <1>1 DEF QueriesInv, ListedAlive, Fresh
<1>3. CASE dnsengine = "default"
  <2>1. ~ Has(q, "PROCESSING") /\ left[q] = {}
    BY <1>1, <1>3 DEF QueriesInv, AsEngine, Has
  <2>2. list' \in Seq(Queries) /\ Distinct(list)' /\ Listed' = Listed \ {q}
    <3>1. list' = Without(q) BY <2>1 DEF Abort, Stop
    <3>2. Listed' = Elements(list') BY DEF Listed, Elements
    <3>3. Distinct(list)' <=> Distinct(list') BY DEF Distinct
    <3> QED BY <1>1, <3>1, <3>2, <3>3, TakesOne
  <2>3. QueriesTyped' BY <1>1, <2>2 DEF QueriesInv, QueriesTyped
  <2>4. NoneLost' BY <1>1, <2>2 DEF QueriesInv, NoneLost
  <2>5. ListedAlive' BY <1>1, <2>2 DEF QueriesInv, QueriesTyped, ListedAlive, Has
  <2>6. RequestsListed' BY <1>1, <2>1, <2>2 DEF QueriesInv, RequestsListed
  <2>7. AnsweredOnce' BY <1>1, <1>2 DEF QueriesInv, AnsweredOnce
  <2>8. Fresh' BY <1>1, <1>2, <2>2 DEF QueriesInv, Fresh
  <2>9. AsEngine' BY <1>1, <2>2 DEF QueriesInv, QueriesTyped, AsEngine, Has
  <2>10. AbortedStopped' BY <1>1 DEF QueriesInv, QueriesTyped, AbortedStopped, Has
  <2> QED
    BY <2>2, <2>3, <2>4, <2>5, <2>6, <2>7, <2>8, <2>9, <2>10 DEF QueriesInv
<1>4. CASE dnsengine # "default"
  <2>1. Has(q, "PROCESSING") BY <1>1, <1>4 DEF QueriesInv, AsEngine
  <2>2. list' = list /\ Listed' = Listed BY <2>1 DEF Abort, Stop, Listed
  <2>3. QueriesTyped' BY <1>1, <2>2 DEF QueriesInv, QueriesTyped
  <2>4. Distinct(list)' BY <2>2 DEF QueriesInv, Distinct
  <2>5. NoneLost' BY <1>1, <2>2 DEF QueriesInv, NoneLost
  <2>6. ListedAlive'
    BY <1>1, <2>1, <2>2 DEF QueriesInv, QueriesTyped, ListedAlive, Has
  <2>7. RequestsListed' BY <1>1, <2>2 DEF QueriesInv, RequestsListed
  <2>8. AnsweredOnce' BY <1>1, <1>2 DEF QueriesInv, AnsweredOnce
  <2>9. Fresh' BY <1>1, <1>2, <2>2 DEF QueriesInv, Fresh
  <2>10. AsEngine' BY <1>1, <1>4, <2>2 DEF QueriesInv, QueriesTyped, AsEngine, Has
  <2>11. AbortedStopped' BY <1>1 DEF QueriesInv, QueriesTyped, AbortedStopped, Has
  <2> QED
    BY <2>2, <2>3, <2>4, <2>5, <2>6, <2>7, <2>8, <2>9, <2>10, <2>11 DEF QueriesInv
<1> QED BY <1>3, <1>4

-----------------------------------------------------------------------------
(* What the steps do to the calls under way. *)

(* Which calls can be made. *)
LEMMA CallsSound ==
    /\ dnsengine = "default" => Scan \in Sound \cap Callers
    /\ {Process, Crashed} \subseteq Sound \cap Callers
    /\ \A e \in {"SUCCESS", "FAILED"} : Callback(e) \in Sound
    /\ \A q \in Queries, todo \in SUBSET Records :
          /\ Adding(q, todo) \in Callers
          /\ dnsengine = "cares" /\ type[q] # {} /\ todo \subseteq type[q] =>
                Adding(q, todo) \in Sound
          /\ q \notin Listed => Adding(q, todo) \in Freed
<1>1. \A q \in Queries, todo \in SUBSET Records : Adding(q, todo) \in Calls BY DEF Calls
<1>2. \A c \in {Scan, Process, Crashed, Callback("SUCCESS"), Callback("FAILED")} : c \in Calls
  BY DEF Calls
<1>3. /\ Scan.at = "scan" /\ Process.at = "process" /\ Crashed.at = "crashed"
      /\ \A e \in {"SUCCESS", "FAILED"} : Callback(e).at = "callback"
  BY DEF Scan, Process, Crashed, Callback
<1>4. \A q, todo : /\ Adding(q, todo).at = "add"
                   /\ Adding(q, todo).query = q /\ Adding(q, todo).todo = todo
  BY DEF Adding
<1> HIDE DEF Calls, Scan, Process, Crashed, Callback, Adding
<1>5. dnsengine = "default" => Scan \in Sound \cap Callers BY <1>2, <1>3 DEF Sound, Callers
<1>6. {Process, Crashed} \subseteq Sound \cap Callers BY <1>2, <1>3 DEF Sound, Callers
<1>7. \A e \in {"SUCCESS", "FAILED"} : Callback(e) \in Sound BY <1>2, <1>3 DEF Sound
<1>8. \A q \in Queries, todo \in SUBSET Records : Adding(q, todo) \in Callers
  BY <1>1, <1>4 DEF Callers
<1>9. \A q \in Queries, todo \in SUBSET Records :
         dnsengine = "cares" /\ type[q] # {} /\ todo \subseteq type[q] =>
            Adding(q, todo) \in Sound
  BY <1>1, <1>4 DEF Sound
<1>10. \A q \in Queries, todo \in SUBSET Records :
          q \notin Listed => Adding(q, todo) \in Freed
  BY <1>1, <1>4 DEF Freed
<1> QED BY <1>5, <1>6, <1>7, <1>8, <1>9, <1>10

(* A call is made. *)
LEMMA Call ==
    ASSUME NEW s, Stacked(s, Sound, Freed), NEW x \in Sound',
           stack' = <<x>> \o s,
           Sound \subseteq Sound', Sound \cap Freed \subseteq Freed',
           s # <<>> => Head(s) \in Freed',
           s = <<>> => x \in Callers
    PROVE  /\ Stacked(stack, Sound, Freed)'
           /\ stack' # <<>> /\ Head(stack') = x /\ Pc' = x.at
<1>1. Stacked(s, Sound', Freed') BY Staying
<1>2. Stacked(stack', Sound', Freed') BY <1>1, Pushing
<1>3. s \in Seq(Sound') BY <1>1 DEF Stacked
<1>4. stack' # <<>> /\ Head(stack') = x BY <1>3, Pushed
<1>5. Stacked(stack, Sound, Freed)' <=> Stacked(stack', Sound', Freed')
  BY DEF Stacked
<1> QED BY <1>2, <1>4, <1>5 DEF Pc

(* What is known of the innermost call. *)
LEMMA Innermost ==
    ASSUME CallsInv
    PROVE  /\ stack = <<>> => Pc = "loop"
           /\ stack # <<>> => Pc = Head(stack).at /\ Head(stack) \in Sound
           /\ Pc = "loop" => stack = <<>>
           /\ Pc # "add" /\ stack # <<>> => Head(stack) \in Freed
<1>1. Stacked(stack, Sound, Freed) BY DEF CallsInv
<1>2. stack # <<>> => Head(stack) \in Sound BY <1>1, Popping
<1>3. Sound \subseteq Calls BY DEF Sound
<1>4. stack # <<>> => Head(stack).at # "loop" BY <1>2, <1>3, CallKinds
<1>5. Pc # "add" /\ stack # <<>> => Head(stack) \in Freed BY <1>2, <1>3 DEF Freed, Pc
<1> QED BY <1>2, <1>4, <1>5 DEF Pc

(* iodns_getaddrinfo() and its like. *)
LEMMA AskCalls ==
    ASSUME IInv, NEW q \in Queries, NEW records \in Types,
           NEW whose \in {"public", "socket"}, Ask(q, records, whose)
    PROVE  CallsInv'
<1>1. /\ Listed' = Listed \cup {q} /\ q \notin Listed
      /\ records # {} /\ records \in SUBSET Records
      /\ flags'[q] = NewFlags /\ type' = [type EXCEPT ![q] = records]
  BY AskKeeps DEF IInv
<1>2. Pc \in {"loop", "callback"} /\ type[q] = {} BY DEF Ask, UserRuns
<1>3. UNCHANGED <<dnsengine, left, timer>> BY DEF Ask
<1>4. type \in [Queries -> SUBSET Records] BY DEF IInv, QueriesInv, QueriesTyped
<1>5. Sound \subseteq Sound'
  <2> SUFFICES ASSUME NEW c \in Sound PROVE c \in Sound' OBVIOUS
  <2>1. c \in Calls BY DEF Sound
  <2>2. c.at = "add" => c.query # q /\ c.query \in Queries
    BY <1>2, <2>1, CallKinds DEF Sound
  <2> QED BY <1>1, <1>3, <1>4, <2>1, <2>2 DEF Sound
<1>6. Sound \cap Freed \subseteq Freed'
  <2> SUFFICES ASSUME NEW c \in Sound, c \in Freed PROVE c \in Freed' OBVIOUS
  <2>1. c.at = "add" => c.query # q BY <1>2 DEF Sound
  <2> QED BY <1>1, <2>1 DEF Freed
<1>7. timer' \in BOOLEAN /\ Stacked(stack, Sound, Freed) BY <1>3 DEF IInv, CallsInv
<1>8. stack # <<>> => Head(stack) \in Freed' BY <1>2, <1>6, Innermost DEF IInv
<1>9. CASE dnsengine = "default"
  <2>1. stack' = stack BY <1>9 DEF Ask
  <2>2. Stacked(stack, Sound, Freed)'
    BY <1>5, <1>6, <1>7, <2>1, Staying DEF Stacked
  <2>3. Pc' = Pc BY <2>1 DEF Pc
  <2>4. AddingGoesOn' BY <1>2, <2>3 DEF AddingGoesOn
  <2>5. Working' /\ TimerRuns' BY <1>3, <1>9 DEF Working, TimerRuns
  <2> QED BY <1>7, <2>2, <2>4, <2>5 DEF CallsInv
<1>10. CASE dnsengine # "default"
  <2>1. dnsengine = "cares" BY <1>10 DEF IInv, QueriesInv, QueriesTyped
  <2> DEFINE x == Adding(q, records)
  <2>2. stack' = <<x>> \o stack BY <1>10 DEF Ask, Requests
  <2>3. x.at = "add" /\ x.query = q /\ x.todo = records BY DEF Adding
  <2>4. x \in Sound' /\ x \in Callers
    <3>1. x \in Calls BY <1>1 DEF Calls
    <3> HIDE DEF x
    <3> QED BY <1>1, <1>3, <1>4, <2>1, <2>3, <3>1 DEF Sound, Callers
  <2> HIDE DEF x
  <2>5. /\ Stacked(stack, Sound, Freed)'
        /\ stack' # <<>> /\ Head(stack') = x /\ Pc' = x.at
    BY <1>5, <1>6, <1>7, <1>8, <2>2, <2>4, Call
  <2>6. AddingGoesOn'
    BY <1>1, <2>3, <2>5 DEF AddingGoesOn, Has, NewFlags
  <2>7. Working'
    <3>1. \A p \in Listed : left[p] # {}
      BY <1>2, <2>1 DEF IInv, CallsInv, Working
    <3> QED BY <1>1, <1>3, <2>3, <2>5, <3>1 DEF Working
  <2>8. TimerRuns' BY <2>5 DEF TimerRuns
  <2> QED BY <1>7, <2>5, <2>6, <2>7, <2>8 DEF CallsInv
<1> QED BY <1>9, <1>10

(* iodns_abort() *)
LEMMA AbortCalls ==
    ASSUME IInv, NEW q \in Queries, Abort(q)
    PROVE  CallsInv'
<1>1. Listed' \subseteq Listed BY AbortKeeps DEF IInv
<1>2. Pc \in {"loop", "callback"} /\ UNCHANGED <<dnsengine, type, left, timer, stack>>
  BY DEF Abort, UserRuns
<1>3. Sound' = Sound /\ Freed \subseteq Freed' BY <1>1, <1>2, Lasting
<1>4. timer' \in BOOLEAN /\ Stacked(stack, Sound, Freed) BY <1>2 DEF IInv, CallsInv
<1>5. Stacked(stack, Sound, Freed)' BY <1>2, <1>3, <1>4, Staying DEF Stacked
<1>6. Pc' = Pc BY <1>2 DEF Pc
<1>7. AddingGoesOn' BY <1>2, <1>6 DEF AddingGoesOn
<1>8. Working' BY <1>1, <1>2, <1>6 DEF IInv, CallsInv, Working
<1>9. TimerRuns' BY <1>1, <1>2 DEF IInv, CallsInv, TimerRuns
<1> QED BY <1>4, <1>5, <1>7, <1>8, <1>9 DEF CallsInv

(* A call that a query was answered in goes on when its callback returns. *)
LEMMA DeliverCalls ==
    ASSUME IInv,
           NEW q \in Listed, NEW found \in SUBSET type[q], NEW calls,
           Deliver(q, found, calls),
           Listed' = Listed \ {q},
           UNCHANGED <<dnsengine, type, timer>>,
           \A p \in Listed' : left'[p] = left[p],
           Stacked(calls, Sound, Freed), calls # <<>>, Head(calls) \in Freed',
           Pc # "crashed",
           \A p \in Listed : Pc = "add" /\ Head(stack).query = p => p = q
    PROVE  CallsInv'
<1> DEFINE x == Callback(EventFor(found))
<1>1. Sound' = Sound /\ Freed \subseteq Freed' BY Lasting
<1>2. x \in Sound BY CallsSound DEF EventFor
<1>3. x.at = "callback" BY DEF Callback
<1>4. stack' = <<x>> \o calls BY DEF Deliver
<1> HIDE DEF x
<1>5. Stacked(stack, Sound, Freed)' /\ stack' # <<>> /\ Pc' = x.at
  BY <1>1, <1>2, <1>4, Call
<1>6. AddingGoesOn' BY <1>3, <1>5 DEF AddingGoesOn
<1>7. Working' BY DEF IInv, CallsInv, Working
<1>8. TimerRuns' BY <1>5 DEF TimerRuns
<1> QED BY <1>5, <1>6, <1>7, <1>8 DEF IInv, CallsInv

(* A single call. *)
LEMMA Alone ==
    ASSUME NEW sound, NEW freed, NEW x \in sound \cap Callers
    PROVE  Stacked(<<x>>, sound, freed)
<1> DEFINE s == <<x>>
<1>1. s \in Seq(sound) /\ Len(s) = 1 /\ s[1] = x OBVIOUS
<1> HIDE DEF s
<1> QED BY <1>1 DEF Stacked, s

(* The calls that change no query: one is made or returns, or the program  *)
(* crashes.                                                                *)
LEMMA CallsOnly ==
    ASSUME IInv,
           UNCHANGED <<dnsengine, list, query, descriptor, answers, aborted>>,
           \/ Poll \/ ScanEnds \/ AddToFreed \/ AddEnds \/ SocketReady
           \/ TimerFires \/ ProcessEnds \/ CallbackReturns
    PROVE  IInv'
<1>1. QueriesInv' /\ Listed' = Listed BY QueriesUntouched DEF IInv
<1> SUFFICES CallsInv' BY <1>1 DEF IInv
<1>2. UNCHANGED <<dnsengine, list, flags, type, left>> BY DEF query
<1>3. Sound' = Sound /\ Freed \subseteq Freed' BY <1>1, <1>2, Lasting
<1>4. Stacked(stack, Sound, Freed) /\ timer \in BOOLEAN BY DEF IInv, CallsInv
<1>5. timer' \in BOOLEAN
  BY <1>4 DEF Poll, ScanEnds, AddToFreed, AddEnds, SocketReady, TimerFires,
              ProcessEnds, TimerAfter, CallbackReturns
<1>6. Stacked(<<>>, Sound, Freed)
  <2>1. <<>> \in Seq(Sound) /\ Len(<<>>) = 0 BY EmptySeq
  <2> QED BY <2>1 DEF Stacked
<1>7. ASSUME NEW x \in Sound \cap Callers, stack' = <<x>>,
             x.at \in {"scan", "process", "crashed"},
             Pc = "loop" \/ x.at = "crashed"
      PROVE  CallsInv'
  <2>1. Stacked(<<x>>, Sound', Freed') BY <1>3, <1>7, Alone
  <2>2. Stacked(stack, Sound, Freed)' /\ stack' # <<>> /\ Pc' = x.at
    BY <1>7, <2>1 DEF Stacked, Pc
  <2>3. AddingGoesOn' BY <1>7, <2>2 DEF AddingGoesOn
  <2>4. Working' BY <1>1, <1>2, <1>7, <2>2 DEF IInv, CallsInv, Working
  <2>5. TimerRuns' BY <2>2 DEF TimerRuns
  <2> QED BY <1>5, <2>2, <2>3, <2>4, <2>5 DEF CallsInv
<1>8. ASSUME stack # <<>>, stack' = Tail(stack), Pc # "crashed",
             \A p \in Listed : Pc = "add" /\ Head(stack).query = p => Head(stack).todo = {},
             Tail(stack) = <<>> => timer' \/ dnsengine = "default"
      PROVE  CallsInv'
  <2>1. /\ Stacked(Tail(stack), Sound, Freed)
        /\ Tail(stack) # <<>> => Head(Tail(stack)) \in Freed \cap Sound
    BY <1>4, <1>8, Popping
  <2>2. Stacked(stack, Sound, Freed)' BY <1>3, <1>8, <2>1, Staying DEF Stacked
  <2>3. Pc' = "add" => Head(stack').query \notin Listed
    BY <1>8, <2>1 DEF Freed, Pc
  <2>4. AddingGoesOn' BY <1>1, <2>3 DEF AddingGoesOn
  <2>5. Working' BY <1>1, <1>2, <1>8 DEF IInv, CallsInv, Working
  <2>6. TimerRuns' BY <1>2, <1>8 DEF TimerRuns
  <2> QED BY <1>5, <2>2, <2>4, <2>5, <2>6 DEF CallsInv
<1>9. /\ Scan.at = "scan" /\ Process.at = "process" /\ Crashed.at = "crashed"
  BY DEF Scan, Process, Crashed
<1>10. Pc # "loop" => stack # <<>> BY DEF Pc
<1>11. CASE Poll BY <1>7, <1>9, <1>11, CallsSound DEF Poll
<1>12. CASE SocketReady BY <1>7, <1>9, <1>12, CallsSound DEF SocketReady
<1>13. CASE TimerFires BY <1>7, <1>9, <1>13, CallsSound DEF TimerFires
<1>14. CASE AddToFreed BY <1>7, <1>9, <1>14, CallsSound DEF AddToFreed
<1>15. CASE ScanEnds
  <2>1. stack' = <<>> /\ Pc = "scan" BY <1>15 DEF ScanEnds
  <2>2. dnsengine = "default" BY <1>10, <2>1, Innermost DEF IInv, Sound
  <2>3. Stacked(stack, Sound, Freed)' BY <1>3, <1>6, <2>1, Staying DEF Stacked
  <2>4. Pc' = "loop" BY <2>1 DEF Pc
  <2>5. AddingGoesOn' /\ Working' /\ TimerRuns'
    BY <1>2, <2>2, <2>4 DEF AddingGoesOn, Working, TimerRuns
  <2> QED BY <1>5, <2>3, <2>5 DEF CallsInv
<1>16. CASE AddEnds BY <1>8, <1>10, <1>16 DEF AddEnds
<1>17. CASE ProcessEnds BY <1>8, <1>10, <1>17 DEF ProcessEnds, TimerAfter
<1>18. CASE CallbackReturns
  <2>1. stack # <<>> /\ Pc = "callback" /\ stack' = Tail(stack)
    BY <1>10, <1>18 DEF CallbackReturns
  <2>2. Head(stack) \notin Callers BY <2>1 DEF Callers, Pc
  <2>3. Tail(stack) # <<>> BY <1>4, <2>1, <2>2, Popping
  <2> QED BY <1>8, <2>1, <2>3
<1> QED BY <1>11, <1>12, <1>13, <1>14, <1>15, <1>16, <1>17, <1>18

(* query_count is 0 when c-ares has answered all. *)
LEMMA NoRecordLeft ==
    ASSUME NEW rest \in SUBSET Records
    PROVE  AllAnswered(rest) <=> rest = {}
<1>1. IsFiniteSet(Records)
  <2>1. IsFiniteSet({"A"} \cup {"AAAA"}) BY FS_Singleton, FS_AddElement
  <2>2. IsFiniteSet(({"A"} \cup {"AAAA"}) \cup {"PTR"}) BY <2>1, FS_AddElement
  <2>3. Records = ({"A"} \cup {"AAAA"}) \cup {"PTR"} BY DEF Records
  <2> QED BY <2>2, <2>3
<1>2. IsFiniteSet(rest) BY <1>1, FS_Subset
<1>3. Cardinality(rest) \in Nat BY <1>2, FS_CardinalityType
<1>4. Cardinality(rest) = 0 <=> rest = {} BY <1>2, FS_EmptySet
<1> QED BY <1>3, <1>4 DEF AllAnswered

(* The default engine's list is in the order the queries were asked in,    *)
(* and each of them can be resolved.                                       *)
LEMMA PicksFirst ==
    ASSUME IInv, dnsengine = "default", Listed # {}
    PROVE  /\ list # <<>> /\ Picked = Head(list) /\ Picked \in Listed
           /\ Without(Picked) = Tail(list)
<1>1. list \in Seq(Queries) /\ Distinct(list) BY DEF IInv, QueriesInv, QueriesTyped
<1>2. Len(list) \in Nat \ {0} /\ list # <<>>
  <2>1. Len(list) \in Nat BY <1>1, LenProperties
  <2> QED BY <1>1, <2>1, EmptySeq DEF Listed
<1>3. \A i \in 1 .. Len(list) : Runnable(list[i])
  BY DEF IInv, QueriesInv, AsEngine, Runnable, Has, Listed
<1> DEFINE First(i) == Runnable(list[i]) /\ \A j \in 1 .. i - 1 : ~ Runnable(list[j])
           k == CHOOSE i \in 1 .. Len(list) : First(i)
<1>4. 1 \in 1 .. Len(list) /\ First(1) BY <1>2, <1>3
<1>5. k \in 1 .. Len(list) /\ First(k)
  <2> HIDE DEF First
  <2> QED BY <1>4
<1>6. Picked = list[k] BY DEF Picked
<1> HIDE DEF k
<1>7. k = 1
  <2> SUFFICES ASSUME k # 1 PROVE FALSE OBVIOUS
  <2>1. 1 \in 1 .. k - 1 BY <1>2, <1>5
  <2> QED BY <1>2, <1>3, <1>5, <2>1
<1>8. Picked = list[1] /\ Picked = Head(list) BY <1>1, <1>2, <1>6, <1>7
<1>9. Picked \in Listed BY <1>2, <1>8 DEF Listed
<1>10. Position(Picked) = 1 BY <1>1, <1>2, <1>8 DEF Position, Distinct
<1>11. Without(Picked) = SubSeq(list, 1, 0) \o SubSeq(list, 2, Len(list))
  BY <1>10 DEF Without
<1>12. SubSeq(list, 1, 0) = <<>> BY SubSeqEmpty
<1>13. SubSeq(list, 2, Len(list)) = Tail(list) /\ Tail(list) \in Seq(Queries)
  BY <1>1, <1>2, TailIsSubSeq, HeadTailProperties
<1>14. <<>> \o Tail(list) = Tail(list) BY <1>13, ConcatEmptySeq
<1> QED BY <1>2, <1>8, <1>9, <1>11, <1>12, <1>13, <1>14

(* A query that still runs was not aborted. *)
LEMMA RunningNotAborted ==
    ASSUME QueriesInv, NEW q, Has(q, "RUNNING")
    PROVE  q \notin aborted
BY DEF QueriesInv, AbortedStopped

(* iodns_process_queries() resolves a query. *)
LEMMA ResolveSafe ==
    ASSUME IInv, NEW found \in SUBSET Records, Resolve(found)
    PROVE  IInv' /\ list' = Tail(list)
<1>1. /\ Pc = "scan" /\ found \subseteq type[Picked] /\ Listed # {}
      /\ Deliver(Picked, found, stack)
      /\ UNCHANGED <<dnsengine, type, left, timer, aborted>>
  BY DEF Resolve, Resolvable
<1>2. stack # <<>> /\ Head(stack) \in Sound /\ Head(stack) \in Freed
  BY <1>1, Innermost DEF IInv
<1>3. dnsengine = "default" BY <1>1, <1>2, Innermost DEF IInv, Sound
<1>4. Picked \in Listed /\ Without(Picked) = Tail(list) BY <1>1, <1>3, PicksFirst
<1>5. list' = Tail(list) BY <1>1, <1>4 DEF Deliver
<1>6. left[Picked] = {} /\ Picked \notin aborted
  BY <1>3, <1>4 DEF IInv, QueriesInv, AsEngine, AbortedStopped, Has
<1>7. left' = [left EXCEPT ![Picked] = {}]
  BY <1>1, <1>6 DEF IInv, QueriesInv, QueriesTyped
<1>8. QueriesInv' /\ Listed' = Listed \ {Picked}
  BY <1>1, <1>4, <1>6, <1>7, DeliverKeeps DEF IInv
<1>9. Sound' = Sound /\ Freed \subseteq Freed' BY <1>1, <1>8, Lasting
<1>10. CallsInv'
  BY <1>1, <1>2, <1>4, <1>8, <1>9, DeliverCalls DEF IInv, CallsInv
<1> QED BY <1>5, <1>8, <1>10 DEF IInv

(* ares_process_fd() has an answer. *)
LEMMA AnswerSafe ==
    ASSUME IInv, NEW q \in Queries, NEW r \in Records, Answer(q, r)
    PROVE  IInv'
<1>1. PICK records \in Found(q, r) : Answered(q, records, left[q] \ {r}, stack)
  BY DEF Answer
<1>2. /\ Pc = "process" /\ r \in left[q] /\ Has(q, "RUNNING")
      /\ left' = [left EXCEPT ![q] = @ \ {r}]
      /\ UNCHANGED <<dnsengine, type, timer, aborted>>
  BY DEF Answer
<1>3. q \in Listed /\ q \notin aborted
  BY <1>2, RunningNotAborted DEF IInv, QueriesInv, RequestsListed
<1>4. dnsengine = "cares"
  BY <1>2, <1>3 DEF IInv, QueriesInv, QueriesTyped, AsEngine
<1> DEFINE rest == left[q] \ {r}
<1>5. rest \in SUBSET type[q] /\ records \in SUBSET type[q] /\ rest \in SUBSET Records
  BY <1>2 DEF Found, IInv, QueriesInv, QueriesTyped
<1>6. left' = [left EXCEPT ![q] = rest] BY <1>2
<1>7. \A p \in Queries : p # q => left'[p] = left[p]
  BY <1>2 DEF IInv, QueriesInv, QueriesTyped
<1>8. left'[q] = rest BY <1>6 DEF IInv, QueriesInv, QueriesTyped
<1>9. Listed \subseteq Queries BY ElementOfSeq DEF IInv, QueriesInv, QueriesTyped, Listed
<1>10. Answered(q, records, rest, stack) BY <1>1
<1>11. stack # <<>> /\ Head(stack) \in Freed BY <1>2, Innermost DEF IInv
<1> HIDE DEF rest
<1>12. CASE rest = {}
  <2>1. Deliver(q, records, stack) BY <1>5, <1>10, <1>12, NoRecordLeft DEF Answered
  <2>2. QueriesInv' /\ Listed' = Listed \ {q}
    BY <1>2, <1>3, <1>5, <1>6, <1>12, <2>1, DeliverKeeps DEF IInv
  <2>3. Sound' = Sound /\ Freed \subseteq Freed' BY <1>2, <2>2, Lasting
  <2>4. \A p \in Listed' : left'[p] = left[p] BY <1>7, <1>9, <2>2
  <2>5. Stacked(stack, Sound, Freed) BY DEF IInv, CallsInv
  <2>6. CallsInv'
    BY <1>2, <1>3, <1>5, <1>11, <2>1, <2>2, <2>3, <2>4, <2>5, DeliverCalls
  <2> QED BY <2>2, <2>6 DEF IInv
<1>13. CASE rest # {}
  <2>1. /\ result' = [result EXCEPT ![q] = records] /\ stack' = stack
        /\ UNCHANGED <<list, flags, descriptor, answers>>
    BY <1>5, <1>10, <1>13, NoRecordLeft DEF Answered
  <2>2. QueriesInv' /\ Listed' = Listed
    BY <1>2, <1>3, <1>4, <1>5, <1>6, <2>1, RequestsChange DEF IInv
  <2>3. Sound' = Sound /\ Freed \subseteq Freed' BY <1>2, <2>2, Lasting
  <2>4. Stacked(stack, Sound, Freed)'
    BY <2>1, <2>3, Staying DEF IInv, CallsInv, Stacked
  <2>5. Pc' = "process" BY <1>2, <2>1 DEF Pc
  <2>6. AddingGoesOn' BY <2>5 DEF AddingGoesOn
  <2>7. \A p \in Listed : left[p] # {}
    BY <1>2, <1>4 DEF IInv, CallsInv, Working
  <2>8. Working' BY <1>7, <1>8, <1>9, <1>13, <2>2, <2>7 DEF Working
  <2>9. TimerRuns' BY <1>11, <2>1 DEF TimerRuns
  <2> QED BY <1>2, <2>2, <2>4, <2>6, <2>8, <2>9 DEF IInv, CallsInv
<1> QED BY <1>12, <1>13

(* The program crashes for an answer to a query that was stopped. *)
LEMMA AnswerForStoppedSafe ==
    ASSUME IInv, NEW q \in Queries, NEW r \in Records, AnswerForStopped(q, r)
    PROVE  IInv'
<1>1. /\ Pc = "process" /\ r \in left[q] /\ stack' = <<Crashed>>
      /\ left' = [left EXCEPT ![q] = @ \ {r}]
      /\ UNCHANGED <<dnsengine, list, flags, type, result, descriptor, timer,
                     answers, aborted>>
  BY DEF AnswerForStopped
<1>2. q \in Listed BY <1>1 DEF IInv, QueriesInv, RequestsListed
<1>3. dnsengine = "cares"
  BY <1>1, <1>2 DEF IInv, QueriesInv, QueriesTyped, AsEngine
<1>4. /\ left[q] \ {r} \in SUBSET type[q] /\ result[q] \in SUBSET type[q]
      /\ result' = [result EXCEPT ![q] = result[q]]
  BY <1>1 DEF IInv, QueriesInv, QueriesTyped
<1>5. QueriesInv' /\ Listed' = Listed
  BY <1>1, <1>2, <1>3, <1>4, RequestsChange DEF IInv
<1>6. Stacked(<<Crashed>>, Sound', Freed') BY <1>1, <1>5, CallsSound, Lasting, Alone
<1>7. Stacked(stack, Sound, Freed)' BY <1>1, <1>6 DEF Stacked
<1>8. Pc' = "crashed" /\ stack' # <<>> BY <1>1 DEF Pc, Crashed
<1>9. AddingGoesOn' /\ Working' /\ TimerRuns'
  BY <1>8 DEF AddingGoesOn, Working, TimerRuns
<1> QED BY <1>1, <1>5, <1>7, <1>9 DEF IInv, CallsInv

(* What holds when dnsengine_cares_add() goes on. *)
LEMMA AddHas ==
    ASSUME IInv, NEW q, NEW r, NEW todo, AddGoesOn(q, r, todo)
    PROVE  /\ q \in Listed /\ q \in Queries /\ q = Head(stack).query
           /\ dnsengine = "cares" /\ Pc = "add"
           /\ r \in type[q] /\ todo \in SUBSET type[q] /\ todo \in SUBSET Records
           /\ Has(q, "RUNNING") /\ q \notin aborted
           /\ Adding(q, todo) \in Sound \cap Callers
           /\ Stacked(Tail(stack), Sound, Freed)
           /\ Tail(stack) # <<>> => Head(Tail(stack)) \in Freed
           /\ \A p \in Listed : p # q => left[p] # {}
<1>1. /\ Pc = "add" /\ Head(stack).todo # {} /\ q = Head(stack).query /\ q \in Listed
      /\ r = NextRecord(Head(stack).todo) /\ todo = Head(stack).todo \ {r}
  BY DEF AddGoesOn
<1>2. stack # <<>> /\ Stacked(stack, Sound, Freed) BY <1>1 DEF Pc, IInv, CallsInv
<1>3. /\ Head(stack) \in Sound /\ Stacked(Tail(stack), Sound, Freed)
      /\ Tail(stack) # <<>> => Head(Tail(stack)) \in Freed
  BY <1>2, Popping
<1>4. Head(stack).at = "add" BY <1>1, <1>2 DEF Pc
<1>5. /\ dnsengine = "cares" /\ type[q] # {} /\ Head(stack).todo \subseteq type[q]
  BY <1>1, <1>3, <1>4 DEF Sound
<1>6. r \in Head(stack).todo BY <1>1 DEF NextRecord
<1>7. q \in Queries BY <1>1, ElementOfSeq DEF IInv, QueriesInv, QueriesTyped, Listed
<1>8. r \in type[q] /\ todo \in SUBSET type[q] /\ todo \in SUBSET Records
  BY <1>1, <1>5, <1>6, <1>7 DEF IInv, QueriesInv, QueriesTyped
<1>9. Has(q, "RUNNING") BY <1>1 DEF IInv, CallsInv, AddingGoesOn
<1>10. q \notin aborted BY <1>9, RunningNotAborted DEF IInv
<1>11. Adding(q, todo) \in Sound \cap Callers BY <1>5, <1>7, <1>8, CallsSound
<1>12. \A p \in Listed : p # q => left[p] # {}
  BY <1>1, <1>5 DEF IInv, CallsInv, Working
<1> QED BY <1>1, <1>3, <1>5, <1>7, <1>8, <1>9, <1>10, <1>11, <1>12

(* c-ares sends a request off. *)
LEMMA AskLaterSafe ==
    ASSUME IInv, NEW q, NEW r, NEW todo, AskLater(q, r, todo)
    PROVE  IInv'
<1>1. /\ AddGoesOn(q, r, todo)
      /\ left' = [left EXCEPT ![q] = @ \cup {r}]
      /\ stack' = <<Adding(q, todo)>> \o Tail(stack)
      /\ UNCHANGED <<dnsengine, list, flags, type, result, descriptor, timer,
                     answers, aborted>>
  BY DEF AskLater
<1>2. /\ q \in Listed /\ q \in Queries /\ dnsengine = "cares" /\ Has(q, "RUNNING")
      /\ r \in type[q] /\ Adding(q, todo) \in Sound \cap Callers
      /\ Stacked(Tail(stack), Sound, Freed)
      /\ Tail(stack) # <<>> => Head(Tail(stack)) \in Freed
      /\ \A p \in Listed : p # q => left[p] # {}
  BY <1>1, AddHas
<1>3. /\ left[q] \cup {r} \in SUBSET type[q] /\ result[q] \in SUBSET type[q]
      /\ result' = [result EXCEPT ![q] = result[q]]
  BY <1>1, <1>2 DEF IInv, QueriesInv, QueriesTyped
<1>4. QueriesInv' /\ Listed' = Listed
  BY <1>1, <1>2, <1>3, RequestsChange DEF IInv
<1>5. Sound' = Sound /\ Freed \subseteq Freed' BY <1>1, <1>4, Lasting
<1> DEFINE x == Adding(q, todo)
<1>6. x.at = "add" /\ x.query = q BY DEF Adding
<1>7. /\ Stacked(stack, Sound, Freed)'
      /\ stack' # <<>> /\ Head(stack') = x /\ Pc' = x.at
  <2> HIDE DEF x
  <2> QED BY <1>1, <1>2, <1>5, Call DEF x
<1> HIDE DEF x
<1>8. AddingGoesOn' BY <1>1, <1>2, <1>6, <1>7 DEF AddingGoesOn, Has
<1>9. \A p \in Listed : left'[p] # {}
  <2>1. left \in [Queries -> SUBSET Records] BY DEF IInv, QueriesInv, QueriesTyped
  <2>2. left'[q] # {} BY <1>1, <1>2, <2>1
  <2>3. \A p \in Queries : p # q => left'[p] = left[p] BY <1>1, <2>1
  <2>4. Listed \subseteq Queries
    BY ElementOfSeq DEF IInv, QueriesInv, QueriesTyped, Listed
  <2> QED BY <1>2, <2>2, <2>3, <2>4
<1>10. Working' BY <1>4, <1>9 DEF Working
<1>11. TimerRuns' BY <1>7 DEF TimerRuns
<1> QED BY <1>1, <1>4, <1>7, <1>8, <1>10, <1>11 DEF IInv, CallsInv

(* c-ares answers before the call that asks returns. *)
LEMMA AnswerAtOnceSafe ==
    ASSUME IInv, NEW q, NEW r, NEW todo, AnswerAtOnce(q, r, todo)
    PROVE  IInv'
<1> DEFINE x == Adding(q, todo)
           calls == <<x>> \o Tail(stack)
<1>1. /\ AddGoesOn(q, r, todo)
      /\ UNCHANGED <<dnsengine, type, left, timer, aborted>>
  BY DEF AnswerAtOnce
<1>2. PICK records \in Found(q, r) : Answered(q, records, left[q], calls)
  BY DEF AnswerAtOnce
<1>3. /\ q \in Listed /\ q \in Queries /\ q = Head(stack).query
      /\ dnsengine = "cares" /\ Pc = "add" /\ Has(q, "RUNNING") /\ q \notin aborted
      /\ r \in type[q] /\ x \in Sound \cap Callers
      /\ todo \in SUBSET Records
      /\ Stacked(Tail(stack), Sound, Freed)
      /\ Tail(stack) # <<>> => Head(Tail(stack)) \in Freed
      /\ \A p \in Listed : p # q => left[p] # {}
  BY <1>1, AddHas
<1>4. x.at = "add" /\ x.query = q /\ x.todo = todo BY DEF Adding
<1>5. q \notin Listed' => x \in Freed'
  <2>1. x \in Calls BY <1>3 DEF Sound
  <2> HIDE DEF x
  <2> QED BY <1>4, <2>1 DEF Freed
<1> HIDE DEF x
<1>6. left[q] \in SUBSET Records /\ left[q] \in SUBSET type[q] /\ records \in SUBSET type[q]
  BY <1>2, <1>3 DEF Found, IInv, QueriesInv, QueriesTyped
<1>7. Stacked(calls, Sound, Freed) BY <1>3, Pushing
<1>8. calls # <<>> /\ Head(calls) = x BY <1>3, Pushed DEF Stacked
<1>9. CASE left[q] = {}
  <2>1. Deliver(q, records, calls) BY <1>2, <1>6, <1>9, NoRecordLeft DEF Answered
  <2>2. left' = [left EXCEPT ![q] = {}]
    BY <1>1, <1>3, <1>9 DEF IInv, QueriesInv, QueriesTyped
  <2>3. QueriesInv' /\ Listed' = Listed \ {q}
    BY <1>1, <1>3, <1>6, <2>1, <2>2, DeliverKeeps DEF IInv
  <2>4. Head(calls) \in Freed' BY <1>5, <1>8, <2>3
  <2> HIDE DEF calls
  <2>5. CallsInv'
    BY <1>1, <1>3, <1>6, <1>7, <1>8, <2>1, <2>3, <2>4, DeliverCalls
  <2> QED BY <2>3, <2>5 DEF IInv
<1>10. CASE left[q] # {}
  <2>1. /\ result' = [result EXCEPT ![q] = records] /\ stack' = calls
        /\ UNCHANGED <<list, flags, descriptor, answers>>
    BY <1>2, <1>6, <1>10, NoRecordLeft DEF Answered
  <2>2. left' = [left EXCEPT ![q] = left[q]]
    BY <1>1, <1>3 DEF IInv, QueriesInv, QueriesTyped
  <2>3. QueriesInv' /\ Listed' = Listed
    BY <1>1, <1>3, <1>6, <2>1, <2>2, RequestsChange DEF IInv
  <2>4. Sound' = Sound /\ Freed \subseteq Freed' BY <1>1, <2>3, Lasting
  <2>5. Stacked(stack, Sound, Freed)' BY <1>7, <2>1, <2>4, Staying DEF Stacked
  <2>6. stack' # <<>> /\ Head(stack') = x /\ Pc' = "add"
    BY <1>4, <1>8, <2>1 DEF Pc
  <2>7. AddingGoesOn' BY <1>3, <1>4, <2>1, <2>6 DEF AddingGoesOn, Has
  <2>8. Working' BY <1>1, <1>3, <1>10, <2>3 DEF Working
  <2>9. TimerRuns' BY <2>6 DEF TimerRuns
  <2> QED BY <1>1, <2>3, <2>5, <2>7, <2>8, <2>9 DEF IInv, CallsInv
<1> QED BY <1>9, <1>10

-----------------------------------------------------------------------------
(* The invariants and the order of the answers. *)

LEMMA InitSafe ==
    ASSUME Init PROVE IInv
<1>1. <<>> \in Seq(Queries) /\ <<>> \in Seq(Sound) /\ Len(<<>>) = 0 BY EmptySeq
<1>2. Listed = {} /\ Len(list) = 0 BY <1>1 DEF Init, Listed
<1>3. QueriesTyped BY <1>1 DEF Init, QueriesTyped
<1>4. Distinct(list) BY <1>2 DEF Distinct
<1>5. NoneLost /\ ListedAlive /\ RequestsListed /\ AsEngine
  BY <1>2 DEF Init, NoneLost, ListedAlive, RequestsListed, AsEngine
<1>6. AnsweredOnce /\ Fresh /\ AbortedStopped
  BY <1>2 DEF Init, AnsweredOnce, Fresh, AbortedStopped
<1>7. Pc = "loop" BY DEF Init, Pc
<1>8. Stacked(stack, Sound, Freed) BY <1>1 DEF Init, Stacked
<1>9. AddingGoesOn /\ Working /\ TimerRuns
  BY <1>2, <1>7 DEF AddingGoesOn, Working, TimerRuns
<1>10. timer \in BOOLEAN BY DEF Init
<1> QED
  BY <1>3, <1>4, <1>5, <1>6, <1>8, <1>9, <1>10 DEF IInv, QueriesInv, CallsInv

LEMMA StepSafe ==
    ASSUME IInv, [Next]_vars PROVE IInv'
<1>1. CASE UNCHANGED vars
  <2>1. /\ UNCHANGED <<dnsengine, list, query, descriptor, answers, aborted>>
        /\ UNCHANGED <<timer, stack, dnsengine, type, left>>
    BY <1>1 DEF vars, query
  <2>2. QueriesInv' /\ Listed' = Listed BY <2>1, QueriesUntouched DEF IInv
  <2>3. Sound' = Sound /\ Freed \subseteq Freed' BY <2>1, <2>2, Lasting
  <2>4. Stacked(stack, Sound, Freed)'
    BY <2>1, <2>3, Staying DEF IInv, CallsInv, Stacked
  <2>5. Pc' = Pc BY <2>1 DEF Pc
  <2>6. flags' = flags BY <2>1 DEF query
  <2>7. AddingGoesOn'
    BY <2>1, <2>2, <2>5, <2>6 DEF IInv, CallsInv, AddingGoesOn, Has
  <2>8. Working' BY <2>1, <2>2, <2>5 DEF IInv, CallsInv, Working
  <2>9. TimerRuns' BY <2>1, <2>2 DEF IInv, CallsInv, TimerRuns
  <2> QED BY <2>1, <2>2, <2>4, <2>7, <2>8, <2>9 DEF IInv, CallsInv
<1>2. CASE \E q \in Queries : User(q)
  <2>1. PICK q \in Queries : User(q) BY <1>2
  <2>2. CASE Abort(q) BY <2>2, AbortKeeps, AbortCalls DEF IInv
  <2>3. CASE \E records \in Types, whose \in {"public", "socket"} : Ask(q, records, whose)
    <3>1. PICK records \in Types, whose \in {"public", "socket"} : Ask(q, records, whose)
      BY <2>3
    <3> QED BY <3>1, AskKeeps, AskCalls DEF IInv
  <2> QED BY <2>1, <2>2, <2>3 DEF User
<1>3. CASE Default
  <2>1. CASE Poll BY <2>1, CallsOnly DEF Poll
  <2>2. CASE ScanEnds BY <2>2, CallsOnly DEF ScanEnds
  <2>3. CASE \E found \in SUBSET Records : Resolve(found) BY <2>3, ResolveSafe
  <2> QED BY <1>3, <2>1, <2>2, <2>3 DEF Default
<1>4. CASE Add
  <2>1. CASE AddToFreed BY <2>1, CallsOnly DEF AddToFreed
  <2>2. CASE AddEnds BY <2>2, CallsOnly DEF AddEnds
  <2>3. CASE \E q \in Queries, r \in Records, todo \in SUBSET Records :
                AskLater(q, r, todo) \/ AnswerAtOnce(q, r, todo)
    BY <2>3, AskLaterSafe, AnswerAtOnceSafe
  <2> QED BY <1>4, <2>1, <2>2, <2>3 DEF Add
<1>5. CASE SocketReady BY <1>5, CallsOnly DEF SocketReady
<1>6. CASE TimerFires BY <1>6, CallsOnly DEF TimerFires
<1>7. CASE ProcessEnds BY <1>7, CallsOnly DEF ProcessEnds
<1>8. CASE CallbackReturns BY <1>8, CallsOnly DEF CallbackReturns
<1>9. CASE \E q \in Queries, r \in Records : Answer(q, r) \/ AnswerForStopped(q, r)
  BY <1>9, AnswerSafe, AnswerForStoppedSafe
<1> QED BY <1>1, <1>2, <1>3, <1>4, <1>5, <1>6, <1>7, <1>8, <1>9 DEF Next

(* The inductive invariant: it has all that is checked of a state. *)
LEMMA Inductive == Spec => []IInv
BY InitSafe, StepSafe, PTL DEF Spec

(* The variables keep their types: above all, what c-ares was asked for    *)
(* and what was found are among the records that the query is for.         *)
THEOREM QueriesTypeCorrect == Spec => []TypeOK
<1>1. IInv => TypeOK
  <2> SUFFICES ASSUME IInv PROVE TypeOK OBVIOUS
  <2>1. stack \in Seq(Sound) BY DEF IInv, CallsInv, Stacked
  <2>2. Sound \subseteq Calls BY DEF Sound
  <2>3. stack \in Seq(Calls) BY <2>1, <2>2, SeqMonotonic
  <2> QED BY <2>3 DEF IInv, QueriesInv, QueriesTyped, CallsInv, TypeOK
<1> QED BY <1>1, Inductive, PTL

(* No query is lost, freed too early, or answered twice or after an abort, *)
(* and when the loop has control c-ares has a request for each query and   *)
(* its timer, for any number of queries and however calls, callbacks and   *)
(* answers nest.                                                           *)
THEOREM QueriesStayAccounted == Spec => []QueriesAccounted
<1>1. IInv => QueriesAccounted
  <2> SUFFICES ASSUME IInv PROVE QueriesAccounted OBVIOUS
  <2>1. ListIsExact
    BY DEF IInv, QueriesInv, Distinct, NoneLost, ListedAlive, ListIsExact
  <2>2. ASSUME Pc = "loop", dnsengine = "cares", NEW q \in Listed
        PROVE  left[q] # {} /\ timer
    <3>1. stack = <<>> BY <2>2, Innermost DEF IInv
    <3> QED BY <2>2, <3>1 DEF IInv, CallsInv, Working, TimerRuns
  <2>3. RequestsHaveQuery
    BY <2>2 DEF IInv, QueriesInv, RequestsListed, RequestsHaveQuery
  <2> QED BY <2>1, <2>3 DEF IInv, QueriesInv, QueriesAccounted
<1> QED BY <1>1, Inductive, PTL

(* The default engine answers the queries in the order they were asked in. *)
THEOREM AnswersStayInOrder == Spec => AnswersInOrder
<1>1. ASSUME IInv, [Next]_vars
      PROVE  [(Pc = "scan" /\ Pc' = "callback") => list' = Tail(list)]_vars
  <2> SUFFICES ASSUME Next, Pc = "scan", Pc' = "callback" PROVE list' = Tail(list)
    BY <1>1
  <2>1. ~ \E q \in Queries : User(q) BY DEF User, Ask, Abort, UserRuns
  <2>2. ~ Poll BY DEF Poll
  <2>3. ~ ScanEnds BY DEF ScanEnds, Pc
  <2>4. ~ Add BY DEF Add, AskLater, AnswerAtOnce, AddGoesOn, AddToFreed, AddEnds
  <2>5. ~ (SocketReady \/ TimerFires \/ ProcessEnds \/ CallbackReturns)
    BY DEF SocketReady, TimerFires, ProcessEnds, CallbackReturns
  <2>6. ~ \E q \in Queries, r \in Records : Answer(q, r) \/ AnswerForStopped(q, r)
    BY DEF Answer, AnswerForStopped
  <2>7. PICK found \in SUBSET Records : Resolve(found)
    BY <2>1, <2>2, <2>3, <2>4, <2>5, <2>6 DEF Next, Default
  <2> QED BY <1>1, <2>7, ResolveSafe
<1> QED BY <1>1, Inductive, PTL DEF Spec, AnswersInOrder
=============================================================================
