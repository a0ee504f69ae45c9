-------------------------- MODULE IOEngineWaitProofs --------------------------
(***************************************************************************)
(* Proofs about the timeout of the engines, for any length of a second and *)
(* a millisecond, any limit below a second, any set of timers and any work *)
(* of the callbacks: no turn of the loop sleeps longer than the limit, and *)
(* none sleeps a millisecond past the first timer.                         *)
(***************************************************************************)
EXTENDS IOEngineWait, WellFoundedInduction, TLAPS

(* The milliseconds to any time that the model reaches fit in an int. *)
NoOverflow == (MaxTime \div UsecPerSec + 1) * MsecPerSec <= IntMax

LEMMA NatMinimum ==
    ASSUME NEW set \in SUBSET Nat, set # {}
    PROVE  \E m \in set : \A n \in set : m <= n
<1> DEFINE R == OpToRel(<, Nat)
<1>1. IsWellFoundedOn(R, Nat)
  BY NatLessThanWellFounded
<1> HIDE DEF R
<1>2. \E m \in set : \A n \in set : ~ (<<n, m>> \in R)
  BY <1>1, WFMin
<1>3. \A n, m \in Nat : ~ (<<n, m>> \in R) => m <= n
  BY DEF R, OpToRel
<1> QED BY <1>2, <1>3

(* A set of times that is not empty has a smallest one: the head of the    *)
(* timers is well defined.                                                 *)
LEMMA SmallestExists ==
    ASSUME NEW set \in SUBSET Timeval, set # {}
    PROVE  /\ Smallest(set) \in set
           /\ \A y \in set : ~ IsBigger(Smallest(set), y)
<1> DEFINE secs == {tv.sec : tv \in set}
<1>1. secs \in SUBSET Nat /\ secs # {} BY DEF Timeval
<1>2. PICK s \in secs : \A n \in secs : s <= n BY <1>1, NatMinimum
<1> DEFINE usecs == {tv.usec : tv \in {x \in set : x.sec = s}}
<1>3. usecs \in SUBSET Nat /\ usecs # {} BY <1>2 DEF Timeval
<1>4. PICK u \in usecs : \A n \in usecs : u <= n
  <2> HIDE DEF usecs
  <2> QED BY <1>3, NatMinimum
<1>5. PICK x \in set : x.sec = s /\ x.usec = u BY <1>4
<1>6. \A y \in set : ~ IsBigger(x, y)
  BY <1>2, <1>4, <1>5 DEF IsBigger, Timeval
<1> QED BY <1>5, <1>6 DEF Smallest

LEMMA SecondPositive == UsecPerSec \in Nat \ {0}
  BY WaitAssumption DEF UsecPerSec

(* What division leaves. *)
LEMMA DivMod ==
    ASSUME NEW a \in Nat, NEW b \in Nat \ {0}
    PROVE  /\ a \div b \in Nat
           /\ a % b \in 0 .. (b - 1)
           /\ a = (a \div b) * b + (a % b)
  OBVIOUS

LEMMA MultOrder ==
    ASSUME NEW a \in Int, NEW b \in Int, NEW k \in Nat \ {0}
    PROVE  /\ a <= b => a * k <= b * k
           /\ a * k < b * k => a < b
           /\ a * k <= b * k => a <= b
  OBVIOUS

(* gettimeofday() is normalised and loses nothing. *)
LEMMA TimeOfDayNormal ==
    ASSUME NEW t \in Nat
    PROVE  /\ TimeOfDay(t) \in Timeval
           /\ TimeOfDay(t).usec < UsecPerSec
           /\ Micros(TimeOfDay(t)) = t
<1>1. /\ t \div UsecPerSec \in Nat
      /\ t % UsecPerSec \in 0 .. (UsecPerSec - 1)
      /\ t = (t \div UsecPerSec) * UsecPerSec + (t % UsecPerSec)
  BY SecondPositive, DivMod
<1> QED BY <1>1, SecondPositive DEF TimeOfDay, Timeval, Micros

(* The carry of _autoreload_timer() keeps the value and leaves at most     *)
(* 1000000 microseconds, if the interval is less than a second or is       *)
(* normalised.                                                             *)
LEMMA PlusNormal ==
    ASSUME NEW x \in Timeval, NEW y \in Timeval,
           x.usec <= UsecPerSec, y.usec < UsecPerSec
    PROVE  /\ Plus(x, y) \in Timeval
           /\ Plus(x, y).usec <= UsecPerSec
           /\ Micros(Plus(x, y)) = Micros(x) + Micros(y)
<1> DEFINE s == UsecPerSec
           u == x.usec + y.usec
           d == u \div s
           r == u % s
<1>1. /\ s \in Nat \ {0} /\ u \in Nat
      /\ x.sec \in Nat /\ x.usec \in Nat /\ y.sec \in Nat /\ y.usec \in Nat
  BY SecondPositive DEF Timeval
<1>2. d \in Nat /\ r \in 0 .. (s - 1) /\ u = d * s + r
  BY <1>1, DivMod
<1>3. Micros(x) + Micros(y) = x.sec * s + y.sec * s + u
  BY <1>1 DEF Micros
<1>4. CASE u > s
  <2>1. Plus(x, y) = [sec |-> x.sec + y.sec + d, usec |-> r]
    BY <1>4 DEF Plus
  <2> HIDE DEF s, d, r
  <2>2. (x.sec + y.sec + d) * s = x.sec * s + y.sec * s + d * s
    BY <1>1, <1>2
  <2>3. Plus(x, y) \in Timeval /\ Plus(x, y).usec <= s
    BY <1>1, <1>2, <2>1 DEF Timeval
  <2>4. Micros(Plus(x, y)) = (x.sec + y.sec + d) * s + r
    BY <2>1 DEF Micros, s
  <2> QED BY <1>1, <1>2, <1>3, <2>2, <2>3, <2>4 DEF s
<1>5. CASE ~ (u > s)
  <2>1. Plus(x, y) = [sec |-> x.sec + y.sec, usec |-> u]
    BY <1>5 DEF Plus
  <2>2. (x.sec + y.sec) * s = x.sec * s + y.sec * s
    BY <1>1
  <2> QED BY <1>1, <1>3, <1>5, <2>1, <2>2 DEF Timeval, Micros
<1> QED BY <1>4, <1>5

(* A time that is not bigger is not larger in microseconds. *)
LEMMA OrderMicros ==
    ASSUME NEW x \in Timeval, NEW y \in Timeval, ~ IsBigger(x, y),
           x.usec <= UsecPerSec
    PROVE  Micros(x) <= Micros(y)
<1> DEFINE s == UsecPerSec
<1>0. s \in Nat \ {0} BY SecondPositive
<1>1. CASE x.sec = y.sec
  BY <1>0, <1>1 DEF IsBigger, Timeval, Micros
<1>2. CASE x.sec + 1 <= y.sec
  <2>1. (x.sec + 1) * s <= y.sec * s
    BY <1>0, <1>2, MultOrder DEF Timeval
  <2>2. (x.sec + 1) * s = x.sec * s + s
    BY <1>0 DEF Timeval
  <2> QED BY <1>0, <2>1, <2>2 DEF Timeval, Micros
<1> QED BY <1>1, <1>2 DEF IsBigger, Timeval

(* Division in C, within a second: it rounds by less than one, and up only *)
(* below zero.                                                             *)
LEMMA QuotientBounds ==
    ASSUME NEW a \in Int, -UsecPerSec <= a, a <= UsecPerSec
    PROVE  /\ Quotient(a, UsecPerMsec) \in -MsecPerSec .. MsecPerSec
           /\ Quotient(a, UsecPerMsec) * UsecPerMsec < a + UsecPerMsec
           /\ Quotient(a, UsecPerMsec) * UsecPerMsec > a - UsecPerMsec
           /\ a >= 0 => Quotient(a, UsecPerMsec) >= 0
<1> DEFINE k == UsecPerMsec
           m == MsecPerSec
<1>0. k \in Nat \ {0} /\ m \in Nat \ {0} /\ UsecPerSec = m * k
  BY WaitAssumption DEF UsecPerSec
<1>1. CASE a >= 0
  <2> DEFINE q == a \div k
  <2>0. a \in Nat BY <1>1
  <2>1. q \in Nat /\ a % k \in 0 .. (k - 1) /\ a = q * k + (a % k)
    <3> HIDE DEF k
    <3> QED BY <1>0, <2>0, DivMod
  <2>2. q * k <= m * k
    BY <1>0, <2>1
  <2>3. q <= m
    BY <1>0, <2>1, <2>2, MultOrder
  <2> QED BY <1>0, <1>1, <2>1, <2>3 DEF Quotient
<1>2. CASE a < 0
  <2> DEFINE q == (-a) \div k
  <2>0. -a \in Nat BY <1>2
  <2>1. q \in Nat /\ (-a) % k \in 0 .. (k - 1) /\ -a = q * k + ((-a) % k)
    <3> HIDE DEF k
    <3> QED BY <1>0, <2>0, DivMod
  <2>2. q * k <= m * k
    BY <1>0, <2>1
  <2>3. q <= m
    BY <1>0, <2>1, <2>2, MultOrder
  <2>4. (-q) * k = -(q * k)
    BY <1>0, <2>1
  <2> QED BY <1>0, <1>2, <2>1, <2>3, <2>4 DEF Quotient
<1> QED BY <1>1, <1>2

(* A number that fits in an int is not changed by the conversion. *)
LEMMA ToIntFits ==
    ASSUME NEW n \in Int, -IntMax - 1 <= n, n <= IntMax
    PROVE  ToInt(n) = n
<1> DEFINE w == 2 * (IntMax + 1)
           x == n + IntMax + 1
<1>1. w \in Nat \ {0} /\ x \in 0 .. (w - 1)
  BY WaitAssumption
<1>2. x % w = x
  <2> HIDE DEF w, x
  <2> QED BY <1>1
<1> QED BY <1>1, <1>2, WaitAssumption DEF ToInt

(* The other direction of OrderMicros, for a normalised time. *)
LEMMA MicrosOrder ==
    ASSUME NEW x \in Timeval, NEW y \in Timeval, y.usec <= UsecPerSec,
           Micros(x) <= Micros(y),
           Micros(x) = Micros(y) => y.usec < UsecPerSec
    PROVE  ~ IsBigger(x, y)
<1> DEFINE s == UsecPerSec
<1>1. /\ s \in Nat \ {0}
      /\ x.sec \in Nat /\ x.usec \in Nat /\ y.sec \in Nat /\ y.usec \in Nat
      /\ Micros(x) = x.sec * s + x.usec /\ Micros(y) = y.sec * s + y.usec
  BY SecondPositive DEF Timeval, Micros
<1>2. CASE y.sec + 1 <= x.sec
  <2>1. (y.sec + 1) * s <= x.sec * s
    BY <1>1, <1>2, MultOrder
  <2>2. (y.sec + 1) * s = y.sec * s + s
    BY <1>1
  <2>3. y.usec <= s /\ (Micros(x) = Micros(y) => y.usec < s)
    OBVIOUS
  <2> DEFINE p == x.sec * s
             r == y.sec * s
  <2>4. p \in Int /\ r \in Int /\ r + s <= p
    BY <1>1, <2>1, <2>2
  <2>5. Micros(x) = p + x.usec /\ Micros(y) = r + y.usec
    BY <1>1
  <2>6. s \in Nat /\ x.usec \in Nat /\ y.usec \in Nat
    BY <1>1
  <2> DEFINE xu == x.usec
             yu == y.usec
             mx == Micros(x)
             my == Micros(y)
  <2>7. /\ mx = p + xu /\ my = r + yu /\ yu <= s /\ mx <= my
        /\ (mx = my => yu < s) /\ s \in Nat /\ xu \in Nat /\ yu \in Nat
    BY <2>3, <2>5, <2>6
  <2>8. FALSE
    <3> HIDE DEF p, r, s, xu, yu, mx, my
    <3> QED BY <2>4, <2>7
  <2> QED BY <2>8
<1>3. CASE x.sec = y.sec
  BY <1>1, <1>3 DEF IsBigger
<1> QED BY <1>1, <1>2, <1>3 DEF IsBigger

(* What the loop keeps: no listed timer is before the reading in now, and  *)
(* the timeout in wait is the one computed from both.                      *)
WInv ==
    /\ TypeOK
    /\ Micros(now) <= clock
    /\ \A d \in due : Micros(d) < MaxTime
    /\ pc \in {"prepare", "sleep"} => \A d \in due : ~ IsBigger(now, d)
    /\ pc = "sleep" => wait = EngineTimeout

LEMMA LimitIs == Limit = [sec |-> 0, usec |-> LoopMaxTime]
<1> DEFINE s == UsecPerSec
           q == LoopMaxTime \div s
           r == LoopMaxTime % s
<1>1. /\ s \in Nat \ {0} /\ LoopMaxTime \in 0 .. (s - 1)
      /\ q \in Nat /\ r \in 0 .. (s - 1) /\ LoopMaxTime = q * s + r
  <2>1. s \in Nat \ {0} /\ LoopMaxTime \in 0 .. (s - 1) /\ LoopMaxTime \in Nat
    BY SecondPositive, WaitAssumption
  <2> HIDE DEF s
  <2> QED BY <2>1, DivMod
<1>2. q = 0
  <2>1. q >= 1 => 1 * s <= q * s
    BY <1>1, MultOrder
  <2> HIDE DEF s, q, r
  <2> QED BY <1>1, <2>1
<1> QED BY <1>1, <1>2 DEF Limit

LEMMA MsecLimitIs ==
    /\ MsecLimit = LoopMaxTime \div UsecPerMsec
    /\ MsecLimit \in Nat
    /\ MsecLimit * UsecPerMsec <= LoopMaxTime
    /\ MsecLimit * UsecPerMsec > LoopMaxTime - UsecPerMsec
<1> DEFINE k == UsecPerMsec
           q == LoopMaxTime \div k
<1>1. /\ k \in Nat \ {0} /\ LoopMaxTime \in Nat /\ LoopMaxTime <= IntMax
      /\ IntMax \in Nat /\ MsecPerSec \in Nat
  BY WaitAssumption
<1>2. q \in Nat /\ q * k <= LoopMaxTime /\ q * k > LoopMaxTime - k
  <2>1. /\ q \in Nat /\ LoopMaxTime % k \in 0 .. (k - 1)
        /\ LoopMaxTime = q * k + (LoopMaxTime % k)
    <3> HIDE DEF k
    <3> QED BY <1>1, DivMod
  <2> QED BY <1>1, <2>1
<1>3. q <= LoopMaxTime
  <2>1. q * 1 <= q * k
    BY <1>1, <1>2
  <2> QED BY <1>1, <1>2, <2>1
<1>4. Limit.sec * MsecPerSec + Limit.usec \div k = q
  BY <1>1, <1>2, LimitIs
<1>5. MsecLimit = q
  <2>1. ToInt(q) = q
    BY <1>1, <1>2, <1>3, ToIntFits
  <2> QED BY <1>4, <2>1 DEF MsecLimit
<1> QED BY <1>2, <1>5

(* The first timer is not before the reading; the milliseconds to it are   *)
(* not negative, fit in an int, and miss it by less than one.              *)
LEMMA MsecToHeadIs ==
    ASSUME NoOverflow, WInv, pc \in {"prepare", "sleep"}, due # {}
    PROVE  /\ MsecToHead \in Nat
           /\ MsecToHead * UsecPerMsec
                 < Micros(HeadTime) - Micros(now) + UsecPerMsec
           /\ MsecToHead * UsecPerMsec
                 > Micros(HeadTime) - Micros(now) - UsecPerMsec
<1> DEFINE h == HeadTime
           m == MsecPerSec
           k == UsecPerMsec
           s == UsecPerSec
           ds == h.sec - now.sec
           du == h.usec - now.usec
           q == Quotient(du, k)
<1>1. /\ k \in Nat \ {0} /\ m \in Nat \ {0} /\ s \in Nat \ {0} /\ s = m * k
      /\ IntMax \in Nat /\ MaxTime \in Nat
  BY WaitAssumption, SecondPositive DEF UsecPerSec
<1>2. h \in due
  BY SmallestExists DEF WInv, TypeOK, HeadTime
<1>3. /\ h.sec \in Nat /\ h.usec \in Nat /\ h.usec <= s
      /\ now.sec \in Nat /\ now.usec \in Nat /\ now.usec < s
      /\ ~ IsBigger(now, h) /\ Micros(h) < MaxTime
      /\ Micros(h) = h.sec * s + h.usec /\ Micros(now) = now.sec * s + now.usec
  BY <1>2 DEF WInv, TypeOK, Timeval, Micros
<1>4. /\ ds \in Nat /\ ds <= h.sec /\ du \in Int /\ -s <= du /\ du <= s
      /\ ds = 0 => du >= 0
  BY <1>1, <1>3 DEF IsBigger
<1>5. q \in -m .. m /\ q * k < du + k /\ q * k > du - k /\ (du >= 0 => q >= 0)
  BY <1>4, QuotientBounds
<1> HIDE DEF q, du, ds, s, k, m, h
<1>6. ds * m + q \in Nat
  <2>1. CASE ds = 0 BY <1>1, <1>4, <1>5, <2>1
  <2>2. CASE ds >= 1
    <3>1. 1 * m <= ds * m BY <1>1, <1>4, <2>2, MultOrder
    <3> QED BY <1>1, <1>4, <1>5, <3>1
  <2> QED BY <1>4, <2>1, <2>2
<1>7. ds * m \in Nat /\ ds * m + q <= IntMax /\ ds * m <= IntMax
  <2> DEFINE e == MaxTime \div s
  <2>1. e \in Nat /\ MaxTime % s \in 0 .. (s - 1) /\ MaxTime = e * s + (MaxTime % s)
    BY <1>1, DivMod
  <2> HIDE DEF e
  <2>2. h.sec <= e
    <3>1. (e + 1) * s = e * s + s BY <1>1, <2>1
    <3>2. h.sec * s < (e + 1) * s BY <1>1, <1>3, <2>1, <3>1
    <3> QED BY <1>1, <1>3, <2>1, <3>2, MultOrder
  <2>3. ds * m <= e * m
    BY <1>1, <1>3, <1>4, <2>1, <2>2, MultOrder
  <2>4. (e + 1) * m = e * m + m BY <1>1, <2>1
  <2>5. (e + 1) * m <= IntMax BY DEF NoOverflow, e, s, m
  <2> QED BY <1>1, <1>4, <1>5, <2>1, <2>3, <2>4, <2>5
<1>8. MsecToHead = ds * m + q
  <2>1. ToInt(ds * m) = ds * m
    BY <1>1, <1>7, ToIntFits
  <2>2. ToInt(ds * m + q) = ds * m + q
    BY <1>1, <1>6, <1>7, ToIntFits
  <2> QED BY <2>1, <2>2 DEF MsecToHead, MsecBetween, ds, du, q, m, k, h
<1>9. (ds * m + q) * k = ds * s + q * k
  BY <1>1, <1>4, <1>5
<1>10. ds * s = h.sec * s - now.sec * s
  BY <1>1, <1>3 DEF ds
<1>11. ds * s + du = Micros(h) - Micros(now)
  BY <1>1, <1>3, <1>10 DEF du
<1>12. /\ MsecToHead * k < Micros(h) - Micros(now) + k
       /\ MsecToHead * k > Micros(h) - Micros(now) - k
  BY <1>1, <1>4, <1>5, <1>8, <1>9, <1>11
<1> QED BY <1>6, <1>8, <1>12 DEF h, k

(* The difference of two times with one borrow. *)
LEMMA TimeToHeadIs ==
    ASSUME WInv, pc \in {"prepare", "sleep"}, due # {}
    PROVE  /\ TimeToHead \in Timeval
           /\ Micros(TimeToHead) = Micros(HeadTime) - Micros(now)
<1> DEFINE h == HeadTime
           s == UsecPerSec
<1>1. h \in due
  BY SmallestExists DEF WInv, TypeOK, HeadTime
<1>2. /\ s \in Nat \ {0}
      /\ h.sec \in Nat /\ h.usec \in Nat /\ h.usec <= s
      /\ now.sec \in Nat /\ now.usec \in Nat /\ now.usec < s
      /\ ~ IsBigger(now, h)
  BY <1>1, SecondPositive DEF WInv, TypeOK, Timeval
<1>3. /\ (h.sec - now.sec) * s = h.sec * s - now.sec * s
      /\ (h.sec - now.sec - 1) * s = h.sec * s - now.sec * s - s
  BY <1>2
<1>4. CASE h.usec - now.usec < 0
  <2>1. TimeToHead = [sec |-> h.sec - now.sec - 1,
                      usec |-> h.usec - now.usec + s]
    BY <1>4 DEF TimeToHead
  <2>2. h.sec >= now.sec + 1
    BY <1>2, <1>4 DEF IsBigger
  <2>3. TimeToHead \in Timeval
    <3>1. h.sec - now.sec - 1 \in Nat
      BY <1>2, <2>2
    <3>2. h.usec - now.usec + s \in Nat
      <4> HIDE DEF s
      <4> QED BY <1>2
    <3> QED BY <2>1, <3>1, <3>2 DEF Timeval
  <2>4. Micros(TimeToHead) = (h.sec - now.sec - 1) * s + (h.usec - now.usec + s)
    BY <2>1 DEF Micros
  <2>5. Micros(h) = h.sec * s + h.usec /\ Micros(now) = now.sec * s + now.usec
    BY DEF Micros
  <2> DEFINE a == h.sec * s
             b == now.sec * s
             e == (h.sec - now.sec - 1) * s
  <2>6. a \in Int /\ b \in Int /\ e = a - b - s
    BY <1>2, <1>3
  <2>7. /\ Micros(TimeToHead) = e + (h.usec - now.usec + s)
        /\ Micros(h) = a + h.usec /\ Micros(now) = b + now.usec
    BY <2>4, <2>5
  <2> HIDE DEF a, b, e, s, h
  <2>8. Micros(TimeToHead) = Micros(h) - Micros(now)
    BY <1>2, <2>6, <2>7
  <2> QED BY <2>3, <2>8 DEF h
<1>5. CASE ~ (h.usec - now.usec < 0)
  <2>1. TimeToHead = [sec |-> h.sec - now.sec, usec |-> h.usec - now.usec]
    BY <1>5 DEF TimeToHead
  <2>2. h.sec >= now.sec
    BY <1>2 DEF IsBigger
  <2>3. TimeToHead \in Timeval
    BY <1>2, <1>5, <2>1, <2>2 DEF Timeval
  <2>4. Micros(TimeToHead) = (h.sec - now.sec) * s + (h.usec - now.usec)
    BY <2>1 DEF Micros
  <2>5. Micros(h) = h.sec * s + h.usec /\ Micros(now) = now.sec * s + now.usec
    BY DEF Micros
  <2> DEFINE a == h.sec * s
             b == now.sec * s
             e == (h.sec - now.sec) * s
  <2>6. a \in Int /\ b \in Int /\ e = a - b
    BY <1>2, <1>3
  <2>7. /\ Micros(TimeToHead) = e + (h.usec - now.usec)
        /\ Micros(h) = a + h.usec /\ Micros(now) = b + now.usec
    BY <2>4, <2>5
  <2> HIDE DEF a, b, e, s, h
  <2>8. Micros(TimeToHead) = Micros(h) - Micros(now)
    BY <1>2, <2>6, <2>7
  <2> QED BY <2>3, <2>8 DEF h
<1> QED BY <1>4, <1>5

(* The variable tout is the smaller of the limit and the distance.         *)
LEMMA ToutIs ==
    ASSUME WInv, pc \in {"prepare", "sleep"}
    PROVE  /\ Tout.sec = 0 /\ Tout.usec \in 0 .. LoopMaxTime
           /\ Tout.usec = LoopMaxTime \/ (due # {} /\ Tout.usec = Distance)
           /\ due # {} => Tout.usec <= Distance
<1>1. /\ LoopMaxTime \in Nat /\ Limit = [sec |-> 0, usec |-> LoopMaxTime]
      /\ Limit \in Timeval /\ Limit.usec <= UsecPerSec
  BY LimitIs, SecondPositive, WaitAssumption DEF Timeval
<1>2. CASE due = {}
  BY <1>1, <1>2 DEF Tout
<1>3. CASE due # {}
  <2>1. TimeToHead \in Timeval /\ Micros(TimeToHead) = Distance
    BY <1>3, TimeToHeadIs DEF Distance
  <2>2. CASE IsSmaler(Limit, TimeToHead)
    <3>1. ~ IsBigger(Limit, TimeToHead)
      BY <1>1, <2>1, <2>2 DEF IsSmaler, IsBigger, Timeval
    <3>2. Micros(Limit) <= Distance /\ Micros(Limit) = LoopMaxTime
      BY <1>1, <2>1, <3>1, OrderMicros, SecondPositive DEF Micros
    <3> QED BY <1>1, <1>3, <2>2, <3>2 DEF Tout
  <2>3. CASE ~ IsSmaler(Limit, TimeToHead)
    <3>1. TimeToHead.sec = 0 /\ TimeToHead.usec \in 0 .. LoopMaxTime
      BY <1>1, <2>1, <2>3 DEF IsSmaler, Timeval
    <3>2. Distance = TimeToHead.usec
      BY <2>1, <3>1, SecondPositive DEF Micros
    <3> QED BY <1>3, <2>3, <3>1, <3>2 DEF Tout
  <2> QED BY <2>2, <2>3
<1> QED BY <1>2, <1>3

(* A number divided and rounded up is not larger than it was. *)
LEMMA RoundedUp ==
    ASSUME NEW u \in Nat, NEW n \in Nat \ {0}
    PROVE  (u + n - 1) \div n \in 0 .. u
<1> DEFINE a == u + n - 1
           q == a \div n
<1>1. a \in Nat
  OBVIOUS
<1>2. q \in Nat /\ a % n \in 0 .. (n - 1) /\ a = q * n + (a % n)
  <2> HIDE DEF a
  <2> QED BY <1>1, DivMod
<1>3. CASE u + 1 <= q
  <2>1. (u + 1) * n <= q * n
    BY <1>2, <1>3, MultOrder
  <2>2. (u + 1) * n = u * n + n /\ u * 1 <= u * n
    BY MultOrder
  <2> DEFINE p == q * n
             t == u * n
  <2>3. /\ p \in Int /\ t \in Int /\ p <= u + n - 1
        /\ t + n <= p /\ u <= t
    BY <1>1, <1>2, <2>1, <2>2
  <2> HIDE DEF p, t
  <2> QED BY <2>3
<1> QED BY <1>2, <1>3

(* The timeout that the invariant says wait holds is within the limit, and *)
(* less than a millisecond past the first timer; but for kevent it is less *)
(* than a millisecond before the smaller of both.                          *)
LEMMA TimeoutBounds ==
    ASSUME NoOverflow, WInv, pc \in {"prepare", "sleep"}
    PROVE  /\ EngineTimeout \in 0 .. LoopMaxTime
           /\ due # {} => EngineTimeout < Distance + UsecPerMsec
           /\ engine # "kevent" =>
                  \/ EngineTimeout > LoopMaxTime - UsecPerMsec
                  \/ due # {} /\ EngineTimeout > Distance - UsecPerMsec
<1> DEFINE k == UsecPerMsec
<1>1. k \in Nat \ {0} /\ LoopMaxTime \in Nat
  BY WaitAssumption
<1>2. due # {} => Distance \in Int
  BY SmallestExists, SecondPositive
  DEF WInv, TypeOK, HeadTime, Micros, Timeval, Distance
<1>3. CASE engine = "epoll"
  <2> DEFINE l == MsecLimit * k
             h == MsecToHead * k
  <2>1. EngineTimeout = EpollWait
    BY <1>3 DEF EngineTimeout
  <2>2. MsecLimit \in Nat /\ l \in 0 .. LoopMaxTime /\ l > LoopMaxTime - k
    BY <1>1, MsecLimitIs
  <2>3. due # {} => /\ MsecToHead \in Nat /\ h \in Nat
                    /\ h < Distance + k /\ h > Distance - k
    BY <1>1, MsecToHeadIs DEF Distance
  <2>4. CASE due = {}
    <3>1. EngineTimeout = l
      BY <2>1, <2>2, <2>4 DEF EpollWait
    <3> QED BY <2>2, <2>4, <3>1
  <2>5. CASE due # {} /\ MsecLimit < MsecToHead
    <3>1. EngineTimeout = l
      BY <2>1, <2>2, <2>5 DEF EpollWait
    <3>2. l <= h
      BY <1>1, <2>2, <2>3, <2>5, MultOrder
    <3> HIDE DEF k, l, h
    <3>3. EngineTimeout < Distance + k
      BY <1>1, <1>2, <2>2, <2>3, <2>5, <3>1, <3>2
    <3> QED BY <2>2, <3>1, <3>3 DEF k
  <2>6. CASE due # {} /\ ~ (MsecLimit < MsecToHead)
    <3>1. EngineTimeout = h
      BY <2>1, <2>3, <2>6 DEF EpollWait
    <3>2. h <= l
      BY <1>1, <2>2, <2>3, <2>6, MultOrder
    <3> HIDE DEF k, l, h
    <3>3. EngineTimeout \in 0 .. LoopMaxTime
      BY <1>1, <2>2, <2>3, <2>6, <3>1, <3>2
    <3> QED BY <2>3, <2>6, <3>1, <3>3 DEF k
  <2> QED BY <2>4, <2>5, <2>6
<1>4. CASE engine = "select"
  <2>1. EngineTimeout = Tout.usec
    BY <1>4, ToutIs, SecondPositive DEF EngineTimeout, SelectWait, Micros
  <2> QED BY <1>1, <1>2, <2>1, ToutIs
<1>5. CASE engine = "kevent"
  <2>1. EngineTimeout = (Tout.usec + NsecPerUsec - 1) \div NsecPerUsec
    <3>1. (Tout.usec + NsecPerUsec - 1) \div NsecPerUsec \in Int
      BY <1>1, ToutIs, RoundedUp, WaitAssumption
    <3>2. Tout.sec * UsecPerSec = 0
      BY ToutIs, SecondPositive
    <3> QED BY <1>5, <3>1, <3>2 DEF EngineTimeout, KeventWait
  <2>2. Tout.usec \in Nat /\ EngineTimeout \in 0 .. Tout.usec
    BY <1>1, <2>1, ToutIs, RoundedUp, WaitAssumption
  <2> QED BY <1>1, <1>2, <1>5, <2>2, ToutIs
<1> QED BY <1>3, <1>4, <1>5 DEF WInv, TypeOK

(* A check keeps what the loop needs: after it no timer is before now. *)
LEMMA TriggerKeeps ==
    ASSUME WInv, NEW w \in 0 .. MaxWork, Trigger(TimeOfDay(clock), w),
           now' = TimeOfDay(clock)
    PROVE  /\ clock' \in clock .. MaxTime
           /\ due' \subseteq due
           /\ Micros(now') <= clock'
           /\ now' \in Timeval /\ now'.usec < UsecPerSec
           /\ \A d \in due' : ~ IsBigger(now', d)
<1>1. clock \in Nat /\ clock <= MaxTime /\ MaxTime \in Nat /\ MaxWork \in Nat
  BY WaitAssumption DEF WInv, TypeOK
<1>2. /\ now' \in Timeval /\ now'.usec < UsecPerSec /\ Micros(now') = clock
  BY <1>1, TimeOfDayNormal
<1>3. CASE HeadIsPast(TimeOfDay(clock))
  <2>1. /\ clock' = Later(clock, w)
        /\ due' = {d \in due : IsBigger(d, TimeOfDay(clock'))}
    BY <1>3 DEF Trigger
  <2>2. clock' \in clock .. MaxTime
    BY <1>1, <2>1 DEF Later
  <2>3. /\ TimeOfDay(clock') \in Timeval /\ TimeOfDay(clock').usec < UsecPerSec
        /\ Micros(TimeOfDay(clock')) = clock'
    BY <1>1, <2>2, TimeOfDayNormal
  <2>4. ~ IsBigger(now', TimeOfDay(clock'))
    <3>1. Micros(now') <= Micros(TimeOfDay(clock'))
      BY <1>1, <1>2, <2>2, <2>3
    <3>2. TimeOfDay(clock').usec <= UsecPerSec
      BY <2>3, SecondPositive DEF Timeval
    <3> QED BY <1>2, <2>3, <3>1, <3>2, MicrosOrder
  <2>5. \A d \in due' : ~ IsBigger(now', d)
    BY <1>2, <2>1, <2>3, <2>4 DEF IsBigger, Timeval, WInv, TypeOK
  <2> QED BY <1>1, <1>2, <2>1, <2>2, <2>5
<1>4. CASE ~ HeadIsPast(TimeOfDay(clock))
  <2>1. clock' = clock /\ due' = due
    BY <1>4 DEF Trigger
  <2>2. \A d \in due : ~ IsBigger(now', d)
    <3> SUFFICES ASSUME NEW d \in due PROVE ~ IsBigger(now', d)
      OBVIOUS
    <3>1. HeadTime \in Timeval /\ ~ IsBigger(HeadTime, d) /\ d \in Timeval
      BY SmallestExists DEF HeadTime, WInv, TypeOK
    <3>2. ~ IsBigger(now', HeadTime)
      BY <1>4 DEF HeadIsPast
    <3> QED BY <1>2, <3>1, <3>2 DEF IsBigger, Timeval
  <2> QED BY <1>1, <1>2, <2>1, <2>2
<1> QED BY <1>3, <1>4

LEMMA InitWInv == Init => WInv
<1> SUFFICES ASSUME Init PROVE WInv
  OBVIOUS
<1>1. /\ TimeOfDay(0) \in Timeval /\ TimeOfDay(0).usec < UsecPerSec
      /\ Micros(TimeOfDay(0)) = 0
  BY TimeOfDayNormal
<1> QED BY <1>1, WaitAssumption DEF Init, WInv, TypeOK

(* Every step of the loop keeps the invariant. *)
LEMMA NextWInv ==
    ASSUME NoOverflow
    PROVE  WInv /\ [Next]_vars => WInv'
<1> SUFFICES ASSUME WInv, [Next]_vars PROVE WInv'
  OBVIOUS
<1>1. TypeOK /\ clock \in Nat /\ clock <= MaxTime /\ MaxTime \in Nat
  BY WaitAssumption DEF WInv, TypeOK
<1>2. /\ Micros(now) \in Nat /\ Micros(now) <= clock
  BY <1>1, SecondPositive DEF WInv, TypeOK, Timeval, Micros
<1>3. ASSUME NEW i \in Intervals, Arm(i) PROVE WInv'
  <2> DEFINE d == Plus(TimeOfDay(clock), TimeOfDay(i))
  <2>1. /\ i \in Nat
        /\ TimeOfDay(clock) \in Timeval /\ TimeOfDay(clock).usec < UsecPerSec
        /\ TimeOfDay(i) \in Timeval /\ TimeOfDay(i).usec < UsecPerSec
        /\ Micros(TimeOfDay(clock)) = clock /\ Micros(TimeOfDay(i)) = i
    BY <1>1, TimeOfDayNormal, WaitAssumption
  <2>2. /\ d \in Timeval /\ d.usec <= UsecPerSec /\ Micros(d) = clock + i
    <3>1. TimeOfDay(clock).usec <= UsecPerSec
      BY <2>1, SecondPositive DEF Timeval
    <3> QED BY <2>1, <3>1, PlusNormal
  <2>3. ~ IsBigger(now, d)
    <3>1. CASE i = 0
      <4>1. d = TimeOfDay(clock)
        <5>1. TimeOfDay(0) = [sec |-> 0, usec |-> 0]
          BY TimeOfDayNormal, SecondPositive DEF TimeOfDay, Timeval, Micros
        <5> QED BY <2>1, <3>1, <5>1, SecondPositive DEF Plus, Timeval, TimeOfDay
      <4>2. d.usec < UsecPerSec /\ Micros(now) <= Micros(d)
        BY <1>2, <2>1, <4>1
      <4> HIDE DEF d
      <4> QED BY <1>1, <2>2, <4>2, MicrosOrder DEF TypeOK
    <3>2. CASE i # 0
      <4>1. Micros(now) < Micros(d)
        BY <1>1, <1>2, <2>1, <2>2, <3>2
      <4>2. Micros(now) <= Micros(d) /\ Micros(now) # Micros(d)
        BY <1>1, <1>2, <2>1, <2>2, <4>1
      <4> HIDE DEF d
      <4> QED BY <1>1, <2>2, <4>2, MicrosOrder DEF TypeOK
    <3> QED BY <3>1, <3>2
  <2> HIDE DEF d
  <2>4. /\ due' = due \cup {d} /\ clock + i < MaxTime
        /\ pc' = pc /\ pc # "sleep" /\ UNCHANGED <<engine, clock, now, wait>>
    BY <1>3 DEF Arm, d
  <2> QED BY <1>1, <2>2, <2>3, <2>4 DEF WInv, TypeOK
<1>4. ASSUME NEW w \in 0 .. MaxWork, Check(w) PROVE WInv'
  <2>1. /\ clock' \in clock .. MaxTime /\ due' \subseteq due
        /\ Micros(now') <= clock'
        /\ now' \in Timeval /\ now'.usec < UsecPerSec
        /\ \A d \in due' : ~ IsBigger(now', d)
    BY <1>4, TriggerKeeps DEF Check
  <2>2. pc' = "prepare" /\ UNCHANGED <<engine, wait>>
    BY <1>4 DEF Check
  <2> QED BY <1>1, <2>1, <2>2 DEF WInv, TypeOK
<1>5. ASSUME NEW w \in 0 .. MaxWork, Recheck(w) PROVE WInv'
  <2>1. /\ clock' \in clock .. MaxTime /\ due' \subseteq due
    BY <1>1, <1>5, WaitAssumption DEF Recheck, Trigger, Later
  <2>2. /\ now' \in Timeval /\ now'.usec < UsecPerSec
        /\ Micros(now') \in Nat /\ Micros(now') <= clock
    <3>1. CASE engine = "select"
      BY <1>1, <1>2, <1>5, <3>1 DEF Recheck, TypeOK, Micros
    <3>2. CASE engine # "select"
      BY <1>1, <1>5, <3>2, TimeOfDayNormal DEF Recheck
    <3> QED BY <3>1, <3>2
  <2>3. Micros(now') <= clock'
    BY <1>1, <2>1, <2>2
  <2> QED BY <1>1, <1>5, <2>1, <2>2, <2>3 DEF Recheck, WInv, TypeOK
<1>6. CASE Prepare
  <2>1. EngineTimeout' = EngineTimeout
    BY <1>6 DEF Prepare, EngineTimeout, EpollWait, SelectWait, KeventWait,
                Tout, MsecToHead, TimeToHead, HeadTime
  <2>2. EngineTimeout \in Int
    BY <1>6, TimeoutBounds, WaitAssumption DEF Prepare
  <2> QED BY <1>1, <1>6, <2>1, <2>2 DEF Prepare, WInv, TypeOK
<1>7. CASE SleepTimesOut \/ \E d \in 0 .. LoopMaxTime : SleepInterrupted(d)
  <2>1. pc = "sleep" /\ wait \in Nat /\ LoopMaxTime \in Nat
    BY <1>7, TimeoutBounds, WaitAssumption
    DEF SleepTimesOut, SleepInterrupted, Wake, WInv
  <2>2. PICK d \in Nat : Wake(d)
    BY <1>7, <2>1 DEF SleepTimesOut, SleepInterrupted
  <2>3. clock' \in clock .. MaxTime
    BY <1>1, <2>2 DEF Wake, Later
  <2>4. pc' = "dispatch" /\ UNCHANGED <<engine, due, wait>>
    BY <2>2 DEF Wake
  <2>5. /\ now' \in Timeval /\ now'.usec < UsecPerSec
        /\ Micros(now') \in Nat /\ Micros(now') <= clock'
    <3>1. CASE engine = "select"
      BY <1>1, <2>2, <2>3, <3>1, TimeOfDayNormal DEF Wake
    <3>2. CASE engine # "select"
      <4>1. now' = now BY <2>2, <3>2 DEF Wake
      <4> QED BY <1>1, <1>2, <2>3, <4>1 DEF TypeOK
    <3> QED BY <3>1, <3>2
  <2> QED BY <1>1, <2>3, <2>4, <2>5 DEF WInv, TypeOK
<1>8. CASE CallFails \/ DispatchEnds \/ DispatchCutShort
  BY <1>8 DEF CallFails, DispatchEnds, DispatchCutShort, WInv, TypeOK
<1>9. CASE Tick
  BY <1>1, <1>2, <1>9 DEF Tick, WInv, TypeOK
<1>10. CASE UNCHANGED vars
  BY <1>10 DEF vars, WInv, TypeOK, EngineTimeout, EpollWait, SelectWait,
               KeventWait, Tout, MsecToHead, TimeToHead, HeadTime
<1> QED BY <1>3, <1>4, <1>5, <1>6, <1>7, <1>8, <1>9, <1>10 DEF Next, Loop

(* If the time to every timer fits in an int of milliseconds, no turn of   *)
(* the loop sleeps longer than IOHANDLER_LOOP_MAXTIME, whichever engine    *)
(* runs it: epoll with its milliseconds, select with tout, kevent with     *)
(* tout read as a number of nanoseconds.                                   *)
THEOREM LoopMaxTimeHolds ==
    ASSUME NoOverflow
    PROVE  Spec => []SleepsAtMostLoopMaxTime
<1>1. WInv => SleepsAtMostLoopMaxTime
  BY TimeoutBounds DEF WInv, SleepsAtMostLoopMaxTime
<1> QED BY InitWInv, NextWInv, <1>1, PTL DEF Spec

(* Under the same condition, an engine sleeps past the due time of a timer *)
(* by less than a millisecond and the time its own first check took; and   *)
(* epoll and select wake less than a millisecond before the earlier of     *)
(* that time and the limit.                                                *)
THEOREM WakeUpInTime ==
    ASSUME NoOverflow
    PROVE  Spec => []WakesInTimeUnlessKevent
<1>1. WInv => WakesInTimeUnlessKevent
  <2> SUFFICES ASSUME WInv, pc = "sleep"
               PROVE  WakesInTimeUnlessKevent
    BY DEF WakesInTimeUnlessKevent
  <2>1. wait = EngineTimeout
    BY DEF WInv
  <2>2. due # {} => clock + wait < Micros(HeadTime) + Spent + UsecPerMsec
    <3> SUFFICES ASSUME due # {}
                 PROVE  clock + wait < Micros(HeadTime) + Spent + UsecPerMsec
      OBVIOUS
    <3>1. wait < Micros(HeadTime) - Micros(now) + UsecPerMsec /\ wait \in Int
      BY <2>1, TimeoutBounds DEF WInv, TypeOK, Distance
    <3>2. /\ Micros(HeadTime) \in Int /\ Micros(now) \in Int /\ clock \in Int
          /\ UsecPerMsec \in Int
      BY SmallestExists, SecondPositive, WaitAssumption
      DEF WInv, TypeOK, HeadTime, Micros, Timeval
    <3> QED BY <3>1, <3>2 DEF Spent
  <2> QED BY <2>1, <2>2, TimeoutBounds DEF WakesInTimeUnlessKevent
<1> QED BY InitWInv, NextWInv, <1>1, PTL DEF Spec

(* Under the same condition: the clock readings and due times of the model *)
(* are times as gettimeofday() and the timers write them.                  *)
THEOREM WaitTypeCorrect ==
    ASSUME NoOverflow
    PROVE  Spec => []TypeOK
<1>1. WInv => TypeOK
  BY DEF WInv
<1> QED BY InitWInv, NextWInv, <1>1, PTL DEF Spec
=============================================================================
