--------------------- MODULE ProbeDataCollector_proofs ---------------------
(***************************************************************************)
(* NoUseAfterDelete, for every number of probes and all their periods: the *)
(* destructor goes on to the probes only when its thread has ended, or     *)
(* was never needed, and a thread that has ended does not come back.       *)
(*                                                                         *)
(* Then the arithmetic of the periods: that gcd returns the greatest       *)
(* common divisor, and that no probe is ever updated if the periods have a *)
(* common divisor of Tolerance or more.                                    *)
(***************************************************************************)
EXTENDS ProbeDataCollector, FoldTheorems

\* Who has a thread; when probes are deleted, and that the thread is gone
\* by then; and that update is called on a probe.
CollectorInv ==
  /\ owner \in Owners /\ thread \in ThreadPCs
  /\ probe \in [Probes -> {"idle", "measuring", "deleted"}]
  /\ thread = "none" <=> ~NeedThread
  /\ owner \in {"delete", "deleted"} => thread \in {"none", "ended"}
  /\ (\E p \in Probes : probe[p] = "deleted") =>
       owner \in {"delete", "deleted"}
  /\ thread = "in_update" => index \in Probes

\* The thread is there from the start, if it is needed.
LEMMA CollectorInit == Init => CollectorInv
  BY DEF Init, CollectorInv, Owners, ThreadPCs

\* The calls of the owner. None but the wait for the end of the thread leads
\* to the probes if there is a thread.
LEMMA OwnerStep ==
  ASSUME CollectorInv, Measure \/ BeginDestroy \/ Destruct
  PROVE  CollectorInv'
  <1> USE DEF CollectorInv, Owners, ThreadPCs, threadVars, Begin, AfterLoop
  <1>1. CASE BeginStart \/ BeginStop \/ BeginCancel \/ BeginDestroy
    BY <1>1 DEF BeginStart, BeginStop, BeginCancel, BeginDestroy
  <1>2. CASE StartProbe \/ StopProbe
    BY <1>2 DEF StartProbe, StopProbe, Visit
  <1>3. CASE StartDone \/ StopDone \/ CancelDone
    BY <1>3 DEF StartDone, StopDone, CancelDone
  <1>4. CASE Destroy
    BY <1>4 DEF Destroy
  <1>5. CASE SignalCond \/ KillThread
    BY <1>5 DEF SignalCond, KillThread
  <1>6. CASE JoinThread
    BY <1>6 DEF JoinThread
  <1>7. CASE DeleteProbe
    BY <1>7 DEF DeleteProbe, Visit
  <1>8. CASE DeleteDone
    BY <1>8 DEF DeleteDone
  <1> QED
    BY <1>1, <1>2, <1>3, <1>4, <1>5, <1>6, <1>7, <1>8 DEF Measure, Destruct

\* The thread moves on from where it is, and from its end nowhere.
LEMMA ThreadStep ==
  ASSUME CollectorInv, Thread \/ SpuriousWakeup
  PROVE  CollectorInv'
  <1> USE DEF CollectorInv, ThreadPCs, ownerVars, Step
  <1>1. CASE \/ Setup \/ While \/ Test1 \/ Test2 \/ Slept \/ Updated
             \/ ProbesDone \/ SpuriousWakeup
    BY <1>1
    DEF Setup, While, Test1, Test2, Slept, Updated, ProbesDone, SpuriousWakeup
  <1>2. CASE NextProbe
    BY <1>2 DEF NextProbe
  <1>3. CASE Alarm
    BY <1>3 DEF Alarm
  <1> QED
    BY <1>1, <1>2, <1>3 DEF Thread

\* CollectorInv is inductive.
THEOREM CollectorInvariant == Spec => []CollectorInv
  <1>1. CollectorInv /\ [Next]_vars => CollectorInv'
    <2> SUFFICES ASSUME CollectorInv, [Next]_vars PROVE CollectorInv'
      OBVIOUS
    <2>1. CASE Next
      BY <2>1, OwnerStep, ThreadStep DEF Next
    <2>2. CASE UNCHANGED vars
      BY <2>2 DEF vars, ownerVars, threadVars, CollectorInv
    <2> QED
      BY <2>1, <2>2
  <1> QED
    BY <1>1, CollectorInit, PTL DEF Spec

\* The thread of the collector is gone before the first probe is deleted:
\* the destructors never close a library that update is running in.
THEOREM ThreadGone == Spec => []NoUseAfterDelete
  <1>1. CollectorInv => NoUseAfterDelete
    BY DEF CollectorInv, NoUseAfterDelete
  <1> QED
    BY <1>1, CollectorInvariant, PTL
-----------------------------------------------------------------------------
(* Euclid's algorithm.                                                     *)

Pos == Nat \ {0}

\* One call of gcd, and functions that do it for a second number up to n.
Euclid(f, b, a) == IF a % b = 0 THEN b ELSE f[a % b][b]
EuclidUpTo(f, n) ==
  /\ f \in [Pos -> [Pos -> Pos]]
  /\ \A b \in Pos : b <= n => \A a \in Pos : f[b][a] = Euclid(f, b, a)

\* What a division returns.
LEMMA Division ==
  ASSUME NEW a \in Nat, NEW b \in Pos
  PROVE  /\ a % b \in Nat /\ a % b < b
         /\ a \div b \in Nat /\ a = b * (a \div b) + (a % b)
         /\ a % b # 0 => a % b \in Pos
  <1>1. a % b \in 0 .. b - 1
    BY DEF Pos
  <1>2. a \div b \in Nat
    BY DEF Pos
  <1>3. a = b * (a \div b) + (a % b)
    BY DEF Pos
  <1>4. a % b \in Nat /\ a % b < b
    <2> DEFINE r == a % b
    <2>1. r \in 0 .. b - 1 /\ b \in Nat
      BY <1>1 DEF Pos
    <2> HIDE DEF r
    <2>2. r \in Nat /\ r < b
      BY <2>1
    <2> QED
      BY <2>2 DEF r
  <1> QED
    BY <1>2, <1>3, <1>4 DEF Pos

\* There are such functions, for every n.
LEMMA EuclidBounded == \A n \in Nat : \E f : EuclidUpTo(f, n)
  <1> DEFINE T == {n \in Nat : \E f : EuclidUpTo(f, n)}
  <1>1. 0 \in T
    <2> DEFINE f == [b \in Pos |-> [a \in Pos |-> 1]]
    <2>1. f \in [Pos -> [Pos -> Pos]]
      BY DEF Pos
    <2>2. \A b \in Pos : ~(b <= 0)
      BY DEF Pos
    <2> HIDE DEF f
    <2>3. EuclidUpTo(f, 0)
      BY <2>1, <2>2 DEF EuclidUpTo
    <2> QED
      BY <2>3
  <1>2. ASSUME NEW n \in Nat, n \in T
        PROVE  n + 1 \in T
    <2>1. PICK f : EuclidUpTo(f, n)
      BY <1>2
    <2> DEFINE m == n + 1
               last == [a \in Pos |-> Euclid(f, m, a)]
               h == [f EXCEPT ![m] = last]
    <2>2. f \in [Pos -> [Pos -> Pos]] /\ m \in Pos
      BY <2>1 DEF EuclidUpTo, Pos
    <2>3. ASSUME NEW a \in Pos
          PROVE  Euclid(f, m, a) \in Pos
      <3> DEFINE r == a % m
      <3>1. r # 0 => r \in Pos
        BY <2>2, Division DEF Pos
      <3> HIDE DEF r, m
      <3>2. r # 0 => f[r][m] \in Pos
        BY <2>2, <3>1
      <3> QED
        BY <2>2, <3>2 DEF Euclid, r
    <2>4. last \in [Pos -> Pos]
      BY <2>3
    <2>5. h \in [Pos -> [Pos -> Pos]] /\ h[m] = last
          /\ \A b \in Pos : b # m => h[b] = f[b]
      <3> HIDE DEF last, m
      <3> QED
        BY <2>2, <2>4
    <2>6. \A a \in Pos : last[a] = Euclid(f, m, a)
      OBVIOUS
    <2>7. \A b \in Pos : b <= m => b = m \/ b <= n
      BY DEF Pos
    <2>8. ~(m <= n)
      OBVIOUS
    <2> HIDE DEF h, last
    <2>9. ASSUME NEW b \in Pos, b <= m, NEW a \in Pos
          PROVE  h[b][a] = Euclid(h, b, a)
      <3>1. h[b][a] = Euclid(f, b, a)
        <4>1. CASE b = m
          BY <2>5, <2>6, <4>1
        <4>2. CASE b # m /\ b <= n
          <5>1. h[b][a] = f[b][a]
            BY <2>5, <4>2
          <5> QED
            BY <2>1, <4>2, <5>1 DEF EuclidUpTo
        <4> HIDE DEF m
        <4> QED
          BY <2>7, <2>8, <2>9, <4>1, <4>2
      <3> DEFINE r == a % b
      <3>2. r # 0 => r \in Pos /\ r < b
        BY Division DEF Pos
      <3> HIDE DEF r
      <3>3. r # 0 => r # m
        BY <2>9, <3>2 DEF Pos
      <3>4. r # 0 => h[r][b] = f[r][b]
        <4> HIDE DEF m
        <4> QED
          BY <2>5, <3>2, <3>3
      <3> QED
        BY <3>1, <3>4 DEF Euclid, r
    <2>10. EuclidUpTo(h, m)
      <3> HIDE DEF m
      <3> QED
        BY <2>5, <2>9 DEF EuclidUpTo
    <2> QED
      BY <2>10
  <1> HIDE DEF T
  <1>3. Nat \subseteq T
    BY <1>1, <1>2, Induction
  <1> QED
    BY <1>3 DEF T

\* They agree on the numbers that both are for.
LEMMA EuclidAgrees ==
  ASSUME NEW m \in Nat, NEW n \in Nat, NEW f, EuclidUpTo(f, m),
         NEW h, EuclidUpTo(h, n), m <= n
  PROVE  \A b \in Pos : b <= m => \A a \in Pos : f[b][a] = h[b][a]
  <1> DEFINE T == {k \in 0 .. m : \A b \in Pos : b <= k =>
                                    \A a \in Pos : f[b][a] = h[b][a]}
  <1>1. 0 \in T
    BY DEF Pos
  <1>2. ASSUME NEW k \in 1 .. m, k - 1 \in T
        PROVE  k \in T
    <2>1. k \in 0 .. m /\ k <= n
      OBVIOUS
    <2>2. ASSUME NEW b \in Pos, b <= k, NEW a \in Pos
          PROVE  f[b][a] = h[b][a]
      <3>1. b <= m /\ b <= n
        BY <2>1, <2>2 DEF Pos
      <3>2. f[b][a] = Euclid(f, b, a) /\ h[b][a] = Euclid(h, b, a)
        BY <3>1 DEF EuclidUpTo
      <3> DEFINE r == a % b
      <3>3. r # 0 => r \in Pos /\ r < b
        BY Division DEF Pos
      <3> HIDE DEF r
      <3>4. r # 0 => r <= k - 1
        BY <2>2, <3>3 DEF Pos
      <3>5. r # 0 => f[r][b] = h[r][b]
        BY <1>2, <3>3, <3>4
      <3> QED
        BY <3>2, <3>5 DEF Euclid, r
    <2> QED
      BY <2>1, <2>2
  <1>3. 0 .. m \subseteq T
    <2> HIDE DEF T
    <2> QED
      BY <1>1, <1>2, UpTo
  <1>4. m \in T
    BY <1>3
  <1> QED
    BY <1>4

\* gcd does it for all numbers: each from the function for its second number.
LEMMA gcdIsEuclid == \A a, b \in Pos : gcd[b][a] = Euclid(gcd, b, a)
  <1> DEFINE Line(f, b) == [a \in Pos |-> Euclid(f, b, a)]
             Is(f) == f = [b \in Pos |-> Line(f, b)]
             F(n) == CHOOSE f : EuclidUpTo(f, n)
             lim == [b \in Pos |-> F(b)[b]]
  <1>1. gcd = CHOOSE f : Is(f)
    BY Zenon DEF gcd, Euclid, Pos
  <1>2. \A n \in Nat : EuclidUpTo(F(n), n)
    BY EuclidBounded
  <1>3. \A b \in Pos : b \in Nat /\ b <= b
    BY DEF Pos
  <1> HIDE DEF F
  <1>4. \A b \in Pos : lim[b] = F(b)[b] /\ F(b)[b] \in [Pos -> Pos]
    BY <1>2, <1>3 DEF EuclidUpTo
  <1>5. lim \in [Pos -> [Pos -> Pos]]
    BY <1>4
  <1> HIDE DEF lim
  <1>6. ASSUME NEW b \in Pos, NEW a \in Pos
        PROVE  lim[b][a] = Euclid(lim, b, a)
    <2>1. F(b)[b][a] = Euclid(F(b), b, a)
      BY <1>2, <1>3 DEF EuclidUpTo
    <2> DEFINE r == a % b
    <2>2. r # 0 => r \in Pos /\ r < b
      BY Division DEF Pos
    <2> HIDE DEF r
    <2>3. r # 0 => F(r)[r][b] = F(b)[r][b]
      <3> SUFFICES ASSUME r # 0
                   PROVE  F(r)[r][b] = F(b)[r][b]
        OBVIOUS
      <3>1. EuclidUpTo(F(r), r) /\ EuclidUpTo(F(b), b)
        BY <1>2, <1>3, <2>2
      <3>2. r \in Nat /\ b \in Nat /\ r <= b /\ r <= r
        BY <2>2, <1>3
      <3>3. \A c \in Pos : c <= r => \A d \in Pos : F(r)[c][d] = F(b)[c][d]
        BY <3>1, <3>2, EuclidAgrees
      <3> QED
        BY <2>2, <3>2, <3>3
    <2>4. r # 0 => lim[r] = F(r)[r]
      BY <1>4, <2>2
    <2>5. lim[b] = F(b)[b]
      BY <1>4
    <2> QED
      BY <2>1, <2>3, <2>4, <2>5 DEF Euclid, r
  <1>7. Is(lim)
    <2>1. ASSUME NEW b \in Pos
          PROVE  lim[b] = Line(lim, b)
      <3>1. lim[b] \in [Pos -> Pos]
        BY <1>5
      <3>2. \A a \in Pos : lim[b][a] = Euclid(lim, b, a)
        BY <1>6
      <3> QED
        BY <3>1, <3>2
    <2> HIDE DEF Line
    <2> QED
      BY <1>5, <2>1
  <1>8. Is(gcd)
    <2> HIDE DEF Is
    <2> QED
      BY <1>1, <1>7
  <1>9. ASSUME NEW b \in Pos
        PROVE  gcd[b] = Line(gcd, b)
    <2> HIDE DEF Line
    <2> QED
      BY <1>8
  <1> QED
    BY <1>9
-----------------------------------------------------------------------------
(* Divisors.                                                               *)

\* d is a divisor of n.
Divides(d, n) == \E k \in Nat : n = k * d

\* So it is of sums, of products and of what it divides divides.
LEMMA DividesSum ==
  ASSUME NEW d \in Pos, NEW m \in Nat, NEW n \in Nat, Divides(d, m), Divides(d, n)
  PROVE  Divides(d, m + n)
  <1>1. PICK j \in Nat : m = j * d
    BY DEF Divides
  <1>2. PICK k \in Nat : n = k * d
    BY DEF Divides
  <1>3. m + n = (j + k) * d
    BY <1>1, <1>2 DEF Pos
  <1> QED
    BY <1>3 DEF Divides

LEMMA DividesProduct ==
  ASSUME NEW d \in Pos, NEW m \in Nat, NEW n \in Nat, Divides(d, m) \/ Divides(d, n)
  PROVE  Divides(d, m * n)
  <1>1. CASE Divides(d, m)
    <2>1. PICK j \in Nat : m = j * d
      BY <1>1 DEF Divides
    <2>2. m * n = (j * n) * d /\ j * n \in Nat
      BY <2>1 DEF Pos
    <2> QED
      BY <2>2 DEF Divides
  <1>2. CASE Divides(d, n)
    <2>1. PICK j \in Nat : n = j * d
      BY <1>2 DEF Divides
    <2>2. m * n = (m * j) * d /\ m * j \in Nat
      BY <2>1 DEF Pos
    <2> QED
      BY <2>2 DEF Divides
  <1> QED
    BY <1>1, <1>2

LEMMA DividesThrough ==
  ASSUME NEW d \in Pos, NEW e \in Pos, NEW n \in Nat, Divides(d, e), Divides(e, n)
  PROVE  Divides(d, n)
  <1>1. PICK j \in Nat : e = j * d
    BY DEF Divides
  <1>2. PICK k \in Nat : n = k * e
    BY DEF Divides
  <1>3. n = (k * j) * d /\ k * j \in Nat
    BY <1>1, <1>2 DEF Pos
  <1> QED
    BY <1>3 DEF Divides

\* A divisor of both numbers divides what the division leaves.
LEMMA DividesRemainder ==
  ASSUME NEW d \in Pos, NEW n \in Nat, NEW m \in Pos, Divides(d, n), Divides(d, m)
  PROVE  Divides(d, n % m)
  <1>1. PICK j \in Nat : n = j * d
    BY DEF Divides
  <1>2. PICK k \in Nat : m = k * d
    BY DEF Divides
  <1> DEFINE q == n \div m
             r == n % m
  <1>3. q \in Nat /\ r \in Nat /\ n = m * q + r
    BY Division DEF Pos
  <1> HIDE DEF q, r
  <1>4. r = j * d - (k * d) * q
    BY <1>1, <1>2, <1>3 DEF Pos
  <1>5. r = (j - k * q) * d
    <2> DEFINE kq == k * q
    <2>1. kq \in Nat /\ (k * d) * q = kq * d
      BY <1>3 DEF Pos
    <2> HIDE DEF kq
    <2>2. r = j * d - kq * d
      BY <1>4, <2>1
    <2>3. r = (j - kq) * d
      BY <2>1, <2>2 DEF Pos
    <2> QED
      BY <2>3 DEF kq
  <1>6. j - k * q \in Nat
    <2> DEFINE x == j - k * q
    <2>1. x \in Int
      BY <1>3
    <2> HIDE DEF x
    <2>2. r = x * d
      BY <1>5 DEF x
    <2>3. x < 0 => x * d < 0
      BY <2>1 DEF Pos
    <2>4. ~(x < 0)
      BY <1>3, <2>2, <2>3
    <2>5. x \in Nat
      BY <2>1, <2>4
    <2> QED
      BY <2>5 DEF x
  <1>7. Divides(d, r)
    BY <1>5, <1>6 DEF Divides
  <1> QED
    BY <1>7 DEF r

\* gcd returns the greatest common divisor: each common divisor divides it.
GreatestDivisor(g, a, b) ==
  /\ g \in Pos /\ Divides(g, a) /\ Divides(g, b)
  /\ \A d \in Pos : Divides(d, a) /\ Divides(d, b) => Divides(d, g)

\* One call of gcd, if the call in it returns the greatest common divisor.
LEMMA EuclidStep ==
  ASSUME NEW a \in Pos, NEW b \in Pos,
         a % b # 0 => GreatestDivisor(gcd[a % b][b], b, a % b)
  PROVE  GreatestDivisor(gcd[b][a], a, b)
  <1> DEFINE r == a % b
             q == a \div b
  <1>1. /\ q \in Nat /\ r \in Nat /\ r < b /\ a = b * q + r
        /\ r # 0 => r \in Pos
    BY Division DEF Pos
  <1>2. gcd[b][a] = IF r = 0 THEN b ELSE gcd[r][b]
    BY gcdIsEuclid DEF Euclid
  <1>3. \A d \in Pos : Divides(d, a) /\ Divides(d, b) => Divides(d, r)
    BY DividesRemainder DEF Pos
  <1>4. r # 0 => GreatestDivisor(gcd[r][b], b, r)
    OBVIOUS
  <1> HIDE DEF r, q
  <1>5. CASE r = 0
    <2>1. a = q * b
      <3>1. a = b * q
        BY <1>1, <1>5 DEF Pos
      <3>2. b * q = q * b
        BY <1>1 DEF Pos
      <3> QED
        BY <3>1, <3>2
    <2>2. b = 1 * b
      BY DEF Pos
    <2>3. Divides(b, a) /\ Divides(b, b)
      BY <1>1, <2>1, <2>2 DEF Divides
    <2> QED
      BY <1>2, <1>5, <2>3 DEF GreatestDivisor
  <1>6. CASE r # 0
    <2> DEFINE g == gcd[r][b]
    <2>1. /\ g \in Pos /\ Divides(g, b) /\ Divides(g, r)
          /\ \A d \in Pos : Divides(d, b) /\ Divides(d, r) => Divides(d, g)
      BY <1>4, <1>6 DEF GreatestDivisor
    <2> HIDE DEF g
    <2>2. b \in Nat /\ b * q \in Nat
      BY <1>1 DEF Pos
    <2>3. Divides(g, b * q)
      BY <1>1, <2>1, <2>2, DividesProduct
    <2>4. Divides(g, b * q + r)
      BY <1>1, <2>1, <2>2, <2>3, DividesSum
    <2>5. gcd[b][a] = g
      BY <1>2, <1>6 DEF g
    <2> QED
      BY <1>1, <1>3, <2>1, <2>4, <2>5 DEF GreatestDivisor
  <1> QED
    BY <1>5, <1>6

\* gcd returns the greatest common divisor, for all numbers: in each
\* recursive call the second number is less.
THEOREM gcdIsGreatest ==
  ASSUME NEW a \in Pos, NEW b \in Pos
  PROVE  GreatestDivisor(gcd[b][a], a, b)
  <1> DEFINE T == {n \in Nat : \A y \in Pos : y <= n =>
                     \A x \in Pos : GreatestDivisor(gcd[y][x], x, y)}
  <1>1. 0 \in T
    BY DEF Pos
  <1>2. ASSUME NEW n \in Nat, n \in T
        PROVE  n + 1 \in T
    <2>1. ASSUME NEW y \in Pos, y <= n + 1, NEW x \in Pos
          PROVE  GreatestDivisor(gcd[y][x], x, y)
      <3>1. x % y # 0 => x % y \in Pos /\ x % y <= n
        <4> DEFINE r == x % y
        <4>1. r \in Nat /\ r < y
          BY Division DEF Pos
        <4> HIDE DEF r
        <4>2. r # 0 => r \in Pos /\ r <= n
          BY <2>1, <4>1 DEF Pos
        <4> QED
          BY <4>2 DEF r
      <3>2. x % y # 0 => GreatestDivisor(gcd[x % y][y], y, x % y)
        BY <1>2, <3>1
      <3> QED
        BY <3>2, EuclidStep
    <2> QED
      BY <2>1
  <1> HIDE DEF T
  <1>3. Nat \subseteq T
    BY <1>1, <1>2, Induction
  <1>4. b \in T /\ b <= b
    BY <1>3 DEF Pos
  <1> QED
    BY <1>4 DEF T
-----------------------------------------------------------------------------
(* The period of the thread, and the modulus of its time.                  *)

\* The steps of MinPeriod.
LEMMA MinPeriodSteps ==
  \E acc \in [0 .. Len(Periods) -> Nat] :
    /\ acc[0] = 0 /\ acc[Len(Periods)] = MinPeriod
    /\ \A p \in Probes : acc[p] = CommonPeriod(acc[p - 1], Periods[p])
  <1> DEFINE n == Len(Periods)
             S == Nat
             Taken(x, p) == CommonPeriod(x, Periods[p])
             g == [p \in 1 .. n |-> [x \in S |-> Taken(x, p)]]
             base == 0
             Is(iter) == iter = [s \in SUBSET (1 .. n) |-> IF s = {} THEN base
                                   ELSE Taken(iter[s \ {Max(s)}], Max(s))]
             iter == CHOOSE iter : Is(iter)
  <1>1. MinPeriod = iter[1 .. n]
    <2>1. DOMAIN Periods = 1 .. n
      BY PeriodsAssumption
    <2> QED
      BY <2>1, Zenon DEF MinPeriod, FoldLeft, MapThenFoldSet
  <1>2. n \in Nat /\ Probes = 1 .. n
    BY PeriodsAssumption DEF Probes
  <1>3. ASSUME NEW x \in S, NEW p \in 1 .. n
        PROVE  Taken(x, p) \in S
    <2>1. Periods[p] \in Nat
      BY PeriodsAssumption, <1>2 DEF Probes
    <2>2. x # 0 /\ Periods[p] # 0 => gcd[Periods[p]][x] \in Nat
      BY <2>1, gcdIsGreatest DEF GreatestDivisor, Pos
    <2> QED
      BY <2>1, <2>2 DEF CommonPeriod
  <1>4. base \in S
    OBVIOUS
  <1> HIDE DEF n, Taken, base, S
  <1>5. Is(iter) /\ g \in [1 .. n -> [S -> S]]
    <2>1. g \in [1 .. n -> [S -> S]]
      BY <1>3
    <2>2. PICK f : FoldsBy(f, n, S, base, g)
      <3> HIDE DEF g
      <3> QED
        BY <1>2, <1>4, <2>1, FoldFunctionExists
    <2>3. ASSUME NEW s \in SUBSET (1 .. n), s # {}
          PROVE  g[Max(s)][f[s \ {Max(s)}]] = Taken(f[s \ {Max(s)}], Max(s))
      <3>1. Max(s) \in 1 .. n /\ f[s \ {Max(s)}] \in S
        BY <1>2, <2>2, <2>3, MaxOfPart DEF FoldsBy
      <3> QED
        BY <3>1
    <2>4. Is(f)
      <3> HIDE DEF g
      <3> QED
        BY <2>2, <2>3 DEF FoldsBy
    <2> HIDE DEF Is
    <2> QED
      BY <2>1, <2>4
  <1>6. FoldsWithin(iter, n, S, base, g)
    <2> HIDE DEF iter
    <2>1. iter[{}] = base
      BY <1>5
    <2>2. ASSUME NEW s \in SUBSET (1 .. n), s # {},
                 iter[s \ {Max(s)}] \in S
          PROVE  iter[s] = g[Max(s)][iter[s \ {Max(s)}]]
      <3>1. Max(s) \in 1 .. n
        BY <1>2, <2>2, MaxOfPart
      <3>2. iter[s] = Taken(iter[s \ {Max(s)}], Max(s))
        BY <1>5, <2>2
      <3> QED
        BY <2>2, <3>1, <3>2
    <2> HIDE DEF g
    <2> QED
      BY <2>1, <2>2 DEF FoldsWithin
  <1> HIDE DEF iter
  <1>7. PICK acc : RecursBy(acc, n, S, base, g) /\ acc[n] = iter[1 .. n]
    <2> HIDE DEF g, Is
    <2> QED
      BY <1>2, <1>4, <1>5, <1>6, FoldRecurs
  <1>8. acc \in [0 .. n -> S] /\ acc[0] = base
    BY <1>7 DEF RecursBy
  <1>9. ASSUME NEW p \in 1 .. n
        PROVE  acc[p] = Taken(acc[p - 1], p)
    <2>1. acc[p - 1] \in S
      BY <1>2, <1>8
    <2>2. acc[p] = g[p][acc[p - 1]]
      BY <1>7 DEF RecursBy
    <2> QED
      BY <2>1, <2>2
  <1>10. /\ acc \in [0 .. Len(Periods) -> Nat]
         /\ acc[0] = 0 /\ acc[Len(Periods)] = MinPeriod
    BY <1>1, <1>7, <1>8 DEF n, S, base
  <1>11. \A p \in Probes : acc[p] = CommonPeriod(acc[p - 1], Periods[p])
    BY <1>2, <1>9 DEF Taken
  <1> QED
    BY <1>10, <1>11

\* The steps of Cycle.
LEMMA CycleSteps ==
  \E acc \in [0 .. Len(Periods) -> Pos] :
    /\ acc[0] = 1 /\ acc[Len(Periods)] = Cycle
    /\ \A p \in Probes : acc[p] = TimesPeriod(acc[p - 1], Periods[p])
  <1> DEFINE n == Len(Periods)
             S == Pos
             Taken(x, p) == TimesPeriod(x, Periods[p])
             g == [p \in 1 .. n |-> [x \in S |-> Taken(x, p)]]
             base == 1
             Is(iter) == iter = [s \in SUBSET (1 .. n) |-> IF s = {} THEN base
                                   ELSE Taken(iter[s \ {Max(s)}], Max(s))]
             iter == CHOOSE iter : Is(iter)
  <1>1. Cycle = iter[1 .. n]
    <2>1. DOMAIN Periods = 1 .. n
      BY PeriodsAssumption
    <2> QED
      BY <2>1, Zenon DEF Cycle, FoldLeft, MapThenFoldSet
  <1>2. n \in Nat /\ Probes = 1 .. n
    BY PeriodsAssumption DEF Probes
  <1>3. ASSUME NEW x \in S, NEW p \in 1 .. n
        PROVE  Taken(x, p) \in S
    <2>1. Periods[p] \in Nat
      BY PeriodsAssumption, <1>2 DEF Probes
    <2>2. Periods[p] # 0 => x * Periods[p] \in Pos
      BY <2>1 DEF Pos
    <2> QED
      BY <2>2 DEF TimesPeriod
  <1>4. base \in S
    BY DEF Pos
  <1> HIDE DEF n, Taken, base, S
  <1>5. Is(iter) /\ g \in [1 .. n -> [S -> S]]
    <2>1. g \in [1 .. n -> [S -> S]]
      BY <1>3
    <2>2. PICK f : FoldsBy(f, n, S, base, g)
      <3> HIDE DEF g
      <3> QED
        BY <1>2, <1>4, <2>1, FoldFunctionExists
    <2>3. ASSUME NEW s \in SUBSET (1 .. n), s # {}
          PROVE  g[Max(s)][f[s \ {Max(s)}]] = Taken(f[s \ {Max(s)}], Max(s))
      <3>1. Max(s) \in 1 .. n /\ f[s \ {Max(s)}] \in S
        BY <1>2, <2>2, <2>3, MaxOfPart DEF FoldsBy
      <3> QED
        BY <3>1
    <2>4. Is(f)
      <3> HIDE DEF g
      <3> QED
        BY <2>2, <2>3 DEF FoldsBy
    <2> HIDE DEF Is
    <2> QED
      BY <2>1, <2>4
  <1>6. FoldsWithin(iter, n, S, base, g)
    <2> HIDE DEF iter
    <2>1. iter[{}] = base
      BY <1>5
    <2>2. ASSUME NEW s \in SUBSET (1 .. n), s # {},
                 iter[s \ {Max(s)}] \in S
          PROVE  iter[s] = g[Max(s)][iter[s \ {Max(s)}]]
      <3>1. Max(s) \in 1 .. n
        BY <1>2, <2>2, MaxOfPart
      <3>2. iter[s] = Taken(iter[s \ {Max(s)}], Max(s))
        BY <1>5, <2>2
      <3> QED
        BY <2>2, <3>1, <3>2
    <2> HIDE DEF g
    <2> QED
      BY <2>1, <2>2 DEF FoldsWithin
  <1> HIDE DEF iter
  <1>7. PICK acc : RecursBy(acc, n, S, base, g) /\ acc[n] = iter[1 .. n]
    <2> HIDE DEF g, Is
    <2> QED
      BY <1>2, <1>4, <1>5, <1>6, FoldRecurs
  <1>8. acc \in [0 .. n -> S] /\ acc[0] = base
    BY <1>7 DEF RecursBy
  <1>9. ASSUME NEW p \in 1 .. n
        PROVE  acc[p] = Taken(acc[p - 1], p)
    <2>1. acc[p - 1] \in S
      BY <1>2, <1>8
    <2>2. acc[p] = g[p][acc[p - 1]]
      BY <1>7 DEF RecursBy
    <2> QED
      BY <2>1, <2>2
  <1>10. /\ acc \in [0 .. Len(Periods) -> Pos]
         /\ acc[0] = 1 /\ acc[Len(Periods)] = Cycle
    BY <1>1, <1>7, <1>8 DEF n, S, base
  <1>11. \A p \in Probes : acc[p] = TimesPeriod(acc[p - 1], Periods[p])
    BY <1>2, <1>9 DEF Taken
  <1> QED
    BY <1>10, <1>11

\* A number that divides all the periods.
Common(d) == d \in Pos /\ \A p \in Probes : Divides(d, Periods[p])

\* With one more period: the greatest common divisor of both, if there are two.
LEMMA CommonPeriodDivides ==
  ASSUME NEW min \in Nat, NEW period \in Nat
  PROVE  LET new == CommonPeriod(min, period)
         IN  /\ new \in Nat
             /\ min # 0 \/ period # 0 => new \in Pos
             /\ min # 0 => Divides(new, min)
             /\ period # 0 => Divides(new, period)
             /\ \A d \in Pos : Divides(d, min) /\ Divides(d, period)
                                 => Divides(d, new)
  <1> DEFINE new == CommonPeriod(min, period)
  <1>1. \A x \in Nat : x = 1 * x
    OBVIOUS
  <1>2. \A x \in Nat : Divides(x, x)
    BY <1>1 DEF Divides
  <1>3. CASE period = 0
    BY <1>2, <1>3 DEF CommonPeriod, Pos
  <1>4. CASE period # 0 /\ min = 0
    BY <1>2, <1>4 DEF CommonPeriod, Pos
  <1>5. CASE period # 0 /\ min # 0
    <2>1. new = gcd[period][min] /\ min \in Pos /\ period \in Pos
      BY <1>5 DEF CommonPeriod, Pos
    <2> HIDE DEF new
    <2>2. GreatestDivisor(new, min, period)
      BY <2>1, gcdIsGreatest
    <2>3. new \in Pos /\ new \in Nat
      BY <2>2 DEF GreatestDivisor, Pos
    <2>4. Divides(new, min) /\ Divides(new, period)
      BY <2>2 DEF GreatestDivisor
    <2>5. \A d \in Pos : Divides(d, min) /\ Divides(d, period)
                           => Divides(d, new)
      BY <2>2 DEF GreatestDivisor
    <2> QED
      BY <2>3, <2>4, <2>5 DEF new
  <1> QED
    BY <1>3, <1>4, <1>5

\* The loop of the constructor computes the greatest common divisor of all
\* the periods that are not 0, if there are some.
THEOREM MinPeriodIsGreatest ==
  /\ MinPeriod \in Nat
  /\ NeedThread => MinPeriod \in Pos
  /\ \A p \in Periodic : Divides(MinPeriod, Periods[p])
  /\ \A d : Common(d) => Divides(d, MinPeriod)
  <1>1. PICK acc \in [0 .. Len(Periods) -> Nat] :
          /\ acc[0] = 0 /\ acc[Len(Periods)] = MinPeriod
          /\ \A p \in Probes : acc[p] = CommonPeriod(acc[p - 1], Periods[p])
    BY MinPeriodSteps
  <1> DEFINE n == Len(Periods)
             Greatest(k) ==
               /\ \A p \in Periodic : p <= k => /\ acc[k] \in Pos
                                                /\ Divides(acc[k], Periods[p])
               /\ \A d : Common(d) => Divides(d, acc[k])
             T == {k \in 0 .. n : Greatest(k)}
  <1>2. n \in Nat /\ Probes = 1 .. n /\ \A p \in Probes : Periods[p] \in Nat
    BY PeriodsAssumption DEF Probes
  <1>3. acc \in [0 .. n -> Nat] /\ acc[n] = MinPeriod
    BY <1>1
  <1> HIDE DEF n
  <1>4. Greatest(0)
    <2>1. \A p \in Periodic : ~(p <= 0)
      BY <1>2 DEF Periodic
    <2>2. \A d : Common(d) => 0 = 0 * d
      BY DEF Common, Pos
    <2>3. \A d : Common(d) => Divides(d, 0)
      BY <2>2 DEF Divides
    <2> QED
      BY <1>1, <2>1, <2>3
  <1>5. ASSUME NEW k \in 1 .. n, Greatest(k - 1)
        PROVE  Greatest(k)
    <2> DEFINE old == acc[k - 1]
               new == acc[k]
               period == Periods[k]
    <2>1. old \in Nat /\ period \in Nat /\ new = CommonPeriod(old, period)
      BY <1>1, <1>2, <1>3
    <2>2. /\ new \in Nat
          /\ old # 0 \/ period # 0 => new \in Pos
          /\ old # 0 => Divides(new, old)
          /\ period # 0 => Divides(new, period)
          /\ \A d \in Pos : Divides(d, old) /\ Divides(d, period)
                              => Divides(d, new)
      <3> HIDE DEF old, new, period
      <3> QED
        BY <2>1, CommonPeriodDivides
    <2>3. ASSUME NEW p \in Periodic, p <= k
          PROVE  new \in Pos /\ Divides(new, Periods[p])
      <3>1. p \in 1 .. n /\ Periods[p] # 0 /\ Periods[p] \in Nat
        BY <1>2 DEF Periodic
      <3>2. CASE p = k
        BY <2>2, <3>1, <3>2
      <3>3. CASE p # k
        <4>1. p <= k - 1
          BY <2>3, <3>1, <3>3
        <4>2. old \in Pos /\ Divides(old, Periods[p])
          BY <1>5, <4>1
        <4> HIDE DEF old, new, period
        <4>3. new \in Pos /\ Divides(new, old)
          BY <2>2, <4>2 DEF Pos
        <4> QED
          BY <3>1, <4>2, <4>3, DividesThrough
      <3> QED
        BY <3>2, <3>3
    <2>4. ASSUME NEW d, Common(d)
          PROVE  Divides(d, new)
      <3>1. d \in Pos /\ Divides(d, period) /\ Divides(d, old)
        BY <1>2, <1>5, <2>4 DEF Common
      <3> HIDE DEF old, new, period
      <3> QED
        BY <2>2, <3>1
    <2> QED
      BY <2>3, <2>4
  <1>6. 0 \in T
    BY <1>2, <1>4
  <1>7. ASSUME NEW k \in 1 .. n, k - 1 \in T
        PROVE  k \in T
    <2> HIDE DEF Greatest
    <2> QED
      BY <1>2, <1>5, <1>7
  <1>8. 0 .. n \subseteq T
    <2> HIDE DEF T
    <2> QED
      BY <1>2, <1>6, <1>7, UpTo
  <1>9. Greatest(n)
    <2>1. n \in T
      BY <1>2, <1>8
    <2> QED
      BY <2>1
  <1>10. \A p \in Periodic : p <= n
    BY <1>2 DEF Periodic
  <1>11. MinPeriod \in Nat
    BY <1>2, <1>3
  <1>12. NeedThread => MinPeriod \in Pos
    BY <1>3, <1>9, <1>10 DEF NeedThread
  <1> QED
    BY <1>3, <1>9, <1>10, <1>11, <1>12

\* It divides the modulus too, if there is a periodic probe.
LEMMA CycleDivided ==
  ASSUME NEW d, Common(d), NeedThread
  PROVE  Cycle \in Pos /\ Divides(d, Cycle)
  <1>1. PICK acc \in [0 .. Len(Periods) -> Pos] :
          /\ acc[0] = 1 /\ acc[Len(Periods)] = Cycle
          /\ \A p \in Probes : acc[p] = TimesPeriod(acc[p - 1], Periods[p])
    BY CycleSteps
  <1>2. PICK q \in Probes : Periods[q] # 0
    BY DEF NeedThread, Periodic
  <1> DEFINE n == Len(Periods)
             T == {k \in 0 .. n : k >= q => Divides(d, acc[k])}
  <1>3. n \in Nat /\ Probes = 1 .. n /\ \A p \in Probes : Periods[p] \in Nat
    BY PeriodsAssumption DEF Probes
  <1> HIDE DEF n
  <1>4. 0 \in T
    BY <1>3
  <1>5. ASSUME NEW k \in 1 .. n, k - 1 \in T
        PROVE  k \in T
    <2> SUFFICES ASSUME k >= q
                 PROVE  Divides(d, acc[k])
      OBVIOUS
    <2>1. k \in Probes /\ acc[k - 1] \in Nat /\ d \in Pos /\ Periods[k] \in Nat
      <3>1. k \in Probes /\ k - 1 \in 0 .. n /\ Periods[k] \in Nat
        BY <1>3
      <3>2. acc[k - 1] \in Nat
        BY <1>1, <3>1 DEF n, Pos
      <3> QED
        BY <3>1, <3>2 DEF Common
    <2>2. acc[k] = TimesPeriod(acc[k - 1], Periods[k])
      BY <1>1, <2>1
    <2>3. CASE Periods[k] = 0
      <3>1. k # q /\ k - 1 >= q
        BY <1>2, <1>3, <2>3
      <3> QED
        BY <1>5, <2>2, <2>3, <3>1 DEF TimesPeriod
    <2>4. CASE Periods[k] # 0
      <3>1. Divides(d, Periods[k])
        BY <2>1 DEF Common
      <3>2. Divides(d, acc[k - 1] * Periods[k])
        BY <2>1, <3>1, DividesProduct
      <3> QED
        BY <2>2, <2>4, <3>2 DEF TimesPeriod
    <2> QED
      BY <2>3, <2>4
  <1>6. 0 .. n \subseteq T
    <2> HIDE DEF T
    <2> QED
      BY <1>3, <1>4, <1>5, UpTo
  <1>7. Divides(d, acc[n])
    BY <1>3, <1>6
  <1> QED
    BY <1>1, <1>3, <1>7 DEF n

\* Multiples of a d of at least Tolerance are never within Tolerance.
LEMMA NeverDue ==
  ASSUME NEW d, Common(d), d >= Tolerance, NEW p \in Periodic,
         elapsed \in Nat, Divides(d, elapsed)
  PROVE  ~Due(p)
  <1> DEFINE P == Periods[p]
             r == elapsed % P
  <1>1. P \in Pos /\ Divides(d, P) /\ d \in Pos
    BY PeriodsAssumption DEF Periodic, Probes, Common, Pos
  <1>2. r \in Nat /\ r < P
    <2> HIDE DEF P
    <2> QED
      BY <1>1, Division
  <1>3. Divides(d, r)
    <2> HIDE DEF P
    <2> QED
      BY <1>1, DividesRemainder
  <1> HIDE DEF P, r
  <1>4. PICK j \in Nat : r = j * d
    BY <1>3 DEF Divides
  <1>5. PICK k \in Nat : P = k * d
    BY <1>1 DEF Divides
  <1>6. j < k
    <2>1. j >= k => j * d >= k * d
      <3> SUFFICES ASSUME j >= k
                   PROVE  j * d >= k * d
        OBVIOUS
      <3>1. j - k \in Nat /\ (j - k) * d \in Nat
        BY <1>1 DEF Pos
      <3>2. (j - k) * d = j * d - k * d
        BY <1>1 DEF Pos
      <3>3. j * d \in Nat /\ k * d \in Nat
        BY <1>1 DEF Pos
      <3> QED
        BY <3>1, <3>2, <3>3
    <2> QED
      BY <1>1, <1>2, <1>4, <1>5, <2>1 DEF Pos
  <1>7. P - r >= d
    <2>1. k - j - 1 \in Nat
      BY <1>6
    <2>2. (k - j - 1) * d \in Nat
      BY <1>1, <2>1 DEF Pos
    <2>3. (k - j - 1) * d = (k * d) - (j * d) - d
      BY <1>1 DEF Pos
    <2> QED
      BY <1>1, <1>2, <1>4, <1>5, <2>2, <2>3 DEF Pos
  <1>8. ~(0 - Tolerance < r - P)
    BY <1>1, <1>2, <1>7 DEF Pos, Tolerance
  <1> QED
    BY <1>8 DEF Due, r, P
-----------------------------------------------------------------------------
(* Periods with a common divisor of at least Tolerance.                    *)

\* No probe is being updated.
NoUpdate == thread # "in_update"

\* elapsedTime stays a multiple of d.
MultipleInv(d) == NoUpdate /\ elapsed \in Nat /\ Divides(d, elapsed)

\* It is at the start.
LEMMA MultipleInit ==
  ASSUME NEW d, Common(d), Init
  PROVE  MultipleInv(d)
  <1>1. 0 = 0 * d
    BY DEF Common, Pos
  <1> QED
    BY <1>1 DEF Init, MultipleInv, NoUpdate, Divides

\* Each pass adds the period of the thread, modulo Cycle; both are multiples.
LEMMA MultipleStep ==
  ASSUME NEW d, Common(d), d >= Tolerance, CollectorInv, MultipleInv(d),
         [Next]_vars
  PROVE  MultipleInv(d)'
  <1>1. elapsed \in Nat /\ Divides(d, elapsed) /\ thread # "in_update"
    BY DEF MultipleInv, NoUpdate
  <1>2. SUFFICES /\ thread' # "in_update"
                 /\ elapsed' \in Nat /\ Divides(d, elapsed')
    BY DEF MultipleInv, NoUpdate, Divides
  <1> USE <1>1 DEF threadVars, Begin, AfterLoop, Step
  <1>3. CASE Measure \/ BeginDestroy
    BY <1>3 DEF Measure, BeginStart, BeginStop, BeginCancel, BeginDestroy,
       StartProbe, StopProbe, StartDone, StopDone, CancelDone, Visit
  <1>4. CASE Destruct
    BY <1>4 DEF Destruct, Destroy, SignalCond, KillThread, JoinThread,
       DeleteProbe, DeleteDone, Visit
  <1>5. CASE \/ Setup \/ While \/ Test1 \/ Test2 \/ Updated \/ ProbesDone
             \/ Alarm \/ SpuriousWakeup
    BY <1>5 DEF Setup, While, Test1, Test2, Updated, ProbesDone, Alarm,
       SpuriousWakeup
  <1>6. CASE Slept
    <2>1. NeedThread
      BY <1>6 DEF Slept, CollectorInv
    <2>2. MinPeriod \in Nat /\ Divides(d, MinPeriod)
      BY MinPeriodIsGreatest
    <2>3. Cycle \in Pos /\ Divides(d, Cycle) /\ d \in Pos
      BY <2>1, CycleDivided DEF Common
    <2> DEFINE t == elapsed + MinPeriod
    <2>4. t \in Nat /\ Divides(d, t)
      BY <2>2, <2>3, DividesSum
    <2>5. elapsed' = t % Cycle /\ thread' = "probes"
      BY <1>6 DEF Slept
    <2> HIDE DEF t
    <2>6. t % Cycle \in Nat /\ Divides(d, t % Cycle)
      BY <2>3, <2>4, Division, DividesRemainder
    <2> QED
      BY <2>5, <2>6
  <1>7. CASE NextProbe
    <2>1. \A p \in Periodic : ~Due(p)
      BY NeverDue
    <2>2. thread' = "probes" /\ elapsed' = elapsed
      BY <1>7, <2>1 DEF NextProbe
    <2> QED
      BY <2>2
  <1>8. CASE UNCHANGED vars
    BY <1>8 DEF vars
  <1> QED
    BY <1>3, <1>4, <1>5, <1>6, <1>7, <1>8 DEF Next, Thread

\* No probe is updated if the periods have a common divisor of Tolerance or
\* more.
LEMMA CommonNeverUpdated ==
  ASSUME NEW CONSTANT d, Common(d), d >= Tolerance
  PROVE  Spec => []NoUpdate
  <1>1. Init => MultipleInv(d)
    BY MultipleInit
  <1>2. CollectorInv /\ MultipleInv(d) /\ [Next]_vars => MultipleInv(d)'
    BY MultipleStep
  <1>3. MultipleInv(d) => NoUpdate
    BY DEF MultipleInv
  <1> QED
    BY <1>1, <1>2, <1>3, CollectorInvariant, PTL DEF Spec

\* With a period of Tolerance or more, updateThread never calls update: its
\* elapsedTime is a multiple of that period, which divides the periods of the
\* probes, so that elapsedTime % period - period is at most minus its own.
THEOREM NeverUpdated ==
  ASSUME MinPeriod >= Tolerance
  PROVE  Spec => []NoUpdate
  <1>1. MinPeriod \in Pos
    BY MinPeriodIsGreatest DEF Pos, Tolerance
  <1>2. ASSUME NEW p \in Probes
        PROVE  Divides(MinPeriod, Periods[p])
    <2>1. CASE Periods[p] # 0
      BY <2>1, MinPeriodIsGreatest DEF Periodic
    <2>2. CASE Periods[p] = 0
      <3>1. 0 = 0 * MinPeriod
        BY <1>1 DEF Pos
      <3> QED
        BY <2>2, <3>1 DEF Divides
    <2> QED
      BY <2>1, <2>2
  <1>3. Common(MinPeriod)
    BY <1>1, <1>2 DEF Common
  <1> QED
    BY <1>3, CommonNeverUpdated
=============================================================================
