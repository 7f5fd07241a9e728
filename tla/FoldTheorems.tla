---------------------------- MODULE FoldTheorems ----------------------------
(***************************************************************************)
(* Induction over data, for the models that fold over sequences. The       *)
(* library states it with an operator parameter; here it is stated with a  *)
(* set, and rests on WFMin: a well-founded relation has minimal elements.  *)
(* A fold of n elements is n steps of a recursion, whose function exists   *)
(* if each step is a function (Recursion, FoldFunctionExists, FoldRecurs): *)
(* what a fold returns is then shown step by step with UpTo. FlattenPlaces *)
(* says where the values of a flattened sequence come from.                *)
(***************************************************************************)
EXTENDS Integers, SequencesExt, SequenceTheorems, WellFoundedInduction,
        TLAPS

\* A set that holds 0 and with each number the next one holds every number.
THEOREM Induction ==
  ASSUME NEW T, 0 \in T, \A n \in Nat : n \in T => n + 1 \in T
  PROVE  Nat \subseteq T
  <1> DEFINE D == Nat \ T
             R == OpToRel(<, Nat)
  <1> SUFFICES ASSUME D # {}
               PROVE  FALSE
    OBVIOUS
  <1>1. PICK d \in D : \A c \in D : ~ (<< c, d >> \in R)
    <2>1. D \subseteq Nat
      OBVIOUS
    <2> HIDE DEF D
    <2> QED
      BY <2>1, NatLessThanWellFounded, WFMin
  <1>2. d \in Nat /\ d # 0 /\ d \notin T
    OBVIOUS
  <1>3. d - 1 \in Nat /\ d - 1 < d /\ (d - 1) + 1 = d
    BY <1>2
  <1>4. d - 1 \in T
    <2>1. << d - 1, d >> \in R
      BY <1>2, <1>3 DEF OpToRel
    <2>2. d - 1 \notin D
      <3> HIDE DEF D, R
      <3> QED
        BY <1>1, <2>1
    <2> QED
      BY <1>3, <2>2
  <1> QED
    BY <1>2, <1>3, <1>4

\* What holds first, and of each number up to n if of the one before, holds
\* of all of them.
LEMMA UpTo ==
  ASSUME NEW n \in Nat, NEW T, 0 \in T, \A k \in 1 .. n : k - 1 \in T => k \in T
  PROVE  0 .. n \subseteq T
  <1> DEFINE U == {k \in Nat : k <= n => k \in T}
  <1>1. 0 \in U
    OBVIOUS
  <1>2. ASSUME NEW k \in Nat, k \in U
        PROVE  k + 1 \in U
    <2>1. CASE k + 1 <= n
      <3>1. k + 1 \in 1 .. n /\ (k + 1) - 1 = k /\ k \in T
        BY <1>2, <2>1
      <3> QED
        BY <3>1
    <2>2. CASE ~(k + 1 <= n)
      BY <2>2
    <2> QED
      BY <2>1, <2>2
  <1>3. Nat \subseteq U
    <2> HIDE DEF U
    <2> QED
      BY <1>1, <1>2, Induction
  <1> QED
    BY <1>3

\* f is n steps of a recursion from base, step k by the function g[k] on S.
RecursBy(f, n, S, base, g) ==
  /\ f \in [0 .. n -> S]
  /\ f[0] = base
  /\ \A k \in 1 .. n : f[k] = g[k][f[k - 1]]

\* Such a recursion has a function.
LEMMA Recursion ==
  ASSUME NEW n \in Nat, NEW S, NEW base \in S, NEW g \in [1 .. n -> [S -> S]]
  PROVE  \E f : RecursBy(f, n, S, base, g)
  <1> DEFINE Good(m) == \E f \in [0 .. m -> S] :
               f[0] = base /\ \A k \in 1 .. m : f[k] = g[k][f[k - 1]]
             T == {m \in Nat : m <= n => Good(m)}
  <1>1. 0 \in T
    <2> DEFINE f == [k \in 0 .. 0 |-> base]
    <2>1. f \in [0 .. 0 -> S] /\ f[0] = base /\ \A k \in 1 .. 0 : FALSE
      OBVIOUS
    <2>2. Good(0)
      <3> HIDE DEF f
      <3> QED
        BY <2>1
    <2> QED
      BY <2>2
  <1>2. ASSUME NEW m \in Nat, m \in T
        PROVE  m + 1 \in T
    <2> SUFFICES ASSUME m + 1 <= n
                 PROVE  Good(m + 1)
      OBVIOUS
    <2>1. PICK f \in [0 .. m -> S] :
            f[0] = base /\ \A k \in 1 .. m : f[k] = g[k][f[k - 1]]
      BY <1>2
    <2> DEFINE h == [k \in 0 .. m + 1 |-> IF k = m + 1 THEN g[m + 1][f[m]]
                                          ELSE f[k]]
    <2>2. f[m] \in S /\ g[m + 1] \in [S -> S]
      BY <2>1
    <2>3. h \in [0 .. m + 1 -> S]
      BY <2>1, <2>2
    <2>4. h[0] = base
      BY <2>1
    <2>5. ASSUME NEW k \in 1 .. m + 1
          PROVE  h[k] = g[k][h[k - 1]]
      <3>1. CASE k = m + 1
        <4>1. h[k] = g[m + 1][f[m]] /\ h[k - 1] = f[m]
          BY <3>1
        <4> QED
          BY <3>1, <4>1
      <3>2. CASE k \in 1 .. m
        <4>1. h[k] = f[k] /\ h[k - 1] = f[k - 1]
          BY <3>2
        <4> QED
          BY <3>2, <4>1, <2>1
      <3> QED
        BY <3>1, <3>2
    <2> HIDE DEF h
    <2> QED
      BY <2>3, <2>4, <2>5
  <1>3. Nat \subseteq T
    <2> HIDE DEF T
    <2> QED
      BY <1>1, <1>2, Induction
  <1>4. Good(n)
    BY <1>3
  <1> QED
    BY <1>4 DEF RecursBy

\* 1 .. k has the greatest element k.
LEMMA MaxOfInterval ==
  ASSUME NEW k \in Nat \ {0}
  PROVE  Max(1 .. k) = k /\ (1 .. k) \ {k} = 1 .. k - 1
  BY DEF Max

\* A set of some of 1 .. n has a greatest element.
LEMMA MaxOfPart ==
  ASSUME NEW n \in Nat, NEW s \in SUBSET (1 .. n), s # {}
  PROVE  Max(s) \in s /\ \A x \in s : x <= Max(s)
  <1> DEFINE D == {d \in Nat : n - d \in s}
             R == OpToRel(<, Nat)
  <1>1. D \subseteq Nat /\ D # {}
    <2>1. PICK x \in s : TRUE
      OBVIOUS
    <2>2. n - x \in Nat /\ n - (n - x) = x
      OBVIOUS
    <2> QED
      BY <2>1, <2>2
  <1>2. PICK d \in D : \A c \in D : ~ (<< c, d >> \in R)
    BY <1>1, NatLessThanWellFounded, WFMin
  <1>3. d \in Nat /\ n - d \in s
    OBVIOUS
  <1>4. ASSUME NEW x \in s
        PROVE  x <= n - d
    <2>1. n - x \in Nat /\ n - (n - x) = x
      OBVIOUS
    <2>2. n - x \in D
      BY <2>1
    <2>3. ~ (n - x < d)
      <3>1. n - x < d => << n - x, d >> \in R
        BY <1>3, <2>1 DEF OpToRel
      <3> HIDE DEF D, R
      <3> QED
        BY <1>2, <2>2, <3>1
    <2> QED
      BY <1>3, <2>1, <2>3
  <1> QED
    BY <1>3, <1>4 DEF Max

\* iter is what a fold of n elements recurs with, from base by the steps g.
FoldsBy(iter, n, S, base, g) ==
  /\ iter \in [SUBSET (1 .. n) -> S]
  /\ \A s \in SUBSET (1 .. n) :
       iter[s] = IF s = {} THEN base ELSE g[Max(s)][iter[s \ {Max(s)}]]

\* The function that a fold of a sequence recurs with exists, if each step is
\* a function on S: F_k has the sets of 1 .. k right.
LEMMA FoldFunctionExists ==
  ASSUME NEW n \in Nat, NEW S, NEW base \in S, NEW g \in [1 .. n -> [S -> S]]
  PROVE  \E iter : FoldsBy(iter, n, S, base, g)
  <1> DEFINE Parts == SUBSET (1 .. n)
             Space == [Parts -> S]
             Step(k, F) == [s \in Parts |->
                              IF k \in s THEN g[k][F[s \ {k}]] ELSE F[s]]
             G == [k \in 1 .. n |-> [F \in Space |-> Step(k, F)]]
             B == [s \in Parts |-> base]
  <1>1. B \in Space
    OBVIOUS
  <1>2. G \in [1 .. n -> [Space -> Space]]
    <2> SUFFICES ASSUME NEW k \in 1 .. n, NEW F \in Space, NEW s \in Parts
                 PROVE  Step(k, F)[s] \in S
      OBVIOUS
    <2>1. s \ {k} \in Parts /\ F[s \ {k}] \in S /\ F[s] \in S
      OBVIOUS
    <2>2. g[k] \in [S -> S]
      OBVIOUS
    <2> QED
      BY <2>1, <2>2
  <1>3. PICK f \in [0 .. n -> Space] :
          f[0] = B /\ \A k \in 1 .. n : f[k] = G[k][f[k - 1]]
    <2> HIDE DEF G, B, Space, Step, Parts
    <2>1. B \in Space /\ G \in [1 .. n -> [Space -> Space]]
      BY <1>1, <1>2
    <2>2. PICK f : RecursBy(f, n, Space, B, G)
      BY <2>1, Recursion
    <2> QED
      BY <2>2 DEF RecursBy
  <1>4. ASSUME NEW k \in 1 .. n, NEW s \in Parts
        PROVE  f[k][s] = IF k \in s THEN g[k][f[k - 1][s \ {k}]]
                         ELSE f[k - 1][s]
    <2>1. f[k - 1] \in Space
      BY <1>3
    <2>2. f[k] = Step(k, f[k - 1])
      BY <1>3, <2>1
    <2> QED
      BY <2>2
  \* Behind its greatest element a set is done.
  <1> DEFINE T == {d \in Nat : d <= n =>
                     \A s \in Parts : (\A x \in s : x <= n - d)
                                         => f[n][s] = f[n - d][s]}
  <1>5. Nat \subseteq T
    <2>1. 0 \in T
      OBVIOUS
    <2>2. ASSUME NEW d \in Nat, d \in T
          PROVE  d + 1 \in T
      <3> SUFFICES ASSUME d + 1 <= n, NEW s \in Parts,
                          \A x \in s : x <= n - (d + 1)
                   PROVE  f[n][s] = f[n - (d + 1)][s]
        OBVIOUS
      <3>1. n - d \in 1 .. n /\ (n - d) - 1 = n - (d + 1) /\ d <= n
        BY SMTT(20)
      <3>2. n - d \notin s
        OBVIOUS
      <3>3. f[n - d][s] = f[n - (d + 1)][s]
        <4> DEFINE k == n - d
        <4>1. f[k][s] = f[k - 1][s]
          <5>1. k \in 1 .. n /\ k \notin s
            BY <3>1, <3>2
          <5> HIDE DEF k
          <5> QED
            BY <1>4, <5>1
        <4> QED
          BY <3>1, <4>1
      <3>4. f[n][s] = f[n - d][s]
        <4>1. \A x \in s : x <= n - d
          OBVIOUS
        <4> QED
          BY <2>2, <3>1, <4>1
      <3> QED
        BY <3>3, <3>4
    <2> HIDE DEF T
    <2> QED
      BY <2>1, <2>2, Induction
  <1>6. ASSUME NEW s \in Parts, NEW k \in 0 .. n, \A x \in s : x <= k
        PROVE  f[n][s] = f[k][s]
    <2>1. n - k \in Nat /\ n - (n - k) = k /\ n - k <= n
      OBVIOUS
    <2>2. n - k \in T
      BY <1>5, <2>1
    <2> QED
      BY <1>6, <2>1, <2>2
  <1> DEFINE iter == f[n]
  <1>7. iter \in Space
    BY <1>3
  <1>8. ASSUME NEW s \in Parts
        PROVE  iter[s] = IF s = {} THEN base ELSE g[Max(s)][iter[s \ {Max(s)}]]
    <2>1. CASE s = {}
      <3>1. f[n][s] = f[0][s]
        BY <1>6, <2>1
      <3> QED
        BY <1>3, <2>1, <3>1
    <2>2. CASE s # {}
      <3>1. Max(s) \in s /\ Max(s) \in 1 .. n /\ \A x \in s : x <= Max(s)
        BY <2>2, MaxOfPart
      <3> DEFINE m == Max(s)
                 rest == s \ {m}
      <3> HIDE DEF m
      <3>2. m \in s /\ m \in 1 .. n /\ \A x \in s : x <= m
        BY <3>1 DEF m
      <3>3. f[n][s] = f[m][s]
        BY <1>6, <3>2
      <3>4. f[m][s] = g[m][f[m - 1][rest]]
        BY <1>4, <3>2
      <3>5. f[n][rest] = f[m - 1][rest]
        <4>1. m - 1 \in 0 .. n /\ rest \in Parts
          BY <3>2
        <4>2. \A x \in rest : x <= m - 1
          BY <3>2
        <4> HIDE DEF rest
        <4> QED
          BY <1>6, <4>1, <4>2
      <3> QED
        BY <2>2, <3>3, <3>4, <3>5 DEF m
    <2> QED
      BY <2>1, <2>2
  <1> HIDE DEF iter
  <1> QED
    BY <1>7, <1>8 DEF FoldsBy

\* What a fold of n elements looks at.
LEMMA PartsOfInterval ==
  ASSUME NEW n \in Nat
  PROVE  /\ {} \in SUBSET (1 .. n) /\ 1 .. 0 = {}
         /\ \A k \in 1 .. n :
              /\ 1 .. k \in SUBSET (1 .. n) /\ 1 .. k # {}
              /\ Max(1 .. k) = k /\ (1 .. k) \ {k} = 1 .. k - 1
  <1> SUFFICES ASSUME NEW k \in 1 .. n
               PROVE  /\ 1 .. k \in SUBSET (1 .. n) /\ 1 .. k # {}
                      /\ Max(1 .. k) = k /\ (1 .. k) \ {k} = 1 .. k - 1
    OBVIOUS
  <1> QED
    BY MaxOfInterval

\* iter is what a fold of n elements recurs with, from base by the steps g, as
\* far as it stays in S.
FoldsWithin(iter, n, S, base, g) ==
  /\ iter[{}] = base
  /\ \A s \in SUBSET (1 .. n) :
       s # {} /\ iter[s \ {Max(s)}] \in S
         => iter[s] = g[Max(s)][iter[s \ {Max(s)}]]

\* It does stay in S if the steps do, and so a fold is n steps of a recursion.
LEMMA FoldRecurs ==
  ASSUME NEW n \in Nat, NEW S, NEW base \in S, NEW g \in [1 .. n -> [S -> S]],
         NEW iter, FoldsWithin(iter, n, S, base, g)
  PROVE  \E acc : RecursBy(acc, n, S, base, g) /\ acc[n] = iter[1 .. n]
  <1> DEFINE acc == [k \in 0 .. n |-> iter[1 .. k]]
             T == {k \in 0 .. n : acc[k] \in S}
  <1>1. acc[0] = base
    BY PartsOfInterval DEF FoldsWithin
  <1>2. ASSUME NEW k \in 1 .. n, acc[k - 1] \in S
        PROVE  acc[k] = g[k][acc[k - 1]] /\ acc[k] \in S
    <2>1. /\ 1 .. k \in SUBSET (1 .. n) /\ 1 .. k # {}
          /\ Max(1 .. k) = k /\ (1 .. k) \ {k} = 1 .. k - 1
      BY PartsOfInterval
    <2>2. acc[k] = iter[1 .. k] /\ acc[k - 1] = iter[1 .. k - 1]
      OBVIOUS
    <2> HIDE DEF acc
    <2>3. iter[1 .. k] = g[k][iter[1 .. k - 1]]
      <3> DEFINE s == 1 .. k
      <3>1. /\ s \in SUBSET (1 .. n) /\ s # {} /\ Max(s) = k
            /\ s \ {k} = 1 .. k - 1
        BY <2>1
      <3> HIDE DEF s
      <3>2. iter[s \ {Max(s)}] \in S
        BY <1>2, <2>2, <3>1
      <3>3. iter[s] = g[Max(s)][iter[s \ {Max(s)}]]
        BY <3>1, <3>2 DEF FoldsWithin
      <3> QED
        BY <3>1, <3>3 DEF s
    <2> QED
      BY <1>2, <2>2, <2>3
  <1>3. 0 .. n \subseteq T
    <2> HIDE DEF acc
    <2>1. 0 \in T
      BY <1>1
    <2>2. ASSUME NEW k \in 1 .. n, k - 1 \in T
          PROVE  k \in T
      BY <1>2, <2>2
    <2> HIDE DEF T
    <2> QED
      BY <2>1, <2>2, UpTo
  <1>4. acc \in [0 .. n -> S] /\ acc[n] = iter[1 .. n]
    BY <1>3
  <1>5. \A k \in 1 .. n : acc[k] = g[k][acc[k - 1]]
    <2> SUFFICES ASSUME NEW k \in 1 .. n
                 PROVE  acc[k] = g[k][acc[k - 1]]
      OBVIOUS
    <2>1. acc[k - 1] \in S
      <3>1. k - 1 \in T
        BY <1>3
      <3> QED
        BY <3>1
    <2> HIDE DEF acc
    <2> QED
      BY <1>2, <2>1
  <1> HIDE DEF acc
  <1> QED
    BY <1>1, <1>4, <1>5 DEF RecursBy

\* What the fold of + goes through.
LEMMA SumSteps ==
  ASSUME NEW seq \in Seq(Int)
  PROVE  \E acc \in [0 .. Len(seq) -> Int] :
           /\ acc[0] = 0 /\ acc[Len(seq)] = FoldLeft(+, 0, seq)
           /\ \A k \in 1 .. Len(seq) : acc[k] = acc[k - 1] + seq[k]
  <1> DEFINE n == Len(seq)
             g == [k \in 1 .. n |-> [x \in Int |-> x + seq[k]]]
             Is(iter) == iter = [s \in SUBSET (1 .. n) |-> IF s = {} THEN 0
                                   ELSE iter[s \ {Max(s)}] + seq[Max(s)]]
             iter == CHOOSE iter : Is(iter)
  <1>1. FoldLeft(+, 0, seq) = iter[1 .. n]
    <2>1. DOMAIN seq = 1 .. n
      OBVIOUS
    <2> QED
      BY <2>1 DEF FoldLeft, MapThenFoldSet
  <1>2. n \in Nat /\ \A k \in 1 .. n : seq[k] \in Int
    OBVIOUS
  <1> HIDE DEF n
  <1>3. Is(iter)
    <2> DEFINE S == Int
               zero == 0
    <2>1. g \in [1 .. n -> [S -> S]] /\ zero \in S
      BY <1>2
    <2>2. PICK f : FoldsBy(f, n, S, zero, g)
      <3> HIDE DEF g, S, zero
      <3> QED
        BY <1>2, <2>1, FoldFunctionExists
    <2>3. ASSUME NEW s \in SUBSET (1 .. n), s # {}
          PROVE  g[Max(s)][f[s \ {Max(s)}]] = f[s \ {Max(s)}] + seq[Max(s)]
      <3>1. Max(s) \in 1 .. n /\ f[s \ {Max(s)}] \in Int
        BY <1>2, <2>2, <2>3, MaxOfPart DEF FoldsBy
      <3> QED
        BY <3>1
    <2>4. Is(f)
      <3> HIDE DEF g
      <3> QED
        BY <2>2, <2>3 DEF FoldsBy
    <2> HIDE DEF Is
    <2> QED
      BY <2>4
  <1> DEFINE acc == [k \in 0 .. n |-> iter[1 .. k]]
  <1> HIDE DEF iter
  <1>4. acc[0] = 0 /\ acc[n] = iter[1 .. n]
    <2>1. iter[{}] = 0
      BY <1>2, <1>3, PartsOfInterval
    <2> QED
      BY <1>2, <2>1, PartsOfInterval
  <1>5. ASSUME NEW k \in 1 .. n
        PROVE  acc[k] = acc[k - 1] + seq[k]
    <2>1. iter[1 .. k] = iter[(1 .. k) \ {Max(1 .. k)}] + seq[Max(1 .. k)]
      BY <1>2, <1>3, PartsOfInterval
    <2>2. iter[1 .. k] = iter[1 .. k - 1] + seq[k]
      BY <1>2, <2>1, PartsOfInterval
    <2> QED
      BY <1>2, <2>2
  <1> HIDE DEF acc
  <1> DEFINE T == {k \in 0 .. n : acc[k] \in Int}
  <1>6. 0 .. n \subseteq T
    <2>1. 0 \in T
      BY <1>2, <1>4
    <2>2. ASSUME NEW k \in 1 .. n, k - 1 \in T
          PROVE  k \in T
      BY <1>2, <1>5, <2>2
    <2> HIDE DEF T
    <2> QED
      BY <1>2, <2>1, <2>2, UpTo
  <1>7. acc \in [0 .. n -> Int]
    <2>1. \A k \in 0 .. n : acc[k] \in Int
      BY <1>2, <1>6
    <2> QED
      BY <2>1 DEF acc
  <1> QED
    BY <1>1, <1>4, <1>5, <1>7 DEF n

\* What FlattenSeq goes through.
LEMMA FlattenSteps ==
  ASSUME NEW V, NEW seqs \in Seq(Seq(V))
  PROVE  \E flat \in [0 .. Len(seqs) -> Seq(V)] :
           /\ flat[0] = << >> /\ flat[Len(seqs)] = FlattenSeq(seqs)
           /\ \A k \in 1 .. Len(seqs) : flat[k] = flat[k - 1] \o seqs[k]
  <1> DEFINE n == Len(seqs)
             W == Seq(V)
             none == << >>
             With(x, k) == x \o seqs[k]
             g == [k \in 1 .. n |-> [x \in W |-> With(x, k)]]
             Is(f) == f = [i \in 1 .. n |->
                             IF i = 1 THEN seqs[i] ELSE With(f[i - 1], i)]
             fl == CHOOSE f : Is(f)
  <1>1. n \in Nat /\ \A k \in 1 .. n : seqs[k] \in W
    OBVIOUS
  <1>2. FlattenSeq(seqs) = IF n = 0 THEN seqs ELSE fl[n]
    BY DEF FlattenSeq
  <1>3. n = 0 => seqs = << >>
    OBVIOUS
  <1>4. none \in W /\ g \in [1 .. n -> [W -> W]]
    <2> SUFFICES ASSUME NEW k \in 1 .. n, NEW x \in W
                 PROVE  With(x, k) \in W
      OBVIOUS
    <2> QED
      BY <1>1
  <1>5. none = << >> /\ \A k \in 1 .. n : With(none, k) = seqs[k]
    BY <1>1
  <1>6. \A k \in 1 .. n : \A x \in W : g[k][x] = With(x, k)
    OBVIOUS
  <1> HIDE DEF n, W, none, With, g
  <1>7. PICK h : RecursBy(h, n, W, none, g)
    BY <1>1, <1>4, Recursion
  <1>8. ASSUME NEW k \in 1 .. n
        PROVE  h[k - 1] \in W /\ h[k] = With(h[k - 1], k)
    <2>1. k - 1 \in 0 .. n /\ h[k] = g[k][h[k - 1]] /\ h[k - 1] \in W
      BY <1>1, <1>7 DEF RecursBy
    <2> QED
      BY <1>6, <2>1
  <1>9. Is(fl)
    <2> DEFINE f == [k \in 1 .. n |-> h[k]]
    <2>1. ASSUME NEW i \in 1 .. n
          PROVE  f[i] = IF i = 1 THEN seqs[i] ELSE With(f[i - 1], i)
      <3>1. CASE i = 1
        <4>1. h[1] = With(h[0], 1) /\ h[0] = none
          BY <1>7, <1>8, <3>1 DEF RecursBy
        <4> QED
          BY <1>1, <1>5, <3>1, <4>1
      <3>2. CASE i # 1
        <4>1. i - 1 \in 1 .. n
          BY <1>1, <3>2
        <4> QED
          BY <1>8, <3>2, <4>1
      <3> QED
        BY <3>1, <3>2
    <2>2. Is(f)
      BY <2>1
    <2> HIDE DEF Is, f
    <2> QED
      BY <2>2
  <1> HIDE DEF fl
  <1> DEFINE T == {k \in 0 .. n : k = 0 \/ fl[k] = h[k]}
  <1>10. 0 .. n \subseteq T
    <2>1. 0 \in T
      BY <1>1
    <2>2. ASSUME NEW k \in 1 .. n, k - 1 \in T
          PROVE  k \in T
      <3>1. CASE k = 1
        <4>1. fl[1] = seqs[1]
          BY <1>9, <3>1
        <4>2. h[1] = With(h[0], 1) /\ h[0] = none
          BY <1>7, <1>8, <3>1 DEF RecursBy
        <4> QED
          BY <1>1, <1>5, <3>1, <4>1, <4>2
      <3>2. CASE k # 1
        <4>1. fl[k] = With(fl[k - 1], k)
          BY <1>9, <3>2
        <4>2. fl[k - 1] = h[k - 1]
          BY <1>1, <2>2, <3>2
        <4> QED
          BY <1>8, <4>1, <4>2
      <3> QED
        BY <3>1, <3>2
    <2> HIDE DEF T
    <2> QED
      BY <1>1, <2>1, <2>2, UpTo
  <1>11. h[n] = FlattenSeq(seqs)
    <2>1. n # 0 => fl[n] = h[n]
      BY <1>1, <1>10
    <2> QED
      BY <1>2, <1>3, <1>5, <1>7, <2>1 DEF RecursBy
  <1>12. h[0] = << >>
    BY <1>5, <1>7 DEF RecursBy
  <1>13. h \in [0 .. n -> W] /\ \A k \in 1 .. n : h[k] = h[k - 1] \o seqs[k]
    BY <1>7, <1>8 DEF RecursBy, With
  <1> QED
    BY <1>11, <1>12, <1>13 DEF n, W

\* The parts of seqs have the lengths lens.
HaveLengths(seqs, lens, V) ==
  /\ seqs \in Seq(Seq(V)) /\ Len(seqs) = Len(lens)
  /\ \A p \in 1 .. Len(lens) : Len(seqs[p]) = lens[p]

\* flat is what FlattenSeq goes through for such a sequence.
FlattensBy(flat, seqs, lens, V) ==
  /\ HaveLengths(seqs, lens, V)
  /\ flat \in [0 .. Len(lens) -> Seq(V)]
  /\ flat[0] = << >> /\ flat[Len(lens)] = FlattenSeq(seqs)
  /\ \A k \in 1 .. Len(lens) : flat[k] = flat[k - 1] \o seqs[k]

\* Each of n values is value index[j] of part[j], one of the first k.
AreAt(part, index, lens, k, n) ==
  /\ part \in [1 .. n -> 1 .. k] /\ index \in [1 .. n -> Nat]
  /\ \A j \in 1 .. n : index[j] \in 1 .. lens[part[j]]

\* The first k parts of such sequences have n values, those ones.
Flat(part, index, lens, V, k, n) ==
  \A flat, seqs : FlattensBy(flat, seqs, lens, V) =>
    /\ Len(flat[k]) = n
    /\ \A j \in 1 .. n : flat[k][j] = seqs[part[j]][index[j]]

\* The elements of a concatenation.
LEMMA Concatenated ==
  ASSUME NEW V, NEW s \in Seq(V), NEW t \in Seq(V)
  PROVE  /\ Len(s \o t) = Len(s) + Len(t)
         /\ \A j \in 1 .. Len(s) : (s \o t)[j] = s[j]
         /\ \A j \in 1 .. Len(s) + Len(t) :
              ~(j <= Len(s)) => (s \o t)[j] = t[j - Len(s)]
  OBVIOUS

\* total is what FoldLeft adds up.
IsSum(total, seq) == total = FoldLeft(+, 0, seq)

\* The next part adds its values behind those of the parts before.
LEMMA FlattenStep ==
  ASSUME NEW V, NEW lens \in Seq(Nat), NEW k \in 1 .. Len(lens), NEW n \in Nat,
         NEW part, NEW index, AreAt(part, index, lens, k - 1, n),
         Flat(part, index, lens, V, k - 1, n)
  PROVE  \E p1, i1 : /\ AreAt(p1, i1, lens, k, n + lens[k])
                     /\ Flat(p1, i1, lens, V, k, n + lens[k])
  <1> DEFINE more == n + lens[k]
             p1 == [j \in 1 .. more |-> IF j <= n THEN part[j] ELSE k]
             i1 == [j \in 1 .. more |-> IF j <= n THEN index[j] ELSE j - n]
  <1>1. k \in Nat /\ k - 1 \in 0 .. Len(lens) /\ lens[k] \in Nat /\ more \in Nat
    OBVIOUS
  <1>2. \A j \in 1 .. n : part[j] \in 1 .. k - 1 /\ index[j] \in Nat
                            /\ index[j] \in 1 .. lens[part[j]]
    BY DEF AreAt
  <1>3. ASSUME NEW j \in 1 .. more, j <= n
        PROVE  j \in 1 .. n /\ p1[j] = part[j] /\ i1[j] = index[j]
    BY <1>1, <1>3
  <1>4. ASSUME NEW j \in 1 .. more, ~(j <= n)
        PROVE  j - n \in 1 .. lens[k] /\ p1[j] = k /\ i1[j] = j - n
    BY <1>1, <1>4
  <1>5. AreAt(p1, i1, lens, k, more)
    <2>1. ASSUME NEW j \in 1 .. more
          PROVE  /\ p1[j] \in 1 .. k /\ i1[j] \in Nat
                 /\ i1[j] \in 1 .. lens[p1[j]]
      <3> HIDE DEF p1, i1, more
      <3>1. CASE j <= n
        <4>1. j \in 1 .. n /\ p1[j] = part[j] /\ i1[j] = index[j]
          BY <1>3, <3>1
        <4>2. /\ part[j] \in 1 .. k - 1 /\ index[j] \in Nat
              /\ index[j] \in 1 .. lens[part[j]]
          BY <1>2, <4>1
        <4>3. part[j] \in 1 .. k
          BY <1>1, <4>2
        <4> QED
          BY <4>1, <4>2, <4>3
      <3>2. CASE ~(j <= n)
        <4>1. j - n \in 1 .. lens[k] /\ p1[j] = k /\ i1[j] = j - n
          BY <1>4, <3>2
        <4>2. k \in 1 .. k /\ j - n \in Nat
          BY <1>1, <4>1
        <4> QED
          BY <4>1, <4>2
      <3> QED
        BY <3>1, <3>2
    <2> HIDE DEF more
    <2>2. p1 \in [1 .. more -> 1 .. k] /\ i1 \in [1 .. more -> Nat]
      BY <2>1
    <2> HIDE DEF p1, i1
    <2> QED
      BY <2>1, <2>2 DEF AreAt
  <1>6. Flat(p1, i1, lens, V, k, more)
    <2> SUFFICES ASSUME NEW flat, NEW seqs, FlattensBy(flat, seqs, lens, V)
                 PROVE  /\ Len(flat[k]) = more
                        /\ \A j \in 1 .. more :
                             flat[k][j] = seqs[p1[j]][i1[j]]
      BY Zenon DEF Flat
    <2> DEFINE before == flat[k - 1]
               new == seqs[k]
    <2>1. /\ flat[k] = before \o new
          /\ before \in Seq(V) /\ new \in Seq(V) /\ Len(new) = lens[k]
      <3>1. /\ flat \in [0 .. Len(lens) -> Seq(V)]
            /\ flat[k] = flat[k - 1] \o seqs[k]
            /\ seqs \in Seq(Seq(V)) /\ Len(seqs) = Len(lens)
            /\ Len(seqs[k]) = lens[k]
        BY DEF FlattensBy, HaveLengths
      <3>2. seqs[k] \in Seq(V)
        <4> DEFINE W == Seq(V)
        <4>1. seqs \in Seq(W) /\ k \in 1 .. Len(seqs)
          BY <3>1
        <4> HIDE DEF W
        <4>2. seqs[k] \in W
          BY <4>1, ElementOfSeq
        <4> QED
          BY <4>2 DEF W
      <3>3. flat[k - 1] \in Seq(V)
        <4> DEFINE W == Seq(V)
        <4>1. flat \in [0 .. Len(lens) -> W] /\ k - 1 \in 0 .. Len(lens)
          BY <1>1, <3>1
        <4> HIDE DEF W
        <4>2. flat[k - 1] \in W
          BY <4>1
        <4> QED
          BY <4>2 DEF W
      <3> QED
        BY <3>1, <3>2, <3>3
    <2>2. /\ Len(before) = n
          /\ \A j \in 1 .. n : before[j] = seqs[part[j]][index[j]]
      BY DEF Flat
    <2> HIDE DEF before
    <2>3. /\ Len(flat[k]) = more
          /\ \A j \in 1 .. n : flat[k][j] = before[j]
          /\ \A j \in 1 .. more : ~(j <= n) => flat[k][j] = new[j - n]
      <3> HIDE DEF new
      <3>1. more = Len(before) + Len(new)
        BY <2>1, <2>2
      <3> QED
        <4> DEFINE both == before \o new
        <4>1. /\ Len(both) = more
              /\ \A j \in 1 .. n : both[j] = before[j]
              /\ \A j \in 1 .. more : ~(j <= n) => both[j] = new[j - n]
          <5>1. /\ Len(before \o new) = Len(before) + Len(new)
                /\ \A j \in 1 .. Len(before) : (before \o new)[j] = before[j]
                /\ \A j \in 1 .. Len(before) + Len(new) :
                     ~(j <= Len(before)) =>
                       (before \o new)[j] = new[j - Len(before)]
            BY <2>1, Concatenated
          <5> QED
            BY <2>2, <3>1, <5>1
        <4> HIDE DEF both
        <4>2. flat[k] = both
          BY <2>1 DEF both
        <4> QED
          BY <4>1, <4>2
    <2> HIDE DEF more, p1, i1
    <2>4. ASSUME NEW j \in 1 .. more
          PROVE  flat[k][j] = seqs[p1[j]][i1[j]]
      <3>1. CASE j <= n
        BY <1>3, <2>2, <2>3, <3>1
      <3>2. CASE ~(j <= n)
        BY <1>4, <2>3, <3>2
      <3> QED
        BY <3>1, <3>2
    <2> QED
      BY <2>3, <2>4
  <1> HIDE DEF p1, i1
  <1> QED
    BY <1>5, <1>6

\* Every such sequence, flattened, has total values: value index[j] of part[j].
Placed(part, index, lens, V, total) ==
  /\ AreAt(part, index, lens, Len(lens), total)
  /\ \A seqs : HaveLengths(seqs, lens, V) =>
       /\ DOMAIN FlattenSeq(seqs) = 1 .. total
       /\ Len(FlattenSeq(seqs)) = total
       /\ \A j \in 1 .. total : FlattenSeq(seqs)[j] = seqs[part[j]][index[j]]

\* Where the values of a flattened sequence are from depends on the lengths of
\* its parts alone, and there are as many as the parts have together.
LEMMA FlattenPlaces ==
  ASSUME NEW V, NEW lens \in Seq(Nat), NEW total, IsSum(total, lens)
  PROVE  /\ total \in Nat
         /\ \E part, index : Placed(part, index, lens, V, total)
  <1> DEFINE n == Len(lens)
  <1>1. n \in Nat /\ \A k \in 1 .. n : lens[k] \in Nat
    OBVIOUS
  <1>2. PICK acc \in [0 .. n -> Int] :
          /\ acc[0] = 0 /\ acc[n] = total
          /\ \A k \in 1 .. n : acc[k] = acc[k - 1] + lens[k]
    <2>1. lens \in Seq(Int)
      OBVIOUS
    <2> QED
      BY <2>1, SumSteps DEF IsSum
  <1> HIDE DEF n
  <1> DEFINE Good(k) == \E part, index :
               /\ AreAt(part, index, lens, k, acc[k])
               /\ Flat(part, index, lens, V, k, acc[k])
             T == {k \in 0 .. n : acc[k] \in Nat /\ Good(k)}
  <1>3. 0 \in T
    <2> DEFINE none == [j \in 1 .. 0 |-> 0]
    <2>1. acc[0] = 0 /\ 0 \in 0 .. n
      BY <1>1, <1>2
    <2>2. AreAt(none, none, lens, 0, 0)
      BY DEF AreAt
    <2>3. Flat(none, none, lens, V, 0, 0)
      BY DEF Flat, FlattensBy
    <2> QED
      BY <2>1, <2>2, <2>3
  <1>4. ASSUME NEW k \in 1 .. n, k - 1 \in T
        PROVE  k \in T
    <2>1. acc[k - 1] \in Nat /\ acc[k] = acc[k - 1] + lens[k]
      BY <1>2, <1>4
    <2>2. PICK part, index :
            /\ AreAt(part, index, lens, k - 1, acc[k - 1])
            /\ Flat(part, index, lens, V, k - 1, acc[k - 1])
      BY <1>4
    <2>3. Good(k)
      BY <2>1, <2>2, FlattenStep DEF n
    <2>4. acc[k] \in Nat /\ k \in 0 .. n
      BY <1>1, <2>1
    <2> HIDE DEF Good
    <2> QED
      BY <2>3, <2>4
  <1>5. n \in T
    <2> HIDE DEF T
    <2>1. 0 .. n \subseteq T
      BY <1>1, <1>3, <1>4, UpTo
    <2> QED
      BY <1>1, <2>1
  <1>6. PICK part, index : /\ AreAt(part, index, lens, n, acc[n])
                           /\ Flat(part, index, lens, V, n, acc[n])
    BY <1>5
  <1>7. ASSUME NEW seqs, HaveLengths(seqs, lens, V)
        PROVE  /\ DOMAIN FlattenSeq(seqs) = 1 .. acc[n]
               /\ Len(FlattenSeq(seqs)) = acc[n]
               /\ \A j \in 1 .. acc[n] :
                    FlattenSeq(seqs)[j] = seqs[part[j]][index[j]]
    <2>1. seqs \in Seq(Seq(V)) /\ Len(seqs) = n
      BY <1>7 DEF HaveLengths, n
    <2>2. PICK flat \in [0 .. Len(seqs) -> Seq(V)] :
            /\ flat[0] = << >> /\ flat[Len(seqs)] = FlattenSeq(seqs)
            /\ \A k \in 1 .. Len(seqs) : flat[k] = flat[k - 1] \o seqs[k]
      BY <2>1, FlattenSteps
    <2>3. FlattensBy(flat, seqs, lens, V)
      BY <1>7, <2>1, <2>2 DEF FlattensBy, n
    <2>4. flat[n] = FlattenSeq(seqs) /\ flat[n] \in Seq(V)
      BY <1>1, <2>1, <2>2
    <2>5. /\ Len(flat[n]) = acc[n]
          /\ \A j \in 1 .. acc[n] : flat[n][j] = seqs[part[j]][index[j]]
      BY <1>6, <2>3 DEF Flat
    <2> QED
      BY <2>4, <2>5
  <1>8. acc[n] \in Nat
    BY <1>5
  <1> QED
    BY <1>2, <1>6, <1>7, <1>8 DEF n, Placed
=============================================================================
