---------------------------- MODULE SequenceLemmas ----------------------------
(***************************************************************************)
(* Induction on numbers as facts about sets of numbers, which the provers  *)
(* can instantiate, and the lemmas on sequences that need it.              *)
(***************************************************************************)
EXTENDS Integers, Sequences, SequencesExt, FiniteSetTheorems, SequenceTheorems, TLAPS

-----------------------------------------------------------------------------
(* Induction *)

LEMMA LeastNumber ==
    ASSUME NEW T \in SUBSET Nat, T # {}
    PROVE  \E m \in T : \A n \in T : m =< n
<1>1. PICK R : R = {p \in Nat \X Nat : p[1] < p[2]}
  OBVIOUS
<1>2. IsWellFoundedOn(R, Nat)
  BY <1>1, NatLessThanWellFounded, Zenon DEF OpToRel
<1>3. PICK m \in T : \A n \in T : <<n, m>> \notin R
  BY <1>2, WFMin
<1>4. ASSUME NEW n \in T, n < m PROVE FALSE
  <2>1. <<n, m>> \in Nat \X Nat /\ <<n, m>>[1] = n /\ <<n, m>>[2] = m
    OBVIOUS
  <2>2. <<n, m>>[1] < <<n, m>>[2]
    BY <1>4, <2>1
  <2>3. <<n, m>> \in R
    BY <1>1, <2>1, <2>2, Zenon
  <2>4. QED
    BY <1>3, <2>3
<1>5. QED
  BY <1>3, <1>4

\* A set that has 0 and with each number the next one has them all.
LEMMA Induction ==
    ASSUME NEW T, 0 \in T, \A n \in Nat : n \in T => n + 1 \in T
    PROVE  \A n \in Nat : n \in T
<1> SUFFICES ASSUME NEW k \in Nat, k \notin T PROVE FALSE
  OBVIOUS
<1>1. PICK U : U = {n \in Nat : n \notin T}
  OBVIOUS
<1>2. U \in SUBSET Nat /\ U # {}
  BY <1>1
<1>3. PICK m \in U : \A n \in U : m =< n
  BY <1>2, LeastNumber
<1>4. m \in Nat /\ m # 0 /\ m - 1 \in Nat /\ m - 1 \notin U
  BY <1>1, <1>3
<1>5. (m - 1) + 1 = m
  BY <1>4
<1>6. QED
  BY <1>1, <1>3, <1>4, <1>5

\* The same up to n.
LEMMA InductionTo ==
    ASSUME NEW n \in Nat, NEW T, 0 \in T, \A k \in 0..(n - 1) : k \in T => k + 1 \in T
    PROVE  \A k \in 0..n : k \in T
<1>1. PICK U : U = {k \in Nat : k =< n => k \in T}
  OBVIOUS
<1>2. 0 \in U
  BY <1>1
<1>3. \A k \in Nat : k \in U => k + 1 \in U
  <2> TAKE k \in Nat
  <2>1. k + 1 =< n => k \in 0..(n - 1)
    OBVIOUS
  <2>2. QED
    BY <1>1, <2>1
<1>4. \A k \in Nat : k \in U
  BY <1>2, <1>3, Induction
<1>5. QED
  BY <1>1, <1>4

\* The blocks of w numbers: those of block m are the numbers from w * m on.
LEMMA BlockBounds ==
    ASSUME NEW a \in Nat, NEW w \in Nat \ {0}
    PROVE  a \div w \in Nat /\ w * (a \div w) \in Nat /\ w * (a \div w) =< a /\ a < w * (a \div w) + w
  OBVIOUS

LEMMA BlockApart ==
    ASSUME NEW w \in Nat \ {0}, NEW m \in Nat, NEW n \in Nat, m < n
    PROVE  w * m \in Nat /\ w * n \in Nat /\ w * m + w =< w * n
<1>1. PICK d \in Nat : n = m + 1 + d
  <2>1. n - m - 1 \in Nat /\ n = m + 1 + (n - m - 1)
    OBVIOUS
  <2>2. QED
    BY <2>1
<1>2. w * n = w * m + w + w * d
  BY <1>1
<1>3. w * m \in Nat /\ w * n \in Nat /\ w * d \in Nat
  OBVIOUS
<1>4. QED
  BY <1>2, <1>3

LEMMA BlockUnique ==
    ASSUME NEW a \in Nat, NEW w \in Nat \ {0}, NEW m \in Nat, w * m =< a, a < w * m + w
    PROVE  a \div w = m
<1>1. PICK n : n = a \div w
  OBVIOUS
<1>2. n \in Nat /\ w * n \in Nat /\ w * n =< a /\ a < w * n + w /\ w * m \in Nat
  BY <1>1, BlockBounds
<1>3. ~(m < n)
  <2> SUFFICES ASSUME m < n PROVE FALSE
    OBVIOUS
  <2>1. w * m + w =< w * n
    BY <1>2, BlockApart
  <2>2. QED
    BY <1>2, <2>1
<1>4. ~(n < m)
  <2> SUFFICES ASSUME n < m PROVE FALSE
    OBVIOUS
  <2>1. w * n + w =< w * m
    BY <1>2, BlockApart
  <2>2. QED
    BY <1>2, <2>1
<1>5. QED
  BY <1>1, <1>2, <1>3, <1>4

\* Two blocks of w numbers are one of twice as many.
LEMMA BlockHalf ==
    ASSUME NEW a \in Nat, NEW w \in Nat \ {0}
    PROVE  a \div (2 * w) = (a \div w) \div 2
<1>1. PICK u : u = a \div w
  OBVIOUS
<1>2. u \in Nat /\ w * u \in Nat /\ w * u =< a /\ a < w * u + w
  BY <1>1, BlockBounds
<1>3. PICK k : k = u \div 2
  OBVIOUS
<1>4. k \in Nat /\ (u = 2 * k \/ u = 2 * k + 1)
  BY <1>2, <1>3
<1>5. PICK v : v = w * k
  OBVIOUS
<1>6. v \in Nat /\ (2 * w) * k = 2 * v /\ 2 * w \in Nat \ {0}
  BY <1>4, <1>5
<1>7. w * u = 2 * v \/ w * u = 2 * v + w
  <2>1. CASE u = 2 * k
    BY <1>4, <1>5, <2>1
  <2>2. CASE u = 2 * k + 1
    BY <1>4, <1>5, <2>2
  <2>3. QED
    BY <1>4, <2>1, <2>2
<1>8. (2 * w) * k =< a /\ a < (2 * w) * k + 2 * w
  BY <1>2, <1>6, <1>7
<1>9. a \div (2 * w) = k
  BY <1>4, <1>6, <1>8, BlockUnique
<1>10. QED
  BY <1>1, <1>3, <1>9

\* The least number of a set of numbers is what Min gives.
LEMMA MinNat ==
    ASSUME NEW I \in SUBSET Nat, I # {}
    PROVE  Min(I) \in I /\ \A i \in I : Min(I) =< i
<1>1. \E m \in I : \A i \in I : m =< i
  BY LeastNumber
<1>2. QED
  BY <1>1 DEF Min

LEMMA SelectIndex ==
    ASSUME NEW n \in Nat, NEW I, I \subseteq 1..n, I # {}
    PROVE  Min(I) \in I /\ \A i \in I : Min(I) =< i
<1>1. I \in SUBSET Nat
  OBVIOUS
<1>2. QED
  BY <1>1, MinNat

\* Round k of a loop makes a value of X of the one before.
RoundsOf(f, n, X, a, G) ==
    f \in [0..n -> X] /\ \A k \in 0..n : f[k] = IF k = 0 THEN a ELSE G[<<k, f[k - 1]>>]

\* A loop of n rounds exists as a function: round k makes a value of X of the one before.
LEMMA RoundsExist ==
    ASSUME NEW n \in Nat, NEW X, NEW a \in X, NEW G \in [(1..n) \X X -> X]
    PROVE  \E f : RoundsOf(f, n, X, a, G)
<1>1. PICK T : T = {m \in Nat : \E f \in [0..m -> X] :
                        \A k \in 0..m : k =< n => f[k] = IF k = 0 THEN a ELSE G[<<k, f[k - 1]>>]}
  OBVIOUS
<1>2. 0 \in T
  <2>1. PICK f : f = [k \in 0..0 |-> a]
    OBVIOUS
  <2>2. f \in [0..0 -> X] /\ \A k \in 0..0 : k = 0 /\ f[k] = a
    BY <2>1
  <2>3. QED
    BY <1>1, <2>2
<1>3. \A m \in 0..(n - 1) : m \in T => m + 1 \in T
  <2> SUFFICES ASSUME NEW m \in 0..(n - 1), m \in T PROVE m + 1 \in T
    OBVIOUS
  <2>1. m \in Nat /\ m + 1 \in Nat /\ m + 1 \in 1..n
    OBVIOUS
  <2>2. PICK f \in [0..m -> X] :
            \A k \in 0..m : k =< n => f[k] = IF k = 0 THEN a ELSE G[<<k, f[k - 1]>>]
    BY <1>1
  <2>3. PICK x : x = G[<<m + 1, f[m]>>]
    OBVIOUS
  <2>4. m \in 0..m /\ f[m] \in X
    BY <2>1
  <2>5. x \in X
    BY <2>1, <2>3, <2>4
  <2>6. PICK g : g = [k \in 0..(m + 1) |-> IF k = m + 1 THEN x ELSE f[k]]
    OBVIOUS
  <2>7. \A k \in 0..(m + 1) : k # m + 1 => k \in 0..m
    BY <2>1
  <2>8. \A k \in 0..(m + 1) : g[k] = IF k = m + 1 THEN x ELSE f[k]
    BY <2>6
  <2>9. g \in [0..(m + 1) -> X]
    BY <2>5, <2>6, <2>7
  <2>10. ASSUME NEW k \in 0..(m + 1), k =< n PROVE g[k] = IF k = 0 THEN a ELSE G[<<k, g[k - 1]>>]
    <3>1. CASE k = m + 1
      <4>1. k - 1 = m /\ k # 0 /\ m \in 0..(m + 1) /\ m # m + 1
        BY <2>1, <3>1
      <4>2. g[m] = f[m]
        BY <2>8, <4>1
      <4>3. g[k] = x
        BY <2>8, <3>1
      <4>4. QED
        BY <2>3, <3>1, <4>1, <4>2, <4>3
    <3>2. CASE k = 0
      <4>1. 0 \in 0..(m + 1) /\ 0 # m + 1 /\ 0 \in 0..m /\ 0 =< n
        BY <2>1
      <4>2. g[0] = f[0] /\ f[0] = a
        BY <2>2, <2>8, <4>1
      <4>3. QED
        BY <3>2, <4>2
    <3>3. CASE k # m + 1 /\ k # 0
      <4>1. k \in 0..m /\ k - 1 \in 0..(m + 1) /\ k - 1 # m + 1
        BY <2>1, <2>7, <3>3
      <4>2. g[k] = f[k] /\ g[k - 1] = f[k - 1]
        BY <2>8, <3>3, <4>1
      <4>3. f[k] = G[<<k, f[k - 1]>>]
        BY <2>2, <2>10, <3>3, <4>1
      <4>4. QED
        BY <3>3, <4>2, <4>3
    <3>4. QED
      BY <3>1, <3>2, <3>3
  <2>11. QED
    BY <1>1, <2>1, <2>9, <2>10
<1>4. n \in T
  <2>1. \A k \in 0..n : k \in T
    BY <1>2, <1>3, InductionTo
  <2>2. n \in 0..n
    OBVIOUS
  <2>3. QED
    BY <2>1, <2>2
<1>5. PICK f \in [0..n -> X] : \A k \in 0..n : k =< n => f[k] = IF k = 0 THEN a ELSE G[<<k, f[k - 1]>>]
  BY <1>1, <1>4
<1>6. \A k \in 0..n : k =< n
  OBVIOUS
<1>7. QED
  BY <1>5, <1>6 DEF RoundsOf

-----------------------------------------------------------------------------
(* Sequences without repetitions *)

Injective(s) == \A i, j \in 1..Len(s) : s[i] = s[j] => i = j

Has(s, x) == \E i \in 1..Len(s) : s[i] = x

LEMMA HasToSet ==
    ASSUME NEW S, NEW s \in Seq(S)
    PROVE  \A x : x \in ToSet(s) <=> Has(s, x)
  BY DEF ToSet, Has

\* A sequence without repetitions has as many items as the set of them.
LEMMA InjectiveCount ==
    ASSUME NEW S, NEW s \in Seq(S), Injective(s), NEW T, \A x : x \in T <=> Has(s, x)
    PROVE  IsFiniteSet(T) /\ Cardinality(T) = Len(s)
<1>1. PICK n : n = Len(s)
  OBVIOUS
<1>2. n \in Nat /\ 1 \in Int /\ n \in Int
  BY <1>1
<1>3. IsFiniteSet(1..n) /\ Cardinality(1..n) = IF 1 > n THEN 0 ELSE n - 1 + 1
  BY <1>2, FS_Interval, Zenon
<1>4. Cardinality(1..n) = n
  BY <1>2, <1>3
<1>5. PICK f : f = [i \in 1..n |-> s[i]]
  OBVIOUS
<1>6. f \in [1..n -> T] /\ (\A i, j \in 1..n : f[i] = f[j] => i = j) /\ \A x \in T : \E i \in 1..n : f[i] = x
  BY <1>1, <1>5 DEF Injective, Has
<1>7. f \in Surjection(1..n, T) /\ f \in Injection(1..n, T)
  BY <1>6 DEF Surjection, Injection, IsInjective
<1>8. IsFiniteSet(T) /\ Cardinality(T) = Cardinality(1..n)
  BY <1>3, <1>7, FS_Surjection
<1>9. QED
  BY <1>1, <1>4, <1>8

LEMMA InjectiveBound ==
    ASSUME NEW S, IsFiniteSet(S), NEW s \in Seq(S), Injective(s)
    PROVE  Len(s) =< Cardinality(S) /\ Cardinality(S) \in Nat
<1>1. PICK T : T = {x \in S : Has(s, x)}
  OBVIOUS
<1>2. \A x : x \in T <=> Has(s, x)
  BY <1>1 DEF Has
<1>3. Cardinality(T) = Len(s)
  BY <1>2, InjectiveCount
<1>4. T \in SUBSET S
  BY <1>1
<1>5. Cardinality(T) =< Cardinality(S)
  BY <1>4, FS_Subset
<1>6. QED
  BY <1>3, <1>5, FS_CardinalityType

-----------------------------------------------------------------------------
(* Items that come and go *)

Inserted(s, d, x) ==
    [n \in 1..(Len(s) + 1) |-> IF n < d THEN s[n] ELSE IF n = d THEN x ELSE s[n - 1]]

Dropped(s, d) == [n \in 1..(Len(s) - 1) |-> IF n < d THEN s[n] ELSE s[n + 1]]

LEMMA InsertedSeq ==
    ASSUME NEW S, NEW s \in Seq(S), NEW d \in 1..(Len(s) + 1), NEW x \in S,
           NEW t, t = Inserted(s, d, x)
    PROVE  /\ t \in Seq(S) /\ Len(t) = Len(s) + 1
           /\ \A n \in 1..Len(t) : t[n] = IF n < d THEN s[n] ELSE IF n = d THEN x ELSE s[n - 1]
           /\ \A y : Has(t, y) <=> Has(s, y) \/ y = x
           /\ Injective(s) /\ ~Has(s, x) => Injective(t)
<1>1. PICK l : l = Len(s)
  OBVIOUS
<1>2. l \in Nat /\ l + 1 \in Nat /\ d \in 1..(l + 1) /\ \A n \in 1..l : s[n] \in S
  BY <1>1
<1>3. t = [n \in 1..(l + 1) |-> IF n < d THEN s[n] ELSE IF n = d THEN x ELSE s[n - 1]]
  BY <1>1 DEF Inserted
<1>4. \A n \in 1..(l + 1) : t[n] \in S
  BY <1>2, <1>3
<1>5. t \in Seq(S) /\ Len(t) = l + 1
  <2>1. t \in [1..(l + 1) -> S]
    BY <1>3, <1>4
  <2>2. QED
    BY <1>2, <2>1
<1>6. \A n \in 1..(l + 1) : t[n] = IF n < d THEN s[n] ELSE IF n = d THEN x ELSE s[n - 1]
  BY <1>3
<1>7. \A n \in 1..(l + 1) : \/ n = d /\ t[n] = x
                            \/ n # d /\ \E m \in 1..l : t[n] = s[m] /\ m = IF n < d THEN n ELSE n - 1
  BY <1>2, <1>6
<1>8. \A m \in 1..l : \E n \in 1..(l + 1) : t[n] = s[m]
  <2> TAKE m \in 1..l
  <2>1. CASE m < d
    <3>1. m \in 1..(l + 1) /\ t[m] = s[m]
      BY <1>2, <1>6, <2>1
    <3>2. QED
      BY <3>1
  <2>2. CASE ~(m < d)
    <3>1. m + 1 \in 1..(l + 1) /\ ~(m + 1 < d) /\ m + 1 # d /\ (m + 1) - 1 = m
      BY <1>2, <2>2
    <3>2. t[m + 1] = s[m]
      BY <1>6, <3>1
    <3>3. QED
      BY <3>1, <3>2
  <2>3. QED
    BY <2>1, <2>2
<1>9. \A y : Has(t, y) <=> Has(s, y) \/ y = x
  <2>1. d \in 1..(l + 1) /\ t[d] = x
    BY <1>2, <1>6
  <2>2. QED
    BY <1>1, <1>5, <1>7, <1>8, <2>1 DEF Has
<1>10. ASSUME Injective(s), ~Has(s, x) PROVE Injective(t)
  <2> SUFFICES ASSUME NEW i \in 1..(l + 1), NEW j \in 1..(l + 1), t[i] = t[j] PROVE i = j
    BY <1>5 DEF Injective
  <2>1. \A m \in 1..l : s[m] # x
    BY <1>1, <1>10 DEF Has
  <2>2. \A m, n \in 1..l : s[m] = s[n] => m = n
    BY <1>1, <1>10 DEF Injective
  <2>3. CASE i = d
    BY <1>7, <2>1, <2>3
  <2>4. CASE j = d
    BY <1>7, <2>1, <2>4
  <2>5. CASE i # d /\ j # d
    <3>1. PICK m \in 1..l : t[i] = s[m] /\ m = IF i < d THEN i ELSE i - 1
      BY <1>7, <2>5
    <3>2. PICK n \in 1..l : t[j] = s[n] /\ n = IF j < d THEN j ELSE j - 1
      BY <1>7, <2>5
    <3>3. m = n
      BY <2>2, <3>1, <3>2
    <3>4. QED
      BY <1>2, <2>5, <3>1, <3>2, <3>3
  <2>6. QED
    BY <2>3, <2>4, <2>5
<1>11. QED
  BY <1>1, <1>5, <1>6, <1>9, <1>10

LEMMA DroppedSeq ==
    ASSUME NEW S, NEW s \in Seq(S), NEW d \in 1..Len(s), NEW t, t = Dropped(s, d)
    PROVE  /\ t \in Seq(S) /\ Len(t) = Len(s) - 1
           /\ \A n \in 1..Len(t) : t[n] = IF n < d THEN s[n] ELSE s[n + 1]
           /\ Injective(s) => Injective(t) /\ \A y : Has(t, y) <=> Has(s, y) /\ y # s[d]
<1>1. PICK l : l = Len(s)
  OBVIOUS
<1>2. l \in Nat /\ l - 1 \in Nat /\ d \in 1..l /\ \A n \in 1..l : s[n] \in S
  BY <1>1
<1>3. t = [n \in 1..(l - 1) |-> IF n < d THEN s[n] ELSE s[n + 1]]
  BY <1>1 DEF Dropped
<1>4. \A n \in 1..(l - 1) : t[n] \in S
  BY <1>2, <1>3
<1>5. t \in Seq(S) /\ Len(t) = l - 1
  <2>1. t \in [1..(l - 1) -> S]
    BY <1>3, <1>4
  <2>2. QED
    BY <1>2, <2>1
<1>6. \A n \in 1..(l - 1) : t[n] = IF n < d THEN s[n] ELSE s[n + 1]
  BY <1>3
<1>7. \A n \in 1..(l - 1) : \E m \in 1..l : m # d /\ t[n] = s[m] /\ m = IF n < d THEN n ELSE n + 1
  BY <1>2, <1>6
<1>8. \A m \in 1..l : m # d => \E n \in 1..(l - 1) : t[n] = s[m]
  <2> SUFFICES ASSUME NEW m \in 1..l, m # d PROVE \E n \in 1..(l - 1) : t[n] = s[m]
    OBVIOUS
  <2>1. CASE m < d
    <3>1. m \in 1..(l - 1) /\ t[m] = s[m]
      BY <1>2, <1>6, <2>1
    <3>2. QED
      BY <3>1
  <2>2. CASE ~(m < d)
    <3>1. m - 1 \in 1..(l - 1) /\ ~(m - 1 < d) /\ (m - 1) + 1 = m
      BY <1>2, <2>2
    <3>2. t[m - 1] = s[m]
      BY <1>6, <3>1
    <3>3. QED
      BY <3>1, <3>2
  <2>3. QED
    BY <2>1, <2>2
<1>9. ASSUME Injective(s) PROVE Injective(t) /\ \A y : Has(t, y) <=> Has(s, y) /\ y # s[d]
  <2>1. \A m, n \in 1..l : s[m] = s[n] => m = n
    BY <1>1, <1>9 DEF Injective
  <2>2. Injective(t)
    <3> SUFFICES ASSUME NEW i \in 1..(l - 1), NEW j \in 1..(l - 1), t[i] = t[j] PROVE i = j
      BY <1>5 DEF Injective
    <3>1. PICK m \in 1..l : t[i] = s[m] /\ m = IF i < d THEN i ELSE i + 1
      BY <1>7
    <3>2. PICK n \in 1..l : t[j] = s[n] /\ n = IF j < d THEN j ELSE j + 1
      BY <1>7
    <3>3. m = n
      BY <2>1, <3>1, <3>2
    <3>4. QED
      BY <1>2, <3>1, <3>2, <3>3
  <2>3. ASSUME NEW y, Has(t, y) PROVE Has(s, y) /\ y # s[d]
    <3>1. PICK n \in 1..(l - 1) : t[n] = y
      BY <1>5, <2>3 DEF Has
    <3>2. PICK m \in 1..l : m # d /\ s[m] = y
      BY <1>7, <3>1
    <3>3. QED
      BY <1>1, <1>2, <2>1, <3>2 DEF Has
  <2>4. ASSUME NEW y, Has(s, y), y # s[d] PROVE Has(t, y)
    BY <1>1, <1>5, <1>8, <2>4 DEF Has
  <2>5. QED
    BY <2>2, <2>3, <2>4
<1>10. QED
  BY <1>1, <1>5, <1>6, <1>9

-----------------------------------------------------------------------------
(* Sequences joined *)

\* u is s and then t.
Joined(u, s, t, k, l) ==
    Len(u) = k + l /\ \A n \in 1..(k + l) : u[n] = IF n =< k THEN s[n] ELSE t[n - k]

LEMMA JoinedItems ==
    ASSUME NEW S, NEW s \in Seq(S), NEW t \in Seq(S), NEW k, k = Len(s), NEW l, l = Len(t),
           NEW u, u = s \o t
    PROVE  u \in Seq(S) /\ Joined(u, s, t, k, l)
  BY DEF Joined

LEMMA JoinedSeq ==
    ASSUME NEW S, NEW s \in Seq(S), NEW t \in Seq(S), NEW u, u = s \o t
    PROVE  /\ u \in Seq(S) /\ Len(u) = Len(s) + Len(t)
           /\ \A n \in 1..Len(s) : u[n] = s[n]
           /\ \A n \in 1..Len(t) : u[Len(s) + n] = t[n]
           /\ \A y : Has(u, y) <=> Has(s, y) \/ Has(t, y)
           /\ Injective(s) /\ Injective(t) /\ (\A y : ~(Has(s, y) /\ Has(t, y))) => Injective(u)
<1>1. PICK k : k = Len(s)
  OBVIOUS
<1>2. PICK l : l = Len(t)
  OBVIOUS
<1>3. k \in Nat /\ l \in Nat
  BY <1>1, <1>2
<1>4. /\ u \in Seq(S) /\ Len(u) = k + l
      /\ \A n \in 1..(k + l) : u[n] = IF n =< k THEN s[n] ELSE t[n - k]
  BY <1>1, <1>2
<1>5. \A n \in 1..k : n \in 1..(k + l) /\ u[n] = s[n]
  BY <1>3, <1>4
<1>6. \A n \in 1..l : k + n \in 1..(k + l) /\ u[k + n] = t[n]
  <2> TAKE n \in 1..l
  <2>1. k + n \in 1..(k + l) /\ ~(k + n =< k) /\ (k + n) - k = n
    BY <1>3
  <2>2. QED
    BY <1>4, <2>1
<1>7. \A n \in 1..(k + l) : \/ n \in 1..k /\ u[n] = s[n]
                            \/ n - k \in 1..l /\ u[n] = t[n - k]
  BY <1>3, <1>4
<1>8. \A y : Has(u, y) <=> Has(s, y) \/ Has(t, y)
  <2>1. ASSUME NEW y, Has(u, y) PROVE Has(s, y) \/ Has(t, y)
    <3>1. PICK n \in 1..(k + l) : u[n] = y
      BY <1>4, <2>1 DEF Has
    <3>2. QED
      BY <1>1, <1>2, <1>7, <3>1 DEF Has
  <2>2. ASSUME NEW y, Has(s, y) PROVE Has(u, y)
    BY <1>1, <1>4, <1>5, <2>2 DEF Has
  <2>3. ASSUME NEW y, Has(t, y) PROVE Has(u, y)
    <3>1. PICK n \in 1..l : t[n] = y
      BY <1>2, <2>3 DEF Has
    <3>2. QED
      BY <1>4, <1>6, <3>1 DEF Has
  <2>4. QED
    BY <2>1, <2>2, <2>3
<1>9. ASSUME Injective(s), Injective(t), \A y : ~(Has(s, y) /\ Has(t, y)) PROVE Injective(u)
  <2> SUFFICES ASSUME NEW i \in 1..(k + l), NEW j \in 1..(k + l), u[i] = u[j] PROVE i = j
    BY <1>4 DEF Injective
  <2>1. \A m \in 1..k, n \in 1..l : s[m] # t[n]
    BY <1>1, <1>2, <1>9 DEF Has
  <2>2. \A m, n \in 1..k : s[m] = s[n] => m = n
    BY <1>1, <1>9 DEF Injective
  <2>3. \A m, n \in 1..l : t[m] = t[n] => m = n
    BY <1>2, <1>9 DEF Injective
  <2>4. CASE i \in 1..k /\ u[i] = s[i] /\ j \in 1..k /\ u[j] = s[j]
    BY <2>2, <2>4
  <2>5. CASE i \in 1..k /\ u[i] = s[i] /\ j - k \in 1..l /\ u[j] = t[j - k]
    BY <2>1, <2>5
  <2>6. CASE i - k \in 1..l /\ u[i] = t[i - k] /\ j \in 1..k /\ u[j] = s[j]
    BY <2>1, <2>6
  <2>7. CASE i - k \in 1..l /\ u[i] = t[i - k] /\ j - k \in 1..l /\ u[j] = t[j - k]
    <3>1. i - k = j - k
      BY <2>3, <2>7
    <3>2. QED
      BY <1>3, <3>1
  <2>8. QED
    BY <1>7, <2>4, <2>5, <2>6, <2>7
<1>10. QED
  BY <1>1, <1>2, <1>4, <1>5, <1>6, <1>8, <1>9

Flat(f, ss) == f = [i \in 1..Len(ss) |-> IF i = 1 THEN ss[i] ELSE f[i - 1] \o ss[i]]

LEMMA FlattenDefined ==
    ASSUME NEW S, NEW ss \in Seq(S), ss # <<>>
    PROVE  \E f : Flat(f, ss) /\ FlattenSeq(ss) = f[Len(ss)]
<1>1. PICK l : l = Len(ss)
  OBVIOUS
<1>2. l \in Nat /\ l # 0
  BY <1>1
<1>3. PICK T : T = {n \in Nat : \E f : f = [i \in 1..n |-> IF i = 1 THEN ss[i] ELSE f[i - 1] \o ss[i]]}
  OBVIOUS
<1>4. 0 \in T
  <2>1. PICK f : f = [i \in 1..0 |-> ss[i]]
    OBVIOUS
  <2>2. f = [i \in 1..0 |-> IF i = 1 THEN ss[i] ELSE f[i - 1] \o ss[i]]
    BY <2>1
  <2>3. QED
    BY <1>3, <2>2
<1>5. \A n \in Nat : n \in T => n + 1 \in T
  <2> SUFFICES ASSUME NEW n \in Nat, n \in T PROVE n + 1 \in T
    OBVIOUS
  <2>1. PICK f : f = [i \in 1..n |-> IF i = 1 THEN ss[i] ELSE f[i - 1] \o ss[i]]
    BY <1>3
  <2>2. PICK g : g = [i \in 1..(n + 1) |-> IF i = 1 THEN ss[i] ELSE f[i - 1] \o ss[i]]
    OBVIOUS
  <2>3. \A i \in 1..n : g[i] = f[i]
    <3>1. \A i \in 1..n : f[i] = IF i = 1 THEN ss[i] ELSE f[i - 1] \o ss[i]
      BY <2>1, Zenon
    <3>2. \A i \in 1..(n + 1) : g[i] = IF i = 1 THEN ss[i] ELSE f[i - 1] \o ss[i]
      BY <2>2, Zenon
    <3>3. \A i \in 1..n : i \in 1..(n + 1)
      OBVIOUS
    <3>4. QED
      BY <3>1, <3>2, <3>3, Zenon
  <2>4. \A i \in 1..(n + 1) : i # 1 => g[i - 1] = f[i - 1]
    BY <2>3
  <2>5. g = [i \in 1..(n + 1) |-> IF i = 1 THEN ss[i] ELSE g[i - 1] \o ss[i]]
    BY <2>2, <2>4
  <2>6. n + 1 \in Nat
    OBVIOUS
  <2>7. QED
    BY <1>3, <2>5, <2>6, Zenon
<1>6. l \in T
  BY <1>2, <1>4, <1>5, Induction
<1>7. PICK f : f = CHOOSE g : Flat(g, ss)
  OBVIOUS
<1>8. Flat(f, ss)
  BY <1>1, <1>3, <1>6, <1>7, Zenon DEF Flat
<1>9. FlattenSeq(ss) = f[Len(ss)]
  BY <1>1, <1>2, <1>7, Zenon DEF FlattenSeq, Flat
<1>10. QED
  BY <1>8, <1>9

LEMMA JoinAssociative ==
    ASSUME NEW S, NEW p \in Seq(S), NEW q \in Seq(S), NEW r \in Seq(S)
    PROVE  (p \o q) \o r = p \o (q \o r)
  BY ConcatAssociative

JoinsLeft(f, ss, l) == \A n \in 1..l : f[n] = IF n = 1 THEN ss[n] ELSE f[n - 1] \o ss[n]
AllSequences(ss, l, S) == \A n \in 1..l : ss[n] \in Seq(S)
AllAfter(tt, ss, l) == \A n \in 1..l : tt[n] = ss[n + 1]

\* f joins the sequences of ss from the left, g those of ss but for the first.
LEMMA FlatTail ==
    ASSUME NEW S, NEW l \in Nat, l - 1 \in Nat, l - 1 # 0,
           NEW ss, AllSequences(ss, l, S), NEW tt, AllAfter(tt, ss, l - 1),
           NEW f, JoinsLeft(f, ss, l), NEW g, JoinsLeft(g, tt, l - 1)
    PROVE  g[l - 1] \in Seq(S) /\ f[l] = ss[1] \o g[l - 1] /\ f[l] \in Seq(S)
<1>0. /\ \A n \in 1..l : f[n] = IF n = 1 THEN ss[n] ELSE f[n - 1] \o ss[n]
      /\ \A n \in 1..(l - 1) : g[n] = IF n = 1 THEN tt[n] ELSE g[n - 1] \o tt[n]
      /\ \A n \in 1..l : ss[n] \in Seq(S)
      /\ \A n \in 1..(l - 1) : tt[n] = ss[n + 1]
  BY Zenon DEF JoinsLeft, AllSequences, AllAfter
<1>1. l - 1 \in Nat /\ l - 1 # 0 /\ 1 \in 1..(l - 1) /\ 1 \in 1..l
  OBVIOUS
<1>2. f[1] = ss[1]
  BY <1>0, <1>1
<1>3. PICK T : T = {n \in Nat : n + 1 \in 1..(l - 1) =>
                        g[n + 1] \in Seq(S) /\ f[n + 2] = ss[1] \o g[n + 1] /\ f[n + 2] \in Seq(S)}
  OBVIOUS
<1>4. 0 \in T
  <2>1. 0 + 1 = 1 /\ 0 + 2 = 2 /\ 1 + 1 = 2 /\ 2 - 1 = 1 /\ 2 \in 1..l /\ 2 # 1
    BY <1>1
  <2>2. g[1] = ss[2]
    BY <1>0, <1>1, <2>1
  <2>3. f[2] = ss[1] \o ss[2]
    BY <1>0, <1>2, <2>1
  <2>4. ss[1] \in Seq(S) /\ ss[2] \in Seq(S)
    BY <1>0, <1>1, <2>1
  <2>5. ss[1] \o ss[2] \in Seq(S)
    BY <2>4
  <2>6. QED
    BY <1>3, <2>1, <2>2, <2>3, <2>4, <2>5
<1>5. \A n \in Nat : n \in T => n + 1 \in T
  <2> SUFFICES ASSUME NEW n \in Nat, n \in T, (n + 1) + 1 \in 1..(l - 1)
               PROVE  /\ g[(n + 1) + 1] \in Seq(S) /\ f[(n + 1) + 2] = ss[1] \o g[(n + 1) + 1]
                      /\ f[(n + 1) + 2] \in Seq(S)
    <3>1. \A i \in Nat : i + 1 \in Nat
      OBVIOUS
    <3>2. QED
      BY <1>3, <3>1
  <2>1. PICK k : k = n + 2
    OBVIOUS
  <2>2. /\ k \in Nat /\ n + 1 = k - 1 /\ n + 2 = k /\ (n + 1) + 1 = k /\ (n + 1) + 2 = k + 1
        /\ k \in 1..(l - 1) /\ k # 1 /\ k - 1 \in 1..(l - 1)
        /\ k + 1 \in 1..l /\ k + 1 # 1 /\ (k + 1) - 1 = k
    BY <1>1, <2>1
  <2>3. g[k - 1] \in Seq(S) /\ f[k] = ss[1] \o g[k - 1]
    BY <1>3, <2>2
  <2>4. g[k] = g[k - 1] \o ss[k + 1] /\ f[k + 1] = f[k] \o ss[k + 1]
    BY <1>0, <2>2
  <2>5. PICK a \in Seq(S), b \in Seq(S), c \in Seq(S) : a = ss[1] /\ b = g[k - 1] /\ c = ss[k + 1]
    BY <1>0, <1>1, <2>2, <2>3
  <2>6. (a \o b) \o c = a \o (b \o c)
    <3>1. a \in Seq(S) /\ b \in Seq(S) /\ c \in Seq(S)
      BY <2>5
    <3>2. QED
      BY <3>1, JoinAssociative
  <2>7. b \o c \in Seq(S) /\ a \o (b \o c) \in Seq(S)
    BY <2>5
  <2>8. g[k] = b \o c /\ f[k + 1] = a \o (b \o c)
    BY <2>3, <2>4, <2>5, <2>6
  <2>9. QED
    BY <2>2, <2>5, <2>7, <2>8
<1>6. PICK m \in Nat : m + 1 = l - 1
  <2>1. l - 2 \in Nat /\ (l - 2) + 1 = l - 1
    BY <1>1
  <2>2. QED
    BY <2>1
<1>7. m \in T
  BY <1>4, <1>5, Induction
<1>8. m + 1 \in 1..(l - 1) /\ m + 2 = l
  BY <1>1, <1>6
<1>9. g[m + 1] \in Seq(S) /\ f[m + 2] = ss[1] \o g[m + 1] /\ f[m + 2] \in Seq(S)
  BY <1>3, <1>7, <1>8
<1>10. m + 1 = l - 1
  BY <1>6
<1>11. QED
  BY <1>8, <1>9, <1>10

\* Sequences that are joined can be joined from the left.
LEMMA FlattenHead ==
    ASSUME NEW S, NEW ss \in Seq(Seq(S)), ss # <<>>
    PROVE  /\ FlattenSeq(ss) \in Seq(S) /\ FlattenSeq(Tail(ss)) \in Seq(S)
           /\ FlattenSeq(ss) = Head(ss) \o FlattenSeq(Tail(ss))
<1>1. PICK l : l = Len(ss)
  OBVIOUS
<1>2. PICK tt : tt = Tail(ss)
  OBVIOUS
<1>3. l \in Nat /\ l # 0 /\ \A n \in 1..l : ss[n] \in Seq(S)
  BY <1>1
<1>4. /\ tt \in Seq(Seq(S)) /\ Len(tt) = l - 1
      /\ \A n \in 1..(l - 1) : tt[n] = ss[n + 1]
  BY <1>1, <1>2
<1>5. Head(ss) = ss[1]
  OBVIOUS
<1>6. PICK f : Flat(f, ss) /\ FlattenSeq(ss) = f[Len(ss)]
  BY FlattenDefined
<1>7. \A n \in 1..l : f[n] = IF n = 1 THEN ss[n] ELSE f[n - 1] \o ss[n]
  BY <1>1, <1>6, Zenon DEF Flat
<1>8. 1 \in 1..l /\ f[1] = ss[1]
  BY <1>3, <1>7
<1>9. CASE l = 1
  <2>1. FlattenSeq(ss) = ss[1] /\ ss[1] \in Seq(S)
    BY <1>1, <1>3, <1>6, <1>8, <1>9
  <2>2. tt = <<>>
    BY <1>4, <1>9
  <2>3. Len(tt) = 0
    BY <1>4, <1>9
  <2>4. FlattenSeq(tt) = tt
    BY <2>3, Zenon DEF FlattenSeq
  <2>5. PICK a \in Seq(S) : a = ss[1]
    BY <2>1
  <2>6. a \o <<>> = a
    OBVIOUS
  <2>7. FlattenSeq(tt) = <<>> /\ FlattenSeq(tt) \in Seq(S)
    <3>1. <<>> \in Seq(S)
      OBVIOUS
    <3>2. QED
      BY <2>2, <2>4, <3>1, Zenon
  <2>8. QED
    BY <1>2, <1>5, <2>1, <2>5, <2>6, <2>7
<1>10. CASE l # 1
  <2>1. l - 1 \in Nat /\ l - 1 # 0 /\ 1 \in 1..(l - 1)
    BY <1>3, <1>10
  <2>2. tt # <<>>
    BY <1>4, <2>1
  <2>3. PICK g : Flat(g, tt) /\ FlattenSeq(tt) = g[Len(tt)]
    BY <1>4, <2>2, FlattenDefined
  <2>4. \A n \in 1..(l - 1) : g[n] = IF n = 1 THEN tt[n] ELSE g[n - 1] \o tt[n]
    BY <1>4, <2>3, Zenon DEF Flat
  <2>5. JoinsLeft(f, ss, l) /\ JoinsLeft(g, tt, l - 1)
    BY <1>7, <2>4, Zenon DEF JoinsLeft
  <2>6. AllSequences(ss, l, S) /\ AllAfter(tt, ss, l - 1)
    BY <1>3, <1>4, Zenon DEF AllSequences, AllAfter
  <2>7. g[l - 1] \in Seq(S) /\ f[l] = ss[1] \o g[l - 1] /\ f[l] \in Seq(S)
    BY <1>3, <2>1, <2>5, <2>6, FlatTail
  <2>8. FlattenSeq(ss) = f[l] /\ FlattenSeq(tt) = g[l - 1]
    BY <1>1, <1>4, <1>6, <2>3
  <2>9. QED
    BY <1>2, <1>5, <2>7, <2>8
<1>11. QED
  BY <1>9, <1>10

\* Where the pieces of a joined sequence are found: piece i from the place pos[i] on.
Places(pos, ss, t, n) ==
    /\ pos[1] = 1
    /\ \A i \in 1..n : /\ pos[i] \in Nat /\ pos[i] >= i
                       /\ pos[i + 1] = pos[i] + Len(ss[i]) /\ pos[i + 1] =< Len(t) + 1
                       /\ \A k \in 1..Len(ss[i]) : t[pos[i] + k - 1] = ss[i][k]
    /\ pos[n + 1] = Len(t) + 1 /\ Len(t) >= n

LEMMA PlacesJoin ==
    ASSUME NEW S, NEW ss, NEW n \in Nat, \A i \in 1..(n + 1) : ss[i] \in Seq(S), NEW t \in Seq(S), NEW pos, Places(pos, ss, t, n),
           NEW v \in Seq(S), v = ss[n + 1], v # <<>>, n # 0, NEW u, u = t \o v
    PROVE  \E h : Places(h, ss, u, n + 1)
<1>1. PICK l \in Nat : l = Len(t)
  OBVIOUS
<1>2. PICK w \in Nat : w = Len(v) /\ w # 0
  OBVIOUS
<1>3. u \in Seq(S) /\ Len(u) = l + w /\ \A k \in 1..(l + w) : u[k] = IF k =< l THEN t[k] ELSE v[k - l]
  BY <1>1, <1>2
<1>4. PICK h : h = [i \in 1..(n + 2) |-> IF i = n + 2 THEN l + w + 1 ELSE pos[i]]
  OBVIOUS
<1>5. \A i \in 1..(n + 2) : h[i] = IF i = n + 2 THEN l + w + 1 ELSE pos[i]
  BY <1>4, Zenon
<1>6. /\ pos[1] = 1 /\ pos[n + 1] = l + 1 /\ l >= n
      /\ \A i \in 1..n : /\ pos[i] \in Nat /\ pos[i] >= i
                         /\ pos[i + 1] = pos[i] + Len(ss[i]) /\ pos[i + 1] =< l + 1
                         /\ \A k \in 1..Len(ss[i]) : t[pos[i] + k - 1] = ss[i][k]
  BY <1>1, Zenon DEF Places
<1>7. h[1] = 1 /\ h[(n + 1) + 1] = l + w + 1 /\ h[n + 1] = l + 1
  <2>1. 1 \in 1..(n + 2) /\ 1 # n + 2 /\ (n + 1) + 1 = n + 2 /\ n + 2 \in 1..(n + 2)
        /\ n + 1 \in 1..(n + 2) /\ n + 1 # n + 2
    OBVIOUS
  <2>2. QED
    BY <1>5, <1>6, <2>1
<1>8. ASSUME NEW i \in 1..(n + 1)
      PROVE  /\ h[i] \in Nat /\ h[i] >= i /\ h[i + 1] = h[i] + Len(ss[i]) /\ h[i + 1] =< (l + w) + 1
             /\ \A k \in 1..Len(ss[i]) : u[h[i] + k - 1] = ss[i][k]
  <2>1. CASE i = n + 1
    <3>2. h[i] = l + 1 /\ h[i + 1] = l + w + 1 /\ ss[i] = v
      <4>1. i = n + 1 /\ i + 1 = (n + 1) + 1
        BY <2>1
      <4>2. QED
        BY <1>7, <4>1
    <3>4. \A k \in 1..w : u[(l + 1) + k - 1] = v[k]
      <4> TAKE k \in 1..w
      <4>1. (l + 1) + k - 1 \in 1..(l + w) /\ ~((l + 1) + k - 1 =< l) /\ ((l + 1) + k - 1) - l = k
        BY <1>1, <1>2
      <4>2. QED
        BY <1>3, <4>1
    <3>5. l + 1 \in Nat /\ l + 1 >= i /\ l + w + 1 = (l + 1) + w /\ l + w + 1 =< (l + w) + 1
      <4>1. l >= n /\ l \in Nat /\ w \in Nat /\ i = n + 1
        BY <1>6, <2>1
      <4>2. QED
        BY <4>1
    <3>6. QED
      BY <1>2, <3>2, <3>4, <3>5
  <2>2. CASE i # n + 1
    <3>1. i \in 1..n /\ i \in 1..(n + 2) /\ i # n + 2 /\ i + 1 \in 1..(n + 2) /\ i + 1 # n + 2
      BY <2>2
    <3>2. h[i] = pos[i] /\ h[i + 1] = pos[i + 1]
      BY <1>5, <3>1
    <3>3. PICK m : m = pos[i]
      OBVIOUS
    <3>4. PICK e \in Seq(S) : e = ss[i]
      BY <3>1
    <3>5. m \in Nat /\ m >= i /\ pos[i + 1] = m + Len(e) /\ m + Len(e) =< l + 1
          /\ \A k \in 1..Len(e) : t[m + k - 1] = e[k]
      BY <1>6, <3>1, <3>3, <3>4
    <3>6. \A k \in 1..Len(e) : u[m + k - 1] = e[k]
      <4> TAKE k \in 1..Len(e)
      <4>1. m + k - 1 \in 1..(l + w) /\ m + k - 1 =< l
        BY <1>1, <1>2, <3>1, <3>5
      <4>2. QED
        BY <1>3, <3>5, <4>1
    <3>7. m + Len(e) =< (l + w) + 1
      BY <1>1, <1>2, <3>5
    <3>8. QED
      BY <3>2, <3>3, <3>4, <3>5, <3>6, <3>7
  <2>3. QED
    BY <2>1, <2>2
<1>9. Places(h, ss, u, n + 1)
  <2>1. l + w >= n + 1
    BY <1>1, <1>2, <1>6
  <2>2. QED
    BY <1>3, <1>7, <1>8, <2>1, Zenon DEF Places
<1>10. QED
  BY <1>9

\* Every piece is found in the joined sequence.
LEMMA FlattenPlaces ==
    ASSUME NEW S, NEW ss \in Seq(Seq(S)), NEW n \in Nat, n = Len(ss), n # 0,
           \A i \in 1..n : ss[i] # <<>>, NEW t, t = FlattenSeq(ss)
    PROVE  t \in Seq(S) /\ \E h : Places(h, ss, t, n)
<1>1. \A i \in 1..n : ss[i] \in Seq(S)
  OBVIOUS
<1>2. PICK f : Flat(f, ss) /\ t = f[n]
  <2>1. ss # <<>>
    OBVIOUS
  <2>2. QED
    BY <2>1, FlattenDefined
<1>3. \A i \in 1..n : f[i] = IF i = 1 THEN ss[i] ELSE f[i - 1] \o ss[i]
  BY <1>2, Zenon DEF Flat
<1>4. PICK T : T = {k \in 0..(n - 1) : f[k + 1] \in Seq(S) /\ \E h : Places(h, ss, f[k + 1], k + 1)}
  OBVIOUS
<1>5. 0 \in T
  <2>1. PICK v \in Seq(S) : v = ss[1]
    BY <1>1
  <2>2. 1 \in 1..n /\ 0 \in 0..(n - 1) /\ f[1] = v
    BY <1>3, <2>1
  <2>3. PICK w \in Nat : w = Len(v) /\ w # 0
    BY <2>1, <2>2
  <2>4. PICK h : h = [i \in 1..2 |-> IF i = 1 THEN 1 ELSE w + 1]
    OBVIOUS
  <2>5. h[1] = 1 /\ h[2] = w + 1
    BY <2>4
  <2>6. \A i \in 1..1 : /\ h[i] \in Nat /\ h[i] >= i
                        /\ h[i + 1] = h[i] + Len(ss[i]) /\ h[i + 1] =< Len(v) + 1
                        /\ \A k \in 1..Len(ss[i]) : v[h[i] + k - 1] = ss[i][k]
    <3> TAKE i \in 1..1
    <3>1. i = 1 /\ h[i] = 1 /\ h[i + 1] = w + 1 /\ ss[i] = v
      BY <2>1, <2>5
    <3>2. \A k \in 1..w : v[1 + k - 1] = v[k]
      OBVIOUS
    <3>3. QED
      BY <2>3, <3>1, <3>2
  <2>7. Places(h, ss, v, 1)
    BY <2>3, <2>5, <2>6 DEF Places
  <2>8. 0 + 1 = 1
    OBVIOUS
  <2>9. QED
    BY <1>4, <2>1, <2>2, <2>7, <2>8
<1>6. \A k \in 0..((n - 1) - 1) : k \in T => k + 1 \in T
  <2> SUFFICES ASSUME NEW k \in 0..((n - 1) - 1), k \in T PROVE k + 1 \in T
    OBVIOUS
  <2>1. PICK m \in Nat : m = k + 1 /\ m # 0 /\ m + 1 \in 1..n /\ m + 1 # 1 /\ (m + 1) - 1 = m /\ m \in 0..(n - 1)
    OBVIOUS
  <2>2. PICK x \in Seq(S) : x = f[m]
    BY <1>4, <2>1
  <2>3. PICK pos : Places(pos, ss, x, m)
    BY <1>4, <2>1, <2>2
  <2>4. PICK v \in Seq(S) : v = ss[m + 1] /\ v # <<>>
    BY <1>1, <2>1
  <2>5. PICK u : u = x \o v
    OBVIOUS
  <2>6. u \in Seq(S) /\ f[m + 1] = u
    <3>1. f[m + 1] = f[(m + 1) - 1] \o ss[m + 1]
      BY <1>3, <2>1, Zenon
    <3>2. f[m + 1] = u
      BY <2>1, <2>2, <2>4, <2>5, <3>1, Zenon
    <3>3. u \in Seq(S)
      BY <2>2, <2>4, <2>5, ConcatProperties
    <3>4. QED
      BY <3>2, <3>3
  <2>7. \A i \in 1..(m + 1) : ss[i] \in Seq(S)
    <3>1. \A i \in 1..(m + 1) : i \in 1..n
      BY <2>1
    <3>2. QED
      BY <1>1, <3>1
  <2>8. \E h : Places(h, ss, u, m + 1)
    BY <2>1, <2>2, <2>3, <2>4, <2>5, <2>7, PlacesJoin
  <2>9. QED
    BY <1>4, <2>1, <2>6, <2>8
<1>7. n - 1 \in T
  <2>1. n - 1 \in Nat /\ n - 1 \in 0..(n - 1)
    OBVIOUS
  <2>2. \A k \in 0..(n - 1) : k \in T
    BY <1>5, <1>6, <2>1, InductionTo
  <2>3. QED
    BY <2>1, <2>2
<1>8. (n - 1) + 1 = n
  OBVIOUS
<1>9. QED
  BY <1>2, <1>4, <1>7, <1>8

\* Sequences that have nothing twice, alone or together, are one without repetitions.
LEMMA FlattenedSeq ==
    ASSUME NEW S, NEW ss \in Seq(Seq(S)), \A m \in 1..Len(ss) : Injective(ss[m]),
           \A m, n \in 1..Len(ss) : \A y : Has(ss[m], y) /\ Has(ss[n], y) => m = n,
           NEW t, t = FlattenSeq(ss)
    PROVE  /\ t \in Seq(S) /\ Injective(t)
           /\ \A y : Has(t, y) <=> \E m \in 1..Len(ss) : Has(ss[m], y)
<1>1. PICK l : l = Len(ss)
  OBVIOUS
<1>2. l \in Nat /\ \A m \in 1..l : ss[m] \in Seq(S)
  BY <1>1
<1>3. CASE ss = <<>>
  <2>1. t = <<>>
    BY <1>3 DEF FlattenSeq
  <2>2. t \in Seq(S) /\ Len(t) = 0 /\ Len(ss) = 0
    <3>1. <<>> \in Seq(S) /\ Len(<<>>) = 0
      OBVIOUS
    <3>2. QED
      BY <1>3, <2>1, <3>1, Zenon
  <2>3. QED
    BY <2>2 DEF Injective, Has
<1>4. CASE ss # <<>>
  <2>1. PICK f : Flat(f, ss) /\ t = f[l]
    BY <1>1, <1>4, FlattenDefined
  <2>2. l # 0 /\ \A i \in 1..l : f[i] = IF i = 1 THEN ss[i] ELSE f[i - 1] \o ss[i]
    <3>1. \A i \in 1..l : f[i] = IF i = 1 THEN ss[i] ELSE f[i - 1] \o ss[i]
      BY <1>1, <2>1, Zenon DEF Flat
    <3>2. QED
      BY <1>1, <1>4, <3>1
  <2>3. PICK T : T = {k \in Nat : k + 1 \in 1..l =>
                          /\ f[k + 1] \in Seq(S) /\ Injective(f[k + 1])
                          /\ \A y : Has(f[k + 1], y) <=> \E m \in 1..(k + 1) : Has(ss[m], y)}
    OBVIOUS
  <2>4. 0 \in T
    <3>1. 0 + 1 \in 1..l => f[1] = ss[1]
      BY <2>2
    <3>2. \A m \in 1..(0 + 1) : m = 1
      OBVIOUS
    <3>3. QED
      BY <1>1, <1>2, <2>3, <3>1, <3>2
  <2>5. \A k \in Nat : k \in T => k + 1 \in T
    <3> SUFFICES ASSUME NEW k \in Nat, k \in T, (k + 1) + 1 \in 1..l PROVE k + 1 \in T
      <4>1. \A k \in Nat : k + 1 \in Nat
        OBVIOUS
      <4>2. QED
        BY <2>3, <4>1
    <3>1. k + 1 \in 1..l /\ k + 2 \in 1..l /\ (k + 1) + 1 = k + 2 /\ k + 2 # 1 /\ (k + 2) - 1 = k + 1
      BY <1>2
    <3>2. PICK u : u = f[k + 1]
      OBVIOUS
    <3>3. /\ u \in Seq(S) /\ Injective(u)
          /\ \A y : Has(u, y) <=> \E m \in 1..(k + 1) : Has(ss[m], y)
      BY <2>3, <3>1, <3>2
    <3>4. PICK v : v = ss[k + 2]
      OBVIOUS
    <3>5. v \in Seq(S) /\ Injective(v)
      BY <1>1, <1>2, <3>1, <3>4
    <3>6. PICK w : w = f[k + 2]
      OBVIOUS
    <3>7. w = u \o v
      BY <2>2, <3>1, <3>2, <3>4, <3>6
    <3>8. \A y : ~(Has(u, y) /\ Has(v, y))
      <4> SUFFICES ASSUME NEW y, Has(u, y), Has(v, y) PROVE FALSE
        OBVIOUS
      <4>1. PICK m \in 1..(k + 1) : Has(ss[m], y)
        BY <3>3
      <4>2. m \in 1..l /\ m # k + 2
        BY <1>2, <3>1
      <4>3. QED
        BY <1>1, <3>1, <3>4, <4>1, <4>2
    <3>9. w \in Seq(S) /\ Injective(w) /\ \A y : Has(w, y) <=> Has(u, y) \/ Has(v, y)
      BY <3>3, <3>5, <3>7, <3>8, JoinedSeq
    <3>10. \A m : m \in 1..((k + 1) + 1) <=> m \in 1..(k + 1) \/ m = k + 2
      OBVIOUS
    <3>11. \A y : Has(w, y) <=> \E m \in 1..((k + 1) + 1) : Has(ss[m], y)
      BY <3>3, <3>4, <3>9, <3>10
    <3>12. k + 1 \in Nat
      OBVIOUS
    <3>13. QED
      BY <2>3, <3>1, <3>6, <3>9, <3>11, <3>12
  <2>6. l - 1 \in Nat /\ (l - 1) + 1 = l /\ l \in 1..l
    BY <1>2, <2>2
  <2>7. l - 1 \in T
    BY <2>4, <2>5, <2>6, Induction
  <2>8. QED
    BY <1>1, <2>1, <2>3, <2>6, <2>7
<1>5. QED
  BY <1>3, <1>4

-----------------------------------------------------------------------------
(* Insertions and removals as the library writes them *)

LEMMA AppendedSeq ==
    ASSUME NEW S, NEW s \in Seq(S), NEW x \in S
    PROVE  Append(s, x) = Inserted(s, Len(s) + 1, x)
<1>1. PICK l : l = Len(s)
  OBVIOUS
<1>2. l \in Nat /\ s = [n \in 1..l |-> s[n]]
  BY <1>1
<1>3. Append(s, x) = [n \in 1..(l + 1) |-> IF n = l + 1 THEN x ELSE s[n]]
  BY <1>1, <1>2
<1>4. Inserted(s, l + 1, x) = [n \in 1..(l + 1) |-> IF n < l + 1 THEN s[n] ELSE IF n = l + 1 THEN x ELSE s[n - 1]]
  BY <1>1 DEF Inserted
<1>5. \A n \in 1..(l + 1) : (n = l + 1 \/ n < l + 1) /\ ~(n = l + 1 /\ n < l + 1)
  BY <1>2
<1>6. Append(s, x) = [n \in 1..(l + 1) |-> IF n < l + 1 THEN s[n] ELSE IF n = l + 1 THEN x ELSE s[n - 1]]
  BY <1>3, <1>5
<1>7. QED
  BY <1>1, <1>4, <1>6

\* The items of s from the place d on.
Suffix(s, d) == [n \in 1..(Len(s) + 1 - d) |-> s[n + d - 1]]

LEMMA InsertedParts ==
    ASSUME NEW S, NEW s \in Seq(S), NEW x \in S, NEW n \in 0..Len(s)
    PROVE  SubSeq(s, 1, n) \o <<x>> \o SubSeq(s, n + 1, Len(s)) = Inserted(s, n + 1, x)
<1>1. PICK l : l = Len(s)
  OBVIOUS
<1>2. l \in Nat /\ n \in 0..l
  BY <1>1
<1>3. PICK a : a = SubSeq(s, 1, n)
  OBVIOUS
<1>4. PICK c : c = SubSeq(s, n + 1, l)
  OBVIOUS
<1>5. PICK b : b = <<x>>
  OBVIOUS
<1>6. a \in Seq(S) /\ Len(a) = n /\ \A m \in 1..n : a[m] = s[m]
  BY <1>1, <1>2, <1>3
<1>7. c \in Seq(S) /\ Len(c) = l - n /\ \A m \in 1..(l - n) : c[m] = s[m + n]
  BY <1>1, <1>2, <1>4
<1>8. b \in Seq(S) /\ Len(b) = 1 /\ b[1] = x
  BY <1>5
<1>9. PICK u : u = a \o b
  OBVIOUS
<1>10. /\ u \in Seq(S) /\ Len(u) = n + 1 /\ u[n + 1] = x
       /\ \A m \in 1..n : u[m] = s[m]
  <2>1. u \in Seq(S) /\ Len(u) = n + 1
        /\ \A m \in 1..(n + 1) : u[m] = IF m =< n THEN a[m] ELSE b[m - n]
    <3>1. u \in Seq(S) /\ Joined(u, a, b, n, 1)
      BY <1>6, <1>8, <1>9, JoinedItems
    <3>2. QED
      BY <3>1 DEF Joined
  <2>2. n + 1 \in 1..(n + 1) /\ (n + 1) - n = 1 /\ ~(n + 1 =< n)
    BY <1>2
  <2>3. u[n + 1] = x
    BY <1>8, <2>1, <2>2
  <2>4. \A m \in 1..n : m \in 1..(n + 1) /\ m =< n
    BY <1>2
  <2>5. QED
    BY <1>6, <2>1, <2>3, <2>4
<1>11. PICK t : t = u \o c
  OBVIOUS
<1>12. t \in Seq(S) /\ Len(t) = l + 1
  <2>1. t \in Seq(S) /\ Joined(t, u, c, n + 1, l - n)
    BY <1>7, <1>10, <1>11, JoinedItems
  <2>2. QED
    BY <1>2, <2>1 DEF Joined
<1>20. \A m \in 1..(l + 1) : t[m] = IF m =< n + 1 THEN u[m] ELSE c[m - (n + 1)]
  <2>1. \A m \in 1..((n + 1) + (l - n)) : t[m] = IF m =< n + 1 THEN u[m] ELSE c[m - (n + 1)]
    <3>1. Joined(t, u, c, n + 1, l - n)
      BY <1>7, <1>10, <1>11, JoinedItems
    <3>2. QED
      BY <3>1 DEF Joined
  <2>2. (n + 1) + (l - n) = l + 1
    BY <1>2
  <2>3. QED
    BY <2>1, <2>2
<1>13. \A m \in 1..(n + 1) : t[m] = u[m]
  <2>1. \A m \in 1..(n + 1) : m \in 1..(l + 1) /\ m =< n + 1
    BY <1>2
  <2>2. QED
    BY <1>20, <2>1
<1>14. \A m \in 1..(l + 1) : m > n + 1 => t[m] = c[m - (n + 1)]
  <2>1. \A m \in 1..(l + 1) : m > n + 1 => ~(m =< n + 1)
    BY <1>2
  <2>2. QED
    BY <1>20, <2>1
<1>15. PICK v : v = Inserted(s, n + 1, x)
  OBVIOUS
<1>16. v = [m \in 1..(l + 1) |-> IF m < n + 1 THEN s[m] ELSE IF m = n + 1 THEN x ELSE s[m - 1]]
  BY <1>1, <1>15 DEF Inserted
<1>17. ASSUME NEW m \in 1..(l + 1) PROVE t[m] = v[m]
  <2>1. CASE m < n + 1
    <3>1. m \in 1..n /\ m \in 1..(n + 1)
      BY <1>2, <2>1
    <3>2. t[m] = s[m]
      BY <1>10, <1>13, <3>1
    <3>3. QED
      BY <1>16, <2>1, <3>2
  <2>2. CASE m = n + 1
    BY <1>2, <1>10, <1>13, <1>16, <2>2
  <2>3. CASE m > n + 1
    <3>1. m - (n + 1) \in 1..(l - n) /\ (m - (n + 1)) + n = m - 1 /\ ~(m < n + 1) /\ m # n + 1
      BY <1>2, <2>3
    <3>2. t[m] = s[m - 1]
      BY <1>7, <1>14, <2>3, <3>1
    <3>3. v[m] = s[m - 1]
      BY <1>16, <3>1
    <3>4. QED
      BY <3>2, <3>3
  <2>4. QED
    BY <1>2, <2>1, <2>2, <2>3
<1>18. t = v
  <2>1. t = [m \in 1..(l + 1) |-> t[m]]
    BY <1>12
  <2>2. v = [m \in 1..(l + 1) |-> v[m]]
    BY <1>16
  <2>3. QED
    BY <1>17, <2>1, <2>2
<1>19. QED
  BY <1>1, <1>3, <1>4, <1>5, <1>9, <1>11, <1>15, <1>18

\* Taking out the item at the place d of a sequence without repetitions.
LEMMA RemovedSeq ==
    ASSUME NEW S, NEW s \in Seq(S), Injective(s), NEW d \in 1..Len(s), NEW x, x = s[d]
    PROVE  RemoveFirst(s, x) = Dropped(s, d)
<1>1. PICK l : l = Len(s)
  OBVIOUS
<1>2. l \in Nat /\ d \in 1..l
  BY <1>1
<1>3. PICK I : I = {n \in 1..Len(s) : s[n] = x}
  OBVIOUS
<1>4. I = {d}
  BY <1>3 DEF Injective
<1>5. SelectInSeq(s, LAMBDA v : v = x) = d
  <2>1. SelectInSeq(s, LAMBDA v : v = x) = IF I # {} THEN Min(I) ELSE 0
    BY <1>3, Zenon DEF SelectInSeq
  <2>2. I \in SUBSET Nat /\ I # {}
    BY <1>2, <1>4
  <2>3. Min(I) \in I
    BY <2>2, MinNat
  <2>4. QED
    BY <1>4, <2>1, <2>2, <2>3
<1>6. RemoveFirst(s, x) = RemoveAt(s, d)
  <2>1. \E i \in 1..Len(s) : s[i] = x
    OBVIOUS
  <2>2. QED
    BY <1>5, <2>1, Zenon DEF RemoveFirst
<1>7. PICK a : a = SubSeq(s, 1, d - 1)
  OBVIOUS
<1>8. PICK c : c = SubSeq(s, d + 1, l)
  OBVIOUS
<1>9. a \in Seq(S) /\ Len(a) = d - 1 /\ \A m \in 1..(d - 1) : a[m] = s[m]
  BY <1>1, <1>2, <1>7
<1>10. c \in Seq(S) /\ Len(c) = l - d /\ \A m \in 1..(l - d) : c[m] = s[m + d]
  BY <1>1, <1>2, <1>8
<1>11. PICK t : t = a \o c
  OBVIOUS
<1>12. t \in Seq(S) /\ Len(t) = l - 1
  <2>1. t \in Seq(S) /\ Joined(t, a, c, d - 1, l - d)
    BY <1>9, <1>10, <1>11, JoinedItems
  <2>2. QED
    BY <1>2, <2>1 DEF Joined
<1>20. \A m \in 1..(l - 1) : t[m] = IF m =< d - 1 THEN a[m] ELSE c[m - (d - 1)]
  <2>1. \A m \in 1..((d - 1) + (l - d)) : t[m] = IF m =< d - 1 THEN a[m] ELSE c[m - (d - 1)]
    <3>1. Joined(t, a, c, d - 1, l - d)
      BY <1>9, <1>10, <1>11, JoinedItems
    <3>2. QED
      BY <3>1 DEF Joined
  <2>2. (d - 1) + (l - d) = l - 1
    BY <1>2
  <2>3. QED
    BY <2>1, <2>2
<1>13. \A m \in 1..(d - 1) : t[m] = a[m]
  <2>1. \A m \in 1..(d - 1) : m \in 1..(l - 1) /\ m =< d - 1
    BY <1>2
  <2>2. QED
    BY <1>20, <2>1
<1>14. \A m \in 1..(l - 1) : m > d - 1 => t[m] = c[m - (d - 1)]
  <2>1. \A m \in 1..(l - 1) : m > d - 1 => ~(m =< d - 1)
    BY <1>2
  <2>2. QED
    BY <1>20, <2>1
<1>15. PICK v : v = Dropped(s, d)
  OBVIOUS
<1>16. v = [m \in 1..(l - 1) |-> IF m < d THEN s[m] ELSE s[m + 1]]
  BY <1>1, <1>15 DEF Dropped
<1>17. ASSUME NEW m \in 1..(l - 1) PROVE t[m] = v[m]
  <2>1. CASE m < d
    <3>1. m \in 1..(d - 1)
      BY <1>2, <2>1
    <3>2. t[m] = s[m]
      BY <1>9, <1>13, <3>1
    <3>3. QED
      BY <1>16, <2>1, <3>2
  <2>2. CASE ~(m < d)
    <3>1. m - (d - 1) \in 1..(l - d) /\ (m - (d - 1)) + d = m + 1 /\ m > d - 1
      BY <1>2, <2>2
    <3>2. t[m] = s[m + 1]
      BY <1>10, <1>14, <3>1
    <3>3. QED
      BY <1>16, <2>2, <3>2
  <2>3. QED
    BY <2>1, <2>2
<1>18. t = v
  <2>1. t = [m \in 1..(l - 1) |-> t[m]]
    BY <1>12
  <2>2. v = [m \in 1..(l - 1) |-> v[m]]
    BY <1>16
  <2>3. QED
    BY <1>17, <2>1, <2>2
<1>19. QED
  BY <1>1, <1>6, <1>7, <1>8, <1>11, <1>15, <1>18 DEF RemoveAt

\* t is the item of s at d, and the suffix behind it.
Headed(t, s, d) ==
    t # <<>> /\ t = <<s[d]>> \o Suffix(s, d + 1) /\ Head(t) = s[d] /\ Tail(t) = Suffix(s, d + 1)

LEMMA SuffixParts ==
    ASSUME NEW S, NEW s \in Seq(S), NEW d \in 1..(Len(s) + 1), NEW t, t = Suffix(s, d)
    PROVE  /\ t \in Seq(S) /\ Len(t) = Len(s) + 1 - d
           /\ \A n \in 1..Len(t) : t[n] = s[n + d - 1]
           /\ d # Len(s) + 1 => Headed(t, s, d)
<1>1. PICK l : l = Len(s)
  OBVIOUS
<1>2. l \in Nat /\ d \in 1..(l + 1) /\ l + 1 - d \in Nat /\ \A n \in 1..l : s[n] \in S
  BY <1>1
<1>3. t = [n \in 1..(l + 1 - d) |-> s[n + d - 1]]
  BY <1>1 DEF Suffix
<1>4. \A n \in 1..(l + 1 - d) : n + d - 1 \in 1..l
  BY <1>2
<1>5. t \in Seq(S) /\ Len(t) = l + 1 - d
  <2>1. t \in [1..(l + 1 - d) -> S]
    BY <1>2, <1>3, <1>4
  <2>2. QED
    BY <1>2, <2>1
<1>6. ASSUME d # l + 1
      PROVE  t # <<>> /\ t = <<s[d]>> \o Suffix(s, d + 1) /\ Head(t) = s[d] /\ Tail(t) = Suffix(s, d + 1)
  <2>1. PICK k : k = l - d
    OBVIOUS
  <2>2. k \in Nat /\ l + 1 - d = k + 1 /\ l + 1 - (d + 1) = k /\ \A n \in 1..k : n + (d + 1) - 1 = n + d
    BY <1>2, <1>6, <2>1
  <2>3. PICK u : u = Suffix(s, d + 1)
    OBVIOUS
  <2>4. u = [n \in 1..k |-> s[n + d]]
    BY <1>1, <2>2, <2>3 DEF Suffix
  <2>5. u \in Seq(S) /\ Len(u) = k
    <3>1. \A n \in 1..k : n + d \in 1..l
      BY <1>2, <2>1
    <3>2. u \in [1..k -> S]
      BY <1>2, <2>4, <3>1
    <3>3. QED
      BY <2>2, <3>2
  <2>6. Len(t) = k + 1 /\ t # <<>>
    BY <1>5, <2>2
  <2>7. t[1] = s[d]
    <3>1. 1 \in 1..(l + 1 - d) /\ 1 + d - 1 = d
      BY <1>2, <2>2
    <3>2. QED
      BY <1>3, <3>1
  <2>8. \A n \in 1..k : t[n + 1] = u[n]
    <3> TAKE n \in 1..k
    <3>1. n + 1 \in 1..(l + 1 - d) /\ (n + 1) + d - 1 = n + d
      BY <1>2, <2>2
    <3>2. QED
      BY <1>3, <2>4, <3>1
  <2>9. Head(t) = s[d]
    BY <1>5, <2>6, <2>7
  <2>10. Tail(t) = u
    <3>1. PICK v : v = Tail(t)
      OBVIOUS
    <3>2. v \in Seq(S) /\ Len(v) = k /\ \A n \in 1..k : v[n] = t[n + 1]
      BY <1>5, <2>2, <2>6, <3>1
    <3>3. v = [n \in 1..k |-> v[n]] /\ u = [n \in 1..k |-> u[n]]
      BY <2>5, <3>2
    <3>4. \A n \in 1..k : v[n] = u[n]
      BY <2>8, <3>2
    <3>5. v = u
      BY <3>3, <3>4
    <3>6. QED
      BY <3>1, <3>5
  <2>11. t = <<s[d]>> \o u
    <3>1. PICK v : v = <<s[d]>> \o u
      OBVIOUS
    <3>2. v \in Seq(S) /\ Len(v) = k + 1 /\ v[1] = s[d] /\ \A n \in 2..(k + 1) : v[n] = u[n - 1]
      <4>1. d \in 1..l
        BY <1>2, <1>6
      <4>2. <<s[d]>> \in Seq(S) /\ Len(<<s[d]>>) = 1
        BY <1>2, <4>1
      <4>3. QED
        BY <2>2, <2>5, <3>1, <4>2
    <3>3. \A n \in 1..(k + 1) : v[n] = t[n]
      <4> TAKE n \in 1..(k + 1)
      <4>1. CASE n = 1
        BY <2>7, <3>2, <4>1
      <4>2. CASE n # 1
        <5>1. n - 1 \in 1..k /\ n \in 2..(k + 1) /\ (n - 1) + 1 = n
          BY <2>2, <4>2
        <5>2. QED
          BY <2>8, <3>2, <5>1
      <4>3. QED
        BY <4>1, <4>2
    <3>4. v = [n \in 1..(k + 1) |-> v[n]] /\ t = [n \in 1..(k + 1) |-> t[n]]
      BY <1>5, <2>6, <3>2
    <3>5. QED
      BY <3>1, <3>3, <3>4
  <2>12. QED
    BY <2>3, <2>6, <2>9, <2>10, <2>11
<1>7. QED
  BY <1>1, <1>3, <1>5, <1>6 DEF Headed

LEMMA SuffixHead ==
    ASSUME NEW S, NEW s \in Seq(S), NEW d \in 1..Len(s), NEW t, t = Suffix(s, d)
    PROVE  t # <<>> /\ t = <<s[d]>> \o Suffix(s, d + 1) /\ Head(t) = s[d]
<1>1. s \in Seq(S) /\ d \in 1..(Len(s) + 1) /\ t = Suffix(s, d) /\ d # Len(s) + 1
  OBVIOUS
<1>2. Headed(t, s, d)
  BY <1>1, SuffixParts
<1>3. QED
  BY <1>2 DEF Headed

=============================================================================
