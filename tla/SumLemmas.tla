------------------------------ MODULE SumLemmas ------------------------------
(***************************************************************************)
(* Facts about Sums, for tables of any length.  Each is an induction on    *)
(* the row number; the induction itself is InductionUpTo, which follows    *)
(* from the well-foundedness of < on the naturals.                         *)
(***************************************************************************)
EXTENDS Sums, TLAPS, WellFoundedInduction

\* Every non-empty set of naturals has a least element.
LEMMA LeastNatural ==
  ASSUME NEW T, T \subseteq Nat, T # {}
  PROVE  \E x \in T : \A y \in T : x <= y
<1>1. \E x \in T : \A y \in T : ~ (<<y, x>> \in OpToRel(<, Nat))
  BY NatLessThanWellFounded, WFMin
<1>2. PICK x \in T : \A y \in T : ~ (<<y, x>> \in OpToRel(<, Nat))
  BY <1>1
<1>3. ASSUME NEW y \in T PROVE x <= y
  <2>1. x \in Nat /\ y \in Nat
    BY <1>2
  <2>2. y < x => <<y, x>> \in OpToRel(<, Nat)
    BY <2>1 DEF OpToRel
  <2>3. ~ (y < x)
    BY <2>2, <1>2
  <2> QED
    BY <2>1, <2>3
<1> QED
  BY <1>2, <1>3

\* A set that holds 0 and, with each k < n, also k + 1, holds all of 0..n.
LEMMA InductionUpTo ==
  ASSUME NEW n \in Nat, NEW S, 0 \in S,
         \A k \in 0..n : k < n /\ k \in S => k + 1 \in S
  PROVE  \A k \in 0..n : k \in S
<1> DEFINE Bad == {k \in 0..n : k \notin S}
<1> SUFFICES ASSUME Bad # {} PROVE FALSE
  OBVIOUS
<1>1. Bad \subseteq Nat
  OBVIOUS
<1>2. PICK m \in Bad : \A y \in Bad : m <= y
  BY <1>1, LeastNatural
<1>3. m \in 0..n /\ m \notin S /\ m # 0
  BY <1>2
<1>4. m - 1 \in 0..n /\ m - 1 < n /\ m - 1 \notin Bad
  BY <1>2, <1>3
<1>5. m - 1 \in S
  BY <1>4
<1>6. (m - 1) + 1 \in S
  BY <1>4, <1>5
<1> QED
  BY <1>3, <1>6

\* g is what repeating a step from a value leads to.
Repeats(g, n, S, a, step) ==
  g \in [0..n -> S] /\ g[0] = a /\ \A k \in 1..n : g[k] = step[<<g[k - 1], k>>]

\* Such a function exists, if the steps stay in S.  (A step is the table on S of what an
\* operator does.)
LEMMA RecursionUpTo ==
  ASSUME NEW n \in Nat, NEW S, NEW a \in S, NEW step \in [S \X (1..n) -> S]
  PROVE  \E g : Repeats(g, n, S, a, step)
<1> DEFINE Upto(g, m) == g[0] = a /\ \A k \in 1..m : g[k] = step[<<g[k - 1], k>>]
           Good == {m \in 0..n : \E g \in [0..m -> S] : Upto(g, m)}
<1>1. 0 \in Good
  <2> DEFINE start == [k \in 0..0 |-> a]
  <2>1. start \in [0..0 -> S] /\ Upto(start, 0)
    OBVIOUS
  <2>2. 0 \in 0..n
    OBVIOUS
  <2> HIDE DEF Upto, start
  <2> QED
    BY <2>1, <2>2
<1>2. ASSUME NEW m \in 0..n, m < n, m \in Good PROVE m + 1 \in Good
  <2>1. PICK g \in [0..m -> S] : Upto(g, m)
    BY <1>2
  <2> DEFINE h == [k \in 0..(m + 1) |-> IF k = m + 1 THEN step[<<g[m], m + 1>>] ELSE g[k]]
  <2>2. m \in 0..m /\ m + 1 \in 1..n /\ m + 1 \in 0..n
    BY <1>2
  <2>3. h \in [0..(m + 1) -> S]
    <3>1. step[<<g[m], m + 1>>] \in S
      BY <2>2
    <3>2. \A k \in 0..(m + 1) : k # m + 1 => k \in 0..m
      OBVIOUS
    <3> QED
      BY <3>1, <3>2
  <2>4. ASSUME NEW k \in 1..(m + 1) PROVE h[k] = step[<<h[k - 1], k>>]
    <3>1. CASE k = m + 1
      <4>1. k - 1 = m /\ m \in 0..(m + 1) /\ m # m + 1
        BY <3>1
      <4>2. h[k] = step[<<g[m], k>>]
        BY <3>1
      <4>3. h[k - 1] = g[m]
        BY <4>1
      <4> QED
        BY <4>2, <4>3
    <3>2. CASE k # m + 1
      <4>1. k \in 1..m /\ k \in 0..(m + 1) /\ h[k] = g[k]
        BY <3>2
      <4>2. k - 1 \in 0..(m + 1) /\ k - 1 # m + 1
        BY <4>1
      <4>3. h[k - 1] = g[k - 1]
        BY <4>2
      <4> QED
        BY <4>1, <4>3, <2>1
    <3> QED
      BY <3>1, <3>2
  <2>5. h[0] = a
    <3>1. 0 \in 0..(m + 1) /\ 0 # m + 1
      OBVIOUS
    <3> QED
      BY <3>1, <2>1
  <2>6. Upto(h, m + 1)
    BY <2>4, <2>5
  <2> HIDE DEF Upto, h
  <2> QED
    BY <2>2, <2>3, <2>6
<1>3. n \in Good
  <2>1. \A k \in 0..n : k < n /\ k \in Good => k + 1 \in Good
    BY <1>2
  <2> HIDE DEF Good
  <2>2. \A k \in 0..n : k \in Good
    BY <1>1, <2>1, InductionUpTo
  <2> QED
    BY <2>2
<1> QED
  BY <1>3 DEF Repeats

\* The recursive definition of Prefix has a solution, so Prefix obeys it.
LEMMA PrefixDef ==
  ASSUME NEW n \in Nat, NEW f \in [1..n -> Int]
  PROVE  /\ Prefix(f, n) \in [0..n -> Int]
         /\ Prefix(f, n)[0] = 0
         /\ \A k \in 1..n : Prefix(f, n)[k] = Prefix(f, n)[k - 1] + f[k]
<1> DEFINE Upto(g, m) == \A k \in 0..m : g[k] = IF k = 0 THEN 0 ELSE g[k - 1] + f[k]
           Good == {m \in 0..n : \E g \in [0..m -> Int] : Upto(g, m)}
<1>1. 0 \in Good
  <2> DEFINE zero == [k \in 0..0 |-> 0]
  <2>1. zero \in [0..0 -> Int] /\ Upto(zero, 0)
    OBVIOUS
  <2>2. 0 \in 0..n
    OBVIOUS
  <2> HIDE DEF Upto, zero
  <2> QED
    BY <2>1, <2>2
<1>2. ASSUME NEW m \in 0..n, m < n, m \in Good PROVE m + 1 \in Good
  <2>1. PICK g \in [0..m -> Int] : Upto(g, m)
    BY <1>2
  <2> DEFINE h == [k \in 0..(m + 1) |-> IF k = m + 1 THEN g[m] + f[m + 1] ELSE g[k]]
  <2>2. h \in [0..(m + 1) -> Int]
    <3>1. m \in 0..m /\ m + 1 \in 1..n
      BY <1>2
    <3>2. g[m] + f[m + 1] \in Int
      BY <3>1
    <3>3. \A k \in 0..(m + 1) : k # m + 1 => k \in 0..m
      OBVIOUS
    <3> QED
      BY <3>2, <3>3
  <2>3. ASSUME NEW k \in 0..(m + 1) PROVE h[k] = IF k = 0 THEN 0 ELSE h[k - 1] + f[k]
    <3>1. CASE k = m + 1
      <4>1. k # 0 /\ k - 1 = m /\ m \in 0..(m + 1) /\ m # m + 1
        BY <3>1
      <4>2. h[k] = g[m] + f[m + 1]
        BY <3>1
      <4>3. h[k - 1] = g[m]
        BY <4>1
      <4> QED
        BY <3>1, <4>1, <4>2, <4>3
    <3>2. CASE k # m + 1
      <4>1. k \in 0..m /\ h[k] = g[k]
        BY <3>2
      <4>2. k # 0 => k - 1 \in 0..(m + 1) /\ k - 1 # m + 1
        BY <4>1
      <4>3. k # 0 => h[k - 1] = g[k - 1]
        BY <4>2
      <4> QED
        BY <4>1, <4>3, <2>1
    <3> QED
      BY <3>1, <3>2
  <2>4. Upto(h, m + 1)
    BY <2>3
  <2>5. m + 1 \in 0..n
    BY <1>2
  <2> HIDE DEF Upto, h
  <2> QED
    BY <2>2, <2>4, <2>5
<1>3. n \in Good
  <2>1. \A k \in 0..n : k < n /\ k \in Good => k + 1 \in Good
    BY <1>2
  <2> HIDE DEF Good
  <2>2. \A k \in 0..n : k \in Good
    BY <1>1, <2>1, InductionUpTo
  <2> QED
    BY <2>2
<1>4. PICK g \in [0..n -> Int] : Upto(g, n)
  BY <1>3
<1> DEFINE Solves(s) == s = [k \in 0..n |-> IF k = 0 THEN 0 ELSE s[k - 1] + f[k]]
<1>5. Solves(g)
  BY <1>4
<1>6. Prefix(f, n) = CHOOSE s : Solves(s)
  BY DEF Prefix
<1>7. Solves(Prefix(f, n))
  <2> HIDE DEF Solves
  <2> QED
    BY <1>5, <1>6
<1> DEFINE p == Prefix(f, n)
<1>8. p = [k \in 0..n |-> IF k = 0 THEN 0 ELSE p[k - 1] + f[k]]
  BY <1>7
<1> HIDE DEF p
<1>9. p[0] = 0 /\ \A k \in 1..n : p[k] = p[k - 1] + f[k]
  BY <1>8
<1>10. \A k \in 0..n : p[k] \in Int
  <2> DEFINE Typed == {k \in 0..n : p[k] \in Int}
  <2>1. 0 \in Typed
    BY <1>9
  <2>2. ASSUME NEW k \in 0..n, k < n, k \in Typed PROVE k + 1 \in Typed
    <3>1. k + 1 \in 1..n /\ (k + 1) - 1 = k /\ f[k + 1] \in Int /\ p[k] \in Int
      BY <2>2
    <3>2. p[k + 1] = p[k] + f[k + 1]
      BY <3>1, <1>9
    <3> QED
      BY <3>1, <3>2
  <2> HIDE DEF Typed
  <2>3. \A k \in 0..n : k \in Typed
    BY <2>1, <2>2, InductionUpTo
  <2> QED
    BY <2>3 DEF Typed
<1> QED
  BY <1>8, <1>9, <1>10 DEF p

LEMMA SumType ==
  ASSUME NEW n \in Nat, NEW f \in [1..n -> Int]
  PROVE  Sum(f, n) \in Int
BY PrefixDef DEF Sum

\* Totals add: a column that is the sum of two columns has the sum of their totals.
LEMMA PrefixAdd ==
  ASSUME NEW n \in Nat, NEW f \in [1..n -> Int], NEW g \in [1..n -> Int],
         NEW h \in [1..n -> Int], \A k \in 1..n : h[k] = f[k] + g[k]
  PROVE  \A k \in 0..n : Prefix(h, n)[k] = Prefix(f, n)[k] + Prefix(g, n)[k]
<1> DEFINE pf == Prefix(f, n)
           pg == Prefix(g, n)
           ph == Prefix(h, n)
           S == {k \in 0..n : ph[k] = pf[k] + pg[k]}
<1>1. /\ pf \in [0..n -> Int] /\ pf[0] = 0 /\ \A k \in 1..n : pf[k] = pf[k - 1] + f[k]
      /\ pg \in [0..n -> Int] /\ pg[0] = 0 /\ \A k \in 1..n : pg[k] = pg[k - 1] + g[k]
      /\ ph \in [0..n -> Int] /\ ph[0] = 0 /\ \A k \in 1..n : ph[k] = ph[k - 1] + h[k]
  BY PrefixDef
<1> HIDE DEF pf, pg, ph
<1>2. 0 \in S
  BY <1>1
<1>3. ASSUME NEW k \in 0..n, k < n, k \in S PROVE k + 1 \in S
  <2>1. k + 1 \in 1..n /\ k + 1 \in 0..n /\ (k + 1) - 1 = k
    BY <1>3
  <2>2. ph[k + 1] = ph[k] + h[k + 1] /\ pf[k + 1] = pf[k] + f[k + 1] /\ pg[k + 1] = pg[k] + g[k + 1]
    BY <2>1, <1>1
  <2>3. ph[k] = pf[k] + pg[k] /\ h[k + 1] = f[k + 1] + g[k + 1]
    BY <2>1, <1>3
  <2>4. f[k + 1] \in Int /\ g[k + 1] \in Int /\ pf[k] \in Int /\ pg[k] \in Int
    BY <2>1, <1>1
  <2> QED
    BY <2>1, <2>2, <2>3, <2>4
<1> HIDE DEF S
<1>4. \A k \in 0..n : k \in S
  BY <1>2, <1>3, InductionUpTo
<1> QED
  BY <1>4 DEF S, pf, pg, ph

LEMMA SumAdd ==
  ASSUME NEW n \in Nat, NEW f \in [1..n -> Int], NEW g \in [1..n -> Int],
         NEW h \in [1..n -> Int], \A k \in 1..n : h[k] = f[k] + g[k]
  PROVE  Sum(h, n) = Sum(f, n) + Sum(g, n)
<1>1. \A k \in 0..n : Prefix(h, n)[k] = Prefix(f, n)[k] + Prefix(g, n)[k]
  BY PrefixAdd
<1>2. n \in 0..n
  OBVIOUS
<1> QED
  BY <1>1, <1>2 DEF Sum

\* Running totals of a table to which m rows were appended: the old rows keep
\* theirs, and the new ones continue from the old total.
LEMMA PrefixConcat ==
  ASSUME NEW n \in Nat, NEW m \in Nat,
         NEW f \in [1..n -> Int], NEW g \in [1..m -> Int], NEW h \in [1..(n + m) -> Int],
         \A k \in 1..n : h[k] = f[k],
         \A k \in 1..m : h[n + k] = g[k]
  PROVE  /\ \A k \in 0..n : Prefix(h, n + m)[k] = Prefix(f, n)[k]
         /\ \A k \in 0..m : Prefix(h, n + m)[n + k] = Sum(f, n) + Prefix(g, m)[k]
<1> DEFINE pf == Prefix(f, n)
           pg == Prefix(g, m)
           ph == Prefix(h, n + m)
           S == {k \in 0..n : ph[k] = pf[k]}
           T == {k \in 0..m : ph[n + k] = pf[n] + pg[k]}
<1>0. n + m \in Nat
  OBVIOUS
<1>1. /\ pf \in [0..n -> Int] /\ pf[0] = 0 /\ \A k \in 1..n : pf[k] = pf[k - 1] + f[k]
      /\ pg \in [0..m -> Int] /\ pg[0] = 0 /\ \A k \in 1..m : pg[k] = pg[k - 1] + g[k]
  BY PrefixDef
<1>2. ph \in [0..(n + m) -> Int] /\ ph[0] = 0 /\ \A k \in 1..(n + m) : ph[k] = ph[k - 1] + h[k]
  BY <1>0, PrefixDef
<1> HIDE DEF pf, pg, ph
<1>3. \A k \in 0..n : k \in S
  <2>1. 0 \in S
    BY <1>1, <1>2
  <2>2. ASSUME NEW k \in 0..n, k < n, k \in S PROVE k + 1 \in S
    <3>1. k + 1 \in 1..n /\ k + 1 \in 0..n /\ k + 1 \in 1..(n + m) /\ (k + 1) - 1 = k
      BY <2>2
    <3>2. ph[k + 1] = ph[k] + h[k + 1] /\ pf[k + 1] = pf[k] + f[k + 1]
      BY <3>1, <1>1, <1>2
    <3> QED
      BY <3>1, <3>2, <2>2
  <2> HIDE DEF S
  <2> QED
    BY <2>1, <2>2, InductionUpTo
<1>4. \A k \in 0..m : k \in T
  <2>1. 0 \in T
    <3>1. ph[n] = pf[n] /\ pf[n] \in Int
      BY <1>1, <1>3
    <3> QED
      BY <3>1, <1>1
  <2>2. ASSUME NEW k \in 0..m, k < m, k \in T PROVE k + 1 \in T
    <3>1. /\ k + 1 \in 1..m /\ k + 1 \in 0..m /\ (k + 1) - 1 = k
          /\ n + (k + 1) \in 1..(n + m) /\ (n + (k + 1)) - 1 = n + k
      BY <2>2
    <3>2. ph[n + (k + 1)] = ph[n + k] + h[n + (k + 1)] /\ pg[k + 1] = pg[k] + g[k + 1]
      BY <3>1, <1>1, <1>2
    <3>3. h[n + (k + 1)] = g[k + 1] /\ ph[n + k] = pf[n] + pg[k]
      BY <3>1, <2>2
    <3>4. g[k + 1] \in Int /\ pf[n] \in Int /\ pg[k] \in Int
      BY <3>1, <1>1
    <3> QED
      BY <3>1, <3>2, <3>3, <3>4
  <2> HIDE DEF T
  <2> QED
    BY <2>1, <2>2, InductionUpTo
<1> QED
  BY <1>3, <1>4 DEF Sum, pf, pg, ph

LEMMA SumConcat ==
  ASSUME NEW n \in Nat, NEW m \in Nat,
         NEW f \in [1..n -> Int], NEW g \in [1..m -> Int], NEW h \in [1..(n + m) -> Int],
         \A k \in 1..n : h[k] = f[k],
         \A k \in 1..m : h[n + k] = g[k]
  PROVE  Sum(h, n + m) = Sum(f, n) + Sum(g, m)
<1>1. \A k \in 0..m : Prefix(h, n + m)[n + k] = Sum(f, n) + Prefix(g, m)[k]
  BY PrefixConcat
<1>2. m \in 0..m
  OBVIOUS
<1> QED
  BY <1>1, <1>2 DEF Sum

\* One appended row adds its value.
LEMMA SumAppend ==
  ASSUME NEW n \in Nat, NEW f \in [1..n -> Int], NEW h \in [1..(n + 1) -> Int],
         \A k \in 1..n : h[k] = f[k]
  PROVE  Sum(h, n + 1) = Sum(f, n) + h[n + 1]
<1> DEFINE ph == Prefix(h, n + 1)
           pf == Prefix(f, n)
           g == [k \in 1..1 |-> h[n + 1]]
<1>1. g \in [1..1 -> Int] /\ \A k \in 1..1 : h[n + k] = g[k]
  OBVIOUS
<1>2. Sum(h, n + 1) = Sum(f, n) + Sum(g, 1)
  <2> HIDE DEF g
  <2> QED
    BY <1>1, SumConcat
<1>3. Sum(g, 1) = g[1]
  <2> HIDE DEF g
  <2>1. Prefix(g, 1)[0] = 0 /\ \A k \in 1..1 : Prefix(g, 1)[k] = Prefix(g, 1)[k - 1] + g[k]
    BY <1>1, PrefixDef
  <2>2. 1 \in 1..1 /\ 1 - 1 = 0 /\ g[1] \in Int
    BY <1>1
  <2> QED
    BY <2>1, <2>2 DEF Sum
<1> QED
  BY <1>2, <1>3

\* A column without negative entries has no negative running total, and its
\* running totals do not fall.
LEMMA PrefixOfNaturals ==
  ASSUME NEW n \in Nat, NEW f \in [1..n -> Nat]
  PROVE  /\ Prefix(f, n) \in [0..n -> Nat]
         /\ \A k \in 1..n : f[k] <= Prefix(f, n)[k]
<1> DEFINE p == Prefix(f, n)
           S == {k \in 0..n : p[k] \in Nat}
<1>1. f \in [1..n -> Int]
  OBVIOUS
<1>2. p \in [0..n -> Int] /\ p[0] = 0 /\ \A k \in 1..n : p[k] = p[k - 1] + f[k]
  BY <1>1, PrefixDef
<1> HIDE DEF p
<1>3. 0 \in S
  BY <1>2
<1>4. ASSUME NEW k \in 0..n, k < n, k \in S PROVE k + 1 \in S
  <2>1. k + 1 \in 1..n /\ (k + 1) - 1 = k /\ f[k + 1] \in Nat
    BY <1>4
  <2>2. p[k + 1] = p[k] + f[k + 1]
    BY <2>1, <1>2
  <2> QED
    BY <2>1, <2>2, <1>4
<1> HIDE DEF S
<1>5. \A k \in 0..n : k \in S
  BY <1>3, <1>4, InductionUpTo
<1>6. ASSUME NEW k \in 1..n PROVE f[k] <= p[k]
  <2>1. k - 1 \in 0..n /\ k \in 0..n
    OBVIOUS
  <2>2. p[k - 1] \in Nat
    BY <2>1, <1>5 DEF S
  <2> QED
    BY <2>2, <1>2
<1> QED
  BY <1>2, <1>5, <1>6 DEF S, p

\* A column with one entry totals to it.
LEMMA SumPoint ==
  ASSUME NEW n \in Nat, NEW i \in 1..n, NEW f \in [1..n -> Int],
         \A k \in 1..n : k # i => f[k] = 0
  PROVE  Sum(f, n) = f[i]
<1> DEFINE p == Prefix(f, n)
           S == {k \in 0..n : p[k] = IF k < i THEN 0 ELSE f[i]}
<1>1. /\ p \in [0..n -> Int]
      /\ p[0] = 0
      /\ \A k \in 1..n : p[k] = p[k - 1] + f[k]
  BY PrefixDef
<1> HIDE DEF p
<1>2. 0 \in S
  BY <1>1
<1>3. ASSUME NEW k \in 0..n, k < n, k \in S PROVE k + 1 \in S
  <2>1. k + 1 \in 1..n /\ k + 1 \in 0..n /\ (k + 1) - 1 = k
    BY <1>3
  <2>2. p[k + 1] = p[k] + f[k + 1]
    BY <2>1, <1>1
  <2>3. f[i] \in Int /\ f[k + 1] \in Int
    BY <2>1
  <2>4. p[k] = IF k < i THEN 0 ELSE f[i]
    BY <1>3
  <2>5. CASE k + 1 = i
    BY <2>1, <2>2, <2>3, <2>4, <2>5
  <2>6. CASE k + 1 # i
    <3>1. f[k + 1] = 0
      BY <2>1, <2>6
    <3>2. p[k + 1] = IF k + 1 < i THEN 0 ELSE f[i]
      BY <2>1, <2>2, <2>3, <2>4, <2>6, <3>1
    <3> QED
      BY <2>1, <3>2
  <2> QED
    BY <2>5, <2>6
<1>4. \A k \in 0..n : k \in S
  <2> HIDE DEF S
  <2> QED
    BY <1>2, <1>3, InductionUpTo
<1>5. n \in 0..n /\ ~(n < i)
  OBVIOUS
<1>6. p[n] = f[i]
  BY <1>4, <1>5
<1> QED
  BY <1>6 DEF Sum, p

\* A column that is at most another row by row totals to no more.
LEMMA SumMonotone ==
  ASSUME NEW n \in Nat, NEW f \in [1..n -> Int], NEW g \in [1..n -> Int],
         \A k \in 1..n : f[k] <= g[k]
  PROVE  Sum(f, n) <= Sum(g, n)
<1> DEFINE gap == [k \in 1..n |-> g[k] - f[k]]
<1>1. gap \in [1..n -> Nat] /\ gap \in [1..n -> Int] /\ \A k \in 1..n : g[k] = f[k] + gap[k]
  OBVIOUS
<1> HIDE DEF gap
<1>2. Sum(g, n) = Sum(f, n) + Sum(gap, n)
  BY <1>1, SumAdd
<1>3. Sum(gap, n) \in Nat
  <2>1. Prefix(gap, n) \in [0..n -> Nat]
    BY <1>1, PrefixOfNaturals
  <2>2. n \in 0..n
    OBVIOUS
  <2> QED
    BY <2>1, <2>2 DEF Sum
<1>4. Sum(f, n) \in Int
  BY SumType
<1> QED
  BY <1>2, <1>3, <1>4

\* A column of natural numbers totals to at least each of its entries.
LEMMA SumOfNaturals ==
  ASSUME NEW n \in Nat, NEW f \in [1..n -> Nat]
  PROVE  Sum(f, n) \in Nat /\ \A k \in 1..n : f[k] <= Sum(f, n)
<1>1. f \in [1..n -> Int]
  OBVIOUS
<1>2. Sum(f, n) \in Nat
  BY PrefixOfNaturals DEF Sum
<1>3. ASSUME NEW i \in 1..n PROVE f[i] <= Sum(f, n)
  <2> DEFINE point == [k \in 1..n |-> IF k = i THEN f[i] ELSE 0]
  <2>1. point \in [1..n -> Int] /\ point[i] = f[i]
    BY <1>1
  <2>2. \A k \in 1..n : k # i => point[k] = 0
    OBVIOUS
  <2>3. \A k \in 1..n : point[k] <= f[k]
    OBVIOUS
  <2> HIDE DEF point
  <2>4. Sum(point, n) = point[i]
    BY <2>1, <2>2, SumPoint
  <2>5. Sum(point, n) <= Sum(f, n)
    BY <1>1, <2>1, <2>3, SumMonotone
  <2> QED
    BY <2>1, <2>4, <2>5
<1> QED
  BY <1>2, <1>3

\* A column of zeros totals to zero.
LEMMA SumZero ==
  ASSUME NEW n \in Nat, NEW f \in [1..n -> Int], \A k \in 1..n : f[k] = 0
  PROVE  Sum(f, n) = 0
<1>1. Sum(f, n) = Sum(f, n) + Sum(f, n)
  BY SumAdd
<1>2. Sum(f, n) \in Int
  BY SumType
<1> QED
  BY <1>1, <1>2

\* Changing one entry changes the total by as much.
LEMMA SumChange ==
  ASSUME NEW n \in Nat, NEW i \in 1..n, NEW f \in [1..n -> Int], NEW g \in [1..n -> Int],
         \A k \in 1..n : k # i => g[k] = f[k]
  PROVE  Sum(g, n) = Sum(f, n) + g[i] - f[i]
<1> DEFINE change == [k \in 1..n |-> g[k] - f[k]]
<1>1. change \in [1..n -> Int] /\ \A k \in 1..n : g[k] = f[k] + change[k]
  OBVIOUS
<1>2. \A k \in 1..n : k # i => change[k] = 0
  OBVIOUS
<1>3. change[i] = g[i] - f[i] /\ f[i] \in Int /\ g[i] \in Int
  OBVIOUS
<1> HIDE DEF change
<1>4. Sum(g, n) = Sum(f, n) + Sum(change, n)
  BY <1>1, SumAdd
<1>5. Sum(change, n) = change[i]
  BY <1>1, <1>2, SumPoint
<1>6. Sum(f, n) \in Int
  BY SumType
<1> QED
  BY <1>3, <1>4, <1>5, <1>6

\* A running total is the total of the column cut off there.
LEMMA SumCutOff ==
  ASSUME NEW n \in Nat, NEW i \in 0..n, NEW f \in [1..n -> Int], NEW h \in [1..n -> Int],
         \A k \in 1..n : h[k] = IF k <= i THEN f[k] ELSE 0
  PROVE  Sum(h, n) = Prefix(f, n)[i]
<1> DEFINE p == Prefix(f, n)
           q == Prefix(h, n)
           S == {k \in 0..n : q[k] = IF k <= i THEN p[k] ELSE p[i]}
<1>1. p \in [0..n -> Int] /\ p[0] = 0 /\ \A k \in 1..n : p[k] = p[k - 1] + f[k]
  BY PrefixDef
<1>2. q \in [0..n -> Int] /\ q[0] = 0 /\ \A k \in 1..n : q[k] = q[k - 1] + h[k]
  BY PrefixDef
<1> HIDE DEF p, q
<1>3. 0 \in S
  BY <1>1, <1>2
<1>4. ASSUME NEW k \in 0..n, k < n, k \in S PROVE k + 1 \in S
  <2>1. k + 1 \in 1..n /\ k + 1 \in 0..n /\ (k + 1) - 1 = k
    BY <1>4
  <2>2. q[k + 1] = q[k] + h[k + 1] /\ p[k + 1] = p[k] + f[k + 1]
    BY <2>1, <1>1, <1>2
  <2>3. h[k + 1] = IF k + 1 <= i THEN f[k + 1] ELSE 0
    BY <2>1
  <2>4. q[k] = IF k <= i THEN p[k] ELSE p[i]
    BY <1>4
  <2>5. p[k] \in Int /\ p[i] \in Int /\ f[k + 1] \in Int /\ q[k] \in Int
    BY <1>1, <1>2, <2>1
  <2>6. CASE k + 1 <= i
    BY <2>1, <2>2, <2>3, <2>4, <2>5, <2>6
  <2>7. CASE k = i
    BY <2>1, <2>2, <2>3, <2>4, <2>5, <2>7
  <2>8. CASE k > i
    BY <2>1, <2>2, <2>3, <2>4, <2>5, <2>8
  <2> QED
    BY <2>6, <2>7, <2>8
<1> HIDE DEF S
<1>5. \A k \in 0..n : k \in S
  BY <1>3, <1>4, InductionUpTo
<1>6. q[n] = p[i]
  BY <1>5 DEF S
<1> QED
  BY <1>6 DEF Sum, p, q

\* Taking greedily from what each row has gives in all what is wanted, if the
\* rows have that much.
LEMMA SumGreedy ==
  ASSUME NEW n \in Nat, NEW can \in [1..n -> Nat], NEW wanted \in Nat,
         wanted <= Sum(can, n),
         NEW take \in [1..n -> Nat],
         \A k \in 1..n : take[k] = Least(can[k], AtLeastZero(wanted - Prefix(can, n)[k - 1]))
  PROVE  Sum(take, n) = wanted
<1> DEFINE p == Prefix(can, n)
           q == Prefix(take, n)
           S == {k \in 0..n : q[k] = Least(wanted, p[k])}
<1>0. can \in [1..n -> Int] /\ take \in [1..n -> Int]
  OBVIOUS
<1>1. p \in [0..n -> Nat] /\ p[0] = 0 /\ \A k \in 1..n : p[k] = p[k - 1] + can[k]
  <2>1. p[0] = 0 /\ \A k \in 1..n : p[k] = p[k - 1] + can[k]
    BY <1>0, PrefixDef
  <2>2. p \in [0..n -> Nat]
    BY PrefixOfNaturals
  <2> QED
    BY <2>1, <2>2
<1>2. q \in [0..n -> Nat] /\ q[0] = 0 /\ \A k \in 1..n : q[k] = q[k - 1] + take[k]
  <2>1. q[0] = 0 /\ \A k \in 1..n : q[k] = q[k - 1] + take[k]
    BY <1>0, PrefixDef
  <2>2. q \in [0..n -> Nat]
    BY PrefixOfNaturals
  <2> QED
    BY <2>1, <2>2
<1>3. \A k \in 1..n : take[k] = Least(can[k], AtLeastZero(wanted - p[k - 1]))
  OBVIOUS
<1>4. wanted <= p[n]
  BY DEF Sum
<1> HIDE DEF p, q
<1>5. 0 \in S
  BY <1>1, <1>2 DEF Least
<1>6. ASSUME NEW k \in 0..n, k < n, k \in S PROVE k + 1 \in S
  <2>1. k + 1 \in 1..n /\ k + 1 \in 0..n /\ (k + 1) - 1 = k
    BY <1>6
  <2>2. q[k + 1] = q[k] + take[k + 1] /\ p[k + 1] = p[k] + can[k + 1]
    BY <2>1, <1>1, <1>2
  <2>3. take[k + 1] = Least(can[k + 1], AtLeastZero(wanted - p[k]))
    BY <2>1, <1>3
  <2>4. q[k] = Least(wanted, p[k])
    BY <1>6
  <2>5. p[k] \in Nat /\ can[k + 1] \in Nat
    BY <1>1, <2>1
  <2>6. q[k + 1] = Least(wanted, p[k + 1])
    <3> DEFINE x == p[k]
               y == can[k + 1]
    <3>1. x \in Nat /\ y \in Nat
      BY <2>5
    <3>2. q[k + 1] = Least(wanted, x) + Least(y, AtLeastZero(wanted - x))
      BY <2>2, <2>3, <2>4
    <3>3. p[k + 1] = x + y
      BY <2>2
    <3> HIDE DEF x, y
    <3>4. Least(wanted, x) + Least(y, AtLeastZero(wanted - x)) = Least(wanted, x + y)
      BY <3>1 DEF Least, AtLeastZero
    <3> QED
      BY <3>2, <3>3, <3>4
  <2> QED
    BY <2>1, <2>6
<1> HIDE DEF S
<1>7. \A k \in 0..n : k \in S
  BY <1>5, <1>6, InductionUpTo
<1>8. q[n] = Least(wanted, p[n])
  BY <1>7 DEF S
<1>9. p[n] \in Nat
  BY <1>1
<1> QED
  BY <1>4, <1>8, <1>9 DEF Sum, Least, q

\* A table totals to the same by rows and by columns.
LEMMA SumSwap ==
  ASSUME NEW n \in Nat, NEW m \in Nat, NEW table \in [1..m -> [1..n -> Int]],
         NEW byRow \in [1..m -> Int], \A l \in 1..m : byRow[l] = Sum(table[l], n),
         NEW byColumn \in [1..n -> Int],
         \A k \in 1..n : byColumn[k] = Sum([l \in 1..m |-> table[l][k]], m)
  PROVE  Sum(byRow, m) = Sum(byColumn, n)
<1> DEFINE upTo(k) == [l \in 1..m |-> Prefix(table[l], n)[k]]
           column(k) == [l \in 1..m |-> table[l][k]]
           q == Prefix(byColumn, n)
           S == {k \in 0..n : Sum(upTo(k), m) = q[k]}
<1>1. \A l \in 1..m : /\ Prefix(table[l], n) \in [0..n -> Int]
                      /\ Prefix(table[l], n)[0] = 0
                      /\ \A k \in 1..n : Prefix(table[l], n)[k]
                                           = Prefix(table[l], n)[k - 1] + table[l][k]
  BY PrefixDef
<1>2. q \in [0..n -> Int] /\ q[0] = 0 /\ \A k \in 1..n : q[k] = q[k - 1] + byColumn[k]
  BY PrefixDef
<1>3. \A k \in 0..n : upTo(k) \in [1..m -> Int]
  BY <1>1
<1>4. \A k \in 1..n : column(k) \in [1..m -> Int] /\ byColumn[k] = Sum(column(k), m)
  OBVIOUS
<1>5. \A k \in 1..n : \A l \in 1..m : upTo(k)[l] = upTo(k - 1)[l] + column(k)[l]
  BY <1>1
<1>6. \A l \in 1..m : upTo(0)[l] = 0
  BY <1>1
<1>7. upTo(n) = byRow
  BY DEF Sum
<1> HIDE DEF upTo, column, q
<1>8. 0 \in S
  <2>1. 0 \in 0..n /\ upTo(0) \in [1..m -> Int]
    BY <1>3
  <2>2. Sum(upTo(0), m) = 0
    BY <2>1, <1>6, SumZero
  <2> QED
    BY <2>1, <2>2, <1>2
<1>9. ASSUME NEW k \in 0..n, k < n, k \in S PROVE k + 1 \in S
  <2>1. k + 1 \in 1..n /\ k + 1 \in 0..n /\ (k + 1) - 1 = k
    BY <1>9
  <2>2. upTo(k + 1) \in [1..m -> Int] /\ upTo(k) \in [1..m -> Int] /\ column(k + 1) \in [1..m -> Int]
    BY <2>1, <1>3, <1>4
  <2>3. \A l \in 1..m : upTo(k + 1)[l] = upTo(k)[l] + column(k + 1)[l]
    BY <2>1, <1>5
  <2>4. Sum(upTo(k + 1), m) = Sum(upTo(k), m) + Sum(column(k + 1), m)
    BY <2>2, <2>3, SumAdd
  <2>5. q[k + 1] = q[k] + byColumn[k + 1]
    BY <2>1, <1>2
  <2>6. byColumn[k + 1] = Sum(column(k + 1), m)
    BY <2>1, <1>4
  <2>7. Sum(upTo(k), m) = q[k]
    BY <1>9
  <2> QED
    BY <2>1, <2>4, <2>5, <2>6, <2>7
<1>10. \A k \in 0..n : k \in S
  <2> HIDE DEF S
  <2> QED
    BY <1>8, <1>9, InductionUpTo
<1>11. Sum(upTo(n), m) = q[n]
  BY <1>10
<1> QED
  BY <1>7, <1>11 DEF Sum, q
=============================================================================
