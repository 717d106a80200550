---------------------------- MODULE Inputs_proof ----------------------------
(***************************************************************************)
(* Proofs about the modules of what an evaluation takes in: artifacts that *)
(* a call captures (Adapter), the clock that an assertion reads (Clocks),   *)
(* the spans it follows (Traces) and the metric points it judges           *)
(* (MetricWindow).  Each part has its own inductive invariant.             *)
(***************************************************************************)
EXTENDS Adapter, Clocks, Traces, MetricWindow, FiniteSetTheorems, TLAPS

-----------------------------------------------------------------------------
(***************************************************************************)
(* Numbers.  The provers instantiate no induction principle; that a set of *)
(* naturals has a least element serves in its place.                       *)
(***************************************************************************)

\* Every set of naturals has a least element: the sets 0..(n - 1) of its
\* elements n are well-founded under inclusion.
LEMMA Smallest ==
  ASSUME NEW S \in SUBSET Nat, S # {}
  PROVE \E m \in S : \A n \in S : m <= n
<1> DEFINE R == StrictSubsetOrdering(Nat)
           T == {0..(n - 1) : n \in S}
<1>1. IsWellFoundedOn(R, FiniteSubsetsOf(Nat)) BY FS_StrictSubsetOrderingWellFounded
<1>2. T \subseteq FiniteSubsetsOf(Nat) /\ T # {}
  <2>1. \A n \in S : IsFiniteSet(0..(n-1)) BY FS_Interval
  <2>2. \A n \in S : 0..(n-1) \subseteq Nat OBVIOUS
  <2> QED BY <2>1, <2>2 DEF FiniteSubsetsOf
<1>3. \E x \in T : \A y \in T : ~ (<<y, x>> \in R)
  <2> HIDE DEF R, T
  <2> QED BY <1>1, <1>2, WFMin
<1>4. PICK m \in S : \A n \in S : <<0..(n-1), 0..(m-1)>> \notin R BY <1>3
<1>5. ASSUME NEW n \in S, n < m PROVE FALSE
  <2>1. 0..(n-1) \subseteq Nat /\ 0..(m-1) \subseteq Nat OBVIOUS
  <2>2. n \in 0..(m-1) /\ n \notin 0..(n-1) /\ 0..(n-1) \subseteq 0..(m-1) BY <1>5
  <2>3. <<0..(n-1), 0..(m-1)>> \in R BY <2>1, <2>2 DEF StrictSubsetOrdering
  <2> QED BY <2>3, <1>4
<1> QED BY <1>5

\* And every bounded one a greatest.
LEMMA Largest ==
  ASSUME NEW N \in Nat, NEW S \in SUBSET (0..N), S # {}
  PROVE \E m \in S : \A n \in S : n <= m
<1> DEFINE T == {N - n : n \in S}
<1>1. \A n \in S : n \in 0..N /\ N - n \in Nat OBVIOUS
<1>2. T \in SUBSET Nat /\ T # {} BY <1>1
<1>3. PICK x \in T : \A y \in T : x <= y
  <2> HIDE DEF T
  <2> QED BY <1>2, Smallest
<1>4. PICK m \in S : x = N - m OBVIOUS
<1>5. ASSUME NEW n \in S PROVE n <= m
  <2>1. N - m <= N - n BY <1>3, <1>4
  <2> QED BY <2>1
<1> QED BY <1>5

\* What Min and Max of the library stand for, in sets that have one.
LEMMA MinIs ==
  ASSUME NEW S \in SUBSET Nat, S # {}
  PROVE  Min(S) \in S /\ \A n \in S : Min(S) <= n
BY Smallest DEF Min

\* Likewise of the greatest.
LEMMA MaxIs ==
  ASSUME NEW N \in Nat, NEW S \in SUBSET (0..N), S # {}
  PROVE  Max(S) \in S /\ \A n \in S : n <= Max(S)
<1>1. \E m \in S : \A n \in S : m >= n BY Largest
<1> QED BY <1>1 DEF Max

\* A function of the naturals that each step determines from the one before.
Recursion(X, x0, step) ==
  {f \in [Nat -> X] : f[0] = x0 /\ \A n \in Nat : f[n + 1] = step[<<n, f[n]>>]}

\* There is such a function for every step: its beginnings exist by the least
\* number that would have none, and agree with each other.
LEMMA RecursiveFunction ==
  ASSUME NEW X, NEW x0 \in X, NEW step \in [Nat \X X -> X]
  PROVE  Recursion(X, x0, step) # {}
<1> DEFINE Good(n) == {g \in [0..n -> X] :
                         g[0] = x0 /\ \A k \in 0..(n - 1) : g[k + 1] = step[<<k, g[k]>>]}
<1>1. \A n \in Nat : Good(n) # {}
  <2> DEFINE S == {n \in Nat : Good(n) = {}}
  <2> SUFFICES ASSUME S # {} PROVE FALSE OBVIOUS
  <2>1. PICK n \in S : \A m \in S : n <= m
    <3>1. S \in SUBSET Nat OBVIOUS
    <3> HIDE DEF S
    <3> QED BY <3>1, Smallest
  <2>2. CASE n = 0
    <3> DEFINE g == [k \in 0..0 |-> x0]
    <3>1. g \in Good(0) OBVIOUS
    <3> QED BY <2>2, <3>1
  <2>3. CASE n # 0
    <3>1. n \in Nat /\ n - 1 \in Nat /\ n - 1 \notin S BY <2>1, <2>3
    <3>2. PICK h \in Good(n - 1) : TRUE BY <3>1
    <3> DEFINE g == [k \in 0..n |-> IF k = n THEN step[<<n - 1, h[n - 1]>>] ELSE h[k]]
    <3>3. h \in [0..(n - 1) -> X] /\ h[0] = x0
          /\ \A k \in 0..(n - 2) : h[k + 1] = step[<<k, h[k]>>]
      BY <3>1, <3>2
    <3>4. h[n - 1] \in X /\ <<n - 1, h[n - 1]>> \in Nat \X X BY <3>1, <3>3
    <3>5. step[<<n - 1, h[n - 1]>>] \in X BY <3>4
    <3>6. g \in [0..n -> X] BY <3>1, <3>3, <3>5
    <3>7. g[0] = x0 BY <3>1, <3>3, <2>3
    <3>8. ASSUME NEW k \in 0..(n - 1) PROVE g[k + 1] = step[<<k, g[k]>>]
      <4>1. CASE k = n - 1 BY <3>1, <4>1
      <4>2. CASE k # n - 1
        <5>1. k \in 0..(n - 2) /\ k + 1 \in 0..n /\ k + 1 # n /\ k # n /\ k \in 0..n
          BY <3>1, <4>2
        <5>2. g[k + 1] = h[k + 1] /\ g[k] = h[k] BY <5>1
        <5> QED BY <3>3, <5>1, <5>2
      <4> QED BY <4>1, <4>2
    <3> HIDE DEF g
    <3>9. g \in Good(n) BY <3>6, <3>7, <3>8
    <3> QED BY <3>9
  <2> QED BY <2>2, <2>3
<1>2. \A m \in Nat : \A n \in m..(m + 1) : \A g \in Good(m), h \in Good(n) :
        \A k \in 0..m : g[k] = h[k]
  <2> SUFFICES ASSUME NEW m \in Nat, NEW n \in m..(m + 1), NEW g \in Good(m), NEW h \in Good(n)
               PROVE  \A k \in 0..m : g[k] = h[k]
    OBVIOUS
  <2> DEFINE S == {k \in 0..m : g[k] # h[k]}
  <2> SUFFICES ASSUME S # {} PROVE FALSE OBVIOUS
  <2>1. PICK k \in S : \A j \in S : k <= j
    <3>1. S \in SUBSET Nat OBVIOUS
    <3> HIDE DEF S
    <3> QED BY <3>1, Smallest
  <2>2. g[0] = h[0] OBVIOUS
  <2>3. k \in 1..m /\ k - 1 \in 0..(m - 1) /\ k - 1 \in 0..(n - 1) BY <2>1, <2>2
  <2>4. k - 1 \notin S BY <2>1, <2>3
  <2>5. g[k - 1] = h[k - 1] BY <2>3, <2>4
  <2>6. g[(k - 1) + 1] = step[<<k - 1, g[k - 1]>>] BY <2>3
  <2>7. h[(k - 1) + 1] = step[<<k - 1, h[k - 1]>>] BY <2>3
  <2>8. (k - 1) + 1 = k BY <2>3
  <2> QED BY <2>5, <2>6, <2>7, <2>8
<1> DEFINE f == [n \in Nat |-> (CHOOSE g \in Good(n) : TRUE)[n]]
<1>3. ASSUME NEW n \in Nat
      PROVE  f[n] \in X /\ (n = 0 => f[n] = x0) /\ f[n + 1] = step[<<n, f[n]>>]
  <2> DEFINE g == CHOOSE h \in Good(n) : TRUE
             h == CHOOSE e \in Good(n + 1) : TRUE
  <2>1. g \in Good(n) BY <1>1
  <2>2. h \in Good(n + 1)
    <3> HIDE DEF Good
    <3>1. Good(n + 1) # {} BY <1>1
    <3> QED BY <3>1
  <2>3. f[n] = g[n] /\ f[n + 1] = h[n + 1]
    <3> HIDE DEF Good
    <3>1. n + 1 \in Nat OBVIOUS
    <3> QED BY <3>1
  <2> HIDE DEF f, g, h
  <2>4. n + 1 \in n..(n + 1) /\ n \in 0..n /\ n \in 0..((n + 1) - 1) OBVIOUS
  <2>5. g[n] = h[n]
    <3> HIDE DEF Good
    <3> QED BY <1>2, <2>1, <2>2, <2>4
  <2>6. h[n + 1] = step[<<n, h[n]>>] BY <2>2, <2>4
  <2>7. g[n] \in X /\ (n = 0 => g[n] = x0) BY <2>1
  <2> QED BY <2>3, <2>5, <2>6, <2>7
<1>4. f \in [Nat -> X]
  <2>1. \A n \in Nat : f[n] \in X BY <1>3
  <2> QED BY <2>1
<1>5. f[0] = x0 /\ \A n \in Nat : f[n + 1] = step[<<n, f[n]>>]
  <2> HIDE DEF f
  <2> QED BY <1>3
<1> QED
  <2> HIDE DEF f
  <2> QED BY <1>4, <1>5 DEF Recursion
\* Functions that agree on 0, and on n + 1 where they do on n, agree.
LEMMA SameRecursion ==
  ASSUME NEW f, NEW g, f[0] = g[0], \A n \in Nat : f[n] = g[n] => f[n + 1] = g[n + 1]
  PROVE  \A n \in Nat : f[n] = g[n]
<1> DEFINE S == {n \in Nat : f[n] # g[n]}
<1> SUFFICES ASSUME S # {} PROVE FALSE OBVIOUS
<1>1. PICK n \in S : \A m \in S : n <= m
  <2>1. S \in SUBSET Nat OBVIOUS
  <2> HIDE DEF S
  <2> QED BY <2>1, Smallest
<1>2. n - 1 \in Nat /\ (n - 1) + 1 = n /\ n - 1 \notin S BY <1>1
<1> QED BY <1>2
\* A finite set of integers has a least one.
LEMMA LeastInteger ==
  ASSUME NEW S \in SUBSET Int, IsFiniteSet(S), S # {}
  PROVE  \E x \in S : \A y \in S : x <= y
<1> DEFINE Below(x) == {y \in S : y < x}
           N == {Cardinality(Below(x)) : x \in S}
<1>1. \A x \in S : IsFiniteSet(Below(x)) /\ Cardinality(Below(x)) \in Nat
  BY FS_Subset, FS_CardinalityType
<1>2. N \in SUBSET Nat /\ N # {} BY <1>1
<1>3. PICK n \in N : \A m \in N : n <= m
  <2> HIDE DEF N
  <2> QED BY <1>2, Smallest
<1>4. PICK x \in S : n = Cardinality(Below(x)) BY <1>3
<1>5. ASSUME NEW y \in S, y < x PROVE FALSE
  <2>0. x \in Int /\ y \in Int /\ S \subseteq Int OBVIOUS
  <2>1. Below(y) \in SUBSET Below(x) /\ y \in Below(x) /\ y \notin Below(y)
    <3>1. \A z \in Below(y) : z \in Int /\ z < y /\ z \in S BY <2>0
    <3>2. \A z \in Below(y) : z < x BY <1>5, <2>0, <3>1
    <3>3. \A z \in Below(y) : z \in Below(x) BY <3>1, <3>2
    <3>4. ~(y < y) BY <2>0
    <3> QED BY <1>5, <3>3, <3>4
  <2>2. Cardinality(Below(x)) <= Cardinality(Below(y)) BY <1>3, <1>4
  <2> HIDE DEF Below
  <2>3. Cardinality(Below(y)) <= Cardinality(Below(x)) BY <1>1, <2>1, FS_Subset
  <2>4. Cardinality(Below(x)) = Cardinality(Below(y)) 
    <3>1. Cardinality(Below(x)) \in Nat /\ Cardinality(Below(y)) \in Nat BY <1>1, <1>5
    <3> QED BY <2>2, <2>3, <3>1
  <2> QED BY <1>1, <2>1, <2>4, FS_Subset
<1> QED BY <1>5

\* A set that is counted by another.
LEMMA SameCount ==
  ASSUME NEW S, NEW T, NEW f, IsFiniteSet(S), f = [x \in S |-> f[x]],
         T = {f[x] : x \in S}, \A x, y \in S : f[x] = f[y] => x = y
  PROVE  Cardinality(T) = Cardinality(S)
<1>1. f \in [S -> T]
  <2>1. \A x \in S : f[x] \in T OBVIOUS
  <2> QED BY <2>1
<1>2. f \in Surjection(S, T)
  <2>1. \A t \in T : \E x \in S : f[x] = t OBVIOUS
  <2> QED BY <1>1, <2>1 DEF Surjection
<1>3. f \in Injection(S, T) BY <1>1 DEF Injection, IsInjective
<1> QED BY <1>2, <1>3, FS_Surjection

\* B orders the members of S.
Orders(B, S) ==
  /\ \A p \in S : <<p, p>> \notin B
  /\ \A p, q, r \in S : <<p, q>> \in B /\ <<q, r>> \in B => <<p, r>> \in B
  /\ \A p, q \in S : p # q => <<p, q>> \in B \/ <<q, p>> \in B

Preceding(B, S, p) == {q \in S : <<q, p>> \in B}

\* The members of an ordered finite set are numbered by how many precede them.
LEMMA Numbering ==
  ASSUME NEW S, IsFiniteSet(S), NEW B, Orders(B, S)
  PROVE  /\ Cardinality(S) \in Nat
         /\ \A p \in S : Cardinality(Preceding(B, S, p)) \in 0..(Cardinality(S) - 1)
         /\ \A p, q \in S : <<p, q>> \in B =>
              Cardinality(Preceding(B, S, p)) < Cardinality(Preceding(B, S, q))
         /\ \A k \in 0..(Cardinality(S) - 1) :
              \E p \in S : Cardinality(Preceding(B, S, p)) = k
<1> DEFINE n == Cardinality(S)
           rank(p) == Cardinality(Preceding(B, S, p))
           f == [p \in S |-> rank(p)]
<1>1. n \in Nat /\ \A p \in S : IsFiniteSet(Preceding(B, S, p)) /\ rank(p) \in Nat
  <2>1. \A p \in S : Preceding(B, S, p) \in SUBSET S BY DEF Preceding
  <2> QED BY <2>1, FS_Subset, FS_CardinalityType
<1>2. ASSUME NEW p \in S, NEW T \in SUBSET S, NEW x \in T,
             Preceding(B, S, p) \subseteq T, x \notin Preceding(B, S, p)
      PROVE  rank(p) < Cardinality(T)
  <2>1. IsFiniteSet(T) /\ Cardinality(T) \in Nat BY FS_Subset, FS_CardinalityType
  <2>2. Preceding(B, S, p) \in SUBSET T /\ Preceding(B, S, p) # T BY <1>2
  <2>3. rank(p) <= Cardinality(T) /\ rank(p) # Cardinality(T) BY <2>1, <2>2, FS_Subset
  <2> QED BY <1>1, <2>1, <2>3
<1>3. \A p \in S : rank(p) < n
  <2> SUFFICES ASSUME NEW p \in S PROVE rank(p) < n OBVIOUS
  <2>1. p \notin Preceding(B, S, p) /\ Preceding(B, S, p) \subseteq S BY DEF Orders, Preceding
  <2> QED BY <1>2, <2>1
<1>4. \A p, q \in S : <<p, q>> \in B => rank(p) < rank(q)
  <2> SUFFICES ASSUME NEW p \in S, NEW q \in S, <<p, q>> \in B PROVE rank(p) < rank(q)
    OBVIOUS
  <2>1. /\ p \in Preceding(B, S, q) /\ p \notin Preceding(B, S, p)
        /\ Preceding(B, S, p) \subseteq Preceding(B, S, q)
        /\ Preceding(B, S, q) \in SUBSET S
    BY DEF Orders, Preceding
  <2> QED BY <1>2, <2>1
<1>5. ASSUME NEW k \in 0..(n - 1) PROVE \E p \in S : rank(p) = k
  <2> DEFINE T == 0..(n - 1)
  <2>1. IsFiniteSet(T) /\ Cardinality(T) = n
    <3>1. n - 1 \in Int /\ 0 \in Int BY <1>1
    <3>2. IsFiniteSet(T) /\ Cardinality(T) = IF 0 > n - 1 THEN 0 ELSE n - 1 - 0 + 1
      BY <3>1, FS_Interval
    <3> HIDE DEF T, n
    <3> QED BY <1>1, <3>2
  <2>2. \A p \in S : rank(p) \in T BY <1>1, <1>3
  <2> HIDE DEF T, n
  <2>3. f \in Injection(S, T)
    <3>1. f \in [S -> T] /\ \A p \in S : f[p] = rank(p) BY <2>2
    <3> HIDE DEF f, rank
    <3>2. ASSUME NEW p \in S, NEW q \in S, p # q PROVE rank(p) # rank(q)
      <4>1. rank(p) \in Nat /\ rank(q) \in Nat BY <1>1
      <4>2. rank(p) < rank(q) \/ rank(q) < rank(p) BY <1>4, <3>2 DEF Orders
      <4> QED BY <4>1, <4>2
    <3> QED BY <3>1, <3>2 DEF Injection, IsInjective
  <2> HIDE DEF f
  <2>4. f \in Surjection(S, T) BY <1>1, <2>1, <2>3, FS_Injection DEF n
  <2>5. \E p \in S : f[p] = k BY <1>5, <2>4 DEF Surjection, T
  <2> QED BY <2>5 DEF f
<1> QED
  <2>1. \A p \in S : rank(p) \in 0..(n - 1) BY <1>1, <1>3
  <2> HIDE DEF rank, n
  <2>2. /\ n \in Nat
        /\ \A p \in S : rank(p) \in 0..(n - 1)
        /\ \A p, q \in S : <<p, q>> \in B => rank(p) < rank(q)
        /\ \A k \in 0..(n - 1) : \E p \in S : rank(p) = k
    BY <1>1, <1>4, <1>5, <2>1
  <2> QED BY <2>2 DEF rank, n

\* A function of the first n numbers is a sequence of n members.
LEMMA AsSequence ==
  ASSUME NEW n \in Nat, NEW S, NEW f \in [1..n -> S]
  PROVE  f \in Seq(S) /\ Len(f) = n /\ DOMAIN f = 1..n
<1>1. f \in Seq(S) /\ DOMAIN f = 1..n OBVIOUS
<1>2. Len([k \in 1..n |-> f[k]]) = n OBVIOUS
<1> QED BY <1>1, <1>2

\* o is a numbering of S that keeps the order B.
Enumerates(o, B, S) ==
  /\ Cardinality(S) \in Nat /\ Len(o) = Cardinality(S) /\ DOMAIN o = 1..Cardinality(S)
  /\ \A k \in 1..Len(o) : o[k] \in S
  /\ \A p \in S : \E k \in 1..Len(o) : o[k] = p
  /\ \A k, l \in 1..Len(o) : k < l => <<o[k], o[l]>> \in B

\* What Sorted makes of an order is such a numbering.
LEMMA SortedIs ==
  ASSUME NEW S, IsFiniteSet(S), NEW B, Orders(B, S),
         NEW o \in [1..Cardinality(S) -> S],
         \A k \in 1..Cardinality(S) : Cardinality(Preceding(B, S, o[k])) = k - 1
  PROVE  Enumerates(o, B, S)
<1> DEFINE n == Cardinality(S)
           rank(p) == Cardinality(Preceding(B, S, p))
<1>1. /\ n \in Nat
      /\ \A p \in S : rank(p) \in 0..(n - 1)
      /\ \A p, q \in S : <<p, q>> \in B => rank(p) < rank(q)
      /\ \A k \in 0..(n - 1) : \E p \in S : rank(p) = k
  BY Numbering
<1>2. o \in [1..n -> S] /\ \A k \in 1..n : rank(o[k]) = k - 1 OBVIOUS
<1> HIDE DEF n, rank
<1>3. \A k \in 1..n : o[k] \in S /\ rank(o[k]) = k - 1 BY <1>2
<1>4. o \in [1..n -> S] BY <1>2
<1>5. Len(o) = n /\ DOMAIN o = 1..n BY <1>1, <1>4, AsSequence
<1>6. ASSUME NEW p \in S, NEW q \in S, p # q PROVE rank(p) # rank(q)
  <2>1. rank(p) \in Int /\ rank(q) \in Int BY <1>1
  <2>2. rank(p) < rank(q) \/ rank(q) < rank(p) BY <1>1, <1>6 DEF Orders
  <2> QED BY <2>1, <2>2
<1>7. \A p \in S : \E k \in 1..n : o[k] = p
  <2> SUFFICES ASSUME NEW p \in S PROVE \E k \in 1..n : o[k] = p OBVIOUS
  <2>1. rank(p) + 1 \in 1..n /\ (rank(p) + 1) - 1 = rank(p) BY <1>1
  <2>2. rank(o[rank(p) + 1]) = rank(p) /\ o[rank(p) + 1] \in S BY <1>3, <2>1
  <2> QED BY <1>6, <2>1, <2>2
<1>8. \A k, l \in 1..n : k < l => <<o[k], o[l]>> \in B
  <2> SUFFICES ASSUME NEW k \in 1..n, NEW l \in 1..n, k < l PROVE <<o[k], o[l]>> \in B
    OBVIOUS
  <2>1. rank(o[k]) = k - 1 /\ rank(o[l]) = l - 1 /\ o[k] \in S /\ o[l] \in S BY <1>3
  <2>2. ~(rank(o[l]) < rank(o[k])) /\ o[k] # o[l] BY <1>1, <2>1
  <2> QED BY <1>1, <2>1, <2>2 DEF Orders
<1> QED BY <1>1, <1>3, <1>5, <1>7, <1>8 DEF n, Enumerates
-----------------------------------------------------------------------------
(***************************************************************************)
(* Sums.  The library adds up in an order it chooses; no order matters.    *)
(***************************************************************************)

Pick(s) == CHOOSE x \in s : TRUE

\* g adds up f over the subsets of S, each by its chosen member first.
AddsUp(g, f, S) ==
  g = [s \in SUBSET S |-> IF s = {} THEN 0 ELSE f[Pick(s)] + g[s \ {Pick(s)}]]

\* What the library computes, once the operators are gone.
LEMMA SumIs ==
  ASSUME NEW f, NEW S
  PROVE  SumFunctionOnSet(f, S) = (CHOOSE g : AddsUp(g, f, S))[S]
BY DEF SumFunctionOnSet, FoldFunctionOnSet, MapThenFoldSet, AddsUp, Pick

\* A nonempty set without its chosen member.
LEMMA Fewer ==
  ASSUME NEW s, IsFiniteSet(s), NEW x \in s
  PROVE  /\ IsFiniteSet(s \ {x}) /\ Cardinality(s) \in Nat /\ Cardinality(s) # 0
         /\ Cardinality(s \ {x}) = Cardinality(s) - 1
BY FS_CardinalityType, FS_EmptySet, FS_RemoveElement, FS_Subset

\* There is such a function: g[n] is right for the subsets of up to n members.
LEMMA SumExists ==
  ASSUME NEW S, IsFiniteSet(S), NEW f \in [S -> Int]
  PROVE  \E g \in [SUBSET S -> Int] : AddsUp(g, f, S)
<1> DEFINE X == [SUBSET S -> Int]
           Add(g) == [s \in SUBSET S |-> IF s = {} THEN 0 ELSE f[Pick(s)] + g[s \ {Pick(s)}]]
           zero == [s \in SUBSET S |-> 0]
           step == [e \in Nat \X X |-> Add(e[2])]
<1>1. ASSUME NEW g \in X PROVE Add(g) \in X
  <2>1. ASSUME NEW s \in SUBSET S, s # {} PROVE f[Pick(s)] + g[s \ {Pick(s)}] \in Int
    <3>1. Pick(s) \in S BY <2>1 DEF Pick
    <3>2. f[Pick(s)] \in Int /\ g[s \ {Pick(s)}] \in Int BY <3>1
    <3> QED BY <3>2
  <2> QED BY <2>1
<1>2. zero \in X OBVIOUS
<1>3. step \in [Nat \X X -> X]
  <2>1. \A e \in Nat \X X : e[2] \in X OBVIOUS
  <2> HIDE DEF X, Add
  <2> QED BY <1>1, <2>1
<1>4. PICK h \in [Nat -> X] : h[0] = zero /\ \A n \in Nat : h[n + 1] = Add(h[n])
  <2> HIDE DEF X, zero, step
  <2>1. Recursion(X, zero, step) # {} BY <1>2, <1>3, RecursiveFunction
  <2>2. PICK h \in [Nat -> X] : h[0] = zero /\ \A n \in Nat : h[n + 1] = step[<<n, h[n]>>]
    BY <2>1 DEF Recursion
  <2>3. \A n \in Nat : <<n, h[n]>> \in Nat \X X BY <2>2
  <2>4. \A n \in Nat : step[<<n, h[n]>>] = Add(h[n]) BY <2>3 DEF step
  <2> HIDE DEF Add
  <2> QED BY <2>2, <2>4
<1> DEFINE Enough(n) == \A s \in SUBSET S : Cardinality(s) <= n => h[n + 1][s] = h[n][s]
<1>5. \A n \in Nat : Enough(n)
  <2> DEFINE T == {n \in Nat : ~Enough(n)}
  <2> SUFFICES ASSUME T # {} PROVE FALSE OBVIOUS
  <2>1. PICK n \in T : \A m \in T : n <= m
    <3>1. T \in SUBSET Nat OBVIOUS
    <3> HIDE DEF T
    <3> QED BY <3>1, Smallest
  <2>2. n \in Nat /\ ~Enough(n) OBVIOUS
  <2>3. n # 0 => n - 1 \in Nat /\ Enough(n - 1)
    <3> HIDE DEF Enough
    <3>1. ASSUME n # 0 PROVE n - 1 \in Nat /\ n - 1 \notin T BY <2>1, <2>2, <3>1
    <3> QED BY <3>1
  <2>4. PICK s \in SUBSET S : Cardinality(s) <= n /\ h[n + 1][s] # h[n][s] BY <2>2
  <2>5. h[n + 1] = Add(h[n]) BY <1>4, <2>2
  <2>6. n # 0 => h[n] = Add(h[n - 1])
    <3>1. ASSUME n # 0 PROVE n - 1 \in Nat /\ (n - 1) + 1 = n BY <2>2, <3>1
    <3> HIDE DEF Add
    <3> QED BY <1>4, <3>1
  <2>7. CASE s = {}
    <3>1. h[n + 1][s] = 0 BY <2>5, <2>7
    <3>2. n # 0 => h[n][s] = 0 BY <2>6, <2>7
    <3>3. n = 0 => h[n][s] = 0 BY <1>4
    <3> QED BY <2>4, <3>1, <3>2, <3>3
  <2>8. CASE s # {}
    <3> DEFINE x == Pick(s)
    <3>1. x \in s BY <2>8 DEF Pick
    <3>2. IsFiniteSet(s) BY FS_Subset
    <3>3. n # 0 /\ Cardinality(s \ {x}) <= n - 1
      <4> HIDE DEF x
      <4>1. Cardinality(s) \in Nat /\ Cardinality(s) # 0 /\ Cardinality(s \ {x}) = Cardinality(s) - 1
        BY <3>1, <3>2, Fewer
      <4> QED BY <2>2, <2>4, <4>1
    <3>4. h[n][s \ {x}] = h[n - 1][s \ {x}]
      <4>1. s \ {x} \in SUBSET S /\ (n - 1) + 1 = n BY <2>2
      <4> HIDE DEF x
      <4> QED BY <2>3, <3>3, <4>1
    <3>5. h[n + 1][s] = f[x] + h[n][s \ {x}] BY <2>5, <2>8
    <3>6. h[n][s] = f[x] + h[n - 1][s \ {x}] BY <2>6, <2>8, <3>3
    <3> QED BY <2>4, <3>4, <3>5, <3>6
  <2> QED BY <2>7, <2>8
<1> DEFINE n == Cardinality(S)
<1>6. n \in Nat BY FS_CardinalityType
<1>7. h[n + 1] = h[n]
  <2>1. ASSUME NEW s \in SUBSET S PROVE h[n + 1][s] = h[n][s]
    <3>1. Cardinality(s) <= n BY FS_Subset
    <3> HIDE DEF n
    <3> QED BY <1>5, <1>6, <3>1
  <2>2. h[n] \in X /\ h[n + 1] \in X
    <3> HIDE DEF X, n
    <3> QED BY <1>4, <1>6
  <2> HIDE DEF n
  <2> QED BY <2>1, <2>2
<1>8. h[n] \in X /\ h[n] = Add(h[n])
  <2> HIDE DEF X, n, Add
  <2> QED BY <1>4, <1>6, <1>7
<1> QED BY <1>8 DEF AddsUp

\* And only one, also for the subsets of two sets.
LEMMA SumUnique ==
  ASSUME NEW f, NEW S, NEW T, NEW g, NEW h, AddsUp(g, f, S), AddsUp(h, f, T)
  PROVE  \A s \in SUBSET (S \cap T) : IsFiniteSet(s) => g[s] = h[s]
<1> DEFINE Differ(s) == s \in SUBSET (S \cap T) /\ IsFiniteSet(s) /\ g[s] # h[s]
           N == {n \in Nat : \E s : Differ(s) /\ Cardinality(s) = n}
<1> SUFFICES ASSUME NEW r, Differ(r) PROVE FALSE OBVIOUS
<1>1. Cardinality(r) \in N BY FS_CardinalityType
<1>2. PICK n \in N : \A m \in N : n <= m
  <2>1. N \in SUBSET Nat OBVIOUS
  <2> HIDE DEF N
  <2> QED BY <1>1, <2>1, Smallest
<1>3. PICK s : Differ(s) /\ Cardinality(s) = n BY <1>2
<1>4. s # {} BY <1>3 DEF AddsUp
<1> DEFINE x == Pick(s)
<1>5. x \in s BY <1>4 DEF Pick
<1>6. g[s] = f[x] + g[s \ {x}] /\ h[s] = f[x] + h[s \ {x}] BY <1>3, <1>4 DEF AddsUp
<1>7. /\ IsFiniteSet(s \ {x}) /\ Cardinality(s \ {x}) \in Nat
      /\ ~(n <= Cardinality(s \ {x}))
  <2> HIDE DEF x
  <2>1. /\ IsFiniteSet(s \ {x}) /\ Cardinality(s) \in Nat
        /\ Cardinality(s \ {x}) = Cardinality(s) - 1 /\ Cardinality(s) # 0
    BY <1>3, <1>5, Fewer
  <2> QED BY <1>3, <2>1
<1>8. ~Differ(s \ {x})
  <2> HIDE DEF x, Differ
  <2> QED BY <1>2, <1>7
<1> QED BY <1>3, <1>6, <1>7, <1>8

\* The sum of f over S, by the member the library chooses.
LEMMA SumChosen ==
  ASSUME NEW D, NEW f \in [D -> Int], NEW S \in SUBSET D, IsFiniteSet(S)
  PROVE  /\ SumFunctionOnSet(f, S) \in Int
         /\ S = {} => SumFunctionOnSet(f, S) = 0
         /\ S # {} => SumFunctionOnSet(f, S)
                        = f[Pick(S)] + SumFunctionOnSet(f, S \ {Pick(S)})
<1> DEFINE G(s) == CHOOSE g : AddsUp(g, f, s)
<1>1. ASSUME NEW s \in SUBSET S
      PROVE  AddsUp(G(s), f, s) /\ G(s)[s] \in Int /\ SumFunctionOnSet(f, s) = G(s)[s]
  <2>1. IsFiniteSet(s) BY FS_Subset
  <2> DEFINE e == [x \in s |-> f[x]]
  <2>2. e \in [s -> Int] OBVIOUS
  <2>3. PICK h \in [SUBSET s -> Int] : AddsUp(h, e, s)
    <3> HIDE DEF e
    <3> QED BY <2>1, <2>2, SumExists
  <2>4. AddsUp(h, f, s)
    <3>1. \A t \in SUBSET s : t # {} => e[Pick(t)] = f[Pick(t)] BY DEF Pick
    <3>2. h = [t \in SUBSET s |-> IF t = {} THEN 0 ELSE e[Pick(t)] + h[t \ {Pick(t)}]]
      BY <2>3 DEF AddsUp
    <3> HIDE DEF e
    <3>3. \A t \in SUBSET s : h[t] = IF t = {} THEN 0 ELSE f[Pick(t)] + h[t \ {Pick(t)}]
      BY <3>1, <3>2
    <3>4. h = [t \in SUBSET s |-> IF t = {} THEN 0 ELSE f[Pick(t)] + h[t \ {Pick(t)}]]
      BY <2>3, <3>3
    <3> QED BY <3>4 DEF AddsUp
  <2>5. AddsUp(G(s), f, s) BY <2>4
  <2> HIDE DEF G
  <2>6. G(s)[s] = h[s] BY <2>1, <2>4, <2>5, SumUnique
  <2> QED BY <2>3, <2>5, <2>6, SumIs DEF G
<1>2. CASE S = {}
  <2>1. AddsUp(G(S), f, S) BY <1>1
  <2> HIDE DEF G
  <2>2. G(S)[S] = 0 BY <1>2, <2>1 DEF AddsUp
  <2> QED BY <1>1, <1>2, <2>2
<1>3. CASE S # {}
  <2> DEFINE x == Pick(S)
             T == S \ {x}
  <2>1. x \in S /\ T \in SUBSET S BY <1>3 DEF Pick
  <2>2. G(S)[S] = f[x] + G(S)[T]
    <3>1. AddsUp(G(S), f, S) BY <1>1
    <3> HIDE DEF G
    <3> QED BY <1>3, <3>1 DEF AddsUp
  <2>3. G(S)[T] = G(T)[T]
    <3>1. IsFiniteSet(T) /\ T \in SUBSET (S \cap T) BY <2>1, FS_Subset
    <3>2. AddsUp(G(S), f, S) /\ AddsUp(G(T), f, T) BY <1>1, <2>1
    <3> HIDE DEF G, T
    <3> QED BY <3>1, <3>2, SumUnique
  <2> HIDE DEF G, T
  <2> QED BY <1>1, <1>3, <2>1, <2>2, <2>3 DEF T
<1> HIDE DEF G
<1> QED BY <1>1, <1>2, <1>3

\* And by any member.
LEMMA SumStep ==
  ASSUME NEW D, NEW f \in [D -> Int], NEW S \in SUBSET D, IsFiniteSet(S), NEW x \in S
  PROVE  SumFunctionOnSet(f, S) = f[x] + SumFunctionOnSet(f, S \ {x})
<1> DEFINE Sum(s) == SumFunctionOnSet(f, s)
           Wrong(s) == /\ s \in SUBSET D /\ IsFiniteSet(s)
                       /\ \E y \in s : Sum(s) # f[y] + Sum(s \ {y})
           N == {n \in Nat : \E s : Wrong(s) /\ Cardinality(s) = n}
<1> SUFFICES ASSUME Wrong(S) PROVE FALSE OBVIOUS
<1>1. Cardinality(S) \in N BY FS_CardinalityType
<1>2. PICK n \in N : \A m \in N : n <= m
  <2>1. N \in SUBSET Nat OBVIOUS
  <2> HIDE DEF N
  <2> QED BY <1>1, <2>1, Smallest
<1>3. PICK s : Wrong(s) /\ Cardinality(s) = n BY <1>2
<1>4. PICK y \in s : Sum(s) # f[y] + Sum(s \ {y}) BY <1>3
<1> DEFINE c == Pick(s)
<1>5. c \in s BY <1>4 DEF Pick
<1>6. Sum(s) = f[c] + Sum(s \ {c}) BY <1>3, <1>4, SumChosen
<1>7. ASSUME NEW z \in s PROVE /\ IsFiniteSet(s \ {z}) /\ s \ {z} \in SUBSET D /\ ~Wrong(s \ {z})
                               /\ Sum(s \ {z}) \in Int /\ f[z] \in Int
  <2>1. IsFiniteSet(s \ {z}) /\ s \ {z} \in SUBSET D BY <1>3, FS_Subset
  <2>2. Cardinality(s \ {z}) \in Nat /\ ~(n <= Cardinality(s \ {z}))
    <3>1. /\ Cardinality(s) \in Nat
          /\ Cardinality(s \ {z}) = Cardinality(s) - 1 /\ Cardinality(s) # 0
      BY <1>3, Fewer
    <3> QED BY <1>3, <3>1
  <2>3. ~Wrong(s \ {z})
    <3> HIDE DEF Wrong
    <3> QED BY <1>2, <2>2
  <2>4. z \in D BY <1>3
  <2> QED BY <2>1, <2>3, <2>4, SumChosen
<1>8. c # y BY <1>4, <1>6
<1>9. y \in s \ {c} /\ c \in s \ {y} BY <1>5, <1>8
<1> HIDE DEF c
<1>10. Sum(s \ {c}) = f[y] + Sum((s \ {c}) \ {y}) BY <1>5, <1>7, <1>9
<1>11. Sum(s \ {y}) = f[c] + Sum((s \ {y}) \ {c}) BY <1>7, <1>9
<1>12. (s \ {c}) \ {y} = (s \ {y}) \ {c} OBVIOUS
<1>13. Sum((s \ {c}) \ {y}) \in Int
  <2>1. (s \ {c}) \ {y} \in SUBSET D /\ IsFiniteSet((s \ {c}) \ {y}) BY <1>3, FS_Subset
  <2> QED BY <2>1, SumChosen
<1>14. f[c] \in Int /\ f[y] \in Int BY <1>5, <1>7
<1> DEFINE rest == Sum((s \ {c}) \ {y})
<1>15. Sum(s) = f[c] + (f[y] + rest) /\ f[y] + Sum(s \ {y}) = f[y] + (f[c] + rest)
  BY <1>6, <1>10, <1>11, <1>12
<1> HIDE DEF Sum, rest
<1>16. rest \in Int BY <1>13 DEF rest
<1> QED BY <1>4, <1>14, <1>15, <1>16

\* A sum of integers is an integer, and lies between bounds of its members.
LEMMA SumBounds ==
  ASSUME NEW D, NEW f \in [D -> Int], NEW S \in SUBSET D, IsFiniteSet(S), NEW x \in Int
  PROVE  /\ SumFunctionOnSet(f, S) \in Int
         /\ (\A d \in S : x <= f[d]) => x * Cardinality(S) <= SumFunctionOnSet(f, S)
         /\ (\A d \in S : f[d] < x) /\ S # {} => SumFunctionOnSet(f, S) < x * Cardinality(S)
<1> DEFINE Sum(s) == SumFunctionOnSet(f, s)
           Right(s) == /\ (\A d \in s : x <= f[d]) => x * Cardinality(s) <= Sum(s)
                       /\ (\A d \in s : f[d] < x) /\ s # {} => Sum(s) < x * Cardinality(s)
           Wrong(s) == s \in SUBSET D /\ IsFiniteSet(s) /\ ~Right(s)
           N == {n \in Nat : \E s : Wrong(s) /\ Cardinality(s) = n}
<1>0. Sum(S) \in Int BY SumChosen
<1> SUFFICES ASSUME Wrong(S) PROVE FALSE BY <1>0
<1>1. Cardinality(S) \in N BY FS_CardinalityType
<1>2. PICK n \in N : \A m \in N : n <= m
  <2>1. N \in SUBSET Nat OBVIOUS
  <2> HIDE DEF N
  <2> QED BY <1>1, <2>1, Smallest
<1>3. PICK s : Wrong(s) /\ Cardinality(s) = n BY <1>2
<1> HIDE DEF Sum
<1>4. s # {}
  <2>1. ASSUME s = {} PROVE Sum(s) = 0 /\ Cardinality(s) = 0
    BY <1>3, <2>1, FS_EmptySet, SumChosen DEF Sum
  <2>2. x * 0 = 0 OBVIOUS
  <2> QED BY <1>3, <2>1, <2>2
<1>5. PICK y \in s : TRUE BY <1>4
<1> DEFINE r == s \ {y}
<1>6. /\ IsFiniteSet(r) /\ Cardinality(s) \in Nat /\ Cardinality(s) # 0
      /\ Cardinality(r) = Cardinality(s) - 1
  BY <1>3, <1>5, Fewer
<1>7. r \in SUBSET D /\ Right(r)
  <2>1. Cardinality(r) \in Nat /\ ~(n <= Cardinality(r)) BY <1>3, <1>6
  <2>2. r \in SUBSET D BY <1>3
  <2> HIDE DEF r, Right
  <2> QED BY <1>2, <1>6, <2>1, <2>2
<1>8. Sum(s) = f[y] + Sum(r) /\ Sum(r) \in Int /\ f[y] \in Int
  <2>1. s \in SUBSET D /\ IsFiniteSet(s) /\ y \in D BY <1>3, <1>5
  <2>2. Sum(s) = f[y] + Sum(s \ {y}) BY <1>5, <2>1, SumStep DEF Sum
  <2>3. r \in SUBSET D /\ IsFiniteSet(r) BY <1>6, <1>7
  <2> HIDE DEF r
  <2>4. Sum(r) \in Int BY <2>3, SumChosen DEF Sum
  <2> QED BY <2>1, <2>2, <2>4 DEF r
<1>9. x * Cardinality(s) = x + x * Cardinality(r) /\ x * Cardinality(r) \in Int
  <2> DEFINE k == Cardinality(r)
  <2>1. k \in Nat /\ Cardinality(s) = k + 1 BY <1>6
  <2> HIDE DEF k
  <2>2. x * (k + 1) = x + x * k /\ x * k \in Int BY <2>1
  <2> QED BY <2>1, <2>2 DEF k
<1>10. (\A d \in s : x <= f[d]) => x * Cardinality(s) <= Sum(s)
  <2> SUFFICES ASSUME \A d \in s : x <= f[d] PROVE x * Cardinality(s) <= Sum(s) OBVIOUS
  <2>1. x <= f[y] /\ x * Cardinality(r) <= Sum(r) BY <1>5, <1>7
  <2> HIDE DEF r
  <2> QED BY <1>8, <1>9, <2>1
<1>11. (\A d \in s : f[d] < x) => Sum(s) < x * Cardinality(s)
  <2> SUFFICES ASSUME \A d \in s : f[d] < x PROVE Sum(s) < x * Cardinality(s) OBVIOUS
  <2>1. f[y] < x /\ (r # {} => Sum(r) < x * Cardinality(r)) BY <1>5, <1>7
  <2>2. r = {} => Sum(r) = 0 /\ x * Cardinality(r) = 0
    <3>1. x * 0 = 0 OBVIOUS
    <3>2. ASSUME r = {} PROVE Sum(r) = 0 /\ Cardinality(r) = 0
      <4>1. r \in SUBSET D BY <1>7
      <4> QED BY <1>6, <3>2, <4>1, FS_EmptySet, SumChosen DEF Sum
    <3> QED BY <3>1, <3>2
  <2> HIDE DEF r
  <2> QED BY <1>8, <1>9, <2>1, <2>2
<1> QED BY <1>3, <1>10, <1>11

-----------------------------------------------------------------------------
(***************************************************************************)
(* Adapter: a call answers from what was registered and leaves nothing.    *)
(***************************************************************************)

(***************************************************************************)
(* The inductive invariant.                                                *)
(***************************************************************************)

Phases == {"idle", "mkdtemp", "open", "read", "check", "drop", "worker", "await", "close", "answered"}

\* The shape of a call.
CallType ==
  [phase : Phases, ids : Seq(Artifacts), k : Nat, before : Nat, copy : BOOLEAN,
   captured : SUBSET Artifacts, ok : BOOLEAN, started : BOOLEAN, doomed : BOOLEAN]

AdapterTypeOK ==
  /\ call \in [Calls -> CallType]
  /\ disk \in [Artifacts -> [stamp : Nat, registered : BOOLEAN]]
  /\ scratch \subseteq Calls /\ running \subseteq Calls /\ awaited \subseteq running
  /\ failures \in Nat /\ closing \in {"open", "closed", "aborted", "settled"}

\* A call that captures has the artifacts before the one it is at; one that has
\* captured has them all.
Captures(r) ==
  /\ r.phase = "mkdtemp" => r.captured = {}
  /\ r.phase \in {"open", "read", "check"} =>
       /\ r.k \in 1..(Len(r.ids) + 1)
       /\ r.captured = {r.ids[i] : i \in 1..(r.k - 1)}
  /\ r.phase \in {"read", "check"} => r.k <= Len(r.ids)
  /\ r.phase \in {"worker", "await", "close"} => r.captured = ToSet(r.ids)

\* What succeeded began before an abort; a worker not doomed is one that did.
Succeeds(r) ==
  /\ r.phase = "await" => (r.doomed <=> ~r.started)
  /\ r.ok => r.phase \in {"close", "answered"} /\ r.started /\ r.captured = ToSet(r.ids)

\* Where a call stands tells which directory and worker it has.
Placed(c, r) ==
  /\ c \in running <=> r.phase = "await"
  /\ r.phase \in {"idle", "mkdtemp"} => c \notin scratch
  /\ r.phase = "answered" /\ c \in scratch => ~r.ok /\ failures > 0

CallInv == \A c \in Calls : Captures(call[c]) /\ Succeeds(call[c]) /\ Placed(c, call[c])

\* The counter of active calls.
CountInv ==
  /\ active \in Nat /\ active <= Capacity
  /\ Cardinality(Active) = active

\* The disposer waits for every worker that may succeed.
DisposalInv ==
  /\ closing \notin {"aborted"} => awaited = {}
  /\ closing \in {"aborted", "settled"} => \A c \in running \ awaited : ~call[c].started

AdapterInv == AdapterTypeOK /\ CallInv /\ CountInv /\ DisposalInv
-----------------------------------------------------------------------------
LEMMA ActiveIsFinite == IsFiniteSet(Active) /\ Active \subseteq Calls
<1>1. Active \subseteq Calls
  BY DEF Active
<1> QED
  BY <1>1, FS_Subset, AdapterAssumption DEF AdapterAssumption

\* One call goes on as r and others stay where they are.
LEMMA OtherCalls ==
  ASSUME AdapterTypeOK, NEW c \in Calls, NEW r, r \in CallType, Continue(c, r)
  PROVE  /\ call'[c] = r /\ \A d \in Calls \ {c} : call'[d] = call[d]
         /\ call' \in [Calls -> CallType]
BY DEF AdapterTypeOK, Continue

\* The number of active calls follows a call that becomes active, or ends, or
\* does neither.
LEMMA ActiveIsCounted ==
  ASSUME AdapterTypeOK, CountInv, NEW c \in Calls, NEW r, r \in CallType, Continue(c, r),
         LET was == call[c].phase \notin {Waiting, "answered"}
             is == r.phase \notin {Waiting, "answered"}
         IN \/ ~was /\ is /\ active' = active + 1
            \/ was /\ ~is /\ active' = active - 1
            \/ (was <=> is) /\ active' = active
  PROVE  active' \in Nat /\ Cardinality(Active') = active'
<1> DEFINE is == r.phase \notin {Waiting, "answered"}
<1>1. call'[c] = r /\ \A d \in Calls \ {c} : call'[d] = call[d]
  BY OtherCalls
<1>2. Active' = IF is THEN Active \cup {c} ELSE Active \ {c}
  BY <1>1 DEF Active
<1>3. c \in Active <=> call[c].phase \notin {Waiting, "answered"}
  BY DEF Active
<1>4. IsFiniteSet(Active) /\ Cardinality(Active) = active /\ active \in Nat
  BY ActiveIsFinite DEF CountInv
<1>5. CASE c \notin Active /\ is
  <2>1. Cardinality(Active \cup {c}) = Cardinality(Active) + 1
    BY <1>4, <1>5, FS_AddElement
  <2> QED
    BY <2>1, <1>2, <1>3, <1>4, <1>5
<1>6. CASE c \in Active /\ ~is
  <2>1. Cardinality(Active \ {c}) = Cardinality(Active) - 1
    BY <1>4, <1>6, FS_RemoveElement
  <2>2. Cardinality(Active \ {c}) \in Nat
    BY <1>4, FS_RemoveElement, FS_CardinalityType
  <2> QED
    BY <2>1, <2>2, <1>2, <1>3, <1>4, <1>6
<1>7. CASE c \in Active <=> is
  <2>1. Active' = Active
    BY <1>2, <1>7
  <2> QED
    BY <2>1, <1>3, <1>4, <1>7
<1> QED
  BY <1>5, <1>6, <1>7

\* What a step that makes r of call c may do beside it.
Effect(c, r) ==
  LET was == call[c].phase \notin {Waiting, "answered"}
      is == r.phase \notin {Waiting, "answered"}
  IN /\ Continue(c, r) /\ Placed(c, r)'
     /\ disk' = disk /\ closing' = closing /\ failures' \in Nat /\ failures' >= failures
     /\ scratch' \subseteq Calls /\ scratch' \ {c} = scratch \ {c}
     /\ running' \subseteq Calls /\ running' \ {c} = running \ {c}
     /\ awaited' \subseteq running' /\ awaited' \ {c} = awaited \ {c}
     /\ closing # "aborted" => awaited' = awaited
     /\ c \in running' \ awaited' /\ closing \in {"aborted", "settled"} => ~r.started
     /\ \/ ~was /\ is /\ active' = active + 1 /\ active < Capacity
        \/ was /\ ~is /\ active' = active - 1
        \/ (was <=> is) /\ active' = active

\* A step of call c that keeps to these rules keeps the invariant.
LEMMA StepOfCall ==
  ASSUME AdapterInv, NEW c \in Calls, NEW r \in CallType, Captures(r), Succeeds(r), Effect(c, r)
  PROVE  AdapterInv'
<1>0. AdapterTypeOK /\ CallInv /\ CountInv /\ DisposalInv
  BY DEF AdapterInv
<1>1. /\ call'[c] = r /\ \A d \in Calls \ {c} : call'[d] = call[d]
      /\ call' \in [Calls -> CallType]
  BY <1>0, OtherCalls DEF Effect
<1>2. AdapterTypeOK'
  BY <1>0, <1>1 DEF AdapterTypeOK, Effect
<1>3. CallInv'
  <2> SUFFICES ASSUME NEW d \in Calls
               PROVE  Captures(call'[d]) /\ Succeeds(call'[d]) /\ Placed(d, call[d])'
    BY DEF CallInv, Captures, Succeeds, Placed
  <2>1. CASE d = c
    BY <2>1, <1>1 DEF Placed, Effect
  <2>2. CASE d # c
    <3>1. call'[d] = call[d] /\ (d \in running' <=> d \in running) /\ (d \in scratch' <=> d \in scratch)
      BY <2>2, <1>1 DEF Effect
    <3>2. Captures(call[d]) /\ Succeeds(call[d]) /\ Placed(d, call[d])
      BY <1>0 DEF CallInv
    <3>3. Placed(d, call[d])'
      BY <3>1, <3>2, <1>0 DEF Placed, AdapterTypeOK, Effect
    <3> QED
      BY <3>1, <3>2, <3>3
  <2> QED
    BY <2>1, <2>2
<1>4. CountInv'
  <2>1. active' \in Nat /\ Cardinality(Active') = active'
    BY <1>0, ActiveIsCounted DEF Effect
  <2>2. active' <= Capacity
    BY <1>0, AdapterAssumption DEF CountInv, AdapterAssumption, Effect
  <2> QED
    BY <2>1, <2>2 DEF CountInv
<1>5. DisposalInv'
  <2>1. \A d \in running' \ awaited' : d # c => d \in running \ awaited /\ call'[d] = call[d]
    BY <1>1 DEF Effect
  <2> QED
    BY <2>1, <1>0, <1>1 DEF DisposalInv, Effect
<1> QED
  BY <1>2, <1>3, <1>4, <1>5 DEF AdapterInv
-----------------------------------------------------------------------------
(***************************************************************************)
(* The steps of a call.                                                    *)
(***************************************************************************)

\* What the invariant says of one call.
LEMMA OfCall ==
  ASSUME AdapterInv, NEW c \in Calls
  PROVE  /\ call[c] \in CallType /\ Captures(call[c]) /\ Succeeds(call[c]) /\ Placed(c, call[c])
         /\ failures \in Nat /\ scratch \subseteq Calls /\ running \subseteq Calls
         /\ awaited \subseteq running /\ active \in Nat
BY DEF AdapterInv, AdapterTypeOK, CallInv, CountInv

LEMMA NewCallShape == NewCall \in CallType
BY DEF CallType, NewCall, Phases, Waiting

LEMMA EnterKeeps == ASSUME AdapterInv, NEW c \in Calls, Enter(c) PROVE AdapterInv'
<1>1. PICK ids \in Inputs :
        IF closing # "open" \/ active >= Capacity \/ ~Capturable(ids) \/ c \in canceled
        THEN RefusedCall(c) /\ UNCHANGED active
        ELSE /\ Continue(c, [NewCall EXCEPT !.phase = "mkdtemp", !.ids = ids])
             /\ active' = active + 1
  BY DEF Enter
<1>2. call[c].phase = "idle" /\ UNCHANGED <<disk, failures, scratch, canceled, closing, running, awaited>>
  BY DEF Enter, Waiting
<1>3. CASE RefusedCall(c) /\ UNCHANGED active
  <2>1. PICK r : r = [call[c] EXCEPT !.phase = "answered", !.ok = FALSE] /\ Continue(c, r)
    BY <1>3 DEF RefusedCall
  <2>2. r \in CallType /\ r.phase = "answered" /\ r.ok = FALSE
    BY <2>1, OfCall DEF CallType, Phases
  <2>3. Captures(r) /\ Succeeds(r)
    BY <2>2 DEF Captures, Succeeds
  <2>4. Effect(c, r)
    BY <1>2, <1>3, <2>1, <2>2, OfCall DEF Effect, Placed, Waiting
  <2> QED
    BY <2>2, <2>3, <2>4, StepOfCall
<1>4. CASE /\ Continue(c, [NewCall EXCEPT !.phase = "mkdtemp", !.ids = ids])
           /\ active' = active + 1 /\ active < Capacity /\ Capturable(ids)
  <2>0. ids \in Seq(Artifacts)
    <3>1. ids \in Seq(ToSet(ids)) /\ ToSet(ids) \subseteq Artifacts
      BY <1>4, AdapterAssumption DEF AdapterAssumption, Capturable
    <3>2. Len(ids) \in Nat /\ DOMAIN ids = 1..Len(ids) /\ ids \in [1..Len(ids) -> Artifacts]
      BY <3>1
    <3> QED
      BY <3>2
  <2>1. PICK r : r = [NewCall EXCEPT !.phase = "mkdtemp", !.ids = ids] /\ Continue(c, r)
    BY <1>4
  <2>2. r \in CallType /\ r.phase = "mkdtemp" /\ r.ok = FALSE /\ r.captured = {}
    BY <2>0, <2>1 DEF CallType, Phases, NewCall, Waiting
  <2>3. Captures(r) /\ Succeeds(r)
    BY <2>2 DEF Captures, Succeeds
  <2>4. Effect(c, r)
    BY <1>2, <1>4, <2>1, <2>2, OfCall DEF Effect, Placed, Waiting
  <2> QED
    BY <2>2, <2>3, <2>4, StepOfCall
<1> QED
  BY <1>1, <1>3, <1>4, OfCall, AdapterAssumption DEF AdapterAssumption

LEMMA MakeDirectoryKeeps == ASSUME AdapterInv, NEW c \in Calls, MakeDirectory(c) PROVE AdapterInv'
<1>1. call[c].phase = "mkdtemp" /\ UNCHANGED <<disk, canceled, closing, running, awaited>>
  BY DEF MakeDirectory
<1>2. CASE /\ Continue(c, [call[c] EXCEPT !.phase = "open", !.k = 1])
           /\ scratch' = scratch \cup {c} /\ UNCHANGED <<failures, active>>
  <2>1. PICK r : r = [call[c] EXCEPT !.phase = "open", !.k = 1] /\ Continue(c, r)
    BY <1>2
  <2>2. r \in CallType /\ r.phase = "open" /\ r.k = 1 /\ r.ok = call[c].ok /\ r.captured = call[c].captured
    BY <2>1, OfCall DEF CallType, Phases
  <2>3. Captures(r)
    <3>1. r.captured = {} /\ 1..(r.k - 1) = {} /\ Len(r.ids) \in Nat
      BY <1>1, <2>2, OfCall DEF Captures, CallType
    <3> QED
      BY <3>1, <2>2 DEF Captures
  <2>4. Succeeds(r)
    BY <1>1, <2>2, OfCall DEF Succeeds
  <2>5. Effect(c, r)
    BY <1>1, <1>2, <2>1, <2>2, OfCall DEF Effect, Placed, Waiting
  <2> QED
    BY <2>2, <2>3, <2>4, <2>5, StepOfCall
<1>3. CASE Failing /\ RefusedCall(c) /\ active' = active - 1 /\ UNCHANGED scratch
  <2>1. PICK r : r = [call[c] EXCEPT !.phase = "answered", !.ok = FALSE] /\ Continue(c, r)
    BY <1>3 DEF RefusedCall
  <2>2. r \in CallType /\ r.phase = "answered" /\ r.ok = FALSE /\ failures' = failures + 1
    BY <1>3, <2>1, OfCall DEF CallType, Phases, Failing
  <2>3. Captures(r) /\ Succeeds(r)
    BY <2>2 DEF Captures, Succeeds
  <2>4. Effect(c, r)
    BY <1>1, <1>3, <2>1, <2>2, OfCall DEF Effect, Placed, Waiting
  <2> QED
    BY <2>2, <2>3, <2>4, StepOfCall
<1> QED
  BY <1>2, <1>3 DEF MakeDirectory

\* A step within the capture of a snapshot.
LEMMA ProgressKeeps ==
  ASSUME AdapterInv, NEW c \in Calls, NEW r, r \in CallType, Progress(c, r), Captures(r),
         call[c].phase \in {"open", "read", "check"},
         r.phase \in {"open", "read", "check", "drop", "worker"}, r.ok = call[c].ok,
         failures' = failures \/ failures' = failures + 1
  PROVE  AdapterInv'
<1>1. Succeeds(r)
  BY OfCall DEF Succeeds
<1>2. Effect(c, r)
  BY OfCall DEF Effect, Progress, Placed, Waiting
<1> QED
  BY <1>1, <1>2, StepOfCall

LEMMA GiveUpKeeps ==
  ASSUME AdapterInv, NEW c \in Calls, Progress(c, GiveUp(c)),
         call[c].phase \in {"open", "read", "check"},
         failures' = failures \/ failures' = failures + 1
  PROVE  AdapterInv'
<1>1. PICK r : r = [call[c] EXCEPT !.phase = "drop"] /\ Progress(c, r)
  BY DEF GiveUp
<1>2. r \in CallType /\ r.phase = "drop" /\ r.ok = call[c].ok
  BY <1>1, OfCall DEF CallType, Phases
<1>3. Captures(r)
  BY <1>2 DEF Captures
<1> QED
  BY <1>1, <1>2, <1>3, ProgressKeeps

LEMMA SourceIsArtifact ==
  ASSUME AdapterInv, NEW c \in Calls, call[c].k \in 1..Len(call[c].ids)
  PROVE  Source(c) \in Artifacts /\ disk[Source(c)] \in [stamp : Nat, registered : BOOLEAN]
<1>1. call[c].ids \in Seq(Artifacts)
  BY OfCall DEF CallType
<1>2. Source(c) \in Artifacts
  BY <1>1 DEF Source
<1> QED
  BY <1>2 DEF AdapterInv, AdapterTypeOK

LEMMA OpenSourceKeeps == ASSUME AdapterInv, NEW c \in Calls, OpenSource(c) PROVE AdapterInv'
<1>1. call[c].phase = "open" /\ Len(call[c].ids) \in Nat /\ call[c].k \in 1..(Len(call[c].ids) + 1)
      /\ call[c].captured = {call[c].ids[i] : i \in 1..(call[c].k - 1)}
      /\ DOMAIN call[c].ids = 1..Len(call[c].ids)
  BY OfCall DEF OpenSource, Captures, CallType
<1>2. CASE /\ UNCHANGED failures /\ call[c].k > Len(call[c].ids)
           /\ Progress(c, [call[c] EXCEPT !.phase = "worker"])
  <2>1. PICK r : r = [call[c] EXCEPT !.phase = "worker"] /\ Progress(c, r)
    BY <1>2
  <2>2. r \in CallType /\ r.phase = "worker" /\ r.ok = call[c].ok /\ r.ids = call[c].ids
        /\ r.captured = call[c].captured
    BY <2>1, OfCall DEF CallType, Phases
  <2>3. r.captured = ToSet(r.ids)
    BY <1>1, <1>2, <2>2 DEF ToSet
  <2> QED
    BY <1>1, <1>2, <2>1, <2>2, <2>3, ProgressKeeps DEF Captures
<1>3. CASE /\ UNCHANGED failures /\ ~(call[c].k > Len(call[c].ids))
           /\ Progress(c, [call[c] EXCEPT !.phase = "read", !.before = disk[Source(c)].stamp])
  <2>0. disk[Source(c)].stamp \in Nat
    BY <1>1, <1>3, SourceIsArtifact
  <2>1. PICK r : /\ r = [call[c] EXCEPT !.phase = "read", !.before = disk[Source(c)].stamp]
                 /\ Progress(c, r)
    BY <1>3
  <2>2. r \in CallType /\ r.phase = "read" /\ r.ok = call[c].ok /\ r.ids = call[c].ids
        /\ r.captured = call[c].captured /\ r.k = call[c].k
    BY <2>0, <2>1, OfCall DEF CallType, Phases
  <2>3. Captures(r)
    BY <1>1, <1>3, <2>2 DEF Captures
  <2> QED
    BY <1>1, <1>3, <2>1, <2>2, <2>3, ProgressKeeps
<1>4. CASE Failing /\ Progress(c, GiveUp(c))
  BY <1>1, <1>4, GiveUpKeeps DEF Failing
<1> QED
  BY <1>2, <1>3, <1>4 DEF OpenSource

LEMMA ReadSourceKeeps == ASSUME AdapterInv, NEW c \in Calls, ReadSource(c) PROVE AdapterInv'
<1>1. call[c].phase = "read" /\ failures' = failures
  BY DEF ReadSource
<1>2. CASE Progress(c, GiveUp(c))
  BY <1>1, <1>2, GiveUpKeeps
<1>3. CASE Progress(c, [call[c] EXCEPT !.phase = "check", !.copy = disk[Source(c)].registered])
  <2>0. disk[Source(c)].registered \in BOOLEAN
    <3>1. call[c].k \in 1..Len(call[c].ids)
      BY <1>1, OfCall DEF Captures, CallType
    <3> QED
      BY <3>1, SourceIsArtifact
  <2>1. PICK r : /\ r = [call[c] EXCEPT !.phase = "check", !.copy = disk[Source(c)].registered]
                 /\ Progress(c, r)
    BY <1>3
  <2>2. r \in CallType /\ r.phase = "check" /\ r.ok = call[c].ok /\ r.ids = call[c].ids
        /\ r.captured = call[c].captured /\ r.k = call[c].k
    BY <2>0, <2>1, OfCall DEF CallType, Phases
  <2>3. Captures(r)
    BY <1>1, <2>2, OfCall DEF Captures
  <2> QED
    BY <1>1, <2>1, <2>2, <2>3, ProgressKeeps
<1> QED
  BY <1>2, <1>3 DEF ReadSource

LEMMA CheckCopyKeeps == ASSUME AdapterInv, NEW c \in Calls, CheckCopy(c) PROVE AdapterInv'
<1>1. call[c].phase = "check" /\ failures' = failures
  BY DEF CheckCopy
<1>2. CASE Progress(c, GiveUp(c))
  BY <1>1, <1>2, GiveUpKeeps
<1>3. CASE call[c].copy /\ Progress(c, [call[c] EXCEPT !.phase = "open", !.k = @ + 1,
                     !.captured = IF call[c].copy THEN @ \cup {Source(c)} ELSE @])
  <2>1. PICK r : /\ r = [call[c] EXCEPT !.phase = "open", !.k = call[c].k + 1,
                           !.captured = call[c].captured \cup {Source(c)}]
                 /\ Progress(c, r)
    BY <1>3
  <2>2. /\ call[c].k \in 1..Len(call[c].ids) /\ Len(call[c].ids) \in Nat
        /\ call[c].captured = {call[c].ids[i] : i \in 1..(call[c].k - 1)}
    BY <1>1, OfCall DEF Captures, CallType
  <2>3. Source(c) \in Artifacts
    BY <2>2, SourceIsArtifact
  <2>4. r \in CallType /\ r.phase = "open" /\ r.ok = call[c].ok /\ r.ids = call[c].ids
        /\ r.captured = call[c].captured \cup {Source(c)} /\ r.k = call[c].k + 1
    <3>1. PICK k \in Nat : k = call[c].k + 1
      BY <2>2
    <3>2. PICK captured \in SUBSET Artifacts : captured = call[c].captured \cup {Source(c)}
      BY <2>3, OfCall DEF CallType
    <3>3. r = [call[c] EXCEPT !.phase = "open", !.k = k, !.captured = captured]
      BY <2>1, <3>1, <3>2
    <3> QED
      BY <3>1, <3>2, <3>3, OfCall DEF CallType, Phases
  <2>5. r.captured = {r.ids[i] : i \in 1..(r.k - 1)}
    <3>1. 1..(r.k - 1) = (1..(call[c].k - 1)) \cup {call[c].k}
      BY <2>2, <2>4
    <3> QED
      BY <2>2, <2>4, <3>1 DEF Source
  <2>6. Captures(r)
    <3>1. r.k \in 1..(Len(r.ids) + 1)
      BY <2>2, <2>4
    <3> QED
      BY <2>4, <2>5, <3>1 DEF Captures
  <2> QED
    BY <1>1, <2>1, <2>4, <2>6, ProgressKeeps
<1> QED
  BY <1>2, <1>3 DEF CheckCopy, Intact

LEMMA AbandonKeeps == ASSUME AdapterInv, NEW c \in Calls, Abandon(c) PROVE AdapterInv'
<1>1. call[c].phase = "drop" /\ UNCHANGED <<disk, canceled, closing, running, awaited>>
      /\ Answer(c, [call[c] EXCEPT !.ok = FALSE])
  BY DEF Abandon, RemoveDirectory
<1>2. PICK r : /\ r = [[call[c] EXCEPT !.ok = FALSE] EXCEPT
                         !.phase = "answered", !.k = 0, !.before = 0, !.copy = FALSE]
               /\ Continue(c, r) /\ active' = active - 1
  BY <1>1 DEF Answer
<1>3. r \in CallType /\ r.phase = "answered" /\ r.ok = FALSE
  BY <1>2, OfCall DEF CallType, Phases
<1>4. Captures(r) /\ Succeeds(r)
  BY <1>3 DEF Captures, Succeeds
<1>5. \/ scratch' = scratch \ {c} /\ failures' = failures
      \/ scratch' = scratch /\ failures' = failures + 1
  BY DEF Abandon, RemoveDirectory, Failing
<1>6. Effect(c, r)
  BY <1>1, <1>2, <1>3, <1>5, OfCall DEF Effect, Placed, Waiting
<1> QED
  BY <1>3, <1>4, <1>6, StepOfCall

LEMMA StartWorkerKeeps == ASSUME AdapterInv, NEW c \in Calls, StartWorker(c) PROVE AdapterInv'
<1>1. call[c].phase = "worker"
      /\ UNCHANGED <<disk, failures, active, scratch, canceled, closing, awaited>>
  BY DEF StartWorker
<1>2. CASE /\ running' = running \cup {c}
           /\ Continue(c, [call[c] EXCEPT !.phase = "await", !.started = ~(c \in canceled \/ Disposed),
                                          !.doomed = Aborted(c)])
  <2>1. PICK r : /\ r = [call[c] EXCEPT !.phase = "await", !.started = ~(c \in canceled \/ Disposed),
                                        !.doomed = Aborted(c)]
                 /\ Continue(c, r)
    BY <1>2
  <2>2. /\ r \in CallType /\ r.phase = "await" /\ r.ok = call[c].ok
        /\ r.ids = call[c].ids /\ r.captured = call[c].captured
    BY <2>1, OfCall DEF CallType, Phases, Aborted, Disposed
  <2>3. (r.started <=> ~(c \in canceled \/ Disposed)) /\ (r.doomed <=> Aborted(c))
    BY <2>1, OfCall DEF CallType
  <2>4. Captures(r) /\ Succeeds(r)
    BY <1>1, <2>2, <2>3, OfCall DEF Captures, Succeeds, Aborted, Disposed
  <2>5. Effect(c, r)
    BY <1>1, <1>2, <2>1, <2>2, <2>3, OfCall DEF Effect, Placed, Waiting, Disposed
  <2> QED
    BY <2>2, <2>4, <2>5, StepOfCall
<1>3. CASE UNCHANGED running /\ Continue(c, [call[c] EXCEPT !.phase = "close"])
  <2>1. PICK r : r = [call[c] EXCEPT !.phase = "close"] /\ Continue(c, r)
    BY <1>3
  <2>2. /\ r \in CallType /\ r.phase = "close" /\ r.ok = call[c].ok
        /\ r.ids = call[c].ids /\ r.captured = call[c].captured
    BY <2>1, OfCall DEF CallType, Phases
  <2>3. Captures(r) /\ Succeeds(r)
    BY <1>1, <2>2, OfCall DEF Captures, Succeeds
  <2>4. Effect(c, r)
    BY <1>1, <1>3, <2>1, <2>2, OfCall DEF Effect, Placed, Waiting
  <2> QED
    BY <2>2, <2>3, <2>4, StepOfCall
<1> QED
  BY <1>2, <1>3 DEF StartWorker

LEMMA EndWorkerKeeps == ASSUME AdapterInv, NEW c \in Calls, EndWorker(c) PROVE AdapterInv'
<1>1. /\ call[c].phase = "await" /\ running' = running \ {c} /\ awaited' = awaited \ {c}
      /\ UNCHANGED <<disk, failures, active, scratch, canceled, closing>>
  BY DEF EndWorker
<1>2. PICK ok \in BOOLEAN : /\ call[c].doomed => ~ok
                            /\ Continue(c, [call[c] EXCEPT !.phase = "close", !.ok = ok])
  BY DEF EndWorker, WorkerResults
<1>3. PICK r : r = [call[c] EXCEPT !.phase = "close", !.ok = ok] /\ Continue(c, r)
  BY <1>2
<1>4. /\ r \in CallType /\ r.phase = "close" /\ r.ok = ok /\ r.started = call[c].started
      /\ r.ids = call[c].ids /\ r.captured = call[c].captured
  BY <1>3, OfCall DEF CallType, Phases
<1>5. call[c].captured = ToSet(call[c].ids) /\ (call[c].doomed <=> ~call[c].started)
  BY <1>1, OfCall DEF Captures, Succeeds
<1>6. Captures(r) /\ Succeeds(r)
  BY <1>2, <1>4, <1>5 DEF Captures, Succeeds
<1>7. closing # "aborted" => awaited' = awaited
  BY <1>1 DEF AdapterInv, DisposalInv
<1>8. Effect(c, r)
  BY <1>1, <1>3, <1>4, <1>7, OfCall DEF Effect, Placed, Waiting
<1> QED
  BY <1>4, <1>6, <1>8, StepOfCall

LEMMA CloseSnapshotKeeps == ASSUME AdapterInv, NEW c \in Calls, CloseSnapshot(c) PROVE AdapterInv'
<1>1. call[c].phase = "close" /\ UNCHANGED <<disk, canceled, closing, running, awaited>>
  BY DEF CloseSnapshot
<1>2. CASE Answer(c, call[c]) /\ scratch' = scratch \ {c} /\ UNCHANGED failures
  <2>1. PICK r : /\ r = [call[c] EXCEPT !.phase = "answered", !.k = 0, !.before = 0, !.copy = FALSE]
                 /\ Continue(c, r) /\ active' = active - 1
    BY <1>2 DEF Answer
  <2>2. /\ r \in CallType /\ r.phase = "answered" /\ r.ok = call[c].ok /\ r.started = call[c].started
        /\ r.ids = call[c].ids /\ r.captured = call[c].captured
    BY <2>1, OfCall DEF CallType, Phases
  <2>3. Captures(r) /\ Succeeds(r)
    BY <1>1, <2>2, OfCall DEF Captures, Succeeds
  <2>4. Effect(c, r)
    BY <1>1, <1>2, <2>1, <2>2, OfCall DEF Effect, Placed, Waiting
  <2> QED
    BY <2>2, <2>3, <2>4, StepOfCall
<1>3. CASE Failing /\ Answer(c, [call[c] EXCEPT !.ok = FALSE]) /\ UNCHANGED scratch
  <2>1. PICK r : /\ r = [[call[c] EXCEPT !.ok = FALSE] EXCEPT
                           !.phase = "answered", !.k = 0, !.before = 0, !.copy = FALSE]
                 /\ Continue(c, r) /\ active' = active - 1
    BY <1>3 DEF Answer
  <2>2. r \in CallType /\ r.phase = "answered" /\ r.ok = FALSE /\ failures' = failures + 1
    BY <1>3, <2>1, OfCall DEF CallType, Phases, Failing
  <2>3. Captures(r) /\ Succeeds(r)
    BY <2>2 DEF Captures, Succeeds
  <2>4. Effect(c, r)
    BY <1>1, <1>3, <2>1, <2>2, OfCall DEF Effect, Placed, Waiting
  <2> QED
    BY <2>2, <2>3, <2>4, StepOfCall
<1> QED
  BY <1>2, <1>3 DEF CloseSnapshot
-----------------------------------------------------------------------------
(***************************************************************************)
(* Other steps.                                                            *)
(***************************************************************************)

\* A step that leaves calls and what they hold alone.
LEMMA CallsUntouched ==
  ASSUME AdapterInv, UNCHANGED <<failures, call, active, scratch, running>>,
         disk' \in [Artifacts -> [stamp : Nat, registered : BOOLEAN]],
         awaited' \subseteq running', closing' \in {"open", "closed", "aborted", "settled"},
         DisposalInv'
  PROVE  AdapterInv'
<1>1. AdapterTypeOK'
  BY DEF AdapterInv, AdapterTypeOK
<1>2. CallInv'
  BY DEF AdapterInv, CallInv, Captures, Succeeds, Placed
<1>3. CountInv'
  BY DEF AdapterInv, CountInv, Active
<1> QED
  BY <1>1, <1>2, <1>3 DEF AdapterInv

LEMMA OthersKeep ==
  ASSUME AdapterInv, \/ \E c \in Calls : CancelRequest(c)
               \/ CloseAdapter \/ AbortJobs \/ Settle \/ ChangeFile
  PROVE  AdapterInv'
<1> USE DEF AdapterInv, AdapterTypeOK, DisposalInv
<1>1. CASE \E c \in Calls : CancelRequest(c)
  BY <1>1, CallsUntouched DEF CancelRequest
<1>2. CASE CloseAdapter
  BY <1>2, CallsUntouched DEF CloseAdapter
<1>3. CASE AbortJobs
  BY <1>3, CallsUntouched DEF AbortJobs
<1>4. CASE Settle
  BY <1>4, CallsUntouched DEF Settle, Settled
<1>5. CASE ChangeFile
  <2>1. PICK a \in Artifacts, b \in BOOLEAN :
          disk' = [disk EXCEPT ![a] = [stamp |-> disk[a].stamp + 1, registered |-> b]]
    BY <1>5 DEF ChangeFile
  <2>2. disk' \in [Artifacts -> [stamp : Nat, registered : BOOLEAN]]
    BY <2>1
  <2> QED
    BY <1>5, <2>2, CallsUntouched DEF ChangeFile
<1> QED
  BY <1>1, <1>2, <1>3, <1>4, <1>5

LEMMA AdapterInitHolds == AdapterInit => AdapterInv
<1> SUFFICES ASSUME AdapterInit PROVE AdapterInv
  OBVIOUS
<1>1. call = [c \in Calls |-> NewCall] /\ NewCall \in CallType
  BY NewCallShape DEF AdapterInit
<1>2. \A c \in Calls : call[c] = NewCall
  BY <1>1
<1>3. AdapterTypeOK
  BY <1>1 DEF AdapterTypeOK, AdapterInit
<1>4. CallInv
  BY <1>2 DEF CallInv, Captures, Succeeds, Placed, AdapterInit, NewCall, Waiting
<1>5. CountInv
  <2>1. Active = {}
    BY <1>2 DEF Active, NewCall, Waiting
  <2> QED
    BY <2>1, FS_EmptySet, AdapterAssumption DEF CountInv, AdapterInit, AdapterAssumption
<1>6. DisposalInv
  BY DEF DisposalInv, AdapterInit
<1> QED
  BY <1>3, <1>4, <1>5, <1>6 DEF AdapterInv

LEMMA AdapterStepKeeps == AdapterInv /\ [AdapterNext]_adapterVars => AdapterInv'
<1> SUFFICES ASSUME AdapterInv, [AdapterNext]_adapterVars PROVE AdapterInv'
  OBVIOUS
<1>1. ASSUME NEW c \in Calls,
             \/ Enter(c) \/ MakeDirectory(c) \/ OpenSource(c) \/ ReadSource(c) \/ CheckCopy(c)
             \/ Abandon(c) \/ StartWorker(c) \/ EndWorker(c) \/ CloseSnapshot(c)
      PROVE  AdapterInv'
  BY <1>1, EnterKeeps, MakeDirectoryKeeps, OpenSourceKeeps, ReadSourceKeeps, CheckCopyKeeps,
     AbandonKeeps, StartWorkerKeeps, EndWorkerKeeps, CloseSnapshotKeeps
<1>2. CASE \/ \E c \in Calls : CancelRequest(c)
           \/ CloseAdapter \/ AbortJobs \/ Settle \/ ChangeFile
  BY <1>2, OthersKeep
<1>3. CASE UNCHANGED adapterVars
  <2>1. UNCHANGED <<failures, call, active, scratch, running>> /\ UNCHANGED <<disk, closing, awaited>>
    BY <1>3 DEF adapterVars
  <2>2. DisposalInv'
    BY <2>1 DEF AdapterInv, DisposalInv
  <2> QED
    BY <2>1, <2>2, CallsUntouched DEF AdapterInv, AdapterTypeOK
<1> QED
  BY <1>1, <1>2, <1>3 DEF AdapterNext
-----------------------------------------------------------------------------
(***************************************************************************)
(* The theorems.                                                           *)
(***************************************************************************)

LEMMA AnswersAreRegistered == AdapterInv => OkIsRegistered
BY DEF AdapterInv, CallInv, Succeeds, Placed, OkIsRegistered

LEMMA LeftoversBelongToCalls == AdapterInv => NothingIsLeftBehind
<1> SUFFICES ASSUME AdapterInv PROVE NothingIsLeftBehind
  OBVIOUS
<1>1. Cardinality(Active) = active /\ active <= Capacity
  BY DEF AdapterInv, CountInv
<1>2. running \subseteq Active
  BY DEF AdapterInv, AdapterTypeOK, CallInv, Placed, Active, Waiting
<1>3. \A c \in scratch \ Active : call[c].phase = "answered"
  BY DEF AdapterInv, AdapterTypeOK, CallInv, Placed, Active, Waiting
<1>4. \A c \in scratch \ Active : ~call[c].ok /\ failures > 0
  BY <1>3 DEF AdapterInv, AdapterTypeOK, CallInv, Placed
<1>5. closing = "settled" => \A c \in running : ~call[c].started
  BY DEF AdapterInv, DisposalInv
<1> QED
  BY <1>1, <1>2, <1>4, <1>5 DEF NothingIsLeftBehind, AdapterInv, AdapterTypeOK

\* An ok answer was computed by a worker that began before any abort, from the
\* registered bytes of every artifact of the tool, for any number of calls and
\* changes (artifacts.mjs 64-92, server.mjs 112-131, jobs 35-51).
THEOREM AnswersRegistered == AdapterSpec => []OkIsRegistered
<1>1. AdapterInv /\ [AdapterNext]_adapterVars => AdapterInv'
  BY AdapterStepKeeps
<1> QED
  BY <1>1, AdapterInitHolds, AnswersAreRegistered, PTL DEF AdapterSpec

\* The counter is the number of active calls and within the capacity, what runs
\* or is on disk belongs to one of them or to an error, and after close() no
\* worker runs that may succeed (server.mjs 88-90, 127-130, 147-152; jobs 31-51).
THEOREM NothingLeftBehind == AdapterSpec => []NothingIsLeftBehind
<1>1. AdapterInv /\ [AdapterNext]_adapterVars => AdapterInv'
  BY AdapterStepKeeps
<1> QED
  BY <1>1, AdapterInitHolds, LeftoversBelongToCalls, PTL DEF AdapterSpec
-----------------------------------------------------------------------------
(***************************************************************************)
(* Clocks: verdicts on an observed source clock.                           *)
(***************************************************************************)

\* The clock has shown a time at every instant and was observed at some.
ClockInv ==
  /\ shown \in Seq(Int) /\ shown # <<>>
  /\ seen \subseteq 0..Instant

\* Every instant that has passed has a source time.
LEMMA SourceType ==
  ASSUME ClockInv
  PROVE  /\ Instant \in Nat /\ seen \subseteq 0..Instant /\ seen \subseteq Nat
         /\ \A t \in 0..Instant : SourceTime(t) \in Int
  BY DEF ClockInv, Instant, SourceTime

\* FirstFrom and LastUpTo are callbacks, and the nearest ones.
LEMMA FirstIs ==
  ASSUME ClockInv, NEW a \in Int, NEW t \in seen, a <= t
  PROVE  /\ FirstFrom(a) \in seen /\ a <= FirstFrom(a)
         /\ \A u \in seen : a <= u => FirstFrom(a) <= u
<1> DEFINE S == {u \in seen : u >= a}
<1>1. S \in SUBSET Nat /\ S # {} BY SourceType
<1>2. Min(S) \in S /\ \A n \in S : Min(S) <= n
  <2> HIDE DEF S
  <2> QED BY <1>1, MinIs
<1> QED BY <1>2, SourceType DEF FirstFrom

\* And the last one up to an instant.
LEMMA LastIs ==
  ASSUME ClockInv, NEW b \in Int, NEW t \in seen, t <= b
  PROVE  /\ LastUpTo(b) \in seen /\ LastUpTo(b) <= b
         /\ \A u \in seen : u <= b => u <= LastUpTo(b)
<1> DEFINE S == {u \in seen : u <= b}
<1>1. S \in SUBSET (0..Instant) /\ S # {} /\ Instant \in Nat BY SourceType
<1>2. Max(S) \in S /\ \A n \in S : n <= Max(S)
  <2> HIDE DEF S
  <2> QED BY <1>1, MaxIs
<1> QED BY <1>2 DEF LastUpTo

\* The callback before one that is not the first.
LEMMA Previous ==
  ASSUME ClockInv, NEW t \in seen, NEW u \in seen, t < u
  PROVE  \E p \in seen : t <= p /\ <<p, u>> \in Neighbours
<1>1. t \in Nat /\ u \in Nat /\ u - 1 \in Int /\ t <= u - 1 BY SourceType
<1> DEFINE p == LastUpTo(u - 1)
<1>2. p \in seen /\ p <= u - 1 /\ \A v \in seen : v <= u - 1 => v <= p BY <1>1, LastIs
<1>3. p \in Nat /\ t <= p /\ p < u
  <2> HIDE DEF p
  <2>1. p \in Nat /\ t <= p BY <1>1, <1>2, SourceType
  <2> QED BY <1>1, <1>2, <2>1
<1>4. \A v \in seen : ~(p < v /\ v < u) BY <1>1, <1>2, <1>3, SourceType
<1> QED BY <1>2, <1>3, <1>4 DEF Neighbours

\* Callbacks that are monotonic in pairs of neighbours are so in all pairs.
LEMMA SeenOrder ==
  ASSUME ClockInv, Monotonic, NEW t \in seen
  PROVE  \A u \in seen : t < u => SourceTime(t) <= SourceTime(u)
<1> DEFINE S == {u \in seen : t < u /\ ~(SourceTime(t) <= SourceTime(u))}
<1> SUFFICES ASSUME S # {} PROVE FALSE OBVIOUS
<1>1. S \in SUBSET Nat BY SourceType
<1>2. PICK u \in S : \A v \in S : u <= v
  <2> HIDE DEF S
  <2> QED BY <1>1, Smallest
<1>3. PICK p \in seen : t <= p /\ <<p, u>> \in Neighbours BY Previous
<1>4. p < u /\ SourceTime(p) <= SourceTime(u) BY <1>3 DEF Neighbours, Monotonic
<1>5. t \in Nat /\ p \in Nat /\ u \in Nat BY SourceType
<1>6. p \notin S BY <1>2, <1>4, <1>5
<1>7. SourceTime(t) <= SourceTime(p) BY <1>3, <1>5, <1>6, SourceType
<1> QED BY <1>4, <1>7, SourceType

\* A clock that never moves back in one instant does not in several.
LEMMA ClockOrder ==
  ASSUME ClockInv, MovesOn, NEW a \in 0..Instant
  PROVE  \A b \in a..Instant : SourceTime(a) <= SourceTime(b)
<1> DEFINE S == {b \in a..Instant : ~(SourceTime(a) <= SourceTime(b))}
<1> SUFFICES ASSUME S # {} PROVE FALSE OBVIOUS
<1>1. S \in SUBSET Nat BY SourceType
<1>2. PICK b \in S : \A v \in S : b <= v
  <2> HIDE DEF S
  <2> QED BY <1>1, Smallest
<1>3. a \in Nat /\ b \in Nat /\ Instant \in Nat BY SourceType
<1>4. b # a BY SourceType
<1>5. b - 1 \in a..Instant /\ b \in 1..Instant BY <1>3, <1>4
<1>6. SourceTime(a) <= SourceTime(b - 1) BY <1>2, <1>3, <1>5
<1>7. SourceTime(b - 1) <= SourceTime(b) BY <1>5 DEF MovesOn
<1>8. {SourceTime(a), SourceTime(b - 1), SourceTime(b)} \subseteq Int BY <1>3, <1>5, SourceType
<1> QED BY <1>6, <1>7, <1>8

\* A clock that shows another time has changed in between.
LEMMA ChangeBetween ==
  ASSUME ClockInv, NEW a \in 0..Instant, NEW b \in a..Instant, SourceTime(a) # SourceTime(b)
  PROVE  \E t \in (a + 1)..b : SourceTime(t) # SourceTime(t - 1)
<1> DEFINE S == {t \in a..b : SourceTime(t) # SourceTime(a)}
<1>1. S \in SUBSET Nat /\ S # {} BY SourceType
<1>2. PICK t \in S : \A v \in S : t <= v
  <2> HIDE DEF S
  <2> QED BY <1>1, Smallest
<1>3. a \in Nat /\ b \in Nat /\ t \in Nat BY SourceType
<1>4. t # a OBVIOUS
<1>5. t - 1 \in a..b /\ t \in (a + 1)..b BY <1>3, <1>4
<1>6. SourceTime(t - 1) = SourceTime(a) BY <1>2, <1>3, <1>5
<1> QED BY <1>5, <1>6
-----------------------------------------------------------------------------
\* More progress over the same time keeps a factor.
LEMMA MoreProgress ==
  ASSUME NEW min \in Factors, NEW x \in Int, NEW y \in Int, x <= y, NEW d \in Int,
         AtLeast(<<x, d>>, min)
  PROVE  AtLeast(<<y, d>>, min)
<1>1. min[1] \in Nat /\ min[2] \in Nat BY ClockAssumption
<1>2. \A n \in Nat : x * n <= y * n
  <2>1. \A k, n \in Nat : k * n >= 0 OBVIOUS
  <2>2. y - x \in Nat OBVIOUS
  <2>3. ASSUME NEW n \in Nat PROVE x * n <= y * n
    <3>1. (y - x) * n >= 0 BY <2>1, <2>2
    <3>2. (y - x) * n = y * n - x * n OBVIOUS
    <3> QED BY <3>1, <3>2
  <2> QED BY <2>3
<1>3. x * min[2] <= y * min[2] BY <1>1, <1>2
<1>4. x * min[2] \in Int /\ y * min[2] \in Int /\ min[1] * d \in Int BY <1>1
<1> QED BY <1>3, <1>4 DEF AtLeast

\* A lower bound on an interval bounds each interval of that length that has
\* the same samples.
LEMMA LowerBound ==
  ASSUME ClockInv, MovesOn, NEW min \in Factors,
         NEW a \in 0..Instant, NEW b \in a..Instant, NEW c \in Int, NEW d \in Int,
         d - c = b - a, \A t \in seen : c <= t /\ t <= d => a <= t /\ t <= b,
         AtLeast(Lowest(c, d), min)
  PROVE  AtLeast(<<SourceTime(b) - SourceTime(a), b - a>>, min)
<1>1. a \in Nat /\ b \in Nat /\ a <= b /\ b \in 0..Instant BY SourceType
<1>2. SourceTime(a) \in Int /\ SourceTime(b) \in Int /\ SourceTime(a) <= SourceTime(b) BY <1>1, SourceType, ClockOrder
<1>3. CASE \E t, u \in seen : c <= t /\ t < u /\ u <= d
  <2>1. PICK t, u \in seen : c <= t /\ t < u /\ u <= d BY <1>3
  <2> DEFINE p == FirstFrom(c)
             q == LastUpTo(d)
  <2>2. t \in Nat /\ u \in Nat /\ t <= d BY <2>1, SourceType
  <2>3. p \in seen /\ c <= p /\ p <= t BY <2>1, FirstIs
  <2>4. q \in seen /\ q <= d /\ u <= q BY <2>1, LastIs
  <2>5. Lowest(c, d) = <<SourceTime(q) - SourceTime(p), d - c>> BY <1>3 DEF Lowest
  <2> HIDE DEF p, q
  <2>6. p \in Nat /\ q \in Nat /\ p <= d /\ c <= q BY <2>1, <2>2, <2>3, <2>4, SourceType
  <2>7. a <= p /\ p <= q /\ q <= b BY <2>1, <2>2, <2>3, <2>4, <2>6
  <2>8. p \in 0..Instant /\ q \in p..Instant /\ p \in a..Instant /\ b \in q..Instant /\ q \in 0..Instant
    BY <1>1, <2>6, <2>7, SourceType
  <2>9. SourceTime(a) <= SourceTime(p) /\ SourceTime(q) <= SourceTime(b) BY <2>8, ClockOrder
  <2>10. SourceTime(p) \in Int /\ SourceTime(q) \in Int BY <2>8, SourceType
  <2>11. SourceTime(q) - SourceTime(p) <= SourceTime(b) - SourceTime(a) BY <1>2, <2>9, <2>10
  <2>12. AtLeast(<<SourceTime(q) - SourceTime(p), b - a>>, min) BY <2>5
  <2> QED BY <1>1, <1>2, <2>10, <2>11, <2>12, MoreProgress
<1>4. CASE ~\E t, u \in seen : c <= t /\ t < u /\ u <= d
  <2>1. Lowest(c, d) = <<0, b - a>> BY <1>4 DEF Lowest
  <2>2. 0 <= SourceTime(b) - SourceTime(a) /\ SourceTime(b) - SourceTime(a) \in Int BY <1>2
  <2> QED BY <1>1, <2>1, <2>2, MoreProgress
<1> QED BY <1>3, <1>4

\* The assumptions on the measurement and its windows, as they are used.
LEMMA MeasuredType ==
  ASSUME Instant = LastInstant
  PROVE  /\ Measured.start \in Nat /\ Measured.end \in Nat /\ RtfWindow \in Nat \ {0}
         /\ Measured.start < Measured.end /\ Measured.end <= Instant /\ Instant \in Nat
BY ClockAssumption

\* _realtime_assessment passes: every window is bounded by one it has looked at.
LEMMA PassedIsTrue ==
  ASSUME ClockInv, Instant = LastInstant, MovesOn, NEW min \in Factors,
         \A f \in LowerBounds : AtLeast(f, min)
  PROVE  TrulyAtLeast(min)
<1> DEFINE start == Measured.start
           end == Measured.end
<1>1. /\ start \in Nat /\ end \in Nat /\ RtfWindow \in Nat \ {0}
      /\ start < end /\ end <= Instant /\ Instant \in Nat
  BY MeasuredType
<1>2. AtLeast(<<SourceTime(end) - SourceTime(start), end - start>>, min)
  <2>1. AtLeast(Lowest(start, end), min) BY DEF LowerBounds
  <2> HIDE DEF start, end
  <2>2. start \in 0..Instant /\ end \in start..Instant BY <1>1
  <2> QED BY <1>1, <2>1, <2>2, LowerBound
<1>3. ASSUME NEW a \in Between(start, end - RtfWindow)
      PROVE  AtLeast(<<SourceTime(a + RtfWindow) - SourceTime(a), RtfWindow>>, min)
  <2>1. a \in 0..Instant /\ start <= a /\ a <= end - RtfWindow BY DEF Between
  <2> DEFINE b == a + RtfWindow
             later == {t \in seen : b < t}
  <2>2. ~(end - start < RtfWindow) BY <1>1, <2>1
  <2> SUFFICES ASSUME TRUE PROVE AtLeast(<<SourceTime(b) - SourceTime(a), b - a>>, min)
    <3>1. b - a = RtfWindow BY <1>1, <2>1
    <3> QED BY <3>1
  <2>3. b \in a..Instant /\ b - a = RtfWindow BY <1>1, <2>1
  <2>4. CASE later = {}
    <3>1. AtLeast(Lowest(end - RtfWindow, end), min) BY <2>2 DEF LowerBounds
    <3> DEFINE c == end - RtfWindow
    <3>2. c \in Int /\ end - c = b - a /\ a <= c BY <1>1, <2>1, <2>3
    <3>3. \A t \in seen : c <= t /\ t <= end => a <= t /\ t <= b
      <4> HIDE DEF c, b
      <4>1. \A t \in seen : t \in Nat /\ ~(b < t) BY <2>4, SourceType
      <4> QED BY <2>1, <2>3, <3>2, <4>1
    <3> HIDE DEF start, end, b, c
    <3>4. AtLeast(Lowest(c, end), min) BY <3>1 DEF c
    <3>5. end \in Int /\ c \in Int BY <1>1, <3>2
    <3> QED BY <2>1, <2>3, <3>2, <3>3, <3>4, <3>5, LowerBound
  <2>5. CASE later # {}
    <3>1. PICK t \in later : \A u \in later : t <= u
      <4>1. later \in SUBSET Nat BY SourceType
      <4> HIDE DEF later
      <4> QED BY <2>5, <4>1, Smallest
    <3>2. t \in seen /\ t \in Nat /\ b < t BY <3>1, SourceType
    <3> DEFINE c == t - 1 - RtfWindow
               d == t - 1
    <3>3. c \in Int /\ d \in Int /\ d - c = b - a /\ a <= c /\ start <= c
      BY <1>1, <2>1, <2>3, <3>2
    <3>4. AtLeast(Lowest(c, d), min) BY <2>2, <3>2, <3>3 DEF LowerBounds
    <3>5. \A u \in seen : c <= u /\ u <= d => a <= u /\ u <= b
      <4>1. \A u \in seen : b < u => t <= u BY <3>1
      <4>2. \A u \in seen : u \in Nat BY SourceType
      <4> HIDE DEF c
      <4> QED BY <2>1, <2>3, <3>2, <3>3, <4>1, <4>2
    <3> HIDE DEF start, end, b, c, d
    <3> QED BY <1>1, <2>1, <2>3, <3>3, <3>4, <3>5, LowerBound
  <2> QED BY <2>4, <2>5
<1> QED BY <1>2, <1>3 DEF TrulyAtLeast

\* It fails only if a window it has looked at is below the factor.
LEMMA FailedIsTrue ==
  ASSUME ClockInv, Instant = LastInstant, MovesOn, NEW min \in Factors, ~Outside,
         NEW f \in UpperBounds, ~AtLeast(f, min)
  PROVE  ~TrulyAtLeast(min)
<1> DEFINE start == Measured.start
           end == Measured.end
<1>1. /\ start \in Nat /\ end \in Nat /\ RtfWindow \in Nat \ {0}
      /\ start < end /\ end <= Instant /\ Instant \in Nat
  BY MeasuredType
<1>2. CASE f = <<SourceTime(end) - SourceTime(start), end - start>>
  BY <1>2 DEF TrulyAtLeast
<1>3. CASE \E t \in seen : /\ t - RtfWindow >= start /\ FirstFrom(0) <= t - RtfWindow
                           /\ f = <<SourceTime(t) - SourceTime(LastUpTo(t - RtfWindow)), RtfWindow>>
  <2>1. PICK t \in seen : /\ t - RtfWindow >= start /\ FirstFrom(0) <= t - RtfWindow
                          /\ f = <<SourceTime(t) - SourceTime(LastUpTo(t - RtfWindow)), RtfWindow>>
    BY <1>3
  <2> DEFINE a == t - RtfWindow
             p == LastUpTo(a)
  <2>2. t \in Nat /\ t <= end /\ t <= Instant BY <1>1, SourceType DEF Outside
  <2>3. a \in 0..Instant /\ a \in Nat /\ a \in Int /\ a + RtfWindow = t BY <1>1, <2>1, <2>2
  <2>4. FirstFrom(0) \in seen BY FirstIs, <2>2
  <2>5. p \in seen /\ p <= a BY <2>1, <2>3, <2>4, LastIs
  <2>6. a \in Between(start, end - RtfWindow) BY <1>1, <2>1, <2>2, <2>3 DEF Between
  <2>7. p \in 0..Instant /\ a \in p..Instant BY <2>3, <2>5, SourceType
  <2>8. SourceTime(p) <= SourceTime(a) BY <2>7, ClockOrder
  <2>9. SourceTime(p) \in Int /\ SourceTime(a) \in Int /\ SourceTime(t) \in Int BY <2>2, <2>3, <2>7, SourceType
  <2>10. ASSUME TrulyAtLeast(min) PROVE FALSE
    <3>1. AtLeast(<<SourceTime(a + RtfWindow) - SourceTime(a), RtfWindow>>, min)
      BY <2>6, <2>10 DEF TrulyAtLeast
    <3>2. AtLeast(<<SourceTime(t) - SourceTime(a), RtfWindow>>, min) BY <2>3, <3>1
    <3>3. SourceTime(t) - SourceTime(a) <= SourceTime(t) - SourceTime(p) BY <2>8, <2>9
    <3> HIDE DEF a, p
    <3>4. AtLeast(<<SourceTime(t) - SourceTime(p), RtfWindow>>, min)
      BY <1>1, <2>9, <3>2, <3>3, MoreProgress
    <3> QED BY <2>1, <3>4 DEF p, a
  <2> QED BY <2>10
<1> QED BY <1>2, <1>3 DEF UpperBounds
-----------------------------------------------------------------------------
\* With a callback at every instant nothing lies outside or in a gap.
LEMMA AllSeen ==
  ASSUME ClockInv, Instant = LastInstant, seen = Between(Measured.start, Measured.end)
  PROVE  /\ \A t \in Measured.start..Measured.end :
              t \in seen /\ FirstFrom(t) = t /\ LastUpTo(t) = t
         /\ FirstFrom(0) = Measured.start /\ LastUpTo(LastInstant) = Measured.end
         /\ seen = Measured.start..Measured.end
<1> DEFINE start == Measured.start
           end == Measured.end
<1>1. /\ start \in Nat /\ end \in Nat /\ start < end /\ end <= Instant /\ Instant \in Nat
  BY MeasuredType
<1>2. seen = start..end BY <1>1 DEF Between
<1> HIDE DEF start, end
<1>3. ASSUME NEW t \in start..end
      PROVE  FirstFrom(t) = t /\ LastUpTo(t) = t
  <2>1. t \in seen /\ t \in Int /\ t <= t BY <1>1, <1>2
  <2>2. FirstFrom(t) \in seen /\ t <= FirstFrom(t) /\ FirstFrom(t) <= t BY <2>1, FirstIs
  <2>3. LastUpTo(t) \in seen /\ LastUpTo(t) <= t /\ t <= LastUpTo(t) BY <2>1, LastIs
  <2>4. FirstFrom(t) \in Int /\ LastUpTo(t) \in Int BY <1>1, <1>2, <2>2, <2>3
  <2> QED BY <2>1, <2>2, <2>3, <2>4
<1>4. start \in seen /\ end \in seen BY <1>1, <1>2
<1>5. FirstFrom(0) \in seen /\ FirstFrom(0) <= start BY <1>1, <1>4, FirstIs
<1>6. LastUpTo(LastInstant) \in seen /\ end <= LastUpTo(LastInstant) BY <1>1, <1>4, LastIs
<1>7. FirstFrom(0) = start BY <1>1, <1>2, <1>5
<1>8. LastUpTo(LastInstant) = end BY <1>1, <1>2, <1>6
<1> QED BY <1>2, <1>3, <1>7, <1>8 DEF start, end

\* With a callback at every instant the bounds on a window are exact.
LEMMA BoundsMeet ==
  ASSUME ClockInv, Instant = LastInstant, seen = Between(Measured.start, Measured.end)
  PROVE  LowerBounds \subseteq UpperBounds
<1> DEFINE start == Measured.start
           end == Measured.end
<1>1. /\ start \in Nat /\ end \in Nat /\ RtfWindow \in Nat \ {0}
      /\ start < end /\ end <= Instant /\ Instant \in Nat
  BY MeasuredType
<1>2. /\ \A t \in start..end : t \in seen /\ FirstFrom(t) = t /\ LastUpTo(t) = t
      /\ FirstFrom(0) = start /\ LastUpTo(LastInstant) = end /\ seen = start..end
  BY AllSeen
<1>3. ASSUME NEW a \in start..end, NEW b \in start..end, a < b
      PROVE  Lowest(a, b) = <<SourceTime(b) - SourceTime(a), b - a>>
  <2>1. a \in seen /\ b \in seen /\ a <= a /\ b <= b BY <1>1, <1>2, <1>3
  <2>2. LastUpTo(b) = b /\ FirstFrom(a) = a BY <1>2
  <2> QED BY <1>3, <2>1, <2>2 DEF Lowest
<1>4. Lowest(start, end) \in UpperBounds
  <2>1. Lowest(start, end) = <<SourceTime(end) - SourceTime(start), end - start>>
    <3> HIDE DEF start, end
    <3> QED BY <1>1, <1>3
  <2> QED BY <1>2, <2>1 DEF UpperBounds
<1>5. ASSUME NEW a \in start..end, NEW b \in start..end, b - RtfWindow = a
      PROVE  Lowest(a, b) \in UpperBounds
  <2>1. a < b /\ b - a = RtfWindow BY <1>1, <1>5
  <2>2. Lowest(a, b) = <<SourceTime(b) - SourceTime(a), RtfWindow>> BY <1>3, <2>1
  <2>3. b \in seen /\ b - RtfWindow >= start /\ FirstFrom(0) <= b - RtfWindow
    BY <1>1, <1>2, <1>5
  <2>4. LastUpTo(b - RtfWindow) = a BY <1>2, <1>5
  <2> QED BY <2>2, <2>3, <2>4 DEF UpperBounds
<1>6. ASSUME NEW b \in Int, b <= end, b - RtfWindow >= start
      PROVE  Lowest(b - RtfWindow, b) \in UpperBounds
  <2> HIDE DEF start, end
  <2>1. b - RtfWindow \in start..end /\ b \in start..end BY <1>1, <1>6
  <2> QED BY <1>5, <2>1
<1>7. ASSUME NEW f \in LowerBounds PROVE f \in UpperBounds
  <2>1. CASE f = Lowest(start, end) BY <2>1, <1>4
  <2>2. CASE ~(end - start < RtfWindow) /\ f = Lowest(start, start + RtfWindow)
    <3> HIDE DEF start, end
    <3>1. start + RtfWindow \in Int /\ start + RtfWindow <= end
          /\ (start + RtfWindow) - RtfWindow = start BY <1>1, <2>2
    <3> QED BY <1>1, <1>6, <2>2, <3>1
  <2>3. CASE ~(end - start < RtfWindow) /\ f = Lowest(end - RtfWindow, end)
    <3> HIDE DEF start, end
    <3> QED BY <1>1, <1>6, <2>3
  <2>4. CASE f \in LowerAtSamples
    <3>1. PICK t \in seen : t - RtfWindow >= start /\ f = Lowest(t - RtfWindow, t)
      BY <2>4 DEF LowerAtSamples
    <3> HIDE DEF start, end
    <3>2. t \in Int /\ t <= end BY <1>1, <1>2
    <3> QED BY <1>6, <3>1, <3>2
  <2>5. CASE \E t \in seen : /\ t - 1 - RtfWindow >= start
                             /\ f = Lowest(t - 1 - RtfWindow, t - 1)
    <3>1. PICK t \in seen : t - 1 - RtfWindow >= start /\ f = Lowest(t - 1 - RtfWindow, t - 1)
      BY <2>5
    <3> HIDE DEF start, end
    <3>2. t - 1 \in Int /\ t - 1 <= end BY <1>1, <1>2
    <3> QED BY <1>6, <3>1, <3>2
  <2> QED BY <1>7, <2>1, <2>2, <2>3, <2>4, <2>5 DEF LowerBounds
<1> QED BY <1>7

\* Then _realtime_assessment decides: it passes just what is above the factor.
LEMMA AllSeenIsEnough ==
  ASSUME ClockInv, Instant = LastInstant, seen = Between(Measured.start, Measured.end)
  PROVE  Cardinality(seen) >= 2 /\ Covered
<1> DEFINE start == Measured.start
           end == Measured.end
<1>1. /\ start \in Nat /\ end \in Nat /\ MaxGap \in Nat \ {0} /\ start < end
  BY ClockAssumption
<1>2. /\ FirstFrom(0) = start /\ LastUpTo(LastInstant) = end /\ seen = start..end
  BY AllSeen
<1> HIDE DEF start, end
<1>3. Cardinality(seen) = end - start + 1 BY <1>1, <1>2, FS_Interval
<1>4. ~\E t \in seen : t < start \/ end < t BY <1>1, <1>2
<1>5. ASSUME NEW n \in Neighbours PROVE n[2] - n[1] <= MaxGap
  <2>1. /\ n[1] \in seen /\ n[2] \in seen /\ n[1] < n[2]
        /\ ~\E v \in seen : n[1] < v /\ v < n[2]
    BY DEF Neighbours
  <2>2. n[1] \in start..end /\ n[2] \in start..end BY <1>2, <2>1
  <2>3. n[1] + 1 \in seen BY <1>1, <1>2, <2>1, <2>2
  <2>4. ~(n[1] + 1 < n[2]) BY <1>1, <2>1, <2>2, <2>3
  <2> QED BY <1>1, <2>2, <2>4
<1>6. start - start <= MaxGap /\ end - end <= MaxGap BY <1>1
<1>7. \A g \in Gaps : g <= MaxGap BY <1>2, <1>5, <1>6 DEF Gaps, start, end
<1>8. Covered BY <1>4, <1>7 DEF Covered, Outside, start, end
<1> QED BY <1>1, <1>3, <1>8
-----------------------------------------------------------------------------
\* The numbers of steps between two instants.
LEMMA WholeSteps ==
  ASSUME ClockInv, MovesInSteps, NEW a \in 0..Instant
  PROVE  \A b \in a..Instant : \E k \in Nat : SourceTime(b) = SourceTime(a) + k * Step
<1> DEFINE S == {b \in a..Instant : ~\E k \in Nat : SourceTime(b) = SourceTime(a) + k * Step}
<1> SUFFICES ASSUME S # {} PROVE FALSE OBVIOUS
<1>1. S \in SUBSET Nat BY SourceType
<1>2. PICK b \in S : \A v \in S : b <= v
  <2> HIDE DEF S
  <2> QED BY <1>1, Smallest
<1>3. a \in Nat /\ b \in Nat /\ Instant \in Nat /\ Step \in Nat BY SourceType, ClockAssumption
<1>4. SourceTime(a) = SourceTime(a) + 0 * Step BY <1>3, SourceType
<1>5. b # a BY <1>4
<1>6. b - 1 \in a..Instant /\ b \in 1..Instant /\ b - 1 \in 0..Instant BY <1>3, <1>5
<1>7. PICK k \in Nat : SourceTime(b - 1) = SourceTime(a) + k * Step
  <2>1. b - 1 \notin S
    <3> HIDE DEF S
    <3> QED BY <1>2, <1>3
  <2> QED BY <1>6, <2>1
<1>8. PICK m \in 0..(SourceTime(b) - SourceTime(b - 1)) : SourceTime(b) - SourceTime(b - 1) = m * Step
  BY <1>6 DEF MovesInSteps
<1>9. SourceTime(b - 1) \in Int /\ SourceTime(b) \in Int /\ SourceTime(a) \in Int BY <1>3, <1>6, SourceType
<1>10. m \in Nat BY <1>9
<1>11. (k + m) * Step = k * Step + m * Step BY <1>3, <1>10
<1>12. k * Step \in Nat /\ m * Step \in Nat BY <1>3, <1>10
<1>13. SourceTime(b) = SourceTime(a) + (k + m) * Step BY <1>7, <1>8, <1>9, <1>11, <1>12
<1>14. k + m \in Nat BY <1>10
<1> QED BY <1>13, <1>14

\* More whole steps are a longer time.
LEMMA StepOrder ==
  ASSUME NEW k \in Nat, NEW m \in Nat, NEW s \in Nat \ {0}
  PROVE  (k * s <= m * s) <=> k <= m
<1>1. \A i, j \in Nat : i * j \in Nat OBVIOUS
<1>2. ASSUME k <= m PROVE k * s <= m * s
  <2>1. m - k \in Nat /\ (m - k) * s = m * s - k * s BY <1>2
  <2>2. (m - k) * s \in Nat BY <1>1, <2>1
  <2> QED BY <1>1, <2>1, <2>2
<1>3. ASSUME k > m PROVE k * s > m * s
  <2>1. k - m - 1 \in Nat /\ (k - m - 1) * s = k * s - m * s - s BY <1>3
  <2>2. (k - m - 1) * s \in Nat BY <1>1, <2>1
  <2>3. k * s \in Nat /\ m * s \in Nat BY <1>1
  <2> QED BY <2>1, <2>2, <2>3
<1>4. k * s \in Nat /\ m * s \in Nat BY <1>1
<1> QED BY <1>2, <1>3, <1>4

\* round() of whole steps.
LEMMA StepsAre ==
  ASSUME NEW K \in Nat \ {0}
  PROVE  Steps(K * Step) = K
<1>1. Step \in Nat \ {0} BY ClockAssumption
<1>2. (K * Step) \div Step = K /\ (K * Step) % Step = 0
  BY <1>1
<1>3. Max({1, K}) = K
  <2>1. K \in {1, K} /\ \A x \in {1, K} : K >= x OBVIOUS
  <2>2. \A y \in {1, K} : (\A x \in {1, K} : y >= x) => y = K OBVIOUS
  <2> QED BY <2>1, <2>2 DEF Max
<1> DEFINE down == (K * Step) \div Step
           rest == 2 * ((K * Step) % Step)
           up == rest > Step \/ (rest = Step /\ down % 2 = 1)
<1>4. down = K /\ rest = 0 /\ ~(0 > Step) /\ 0 # Step BY <1>1, <1>2
<1>5. Steps(K * Step) = Max({1, IF up THEN down + 1 ELSE down}) BY DEF Steps
<1>6. ~up
  <2> HIDE DEF down, rest
  <2> QED BY <1>4
<1> HIDE DEF down, rest, up
<1> QED BY <1>3, <1>4, <1>5, <1>6
-----------------------------------------------------------------------------
\* Between two callbacks the clock shows at most the times of the steps between.
LEMMA SteppedIsTrue ==
  ASSUME ClockInv, MovesInSteps, Stepped = "passed", NEW n \in Neighbours
  PROVE  Cardinality({SourceTime(t) : t \in Between(n[1] + 1, n[2])} \ {SourceTime(n[1])})
           <= MaxSkipped + 1
<1> DEFINE a == n[1]
           b == n[2]
           V == {SourceTime(t) : t \in Between(a + 1, b)} \ {SourceTime(a)}
<1>1. a \in seen /\ b \in seen /\ a < b BY DEF Neighbours
<1>2. /\ a \in Nat /\ b \in Nat /\ Instant \in Nat /\ a \in 0..Instant /\ b \in a..Instant
      /\ SourceTime(a) \in Int
  BY <1>1, SourceType
<1>3. Step \in Nat \ {0} /\ MaxSkipped \in Nat BY ClockAssumption
<1>4. MovesOn
  <2>1. ASSUME NEW t \in 1..Instant PROVE SourceTime(t - 1) <= SourceTime(t)
    <3>1. PICK k \in 0..(SourceTime(t) - SourceTime(t - 1)) : TRUE BY DEF MovesInSteps
    <3>2. t - 1 \in 0..Instant /\ t \in 0..Instant BY <1>2
    <3>3. SourceTime(t) \in Int /\ SourceTime(t - 1) \in Int BY <3>2, SourceType
    <3> QED BY <3>1, <3>3
  <2> QED BY <2>1 DEF MovesOn
<1>5. PICK K \in Nat : SourceTime(b) = SourceTime(a) + K * Step BY <1>2, WholeSteps
<1> DEFINE W == {SourceTime(a) + k * Step : k \in 1..K}
<1>6. V \subseteq W
  <2> SUFFICES ASSUME NEW t \in Between(a + 1, b), SourceTime(t) # SourceTime(a) PROVE SourceTime(t) \in W
    OBVIOUS
  <2>1. t \in 0..Instant /\ t \in a..Instant /\ b \in t..Instant BY <1>2 DEF Between
  <2>2. PICK k \in Nat : SourceTime(t) = SourceTime(a) + k * Step BY <1>2, <2>1, WholeSteps
  <2>3. SourceTime(t) <= SourceTime(b) BY <1>4, <2>1, ClockOrder
  <2>4. k * Step \in Nat /\ K * Step \in Nat BY <1>3
  <2>5. k * Step <= K * Step BY <1>2, <1>5, <2>2, <2>3, <2>4
  <2>6. k <= K BY <1>3, <2>5, StepOrder
  <2>7. k # 0
    <3>1. 0 * Step = 0 BY <1>3
    <3> QED BY <1>2, <2>2, <3>1
  <2>8. k \in 1..K BY <2>6, <2>7
  <2> QED BY <2>2, <2>8
<1>7. IsFiniteSet(W) /\ Cardinality(W) <= K
  <2> DEFINE f == [k \in 1..K |-> SourceTime(a) + k * Step]
  <2>1. f \in Surjection(1..K, W) BY DEF Surjection
  <2>2. IsFiniteSet(1..K) /\ Cardinality(1..K) = K BY FS_Interval
  <2> HIDE DEF f, W
  <2> QED BY <2>1, <2>2, FS_Surjection
<1>8. Cardinality(V) <= K /\ Cardinality(V) \in Nat
  <2> HIDE DEF V, W
  <2>1. Cardinality(V) <= Cardinality(W) /\ IsFiniteSet(V) BY <1>6, <1>7, FS_Subset
  <2>2. Cardinality(V) \in Nat /\ Cardinality(W) \in Nat BY <1>7, <2>1, FS_CardinalityType
  <2> QED BY <1>7, <2>1, <2>2
<1>9. K <= MaxSkipped + 1
  <2>1. CASE K = 0 BY <2>1, <1>3
  <2>2. CASE K # 0
    <3>1. ~(K * Step <= 0 * Step) /\ 0 * Step = 0 BY <1>3, <2>2, StepOrder
    <3>2. K * Step \in Nat BY <1>3
    <3>3. SourceTime(b) - SourceTime(a) = K * Step /\ SourceTime(a) # SourceTime(b) BY <1>2, <1>5, <3>1, <3>2
    <3>4. n \in ClockChanges BY <3>3 DEF ClockChanges
    <3>5. ~(Steps(SourceTime(b) - SourceTime(a)) - 1 > MaxSkipped) BY <3>4 DEF Stepped
    <3>6. Steps(K * Step) = K BY <2>2, StepsAre
    <3> QED BY <1>3, <3>3, <3>5, <3>6
  <2> QED BY <2>1, <2>2
<1> HIDE DEF V
<1>10. Cardinality(V) <= MaxSkipped + 1 BY <1>3, <1>8, <1>9
<1> QED BY <1>10 DEF V

\* Each change between two callbacks is one of the clock, and of no other two.
LEMMA PlaybackIsTrue ==
  ASSUME ClockInv, Instant = LastInstant, NEW min \in Factors, Playback(min) = "passed"
  PROVE  min[1] * Elapsed <= min[2] * Cardinality({t \in 1..Instant :
           /\ FirstFrom(0) < t /\ t <= LastUpTo(LastInstant) /\ SourceTime(t) # SourceTime(t - 1)})
<1> DEFINE earliest == FirstFrom(0)
           last == LastUpTo(LastInstant)
           T == {t \in 1..Instant : earliest < t /\ t <= last /\ SourceTime(t) # SourceTime(t - 1)}
           f == [n \in ClockChanges |-> CHOOSE t \in (n[1] + 1)..n[2] : SourceTime(t) # SourceTime(t - 1)]
<1>1. min[1] \in Nat /\ min[2] \in Nat \ {0} /\ LastInstant \in Nat BY ClockAssumption
<1>2. \A n \in Neighbours : /\ n = <<n[1], n[2]>> /\ n[1] \in seen /\ n[2] \in seen
                            /\ n[1] \in Nat /\ n[2] \in Nat
                            /\ n[1] \in 0..Instant /\ n[2] \in n[1]..Instant /\ n[1] < n[2]
                            /\ ~\E v \in seen : n[1] < v /\ v < n[2]
  <2>1. ASSUME NEW n \in Neighbours
        PROVE  n = <<n[1], n[2]>> /\ n[1] \in seen /\ n[2] \in seen /\ n[1] < n[2]
    BY DEF Neighbours
  <2>2. ASSUME NEW n \in Neighbours PROVE ~\E v \in seen : n[1] < v /\ v < n[2]
    BY DEF Neighbours
  <2> QED BY <2>1, <2>2, SourceType
<1>3. \A n \in ClockChanges : /\ n \in Neighbours /\ f[n] \in (n[1] + 1)..n[2]
                         /\ SourceTime(f[n]) # SourceTime(f[n] - 1)
  <2> SUFFICES ASSUME NEW n \in ClockChanges
               PROVE  /\ n \in Neighbours /\ f[n] \in (n[1] + 1)..n[2]
                      /\ SourceTime(f[n]) # SourceTime(f[n] - 1)
    OBVIOUS
  <2>1. n \in Neighbours /\ SourceTime(n[1]) # SourceTime(n[2]) BY DEF ClockChanges
  <2>2. \E t \in (n[1] + 1)..n[2] : SourceTime(t) # SourceTime(t - 1) BY <1>2, <2>1, ChangeBetween
  <2> QED BY <2>1, <2>2
<1>4. \A t \in seen : t <= LastInstant => earliest <= t /\ t <= last /\ earliest \in Nat /\ last \in Nat
  <2> SUFFICES ASSUME NEW t \in seen, t <= LastInstant
               PROVE  earliest <= t /\ t <= last /\ earliest \in Nat /\ last \in Nat
    OBVIOUS
  <2>1. t \in Nat BY SourceType
  <2>2. earliest \in seen /\ earliest <= t BY <2>1, FirstIs
  <2>3. last \in seen /\ t <= last BY <1>1, <2>1, LastIs
  <2> QED BY <2>2, <2>3, SourceType
<1>5. \A n \in ClockChanges : f[n] \in T
  <2> SUFFICES ASSUME NEW n \in ClockChanges PROVE f[n] \in T OBVIOUS
  <2> HIDE DEF f, earliest, last
  <2>1. /\ n[1] \in seen /\ n[2] \in seen /\ n[1] \in 0..Instant /\ n[2] \in 0..Instant
        /\ n[1] \in Nat /\ n[2] \in Nat /\ Instant \in Nat
    BY <1>2, <1>3, SourceType
  <2>2. earliest <= n[1] /\ n[2] <= last /\ earliest \in Nat /\ last \in Nat BY <1>4, <2>1
  <2>3. f[n] \in 1..Instant /\ earliest < f[n] /\ f[n] <= last BY <1>3, <2>1, <2>2
  <2> QED BY <1>3, <2>3
<1>6. ASSUME NEW n \in ClockChanges, NEW m \in ClockChanges, f[n] = f[m] PROVE n = m
  <2> HIDE DEF f
  <2>1. /\ n \in Neighbours /\ m \in Neighbours
        /\ f[n] \in (n[1] + 1)..n[2] /\ f[n] \in (m[1] + 1)..m[2]
    BY <1>3, <1>6
  <2>2. n[1] < m[2] /\ m[1] < n[2] BY <1>2, <2>1
  <2>3. ~(n[1] < m[1]) /\ ~(m[1] < n[1]) /\ ~(n[2] < m[2]) /\ ~(m[2] < n[2])
    BY <1>2, <2>1, <2>2
  <2>4. n[1] = m[1] /\ n[2] = m[2] BY <1>2, <2>1, <2>3
  <2> QED BY <1>2, <2>1, <2>4
<1>7. f \in Injection(ClockChanges, T)
  <2>1. f \in [ClockChanges -> T] BY <1>5
  <2> HIDE DEF f
  <2> QED BY <1>6, <2>1 DEF Injection, IsInjective
<1>8. IsFiniteSet(T) /\ Cardinality(T) \in Nat
  <2>1. IsFiniteSet(1..Instant) BY SourceType, FS_Interval
  <2>2. IsFiniteSet(T) BY <2>1, FS_Subset
  <2> QED BY <2>2, FS_CardinalityType
<1> HIDE DEF f, T
<1>9. Cardinality(ClockChanges) <= Cardinality(T) /\ Cardinality(ClockChanges) \in Nat
  <2>1. Cardinality(ClockChanges) <= Cardinality(T) /\ IsFiniteSet(ClockChanges)
    BY <1>7, <1>8, FS_Injection
  <2> QED BY <2>1, FS_CardinalityType
<1>10. seen # {} /\ ~(Cardinality(ClockChanges) * min[2] < min[1] * Elapsed) BY DEF Playback
<1>11. Elapsed \in Int
  <2>1. PICK t \in seen : t <= LastInstant BY <1>1, <1>10, SourceType
  <2> HIDE DEF earliest, last
  <2>2. earliest \in Nat /\ last \in Nat BY <1>4, <2>1
  <2> QED BY <2>2 DEF Elapsed, earliest, last
<1>12. Cardinality(ClockChanges) * min[2] <= Cardinality(T) * min[2] BY <1>1, <1>8, <1>9, StepOrder
<1>13. /\ Cardinality(ClockChanges) * min[2] \in Int /\ Cardinality(T) * min[2] \in Int
       /\ min[1] * Elapsed \in Int
  BY <1>1, <1>8, <1>9, <1>11
<1>14. Cardinality(T) * min[2] = min[2] * Cardinality(T) BY <1>1, <1>8
<1>15. min[1] * Elapsed <= min[2] * Cardinality(T) BY <1>10, <1>12, <1>13, <1>14
<1> QED BY <1>15 DEF T, earliest, last

\* A clock seen to move back is not monotonic, and passes nothing.
LEMMA MovedBackFails ==
  ASSUME ClockInv, NEW t \in seen, NEW u \in seen, t < u, SourceTime(u) < SourceTime(t)
  PROVE  \A mode \in TimeModes, rate \in Factors : Timing(mode, rate) = "failed"
<1>1. SourceTime(u) \in Int /\ SourceTime(t) \in Int BY SourceType
<1>2. ~Monotonic BY <1>1, SeenOrder
<1>3. seen # {} OBVIOUS
<1> QED BY <1>2, <1>3 DEF Timing, Stepped, Realtime, Playback

LEMMA ClockInvHolds == ClockInv /\ Instant = LastInstant => ClockVerdictIsTrue
<1> SUFFICES ASSUME ClockInv, Instant = LastInstant PROVE ClockVerdictIsTrue OBVIOUS
<1>1. ASSUME MovesOn, NEW min \in Factors
      PROVE  /\ Realtime(min) = "passed" => TrulyAtLeast(min)
             /\ Realtime(min) = "failed" => Outside \/ ~TrulyAtLeast(min)
             /\ seen = Between(Measured.start, Measured.end) => Realtime(min) # "insufficient"
  <2> DEFINE few == Cardinality(seen) < 2
             below == ~few /\ \E f \in UpperBounds : ~AtLeast(f, min)
             reached == IF ~few /\ Covered THEN \A f \in LowerBounds : AtLeast(f, min)
                        ELSE min[1] = 0
  <2>1. Realtime(min) = IF below \/ (seen # {} /\ ~Monotonic) \/ (~few /\ Outside) THEN "failed"
                        ELSE IF few \/ ~Covered \/ ~reached THEN "insufficient" ELSE "passed"
    BY DEF Realtime
  <2>2. Realtime(min) = "passed" => TrulyAtLeast(min)
    <3> SUFFICES ASSUME Realtime(min) = "passed" PROVE TrulyAtLeast(min) OBVIOUS
    <3>1. ~few /\ Covered /\ reached BY <2>1
    <3>2. \A f \in LowerBounds : AtLeast(f, min) BY <3>1
    <3> QED BY <1>1, <3>2, PassedIsTrue
  <2>3. Realtime(min) = "failed" => Outside \/ ~TrulyAtLeast(min)
    <3> SUFFICES ASSUME Realtime(min) = "failed", ~Outside PROVE ~TrulyAtLeast(min) OBVIOUS
    <3>1. seen # {} => Monotonic
      <4> SUFFICES ASSUME seen # {}, NEW n \in Neighbours PROVE SourceTime(n[1]) <= SourceTime(n[2])
        BY DEF Monotonic
      <4>1. n[1] \in seen /\ n[2] \in seen /\ n[1] < n[2] BY DEF Neighbours
      <4>2. n[1] \in 0..Instant /\ n[2] \in n[1]..Instant BY <4>1, SourceType
      <4> QED BY <1>1, <4>2, ClockOrder
    <3>2. below BY <2>1, <3>1
    <3> QED BY <1>1, <3>2, FailedIsTrue
  <2>4. seen = Between(Measured.start, Measured.end) => Realtime(min) # "insufficient"
    <3> SUFFICES ASSUME seen = Between(Measured.start, Measured.end),
                        Realtime(min) = "insufficient"
                 PROVE  FALSE
      OBVIOUS
    <3>1. Cardinality(seen) >= 2 /\ Covered /\ LowerBounds \subseteq UpperBounds
      BY AllSeenIsEnough, BoundsMeet
    <3>2. ~few
      <4>1. IsFiniteSet(seen)
        <5>1. Instant \in Int /\ seen \in SUBSET (0..Instant) BY SourceType
        <5>2. IsFiniteSet(0..Instant) BY <5>1, FS_Interval
        <5> QED BY <5>1, <5>2, FS_Subset
      <4>2. Cardinality(seen) \in Nat BY <4>1, FS_CardinalityType
      <4> QED BY <3>1, <4>2
    <3>3. ~below /\ ~reached BY <2>1, <3>1, <3>2
    <3> QED BY <3>1, <3>2, <3>3
  <2> QED BY <2>2, <2>3, <2>4
<1>2. ASSUME MovesInSteps, Stepped = "passed", NEW n \in Neighbours
      PROVE  Cardinality({SourceTime(t) : t \in Between(n[1] + 1, n[2])} \ {SourceTime(n[1])})
               <= MaxSkipped + 1
  BY <1>2, SteppedIsTrue
<1>3. ASSUME NEW min \in Factors, Playback(min) = "passed"
      PROVE  min[1] * Elapsed <= min[2] * Cardinality({t \in 1..Instant :
               /\ FirstFrom(0) < t /\ t <= LastUpTo(LastInstant) /\ SourceTime(t) # SourceTime(t - 1)})
  BY <1>3, PlaybackIsTrue
<1>4. (\E t, u \in seen : t < u /\ SourceTime(u) < SourceTime(t)) =>
         \A mode \in TimeModes, rate \in Factors : Timing(mode, rate) = "failed"
  BY MovedBackFails
<1> QED BY <1>1, <1>2, <1>3, <1>4 DEF ClockVerdictIsTrue

\* There is always a time to show, and callbacks lie in the past.
LEMMA ClockInvariance == ClockSpec => []ClockInv
<1>1. ClockInit => ClockInv
  <2> SUFFICES ASSUME ClockInit PROVE ClockInv OBVIOUS
  <2>1. shown = <<0>> /\ seen \subseteq {0} BY DEF ClockInit
  <2>2. shown \in Seq(Int) /\ shown # <<>> /\ Len(shown) = 1 BY <2>1
  <2> QED BY <2>1, <2>2 DEF ClockInv, Instant
<1>2. ClockInv /\ [ClockNext]_clockVars => ClockInv'
  <2> SUFFICES ASSUME ClockInv, [ClockNext]_clockVars PROVE ClockInv' OBVIOUS
  <2>1. CASE UNCHANGED clockVars BY <2>1 DEF clockVars, ClockInv, Instant
  <2>2. CASE Advance
    <3>1. PICK d \in Rates : shown' = Append(shown, SourceTime(Instant) + d) BY <2>2 DEF Advance
    <3>2. Instant \in Nat /\ SourceTime(Instant) + d \in Int /\ shown \in Seq(Int)
      BY SourceType, ClockAssumption DEF ClockInv
    <3>3. shown' \in Seq(Int) /\ Len(shown') = Len(shown) + 1 /\ shown' # <<>> BY <3>1, <3>2
    <3>4. Instant' = Instant + 1 BY <3>2, <3>3 DEF Instant
    <3>5. seen' \subseteq seen \cup {Instant + 1} BY <2>2 DEF Advance
    <3>6. seen \subseteq 0..Instant BY DEF ClockInv
    <3> QED BY <3>2, <3>3, <3>4, <3>5, <3>6 DEF ClockInv
  <2> QED BY <2>1, <2>2 DEF ClockNext
<1> QED BY <1>1, <1>2, PTL DEF ClockSpec

\* Of every source clock and every set of callbacks, the verdicts of
\* _realtime_assessment, playback_clocked and simulation_stepped are true of the
\* clock itself, whatever the window, the factors, the gaps and the step.
THEOREM ClockVerdictsAreTrue == ClockSpec => []ClockVerdictIsTrue
<1>1. ClockInv => ClockVerdictIsTrue
  BY ClockInvHolds DEF ClockVerdictIsTrue
<1> QED BY <1>1, ClockInvariance, PTL
-----------------------------------------------------------------------------
(***************************************************************************)
(* Traces: causal chains.                                                  *)
(***************************************************************************)

\* The sets of spans of S within n steps of span `s`.
Within(S, s, w) ==
  /\ w[0] = {s} /\ Descendants(S, s) = w[Cardinality(S)]
  /\ \A n \in Nat : w[n] \in SUBSET S /\ w[n + 1] = Widened(S, w[n])

\* Descendants(S, s) is the last of them.
LEMMA DescendantsAre ==
  ASSUME NEW S, NEW s \in S
  PROVE  \E w : Within(S, s, w)
<1> DEFINE step == [x \in Nat \X SUBSET S |-> Widened(S, x[2])]
           w == CHOOSE g : g = [k \in Nat |-> IF k = 0 THEN {s} ELSE Widened(S, g[k - 1])]
<1>1. step \in [Nat \X SUBSET S -> SUBSET S] BY DEF Widened, Follows
<1>2. PICK f \in [Nat -> SUBSET S] :
        f[0] = {s} /\ \A n \in Nat : f[n + 1] = step[<<n, f[n]>>]
  <2> DEFINE X == SUBSET S
  <2>1. {s} \in X OBVIOUS
  <2> HIDE DEF step, X
  <2>2. Recursion(X, {s}, step) # {} BY <1>1, <2>1, RecursiveFunction DEF X
  <2> QED BY <2>2 DEF Recursion, X
<1>3. \A n \in Nat : f[n + 1] = Widened(S, f[n])
  <2> SUFFICES ASSUME NEW n \in Nat PROVE f[n + 1] = Widened(S, f[n]) OBVIOUS
  <2>1. <<n, f[n]>> \in Nat \X SUBSET S OBVIOUS
  <2> QED BY <1>2, <2>1
<1>4. f = [k \in Nat |-> IF k = 0 THEN {s} ELSE Widened(S, f[k - 1])]
  <2>1. ASSUME NEW k \in Nat PROVE f[k] = IF k = 0 THEN {s} ELSE Widened(S, f[k - 1])
    <3>1. CASE k = 0 BY <1>2, <3>1
    <3>2. CASE k # 0
      <4>1. k - 1 \in Nat /\ (k - 1) + 1 = k BY <3>2
      <4>2. f[(k - 1) + 1] = Widened(S, f[k - 1]) BY <1>3, <4>1
      <4> QED BY <3>2, <4>1, <4>2
    <3> QED BY <3>1, <3>2
  <2> QED BY <2>1
<1>5. w = [k \in Nat |-> IF k = 0 THEN {s} ELSE Widened(S, w[k - 1])] BY <1>4
<1>6. Descendants(S, s) = w[Cardinality(S)] BY DEF Descendants
<1> HIDE DEF w
<1>7. w[0] = {s} BY <1>5
<1>8. ASSUME NEW n \in Nat PROVE w[n + 1] = Widened(S, w[n])
  <2>1. n + 1 \in Nat /\ n + 1 # 0 /\ (n + 1) - 1 = n OBVIOUS
  <2> QED BY <1>5, <2>1
<1>9. \A n \in Nat : w[n] = f[n]
  <2>1. w[0] = f[0] BY <1>2, <1>7
  <2>2. \A n \in Nat : w[n] = f[n] => w[n + 1] = f[n + 1] BY <1>3, <1>8
  <2> QED BY <2>1, <2>2, SameRecursion
<1>10. \A n \in Nat : w[n] \in SUBSET S BY <1>2, <1>9
<1> QED BY <1>6, <1>7, <1>8, <1>10 DEF Within

\* The receipts the search visits, on exported spans S.
LEMMA VisitedIs ==
  ASSUME NEW S
  PROVE  LET w == Visited(S) IN
         /\ w[0] = {Nothing}
         /\ \A n \in Nat : w[n + 1] = Onward(S, n + 1, w[n])
<1> DEFINE X == SUBSET (S \cup {Nothing})
           step == [x \in Nat \X X |-> Onward(S, x[1] + 1, x[2])]
           w == CHOOSE g : g = [c \in Nat |-> IF c = 0 THEN {Nothing} ELSE Onward(S, c, g[c - 1])]
<1>1. step \in [Nat \X X -> X]
  <2>1. ASSUME NEW c, NEW V PROVE Onward(S, c, V) \in X
    BY DEF Onward, Candidates, Pairs, Of
  <2> QED BY <2>1
<1>2. PICK f \in [Nat -> X] :
        f[0] = {Nothing} /\ \A n \in Nat : f[n + 1] = step[<<n, f[n]>>]
  <2>1. {Nothing} \in X OBVIOUS
  <2> HIDE DEF step, X
  <2>2. Recursion(X, {Nothing}, step) # {} BY <1>1, <2>1, RecursiveFunction
  <2> QED BY <2>2 DEF Recursion
<1>3. \A n \in Nat : f[n + 1] = Onward(S, n + 1, f[n])
  <2> SUFFICES ASSUME NEW n \in Nat PROVE f[n + 1] = Onward(S, n + 1, f[n]) OBVIOUS
  <2> HIDE DEF X
  <2>1. <<n, f[n]>> \in Nat \X X OBVIOUS
  <2> QED BY <1>2, <2>1
<1>4. f = [c \in Nat |-> IF c = 0 THEN {Nothing} ELSE Onward(S, c, f[c - 1])]
  <2>1. ASSUME NEW k \in Nat PROVE f[k] = IF k = 0 THEN {Nothing} ELSE Onward(S, k, f[k - 1])
    <3>1. CASE k = 0 BY <1>2, <3>1
    <3>2. CASE k # 0
      <4>1. k - 1 \in Nat /\ (k - 1) + 1 = k BY <3>2
      <4>2. f[(k - 1) + 1] = Onward(S, (k - 1) + 1, f[k - 1]) BY <1>3, <4>1
      <4> QED BY <3>2, <4>1, <4>2
    <3> QED BY <3>1, <3>2
  <2> QED BY <2>1
<1>5. w = [c \in Nat |-> IF c = 0 THEN {Nothing} ELSE Onward(S, c, w[c - 1])] BY <1>4
<1>6. Visited(S) = w BY DEF Visited
<1> HIDE DEF w
<1>7. w[0] = {Nothing} BY <1>5
<1>8. ASSUME NEW n \in Nat PROVE w[n + 1] = Onward(S, n + 1, w[n])
  <2>1. n + 1 \in Nat /\ n + 1 # 0 /\ (n + 1) - 1 = n OBVIOUS
  <2> QED BY <1>5, <2>1
<1> QED BY <1>6, <1>7, <1>8

\* The receipts that go back to a send on channel 1.
LEMMA ArrivedIs ==
  /\ Arrived[0] = {}
  /\ \A n \in Nat : Arrived[n + 1] = Delivered(n + 1, Arrived[n])
<1> DEFINE X == SUBSET spans
           step == [x \in Nat \X X |-> Delivered(x[1] + 1, x[2])]
           w == CHOOSE g : g = [c \in Nat |-> IF c = 0 THEN {} ELSE Delivered(c, g[c - 1])]
<1>1. step \in [Nat \X X -> X] BY DEF Delivered, Of
<1>2. PICK f \in [Nat -> X] : f[0] = {} /\ \A n \in Nat : f[n + 1] = step[<<n, f[n]>>]
  <2>1. {} \in X OBVIOUS
  <2> HIDE DEF step, X
  <2>2. Recursion(X, {}, step) # {} BY <1>1, <2>1, RecursiveFunction
  <2> QED BY <2>2 DEF Recursion
<1>3. \A n \in Nat : f[n + 1] = Delivered(n + 1, f[n])
  <2> SUFFICES ASSUME NEW n \in Nat PROVE f[n + 1] = Delivered(n + 1, f[n]) OBVIOUS
  <2> HIDE DEF X
  <2>1. <<n, f[n]>> \in Nat \X X OBVIOUS
  <2> QED BY <1>2, <2>1
<1>4. f = [c \in Nat |-> IF c = 0 THEN {} ELSE Delivered(c, f[c - 1])]
  <2>1. ASSUME NEW k \in Nat PROVE f[k] = IF k = 0 THEN {} ELSE Delivered(k, f[k - 1])
    <3>1. CASE k = 0 BY <1>2, <3>1
    <3>2. CASE k # 0
      <4>1. k - 1 \in Nat /\ (k - 1) + 1 = k BY <3>2
      <4>2. f[(k - 1) + 1] = Delivered((k - 1) + 1, f[k - 1]) BY <1>3, <4>1
      <4> QED BY <3>2, <4>1, <4>2
    <3> QED BY <3>1, <3>2
  <2> QED BY <2>1
<1>5. w = [c \in Nat |-> IF c = 0 THEN {} ELSE Delivered(c, w[c - 1])] BY <1>4
<1>6. Arrived = w BY DEF Arrived
<1> HIDE DEF w
<1>7. w[0] = {} BY <1>5
<1>8. ASSUME NEW n \in Nat PROVE w[n + 1] = Delivered(n + 1, w[n])
  <2>1. n + 1 \in Nat /\ n + 1 # 0 /\ (n + 1) - 1 = n OBVIOUS
  <2> QED BY <1>5, <2>1
<1> QED BY <1>6, <1>7, <1>8
-----------------------------------------------------------------------------

\* A recorded span names its own message and no other cause: a receipt the send
\* of its message, a send at most a receipt at the end of the channel before.
Shaped(s) ==
  /\ s \in Spans
  /\ s.refs \subseteq {s.cause}
  /\ s.key.side = "consumer" =>
       s.cause = [channel |-> s.key.channel, side |-> "producer", n |-> s.key.n, copy |-> 1]
  /\ s.key.side = "producer" =>
       /\ s.key.copy = 1
       /\ s.cause # Nothing =>
            s.cause.side = "consumer" /\ s.cause.channel = s.key.channel - 1

\* A span under its own message ID that names its cause.
Whole(s) == s.id = s.key.n /\ s.refs = {s.cause} \ {Nothing}

\* The inductive invariant: what a span says of its cause is true, if perhaps not
\* all there is to say, and all of it as long as nothing went wrong.
TraceInv ==
  /\ tick \in Nat /\ skew \in Skews /\ spanFaults \in Nat
  /\ IsFiniteSet(spans) /\ \A s \in spans : Shaped(s)
  /\ spanFaults = 0 => misexported = {} /\ \A s \in spans : Whole(s)

\* The inductive invariant holds of no spans at all.
LEMMA TraceInitHolds ==
  ASSUME TraceInit
  PROVE  TraceInv
<1>1. IsFiniteSet(spans) BY FS_EmptySet DEF TraceInit
<1> QED BY <1>1 DEF TraceInit, TraceInv

\* Sends and receipts can be counted.
LEMMA NumbersAreNatural ==
  ASSUME TraceInv, NEW c
  PROVE  IsFiniteSet(Numbers(c)) /\ Cardinality(Numbers(c)) \in Nat
<1> DEFINE S == Of(spans, c, "producer")
           f == [s \in S |-> s.key.n]
<1>1. IsFiniteSet(S) BY FS_Subset DEF TraceInv, Of
<1>2. Numbers(c) = {f[s] : s \in S} BY DEF Numbers
<1> HIDE DEF S
<1>3. f \in Surjection(S, Numbers(c)) BY <1>2 DEF Surjection
<1> HIDE DEF f
<1>4. IsFiniteSet(Numbers(c)) BY <1>1, <1>3, FS_Surjection
<1> QED BY <1>4, FS_CardinalityType

\* The copies of a receipt, too.
LEMMA ReceiptsAreNatural ==
  ASSUME TraceInv, NEW p
  PROVE  IsFiniteSet(Receipts(p)) /\ Cardinality(Receipts(p)) \in Nat
<1>1. IsFiniteSet(Receipts(p)) BY FS_Subset DEF TraceInv, Of, Receipts
<1> QED BY <1>1, FS_CardinalityType

\* Every clock shows an instant, whatever its skew.
LEMMA ClockIsInt ==
  ASSUME TraceInv, NEW c \in 1..Channels, NEW side
  PROVE  Clock(c, side) \in Int
<1>1. skew \in [1..Channels -> Int] BY ChainAssumption DEF TraceInv
<1>2. c # 1 => c - 1 \in 1..Channels BY ChainAssumption
<1>3. CASE side = "consumer" BY <1>1, <1>3 DEF Clock, TraceInv
<1>4. CASE side # "consumer" /\ c = 1 BY <1>4 DEF Clock, TraceInv
<1>5. CASE side # "consumer" /\ c # 1 BY <1>1, <1>2, <1>5 DEF Clock, TraceInv
<1> QED BY <1>3, <1>4, <1>5

\* What Record writes of a send, and below of a receipt, has the shape.
LEMMA SendIsShaped ==
  ASSUME TraceInv, NEW c \in 1..Channels, NEW n \in Nat, NEW id \in Int,
         NEW refs, NEW cause,
         refs = {cause} \ {Nothing},
         cause = Nothing \/ \E s \in Of(spans, c - 1, "consumer") : cause = s.key
  PROVE  Shaped([key |-> [channel |-> c, side |-> "producer", n |-> n, copy |-> 1],
                 id |-> id, at |-> Clock(c, "producer"), refs |-> refs,
                 real |-> tick, cause |-> cause])
<1> DEFINE k == [channel |-> c, side |-> "producer", n |-> n, copy |-> 1]
           r == [key |-> k, id |-> id, at |-> Clock(c, "producer"), refs |-> refs,
                 real |-> tick, cause |-> cause]
<1>1. Clock(c, "producer") \in Int BY ClockIsInt
<1>2. k \in Keys BY DEF Keys
<1>3. cause \in Keys \cup {Nothing}
      /\ (cause # Nothing => cause.side = "consumer" /\ cause.channel = c - 1)
  BY DEF TraceInv, Shaped, Spans, Of
<1>4. refs \in SUBSET Keys BY <1>3
<1>5. r \in Spans BY <1>1, <1>2, <1>3, <1>4 DEF Spans, TraceInv
<1>6. k.side = "producer" /\ k.copy = 1 /\ k.channel = c OBVIOUS
<1>7. r.key = k /\ r.cause = cause /\ r.refs = refs OBVIOUS
<1> HIDE DEF r, k
<1>8. Shaped(r) BY <1>3, <1>5, <1>6, <1>7 DEF Shaped
<1> QED BY <1>8 DEF r, k

\* A receipt names the send of its message, or nothing.
LEMMA ReceiptIsShaped ==
  ASSUME TraceInv, NEW p \in spans, p.key.side = "producer",
         NEW copy \in Nat, NEW id \in Int \cup {Nothing}, NEW refs \in SUBSET {p.key}
  PROVE  Shaped([key |-> [channel |-> p.key.channel, side |-> "consumer", n |-> p.key.n,
                          copy |-> copy],
                 id |-> id, at |-> Clock(p.key.channel, "consumer"), refs |-> refs,
                 real |-> tick, cause |-> p.key])
<1> DEFINE k == [channel |-> p.key.channel, side |-> "consumer", n |-> p.key.n,
                 copy |-> copy]
           r == [key |-> k, id |-> id, at |-> Clock(p.key.channel, "consumer"),
                 refs |-> refs, real |-> tick, cause |-> p.key]
<1>1. /\ p.key \in Keys /\ p.key.channel \in 1..Channels /\ p.key.n \in Nat
      /\ p.key.copy = 1
  BY DEF TraceInv, Shaped, Spans, Keys
<1>2. Clock(p.key.channel, "consumer") \in Int BY <1>1, ClockIsInt
<1>3. k \in Keys BY <1>1 DEF Keys
<1>4. p.key = [channel |-> p.key.channel, side |-> "producer", n |-> p.key.n, copy |-> 1]
  BY <1>1 DEF Keys
<1>5. r \in Spans BY <1>1, <1>2, <1>3 DEF Spans, TraceInv
<1>6. k.side = "consumer" /\ k.n = p.key.n /\ k.channel = p.key.channel OBVIOUS
<1>7. r.key = k /\ r.cause = p.key /\ r.refs = refs OBVIOUS
<1> HIDE DEF r, k
<1>8. Shaped(r) BY <1>4, <1>5, <1>6, <1>7 DEF Shaped
<1> QED BY <1>8 DEF r, k

\* Every send, receipt and fault keeps it.
LEMMA TraceStepKeeps ==
  ASSUME TraceInv, [TraceNext]_traceVars
  PROVE  TraceInv'
<1>1. Nothing \notin Int \cup Keys \cup Spans BY ChainAssumption
<1>2. ASSUME NEW r, Shaped(r), spans' = spans \cup {r}
      PROVE  IsFiniteSet(spans') /\ \A s \in spans' : Shaped(s)
  BY <1>2, FS_AddElement DEF TraceInv
<1>3. CASE Tick BY <1>3 DEF Tick, TraceInv, Shaped, Whole
<1>4. ASSUME NEW c \in 1..Channels, Send(c) PROVE TraceInv'
  <2> DEFINE n == 1 + Cardinality(Numbers(c))
             r(refs, cause) == [key |-> [channel |-> c, side |-> "producer", n |-> n, copy |-> 1],
                          id |-> n, at |-> Clock(c, "producer"), refs |-> refs,
                          real |-> tick, cause |-> cause]
  <2>1. n \in Nat BY NumbersAreNatural
  <2>2. UNCHANGED <<skew, tick, misexported, spanFaults>> BY <1>4 DEF Send
  <2>3. PICK refs, cause :
          /\ refs = {cause} \ {Nothing}
          /\ cause = Nothing \/ \E s \in Of(spans, c - 1, "consumer") : cause = s.key
          /\ Record(c, "producer", n, 1, n, refs, cause)
    <3>1. CASE Record(c, "producer", n, 1, n, {}, Nothing)
      <4>1. {} = {Nothing} \ {Nothing} OBVIOUS
      <4> HIDE DEF n
      <4> QED BY <3>1, <4>1
    <3>2. ASSUME NEW k \in {s.key : s \in Of(spans, c - 1, "consumer")},
                 Record(c, "producer", n, 1, n, {k}, k)
          PROVE  \E refs, cause :
                   /\ refs = {cause} \ {Nothing}
                   /\ cause = Nothing \/ \E s \in Of(spans, c - 1, "consumer") : cause = s.key
                   /\ Record(c, "producer", n, 1, n, refs, cause)
      <4>1. k \in Keys BY DEF Of, TraceInv, Shaped, Spans
      <4>2. {k} = {k} \ {Nothing} BY <4>1, <1>1
      <4> HIDE DEF n
      <4> QED BY <3>2, <4>2
    <3> HIDE DEF r
    <3> QED BY <1>4, <3>1, <3>2 DEF Send
  <2>4. spans' = spans \cup {r(refs, cause)} BY <2>3 DEF Record
  <2>5. Shaped(r(refs, cause)) BY <2>1, <2>3, SendIsShaped
  <2>6. r(refs, cause).id = n /\ r(refs, cause).key.n = n
        /\ r(refs, cause).refs = refs /\ r(refs, cause).cause = cause
    OBVIOUS
  <2>7. Whole(r(refs, cause))
    <3> HIDE DEF r, n
    <3> QED BY <2>3, <2>6 DEF Whole
  <2> HIDE DEF r, n
  <2>8. IsFiniteSet(spans') /\ \A s \in spans' : Shaped(s) BY <1>2, <2>4, <2>5
  <2> QED BY <2>2, <2>4, <2>7, <2>8 DEF TraceInv
<1>5. ASSUME NEW p \in spans, Receive(p) PROVE TraceInv'
  <2> DEFINE r == [key |-> [channel |-> p.key.channel, side |-> "consumer", n |-> p.key.n,
                            copy |-> 1],
                   id |-> p.id, at |-> Clock(p.key.channel, "consumer"), refs |-> {p.key},
                   real |-> tick, cause |-> p.key]
  <2>1. UNCHANGED <<skew, tick, misexported, spanFaults>> BY <1>5 DEF Receive
  <2>2. spans' = spans \cup {r} BY <1>5 DEF Receive, Record
  <2>3. Shaped(r)
    <3>1. p.id \in Int \cup {Nothing} BY DEF TraceInv, Shaped, Spans
    <3> QED BY <1>5, <3>1, ReceiptIsShaped DEF Receive
  <2>4. r.id = p.id /\ r.key.n = p.key.n /\ r.refs = {p.key} /\ r.cause = p.key OBVIOUS
  <2>5. p.key # Nothing BY <1>1 DEF TraceInv, Shaped, Spans
  <2> HIDE DEF r
  <2>6. spanFaults = 0 => Whole(r) BY <2>4, <2>5 DEF TraceInv, Whole
  <2>7. IsFiniteSet(spans') /\ \A s \in spans' : Shaped(s) BY <1>2, <2>2, <2>3
  <2> QED BY <2>1, <2>2, <2>6, <2>7 DEF TraceInv
<1>6. CASE SpanFault
  <2>1. spanFaults' \in Nat /\ spanFaults' # 0 /\ UNCHANGED <<skew, tick>>
    BY <1>6 DEF SpanFault, TraceInv
  <2>2. IsFiniteSet(spans') /\ \A s \in spans' : Shaped(s)
    <3>1. CASE UNCHANGED spans BY <3>1 DEF TraceInv
    <3>2. ASSUME NEW c \in 1..Channels,
                 Record(c, "producer", 1 + Cardinality(Numbers(c)), 1, 1, {}, Nothing)
          PROVE  IsFiniteSet(spans') /\ \A s \in spans' : Shaped(s)
      <4> DEFINE n == 1 + Cardinality(Numbers(c))
                 r == [key |-> [channel |-> c, side |-> "producer", n |-> n, copy |-> 1],
                       id |-> 1, at |-> Clock(c, "producer"), refs |-> {},
                       real |-> tick, cause |-> Nothing]
      <4>1. n \in Nat BY NumbersAreNatural
      <4>2. spans' = spans \cup {r} BY <3>2 DEF Record
      <4>3. {} = {Nothing} \ {Nothing} OBVIOUS
      <4> HIDE DEF n
      <4>4. Shaped(r) BY <4>1, <4>3, SendIsShaped
      <4> HIDE DEF r
      <4> QED BY <1>2, <4>2, <4>4
    <3>3. ASSUME NEW p \in spans, p.key.side = "producer", NEW copy \in Nat,
                 NEW id \in Int \cup {Nothing}, NEW refs \in SUBSET {p.key},
                 Record(p.key.channel, "consumer", p.key.n, copy, id, refs, p.key)
          PROVE  IsFiniteSet(spans') /\ \A s \in spans' : Shaped(s)
      <4> DEFINE r == [key |-> [channel |-> p.key.channel, side |-> "consumer",
                                n |-> p.key.n, copy |-> copy],
                       id |-> id, at |-> Clock(p.key.channel, "consumer"), refs |-> refs,
                       real |-> tick, cause |-> p.key]
      <4>1. spans' = spans \cup {r} BY <3>3 DEF Record
      <4>2. Shaped(r) BY <3>3, ReceiptIsShaped
      <4> HIDE DEF r
      <4> QED BY <1>2, <4>1, <4>2
    <3>4. CASE \E p \in spans :
            /\ p.key.side = "producer"
            /\ LET copy == 1 + Cardinality(Receipts(p))
               IN \/ copy = 2 /\ Record(p.key.channel, "consumer", p.key.n, copy, p.id,
                                        {p.key}, p.key)
                  \/ \E id \in {p.id, Nothing} : copy = 1 /\
                       Record(p.key.channel, "consumer", p.key.n, copy, id,
                              IF id = Nothing THEN {p.key} ELSE {}, p.key)
            /\ UNCHANGED misexported
      <4> DEFINE Fault(p, copy, id, refs) ==
                   Record(p.key.channel, "consumer", p.key.n, copy, id, refs, p.key)
      <4>1. PICK p \in spans :
              /\ p.key.side = "producer"
              /\ LET copy == 1 + Cardinality(Receipts(p))
                 IN \/ Fault(p, copy, p.id, {p.key})
                    \/ \E id \in {p.id, Nothing} :
                         Fault(p, copy, id, IF id = Nothing THEN {p.key} ELSE {})
        BY <3>4
      <4>2. 1 + Cardinality(Receipts(p)) \in Nat BY ReceiptsAreNatural
      <4>3. p.id \in Int \cup {Nothing} BY DEF TraceInv, Shaped, Spans
      <4>4. PICK copy \in Nat, id \in Int \cup {Nothing}, refs \in SUBSET {p.key} :
              Fault(p, copy, id, refs)
        <5> HIDE DEF Fault
        <5>1. CASE Fault(p, 1 + Cardinality(Receipts(p)), p.id, {p.key})
          BY <4>2, <4>3, <5>1
        <5>2. ASSUME NEW id \in {p.id, Nothing},
                     Fault(p, 1 + Cardinality(Receipts(p)), id,
                           IF id = Nothing THEN {p.key} ELSE {})
              PROVE  \E copy \in Nat, i \in Int \cup {Nothing}, refs \in SUBSET {p.key} :
                       Fault(p, copy, i, refs)
          <6>1. id \in Int \cup {Nothing} BY <4>3
          <6>2. (IF id = Nothing THEN {p.key} ELSE {}) \in SUBSET {p.key} OBVIOUS
          <6> QED BY <4>2, <5>2, <6>1, <6>2
        <5> QED BY <4>1, <5>1, <5>2
      <4> QED BY <3>3, <4>1, <4>4
    <3> QED BY <1>6, <3>1, <3>2, <3>4 DEF SpanFault
  <2> QED BY <2>1, <2>2 DEF TraceInv
<1>7. CASE UNCHANGED traceVars BY <1>7 DEF traceVars, TraceInv, Shaped, Whole
<1> QED BY <1>3, <1>4, <1>5, <1>6, <1>7 DEF TraceNext

LEMMA TraceInvariance == TraceSpec => []TraceInv
<1>1. TraceInit => TraceInv BY TraceInitHolds
<1>2. TraceInv /\ [TraceNext]_traceVars => TraceInv' BY TraceStepKeeps
<1> QED BY <1>1, <1>2, PTL DEF TraceSpec

\* What the shape says of a recorded span.
LEMMA SpanTypes ==
  ASSUME TraceInv, NEW s \in spans
  PROVE  /\ s # Nothing /\ s.key # Nothing /\ s.at \in Int
         /\ s.key.channel \in 1..Channels /\ s.key.channel \in Int
         /\ s.key.side \in {"producer", "consumer"}
         /\ s.key.n \in Nat
         /\ s.refs \subseteq {s.cause}
<1>1. s \in Spans /\ s.refs \subseteq {s.cause} BY DEF TraceInv, Shaped
<1>2. s.key \in Keys /\ s.at \in Int BY <1>1 DEF Spans
<1>3. s # Nothing /\ s.key # Nothing BY <1>1, <1>2, ChainAssumption
<1>4. s.key.channel \in 1..Channels /\ s.key.side \in {"producer", "consumer"}
      /\ s.key.n \in Nat
  BY <1>2 DEF Keys
<1>5. s.key.channel \in Int BY <1>4, ChainAssumption
<1> QED BY <1>1, <1>2, <1>3, <1>4, <1>5

\* The spans that the causal order leads to from receipt `r`.
Beyond(r) ==
  {r} \cup {s \in spans : \/ s.key.side = "consumer" /\ s.key.channel > r.key.channel
                          \/ /\ s.key.side = "producer"
                             /\ \/ s.cause = r.key
                                \/ s.key.channel > r.key.channel + 1}

\* No relation of spans leads out of that set.
LEMMA FollowersAreBeyond ==
  ASSUME TraceInv, NEW r \in spans, r.key.side = "consumer",
         NEW s \in Beyond(r), NEW t \in spans, s.key \in t.refs
  PROVE  t \in Beyond(r)
<1>1. /\ s \in spans /\ r.key.channel \in Int /\ s.key.channel \in Int
      /\ t.key.channel \in Int
      /\ s.key.side \in {"producer", "consumer"} /\ t.key.side \in {"producer", "consumer"}
  <2>1. s \in spans BY DEF Beyond
  <2> QED BY <2>1, SpanTypes
<1>2. t.cause = s.key BY SpanTypes
<1>3. s.key # Nothing BY <1>1, SpanTypes
<1>4. CASE t.key.side = "consumer"
  <2>1. s.key.side = "producer" /\ s.key.channel = t.key.channel
    <3>1. t.cause = [channel |-> t.key.channel, side |-> "producer", n |-> t.key.n, copy |-> 1]
      BY <1>4 DEF TraceInv, Shaped
    <3> QED BY <1>2, <3>1
  <2>2. s # r BY <2>1
  <2>3. s.cause = r.key \/ s.key.channel > r.key.channel + 1 BY <2>1, <2>2 DEF Beyond
  <2>4. CASE s.cause = r.key
    <3>1. s.cause # Nothing BY <2>4, SpanTypes
    <3>2. s.cause.channel = s.key.channel - 1
      BY <1>1, <2>1, <3>1 DEF TraceInv, Shaped
    <3> QED BY <1>1, <1>4, <2>1, <2>4, <3>2 DEF Beyond
  <2>5. CASE s.key.channel > r.key.channel + 1 BY <1>1, <1>4, <2>1, <2>5 DEF Beyond
  <2> QED BY <2>3, <2>4, <2>5
<1>5. CASE t.key.side = "producer"
  <2>1. s.key.side = "consumer" /\ s.key.channel = t.key.channel - 1
    BY <1>2, <1>3, <1>5 DEF TraceInv, Shaped
  <2>2. CASE s = r BY <1>2, <1>5, <2>2 DEF Beyond
  <2>3. CASE s # r
    <3>1. s.key.channel > r.key.channel BY <2>1, <2>3 DEF Beyond
    <3> QED BY <1>1, <1>5, <2>1, <3>1 DEF Beyond
  <2> QED BY <2>2, <2>3
<1> QED BY <1>1, <1>4, <1>5

\* A send found behind receipt `r` on the next channel was caused by it.
LEMMA DescendantsAreBeyond ==
  ASSUME TraceInv, NEW S \in SUBSET spans, NEW r \in S,
         r.key.side = "consumer"
  PROVE  Descendants(S, r) \subseteq Beyond(r)
<1>1. PICK w : Within(S, r, w) BY DescendantsAre
<1>2. ASSUME NEW W \in SUBSET S, W \subseteq Beyond(r)
      PROVE  Widened(S, W) \subseteq Beyond(r)
  BY <1>2, FollowersAreBeyond DEF Widened, Follows
<1> DEFINE N == {n \in Nat : ~(w[n] \subseteq Beyond(r))}
<1>3. N = {}
  <2> SUFFICES ASSUME N # {} PROVE FALSE OBVIOUS
  <2>1. PICK n \in N : \A m \in N : n <= m
    <3>1. N \in SUBSET Nat OBVIOUS
    <3> HIDE DEF N
    <3> QED BY <3>1, Smallest
  <2>2. n # 0
    <3>1. w[0] \subseteq Beyond(r) BY <1>1 DEF Within, Beyond
    <3> QED BY <3>1
  <2>3. n - 1 \in Nat /\ (n - 1) + 1 = n /\ n - 1 \notin N BY <2>1, <2>2
  <2>4. w[n - 1] \subseteq Beyond(r) BY <2>3
  <2>5. w[n] = Widened(S, w[n - 1]) BY <1>1, <2>3 DEF Within
  <2> QED BY <1>1, <1>2, <2>3, <2>4, <2>5 DEF Within
<1>4. IsFiniteSet(S) BY FS_Subset DEF TraceInv
<1>5. Cardinality(S) \in Nat BY <1>4, FS_CardinalityType
<1> QED BY <1>1, <1>3, <1>5 DEF Within

\* So a send found on the next channel was caused by the receipt itself.
LEMMA NextSendIsCaused ==
  ASSUME TraceInv, NEW S \in SUBSET spans, NEW r \in S,
         r.key.side = "consumer", NEW p \in Descendants(S, r),
         p.key.side = "producer", p.key.channel = r.key.channel + 1
  PROVE  p.cause = r.key
<1>1. p \in Beyond(r) BY DescendantsAreBeyond
<1>2. r.key.channel \in Int BY SpanTypes
<1> QED BY <1>1, <1>2 DEF Beyond

\* What the search visits has come along the chain: by the least channel at
\* which it would visit another receipt.
LEMMA VisitedHaveArrived ==
  ASSUME TraceInv, NEW S \in SUBSET spans,
         \A c \in 1..Channels : \A pair \in Pairs(S, c) : Related(pair[1], pair[2])
  PROVE  \A c \in 1..Channels : Visited(S)[c] \subseteq Arrived[c]
<1> DEFINE N == {c \in 1..Channels : ~(Visited(S)[c] \subseteq Arrived[c])}
<1> SUFFICES ASSUME N # {} PROVE FALSE OBVIOUS
<1>1. PICK c \in N : \A m \in N : c <= m
  <2>1. N \in SUBSET Nat OBVIOUS
  <2> HIDE DEF N
  <2> QED BY <2>1, Smallest
<1>2. c \in 1..Channels /\ c - 1 \in Nat /\ (c - 1) + 1 = c OBVIOUS
<1> DEFINE V == Visited(S)[c - 1]
<1>3. Visited(S)[c] = Onward(S, c, V) BY <1>2, VisitedIs
<1>4. Arrived[c] = Delivered(c, Arrived[c - 1]) BY <1>2, ArrivedIs
<1>5. ASSUME NEW q \in Visited(S)[c] PROVE q \in Arrived[c]
  <2>1. PICK r \in V : \E pair \in Candidates(S, c, r) : q = pair[2]
    BY <1>3, <1>5 DEF Onward
  <2>2. PICK pair \in Candidates(S, c, r) : q = pair[2] BY <2>1
  <2>3. pair \in Pairs(S, c) BY <2>2 DEF Candidates
  <2> DEFINE p == pair[1]
  <2>4. p \in Of(spans, c, "producer") /\ q \in Of(spans, c, "consumer")
    BY <2>2, <2>3 DEF Pairs, Of
  <2>5. q.cause = p.key
    <3>1. p.key \in q.refs BY <1>2, <2>2, <2>3 DEF Related
    <3>2. q.refs \subseteq {q.cause} BY <2>4 DEF Of, TraceInv, Shaped
    <3> QED BY <3>1, <3>2
  <2>6. CASE c = 1 BY <1>4, <2>4, <2>5, <2>6 DEF Delivered
  <2>7. CASE c # 1
    <3>1. c - 1 \in 1..Channels /\ c - 1 \notin N
      <4>1. c - 1 \in 1..Channels BY <1>2, <2>7, ChainAssumption
      <4>2. ~(c <= c - 1) BY <1>2
      <4> QED BY <1>1, <4>1, <4>2
    <3>2. r \in Arrived[c - 1] BY <2>1, <3>1
    <3>3. r \in Of(spans, c - 1, "consumer")
      <4>1. Arrived[(c - 1 - 1) + 1] = Delivered((c - 1 - 1) + 1, Arrived[c - 1 - 1])
        <5>1. c - 1 - 1 \in Nat BY <3>1
        <5> QED BY <5>1, ArrivedIs
      <4>2. (c - 1 - 1) + 1 = c - 1 BY <1>2
      <4> QED BY <3>2, <4>1, <4>2 DEF Delivered
    <3>4. r # Nothing BY <3>3, ChainAssumption DEF Of, TraceInv, Shaped
    <3>5. p \in Descendants(S, r) BY <2>2, <3>4 DEF Candidates
    <3>6. r \in S
      <4>1. c - 1 - 1 \in Nat /\ (c - 1 - 1) + 1 = c - 1 BY <3>1
      <4>2. V = Onward(S, c - 1, Visited(S)[c - 1 - 1]) BY <4>1, VisitedIs
      <4> QED BY <2>1, <4>2 DEF Onward, Candidates, Pairs, Of
    <3>7. r.key.side = "consumer" /\ r.key.channel = c - 1 BY <3>3 DEF Of
    <3>8. p.key.side = "producer" /\ p.key.channel = r.key.channel + 1
      BY <1>2, <2>4, <3>7 DEF Of
    <3>9. p.cause = r.key
      <4> HIDE DEF p
      <4> QED BY <3>5, <3>6, <3>7, <3>8, NextSendIsCaused
    <3> HIDE DEF p
    <3> QED BY <1>4, <2>4, <2>5, <3>2, <3>9 DEF Delivered
  <2> QED BY <2>6, <2>7
<1> QED BY <1>5

\* The last channel from which the search goes on is Channels just when a path was found.
LEMMA PathIsFound ==
  ASSUME NEW S
  PROVE  PathViolation(S) = "none" <=> Visited(S)[Channels] # {}
<1> DEFINE C == {c \in 0..Channels : Visited(S)[c] # {}}
           deepest == Latest(C)
<1>1. Channels \in Nat /\ 0..Channels \in SUBSET Nat BY ChainAssumption
<1>2. Visited(S)[0] = {Nothing} BY VisitedIs
<1>3. 0 \in C BY <1>1, <1>2
<1>4. \E x \in C : \A y \in C : y <= x
  <2>1. C \in SUBSET (0..Channels) OBVIOUS
  <2> HIDE DEF C
  <2> QED BY <1>1, <1>3, <2>1, Largest
<1>5. deepest \in C /\ \A y \in C : y <= deepest
  <2> HIDE DEF C
  <2> QED BY <1>4 DEF Latest
<1>6. deepest = Channels <=> Visited(S)[Channels] # {}
  <2>1. ASSUME Visited(S)[Channels] # {} PROVE deepest = Channels
    <3>1. Channels \in C BY <1>1, <2>1
    <3>2. Channels <= deepest BY <1>5, <3>1
    <3>3. deepest \in 0..Channels BY <1>5
    <3> QED BY <1>1, <3>2, <3>3
  <2>2. ASSUME deepest = Channels PROVE Visited(S)[Channels] # {}
    <3> HIDE DEF deepest
    <3> QED BY <1>5, <2>2
  <2> QED BY <2>1, <2>2
<1>7. PathViolation(S) = "none" <=> deepest = Channels BY DEF PathViolation
<1> QED BY <1>6, <1>7

\* The verdict of evaluate_causal_chain, as its parts.
LEMMA PassedMeans ==
  ASSUME NEW S
  PROVE  Chain(S) = "passed" <=> /\ \A c \in 1..Channels : ChannelViolation(S, c) = "none"
                                 /\ PathViolation(S) = "none"
BY DEF Chain

\* A chain that passed has one message's way behind it.
LEMMA PassedIsCaused ==
  ASSUME TraceInv, Chain(Exported) = "passed"
  PROVE  Arrived[Channels] # {}
<1>1. Exported \in SUBSET spans BY DEF Exported
<1>2. \A c \in 1..Channels : ChannelViolation(Exported, c) = "none" BY PassedMeans
<1>3. \A c \in 1..Channels : \A pair \in Pairs(Exported, c) : Related(pair[1], pair[2])
  BY <1>2 DEF ChannelViolation
<1>4. Visited(Exported)[Channels] # {} BY PassedMeans, PathIsFound
<1>5. Channels \in 1..Channels BY ChainAssumption
<1>6. Visited(Exported)[Channels] \subseteq Arrived[Channels]
  BY <1>1, <1>3, <1>5, VisitedHaveArrived
<1> QED BY <1>4, <1>6

\* What arrives at the end of channel c, with the send that caused it.
LEMMA ArrivedAre ==
  ASSUME NEW c \in Nat \ {0}
  PROVE  Arrived[c] = Delivered(c, Arrived[c - 1])
<1>1. c - 1 \in Nat /\ (c - 1) + 1 = c OBVIOUS
<1> QED BY <1>1, ArrivedIs

\* A message that came through all channels came through each.
LEMMA ArrivedAllAlong ==
  ASSUME Arrived[Channels] # {}
  PROVE  \A c \in 1..Channels : Arrived[c] # {}
<1> DEFINE N == {n \in Nat : n < Channels /\ Arrived[Channels - n] = {}}
<1>1. Channels \in Nat \ {0} BY ChainAssumption
<1>2. N = {}
  <2> SUFFICES ASSUME N # {} PROVE FALSE OBVIOUS
  <2>1. PICK n \in N : \A m \in N : n <= m
    <3>1. N \in SUBSET Nat OBVIOUS
    <3> HIDE DEF N
    <3> QED BY <3>1, Smallest
  <2>2. n # 0
    <3>1. Channels - 0 = Channels BY <1>1
    <3> QED BY <3>1
  <2>3. n - 1 \in Nat /\ n - 1 < Channels /\ n - 1 \notin N BY <1>1, <2>1, <2>2
  <2>4. Arrived[Channels - (n - 1)] # {} BY <2>3
  <2>5. Channels - (n - 1) \in Nat \ {0} /\ (Channels - (n - 1)) - 1 = Channels - n
        /\ Channels - (n - 1) # 1
    BY <1>1, <2>3
  <2>6. Arrived[Channels - (n - 1)] = Delivered(Channels - (n - 1), Arrived[Channels - n])
    BY <2>5, ArrivedAre
  <2>7. Arrived[Channels - n] # {} BY <2>4, <2>5, <2>6 DEF Delivered
  <2> QED BY <2>7
<1>3. ASSUME NEW c \in 1..Channels PROVE Arrived[c] # {}
  <2>1. Channels - c \in Nat /\ Channels - c < Channels /\ Channels - (Channels - c) = c
    BY <1>1
  <2> QED BY <1>2, <2>1
<1> QED BY <1>3

\* A span that names its cause, and does not start before it, is found behind it.
LEMMA CausedAreDescendants ==
  ASSUME TraceInv, NEW S \in SUBSET spans, NEW r \in S, NEW p \in S,
         r.key \in p.refs, r.at <= p.at
  PROVE  p \in Descendants(S, r)
<1>1. PICK w : Within(S, r, w) BY DescendantsAre
<1>2. IsFiniteSet(S) BY FS_Subset DEF TraceInv
<1>3. Cardinality(S) \in Nat \ {0} BY <1>2, FS_CardinalityType, FS_EmptySet
<1> DEFINE N == {n \in Nat : n # 0 /\ p \notin w[n]}
<1>4. N = {}
  <2> SUFFICES ASSUME N # {} PROVE FALSE OBVIOUS
  <2>1. PICK n \in N : \A m \in N : n <= m
    <3>1. N \in SUBSET Nat OBVIOUS
    <3> HIDE DEF N
    <3> QED BY <3>1, Smallest
  <2>2. n - 1 \in Nat /\ (n - 1) + 1 = n /\ n - 1 \notin N BY <2>1
  <2>3. w[n] = Widened(S, w[n - 1]) BY <1>1, <2>2 DEF Within
  <2>4. CASE n - 1 = 0
    <3>1. w[n - 1] = {r} BY <1>1, <2>4 DEF Within
    <3>2. p \in Follows(S, r) BY DEF Follows
    <3> QED BY <2>3, <3>1, <3>2 DEF Widened
  <2>5. CASE n - 1 # 0
    <3>1. p \in w[n - 1] BY <2>2, <2>5
    <3> QED BY <2>3, <3>1 DEF Widened
  <2> QED BY <2>4, <2>5
<1> QED BY <1>1, <1>3, <1>4 DEF Within

\* Records that are whole, on clocks that contradict no cause.
Consistent ==
  /\ spanFaults = 0
  /\ \A s \in spans : \A t \in Caused(s) : s.at <= t.at

\* Then a delivery is a pair under its message ID, and below, a pair a delivery.
LEMMA DeliveredIsPaired ==
  ASSUME TraceInv, Consistent, NEW c,
         NEW p \in Of(spans, c, "producer"), NEW q \in Of(spans, c, "consumer"),
         q.cause = p.key
  PROVE  <<p, q>> \in Pairs(spans, c)
<1>1. p \in spans /\ q \in spans /\ q.key.side = "consumer" BY DEF Of
<1>2. p.id = p.key.n /\ q.id = q.key.n BY <1>1 DEF TraceInv, Whole, Consistent
<1>3. q.cause.n = q.key.n
  <2>1. q.cause = [channel |-> q.key.channel, side |-> "producer", n |-> q.key.n, copy |-> 1]
    BY <1>1 DEF TraceInv, Shaped
  <2> QED BY <2>1
<1>4. p.key.n \in Nat BY <1>1, SpanTypes
<1>5. p.id # Nothing BY <1>2, <1>4, ChainAssumption
<1> QED BY <1>2, <1>3, <1>5 DEF Pairs

\* And a pair is a delivery, which its receipt relates to its send.
LEMMA PairsAreCaused ==
  ASSUME TraceInv, Consistent, NEW c, NEW pair \in Pairs(spans, c)
  PROVE  Related(pair[1], pair[2]) /\ pair[1].at <= pair[2].at
<1> DEFINE p == pair[1]
           q == pair[2]
<1>1. /\ p \in spans /\ p.key.side = "producer" /\ p.key.channel = c
      /\ q \in spans /\ q.key.side = "consumer" /\ q.key.channel = c
      /\ p.id = q.id
  BY DEF Pairs, Of
<1> HIDE DEF p, q
<1>2. p.key.n = q.key.n BY <1>1 DEF TraceInv, Whole, Consistent
<1>3. q.cause = [channel |-> c, side |-> "producer", n |-> q.key.n, copy |-> 1]
  BY <1>1 DEF TraceInv, Shaped
<1>4. p.key = [channel |-> c, side |-> "producer", n |-> p.key.n, copy |-> 1]
  <2>1. p.key \in Keys /\ p.key.copy = 1 BY <1>1 DEF TraceInv, Shaped, Spans
  <2> QED BY <1>1, <2>1 DEF Keys
<1>5. q.cause = p.key BY <1>2, <1>3, <1>4
<1>6. p.key \in q.refs
  <2>1. q.refs = {q.cause} \ {Nothing} BY <1>1 DEF TraceInv, Whole, Consistent
  <2>2. p.key # Nothing BY <1>1, SpanTypes
  <2> QED BY <1>5, <2>1, <2>2
<1>7. p.at <= q.at BY <1>1, <1>5 DEF Consistent, Caused
<1> QED BY <1>6, <1>7 DEF Related, p, q

\* The search visits all that has come along the chain.
LEMMA ArrivedAreVisited ==
  ASSUME TraceInv, Consistent
  PROVE  \A c \in 1..Channels : Arrived[c] \subseteq Visited(spans)[c]
<1> DEFINE N == {c \in 1..Channels : ~(Arrived[c] \subseteq Visited(spans)[c])}
<1> SUFFICES ASSUME N # {} PROVE FALSE OBVIOUS
<1>1. PICK c \in N : \A m \in N : c <= m
  <2>1. N \in SUBSET Nat OBVIOUS
  <2> HIDE DEF N
  <2> QED BY <2>1, Smallest
<1>2. c \in 1..Channels /\ c \in Nat \ {0} /\ c - 1 \in Nat /\ (c - 1) + 1 = c OBVIOUS
<1> DEFINE V == Visited(spans)[c - 1]
<1>3. Visited(spans)[c] = Onward(spans, c, V) BY <1>2, VisitedIs
<1>4. Arrived[c] = Delivered(c, Arrived[c - 1]) BY <1>2, ArrivedAre
<1>5. ASSUME NEW q \in Arrived[c] PROVE q \in Visited(spans)[c]
  <2>1. PICK p \in Of(spans, c, "producer") :
          q.cause = p.key /\ (c = 1 \/ \E r \in Arrived[c - 1] : p.cause = r.key)
    BY <1>4, <1>5 DEF Delivered
  <2>2. q \in Of(spans, c, "consumer") BY <1>4, <1>5 DEF Delivered
  <2>3. <<p, q>> \in Pairs(spans, c) BY <2>1, <2>2, DeliveredIsPaired
  <2>4. <<p, q>>[1] = p /\ <<p, q>>[2] = q OBVIOUS
  <2>5. PICK r \in V : <<p, q>> \in Candidates(spans, c, r)
    <3>1. CASE c = 1
      <4>1. V = {Nothing}
        <5>1. c - 1 = 0 BY <3>1
        <5> QED BY <5>1, VisitedIs
      <4> QED BY <2>3, <4>1 DEF Candidates
    <3>2. CASE c # 1
      <4>1. PICK r \in Arrived[c - 1] : p.cause = r.key BY <2>1, <3>2
      <4>2. c - 1 \in 1..Channels /\ c - 1 \notin N /\ c - 1 \in Nat \ {0}
        <5>1. c - 1 \in 1..Channels /\ c - 1 \in Nat \ {0}
          BY <1>2, <3>2, ChainAssumption
        <5>2. ~(c <= c - 1) BY <1>2
        <5> QED BY <1>1, <5>1, <5>2
      <4>3. r \in V BY <4>1, <4>2
      <4>4. r \in spans
        <5>1. Arrived[c - 1] = Delivered(c - 1, Arrived[(c - 1) - 1]) BY <4>2, ArrivedAre
        <5> QED BY <4>1, <5>1 DEF Delivered, Of
      <4>5. r.key # Nothing /\ r # Nothing BY <4>4, SpanTypes
      <4>6. p \in spans BY DEF Of
      <4>7. r.key \in p.refs
        <5>1. p.refs = {p.cause} \ {Nothing} BY <4>6 DEF TraceInv, Whole, Consistent
        <5> QED BY <4>1, <4>5, <5>1
      <4>8. r.at <= p.at BY <4>1, <4>4, <4>6 DEF Consistent, Caused
      <4>9. p \in Descendants(spans, r) BY <4>4, <4>6, <4>7, <4>8, CausedAreDescendants
      <4>10. r.at \in Int /\ p.at \in Int BY <4>4, <4>6, SpanTypes
      <4>11. p.at >= r.at BY <4>8, <4>10
      <4>12. <<p, q>> \in Candidates(spans, c, r)
        BY <2>3, <2>4, <4>5, <4>9, <4>11 DEF Candidates
      <4> QED BY <4>3, <4>12
    <3> QED BY <3>1, <3>2
  <2>6. <<p, q>>[2] \in Onward(spans, c, V) BY <2>5 DEF Onward
  <2> QED BY <1>3, <2>4, <2>6
<1> QED BY <1>5

\* Every domain has a span, and none is repeated.
LEMMA WholeRecordsLoad ==
  ASSUME TraceInv, Consistent, Arrived[Channels] # {}
  PROVE  Exported = spans /\ Loads
<1>1. misexported = {} BY DEF TraceInv, Consistent
<1>2. Exported = spans BY <1>1 DEF Exported
<1>3. \A c \in 1..Channels : Arrived[c] # {} BY ArrivedAllAlong
<1>4. Channels \in Nat \ {0} BY ChainAssumption
<1>5. ASSUME NEW d \in 0..Channels
      PROVE  \E s \in spans :
               d = IF s.key.side = "consumer" THEN s.key.channel ELSE s.key.channel - 1
  <2>1. CASE d = 0
    <3>1. 1 \in 1..Channels /\ 1 \in Nat \ {0} BY <1>4
    <3>2. PICK p \in Of(spans, 1, "producer") : TRUE
      <4>1. Arrived[1] = Delivered(1, Arrived[1 - 1]) BY <3>1, ArrivedAre
      <4> QED BY <1>3, <3>1, <4>1 DEF Delivered
    <3>3. p \in spans /\ p.key.side # "consumer" /\ p.key.channel = 1 BY DEF Of
    <3> QED BY <2>1, <3>3
  <2>2. CASE d # 0
    <3>1. d \in 1..Channels /\ d \in Nat \ {0} BY <1>4, <2>2
    <3>2. PICK q \in Of(spans, d, "consumer") : TRUE
      <4>1. Arrived[d] = Delivered(d, Arrived[d - 1]) BY <3>1, ArrivedAre
      <4> QED BY <1>3, <3>1, <4>1 DEF Delivered
    <3>3. q \in spans /\ q.key.side = "consumer" /\ q.key.channel = d BY DEF Of
    <3> QED BY <3>3
  <2> QED BY <2>1, <2>2
<1> QED BY <1>1, <1>2, <1>5 DEF Loads

\* So the search finds the way of a message if there is one.
LEMMA CausedIsPassed ==
  ASSUME TraceInv, Consistent, Arrived[Channels] # {}
  PROVE  Loads /\ Chain(Exported) = "passed"
<1>1. Exported = spans /\ Loads BY WholeRecordsLoad
<1>2. \A c \in 1..Channels : Arrived[c] # {} BY ArrivedAllAlong
<1>3. Channels \in Nat \ {0} BY ChainAssumption
<1>4. ASSUME NEW c \in 1..Channels PROVE ChannelViolation(spans, c) = "none"
  <2>1. c \in Nat \ {0} BY <1>3
  <2>2. Arrived[c] = Delivered(c, Arrived[c - 1]) BY <2>1, ArrivedAre
  <2>3. PICK q \in Of(spans, c, "consumer") :
          \E p \in Of(spans, c, "producer") : q.cause = p.key
    BY <1>2, <2>2 DEF Delivered
  <2>4. PICK p \in Of(spans, c, "producer") : q.cause = p.key BY <2>3
  <2>5. <<p, q>> \in Pairs(spans, c) BY <2>4, DeliveredIsPaired
  <2>6. \A pair \in Pairs(spans, c) : Related(pair[1], pair[2]) BY PairsAreCaused
  <2>7. ASSUME NEW pair \in Pairs(spans, c) PROVE ~(pair[2].at < pair[1].at)
    <3>1. pair[1].at <= pair[2].at BY PairsAreCaused
    <3>2. pair[1] \in spans /\ pair[2] \in spans BY DEF Pairs, Of
    <3>3. pair[1].at \in Int /\ pair[2].at \in Int BY <3>2, SpanTypes
    <3> QED BY <3>1, <3>3
  <2>8. ~\E side \in {"producer", "consumer"} : Of(spans, c, side) = {}
    BY <2>3, <2>4
  <2> QED BY <2>5, <2>6, <2>7, <2>8 DEF ChannelViolation
<1>5. Channels \in 1..Channels BY <1>3
<1>6. Visited(spans)[Channels] # {} BY <1>5, ArrivedAreVisited
<1>7. PathViolation(spans) = "none" BY <1>6, PathIsFound
<1>8. Chain(spans) = "passed" BY <1>4, <1>7, PassedMeans
<1> QED BY <1>1, <1>8

\* For any number of channels and messages and for any skews, a chain that
\* evaluate_causal_chain passed is the way of one message through all channels,
\* and with whole records and clocks that contradict no cause the search finds
\* such a way if there is one (traces.py 473-541).
THEOREM ChainsAreCaused == TraceSpec => []ChainIsCaused
<1>1. ASSUME TraceInv PROVE ChainIsCaused
  <2>1. Loads /\ Chain(Exported) = "passed" => Arrived[Channels] # {}
    BY <1>1, PassedIsCaused
  <2>2. ASSUME spanFaults = 0, \A s \in spans : \A t \in Caused(s) : s.at <= t.at
        PROVE  (Loads /\ Chain(Exported) = "passed") = (Arrived[Channels] # {})
    <3>1. Consistent BY <2>2 DEF Consistent
    <3>2. Arrived[Channels] # {} => Loads /\ Chain(Exported) = "passed"
      BY <1>1, <3>1, CausedIsPassed
    <3> QED BY <2>1, <3>2
  <2> QED BY <2>1, <2>2 DEF ChainIsCaused
<1> QED BY <1>1, TraceInvariance, PTL
-----------------------------------------------------------------------------
(***************************************************************************)
(* Traces: deliveries over one channel.                                    *)
(***************************************************************************)

\* How far the clock that records a span is off.
Offset(c, side) == IF side = "consumer" THEN skew[c] ELSE IF c = 1 THEN 0 ELSE skew[c - 1]

\* No two spans have one key: sends are numbered, and copies of a receipt counted.
KeyInv ==
  /\ \A s, t \in spans : s.key = t.key => s = t
  /\ \A s \in spans : s.key.side = "producer" =>
       s.key.n <= Cardinality(Numbers(s.key.channel))
  /\ \A s \in spans : s.key.side = "consumer" =>
       /\ s.key.copy \in {1, 2}
       /\ s.key.copy = 2 => \E t \in spans :
            /\ t.key.channel = s.key.channel /\ t.key.side = "consumer"
            /\ t.key.n = s.key.n /\ t.key.copy = 1

\* A receipt has a send, and its ID if any; each span the instant of its clock.
OriginInv ==
  /\ \A q \in spans : q.key.side = "consumer" =>
       \E p \in spans : p.key = q.cause /\ q.id \in {p.id, Nothing}
  /\ \A s \in spans : s.at = s.real + Offset(s.key.channel, s.key.side)

\* What a step records of a send on channel c, and of a receipt of message p.
Sent(c, r) ==
  /\ r.key = [channel |-> c, side |-> "producer", n |-> 1 + Cardinality(Numbers(c)), copy |-> 1]
  /\ r.at = Clock(c, "producer") /\ r.real = tick
  /\ spans' = spans \cup {r}

Receives(p, r) ==
  /\ p.key.side = "producer"
  /\ r.key = [channel |-> p.key.channel, side |-> "consumer", n |-> p.key.n,
              copy |-> 1 + Cardinality(Receipts(p))]
  /\ 1 + Cardinality(Receipts(p)) \in {1, 2}
  /\ r.cause = p.key /\ r.id \in {p.id, Nothing}
  /\ r.at = Clock(p.key.channel, "consumer") /\ r.real = tick
  /\ spans' = spans \cup {r}

\* A step records nothing, or one of the two.
LEMMA StepRecords ==
  ASSUME TraceInv, [TraceNext]_traceVars
  PROVE  /\ skew' = skew
         /\ \/ spans' = spans
            \/ \E c \in 1..Channels : \E r : Sent(c, r)
            \/ \E p \in spans : \E r : Receives(p, r)
<1> DEFINE Goal == \/ spans' = spans
                   \/ \E c \in 1..Channels : \E r : Sent(c, r)
                   \/ \E p \in spans : \E r : Receives(p, r)
<1>1. skew' = skew BY DEF TraceNext, Tick, Send, Receive, SpanFault, traceVars
<1>2. ASSUME NEW c \in 1..Channels, NEW id, NEW refs, NEW cause,
             Record(c, "producer", 1 + Cardinality(Numbers(c)), 1, id, refs, cause)
      PROVE  Goal
  <2> DEFINE r == [key |-> [channel |-> c, side |-> "producer",
                            n |-> 1 + Cardinality(Numbers(c)), copy |-> 1],
                   id |-> id, at |-> Clock(c, "producer"), refs |-> refs,
                   real |-> tick, cause |-> cause]
  <2>1. spans' = spans \cup {r} BY <1>2 DEF Record
  <2>2. Sent(c, r) BY <2>1 DEF Sent
  <2> QED BY <2>2
<1>3. ASSUME NEW p \in spans, p.key.side = "producer", NEW id \in {p.id, Nothing}, NEW refs,
             NEW copy, copy = 1 + Cardinality(Receipts(p)), copy \in {1, 2},
             Record(p.key.channel, "consumer", p.key.n, copy, id, refs, p.key)
      PROVE  Goal
  <2> DEFINE r == [key |-> [channel |-> p.key.channel, side |-> "consumer",
                            n |-> p.key.n, copy |-> copy],
                   id |-> id, at |-> Clock(p.key.channel, "consumer"), refs |-> refs,
                   real |-> tick, cause |-> p.key]
  <2>1. spans' = spans \cup {r} BY <1>3 DEF Record
  <2>2. Receives(p, r) BY <1>3, <2>1 DEF Receives
  <2> QED BY <2>2
<1> HIDE DEF Goal
<1>4. ASSUME NEW c \in 1..Channels, Send(c) PROVE Goal
  BY <1>2, <1>4 DEF Send
<1>5. ASSUME NEW p \in spans, Receive(p) PROVE Goal
  <2>1. 1 = 1 + Cardinality(Receipts(p)) BY <1>5, FS_EmptySet DEF Receive
  <2> QED BY <1>3, <1>5, <2>1 DEF Receive
<1>6. ASSUME SpanFault PROVE Goal
  <2>1. CASE \E p \in spans :
          /\ p.key.side = "producer"
          /\ LET copy == 1 + Cardinality(Receipts(p))
             IN \/ copy = 2 /\ Record(p.key.channel, "consumer", p.key.n, copy, p.id,
                                      {p.key}, p.key)
                \/ \E id \in {p.id, Nothing} : copy = 1 /\
                     Record(p.key.channel, "consumer", p.key.n, copy, id,
                            IF id = Nothing THEN {p.key} ELSE {}, p.key)
          /\ UNCHANGED misexported
    <3>1. PICK p \in spans :
          /\ p.key.side = "producer"
          /\ LET copy == 1 + Cardinality(Receipts(p))
             IN \/ copy = 2 /\ Record(p.key.channel, "consumer", p.key.n, copy, p.id,
                                      {p.key}, p.key)
                \/ \E id \in {p.id, Nothing} : copy = 1 /\
                     Record(p.key.channel, "consumer", p.key.n, copy, id,
                            IF id = Nothing THEN {p.key} ELSE {}, p.key)
      BY <2>1
    <3> DEFINE copy == 1 + Cardinality(Receipts(p))
               Fault(id, refs) ==
                 Record(p.key.channel, "consumer", p.key.n, copy, id, refs, p.key)
    <3>2. copy \in {1, 2} /\ \E id \in {p.id, Nothing} : \E refs : Fault(id, refs)
      <4>1. \/ copy = 2 /\ Fault(p.id, {p.key})
            \/ \E id \in {p.id, Nothing} :
                 copy = 1 /\ Fault(id, IF id = Nothing THEN {p.key} ELSE {})
        BY <3>1
      <4> HIDE DEF Fault, copy
      <4> QED BY <4>1
    <3>3. PICK id \in {p.id, Nothing} : \E refs : Fault(id, refs) BY <3>2
    <3>4. PICK refs : Fault(id, refs) BY <3>3
    <3> QED BY <1>3, <3>1, <3>2, <3>4
  <2>2. ASSUME NEW c \in 1..Channels,
               Record(c, "producer", 1 + Cardinality(Numbers(c)), 1, 1, {}, Nothing)
        PROVE  Goal
    BY <1>2, <2>2
  <2>3. CASE UNCHANGED spans BY <2>3 DEF Goal
  <2> QED BY <1>6, <2>1, <2>2, <2>3 DEF SpanFault
<1>7. Tick => Goal BY DEF Tick, Goal
<1>8. UNCHANGED traceVars => Goal BY DEF traceVars, Goal
<1>9. Goal BY <1>4, <1>5, <1>6, <1>7, <1>8 DEF TraceNext
<1> QED BY <1>1, <1>9 DEF Goal

\* Sends keep the numbering of keys, and receipts do.
LEMMA SendKeepsKeys ==
  ASSUME TraceInv, KeyInv, NEW c \in 1..Channels, NEW r, Sent(c, r)
  PROVE  KeyInv'
<1> DEFINE n == 1 + Cardinality(Numbers(c))
<1>1. /\ r.key.channel = c /\ r.key.side = "producer" /\ r.key.n = n /\ r.key.copy = 1
      /\ spans' = spans \cup {r}
  BY DEF Sent
<1>2. \A s \in spans : s.key.side = "producer" /\ s.key.channel = c => s.key.n < n
  <2> SUFFICES ASSUME NEW s \in spans, s.key.side = "producer", s.key.channel = c
               PROVE  s.key.n < n
    OBVIOUS
  <2>1. s.key.n \in Nat BY SpanTypes
  <2>2. Cardinality(Numbers(c)) \in Nat BY NumbersAreNatural
  <2>3. s.key.n <= Cardinality(Numbers(c)) BY DEF KeyInv
  <2> QED BY <2>1, <2>2, <2>3
<1>3. n \in Nat BY NumbersAreNatural
<1>4. \A s \in spans : s.key # r.key
  <2> SUFFICES ASSUME NEW s \in spans, s.key = r.key PROVE FALSE OBVIOUS
  <2>1. s.key.side = "producer" /\ s.key.channel = c /\ s.key.n = n BY <1>1
  <2> HIDE DEF n
  <2>2. n < n BY <1>2, <2>1
  <2> QED BY <1>3, <2>2
<1>5. Numbers(c)' = Numbers(c) \cup {n} BY <1>1 DEF Numbers, Of
<1>6. IsFiniteSet(Numbers(c)) /\ n \notin Numbers(c)
  <2>1. n \notin Numbers(c)
    <3> SUFFICES ASSUME n \in Numbers(c) PROVE FALSE OBVIOUS
    <3> HIDE DEF n
    <3>1. PICK s \in Of(spans, c, "producer") : n = s.key.n BY DEF Numbers
    <3>2. n < n BY <1>2, <3>1 DEF Of
    <3> QED BY <1>3, <3>2
  <2>2. IsFiniteSet(Numbers(c)) BY NumbersAreNatural
  <2> QED BY <2>1, <2>2
<1>7. Cardinality(Numbers(c)') = n /\ Cardinality(Numbers(c)) \in Nat
  <2>1. Cardinality(Numbers(c) \cup {n}) = Cardinality(Numbers(c)) + 1
    <3> HIDE DEF n
    <3> QED BY <1>6, FS_AddElement
  <2>2. Cardinality(Numbers(c)) \in Nat BY NumbersAreNatural
  <2> QED BY <1>5, <2>1, <2>2
<1>8. \A d : d # c => Numbers(d)' = Numbers(d) BY <1>1 DEF Numbers, Of
<1> HIDE DEF n
<1>9. ASSUME NEW s \in spans', s.key.side = "producer"
      PROVE  s.key.n <= Cardinality(Numbers(s.key.channel)')
  <2>1. CASE s = r BY <1>1, <1>3, <1>7, <2>1
  <2>2. CASE s \in spans /\ s.key.channel = c
    <3>1. s.key.n < n /\ s.key.n \in Nat BY <1>2, <1>9, <2>2, SpanTypes
    <3> QED BY <1>3, <1>7, <2>2, <3>1
  <2>3. CASE s \in spans /\ s.key.channel # c
    <3>1. Numbers(s.key.channel)' = Numbers(s.key.channel) BY <1>8, <2>3
    <3>2. s.key.n <= Cardinality(Numbers(s.key.channel)) BY <1>9, <2>3 DEF KeyInv
    <3> QED BY <3>1, <3>2
  <2> QED BY <1>1, <2>1, <2>2, <2>3
<1>10. \A s, t \in spans' : s.key = t.key => s = t BY <1>1, <1>4 DEF KeyInv
<1>11. ASSUME NEW s \in spans', s.key.side = "consumer"
       PROVE  /\ s.key.copy \in {1, 2}
              /\ s.key.copy = 2 => \E t \in spans' :
                   /\ t.key.channel = s.key.channel /\ t.key.side = "consumer"
                   /\ t.key.n = s.key.n /\ t.key.copy = 1
  BY <1>1, <1>11 DEF KeyInv
<1> QED BY <1>9, <1>10, <1>11 DEF KeyInv

\* A step that adds at most one receipt keeps them, too.
LEMMA ReceiptKeepsKeys ==
  ASSUME TraceInv, KeyInv, NEW p \in spans, NEW r, Receives(p, r)
  PROVE  KeyInv'
<1> DEFINE n == Cardinality(Receipts(p))
<1>1. /\ r.key.channel = p.key.channel /\ r.key.side = "consumer" /\ r.key.n = p.key.n
      /\ r.key.copy = 1 + n /\ r.key.copy \in {1, 2}
      /\ spans' = spans \cup {r}
  BY DEF Receives
<1>2. IsFiniteSet(Receipts(p)) /\ n \in Nat BY ReceiptsAreNatural
<1>3. \A s \in spans : s \in Receipts(p) <=> /\ s.key.channel = p.key.channel
                                             /\ s.key.side = "consumer" /\ s.key.n = p.key.n
  BY DEF Receipts, Of
<1>4. n = 1 => \E t : Receipts(p) = {t} /\ t \in spans /\ t.key.copy = 1
  <2> SUFFICES ASSUME n = 1 PROVE \E t : Receipts(p) = {t} /\ t \in spans /\ t.key.copy = 1
    OBVIOUS
  <2>1. PICK t : Receipts(p) = {t} BY <1>2, FS_Singleton
  <2>2. t \in spans BY <2>1 DEF Receipts, Of
  <2>3. t.key.copy = 1
    <3> SUFFICES ASSUME t.key.copy # 1 PROVE FALSE OBVIOUS
    <3>1. /\ t.key.channel = p.key.channel /\ t.key.side = "consumer" /\ t.key.n = p.key.n
      BY <1>3, <2>1, <2>2
    <3>2. PICK u \in spans : /\ u.key.channel = t.key.channel /\ u.key.side = "consumer"
                             /\ u.key.n = t.key.n /\ u.key.copy = 1
      BY <2>2, <3>1 DEF KeyInv
    <3>3. u \in Receipts(p) BY <1>3, <3>1, <3>2
    <3> QED BY <2>1, <3>2, <3>3
  <2> QED BY <2>1, <2>2, <2>3
<1>5. n = 0 => Receipts(p) = {} BY <1>2, FS_EmptySet
<1> HIDE DEF n
<1>6. n \in {0, 1} BY <1>1, <1>2
<1>7. \A s \in spans : s.key # r.key
  <2> SUFFICES ASSUME NEW s \in spans, s.key = r.key PROVE FALSE OBVIOUS
  <2>1. s \in Receipts(p) BY <1>1, <1>3
  <2>2. n = 1 BY <1>5, <1>6, <2>1
  <2>3. s.key.copy = 1 BY <1>4, <2>1, <2>2
  <2> QED BY <1>1, <2>2, <2>3
<1>8. \A d : Numbers(d)' = Numbers(d) BY <1>1 DEF Numbers, Of
<1>9. \A s, t \in spans' : s.key = t.key => s = t BY <1>1, <1>7 DEF KeyInv
<1>10. ASSUME NEW s \in spans', s.key.side = "producer"
       PROVE  s.key.n <= Cardinality(Numbers(s.key.channel)')
  <2>1. s \in spans BY <1>1, <1>10
  <2> QED BY <1>8, <1>10, <2>1 DEF KeyInv
<1>11. ASSUME NEW s \in spans', s.key.side = "consumer"
       PROVE  /\ s.key.copy \in {1, 2}
              /\ s.key.copy = 2 => \E t \in spans' :
                   /\ t.key.channel = s.key.channel /\ t.key.side = "consumer"
                   /\ t.key.n = s.key.n /\ t.key.copy = 1
  <2>1. CASE s \in spans BY <1>1, <1>11, <2>1 DEF KeyInv
  <2>2. CASE s = r
    <3>1. s.key.copy \in {1, 2} BY <1>1, <2>2
    <3>2. ASSUME s.key.copy = 2
          PROVE  \E t \in spans' : /\ t.key.channel = s.key.channel /\ t.key.side = "consumer"
                                   /\ t.key.n = s.key.n /\ t.key.copy = 1
      <4>1. n = 1 BY <1>1, <1>6, <2>2, <3>2
      <4>2. PICK t \in spans : t \in Receipts(p) /\ t.key.copy = 1 BY <1>4, <4>1
      <4> QED BY <1>1, <1>3, <2>2, <4>2
    <3> QED BY <3>1, <3>2
  <2> QED BY <1>1, <2>1, <2>2
<1> QED BY <1>9, <1>10, <1>11 DEF KeyInv

\* Every span has its origin as long as clocks keep their skew.
LEMMA OriginKept ==
  ASSUME TraceInv, TraceInv', OriginInv, [TraceNext]_traceVars
  PROVE  OriginInv'
<1>1. skew' = skew BY StepRecords
<1>2. CASE spans' = spans BY <1>1, <1>2 DEF OriginInv, Offset
<1>3. ASSUME NEW c \in 1..Channels, NEW r, Sent(c, r) PROVE OriginInv'
  <2>1. r.key.channel = c /\ r.key.side = "producer" /\ spans' = spans \cup {r} BY <1>3 DEF Sent
  <2>2. r.at = r.real + Offset(c, "producer") BY <1>3 DEF Sent, Clock, Offset
  <2> QED BY <1>1, <2>1, <2>2 DEF OriginInv, Offset
<1>4. ASSUME NEW p \in spans, NEW r, Receives(p, r) PROVE OriginInv'
  <2>1. /\ r.key.channel = p.key.channel /\ r.key.side = "consumer"
        /\ spans' = spans \cup {r} /\ r.cause = p.key /\ r.id \in {p.id, Nothing}
    BY <1>4 DEF Receives
  <2>2. r.at = r.real + Offset(p.key.channel, "consumer")
    BY <1>4 DEF Receives, Clock, Offset
  <2>3. \A s \in spans' : s.at = s.real + Offset(s.key.channel, s.key.side)'
    BY <1>1, <2>1, <2>2 DEF OriginInv, Offset
  <2>4. \A q \in spans' : q.key.side = "consumer" =>
          \E o \in spans' : o.key = q.cause /\ q.id \in {o.id, Nothing}
    BY <2>1 DEF OriginInv
  <2> QED BY <2>3, <2>4 DEF OriginInv
<1> QED BY <1>2, <1>3, <1>4, StepRecords

\* Beside TraceInv, keys are unique and origins true.
LEMMA DeliveryInvariance == TraceSpec => [](TraceInv /\ KeyInv /\ OriginInv)
<1>1. TraceInit => TraceInv /\ KeyInv /\ OriginInv
  BY TraceInitHolds DEF TraceInit, KeyInv, OriginInv
<1>2. ASSUME TraceInv, KeyInv, OriginInv, [TraceNext]_traceVars
      PROVE  TraceInv' /\ KeyInv' /\ OriginInv'
  <2>1. TraceInv' BY <1>2, TraceStepKeeps
  <2>2. OriginInv' BY <1>2, <2>1, OriginKept
  <2>3. KeyInv'
    <3>1. CASE spans' = spans BY <1>2, <3>1 DEF KeyInv, Numbers, Of
    <3>2. ASSUME NEW c \in 1..Channels, NEW r, Sent(c, r) PROVE KeyInv'
      BY <1>2, <3>2, SendKeepsKeys
    <3>3. ASSUME NEW p \in spans, NEW r, Receives(p, r) PROVE KeyInv'
      BY <1>2, <3>3, ReceiptKeepsKeys
    <3> QED BY <1>2, <3>1, <3>2, <3>3, StepRecords
  <2> QED BY <2>1, <2>2, <2>3
<1> QED BY <1>1, <1>2, PTL DEF TraceSpec

\* Spans of one side of a channel with IDs of their own.
Named(G, c, side) == G \subseteq Of(spans, c, side) /\ \A s \in G : s.id # Nothing

\* What they consist of.
LEMMA NamedTypes ==
  ASSUME TraceInv, NEW c, NEW side, NEW G, Named(G, c, side), NEW s \in G
  PROVE  /\ s \in spans /\ s.key.channel = c /\ s.key.side = side
         /\ s.at \in Int /\ s.id \in Int /\ s.key.n \in Nat /\ s.key.copy \in Nat
         /\ s.real \in Nat
<1>1. s \in spans /\ s.key.channel = c /\ s.key.side = side /\ s.id # Nothing
  BY DEF Named, Of
<1>2. s \in Spans BY <1>1 DEF TraceInv, Shaped
<1>3. s.key \in Keys /\ s.at \in Int /\ s.id \in Int /\ s.real \in Nat
  BY <1>1, <1>2 DEF Spans
<1>4. s.key.n \in Nat /\ s.key.copy \in Nat BY <1>3 DEF Keys
<1> QED BY <1>1, <1>3, <1>4

\* They are in a total order.
LEMMA BeforeOrders ==
  ASSUME TraceInv, KeyInv, NEW c, NEW side, NEW G, Named(G, c, side)
  PROVE  /\ \A s \in G : ~Before(s, s)
         /\ \A s, t \in G : s # t => Before(s, t) \/ Before(t, s)
         /\ \A s, t \in G : Before(s, t) => ~Before(t, s)
         /\ \A s, t, u \in G : Before(s, t) /\ Before(t, u) => Before(s, u)
<1>1. \A s \in G : s.at \in Int /\ s.id \in Int /\ s.key.n \in Nat /\ s.key.copy \in Nat
  BY NamedTypes
<1>2. ASSUME NEW s \in G, NEW t \in G, s # t, s.key.n = t.key.n, s.key.copy = t.key.copy
      PROVE  FALSE
  <2>1. /\ s \in spans /\ t \in spans /\ s.key.channel = t.key.channel
        /\ s.key.side = t.key.side
    BY NamedTypes
  <2>2. s.key \in Keys /\ t.key \in Keys BY <2>1 DEF TraceInv, Shaped, Spans
  <2>3. s.key = t.key BY <1>2, <2>1, <2>2 DEF Keys
  <2> QED BY <1>2, <2>1, <2>3 DEF KeyInv
<1>3. \A s \in G : ~Before(s, s) BY <1>1 DEF Before
<1>4. \A s, t \in G : s # t => Before(s, t) \/ Before(t, s)
  <2> SUFFICES ASSUME NEW s \in G, NEW t \in G, s # t PROVE Before(s, t) \/ Before(t, s)
    OBVIOUS
  <2>1. s.key.n # t.key.n \/ s.key.copy # t.key.copy BY <1>2
  <2> QED BY <1>1, <2>1 DEF Before
<1>5. \A s, t \in G : Before(s, t) => ~Before(t, s) BY <1>1 DEF Before
<1>6. \A s, t, u \in G : Before(s, t) /\ Before(t, u) => Before(s, u)
  <2> SUFFICES ASSUME NEW s \in G, NEW t \in G, NEW u \in G, Before(s, t), Before(t, u)
               PROVE  Before(s, u)
    OBVIOUS
  <2> QED BY <1>1 DEF Before
<1> QED BY <1>3, <1>4, <1>5, <1>6

\* The k-th of a group has rank k: no two have the same rank, and each rank is had.
LEMMA RanksAre ==
  ASSUME TraceInv, KeyInv, NEW c, NEW side, NEW G, Named(G, c, side)
  PROVE  /\ IsFiniteSet(G) /\ Cardinality(G) \in Nat
         /\ \A s \in G : Rank(G, s) \in Nat /\ Rank(G, s) < Cardinality(G)
         /\ \A s, t \in G : Rank(G, s) = Rank(G, t) => s = t
         /\ \A k \in Nat : k < Cardinality(G) => \E s \in G : Rank(G, s) = k
<1> DEFINE B == {e \in G \X G : Before(e[1], e[2])}
           n == Cardinality(G)
<1>1. IsFiniteSet(G) /\ n \in Nat
  <2>1. G \in SUBSET spans BY DEF Named, Of
  <2> QED BY <2>1, FS_Subset, FS_CardinalityType DEF TraceInv
<1>2. \A s, t \in G : <<s, t>> \in B <=> Before(s, t) OBVIOUS
<1> HIDE DEF B
<1>3. Orders(B, G)
  <2>1. \A s \in G : <<s, s>> \notin B BY <1>2, BeforeOrders
  <2>2. \A s, t, u \in G : <<s, t>> \in B /\ <<t, u>> \in B => <<s, u>> \in B
    BY <1>2, BeforeOrders
  <2>3. \A s, t \in G : s # t => <<s, t>> \in B \/ <<t, s>> \in B BY <1>2, BeforeOrders
  <2> QED BY <2>1, <2>2, <2>3 DEF Orders
<1>4. \A s \in G : Rank(G, s) = Cardinality(Preceding(B, G, s))
  <2> SUFFICES ASSUME NEW s \in G PROVE Rank(G, s) = Cardinality(Preceding(B, G, s)) OBVIOUS
  <2>1. {t \in G : Before(t, s)} = Preceding(B, G, s) BY <1>2 DEF Preceding
  <2> QED BY <2>1 DEF Rank
<1>5. \A s \in G : Rank(G, s) \in 0..(n - 1) BY <1>1, <1>3, <1>4, Numbering
<1>6. \A s, t \in G : <<s, t>> \in B => Rank(G, s) < Rank(G, t)
  BY <1>1, <1>3, <1>4, Numbering
<1>7. \A k \in 0..(n - 1) : \E s \in G : Rank(G, s) = k
  <2> SUFFICES ASSUME NEW k \in 0..(n - 1) PROVE \E s \in G : Rank(G, s) = k OBVIOUS
  <2>1. \E s \in G : Cardinality(Preceding(B, G, s)) = k BY <1>1, <1>3, Numbering
  <2> QED BY <1>4, <2>1
<1>8. ASSUME NEW s \in G, NEW t \in G, s # t PROVE Rank(G, s) # Rank(G, t)
  <2>1. Rank(G, s) < Rank(G, t) \/ Rank(G, t) < Rank(G, s) BY <1>3, <1>6, <1>8 DEF Orders
  <2>2. Rank(G, s) \in Int /\ Rank(G, t) \in Int BY <1>5
  <2> QED BY <2>1, <2>2
<1> HIDE DEF n
<1>9. \A k \in Nat : k < n => k \in 0..(n - 1) BY <1>1 DEF n
<1> QED BY <1>1, <1>5, <1>7, <1>8, <1>9 DEF n

\* And a group has one that is first.
LEMMA FirstOfGroup ==
  ASSUME TraceInv, KeyInv, NEW c, NEW side, NEW G, Named(G, c, side)
  PROVE  /\ IsFiniteSet(G)
         /\ \A s \in G : Rank(G, s) \in Nat /\ (Rank(G, s) = 0 <=> \A t \in G : ~Before(t, s))
         /\ G # {} => \E s \in G : Rank(G, s) = 0
<1>1. IsFiniteSet(G) /\ \A s \in G : Rank(G, s) \in Nat BY RanksAre
<1>2. ASSUME NEW s \in G PROVE Rank(G, s) = 0 <=> \A t \in G : ~Before(t, s)
  <2>1. IsFiniteSet({t \in G : Before(t, s)}) BY <1>1, FS_Subset
  <2> QED BY <2>1, FS_EmptySet DEF Rank
<1>3. G # {} => \E s \in G : Rank(G, s) = 0
  <2>1. G # {} => Cardinality(G) # 0 BY <1>1, FS_EmptySet
  <2> QED BY <2>1, RanksAre
<1> QED BY <1>1, <1>2, <1>3

\* Of two groups, each member of one is matched once, or beyond the other group.
LEMMA MatchedOrSurplus ==
  ASSUME TraceInv, KeyInv, NEW c, NEW side, NEW other, NEW P, NEW Q,
         Named(P, c, side), Named(Q, c, other)
  PROVE  /\ IsFiniteSet(Matched(P, Q)) /\ Cardinality(Matched(P, Q)) \in Nat
         /\ Cardinality(P) \in Nat /\ Surplus(P, Q) \in Nat
         /\ Surplus(P, Q) = Cardinality(P) - Cardinality(Matched(P, Q))
<1> DEFINE Kth(s) == Rank(ById(P, s.id), s)
           Left == {s \in P : Kth(s) >= Cardinality(ById(Q, s.id))}
           M == Matched(P, Q)
           h == [m \in M |-> m[1]]
<1>1. \A s \in P : Named(ById(P, s.id), c, side) /\ Named(ById(Q, s.id), c, other)
  BY DEF Named, ById
<1>2. ASSUME NEW s \in P
      PROVE  /\ s \in ById(P, s.id)
             /\ Kth(s) \in Nat /\ Cardinality(ById(Q, s.id)) \in Nat
             /\ \A q \in ById(Q, s.id) : Rank(ById(Q, s.id), q) \in Nat
                                         /\ Rank(ById(Q, s.id), q) < Cardinality(ById(Q, s.id))
             /\ \A q, r \in ById(Q, s.id) :
                  Rank(ById(Q, s.id), q) = Rank(ById(Q, s.id), r) => q = r
             /\ \A k \in Nat : k < Cardinality(ById(Q, s.id)) =>
                  \E q \in ById(Q, s.id) : Rank(ById(Q, s.id), q) = k
  <2>1. s \in ById(P, s.id) BY DEF ById
  <2> QED BY <1>1, <2>1, RanksAre
<1>3. ASSUME NEW m \in M
      PROVE  /\ m = <<m[1], m[2]>> /\ m[1] \in P /\ m[2] \in ById(Q, m[1].id)
             /\ Rank(ById(Q, m[1].id), m[2]) = Kth(m[1])
  <2>1. m \in P \X Q /\ m[1].id = m[2].id
        /\ Rank(ById(P, m[1].id), m[1]) = Rank(ById(Q, m[2].id), m[2])
    BY DEF Matched
  <2>2. m = <<m[1], m[2]>> /\ m[1] \in P /\ m[2] \in Q BY <2>1
  <2> QED BY <2>1, <2>2 DEF ById
<1>4. ASSUME NEW m \in M PROVE m[1] \in P \ Left
  <2>1. m[1] \in P /\ m[2] \in ById(Q, m[1].id) /\ Rank(ById(Q, m[1].id), m[2]) = Kth(m[1])
    BY <1>3
  <2> HIDE DEF M, Kth
  <2>2. Kth(m[1]) \in Nat /\ Cardinality(ById(Q, m[1].id)) \in Nat
        /\ Kth(m[1]) < Cardinality(ById(Q, m[1].id))
    BY <1>2, <2>1
  <2> QED BY <2>1, <2>2
<1>5. ASSUME NEW s \in P \ Left PROVE \E m \in M : m[1] = s
  <2>1. s \in P /\ ~(Kth(s) >= Cardinality(ById(Q, s.id))) OBVIOUS
  <2>2. PICK q \in ById(Q, s.id) : Rank(ById(Q, s.id), q) = Kth(s)
    <3> HIDE DEF Kth
    <3>1. Kth(s) \in Nat /\ Kth(s) < Cardinality(ById(Q, s.id)) BY <1>2, <2>1
    <3> QED BY <1>2, <2>1, <3>1
  <2>3. q \in Q /\ q.id = s.id BY DEF ById
  <2>4. <<s, q>> \in M BY <2>1, <2>2, <2>3 DEF Matched
  <2> QED BY <2>4
<1>6. ASSUME NEW m \in M, NEW l \in M, m[1] = l[1] PROVE m = l
  <2>1. m[1] \in P /\ m[2] \in ById(Q, m[1].id) /\ l[2] \in ById(Q, m[1].id)
        /\ Rank(ById(Q, m[1].id), m[2]) = Rank(ById(Q, m[1].id), l[2])
        /\ m = <<m[1], m[2]>> /\ l = <<l[1], l[2]>>
    BY <1>3, <1>6
  <2>2. m[2] = l[2] BY <1>2, <2>1
  <2> QED BY <1>6, <2>1, <2>2
<1>7. IsFiniteSet(P) /\ IsFiniteSet(Q) /\ Cardinality(P) \in Nat BY RanksAre
<1>8. IsFiniteSet(M) /\ Cardinality(M) \in Nat
  <2>1. M \in SUBSET (P \X Q) BY DEF Matched
  <2>2. IsFiniteSet(P \X Q) BY <1>7, FS_Product
  <2> HIDE DEF M
  <2> QED BY <2>1, <2>2, FS_Subset, FS_CardinalityType
<1>9. P \ Left = {h[m] : m \in M}
  <2>1. \A m \in M : h[m] = m[1] OBVIOUS
  <2> HIDE DEF h, M, Left
  <2> QED BY <1>4, <1>5, <2>1
<1>10. \A m, l \in M : h[m] = h[l] => m = l
  <2>1. \A m \in M : h[m] = m[1] OBVIOUS
  <2> HIDE DEF h, M
  <2> QED BY <1>6, <2>1
<1>11. h = [m \in M |-> h[m]] OBVIOUS
<1>12. Surplus(P, Q) = Cardinality(Left) BY DEF Surplus
<1>13. Left \in SUBSET P /\ P \cap Left = Left OBVIOUS
<1> HIDE DEF h, M, Left
<1>14. Cardinality(P \ Left) = Cardinality(M) BY <1>8, <1>9, <1>10, <1>11, SameCount
<1>15. Cardinality(P \ Left) = Cardinality(P) - Cardinality(Left)
  BY <1>7, <1>13, FS_Difference
<1>16. Cardinality(Left) \in Nat BY <1>7, <1>13, FS_Subset, FS_CardinalityType
<1> QED BY <1>7, <1>8, <1>12, <1>14, <1>15, <1>16 DEF M

\* The matching is the same from either side.
LEMMA MatchedMirrors ==
  ASSUME TraceInv, KeyInv, NEW c, NEW side, NEW other, NEW P, NEW Q,
         Named(P, c, side), Named(Q, c, other)
  PROVE  Cardinality(Matched(Q, P)) = Cardinality(Matched(P, Q))
<1> DEFINE M == Matched(P, Q)
           h == [m \in M |-> <<m[2], m[1]>>]
<1>1. ASSUME NEW m \in M
      PROVE  m \in P \X Q /\ m = <<m[1], m[2]>> /\ <<m[2], m[1]>> \in Matched(Q, P)
  <2>1. m \in P \X Q /\ m[1].id = m[2].id
        /\ Rank(ById(P, m[1].id), m[1]) = Rank(ById(Q, m[2].id), m[2])
    BY DEF Matched
  <2>2. m = <<m[1], m[2]>> /\ m[1] \in P /\ m[2] \in Q BY <2>1
  <2> QED BY <2>1, <2>2 DEF Matched
<1>2. ASSUME NEW l \in Matched(Q, P) PROVE \E m \in M : l = <<m[2], m[1]>>
  <2>1. l \in Q \X P /\ l[1].id = l[2].id
        /\ Rank(ById(Q, l[1].id), l[1]) = Rank(ById(P, l[2].id), l[2])
    BY DEF Matched
  <2>2. l = <<l[1], l[2]>> /\ l[1] \in Q /\ l[2] \in P BY <2>1
  <2>3. <<l[2], l[1]>> \in M BY <2>1, <2>2 DEF Matched
  <2> QED BY <2>2, <2>3
<1>3. Matched(Q, P) = {h[m] : m \in M}
  <2>1. \A m \in M : h[m] = <<m[2], m[1]>> OBVIOUS
  <2> HIDE DEF h, M
  <2> QED BY <1>1, <1>2, <2>1
<1>4. \A m, l \in M : h[m] = h[l] => m = l
  <2>1. \A m \in M : h[m] = <<m[2], m[1]>> OBVIOUS
  <2> HIDE DEF h, M
  <2> SUFFICES ASSUME NEW m \in M, NEW l \in M, h[m] = h[l] PROVE m = l OBVIOUS
  <2>2. m[1] = l[1] /\ m[2] = l[2] BY <2>1
  <2> QED BY <1>1, <2>2
<1>5. h = [m \in M |-> h[m]] OBVIOUS
<1>6. IsFiniteSet(M) BY MatchedOrSurplus
<1> HIDE DEF h, M
<1> QED BY <1>3, <1>4, <1>5, <1>6, SameCount DEF M

\* What a reader of an observation demands holds of each that is made of exported
\* spans: lost messages and repeated receipts are what the matching leaves over.
LEMMA CountsAddUp ==
  ASSUME TraceInv, KeyInv, NEW c, NEW window, NEW limits \in Limits
  PROVE  ObservationAccepted(Reported(Observation(Exported, c, window), limits))
<1> DEFINE m == Observation(Exported, c, window)
           inside == InWindow(Exported, c, window)
           P == inside \cap Of(Exported, c, "producer")
           Q == inside \cap Of(Exported, c, "consumer")
<1>1. /\ m.sent = Cardinality(P) /\ m.received = Cardinality(Q)
      /\ m.lost = IF HaveIds(inside) THEN Surplus(P, Q) ELSE Cardinality(P)
      /\ m.repeated = IF HaveIds(inside) THEN Surplus(Q, P) ELSE Cardinality(Q)
      /\ m.late = IF HaveIds(inside) THEN Cardinality(OutOfOrder(Matched(P, Q))) ELSE 0
  BY DEF Observation
<1>2. P \subseteq Of(spans, c, "producer") /\ Q \subseteq Of(spans, c, "consumer")
  BY DEF Of, Exported
<1>3. IsFiniteSet(P) /\ IsFiniteSet(Q) /\ Cardinality(P) \in Nat /\ Cardinality(Q) \in Nat
  <2>1. P \in SUBSET spans /\ Q \in SUBSET spans BY <1>2 DEF Of
  <2> HIDE DEF P, Q
  <2> QED BY <2>1, FS_Subset, FS_CardinalityType DEF TraceInv
<1>4. ASSUME HaveIds(inside)
      PROVE  /\ m.lost \in Nat /\ m.lost <= m.sent
             /\ m.received = m.sent - m.lost + m.repeated
             /\ m.late <= m.sent - m.lost
  <2>1. Named(P, c, "producer") /\ Named(Q, c, "consumer")
    <3>1. \A s \in P \cup Q : s.id # Nothing BY <1>4 DEF HaveIds
    <3> HIDE DEF P, Q
    <3> QED BY <1>2, <3>1 DEF Named
  <2> HIDE DEF P, Q, m, inside
  <2>2. /\ Cardinality(Matched(P, Q)) \in Nat /\ Surplus(P, Q) \in Nat
        /\ Surplus(P, Q) = Cardinality(P) - Cardinality(Matched(P, Q))
        /\ IsFiniteSet(Matched(P, Q))
    BY <2>1, MatchedOrSurplus
  <2>3. Surplus(Q, P) = Cardinality(Q) - Cardinality(Matched(Q, P)) BY <2>1, MatchedOrSurplus
  <2>4. Cardinality(Matched(Q, P)) = Cardinality(Matched(P, Q)) BY <2>1, MatchedMirrors
  <2>5. /\ Cardinality(OutOfOrder(Matched(P, Q))) <= Cardinality(Matched(P, Q))
        /\ Cardinality(OutOfOrder(Matched(P, Q))) \in Nat
    <3>1. OutOfOrder(Matched(P, Q)) \in SUBSET Matched(P, Q) BY DEF OutOfOrder
    <3> QED BY <2>2, <3>1, FS_Subset, FS_CardinalityType
  <2> QED BY <1>1, <1>3, <1>4, <2>2, <2>3, <2>4, <2>5
<1>5. ASSUME ~HaveIds(inside)
      PROVE  /\ m.lost \in Nat /\ m.lost <= m.sent
             /\ m.received = m.sent - m.lost + m.repeated
             /\ m.late <= m.sent - m.lost
  <2> HIDE DEF P, Q, m, inside
  <2> QED BY <1>1, <1>3, <1>5
<1>6. Delivery(m, limits) = "passed" => m.sent # 0
  <2>1. limits.sent = 1 BY DEF Limits
  <2> HIDE DEF m
  <2>2. Delivery(m, limits) = "passed" => ~(m.sent < limits.sent) BY DEF Delivery
  <2> QED BY <2>1, <2>2
<1> HIDE DEF m
<1>7. Reported(m, limits).counts = m /\ Reported(m, limits).status = Delivery(m, limits)
  BY DEF Reported
<1> QED BY <1>4, <1>5, <1>6, <1>7 DEF ObservationAccepted, m

\* What the observation of a channel says when it is no error: everything was in
\* the window and had an ID.
LEMMA ObservedWhole ==
  ASSUME TraceInv, NEW c, NEW window \in Nat,
         Observation(spans, c, window).seen, ~Observation(spans, c, window).error
  PROVE  LET m == Observation(spans, c, window)
             P == Of(spans, c, "producer")
             Q == Of(spans, c, "consumer")
         IN /\ Named(P, c, "producer") /\ Named(Q, c, "consumer")
            /\ m.sent = Cardinality(P) /\ m.lost = Surplus(P, Q) /\ m.repeated = Surplus(Q, P)
            /\ m.late = Cardinality(OutOfOrder(Matched(P, Q)))
            /\ \A s, t \in P \cup Q : t.at - s.at <= window
<1> DEFINE sends == Of(spans, c, "producer")
           receipts == Of(spans, c, "consumer")
           all == sends \cup receipts
           m == Observation(spans, c, window)
           start == Earliest({s.at : s \in IF sends = {} THEN all ELSE sends})
           inside == InWindow(spans, c, window)
           P == inside \cap sends
           Q == inside \cap receipts
           named == HaveIds(inside)
<1>0. inside = {s \in all : start <= s.at /\ s.at <= start + window} BY DEF InWindow
<1>1. named /\ inside = all /\ all # {}
  <2>1. all # {} /\ named /\ ~Faulty(spans, c, P, Q) BY DEF Observation
  <2>2. P \cup Q = all BY <2>1 DEF Faulty
  <2>3. inside \subseteq all BY <1>0
  <2> HIDE DEF inside, sends, receipts
  <2> QED BY <2>1, <2>2, <2>3
<1>2. P = sends /\ Q = receipts
  <2> HIDE DEF inside, sends, receipts
  <2> QED BY <1>1
<1>3. /\ m.sent = Cardinality(P)
      /\ m.lost = IF named THEN Surplus(P, Q) ELSE Cardinality(P)
      /\ m.repeated = IF named THEN Surplus(Q, P) ELSE Cardinality(Q)
      /\ m.late = IF named THEN Cardinality(OutOfOrder(Matched(P, Q))) ELSE 0
  BY DEF Observation
<1>4. Named(sends, c, "producer") /\ Named(receipts, c, "consumer")
  <2>1. \A s \in all : s.id # Nothing
    <3> HIDE DEF inside, all
    <3> QED BY <1>1 DEF HaveIds
  <2> QED BY <2>1 DEF Named
<1>5. ASSUME NEW s \in all, NEW t \in all PROVE t.at - s.at <= window
  <2> DEFINE S == {r.at : r \in IF sends = {} THEN all ELSE sends}
             X == IF sends = {} THEN all ELSE sends
  <2>1. \A r \in all : r.at \in Int /\ r \in spans BY SpanTypes DEF Of
  <2>2. IsFiniteSet(S)
    <3>1. IsFiniteSet(X)
      <4>1. X \in SUBSET spans BY DEF Of
      <4> HIDE DEF X
      <4> QED BY <4>1, FS_Subset DEF TraceInv
    <3> DEFINE f == [r \in X |-> r.at]
    <3>2. S = {f[r] : r \in X} OBVIOUS
    <3> HIDE DEF X, S
    <3>3. f \in Surjection(X, S) BY <3>2 DEF Surjection
    <3> HIDE DEF f
    <3> QED BY <3>1, <3>3, FS_Surjection
  <2>3. S \in SUBSET Int /\ S # {} BY <2>1
  <2>4. start \in S
    <3>1. \E x \in S : \A y \in S : x <= y
      <4> HIDE DEF S
      <4> QED BY <2>2, <2>3, LeastInteger
    <3> HIDE DEF S
    <3> QED BY <3>1 DEF S, Earliest
  <2>5. start \in Int BY <2>3, <2>4
  <2>6. s \in inside /\ t \in inside BY <1>1
  <2>7. start <= s.at /\ t.at <= start + window
    <3> HIDE DEF start, inside, all
    <3> QED BY <1>0, <2>6
  <2>8. s.at \in Int /\ t.at \in Int BY <2>1
  <2> HIDE DEF start
  <2> QED BY <2>5, <2>7, <2>8
<1> HIDE DEF m, P, Q, named, inside, start
<1>6. /\ m.sent = Cardinality(sends) /\ m.lost = Surplus(sends, receipts)
      /\ m.repeated = Surplus(receipts, sends)
      /\ m.late = Cardinality(OutOfOrder(Matched(sends, receipts)))
  BY <1>1, <1>2, <1>3
<1> QED BY <1>4, <1>5, <1>6 DEF m

\* Both sides of channel c, every message of P under an ID of its own.
Identified(c, P, Q) ==
  /\ P = Of(spans, c, "producer") /\ Q = Of(spans, c, "consumer")
  /\ Named(P, c, "producer") /\ Named(Q, c, "consumer")
  /\ \A p, r \in P : p # r => p.id # r.id

\* The messages received, and the first receipt of one.
Arrivals(P, Q) == {p \in P : \E q \in Q : q.cause = p.key}
FirstReceipt(Q, p) == CHOOSE q \in ById(Q, p.id) : Rank(ById(Q, p.id), q) = 0

\* Then a receipt belongs to the message that has its ID.
LEMMA ReceiptsById ==
  ASSUME TraceInv, KeyInv, OriginInv, NEW c, NEW P, NEW Q, Identified(c, P, Q)
  PROVE  /\ \A q \in Q : \E p \in P : q.cause = p.key /\ q.id = p.id
         /\ \A p \in P : ById(Q, p.id) = {q \in Q : q.cause = p.key}
         /\ \A p \in P : ById(P, p.id) = {p}
         /\ Arrivals(P, Q) = {p \in P : ById(Q, p.id) # {}}
<1>1. ASSUME NEW q \in Q PROVE \E p \in P : q.cause = p.key /\ q.id = p.id
  <2>1. q \in spans /\ q.key.side = "consumer" /\ q.key.channel = c /\ q.id # Nothing
    BY DEF Identified, Named, Of
  <2>2. PICK p \in spans : p.key = q.cause /\ q.id \in {p.id, Nothing}
    BY <2>1 DEF OriginInv
  <2>3. q.cause = [channel |-> c, side |-> "producer", n |-> q.key.n, copy |-> 1]
    BY <2>1 DEF TraceInv, Shaped
  <2>4. p \in P BY <2>2, <2>3 DEF Identified, Of
  <2> QED BY <2>1, <2>2, <2>4
<1>2. ASSUME NEW p \in P PROVE ById(Q, p.id) = {q \in Q : q.cause = p.key}
  <2>1. ASSUME NEW q \in Q PROVE q.id = p.id <=> q.cause = p.key
    <3>1. PICK r \in P : q.cause = r.key /\ q.id = r.id BY <1>1
    <3>2. r.id = p.id <=> r = p BY DEF Identified
    <3>3. r.key = p.key <=> r = p
      <4>1. r \in spans /\ p \in spans BY DEF Identified, Of
      <4> QED BY <4>1 DEF KeyInv
    <3> QED BY <3>1, <3>2, <3>3
  <2> QED BY <2>1 DEF ById
<1>3. \A p \in P : ById(P, p.id) = {p} BY DEF ById, Identified
<1>4. Arrivals(P, Q) = {p \in P : ById(Q, p.id) # {}} BY <1>2 DEF Arrivals
<1> QED BY <1>1, <1>2, <1>3, <1>4

\* What FirstReceipt chooses is the only one of its rank.
LEMMA FirstReceiptIs ==
  ASSUME TraceInv, KeyInv, OriginInv, NEW c, NEW P, NEW Q, Identified(c, P, Q),
         NEW p \in Arrivals(P, Q)
  PROVE  LET f == FirstReceipt(Q, p) IN
         /\ f \in Q /\ f.id = p.id
         /\ \A q \in ById(Q, p.id) : Rank(ById(Q, p.id), q) = 0 <=> q = f
         /\ \A q \in ById(Q, p.id) : ~Before(q, f)
<1> DEFINE G == ById(Q, p.id)
           f == FirstReceipt(Q, p)
<1>1. p \in P /\ G # {} BY ReceiptsById
<1>2. Named(G, c, "consumer") BY DEF Identified, Named, ById
<1> HIDE DEF G
<1>3. /\ \A s \in G : Rank(G, s) = 0 <=> \A t \in G : ~Before(t, s)
      /\ \E s \in G : Rank(G, s) = 0
  BY <1>1, <1>2, FirstOfGroup
<1>4. f \in G /\ Rank(G, f) = 0 BY <1>3 DEF FirstReceipt, G
<1> HIDE DEF f
<1>5. ASSUME NEW q \in G, Rank(G, q) = 0 PROVE q = f
  <2>1. ~Before(q, f) /\ ~Before(f, q) BY <1>3, <1>4, <1>5
  <2> QED BY <1>2, <1>4, <2>1, BeforeOrders
<1>6. f \in Q /\ f.id = p.id BY <1>4 DEF G, ById
<1>7. \A q \in G : ~Before(q, f) BY <1>3, <1>4
<1> QED BY <1>4, <1>5, <1>6, <1>7 DEF G, f

\* A message is lost if it has no receipt.
LEMMA LostAre ==
  ASSUME TraceInv, KeyInv, OriginInv, NEW c, NEW P, NEW Q, Identified(c, P, Q)
  PROVE  Surplus(P, Q) = Cardinality(P \ Arrivals(P, Q))
<1>1. ASSUME NEW p \in P
      PROVE  Rank(ById(P, p.id), p) >= Cardinality(ById(Q, p.id)) <=> ById(Q, p.id) = {}
  <2>1. Named({p}, c, "producer") BY DEF Identified, Named
  <2>2. Rank({p}, p) = 0
    <3>1. ~Before(p, p) BY <2>1, BeforeOrders
    <3>2. \A t \in {p} : ~Before(t, p) BY <3>1
    <3> QED BY <2>1, <3>2, FirstOfGroup
  <2>3. ById(P, p.id) = {p} BY ReceiptsById
  <2>4. IsFiniteSet(ById(Q, p.id))
    <3>1. ById(Q, p.id) \in SUBSET spans BY DEF ById, Identified, Of
    <3> QED BY <3>1, FS_Subset DEF TraceInv
  <2>5. Cardinality(ById(Q, p.id)) \in Nat BY <2>4, FS_CardinalityType
  <2>6. Cardinality(ById(Q, p.id)) = 0 <=> ById(Q, p.id) = {} BY <2>4, FS_EmptySet
  <2> QED BY <2>2, <2>3, <2>5, <2>6
<1>2. Arrivals(P, Q) = {p \in P : ById(Q, p.id) # {}} BY ReceiptsById
<1>3. {p \in P : Rank(ById(P, p.id), p) >= Cardinality(ById(Q, p.id))} = P \ Arrivals(P, Q)
  BY <1>1, <1>2
<1> QED BY <1>3 DEF Surplus

\* The first receipts of all received messages.
Firsts(P, Q) == {FirstReceipt(Q, p) : p \in Arrivals(P, Q)}

\* There are as many as received messages.
LEMMA FirstsCount ==
  ASSUME TraceInv, KeyInv, OriginInv, NEW c, NEW P, NEW Q, Identified(c, P, Q)
  PROVE  /\ IsFiniteSet(P) /\ IsFiniteSet(Q) /\ Firsts(P, Q) \subseteq Q
         /\ Cardinality(Firsts(P, Q)) = Cardinality(Arrivals(P, Q))
         /\ \A p, r \in Arrivals(P, Q) : p # r => FirstReceipt(Q, p) # FirstReceipt(Q, r)
<1> DEFINE A == Arrivals(P, Q)
           f == [p \in A |-> FirstReceipt(Q, p)]
<1>1. IsFiniteSet(P) /\ IsFiniteSet(Q) /\ IsFiniteSet(A)
  <2>1. P \in SUBSET spans /\ Q \in SUBSET spans /\ A \in SUBSET spans
    BY DEF Identified, Of, Arrivals
  <2> QED BY <2>1, FS_Subset DEF TraceInv
<1>2. \A p \in A : FirstReceipt(Q, p) \in Q /\ FirstReceipt(Q, p).id = p.id
  BY FirstReceiptIs
<1>3. \A p, r \in A : p # r => FirstReceipt(Q, p) # FirstReceipt(Q, r)
  BY <1>2 DEF Identified, Arrivals
<1>4. Firsts(P, Q) = {f[p] : p \in A} BY DEF Firsts
<1>5. \A p, r \in A : f[p] = f[r] => p = r
  <2>1. \A p \in A : f[p] = FirstReceipt(Q, p) OBVIOUS
  <2> QED BY <1>3, <2>1
<1>6. Cardinality(Firsts(P, Q)) = Cardinality(A)
  <2>1. f = [p \in A |-> f[p]] OBVIOUS
  <2> HIDE DEF f, A
  <2> QED BY <1>1, <1>4, <1>5, <2>1, SameCount
<1>7. Firsts(P, Q) \subseteq Q BY <1>2 DEF Firsts, A
<1> HIDE DEF f, A
<1> QED BY <1>1, <1>3, <1>6, <1>7 DEF A

\* Every receipt but the first of its message repeats it.
LEMMA RepeatedAre ==
  ASSUME TraceInv, KeyInv, OriginInv, NEW c, NEW P, NEW Q, Identified(c, P, Q)
  PROVE  Surplus(Q, P) = Cardinality(Q) - Cardinality(Arrivals(P, Q))
<1> DEFINE F == Firsts(P, Q)
<1>1. ASSUME NEW q \in Q
      PROVE  Rank(ById(Q, q.id), q) >= Cardinality(ById(P, q.id)) <=> q \notin F
  <2>1. PICK p \in P : q.cause = p.key /\ q.id = p.id BY ReceiptsById
  <2>2. p \in Arrivals(P, Q) BY <2>1 DEF Arrivals
  <2>3. Cardinality(ById(P, q.id)) = 1
    <3>1. ById(P, q.id) = {p} BY <2>1, ReceiptsById
    <3> QED BY <3>1, FS_Singleton
  <2>4. q \in ById(Q, p.id) BY <2>1 DEF ById
  <2>5. Rank(ById(Q, p.id), q) = 0 <=> q = FirstReceipt(Q, p)
    BY <2>2, <2>4, FirstReceiptIs
  <2>6. q = FirstReceipt(Q, p) <=> q \in F
    <3>1. ASSUME NEW r \in Arrivals(P, Q), q = FirstReceipt(Q, r) PROVE r = p
      <4>1. r.id = q.id BY <3>1, FirstReceiptIs
      <4> QED BY <2>1, <4>1 DEF Identified, Arrivals
    <3> QED BY <2>2, <3>1 DEF Firsts
  <2>7. Rank(ById(Q, p.id), q) \in Nat
    <3>1. Named(ById(Q, p.id), c, "consumer") BY DEF Identified, Named, ById
    <3> QED BY <2>4, <3>1, FirstOfGroup
  <2> HIDE DEF F
  <2> QED BY <2>1, <2>3, <2>5, <2>6, <2>7
<1>2. {q \in Q : Rank(ById(Q, q.id), q) >= Cardinality(ById(P, q.id))} = Q \ F BY <1>1
<1>3. IsFiniteSet(Q) /\ F \subseteq Q /\ Cardinality(F) = Cardinality(Arrivals(P, Q))
  BY FirstsCount
<1> HIDE DEF F
<1>4. Q \cap F = F BY <1>3
<1>5. Cardinality(Q \ F) = Cardinality(Q) - Cardinality(F) BY <1>3, <1>4, FS_Difference
<1> QED BY <1>2, <1>3, <1>5 DEF Surplus

\* A message and the first receipt of it are matched, and nothing else.
LEMMA MatchedAre ==
  ASSUME TraceInv, KeyInv, OriginInv, NEW c, NEW P, NEW Q, Identified(c, P, Q)
  PROVE  Matched(P, Q) = {<<p, FirstReceipt(Q, p)>> : p \in Arrivals(P, Q)}
<1> DEFINE A == Arrivals(P, Q)
<1>1. \A p \in P : Rank(ById(P, p.id), p) = 0
  <2> SUFFICES ASSUME NEW p \in P PROVE Rank(ById(P, p.id), p) = 0 OBVIOUS
  <2>1. Named({p}, c, "producer") BY DEF Identified, Named
  <2>2. ~Before(p, p) BY <2>1, BeforeOrders
  <2>3. \A t \in {p} : ~Before(t, p) BY <2>2
  <2>4. Rank({p}, p) = 0 BY <2>1, <2>3, FirstOfGroup
  <2> QED BY <2>4, ReceiptsById
<1>2. ASSUME NEW p \in P, NEW q \in Q, p.id = q.id,
             Rank(ById(P, p.id), p) = Rank(ById(Q, p.id), q)
      PROVE  p \in A /\ q = FirstReceipt(Q, p)
  <2>1. q \in ById(Q, p.id) BY <1>2 DEF ById
  <2>2. p \in A BY <2>1, ReceiptsById
  <2> QED BY <1>1, <1>2, <2>1, <2>2, FirstReceiptIs
<1>3. ASSUME NEW p \in A
      PROVE  LET q == FirstReceipt(Q, p) IN
             p \in P /\ q \in Q /\ p.id = q.id
             /\ Rank(ById(P, p.id), p) = Rank(ById(Q, p.id), q)
  <2>1. p \in P BY DEF Arrivals
  <2>2. FirstReceipt(Q, p) \in Q /\ FirstReceipt(Q, p).id = p.id BY FirstReceiptIs
  <2>3. FirstReceipt(Q, p) \in ById(Q, p.id) BY <2>2 DEF ById
  <2>4. Rank(ById(Q, p.id), FirstReceipt(Q, p)) = 0 BY <2>3, FirstReceiptIs
  <2> QED BY <1>1, <2>1, <2>2, <2>4
<1>4. ASSUME NEW m \in Matched(P, Q) PROVE \E p \in A : m = <<p, FirstReceipt(Q, p)>>
  <2>1. /\ m \in P \X Q /\ m[1].id = m[2].id
        /\ Rank(ById(P, m[1].id), m[1]) = Rank(ById(Q, m[2].id), m[2])
    BY DEF Matched
  <2>2. m = <<m[1], m[2]>> /\ m[1] \in P /\ m[2] \in Q BY <2>1
  <2>3. m[1] \in A /\ m[2] = FirstReceipt(Q, m[1]) BY <1>2, <2>1, <2>2
  <2> QED BY <2>2, <2>3
<1>5. ASSUME NEW p \in A PROVE <<p, FirstReceipt(Q, p)>> \in Matched(P, Q)
  BY <1>3 DEF Matched
<1> HIDE DEF A
<1>6. Matched(P, Q) = {<<p, FirstReceipt(Q, p)>> : p \in A} BY <1>4, <1>5
<1> QED BY <1>6 DEF A

\* The first receipt is the earliest one.
LEMMA FirstReceiptIsEarliest ==
  ASSUME TraceInv, KeyInv, OriginInv, NEW c, NEW P, NEW Q, Identified(c, P, Q),
         NEW p \in Arrivals(P, Q)
  PROVE  Earliest({q.real : q \in {r \in Q : r.cause = p.key}}) = FirstReceipt(Q, p).real
<1> DEFINE f == FirstReceipt(Q, p)
           G == ById(Q, p.id)
           S == {q.real : q \in G}
<1>1. p \in P BY DEF Arrivals
<1>2. {r \in Q : r.cause = p.key} = G BY <1>1, ReceiptsById
<1>3. f \in G
  <2>1. f \in Q /\ f.id = p.id BY FirstReceiptIs
  <2> HIDE DEF f
  <2> QED BY <2>1 DEF ById
<1>4. \A q \in G : ~Before(q, f) BY FirstReceiptIs
<1> HIDE DEF f
<1>5. ASSUME NEW q \in G PROVE f.real <= q.real
  <2>1. q \in Q /\ f \in Q BY <1>3 DEF ById
  <2>2. Named(Q, c, "consumer") BY DEF Identified
  <2>3. /\ q.at \in Int /\ f.at \in Int /\ q.real \in Nat /\ f.real \in Nat
        /\ q \in spans /\ f \in spans
        /\ q.key.channel = c /\ f.key.channel = c
        /\ q.key.side = "consumer" /\ f.key.side = "consumer"
    BY <2>1, <2>2, NamedTypes
  <2>4. ~(q.at < f.at) BY <1>4 DEF Before
  <2>5. skew[c] \in Int
    <3>1. c \in 1..Channels BY <2>3, SpanTypes
    <3> QED BY <3>1, ChainAssumption DEF TraceInv
  <2>6. q.at = q.real + skew[c] /\ f.at = f.real + skew[c]
    BY <2>3 DEF OriginInv, Offset
  <2> QED BY <2>3, <2>4, <2>5, <2>6
<1>6. \A q \in G : q.real \in Nat
  <2>1. Named(G, c, "consumer") BY DEF Identified, Named, ById
  <2> HIDE DEF G
  <2> QED BY <2>1, NamedTypes
<1>7. f.real \in S /\ \A y \in S : f.real <= y BY <1>3, <1>5
<1>8. \A x \in S : (\A y \in S : x <= y) => x = f.real BY <1>3, <1>6, <1>7
<1> HIDE DEF S
<1>9. Earliest(S) = f.real BY <1>7, <1>8 DEF Earliest
<1> QED BY <1>2, <1>9 DEF S, f

\* Without two at one instant, spans of one side are in the order they happened.
LEMMA BeforeIsReal ==
  ASSUME TraceInv, KeyInv, OriginInv, NEW c, NEW side, NEW G, Named(G, c, side),
         NEW s \in G, NEW t \in G, s # t => s.real # t.real
  PROVE  Before(s, t) <=> s.real < t.real
<1>1. /\ s \in spans /\ t \in spans /\ s.key.channel = c /\ t.key.channel = c
      /\ s.key.side = side /\ t.key.side = side
      /\ s.real \in Nat /\ t.real \in Nat
  BY NamedTypes
<1>2. CASE s = t
  <2>1. ~Before(s, s) BY BeforeOrders
  <2> QED BY <1>1, <1>2, <2>1
<1>3. CASE s # t
  <2>1. s.at = s.real + Offset(c, side) /\ t.at = t.real + Offset(c, side)
    BY <1>1 DEF OriginInv
  <2>2. Offset(c, side) \in Int
    <3>1. c \in 1..Channels BY <1>1, SpanTypes
    <3>2. skew \in [1..Channels -> Int] BY ChainAssumption DEF TraceInv
    <3>3. c # 1 => c - 1 \in 1..Channels BY <3>1, ChainAssumption
    <3> QED BY <3>1, <3>2, <3>3 DEF Offset
  <2> HIDE DEF Offset
  <2>3. s.at < t.at <=> s.real < t.real BY <1>1, <2>1, <2>2
  <2>4. s.at # t.at BY <1>1, <1>3, <2>1, <2>2
  <2> QED BY <2>3, <2>4 DEF Before
<1> QED BY <1>2, <1>3

\* What DeliveryIsMeasured compares the counts with.
Increasing(P, Q) ==
  \A p, r \in P : p # r =>
    /\ p.real # r.real
    /\ {p, r} \subseteq Arrivals(P, Q) => FirstReceipt(Q, p).real # FirstReceipt(Q, r).real

Overtaken(P, Q) ==
  {p \in Arrivals(P, Q) : \E r \in Arrivals(P, Q) :
     p.real < r.real /\ FirstReceipt(Q, r).real < FirstReceipt(Q, p).real}

\* As many pairs are out of order as messages were overtaken.
LEMMA LateAre ==
  ASSUME TraceInv, KeyInv, OriginInv, NEW c, NEW P, NEW Q, Identified(c, P, Q), Increasing(P, Q)
  PROVE  Cardinality(OutOfOrder(Matched(P, Q))) = Cardinality(Overtaken(P, Q))
<1> DEFINE A == Arrivals(P, Q)
           F(p) == FirstReceipt(Q, p)
           M == Matched(P, Q)
           L == Overtaken(P, Q)
           g == [p \in L |-> <<p, F(p)>>]
<1>1. M = {<<p, F(p)>> : p \in A} BY MatchedAre
<1>2. A \subseteq P /\ \A p \in A : F(p) \in Q BY FirstReceiptIs DEF Arrivals
<1>3. ASSUME NEW p \in A, NEW r \in A
      PROVE  Before(F(r), F(p)) /\ Before(p, r) <=> p.real < r.real /\ F(r).real < F(p).real
  <2>1. Named(P, c, "producer") /\ Named(Q, c, "consumer") BY DEF Identified
  <2>2. p \in P /\ r \in P /\ F(p) \in Q /\ F(r) \in Q BY <1>2
  <2>3. p # r => p.real # r.real /\ F(r).real # F(p).real BY <2>2 DEF Increasing
  <2> HIDE DEF F, A
  <2>4. Before(p, r) <=> p.real < r.real BY <2>1, <2>2, <2>3, BeforeIsReal
  <2>5. F(r) # F(p) => F(r).real # F(p).real BY <2>3
  <2>6. Before(F(r), F(p)) <=> F(r).real < F(p).real BY <2>1, <2>2, <2>5, BeforeIsReal
  <2> QED BY <2>4, <2>6
<1>4. ASSUME NEW p \in A PROVE <<p, F(p)>> \in OutOfOrder(M) <=> p \in L
  <2>1. <<p, F(p)>> \in M BY <1>1
  <2>2. <<p, F(p)>> \in OutOfOrder(M)
        <=> \E later \in M : Before(later[2], F(p)) /\ Before(p, later[1])
    <3> HIDE DEF M, F
    <3> QED BY <2>1 DEF OutOfOrder
  <2>3. (\E later \in M : Before(later[2], F(p)) /\ Before(p, later[1]))
        <=> \E r \in A : Before(F(r), F(p)) /\ Before(p, r)
    <3>1. \A later \in M : \E r \in A : later = <<r, F(r)>> BY <1>1
    <3>2. \A r \in A : <<r, F(r)>> \in M BY <1>1
    <3>3. \A r \in A : <<r, F(r)>>[1] = r /\ <<r, F(r)>>[2] = F(r) OBVIOUS
    <3> HIDE DEF M, F, A
    <3>4. ASSUME NEW later \in M, Before(later[2], F(p)), Before(p, later[1])
          PROVE  \E r \in A : Before(F(r), F(p)) /\ Before(p, r)
      <4>1. PICK r \in A : later = <<r, F(r)>> BY <3>1
      <4>2. later[1] = r /\ later[2] = F(r) BY <3>3, <4>1
      <4> QED BY <3>4, <4>2
    <3>5. ASSUME NEW r \in A, Before(F(r), F(p)), Before(p, r)
          PROVE  \E later \in M : Before(later[2], F(p)) /\ Before(p, later[1])
      <4> DEFINE l == <<r, F(r)>>
      <4>1. l \in M /\ l[1] = r /\ l[2] = F(r) BY <3>2, <3>3
      <4> HIDE DEF l
      <4> QED BY <3>5, <4>1
    <3> QED BY <3>4, <3>5
  <2>4. p \in L <=> \E r \in A : p.real < r.real /\ F(r).real < F(p).real
    BY DEF Overtaken
  <2> HIDE DEF M, F, A, L
  <2> QED BY <1>3, <2>2, <2>3, <2>4
<1>5. L \subseteq A /\ OutOfOrder(M) \subseteq M BY DEF Overtaken, OutOfOrder
<1>6. OutOfOrder(M) = {g[p] : p \in L}
  <2>1. \A p \in L : g[p] = <<p, F(p)>> OBVIOUS
  <2> HIDE DEF g, L, M, F, A
  <2> QED BY <1>1, <1>4, <1>5, <2>1
<1>7. \A p, r \in L : g[p] = g[r] => p = r OBVIOUS
<1>8. DOMAIN g = L /\ g = [p \in L |-> g[p]] OBVIOUS
<1>9. IsFiniteSet(L)
  <2>1. IsFiniteSet(P) BY FirstsCount
  <2>2. L \in SUBSET P BY <1>2, <1>5
  <2> HIDE DEF L
  <2> QED BY <2>1, <2>2, FS_Subset
<1> HIDE DEF g, L, M, F, A
<1>11. Cardinality(OutOfOrder(M)) = Cardinality(L)
  BY <1>6, <1>7, <1>8, <1>9, SameCount
<1> QED BY <1>11 DEF M, L

\* For any limits, window, skews and faults, a channel that evaluate_channel_delivery
\* passed lost, repeated and overtook no more messages than allowed, if every send
\* is recorded under an ID of its own; without an error the counts are those of what
\* happened; and whatever was recorded, they add up as _validate_transport_channel_
\* observation demands (traces.py 639-867, semantics.py 1102-1140).
THEOREM DeliveriesAreMeasured == TraceSpec => []DeliveryIsMeasured
<1>1. ASSUME TraceInv, KeyInv, OriginInv PROVE DeliveryIsMeasured
  <2>0. \A c \in 1..Channels, window \in {1, Ticks}, limits \in Limits :
          ObservationAccepted(Reported(Observation(Exported, c, window), limits))
    BY <1>1, CountsAddUp
  <2> SUFFICES ASSUME tick = Ticks, NEW c \in 1..Channels, NEW window \in {1, Ticks},
                      misexported = {},
                      \A p, r \in Of(spans, c, "producer") : p # r => p.id # r.id
      PROVE  LET P == Of(spans, c, "producer")
                 Q == Of(spans, c, "consumer")
                 m == Observation(Exported, c, window)
                 earliest(p) == Earliest({q.real : q \in {r \in Q : r.cause = p.key}})
                 received == {p \in P : \E q \in Q : q.cause = p.key}
                 lost == Cardinality(P \ received)
                 repeated == Cardinality(Q) - Cardinality(received)
                 late == Cardinality({p \in received : \E r \in received :
                                        p.real < r.real /\ earliest(r) < earliest(p)})
                 ordered == \A p, r \in P : p # r =>
                   /\ p.real # r.real
                   /\ {p, r} \subseteq received => earliest(p) # earliest(r)
             IN /\ \A limits \in Limits : Reported(m, limits).status = "passed" =>
                     /\ lost * limits.of <= limits.lost * Cardinality(P)
                     /\ repeated <= limits.repeated
                     /\ ordered => late <= limits.late
                     /\ \A p, r \in P \cup Q : r.at - p.at <= window
                /\ P # {} /\ ~m.error =>
                     /\ m.sent = Cardinality(P) /\ m.lost = lost /\ m.repeated = repeated
                     /\ ordered => m.late = late
    BY <2>0 DEF DeliveryIsMeasured
  <2> DEFINE P == Of(spans, c, "producer")
             Q == Of(spans, c, "consumer")
             m == Observation(Exported, c, window)
             earliest(p) == Earliest({q.real : q \in {r \in Q : r.cause = p.key}})
             received == {p \in P : \E q \in Q : q.cause = p.key}
             lost == Cardinality(P \ received)
             repeated == Cardinality(Q) - Cardinality(received)
             late == Cardinality({p \in received : \E r \in received :
                                    p.real < r.real /\ earliest(r) < earliest(p)})
             ordered == \A p, r \in P : p # r =>
               /\ p.real # r.real
               /\ {p, r} \subseteq received => earliest(p) # earliest(r)
  <2>1. Exported = spans BY DEF Exported
  <2>2. window \in Nat BY ChainAssumption
  <2>3. ASSUME m.seen, ~m.error
        PROVE  /\ m.sent = Cardinality(P) /\ m.lost = lost /\ m.repeated = repeated
               /\ ordered => m.late = late
               /\ \A p, r \in P \cup Q : r.at - p.at <= window
               /\ IsFiniteSet(P) /\ IsFiniteSet(Q)
    <3>1. received = Arrivals(P, Q) BY DEF Arrivals
    <3>2. /\ Named(P, c, "producer") /\ Named(Q, c, "consumer")
          /\ m.sent = Cardinality(P) /\ m.lost = Surplus(P, Q) /\ m.repeated = Surplus(Q, P)
          /\ m.late = Cardinality(OutOfOrder(Matched(P, Q)))
          /\ \A s, t \in P \cup Q : t.at - s.at <= window
      BY <1>1, <2>1, <2>2, <2>3, ObservedWhole
    <3>3. Identified(c, P, Q) BY <3>2 DEF Identified
    <3> HIDE DEF P, Q, m
    <3>4. \A p \in received : earliest(p) = FirstReceipt(Q, p).real
      BY <1>1, <3>1, <3>3, FirstReceiptIsEarliest
    <3>5. m.lost = lost BY <1>1, <3>1, <3>2, <3>3, LostAre
    <3>6. m.repeated = repeated BY <1>1, <3>1, <3>2, <3>3, RepeatedAre
    <3>7. ASSUME ordered PROVE m.late = late
      <4> HIDE DEF received, earliest
      <4>1. Increasing(P, Q) BY <3>1, <3>4, <3>7 DEF Increasing
      <4>2. Cardinality(OutOfOrder(Matched(P, Q))) = Cardinality(Overtaken(P, Q))
        BY <1>1, <3>3, <4>1, LateAre
      <4>3. Overtaken(P, Q) = {p \in received : \E r \in received :
                                 p.real < r.real /\ earliest(r) < earliest(p)}
        BY <3>1, <3>4 DEF Overtaken
      <4> QED BY <3>2, <4>2, <4>3
    <3>8. IsFiniteSet(P) /\ IsFiniteSet(Q) BY <1>1, <3>3, FirstsCount
    <3> HIDE DEF lost, repeated, late, ordered
    <3> QED BY <3>2, <3>5, <3>6, <3>7, <3>8
  <2>4. P # {} => m.seen BY <2>1 DEF Observation
  <2>5. ASSUME NEW limits \in Limits, Reported(m, limits).status = "passed"
        PROVE  /\ m.seen /\ ~m.error /\ ~(m.lost * limits.of > limits.lost * m.sent)
               /\ ~(m.repeated > limits.repeated) /\ ~(m.late > limits.late)
    <3> HIDE DEF m
    <3>1. Delivery(m, limits) = "passed" BY <2>5 DEF Reported
    <3> QED BY <3>1 DEF Delivery
  <2>6. ASSUME NEW limits \in Limits, Reported(m, limits).status = "passed"
        PROVE  /\ lost * limits.of <= limits.lost * Cardinality(P)
               /\ repeated <= limits.repeated
               /\ ordered => late <= limits.late
               /\ \A p, r \in P \cup Q : r.at - p.at <= window
    <3>1. /\ limits.of \in Nat /\ limits.lost \in Nat /\ limits.repeated \in Nat
          /\ limits.late \in Nat
      BY DEF Limits
    <3>2. /\ m.sent = Cardinality(P) /\ m.lost = lost /\ m.repeated = repeated
          /\ ordered => m.late = late
          /\ \A p, r \in P \cup Q : r.at - p.at <= window
          /\ IsFiniteSet(P) /\ IsFiniteSet(Q)
      BY <2>3, <2>5, <2>6
    <3>3. IsFiniteSet(received) /\ IsFiniteSet(P \ received)
          /\ IsFiniteSet({p \in received : \E r \in received :
                            p.real < r.real /\ earliest(r) < earliest(p)})
      <4>1. /\ received \in SUBSET P /\ (P \ received) \in SUBSET P
            /\ {p \in received : \E r \in received :
                  p.real < r.real /\ earliest(r) < earliest(p)} \in SUBSET P
        OBVIOUS
      <4> HIDE DEF P, received, earliest
      <4> QED BY <3>2, <4>1, FS_Subset
    <3>4. Cardinality(P) \in Nat /\ lost \in Nat /\ late \in Nat /\ repeated \in Int
      <4>1. Cardinality(Q) \in Nat /\ Cardinality(received) \in Nat
        BY <3>2, <3>3, FS_CardinalityType
      <4>2. repeated \in Int
        <5> HIDE DEF Q, received
        <5> QED BY <4>1
      <4> QED BY <3>2, <3>3, <4>2, FS_CardinalityType
    <3>5. /\ ~(m.lost * limits.of > limits.lost * m.sent)
          /\ ~(m.repeated > limits.repeated) /\ ~(m.late > limits.late)
      BY <2>5, <2>6
    <3> HIDE DEF P, Q, m, lost, repeated, late, ordered
    <3>6. lost * limits.of \in Nat /\ limits.lost * Cardinality(P) \in Nat
      BY <3>1, <3>4
    <3>7. ~(lost * limits.of > limits.lost * Cardinality(P)) BY <3>2, <3>5
    <3>8. lost * limits.of <= limits.lost * Cardinality(P) BY <3>6, <3>7
    <3>9. repeated <= limits.repeated BY <3>1, <3>2, <3>4, <3>5
    <3>10. ordered => late <= limits.late BY <3>1, <3>2, <3>4, <3>5
    <3> QED BY <3>2, <3>8, <3>9, <3>10
  <2> HIDE DEF P, Q, m, lost, repeated, late, ordered
  <2>7. P # {} /\ ~m.error =>
          /\ m.sent = Cardinality(P) /\ m.lost = lost /\ m.repeated = repeated
          /\ ordered => m.late = late
    BY <2>3, <2>4
  <2> QED BY <2>6, <2>7 DEF P, Q, m, lost, repeated, late, ordered
<1> QED BY <1>1, DeliveryInvariance, PTL
-----------------------------------------------------------------------------
(***************************************************************************)
(* MetricWindow: the points of the evidence file, and gauges.              *)
(***************************************************************************)

\* The points have the numbers of their order in the file; points of one instant
\* are copies, and all are of instants that have been collected.
PointInv ==
  /\ IsFiniteSet(points)
  /\ \A p \in points : /\ p.id \in 1..Cardinality(points)
                       /\ p.at \in 1..collected /\ p.gauge \in Int
  /\ \A p, q \in points : /\ p.id = q.id => p = q
                          /\ p.at = q.at => p.gauge = q.gauge

WindowInv ==
  /\ now \in Nat /\ collected \in Nat /\ collected <= now
  /\ truth \in Seq(Event) /\ Len(truth) = now
  /\ PointInv

\* What a point of a collection is.
LEMMA PointIs ==
  ASSUME NEW p, NEW from, NEW stamp, NEW instruments, NEW k
  PROVE  /\ Report(p, from, stamp, instruments, k).id = k
         /\ Report(p, from, stamp, instruments, k).at = now
         /\ Report(p, from, stamp, instruments, k).gauge = truth[now].age
BY DEF Report

\* Ages are integers.
LEMMA EventType == \A e \in Event : e.age \in Int
  BY SourceAssumption, WindowAssumption

LEMMA WindowInitHolds == Init => WindowInv
<1> SUFFICES ASSUME Init PROVE WindowInv OBVIOUS
<1>1. points = {} /\ now = 0 /\ collected = 0 /\ truth = <<>> BY DEF Init
<1>2. PointInv BY <1>1, FS_EmptySet DEF PointInv
<1> QED BY <1>1, <1>2 DEF WindowInv

\* The points of a collection follow those before it.
LEMMA CollectKeeps ==
  ASSUME WindowInv, NEW instruments, NEW copies \in Nat, Collect(instruments, copies)
  PROVE  WindowInv'
<1> DEFINE n == Cardinality(points)
           from == IF temporality = "delta" THEN collected ELSE process.born
           stamp == IF process.known THEN from ELSE IF first = None THEN now ELSE first
           Point(k) == Report(process, from, stamp, instruments, n + k)
           new == {Point(k) : k \in 1..copies}
<1>1. /\ now > collected /\ points' = points \cup new
      /\ collected' = now /\ UNCHANGED <<now, truth>>
  BY DEF Collect
<1>2. IsFiniteSet(points) /\ n \in Nat BY FS_CardinalityType DEF WindowInv, PointInv
<1>3. now \in Nat /\ collected \in Nat /\ now \in 1..now BY <1>1 DEF WindowInv
<1>4. truth[now].age \in Int
  <2>1. truth[now] \in Event BY <1>3 DEF WindowInv
  <2> QED BY <2>1, EventType
<1>5. \A k \in 1..copies :
        Point(k).id = n + k /\ Point(k).at = now /\ Point(k).gauge = truth[now].age
  BY PointIs
<1> HIDE DEF Point
<1>6. IsFiniteSet(new) /\ Cardinality(new) = copies
  <2>1. IsFiniteSet(1..copies) /\ Cardinality(1..copies) = copies
    <3>1. 1 \in Int /\ copies \in Int OBVIOUS
    <3>2. Cardinality(1..copies) = IF 1 > copies THEN 0 ELSE copies - 1 + 1
      BY <3>1, FS_Interval
    <3> QED BY <3>1, <3>2, FS_Interval
  <2> DEFINE f == [k \in 1..copies |-> Point(k)]
  <2>2. f = [k \in 1..copies |-> f[k]] OBVIOUS
  <2>3. new = {f[k] : k \in 1..copies} OBVIOUS
  <2>4. \A k, l \in 1..copies : f[k] = f[l] => k = l BY <1>2, <1>5
  <2>5. IsFiniteSet(new)
    <3>1. new = {f[k] : k \in 1..copies} /\ f \in [1..copies -> new] OBVIOUS
    <3>2. f \in Surjection(1..copies, new) BY <3>1 DEF Surjection
    <3> HIDE DEF f, new
    <3> QED BY <2>1, <3>2, FS_Surjection
  <2> HIDE DEF f, new
  <2>6. Cardinality(new) = Cardinality(1..copies) BY <2>1, <2>2, <2>3, <2>4, SameCount
  <2> QED BY <2>1, <2>5, <2>6
<1>7. \A p \in new : p.id \in (n + 1)..(n + copies) /\ p.at = now /\ p.gauge = truth[now].age
  BY <1>2, <1>5
<1>8. \A p, q \in new : p.id = q.id => p = q BY <1>2, <1>5
<1>9. \A p \in points : p.id \in 1..n /\ p.at \in 1..collected /\ p.gauge \in Int
  BY DEF WindowInv, PointInv
<1> HIDE DEF new, n
<1>10. points \cap new = {} BY <1>2, <1>7, <1>9
<1>11. IsFiniteSet(points \cup new) /\ Cardinality(points \cup new) = n + copies
  BY <1>2, <1>6, <1>10, FS_EmptySet, FS_Union DEF n
<1>12. PointInv'
  <2>1. \A p, q \in points : (p.id = q.id => p = q) /\ (p.at = q.at => p.gauge = q.gauge)
    BY DEF WindowInv, PointInv
  <2> SUFFICES /\ IsFiniteSet(points \cup new)
               /\ \A p \in points \cup new : /\ p.id \in 1..Cardinality(points \cup new)
                                             /\ p.at \in 1..now /\ p.gauge \in Int
               /\ \A p, q \in points \cup new : /\ p.id = q.id => p = q
                                                /\ p.at = q.at => p.gauge = q.gauge
    BY <1>1 DEF PointInv
  <2>2. \A p \in points : p.id \in 1..(n + copies) /\ p.at \in 1..now BY <1>1, <1>2, <1>3, <1>9
  <2>3. \A p \in new : p.id \in 1..(n + copies) /\ p.at \in 1..now BY <1>2, <1>3, <1>7
  <2>4. \A p \in points, q \in new : p.id # q.id /\ p.at # q.at BY <1>1, <1>2, <1>3, <1>7, <1>9
  <2>5. \A p, q \in new : p.gauge = q.gauge BY <1>7
  <2>6. \A p \in new : p.gauge \in Int BY <1>4, <1>7
  <2> QED BY <1>8, <1>9, <1>11, <2>1, <2>2, <2>3, <2>4, <2>5, <2>6
<1> QED BY <1>1, <1>3, <1>12 DEF WindowInv

LEMMA WindowStepKeeps == WindowInv /\ [Next]_vars => WindowInv'
<1> SUFFICES ASSUME WindowInv, [Next]_vars PROVE WindowInv' OBVIOUS
<1>1. CASE Happen
  <2>1. /\ now' = now + 1 /\ UNCHANGED <<points, collected>>
        /\ \E e \in Event : truth' = Append(truth, e)
    BY <1>1, SourceAssumption DEF Happen
  <2>2. PointInv' BY <2>1 DEF WindowInv, PointInv
  <2>3. truth' \in Seq(Event) /\ Len(truth') = now' BY <2>1 DEF WindowInv
  <2> QED BY <2>1, <2>2, <2>3 DEF WindowInv
<1>2. CASE Deliver BY <1>2, CollectKeeps DEF Deliver
<1>3. CASE Misdeliver
  <2>1. \E instruments : \E copies \in 0..2 : Collect(instruments, copies)
    <3>1. \/ Collect(Instruments, 0) \/ Collect(Instruments, 2)
          \/ \E i \in Instruments : Collect(Instruments \ {i}, 1)
      BY <1>3 DEF Misdeliver
    <3>2. 0 \in 0..2 /\ 1 \in 0..2 /\ 2 \in 0..2 OBVIOUS
    <3> QED BY <3>1, <3>2, Zenon
  <2> QED BY <2>1, CollectKeeps
<1>4. CASE Restart
  <2>1. collected' = now /\ UNCHANGED <<now, truth, points>> BY <1>4 DEF Restart
  <2>2. \A p \in points : p.at \in 1..now BY DEF WindowInv, PointInv
  <2>3. PointInv' BY <2>1, <2>2 DEF WindowInv, PointInv
  <2> QED BY <2>1, <2>3 DEF WindowInv
<1>5. CASE UNCHANGED vars BY <1>5 DEF vars, WindowInv, PointInv
<1> QED BY <1>1, <1>2, <1>3, <1>4, <1>5 DEF Next

LEMMA WindowInvariance == Spec => []WindowInv
BY WindowInitHolds, WindowStepKeeps, PTL DEF Spec

(***************************************************************************)
(* Gauges: the samples of a window, one for each instant, in order.        *)
(***************************************************************************)

\* S are samples of the window; those of one instant are copies.
Sampled(S) ==
  /\ IsFiniteSet(S)
  /\ \E n \in Nat : \A p \in S : p.id \in 0..n
  /\ \A p \in S : p.at \in Window.start..Window.end /\ p.gauge \in Int
  /\ \A p, q \in S : /\ p.id = q.id => p = q
                     /\ p.at = q.at => p.gauge = q.gauge

\* o are the samples of S, one of each instant, in order of time.
Timeline(o, S) ==
  /\ Len(o) \in Nat /\ (Len(o) = 0 <=> S = {})
  /\ \A k \in 1..Len(o) : o[k] \in S
  /\ \A k, l \in 1..Len(o) : k < l => o[k].at < o[l].at
  /\ \A p \in S : \E k \in 1..Len(o) : o[k].at = p.at

LEMMA WindowTypes ==
  Window.start \in Nat /\ Window.end \in Nat /\ Window.start < Window.end
BY WindowAssumption

\* Of the copies of a sample, the last one holds.
LEMMA HoldingIs ==
  ASSUME NEW S, Sampled(S)
  PROVE  /\ Holding(S) \in SUBSET S
         /\ \A p, q \in Holding(S) : p.at = q.at => p = q
         /\ \A p \in S : \E q \in Holding(S) : q.at = p.at
<1>1. PICK n \in Nat : \A p \in S : p.id \in 0..n BY DEF Sampled
<1>2. ASSUME NEW p \in S PROVE \E q \in Holding(S) : q.at = p.at
  <2> DEFINE I == {q.id : q \in {r \in S : r.at = p.at}}
  <2>1. I \in SUBSET (0..n) /\ I # {} BY <1>1
  <2>2. PICK i \in I : \A j \in I : j <= i
    <3> HIDE DEF I
    <3> QED BY <1>1, <2>1, Largest
  <2>3. PICK q \in S : q.at = p.at /\ q.id = i BY <2>2
  <2>4. q \in Holding(S) BY <2>2, <2>3 DEF Holding
  <2> QED BY <2>3, <2>4
<1>3. ASSUME NEW p \in Holding(S), NEW q \in Holding(S), p.at = q.at PROVE p = q
  <2>1. p \in S /\ q \in S /\ p.id <= q.id /\ q.id <= p.id BY <1>3 DEF Holding
  <2>2. p.id = q.id BY <1>1, <2>1
  <2> QED BY <2>1, <2>2 DEF Sampled
<1>4. Holding(S) \in SUBSET S BY DEF Holding
<1> QED BY <1>2, <1>3, <1>4

\* Points with numbers of their own.
Numbered(S) ==
  /\ IsFiniteSet(S)
  /\ \A p \in S : p.at \in Int /\ p.id \in Int
  /\ \A p, q \in S : p.id = q.id => p = q

\* o are the points of S in order of time.
InTime(o, S) ==
  /\ Cardinality(S) \in Nat /\ Len(o) = Cardinality(S)
  /\ \A k \in 1..Len(o) : o[k] \in S
  /\ \A p \in S : \E k \in 1..Len(o) : o[k] = p
  /\ \A k, l \in 1..Len(o) : k < l => o[k].at <= o[l].at /\ o[k] # o[l]

LEMMA InOrderIs ==
  ASSUME NEW S, Numbered(S)
  PROVE  InTime(InOrder(S), S)
<1> DEFINE B == {e \in S \X S : Earlier(e[1], e[2])}
           o == InOrder(S)
<1>1. IsFiniteSet(S) /\ Cardinality(S) \in Nat BY FS_CardinalityType DEF Numbered
<1>2. \A p, q \in S : <<p, q>> \in B <=> p.at < q.at \/ (p.at = q.at /\ p.id < q.id)
  BY DEF Earlier
<1>3. Orders(B, S)
  <2> HIDE DEF B
  <2>1. \A p \in S : p.at \in Int /\ p.id \in Int BY DEF Numbered
  <2>2. \A p \in S : <<p, p>> \notin B BY <1>2, <2>1
  <2>3. \A p, q, r \in S : <<p, q>> \in B /\ <<q, r>> \in B => <<p, r>> \in B BY <1>2, <2>1
  <2>4. \A p, q \in S : p # q => <<p, q>> \in B \/ <<q, p>> \in B
    <3> SUFFICES ASSUME NEW p \in S, NEW q \in S, p # q PROVE <<p, q>> \in B \/ <<q, p>> \in B
      OBVIOUS
    <3>1. p.id # q.id BY DEF Numbered
    <3> QED BY <1>2, <2>1, <3>1
  <2> QED BY <2>2, <2>3, <2>4 DEF Orders
<1> HIDE DEF B
<1>4. o \in [1..Cardinality(S) -> S]
      /\ \A k \in 1..Cardinality(S) : Cardinality(Preceding(B, S, o[k])) = k - 1
  <2> DEFINE rank(p) == Cardinality({q \in S : Earlier(q, p)})
  <2>1. o = [k \in 1..Cardinality(S) |-> CHOOSE p \in S : rank(p) = k - 1]
    BY DEF InOrder, Sorted
  <2>2. \A p \in S : rank(p) = Cardinality(Preceding(B, S, p))
    <3> SUFFICES ASSUME NEW p \in S PROVE rank(p) = Cardinality(Preceding(B, S, p)) OBVIOUS
    <3>1. {q \in S : Earlier(q, p)} = Preceding(B, S, p) BY DEF Preceding, B
    <3> QED BY <3>1
  <2> HIDE DEF rank, o
  <2>3. ASSUME NEW k \in 1..Cardinality(S)
        PROVE  o[k] \in S /\ Cardinality(Preceding(B, S, o[k])) = k - 1
    <3>1. k - 1 \in 0..(Cardinality(S) - 1) BY <1>1
    <3>2. \E p \in S : Cardinality(Preceding(B, S, p)) = k - 1 BY <1>1, <1>3, <3>1, Numbering
    <3>3. \E p \in S : rank(p) = k - 1 BY <2>2, <3>2
    <3>4. o[k] = CHOOSE p \in S : rank(p) = k - 1 BY <2>1
    <3>5. o[k] \in S /\ rank(o[k]) = k - 1 BY <3>3, <3>4
    <3> QED BY <2>2, <3>5
  <2> QED BY <2>1, <2>3
<1> HIDE DEF o
<1>5. Enumerates(o, B, S) BY <1>1, <1>3, <1>4, SortedIs
<1>6. \A k, l \in 1..Len(o) : k < l => o[k].at <= o[l].at /\ o[k] # o[l]
  <2> SUFFICES ASSUME NEW k \in 1..Len(o), NEW l \in 1..Len(o), k < l
               PROVE  o[k].at <= o[l].at /\ o[k] # o[l]
    OBVIOUS
  <2>1. o[k] \in S /\ o[l] \in S /\ <<o[k], o[l]>> \in B BY <1>5 DEF Enumerates
  <2>2. o[k].at \in Int /\ o[l].at \in Int BY <2>1 DEF Numbered
  <2>3. o[k].at <= o[l].at BY <1>2, <2>1, <2>2
  <2>4. o[k] # o[l]
    <3>1. <<o[k], o[k]>> \notin B BY <1>3, <2>1 DEF Orders
    <3> QED BY <2>1, <3>1
  <2> QED BY <2>3, <2>4
<1>7. InTime(o, S) BY <1>5, <1>6 DEF Enumerates, InTime
<1> QED BY <1>7 DEF o

LEMMA TimelineIs ==
  ASSUME NEW S, Sampled(S)
  PROVE  Timeline(InOrder(Holding(S)), S)
<1> DEFINE H == Holding(S)
           o == InOrder(H)
<1>1. /\ H \in SUBSET S
      /\ \A p, q \in H : p.at = q.at => p = q
      /\ \A p \in S : \E q \in H : q.at = p.at
  BY HoldingIs
<1> HIDE DEF H
<1>2. IsFiniteSet(H) BY <1>1, FS_Subset DEF Sampled
<1>3. \A p \in H : p.at \in Int /\ p.id \in Int BY <1>1, WindowTypes DEF Sampled
<1>4. \A p, q \in H : p.id = q.id => p = q BY <1>1 DEF Sampled
<1>5. InTime(o, H) BY <1>2, <1>3, <1>4, InOrderIs DEF Numbered
<1> HIDE DEF o
<1>6. Len(o) = 0 <=> S = {}
  <2>1. Len(o) = 0 <=> H = {} BY <1>2, <1>5, FS_EmptySet DEF InTime
  <2> QED BY <1>1, <2>1
<1>7. \A k, l \in 1..Len(o) : k < l => o[k].at < o[l].at
  <2> SUFFICES ASSUME NEW k \in 1..Len(o), NEW l \in 1..Len(o), k < l PROVE o[k].at < o[l].at
    OBVIOUS
  <2>1. o[k] \in H /\ o[l] \in H /\ o[k].at <= o[l].at /\ o[k] # o[l] BY <1>5 DEF InTime
  <2>2. o[k].at # o[l].at BY <1>1, <2>1
  <2> QED BY <1>3, <2>1, <2>2
<1>8. \A p \in S : \E k \in 1..Len(o) : o[k].at = p.at BY <1>1, <1>5 DEF InTime
<1>9. Len(o) \in Nat /\ \A k \in 1..Len(o) : o[k] \in S BY <1>1, <1>5 DEF InTime
<1>10. Timeline(o, S) BY <1>6, <1>7, <1>8, <1>9 DEF Timeline
<1> QED BY <1>10 DEF o, H

\* The end of the k-th segment.
Till(o, k) == IF k = Len(o) THEN Window.end ELSE o[k + 1].at

LEMMA TimeTypes ==
  ASSUME NEW S, Sampled(S), NEW o, Timeline(o, S), NEW k \in 1..Len(o)
  PROVE  /\ o[k].at \in Int /\ Till(o, k) \in Int /\ o[k].gauge \in Int
         /\ Window.start <= o[k].at /\ o[k].at <= Till(o, k) /\ Till(o, k) <= Window.end
<1>1. \A l \in 1..Len(o) : /\ o[l].at \in Int /\ o[l].gauge \in Int
                           /\ Window.start <= o[l].at /\ o[l].at <= Window.end
  BY WindowTypes DEF Sampled, Timeline
<1>2. k # Len(o) => k + 1 \in 1..Len(o) /\ o[k].at < o[k + 1].at
  <2>1. k # Len(o) => k + 1 \in 1..Len(o) /\ k < k + 1 BY DEF Timeline
  <2> QED BY <2>1 DEF Timeline
<1> QED BY <1>1, <1>2, WindowTypes DEF Till

\* In the k-th segment the latest sample is the k-th.
LEMMA SegmentIs ==
  ASSUME NEW S, Sampled(S), NEW o, Timeline(o, S), NEW k \in 1..Len(o),
         NEW t \in Int, o[k].at < t, t <= Till(o, k)
  PROVE  /\ \E p \in S : p.at < t
         /\ \A p \in S : p.at < t => p.at <= o[k].at
         /\ LatestOf(S, t).at = o[k].at /\ LatestOf(S, t).gauge = o[k].gauge
<1>1. o[k] \in S /\ o[k].at \in Int BY TimeTypes DEF Timeline
<1>2. ASSUME NEW q \in S, q.at < t PROVE q.at <= o[k].at
  <2>1. PICK l \in 1..Len(o) : o[l].at = q.at BY DEF Timeline
  <2>2. k \in Nat /\ l \in Nat /\ Len(o) \in Nat BY DEF Timeline
  <2>3. CASE l <= k
    <3>1. l < k => o[l].at < o[k].at BY DEF Timeline
    <3>2. l = k \/ l < k BY <2>2, <2>3
    <3>3. o[l].at \in Int BY TimeTypes
    <3> QED BY <1>1, <2>1, <3>1, <3>2, <3>3
  <2>4. CASE k < l
    <3>1. k # Len(o) /\ k + 1 \in 1..Len(o) BY <2>2, <2>4
    <3>2. t <= o[k + 1].at BY <3>1 DEF Till
    <3>3. k + 1 = l \/ k + 1 < l BY <2>2, <2>4
    <3>4. o[k + 1].at <= o[l].at
      <4>1. o[k + 1].at \in Int /\ o[l].at \in Int BY <3>1, TimeTypes
      <4>2. k + 1 < l => o[k + 1].at < o[l].at BY <3>1 DEF Timeline
      <4> QED BY <3>3, <4>1, <4>2
    <3>5. o[k + 1].at \in Int /\ o[l].at \in Int BY <3>1, TimeTypes
    <3> QED BY <1>2, <2>1, <3>2, <3>4, <3>5
  <2> QED BY <2>2, <2>3, <2>4
<1> DEFINE p == LatestOf(S, t)
<1>3. p \in S /\ p.at < t /\ \A q \in S : q.at < t => q.at <= p.at
  BY <1>1, <1>2 DEF LatestOf
<1> HIDE DEF p
<1>4. p.at = o[k].at
  <2>1. p.at \in Int BY <1>3, WindowTypes DEF Sampled
  <2> QED BY <1>1, <1>2, <1>3, <2>1
<1>5. p.gauge = o[k].gauge BY <1>1, <1>3, <1>4 DEF Sampled
<1> QED BY <1>1, <1>2, <1>4, <1>5 DEF p

\* Every slot after the first sample lies in a segment.
LEMMA SegmentOf ==
  ASSUME NEW S, Sampled(S), NEW o, Timeline(o, S), NEW t \in Int, t <= Window.end,
         \E p \in S : p.at < t
  PROVE  \E k \in 1..Len(o) : o[k].at < t /\ t <= Till(o, k)
<1> DEFINE K == {k \in 1..Len(o) : o[k].at < t}
<1>1. Len(o) \in Nat /\ K \in SUBSET (0..Len(o)) BY DEF Timeline
<1>2. K # {}
  <2>1. PICK p \in S : p.at < t OBVIOUS
  <2>2. PICK k \in 1..Len(o) : o[k].at = p.at BY DEF Timeline
  <2> QED BY <2>1, <2>2
<1>3. PICK k \in K : \A l \in K : l <= k
  <2> HIDE DEF K
  <2> QED BY <1>1, <1>2, Largest
<1>4. k # Len(o) => t <= o[k + 1].at
  <2> SUFFICES ASSUME k # Len(o) PROVE t <= o[k + 1].at OBVIOUS
  <2>1. k + 1 \in 1..Len(o) /\ ~(k + 1 <= k) BY <1>1
  <2>2. o[k + 1].at \in Int BY <2>1, TimeTypes
  <2>3. k + 1 \notin K BY <1>3, <2>1
  <2> QED BY <2>1, <2>2, <2>3
<1> QED BY <1>3, <1>4 DEF Till

\* No gap of the samples is too large just when there is always a fresh one.
LEMMA GapsAreFresh ==
  ASSUME NEW S, Sampled(S), S # {}, NEW o, Timeline(o, S), NEW gap \in Nat
  PROVE  (\A g \in GaugeGaps(o) : g <= gap) <=> FreshWithin(S, gap)
<1> DEFINE n == Len(o)
<1>0. n \in Nat /\ 1 \in 1..n /\ n \in 1..n BY DEF Timeline
<1>1. \A k \in 1..n : /\ o[k].at \in Int /\ o[k] \in S /\ Window.start <= o[k].at
                      /\ o[k].at <= Window.end
  BY TimeTypes, WindowTypes DEF Timeline, Sampled
<1>2. Window.start \in Int /\ Window.end \in Int /\ Window.start < Window.end BY WindowTypes
<1>3. \A p \in S : p.at \in Int BY WindowTypes DEF Sampled
<1>4. ASSUME \A g \in GaugeGaps(o) : g <= gap PROVE FreshWithin(S, gap)
  <2> SUFFICES ASSUME NEW t \in WindowSlots
               PROVE  \E at \in {Window.start} \cup {p.at : p \in S} : at < t /\ t - at <= gap
    BY DEF FreshWithin
  <2>1. t \in Int /\ Window.start < t /\ t <= Window.end BY <1>2 DEF WindowSlots
  <2>2. CASE \A p \in S : ~(p.at < t)
    <3>1. o[1].at - Window.start <= gap BY <1>4 DEF GaugeGaps
    <3>2. t <= o[1].at BY <1>0, <1>1, <2>1, <2>2
    <3>3. t - Window.start <= gap BY <1>0, <1>1, <1>2, <2>1, <3>1, <3>2
    <3> QED BY <2>1, <3>3
  <2>3. CASE \E p \in S : p.at < t
    <3>1. PICK k \in 1..n : o[k].at < t /\ t <= Till(o, k) BY <2>1, <2>3, SegmentOf
    <3>2. Till(o, k) - o[k].at <= gap
      <4>1. CASE k = n BY <1>4, <4>1 DEF GaugeGaps, Till
      <4>2. CASE k # n
        <5>1. k \in 1..(Len(o) - 1) BY <1>0, <4>2
        <5> QED BY <1>4, <4>2, <5>1 DEF GaugeGaps, Till
      <4> QED BY <4>1, <4>2
    <3>3. o[k].at \in Int /\ Till(o, k) \in Int BY TimeTypes
    <3>4. t - o[k].at <= gap BY <2>1, <3>1, <3>2, <3>3
    <3>5. o[k].at \in {p.at : p \in S} BY <1>1
    <3> QED BY <3>1, <3>4, <3>5
  <2> QED BY <2>2, <2>3
<1>5. ASSUME FreshWithin(S, gap) PROVE \A g \in GaugeGaps(o) : g <= gap
  <2>1. ASSUME NEW t \in Int, NEW from \in Int, Window.start <= from, from < t, t <= Window.end,
               \A p \in S : p.at < t => p.at <= from
        PROVE  t - from <= gap
    <3>1. t \in WindowSlots BY <1>2, <2>1 DEF WindowSlots
    <3>2. PICK at \in {Window.start} \cup {p.at : p \in S} : at < t /\ t - at <= gap
      BY <1>5, <3>1 DEF FreshWithin
    <3>3. at \in Int /\ at <= from BY <1>2, <1>3, <2>1, <3>2
    <3> QED BY <2>1, <3>2, <3>3
  <2>2. o[1].at - Window.start <= gap
    <3>1. \A p \in S : o[1].at <= p.at
      <4> SUFFICES ASSUME NEW p \in S PROVE o[1].at <= p.at OBVIOUS
      <4>1. PICK k \in 1..n : o[k].at = p.at BY DEF Timeline
      <4>2. 1 < k => o[1].at < o[k].at BY <1>0 DEF Timeline
      <4> QED BY <1>0, <1>1, <4>1, <4>2
    <3>2. \A p \in S : p.at < o[1].at => p.at <= Window.start BY <1>0, <1>1, <1>3, <3>1
    <3>3. CASE Window.start < o[1].at BY <1>0, <1>1, <1>2, <2>1, <3>2, <3>3
    <3>4. CASE o[1].at = Window.start BY <1>2, <3>4
    <3> QED BY <1>0, <1>1, <1>2, <3>3, <3>4
  <2>3. ASSUME NEW k \in 1..n PROVE Till(o, k) - o[k].at <= gap
    <3>1. /\ o[k].at \in Int /\ Till(o, k) \in Int /\ Window.start <= o[k].at
          /\ o[k].at <= Till(o, k) /\ Till(o, k) <= Window.end
      BY TimeTypes
    <3>2. ASSUME o[k].at < Till(o, k) PROVE \A p \in S : p.at < Till(o, k) => p.at <= o[k].at
      BY <3>1, <3>2, SegmentIs
    <3>3. CASE o[k].at < Till(o, k) BY <2>1, <3>1, <3>2, <3>3
    <3>4. CASE o[k].at = Till(o, k) BY <3>1, <3>4
    <3> QED BY <3>1, <3>3, <3>4
  <2>4. Window.end - o[n].at <= gap BY <1>0, <2>3 DEF Till
  <2>5. \A k \in 1..(Len(o) - 1) : o[k + 1].at - o[k].at <= gap
    <3> SUFFICES ASSUME NEW k \in 1..(Len(o) - 1) PROVE o[k + 1].at - o[k].at <= gap OBVIOUS
    <3>1. k \in 1..n /\ k # n BY <1>0
    <3> QED BY <2>3, <3>1 DEF Till
  <2> QED BY <2>2, <2>4, <2>5 DEF GaugeGaps
<1> QED BY <1>4, <1>5

\* The truth of the predicate in the k-th segment, and how long it has lasted
\* when the segment ends.
TruthOf(o, x, k) == Holds(o[k].gauge, "gte", x)

Lasting(h, o, x) ==
  h = [k \in 0..Len(o) |->
         IF k = 0 THEN 0
         ELSE Till(o, k) - o[k].at
                + IF k > 1 /\ TruthOf(o, x, k) = TruthOf(o, x, k - 1) THEN h[k - 1] ELSE 0]

\* There are such lengths.
LEMMA LastingExists ==
  ASSUME NEW S, Sampled(S), NEW o, Timeline(o, S), NEW x \in Int
  PROVE  \E h \in [0..Len(o) -> Int] : Lasting(h, o, x)
<1> DEFINE n == Len(o)
           Longer(k, v) == IF k + 1 \in 1..n
                         THEN Till(o, k + 1) - o[k + 1].at
                                + IF k + 1 > 1 /\ TruthOf(o, x, k + 1) = TruthOf(o, x, k) THEN v ELSE 0
                         ELSE 0
           step == [e \in Nat \X Int |-> Longer(e[1], e[2])]
<1>1. n \in Nat BY DEF Timeline
<1>2. \A k \in Nat, v \in Int : Longer(k, v) \in Int
  <2> SUFFICES ASSUME NEW k \in Nat, NEW v \in Int, k + 1 \in 1..n
               PROVE  Longer(k, v) \in Int
    OBVIOUS
  <2>1. Till(o, k + 1) \in Int /\ o[k + 1].at \in Int BY TimeTypes
  <2> QED BY <2>1
<1> HIDE DEF Longer
<1>3. step \in [Nat \X Int -> Int] BY <1>2
<1>4. PICK f \in [Nat -> Int] : f[0] = 0 /\ \A k \in Nat : f[k + 1] = step[<<k, f[k]>>]
  <2> HIDE DEF step
  <2>0. 0 \in Int OBVIOUS
  <2>1. Recursion(Int, 0, step) # {} BY ONLY <2>0, <1>3, RecursiveFunction
  <2> QED BY <2>1 DEF Recursion
<1>5. \A k \in Nat : f[k + 1] = Longer(k, f[k])
  <2> SUFFICES ASSUME NEW k \in Nat PROVE f[k + 1] = Longer(k, f[k]) OBVIOUS
  <2>1. <<k, f[k]>> \in Nat \X Int BY <1>4
  <2> QED BY <1>4, <2>1
<1> DEFINE h == [k \in 0..n |-> f[k]]
<1>6. h \in [0..n -> Int] BY <1>1, <1>4
<1>7. ASSUME NEW k \in 1..n
      PROVE  h[k] = Till(o, k) - o[k].at
                      + IF k > 1 /\ TruthOf(o, x, k) = TruthOf(o, x, k - 1) THEN h[k - 1] ELSE 0
  <2>1. k - 1 \in Nat /\ (k - 1) + 1 = k /\ k - 1 \in 0..n /\ k \in 0..n BY <1>1
  <2>2. f[k] = Longer(k - 1, f[k - 1]) BY <1>5, <2>1
  <2>3. h[k] = f[k] /\ h[k - 1] = f[k - 1] BY <2>1
  <2> HIDE DEF h
  <2> QED BY <2>1, <2>2, <2>3 DEF Longer
<1>8. Lasting(h, o, x)
  <2>1. h[0] = 0 BY <1>1, <1>4
  <2>2. \A k \in 0..n : k # 0 => k \in 1..n BY <1>1
  <2>3. h = [k \in 0..n |-> h[k]] OBVIOUS
  <2> HIDE DEF h
  <2>4. \A k \in 0..n : h[k] = IF k = 0 THEN 0
          ELSE Till(o, k) - o[k].at
                 + IF k > 1 /\ TruthOf(o, x, k) = TruthOf(o, x, k - 1) THEN h[k - 1] ELSE 0
    BY <1>7, <2>1, <2>2
  <2>5. h = [k \in 0..n |-> IF k = 0 THEN 0
               ELSE Till(o, k) - o[k].at
                 + IF k > 1 /\ TruthOf(o, x, k) = TruthOf(o, x, k - 1) THEN h[k - 1] ELSE 0]
    BY <2>3, <2>4
  <2> QED BY <2>5 DEF Lasting
<1> QED BY <1>6, <1>8

LEMMA ValueInSegment ==
  ASSUME NEW S, Sampled(S), NEW o, Timeline(o, S), NEW x \in Int, NEW k \in 1..Len(o),
         NEW t \in Int, o[k].at < t, t <= Till(o, k), NEW v \in BOOLEAN
  PROVE  ValueIn(S, x, v, t) <=> TruthOf(o, x, k) = v
<1>1. (\E p \in S : p.at < t) /\ LatestOf(S, t).gauge = o[k].gauge BY SegmentIs
<1>2. TruthOf(o, x, k) = (o[k].gauge >= x) BY DEF TruthOf, Holds
<1> QED BY <1>1, <1>2 DEF ValueIn

\* The predicate has kept its value for h[k] slots when the k-th segment ends,
\* and no longer.
LastedFor(S, o, x, h, k) ==
  /\ h[k] \in Nat /\ o[1].at <= Till(o, k) - h[k]
  /\ \A t \in Int : Till(o, k) - h[k] < t /\ t <= Till(o, k)
       => ValueIn(S, x, TruthOf(o, x, k), t)
  /\ \A t \in Int : /\ t <= Till(o, k)
                    /\ \A u \in t..Till(o, k) : ValueIn(S, x, TruthOf(o, x, k), u)
                    => Till(o, k) - t < h[k]

LEMMA LastingIs ==
  ASSUME NEW S, Sampled(S), NEW o, Timeline(o, S), NEW x \in Int,
         NEW h \in [0..Len(o) -> Int], Lasting(h, o, x)
  PROVE  \A k \in 1..Len(o) : LastedFor(S, o, x, h, k)
<1> DEFINE n == Len(o)
           K == {k \in 1..n : ~LastedFor(S, o, x, h, k)}
<1> SUFFICES ASSUME K # {} PROVE FALSE OBVIOUS
<1>1. n \in Nat BY DEF Timeline
<1>2. PICK k \in K : \A l \in K : k <= l
  <2>1. K \in SUBSET Nat OBVIOUS
  <2> HIDE DEF K
  <2> QED BY <2>1, Smallest
<1>3. k \in 1..n /\ ~LastedFor(S, o, x, h, k) OBVIOUS
<1>4. k # 1 => k - 1 \in 1..n /\ LastedFor(S, o, x, h, k - 1)
  <2> SUFFICES ASSUME k # 1 PROVE k - 1 \in 1..n /\ LastedFor(S, o, x, h, k - 1) OBVIOUS
  <2>1. k - 1 \in 1..n /\ ~(k <= k - 1) BY <1>1, <1>3
  <2>2. k - 1 \notin K
    <3> HIDE DEF K
    <3> QED BY <1>2, <2>1
  <2> QED BY <2>1, <2>2
<1> DEFINE v == TruthOf(o, x, k)
           same == k > 1 /\ TruthOf(o, x, k) = TruthOf(o, x, k - 1)
           T == Till(o, k)
           a == o[k].at
<1>5. v \in BOOLEAN BY DEF TruthOf, Holds
<1>6. h[k] = T - a + IF same THEN h[k - 1] ELSE 0
  <2>1. k \in 0..n /\ k # 0 BY <1>1, <1>3
  <2> QED BY <2>1 DEF Lasting
<1>7. a \in Int /\ T \in Int /\ a <= T BY <1>3, TimeTypes
<1>8. 1 \in 1..n /\ o[1].at \in Int /\ o[1].at <= a
  <2>1. 1 \in 1..n /\ (k = 1 \/ 1 < k) BY <1>1, <1>3
  <2>2. 1 < k => o[1].at < o[k].at BY <1>3, <2>1 DEF Timeline
  <2>3. o[1].at \in Int BY <2>1, TimeTypes
  <2> QED BY <1>7, <2>1, <2>2, <2>3
<1>9. k # 1 => Till(o, k - 1) = a BY <1>1, <1>3 DEF Till
<1>10. same => /\ h[k - 1] \in Nat /\ o[1].at <= a - h[k - 1]
               /\ \A t \in Int : a - h[k - 1] < t /\ t <= a => ValueIn(S, x, v, t)
               /\ \A t \in Int : /\ t <= a
                                 /\ \A u \in t..a : ValueIn(S, x, v, u)
                                 => a - t < h[k - 1]
  <2> SUFFICES ASSUME same
               PROVE  /\ h[k - 1] \in Nat /\ o[1].at <= a - h[k - 1]
                      /\ \A t \in Int : a - h[k - 1] < t /\ t <= a => ValueIn(S, x, v, t)
                      /\ \A t \in Int : /\ t <= a
                                        /\ \A u \in t..a : ValueIn(S, x, v, u)
                                        => a - t < h[k - 1]
    OBVIOUS
  <2>1. k # 1 /\ LastedFor(S, o, x, h, k - 1) /\ Till(o, k - 1) = a
        /\ v = TruthOf(o, x, k - 1)
    BY <1>3, <1>4, <1>9
  <2> HIDE DEF v, a
  <2> QED BY <2>1 DEF LastedFor
<1>11. \A t \in Int : a < t /\ t <= T => ValueIn(S, x, v, t)
  BY <1>3, <1>5, ValueInSegment
\* The slot before the segment, if the value was another or there was none.
<1>12. ~same => ~ValueIn(S, x, v, a)
  <2> SUFFICES ASSUME ~same PROVE ~ValueIn(S, x, v, a) OBVIOUS
  <2>1. CASE k = 1
    <3>1. ASSUME NEW p \in S, p.at < a PROVE FALSE
      <4>1. PICK l \in 1..n : o[l].at = p.at BY DEF Timeline
      <4>2. l = 1 \/ 1 < l BY <1>1
      <4>3. 1 < l => o[1].at < o[l].at BY <1>8 DEF Timeline
      <4>4. o[l].at \in Int BY TimeTypes
      <4> QED BY <1>7, <2>1, <3>1, <4>1, <4>2, <4>3, <4>4
    <3> QED BY <3>1 DEF ValueIn
  <2>2. CASE k # 1
    <3>1. k - 1 \in 1..n /\ k > 1 /\ k - 1 < k BY <1>1, <1>3, <2>2
    <3>2. TruthOf(o, x, k - 1) # v BY <3>1
    <3>3. o[k - 1].at < a BY <1>3, <3>1 DEF Timeline
    <3>4. a <= Till(o, k - 1) BY <1>7, <1>9, <2>2
    <3> HIDE DEF v
    <3>5. ValueIn(S, x, v, a) <=> TruthOf(o, x, k - 1) = v
      BY <1>5, <1>7, <3>1, <3>3, <3>4, ValueInSegment
    <3> QED BY <3>2, <3>5
  <2> QED BY <2>1, <2>2
<1> HIDE DEF v, same, T, a
<1>13. h[k] \in Nat /\ o[1].at <= T - h[k] BY <1>6, <1>7, <1>8, <1>10
<1>14. ASSUME NEW t \in Int, T - h[k] < t, t <= T PROVE ValueIn(S, x, v, t)
  <2>1. CASE a < t BY <1>11, <1>14, <2>1
  <2>2. CASE t <= a
    <3>1. same BY <1>6, <1>7, <1>14, <2>2
    <3>2. a - h[k - 1] < t BY <1>6, <1>7, <1>10, <1>14, <3>1
    <3> QED BY <1>10, <2>2, <3>1, <3>2
  <2> QED BY <1>7, <2>1, <2>2
<1>15. ASSUME NEW t \in Int, t <= T, \A u \in t..T : ValueIn(S, x, v, u) PROVE T - t < h[k]
  <2>1. CASE a < t BY <1>6, <1>7, <1>10, <1>15, <2>1
  <2>2. CASE t <= a
    <3>1. a \in t..T BY <1>7, <2>2
    <3>2. same BY <1>12, <1>15, <3>1
    <3>3. \A u \in t..a : ValueIn(S, x, v, u) BY <1>7, <1>15
    <3>4. a - t < h[k - 1] BY <1>10, <2>2, <3>2, <3>3
    <3> QED BY <1>6, <1>7, <1>10, <3>2, <3>4
  <2> QED BY <1>7, <2>1, <2>2
<1>16. LastedFor(S, o, x, h, k) BY <1>13, <1>14, <1>15 DEF LastedFor, v, T
<1> QED BY <1>3, <1>16

\* The greatest of finitely many naturals.
LEMMA GreatestIs ==
  ASSUME NEW N \in Nat, NEW A \in SUBSET (0..N), A # {}
  PROVE  Greatest(A) \in A /\ \A a \in A : a <= Greatest(A)
<1>1. \E a \in A : \A b \in A : b <= a BY Largest
<1> QED BY <1>1 DEF Greatest

\* h says how long the value v has lasted when a segment ends.
LongestAmong(h, S, o, x, v) ==
  /\ \A k \in 1..Len(o) : LastedFor(S, o, x, h, k)
  /\ LongestHold(o, v, "gte", x)
       = Greatest({0} \cup {h[k] : k \in {j \in 1..Len(o) : TruthOf(o, x, j) = v}})

LEMMA LongestIs ==
  ASSUME NEW S, Sampled(S), NEW o, Timeline(o, S), NEW x \in Int, NEW v \in BOOLEAN
  PROVE  \E h : LongestAmong(h, S, o, x, v)
<1> DEFINE h == CHOOSE g : Lasting(g, o, x)
<1>1. Lasting(h, o, x) BY LastingExists
<1>2. LongestHold(o, v, "gte", x)
        = Greatest({0} \cup {h[k] : k \in {j \in 1..Len(o) : TruthOf(o, x, j) = v}})
  BY DEF LongestHold, Lasting, TruthOf, Till
<1>3. h \in [0..Len(o) -> Int]
  <2>1. PICK g \in [0..Len(o) -> Int] : Lasting(g, o, x) BY LastingExists
  <2> DEFINE K == {k \in 0..Len(o) : g[k] # h[k]}
  <2> HIDE DEF h
  <2>2. K = {}
    <3> SUFFICES ASSUME K # {} PROVE FALSE OBVIOUS
    <3>1. PICK k \in K : \A l \in K : k <= l
      <4>1. K \in SUBSET Nat OBVIOUS
      <4> HIDE DEF K
      <4> QED BY <4>1, Smallest
    <3>2. k \in 0..Len(o) /\ Len(o) \in Nat BY DEF Timeline
    <3>3. k # 0 BY <1>1, <2>1, <3>1, <3>2 DEF Lasting
    <3>4. k - 1 \in 0..Len(o) /\ k - 1 \notin K BY <3>1, <3>2, <3>3
    <3>5. g[k - 1] = h[k - 1] BY <3>4
    <3>6. g[k] = h[k] BY <1>1, <2>1, <3>2, <3>3, <3>5 DEF Lasting
    <3> QED BY <3>1, <3>6
  <2>3. h = [k \in 0..Len(o) |-> h[k]] BY <1>1 DEF Lasting
  <2> QED BY <2>1, <2>2, <2>3
<1> HIDE DEF h
<1>4. \A k \in 1..Len(o) : LastedFor(S, o, x, h, k) BY <1>1, <1>3, LastingIs
<1> QED BY <1>2, <1>4 DEF LongestAmong

\* For n slots on end, from t on, the predicate has the value v.
LastsFrom(S, x, v, n, t) ==
  /\ t \in WindowSlots /\ t + n - 1 \in WindowSlots
  /\ \A u \in t..(t + n - 1) : ValueIn(S, x, v, u)

\* The longest time is that of the longest run of slots.
LEMMA LongestMeans ==
  ASSUME NEW S, Sampled(S), NEW o, Timeline(o, S), NEW x \in Int, NEW v \in BOOLEAN
  PROVE  /\ LongestHold(o, v, "gte", x) \in Nat
         /\ \A n \in Nat \ {0} :
              LongestHold(o, v, "gte", x) >= n <=> \E t : LastsFrom(S, x, v, n, t)
<1>0. PICK h : LongestAmong(h, S, o, x, v) BY LongestIs
<1>1. /\ \A k \in 1..Len(o) : LastedFor(S, o, x, h, k)
      /\ LongestHold(o, v, "gte", x)
           = Greatest({0} \cup {h[k] : k \in {j \in 1..Len(o) : TruthOf(o, x, j) = v}})
  BY <1>0 DEF LongestAmong
<1> DEFINE K == {j \in 1..Len(o) : TruthOf(o, x, j) = v}
           A == {0} \cup {h[k] : k \in K}
           L == LongestHold(o, v, "gte", x)
<1>2. ASSUME NEW k \in 1..Len(o)
      PROVE  /\ h[k] \in Nat /\ Till(o, k) \in Int /\ Till(o, k) <= Window.end
             /\ Window.start <= Till(o, k) - h[k]
  <2>1. 1 \in 1..Len(o)
    <3>1. k \in Nat /\ Len(o) \in Nat /\ 1 <= k /\ k <= Len(o) BY DEF Timeline
    <3> QED BY <3>1
  <2>2. Window.start <= o[1].at /\ o[1].at \in Int BY <2>1, TimeTypes
  <2>3. h[k] \in Nat /\ o[1].at <= Till(o, k) - h[k] BY <1>1 DEF LastedFor
  <2>4. Till(o, k) \in Int /\ Till(o, k) <= Window.end BY TimeTypes
  <2> QED BY <2>2, <2>3, <2>4, WindowTypes
<1>3. A \in SUBSET (0..Window.end) /\ A # {} BY <1>2, WindowTypes
<1>4. L \in A /\ \A a \in A : a <= L
  <2>1. L = Greatest(A) BY <1>1
  <2> HIDE DEF A, L
  <2> QED BY <1>3, <2>1, GreatestIs, WindowTypes
<1>5. L \in Nat
  <2> HIDE DEF A, L
  <2> QED BY <1>3, <1>4, WindowTypes
<1>6. ASSUME NEW n \in Nat \ {0}, L >= n PROVE \E t : LastsFrom(S, x, v, n, t)
  <2>1. PICK k \in K : L = h[k]
    <3>1. L # 0 BY <1>5, <1>6
    <3> HIDE DEF L
    <3> QED BY <1>4, <3>1
  <2> DEFINE T == Till(o, k)
             t == T - n + 1
  <2>2. LastedFor(S, o, x, h, k) /\ TruthOf(o, x, k) = v BY <1>1
  <2>3. h[k] \in Nat /\ n <= h[k] BY <1>2, <1>6, <2>1
  <2>4. T \in Int /\ T <= Window.end /\ Window.start <= T - h[k] BY <1>2
  <2>5. t \in WindowSlots /\ t + n - 1 \in WindowSlots /\ t + n - 1 = T
    <3>1. n \in Nat \ {0} BY <1>6
    <3> HIDE DEF A, L, T
    <3> QED BY <2>3, <2>4, <3>1, WindowTypes DEF WindowSlots
  <2>6. ASSUME NEW u \in t..(t + n - 1) PROVE ValueIn(S, x, v, u)
    <3>1. u \in Int /\ T - h[k] < u /\ u <= T BY <2>3, <2>4
    <3> QED BY <2>2, <3>1 DEF LastedFor
  <2> QED BY <2>5, <2>6 DEF LastsFrom
<1>7. ASSUME NEW n \in Nat \ {0}, NEW t, LastsFrom(S, x, v, n, t) PROVE L >= n
  <2> DEFINE e == t + n - 1
  <2>1. t \in Int /\ e \in Int /\ t <= e /\ e <= Window.end
    BY <1>7, WindowTypes DEF LastsFrom, WindowSlots
  <2>2. \A u \in t..e : ValueIn(S, x, v, u) BY <1>7 DEF LastsFrom
  <2>3. ValueIn(S, x, v, e) BY <2>1, <2>2
  <2>4. \E p \in S : p.at < e BY <2>3 DEF ValueIn
  <2> HIDE DEF e
  <2>5. PICK k \in 1..Len(o) : o[k].at < e /\ e <= Till(o, k) BY <2>1, <2>4, SegmentOf
  <2>6. TruthOf(o, x, k) = v BY <2>1, <2>3, <2>5, ValueInSegment
  <2>7. o[k].at \in Int /\ Till(o, k) \in Int BY TimeTypes
  <2>8. ASSUME NEW u \in t..Till(o, k) PROVE ValueIn(S, x, v, u)
    <3>1. u <= e => ValueIn(S, x, v, u) BY <2>1, <2>2, <2>7
    <3>2. ASSUME e < u PROVE ValueIn(S, x, v, u)
      <4>1. u \in Int /\ o[k].at < u /\ u <= Till(o, k) BY <2>1, <2>5, <2>7, <3>2
      <4> QED BY <2>6, <4>1, ValueInSegment
    <3> QED BY <2>1, <2>7, <3>1, <3>2
  <2>9. Till(o, k) - t < h[k]
    <3>1. t <= Till(o, k) BY <2>1, <2>5, <2>7
    <3> QED BY <1>1, <2>1, <2>6, <2>8, <3>1 DEF LastedFor
  <2>10. h[k] <= L
    <3>1. k \in K BY <2>6
    <3>2. h[k] \in A BY <3>1
    <3> HIDE DEF A, L
    <3> QED BY <1>4, <3>2
  <2>11. e = t + n - 1 /\ h[k] \in Nat BY <1>2 DEF e
  <2> HIDE DEF L
  <2> QED BY <1>5, <2>1, <2>5, <2>7, <2>9, <2>10, <2>11
<1> QED BY <1>5, <1>6, <1>7

\* A predicate that always has one value never has the other.
LEMMA NeverOtherwise ==
  ASSUME NEW S, Sampled(S), NEW o, Timeline(o, S), NEW x \in Int, \A p \in S : p.gauge >= x
  PROVE  LongestHold(o, FALSE, "gte", x) = 0
<1>1. PICK h : LongestAmong(h, S, o, x, FALSE) BY LongestIs
<1>2. \A j \in 1..Len(o) : TruthOf(o, x, j) = TRUE BY DEF TruthOf, Holds, Timeline
<1>3. {j \in 1..Len(o) : TruthOf(o, x, j) = FALSE} = {} BY <1>2
<1>4. Greatest({0}) = 0
  <2>1. {0} \in SUBSET (0..0) /\ {0} # {} /\ 0 \in Nat OBVIOUS
  <2> QED BY <2>1, GreatestIs
<1>5. {0} \cup {h[k] : k \in {}} = {0} OBVIOUS
<1> QED BY <1>1, <1>3, <1>4, <1>5 DEF LongestAmong

\* What a duration assertion says of the slots.
OneFreshSeries(S, gap) == Cardinality({p.series : p \in S}) = 1 /\ FreshWithin(S, gap)

LEMMA DurationMeans ==
  ASSUME NEW S, Sampled(S), S # {}, NEW x \in Int, NEW gap \in Nat, NEW d \in Nat
  PROVE  LET Long == DurationAssertion(S, OnDuration(x, gap, "minimum_contiguous", d))
             Short == DurationAssertion(S, OnDuration(x, gap, "maximum_violation", d))
         IN /\ (Long # "error") <=> OneFreshSeries(S, gap)
            /\ (Short # "error") <=> OneFreshSeries(S, gap)
            /\ OneFreshSeries(S, gap) =>
                 /\ d # 0 => (Long = "passed" <=> \E t : LastsFrom(S, x, TRUE, d, t))
                 /\ Short = "passed" <=> ~\E t : LastsFrom(S, x, FALSE, d + 1, t)
            /\ (\A p \in S : p.gauge >= x) => Short # "failed"
<1> DEFINE o == InOrder(Holding(S))
           one == Cardinality({p.series : p \in S}) = 1
           held == LongestHold(o, TRUE, "gte", x)
           missed == LongestHold(o, FALSE, "gte", x)
           Long == DurationAssertion(S, OnDuration(x, gap, "minimum_contiguous", d))
           Short == DurationAssertion(S, OnDuration(x, gap, "maximum_violation", d))
           fresh == FreshWithin(S, gap)
<1>1. Timeline(o, S) BY TimelineIs
<1>2. Long = IF ~one THEN "error"
             ELSE IF \E g \in GaugeGaps(o) : g > gap THEN "error"
             ELSE IF held >= d THEN "passed" ELSE "failed"
  BY DEF DurationAssertion, OnDuration
<1>3. Short = IF ~one THEN "error"
              ELSE IF \E g \in GaugeGaps(o) : g > gap THEN "error"
              ELSE IF missed <= d THEN "passed" ELSE "failed"
  BY DEF DurationAssertion, OnDuration
<1> HIDE DEF o, one, Long, Short
<1>4. (\E g \in GaugeGaps(o) : g > gap) <=> ~fresh
  <2>1. (\A g \in GaugeGaps(o) : g <= gap) <=> fresh BY <1>1, GapsAreFresh
  <2>2. \A g \in GaugeGaps(o) : g \in Int
    <3>1. Len(o) \in Nat /\ Len(o) # 0 BY <1>1 DEF Timeline
    <3>2. 1 \in 1..Len(o) /\ Len(o) \in 1..Len(o)
          /\ \A k \in 1..(Len(o) - 1) : k \in 1..Len(o) /\ k + 1 \in 1..Len(o)
      BY <3>1
    <3>3. \A k \in 1..Len(o) : o[k].at \in Int BY <1>1, TimeTypes
    <3>4. \A k \in 1..(Len(o) - 1) : o[k].at \in Int /\ o[k + 1].at \in Int BY <3>2, <3>3
    <3>5. o[1].at - Window.start \in Int /\ Window.end - o[Len(o)].at \in Int
      BY <3>2, <3>3, WindowTypes
    <3> QED BY <3>4, <3>5 DEF GaugeGaps
  <2>3. \A g \in GaugeGaps(o) : g > gap <=> ~(g <= gap) BY <2>2
  <2> QED BY <2>1, <2>3
<1> HIDE DEF fresh, held, missed
<1>5. held \in Nat /\ (d # 0 => (held >= d <=> \E t : LastsFrom(S, x, TRUE, d, t)))
  BY <1>1, LongestMeans DEF held
<1>6. missed \in Nat /\ (missed >= d + 1 <=> \E t : LastsFrom(S, x, FALSE, d + 1, t))
  <2>1. d + 1 \in Nat \ {0} /\ FALSE \in BOOLEAN OBVIOUS
  <2> QED BY <1>1, <2>1, LongestMeans DEF missed
<1>7. missed <= d <=> ~\E t : LastsFrom(S, x, FALSE, d + 1, t)
  <2>1. missed <= d <=> ~(missed >= d + 1) BY <1>6
  <2> QED BY <1>6, <2>1
<1>8. ASSUME \A p \in S : p.gauge >= x PROVE Short # "failed"
  <2>1. missed = 0 BY <1>1, <1>8, NeverOtherwise DEF missed
  <2> QED BY <1>3, <2>1
<1>9. OneFreshSeries(S, gap) <=> one /\ fresh BY DEF OneFreshSeries, one, fresh
<1>10. (Long # "error") <=> OneFreshSeries(S, gap) BY <1>2, <1>4, <1>9
<1>11. (Short # "error") <=> OneFreshSeries(S, gap) BY <1>3, <1>4, <1>9
<1>12. OneFreshSeries(S, gap) =>
         (d # 0 => (Long = "passed" <=> \E t : LastsFrom(S, x, TRUE, d, t)))
  BY <1>2, <1>4, <1>5, <1>9
<1>13. OneFreshSeries(S, gap) => (Short = "passed" <=> ~\E t : LastsFrom(S, x, FALSE, d + 1, t))
  BY <1>3, <1>4, <1>7, <1>9
<1> QED BY <1>8, <1>10, <1>11, <1>12, <1>13 DEF Long, Short
(***************************************************************************)
(* Statistics of gauge samples.                                            *)
(***************************************************************************)

LEMMA ValuesAre ==
  ASSUME NEW S, Sampled(S), S # {}
  PROVE  LET v == Values(S)
         IN /\ Len(v) \in Nat /\ Len(v) # 0 /\ v \in [1..Len(v) -> Int]
            /\ \A k \in 1..Len(v) : v[1] <= v[k] /\ v[k] <= v[Len(v)]
            /\ \A p \in S : \E k \in 1..Len(v) : v[k] = p.gauge
<1> DEFINE B == {e \in S \X S : Lower(e[1], e[2])}
           o == Sorted(S, Lower)
           n == Cardinality(S)
           v == Values(S)
<1>1. IsFiniteSet(S) /\ n \in Nat /\ n # 0 BY FS_CardinalityType, FS_EmptySet DEF Sampled
<1>2. \A p \in S : p.id \in Int /\ p.gauge \in Int BY DEF Sampled
<1>3. \A p, q \in S : p.id = q.id => p = q BY DEF Sampled
<1>4. \A p, q \in S : <<p, q>> \in B <=> Lower(p, q) OBVIOUS
<1> HIDE DEF B
<1>5. Orders(B, S)
  <2>1. \A p \in S : <<p, p>> \notin B BY <1>2, <1>4 DEF Lower
  <2>2. \A p, q, r \in S : <<p, q>> \in B /\ <<q, r>> \in B => <<p, r>> \in B
    BY <1>2, <1>4 DEF Lower
  <2>3. \A p, q \in S : p # q => <<p, q>> \in B \/ <<q, p>> \in B BY <1>2, <1>3, <1>4 DEF Lower
  <2> QED BY <2>1, <2>2, <2>3 DEF Orders
<1>6. o \in [1..n -> S]
      /\ \A k \in 1..n : Cardinality(Preceding(B, S, o[k])) = k - 1
  <2> DEFINE rank(p) == Cardinality({q \in S : Lower(q, p)})
  <2>1. o = [k \in 1..n |-> CHOOSE p \in S : rank(p) = k - 1]
    BY DEF Sorted
  <2>2. \A p \in S : rank(p) = Cardinality(Preceding(B, S, p))
    <3> SUFFICES ASSUME NEW p \in S PROVE rank(p) = Cardinality(Preceding(B, S, p)) OBVIOUS
    <3>1. {q \in S : Lower(q, p)} = Preceding(B, S, p) BY DEF Preceding, B
    <3> QED BY <3>1
  <2> HIDE DEF rank, o
  <2>3. ASSUME NEW k \in 1..n
        PROVE  o[k] \in S /\ Cardinality(Preceding(B, S, o[k])) = k - 1
    <3>1. k - 1 \in 0..(n - 1) BY <1>1
    <3>2. \E p \in S : Cardinality(Preceding(B, S, p)) = k - 1 BY <1>1, <1>5, <3>1, Numbering
    <3>3. \E p \in S : rank(p) = k - 1 BY <2>2, <3>2
    <3>4. o[k] = CHOOSE p \in S : rank(p) = k - 1 BY <2>1
    <3>5. o[k] \in S /\ rank(o[k]) = k - 1 BY <3>3, <3>4
    <3> QED BY <2>2, <3>5
  <2> QED BY <2>1, <2>3
<1> HIDE DEF o, n
<1>7. Enumerates(o, B, S)
  <2>1. o \in [1..Cardinality(S) -> S]
        /\ \A k \in 1..Cardinality(S) : Cardinality(Preceding(B, S, o[k])) = k - 1
    BY <1>6 DEF n
  <2> QED BY <1>1, <1>5, <2>1, SortedIs
<1>8. v = [k \in 1..n |-> o[k].gauge]
  <2>1. v = [k \in DOMAIN o |-> o[k].gauge] BY DEF Values, o
  <2> QED BY <1>6, <2>1
<1> HIDE DEF v
<1>9. v \in [1..n -> Int] BY <1>2, <1>6, <1>8
<1>10. Len(v) = n BY <1>1, <1>9, AsSequence
<1>11. \A k, l \in 1..n : k <= l => v[k] <= v[l]
  <2> SUFFICES ASSUME NEW k \in 1..n, NEW l \in 1..n, k <= l PROVE v[k] <= v[l] OBVIOUS
  <2>1. k < l => Lower(o[k], o[l]) BY <1>4, <1>6, <1>7 DEF Enumerates, n
  <2>2. v[k] \in Int /\ v[l] \in Int /\ v[k] = o[k].gauge /\ v[l] = o[l].gauge BY <1>8, <1>9
  <2>3. k < l \/ k = l OBVIOUS
  <2> QED BY <2>1, <2>2, <2>3 DEF Lower
<1>12. \A p \in S : \E k \in 1..n : v[k] = p.gauge
  <2> SUFFICES ASSUME NEW p \in S PROVE \E k \in 1..n : v[k] = p.gauge OBVIOUS
  <2>1. PICK k \in 1..n : o[k] = p BY <1>7 DEF Enumerates, n
  <2> QED BY <1>8, <2>1
<1>13. \A k \in 1..n : v[1] <= v[k] /\ v[k] <= v[n]
  <2>1. 1 \in 1..n /\ n \in 1..n /\ \A k \in 1..n : 1 <= k /\ k <= n BY <1>1
  <2> QED BY <1>11, <2>1
<1> QED BY <1>1, <1>9, <1>10, <1>12, <1>13 DEF v

\* Statistics of integers in order.
LEMMA StatisticsAreBetween ==
  ASSUME NEW v, NEW n \in Nat, n # 0, Len(v) = n, v \in [1..n -> Int], NEW x \in Int,
         NEW aggregation \in {"mean", "p50"}
  PROVE  LET verdict == Compare(ScalarStatistic(v, aggregation), "gte", x)
         IN /\ (\A k \in 1..n : x <= v[k]) => verdict = "passed"
            /\ (\A k \in 1..n : v[k] < x) => verdict = "failed"
<1>1. ASSUME NEW e, NEW m \in Int, NEW c \in Int, e = Exactly(m, c)
      PROVE  /\ x * c <= m => Compare(e, "gte", x) = "passed"
             /\ m < x * c => Compare(e, "gte", x) = "failed"
  <2>1. x * c \in Int OBVIOUS
  <2> DEFINE limit == x * c
  <2>2. Compare(e, "gte", x) = IF m >= limit THEN "passed" ELSE IF m < limit THEN "failed" ELSE "skipped"
    BY <1>1 DEF Compare, Exactly
  <2> HIDE DEF limit
  <2> QED BY <2>1, <2>2 DEF limit
<1>2. CASE aggregation = "mean"
  <2> DEFINE total == SumFunctionOnSet(v, 1..n)
  <2>1. ScalarStatistic(v, aggregation) = Exactly(total, n)
    <3>1. DOMAIN v = 1..n OBVIOUS
    <3>2. Total(v) = total BY <3>1 DEF Total, SumFunction
    <3> HIDE DEF total
    <3> QED BY <1>2, <3>2 DEF ScalarStatistic
  <2>2. IsFiniteSet(1..n) /\ Cardinality(1..n) = n
    <3>1. 1 \in Int /\ n \in Int OBVIOUS
    <3>2. Cardinality(1..n) = IF 1 > n THEN 0 ELSE n - 1 + 1 BY <3>1, FS_Interval
    <3> QED BY <3>1, <3>2, FS_Interval
  <2>3. 1..n \in SUBSET (1..n) /\ 1 \in 1..n OBVIOUS
  <2>4. /\ total \in Int
        /\ (\A k \in 1..n : x <= v[k]) => x * n <= total
        /\ (\A k \in 1..n : v[k] < x) => total < x * n
    BY <2>2, <2>3, SumBounds
  <2> HIDE DEF total
  <2>5. n \in Int OBVIOUS
  <2> QED BY <1>1, <2>1, <2>4, <2>5
<1>3. CASE aggregation = "p50"
  <2> DEFINE low == (n - 1) \div 2 + 1
             part == (n - 1) % 2
             m == v[low] * 2 + (IF part = 0 THEN 0 ELSE (v[low + 1] - v[low]) * part)
  <2>1. ScalarStatistic(v, aggregation) = Exactly(m, 2)
    BY <1>3 DEF ScalarStatistic, Percentile, Level
  <2>2. low \in 1..n /\ part \in {0, 1} /\ (part = 1 => low + 1 \in 1..n) BY SMTT(30)
  <2>3. v[low] \in Int /\ (part = 1 => v[low + 1] \in Int) BY <2>2
  <2>4. m = IF part = 0 THEN v[low] + v[low] ELSE v[low] + v[low + 1]
    <3> DEFINE a == v[low]
               b == v[low + 1]
    <3>1. part = 0 => m = a * 2 + 0 OBVIOUS
    <3>2. part = 1 => m = a * 2 + (b - a) * 1 OBVIOUS
    <3>3. a \in Int /\ (part = 1 => b \in Int) BY <2>3
    <3>4. part = 0 \/ part = 1 BY <2>2
    <3> HIDE DEF a, b, m, part
    <3>5. part = 0 => m = a + a BY <3>1, <3>3
    <3>6. part = 1 => m = a + b BY <3>2, <3>3
    <3>7. m = IF part = 0 THEN a + a ELSE a + b BY <3>4, <3>5, <3>6
    <3> QED BY <3>7 DEF a, b
  <2> HIDE DEF low, part, m
  <2>5. m \in Int BY <2>2, <2>3, <2>4
  <2>6. (\A k \in 1..n : x <= v[k]) => x * 2 <= m BY <2>2, <2>3, <2>4
  <2>7. (\A k \in 1..n : v[k] < x) => m < x * 2 BY <2>2, <2>3, <2>4
  <2>8. 2 \in Int OBVIOUS
  <2> QED BY <1>1, <2>1, <2>5, <2>6, <2>7, <2>8
<1> QED BY <1>2, <1>3

\* An assertion on a statistic of gauge samples.
LEMMA StatisticVerdict ==
  ASSUME NEW P, NEW S, S = Samples(P), S # {},
         NEW aggregation, NEW x
  PROVE  MetricAssertion(P, "gauge", None, OnStatistic(aggregation, "gte", x))
           = Compare(ScalarStatistic(Values(S), aggregation), "gte", x)
BY DEF Samples, MetricAssertion, OnStatistic, Judged, GenericAggregate

LEMMA DurationVerdict ==
  ASSUME NEW P, NEW S, S = Samples(P),
         NEW gap, NEW requirement, NEW d, NEW x
  PROVE  MetricAssertion(P, "gauge", None, OnDuration(x, gap, requirement, d))
           = IF S = {} THEN "error" ELSE DurationAssertion(S, OnDuration(x, gap, requirement, d))
BY DEF Samples, MetricAssertion, OnDuration

\* The least and the greatest sample bound the others.
LEMMA ExtremesBound ==
  ASSUME NEW S, Sampled(S), S # {}, NEW x \in Int
  PROVE  LET Said(aggregation) == Compare(ScalarStatistic(Values(S), aggregation), "gte", x)
         IN /\ Said("min") = "passed" => /\ \A p \in S : p.gauge >= x
                                       /\ Said("mean") = "passed" /\ Said("p50") = "passed"
            /\ Said("max") = "failed" => Said("mean") = "failed" /\ Said("p50") = "failed"
<1> DEFINE v == Values(S)
           n == Len(v)
           Said(aggregation) == Compare(ScalarStatistic(v, aggregation), "gte", x)
<1>1. /\ n \in Nat /\ n # 0 /\ v \in [1..n -> Int]
      /\ \A k \in 1..n : v[1] <= v[k] /\ v[k] <= v[n]
      /\ \A p \in S : \E k \in 1..n : v[k] = p.gauge
  BY ValuesAre
<1> HIDE DEF v
<1>2. v[1] \in Int /\ v[n] \in Int
  <2>1. 1 \in 1..n /\ n \in 1..n BY <1>1
  <2> QED BY <1>1, <2>1
<1>3. Said("min") = "passed" => x <= v[1]
  <2>1. ScalarStatistic(v, "min") = Exactly(v[1], 1) BY DEF ScalarStatistic
  <2> QED BY <1>2, <2>1 DEF Compare, Exactly
<1>4. Said("max") = "failed" => v[n] < x
  <2>1. ScalarStatistic(v, "max") = Exactly(v[n], 1) BY DEF ScalarStatistic
  <2> QED BY <1>2, <2>1 DEF Compare, Exactly
<1> HIDE DEF n
<1>5. ASSUME NEW aggregation \in {"mean", "p50"}
      PROVE  /\ (\A k \in 1..n : x <= v[k]) => Said(aggregation) = "passed"
             /\ (\A k \in 1..n : v[k] < x) => Said(aggregation) = "failed"
  <2>1. Len(v) = n BY DEF n
  <2> QED BY <1>1, <2>1, StatisticsAreBetween
<1> HIDE DEF Said
<1>6. ASSUME Said("min") = "passed"
      PROVE  (\A p \in S : p.gauge >= x) /\ Said("mean") = "passed" /\ Said("p50") = "passed"
  <2>1. \A k \in 1..n : x <= v[k]
    <3> SUFFICES ASSUME NEW k \in 1..n PROVE x <= v[k] OBVIOUS
    <3>1. v[k] \in Int /\ v[1] <= v[k] BY <1>1
    <3> QED BY <1>2, <1>3, <1>6, <3>1
  <2>2. \A p \in S : p.gauge >= x
    <3> SUFFICES ASSUME NEW p \in S PROVE p.gauge >= x OBVIOUS
    <3>1. PICK k \in 1..n : v[k] = p.gauge BY <1>1
    <3>2. v[k] \in Int BY <1>1
    <3> QED BY <2>1, <3>1, <3>2
  <2> QED BY <1>5, <2>1, <2>2
<1>7. ASSUME Said("max") = "failed" PROVE Said("mean") = "failed" /\ Said("p50") = "failed"
  <2>1. \A k \in 1..n : v[k] < x
    <3> SUFFICES ASSUME NEW k \in 1..n PROVE v[k] < x OBVIOUS
    <3>1. v[k] \in Int /\ v[k] <= v[n] BY <1>1
    <3> QED BY <1>2, <1>4, <1>7, <3>1
  <2> QED BY <1>5, <2>1
<1> QED BY <1>6, <1>7 DEF Said, v

LEMMA SamplesAreSampled ==
  ASSUME WindowInv
  PROVE  Sampled(Samples(PointsOf("gauge")))
<1> DEFINE S == Samples(PointsOf("gauge"))
<1>1. S \in SUBSET points BY DEF Samples, PointsOf
<1>2. PointInv /\ collected \in Nat BY DEF WindowInv
<1>3. IsFiniteSet(S) BY <1>1, <1>2, FS_Subset DEF PointInv
<1>4. Cardinality(points) \in Nat BY <1>2, FS_CardinalityType DEF PointInv
<1>5. \A p \in S : /\ p.id \in 0..Cardinality(points) /\ p.gauge \in Int
                   /\ p.at \in Window.start..Window.end
  <2> SUFFICES ASSUME NEW p \in S
               PROVE  /\ p.id \in 0..Cardinality(points) /\ p.gauge \in Int
                      /\ p.at \in Window.start..Window.end
    OBVIOUS
  <2>1. p \in points /\ Window.start <= p.at /\ p.at <= Window.end BY <1>1 DEF Samples
  <2>2. p.id \in 1..Cardinality(points) /\ p.at \in 1..collected /\ p.gauge \in Int
    BY <1>2, <2>1 DEF PointInv
  <2> QED BY <1>2, <1>4, <2>1, <2>2, WindowTypes
<1>6. \A p, q \in S : (p.id = q.id => p = q) /\ (p.at = q.at => p.gauge = q.gauge)
  BY <1>1, <1>2 DEF PointInv
<1> HIDE DEF S
<1>7. Sampled(S) BY <1>3, <1>4, <1>5, <1>6 DEF Sampled
<1> QED BY <1>7 DEF S

\* Runs of slots, as the property and as the lemmas have them.
LEMMA RunOfSlots ==
  ASSUME NEW S, NEW n, NEW x, NEW v
  PROVE  Lasts(S, n, x, v) <=> \E t : LastsFrom(S, x, v, n, t)
BY DEF Lasts, LastsFrom

LEMMA DurationsAreHeld == WindowInv => DurationIsHeld
<1> SUFFICES ASSUME WindowInv PROVE DurationIsHeld OBVIOUS
<1> DEFINE P == PointsOf("gauge")
           S == Samples(P)
           Verdict(a) == MetricAssertion(P, "gauge", None, a)
           Statistics(aggregations, x, verdict) ==
             \A a \in aggregations : Verdict(OnStatistic(a, "gte", x)) = verdict
           On(x, gap, requirement, n) == Verdict(OnDuration(x, gap, requirement, n))
<1>1. Sampled(S) BY SamplesAreSampled
<1>2. \A x \in Ages : x \in Int BY EventType DEF Ages
<1>3. ASSUME NEW x \in Ages, NEW gap \in Nat, NEW n \in Nat, n # 0
      PROVE  /\ (On(x, gap, "minimum_contiguous", n) # "error") <=> OneFreshSeries(S, gap)
             /\ (On(x, gap, "maximum_violation", n) # "error") <=> OneFreshSeries(S, gap)
             /\ OneFreshSeries(S, gap) =>
                  /\ On(x, gap, "minimum_contiguous", n) = "passed" <=> Lasts(S, n, x, TRUE)
                  /\ On(x, gap, "maximum_violation", n) = "passed" <=> ~Lasts(S, n + 1, x, FALSE)
  <2> DEFINE Ask(requirement) == DurationAssertion(S, OnDuration(x, gap, requirement, n))
  <2>1. \A r : On(x, gap, r, n) = IF S = {} THEN "error" ELSE Ask(r) BY DurationVerdict
  <2>2. S = {} => ~OneFreshSeries(S, gap)
    <3>1. S = {} => {p.series : p \in S} = {} OBVIOUS
    <3> QED BY <3>1, FS_EmptySet DEF OneFreshSeries
  <2>3. ASSUME S # {}
        PROVE  /\ (Ask("minimum_contiguous") # "error") <=> OneFreshSeries(S, gap)
               /\ (Ask("maximum_violation") # "error") <=> OneFreshSeries(S, gap)
               /\ OneFreshSeries(S, gap) =>
                    /\ Ask("minimum_contiguous") = "passed" <=> Lasts(S, n, x, TRUE)
                    /\ Ask("maximum_violation") = "passed" <=> ~Lasts(S, n + 1, x, FALSE)
    <3> HIDE DEF S
    <3>1. x \in Int BY <1>2
    <3> QED BY <1>1, <1>3, <2>3, <3>1, DurationMeans, RunOfSlots
  <2> HIDE DEF Ask, S, On
  <2> QED BY <2>1, <2>2, <2>3
<1>4. ASSUME NEW x \in Ages
      PROVE  /\ Statistics({"min"}, x, "passed") =>
                  /\ On(x, 2, "maximum_violation", 0) # "failed"
                  /\ Statistics({"mean", "p50"}, x, "passed")
             /\ Statistics({"max"}, x, "failed") => Statistics({"mean", "p50"}, x, "failed")
  <2>1. CASE S = {}
    <3>1. \A a : Verdict(OnStatistic(a, "gte", x)) = "error"
      BY <2>1 DEF MetricAssertion, Samples
    <3> HIDE DEF Verdict
    <3> QED BY <3>1
  <2>2. CASE S # {}
    <3> DEFINE Said(aggregation) == Compare(ScalarStatistic(Values(S), aggregation), "gte", x)
    <3>1. \A a : Verdict(OnStatistic(a, "gte", x)) = Said(a) BY <2>2, StatisticVerdict
    <3>2. On(x, 2, "maximum_violation", 0)
            = DurationAssertion(S, OnDuration(x, 2, "maximum_violation", 0))
      BY <2>2, DurationVerdict
    <3> HIDE DEF S, On, Verdict
    <3>3. x \in Int /\ 2 \in Nat /\ 0 \in Nat BY <1>2
    <3>4. /\ Said("min") = "passed" => /\ \A p \in S : p.gauge >= x
                                     /\ Said("mean") = "passed" /\ Said("p50") = "passed"
          /\ Said("max") = "failed" => Said("mean") = "failed" /\ Said("p50") = "failed"
      BY <1>1, <2>2, <3>3, ExtremesBound
    <3>5. (\A p \in S : p.gauge >= x) => On(x, 2, "maximum_violation", 0) # "failed"
      BY <1>1, <2>2, <3>2, <3>3, DurationMeans
    <3> HIDE DEF Said
    <3> QED BY <3>1, <3>4, <3>5
  <2> QED BY <2>1, <2>2
<1>5. ASSUME NEW x \in Ages, NEW gap \in 1..2
      PROVE  LET n == 3 - gap
                 long == On(x, gap, "minimum_contiguous", n)
                 short == On(x, gap, "maximum_violation", n)
                 decided == OneFreshSeries(S, gap)
             IN /\ (long # "error" <=> decided) /\ (short # "error" <=> decided)
                /\ decided => (long = "passed" <=> Lasts(S, n, x, TRUE))
                /\ decided => (short = "passed" <=> ~Lasts(S, n + 1, x, FALSE))
  <2>1. gap \in Nat /\ 3 - gap \in Nat /\ 3 - gap # 0 OBVIOUS
  <2> HIDE DEF S, On
  <2> QED BY <1>3, <2>1
<1> QED BY <1>4, <1>5 DEF DurationIsHeld, OneFreshSeries

\* Duration assertions and statistics of gauges say what the samples show
\* (metrics.py 135-165 and 828-1046), for every window and every process.
THEOREM DurationsHeld == Spec => []DurationIsHeld
BY WindowInvariance, DurationsAreHeld, PTL
-----------------------------------------------------------------------------
(***************************************************************************)
(* MetricWindow: what is measured of slots adds up.                        *)
(***************************************************************************)

\* m measures the subsets of T, and the parts of one add up to it.
Additive(m, T) ==
  /\ IsFiniteSet(T) /\ m \in [SUBSET T -> Int] /\ m[{}] = 0
  /\ \A A, B \in SUBSET T : A \cap B = {} => m[A \cup B] = m[A] + m[B]

\* What m measures of the parts g, and what they are together.
Measures(m, g, C) == [c \in C |-> m[g[c]]]
WholeOf(g, C) == UNION {g[c] : c \in C}

\* The parts of a partition add up to the whole.
LEMMA SumOfParts ==
  ASSUME NEW T, NEW m, Additive(m, T), NEW C, IsFiniteSet(C), NEW g \in [C -> SUBSET T],
         \A c, d \in C : c # d => g[c] \cap g[d] = {}
  PROVE  Total(Measures(m, g, C)) = m[WholeOf(g, C)]
<1> DEFINE f == [c \in C |-> m[g[c]]]
           Part(D) == UNION {g[c] : c \in D}
           Wrong(D) == D \in SUBSET C /\ SumFunctionOnSet(f, D) # m[Part(D)]
           N == {n \in Nat : \E D : Wrong(D) /\ Cardinality(D) = n}
<1>0. Total(Measures(m, g, C)) = SumFunctionOnSet(f, C) /\ WholeOf(g, C) = Part(C)
  BY DEF Total, SumFunction, Measures, WholeOf
<1> SUFFICES ASSUME Wrong(C) PROVE FALSE BY <1>0
<1>1. f \in [C -> Int] BY DEF Additive
<1>2. Cardinality(C) \in N BY FS_CardinalityType
<1>3. PICK n \in N : \A k \in N : n <= k
  <2>1. N \in SUBSET Nat OBVIOUS
  <2> HIDE DEF N
  <2> QED BY <1>2, <2>1, Smallest
<1>4. PICK D : Wrong(D) /\ Cardinality(D) = n BY <1>3
<1>5. IsFiniteSet(D) /\ D \in SUBSET C BY <1>4, FS_Subset
<1>6. D # {}
  <2>1. ASSUME D = {} PROVE FALSE
    <3>1. Part(D) = {} BY <2>1
    <3>2. SumFunctionOnSet(f, D) = 0 BY <1>1, <1>5, <2>1, SumChosen
    <3> QED BY <1>4, <3>1, <3>2 DEF Additive
  <2> QED BY <2>1
<1>7. PICK x \in D : TRUE BY <1>6
<1> DEFINE E == D \ {x}
<1>8. SumFunctionOnSet(f, D) = f[x] + SumFunctionOnSet(f, E) BY <1>1, <1>5, SumStep
<1>9. ~Wrong(E)
  <2>1. /\ Cardinality(D) \in Nat /\ Cardinality(D) # 0 /\ IsFiniteSet(E)
        /\ Cardinality(E) = Cardinality(D) - 1
    BY <1>5, Fewer
  <2>2. Cardinality(E) \in Nat /\ ~(n <= Cardinality(E)) BY <1>4, <2>1
  <2> HIDE DEF E, Wrong
  <2> QED BY <1>3, <2>2
<1>10. SumFunctionOnSet(f, E) = m[Part(E)]
  <2>1. E \in SUBSET C BY <1>5
  <2> HIDE DEF E, Part, f
  <2> QED BY <1>9, <2>1 DEF Wrong
<1>11. Part(D) = g[x] \cup Part(E) /\ g[x] \cap Part(E) = {}
  <2>1. \A c \in E : g[x] \cap g[c] = {} BY <1>5
  <2> QED BY <2>1
<1>12. g[x] \in SUBSET T /\ Part(E) \in SUBSET T BY <1>5
<1>13. m[Part(D)] = m[g[x]] + m[Part(E)]
  <2> HIDE DEF Part
  <2> QED BY <1>11, <1>12 DEF Additive
<1> QED BY <1>4, <1>5, <1>8, <1>10, <1>13

\* How many there are of a kind, and the sum of a function, are such measures.
LEMMA CountAdds ==
  ASSUME NEW T, IsFiniteSet(T), NEW K
  PROVE  Additive([A \in SUBSET T |-> Cardinality(A \cap K)], T)
<1> DEFINE m == [A \in SUBSET T |-> Cardinality(A \cap K)]
<1>1. \A A \in SUBSET T : IsFiniteSet(A \cap K) /\ m[A] \in Int
  <2>1. \A A \in SUBSET T : A \cap K \in SUBSET T OBVIOUS
  <2>2. \A A \in SUBSET T : IsFiniteSet(A \cap K) BY <2>1, FS_Subset
  <2>3. \A A \in SUBSET T : Cardinality(A \cap K) \in Int BY <2>2, FS_CardinalityType
  <2>4. \A A \in SUBSET T : m[A] = Cardinality(A \cap K) OBVIOUS
  <2> HIDE DEF m
  <2> QED BY <2>2, <2>3, <2>4
<1>2. m[{}] = 0
  <2>1. {} \cap K = {} OBVIOUS
  <2> QED BY <2>1, FS_EmptySet
<1>3. ASSUME NEW A \in SUBSET T, NEW B \in SUBSET T, A \cap B = {}
      PROVE  m[A \cup B] = m[A] + m[B]
  <2>1. (A \cup B) \cap K = (A \cap K) \cup (B \cap K) /\ (A \cap K) \cap (B \cap K) = {}
    BY <1>3
  <2>2. Cardinality((A \cap K) \cup (B \cap K))
          = Cardinality(A \cap K) + Cardinality(B \cap K) - Cardinality((A \cap K) \cap (B \cap K))
    BY <1>1, FS_Union
  <2>3. Cardinality(A \cap K) \in Int /\ Cardinality(B \cap K) \in Int BY <1>1
  <2>4. Cardinality((A \cap K) \cap (B \cap K)) = 0 BY <2>1, FS_EmptySet
  <2>5. A \cup B \in SUBSET T OBVIOUS
  <2> DEFINE a == Cardinality(A \cap K)
             b == Cardinality(B \cap K)
             c == Cardinality((A \cap K) \cap (B \cap K))
  <2>6. m[A \cup B] = Cardinality((A \cap K) \cup (B \cap K)) /\ m[A] = a /\ m[B] = b
    BY <2>1, <2>5
  <2>7. m[A \cup B] = a + b - c BY <2>2, <2>6
  <2>8. a \in Int /\ b \in Int /\ c = 0 BY <2>3, <2>4
  <2> HIDE DEF m, a, b, c
  <2> QED BY <2>6, <2>7, <2>8
<1>4. m \in [SUBSET T -> Int] BY <1>1
<1> HIDE DEF m
<1>5. Additive(m, T) BY <1>2, <1>3, <1>4 DEF Additive
<1> QED BY <1>5 DEF m

LEMMA SumAdds ==
  ASSUME NEW T, IsFiniteSet(T), NEW f \in [T -> Int]
  PROVE  Additive([A \in SUBSET T |-> SumFunctionOnSet(f, A)], T)
<1> DEFINE m == [A \in SUBSET T |-> SumFunctionOnSet(f, A)]
           Wrong(A) == /\ A \in SUBSET T
                       /\ \E B \in SUBSET T : A \cap B = {} /\ m[A \cup B] # m[A] + m[B]
           N == {n \in Nat : \E A : Wrong(A) /\ Cardinality(A) = n}
<1>1. \A A \in SUBSET T : IsFiniteSet(A) /\ m[A] \in Int
  <2>1. \A A \in SUBSET T : IsFiniteSet(A) BY FS_Subset
  <2> QED BY <2>1, SumChosen
<1>2. m[{}] = 0
  <2>1. {} \in SUBSET T /\ IsFiniteSet({}) BY FS_EmptySet
  <2> QED BY <2>1, SumChosen
<1>3. \A A : ~Wrong(A)
  <2> SUFFICES ASSUME NEW A0, Wrong(A0) PROVE FALSE OBVIOUS
  <2>1. Cardinality(A0) \in N BY <1>1, FS_CardinalityType
  <2>2. PICK n \in N : \A k \in N : n <= k
    <3>1. N \in SUBSET Nat OBVIOUS
    <3> HIDE DEF N
    <3> QED BY <2>1, <3>1, Smallest
  <2>3. PICK A : Wrong(A) /\ Cardinality(A) = n BY <2>2
  <2>4. PICK B \in SUBSET T : A \cap B = {} /\ m[A \cup B] # m[A] + m[B] BY <2>3
  <2>5. A \in SUBSET T /\ IsFiniteSet(A) BY <1>1, <2>3
  <2>6. A # {}
    <3>1. ASSUME A = {} PROVE FALSE
      <4> HIDE DEF m
      <4>1. A \cup B = B /\ m[B] \in Int /\ m[A] = 0 BY <1>1, <1>2, <3>1
      <4>2. m[A \cup B] = m[B] BY <4>1
      <4>3. m[A] + m[B] = m[B] BY <4>1
      <4> QED BY <2>4, <4>2, <4>3
    <3> QED BY <3>1
  <2>7. PICK x \in A : TRUE BY <2>6
  <2> DEFINE E == A \ {x}
  <2>8. ~Wrong(E) /\ E \in SUBSET T
    <3>1. /\ Cardinality(A) \in Nat /\ Cardinality(A) # 0 /\ IsFiniteSet(E)
          /\ Cardinality(E) = Cardinality(A) - 1
      BY <2>5, Fewer
    <3>2. Cardinality(E) \in Nat /\ ~(n <= Cardinality(E)) BY <2>3, <3>1
    <3>3. E \in SUBSET T BY <2>5
    <3> HIDE DEF E, Wrong
    <3> QED BY <2>2, <3>2, <3>3
  <2>9. m[E \cup B] = m[E] + m[B]
    <3>1. E \cap B = {} BY <2>4
    <3> HIDE DEF E, m
    <3> QED BY <2>8, <3>1
  <2>10. (A \cup B) \ {x} = E \cup B /\ x \in A \cup B /\ x \in A /\ A \cup B \in SUBSET T
    BY <2>4, <2>5, <2>7
  <2>11. IsFiniteSet(A \cup B) BY <1>1, <2>10
  <2>12. m[A \cup B] = f[x] + m[E \cup B]
    <3>1. SumFunctionOnSet(f, A \cup B) = f[x] + SumFunctionOnSet(f, (A \cup B) \ {x})
      BY <2>10, <2>11, SumStep
    <3>2. E \cup B \in SUBSET T BY <2>5
    <3> QED BY <2>10, <3>1, <3>2
  <2>13. m[A] = f[x] + m[E]
    <3>1. SumFunctionOnSet(f, A) = f[x] + SumFunctionOnSet(f, A \ {x}) BY <2>5, <2>7, SumStep
    <3>2. E \in SUBSET T BY <2>5
    <3> QED BY <2>5, <3>1, <3>2
  <2>14. f[x] \in Int /\ m[E] \in Int /\ m[B] \in Int
    <3>1. f[x] \in Int BY <2>5
    <3> HIDE DEF m, E
    <3> QED BY <1>1, <2>8, <3>1
  <2> HIDE DEF m, E
  <2> QED BY <2>4, <2>9, <2>12, <2>13, <2>14
<1>4. m \in [SUBSET T -> Int] BY <1>1
<1> HIDE DEF m
<1>5. Additive(m, T) BY <1>2, <1>3, <1>4 DEF Additive
<1> QED BY <1>5 DEF m

\* Sums agree where the functions do.
LEMMA SumAgrees ==
  ASSUME NEW D, NEW f \in [D -> Int], NEW E, NEW g \in [E -> Int], NEW S \in SUBSET (D \cap E),
         IsFiniteSet(S), \A x \in S : f[x] = g[x]
  PROVE  SumFunctionOnSet(f, S) = SumFunctionOnSet(g, S)
<1> DEFINE Wrong(A) == A \in SUBSET S /\ SumFunctionOnSet(f, A) # SumFunctionOnSet(g, A)
           N == {n \in Nat : \E A : Wrong(A) /\ Cardinality(A) = n}
<1> SUFFICES ASSUME Wrong(S) PROVE FALSE OBVIOUS
<1>1. Cardinality(S) \in N BY FS_CardinalityType
<1>2. PICK n \in N : \A k \in N : n <= k
  <2>1. N \in SUBSET Nat OBVIOUS
  <2> HIDE DEF N
  <2> QED BY <1>1, <2>1, Smallest
<1>3. PICK A : Wrong(A) /\ Cardinality(A) = n BY <1>2
<1>4. IsFiniteSet(A) /\ A \in SUBSET D /\ A \in SUBSET E BY <1>3, FS_Subset
<1> DEFINE x == Pick(A)
           B == A \ {x}
<1>5. A # {}
  <2>1. ASSUME A = {} PROVE SumFunctionOnSet(f, A) = 0 BY <1>4, <2>1, SumChosen
  <2>2. ASSUME A = {} PROVE SumFunctionOnSet(g, A) = 0 BY <1>4, <2>2, SumChosen
  <2> QED BY <1>3, <2>1, <2>2
<1>6. x \in A BY <1>5 DEF Pick
<1>7. SumFunctionOnSet(f, A) = f[x] + SumFunctionOnSet(f, B) BY <1>4, <1>5, SumChosen
<1>8. SumFunctionOnSet(g, A) = g[x] + SumFunctionOnSet(g, B) BY <1>4, <1>5, SumChosen
<1>9. ~Wrong(B)
  <2> HIDE DEF x
  <2>1. /\ Cardinality(A) \in Nat /\ Cardinality(A) # 0 /\ IsFiniteSet(B)
        /\ Cardinality(B) = Cardinality(A) - 1
    BY <1>4, <1>6, Fewer
  <2>2. Cardinality(B) \in Nat /\ ~(n <= Cardinality(B)) BY <1>3, <2>1
  <2> HIDE DEF B, Wrong
  <2> QED BY <1>2, <2>2
<1>10. B \in SUBSET S /\ f[x] = g[x] BY <1>3, <1>6
<1> HIDE DEF x, B
<1> QED BY <1>3, <1>7, <1>8, <1>9, <1>10

\* A finite set of integers has a least and a greatest member.
LEMMA ExtremesAre ==
  ASSUME NEW S \in SUBSET Int, IsFiniteSet(S), S # {}
  PROVE  /\ Least(S) \in S /\ \A x \in S : Least(S) <= x
         /\ Greatest(S) \in S /\ \A x \in S : x <= Greatest(S)
<1>1. \E x \in S : \A y \in S : x <= y BY LeastInteger
<1>2. \E x \in S : \A y \in S : y <= x
  <2> DEFINE T == {0 - x : x \in S}
             f == [x \in S |-> 0 - x]
  <2>0. \A x \in S : 0 - x \in Int OBVIOUS
  <2>1. T \in SUBSET Int /\ T # {} BY <2>0
  <2>2. f \in Surjection(S, T)
    <3>1. f \in [S -> T] /\ \A t \in T : \E x \in S : f[x] = t OBVIOUS
    <3> QED BY <3>1 DEF Surjection
  <2> HIDE DEF f
  <2>3. IsFiniteSet(T)
    <3> HIDE DEF T
    <3> QED BY <2>2, FS_Surjection
  <2>4. PICK z \in T : \A y \in T : z <= y
    <3> HIDE DEF T
    <3> QED BY <2>1, <2>3, LeastInteger
  <2>5. PICK x \in S : z = 0 - x OBVIOUS
  <2>6. ASSUME NEW y \in S PROVE y <= x
    <3>1. 0 - x <= 0 - y BY <2>4, <2>5
    <3>2. x \in Int /\ y \in Int OBVIOUS
    <3> QED BY <3>1, <3>2
  <2> QED BY <2>6
<1> QED BY <1>1, <1>2 DEF Least, Greatest
-----------------------------------------------------------------------------
(***************************************************************************)
(* MetricWindow: histograms and the messages they describe.                *)
(***************************************************************************)

\* Boundaries of buckets.
Ladder(b) == b \in Seq(Int) /\ \A j, k \in DOMAIN b : j < k => b[j] < b[k]

\* Slots the source has been through.
Past == 1..now

Age == [t \in Past |-> truth[t].age]

AgesIn(R) == {truth[t].age : t \in R}

InBucket(b, k) == {t \in Past : BucketOf(b, truth[t].age) = k}

\* The histogram h is that of the messages received in the slots R; it may lack
\* a summary.
Describes(h, R) ==
  /\ Ladder(h.bounds)
  /\ h.count = Cardinality(R)
  /\ h.buckets = [k \in 1..(Len(h.bounds) + 1) |-> Cardinality(R \cap InBucket(h.bounds, k))]
  /\ h.sum \in {None, SumFunctionOnSet(Age, R)}
  /\ h.min # None => R # {} /\ h.min = Least(AgesIn(R))
  /\ h.max # None => R # {} /\ h.max = Greatest(AgesIn(R))

LEMMA PastTypes ==
  ASSUME WindowInv
  PROVE  /\ IsFiniteSet(Past) /\ Past \subseteq Int
         /\ \A t \in Past : truth[t] \in Event /\ truth[t].age \in (-Infinity)..Infinity
         /\ Age \in [Past -> Int] /\ \A t \in Past : Age[t] = truth[t].age
<1>1. now \in Nat /\ truth \in Seq(Event) /\ Len(truth) = now BY DEF WindowInv
<1>2. IsFiniteSet(Past) BY <1>1, FS_Interval DEF Past
<1>3. \A t \in Past : truth[t] \in Event BY <1>1 DEF Past
<1>4. \A t \in Past : truth[t].age \in (-Infinity)..Infinity BY <1>3, SourceAssumption
<1>5. \A t \in Past : truth[t].age \in Int BY <1>4, WindowAssumption
<1>6. Age \in [Past -> Int] BY <1>5 DEF Age
<1>7. \A t \in Past : Age[t] = truth[t].age BY DEF Age
<1>8. Past \subseteq Int BY <1>1 DEF Past
<1> QED BY <1>2, <1>3, <1>4, <1>6, <1>7, <1>8

\* What is known of a part of the past.
LEMMA PartTypes ==
  ASSUME WindowInv, NEW R \in SUBSET Past
  PROVE  /\ IsFiniteSet(R) /\ Cardinality(R) \in Nat /\ (Cardinality(R) = 0 <=> R = {})
         /\ AgesIn(R) \in SUBSET Int /\ IsFiniteSet(AgesIn(R)) /\ (AgesIn(R) = {} <=> R = {})
         /\ SumFunctionOnSet(Age, R) \in Int /\ (R = {} => SumFunctionOnSet(Age, R) = 0)
<1>1. IsFiniteSet(R) BY PastTypes, FS_Subset
<1>2. Cardinality(R) \in Nat /\ (Cardinality(R) = 0 <=> R = {})
  BY <1>1, FS_CardinalityType, FS_EmptySet
<1>3. AgesIn(R) \in SUBSET Int
  <2>1. \A t \in R : t \in Past /\ Age[t] \in Int /\ Age[t] = truth[t].age BY PastTypes
  <2> QED BY <2>1 DEF AgesIn
<1>4. IsFiniteSet(AgesIn(R))
  <2> DEFINE f == [t \in R |-> truth[t].age]
  <2>1. f \in Surjection(R, AgesIn(R))
    <3>1. f \in [R -> AgesIn(R)] /\ \A a \in AgesIn(R) : \E t \in R : f[t] = a BY DEF AgesIn
    <3> QED BY <3>1 DEF Surjection
  <2> HIDE DEF f
  <2> QED BY <1>1, <2>1, FS_Surjection
<1>5. AgesIn(R) = {} <=> R = {} BY DEF AgesIn
<1>6. SumFunctionOnSet(Age, R) \in Int /\ (R = {} => SumFunctionOnSet(Age, R) = 0)
  BY <1>1, PastTypes, SumChosen
<1> QED BY <1>1, <1>2, <1>3, <1>4, <1>5, <1>6

\* AgeSum is a sum over the past.
LEMMA AgeSumIs ==
  ASSUME WindowInv, NEW R \in SUBSET Past
  PROVE  AgeSum(R) = SumFunctionOnSet(Age, R)
<1> DEFINE f == [t \in R |-> truth[t].age]
<1>1. \A t \in R : t \in Past /\ Age[t] \in Int /\ f[t] = Age[t] BY PastTypes
<1>2. f \in [R -> Int] /\ DOMAIN f = R BY <1>1
<1>3. AgeSum(R) = SumFunctionOnSet(f, R) BY <1>2 DEF AgeSum, Total, SumFunction
<1>4. R \in SUBSET (Past \cap R) /\ IsFiniteSet(R) /\ Age \in [Past -> Int] BY PastTypes, PartTypes
<1> HIDE DEF f
<1>5. SumFunctionOnSet(f, R) = SumFunctionOnSet(Age, R) BY <1>1, <1>2, <1>4, SumAgrees
<1> QED BY <1>3, <1>5

\* The bucket of a value: the boundary below it, and the one not below it.
LEMMA BucketIs ==
  ASSUME NEW b, Ladder(b), NEW v \in Int
  PROVE  /\ Len(b) \in Nat /\ DOMAIN b = 1..Len(b)
         /\ BucketOf(b, v) \in 1..(Len(b) + 1)
         /\ BucketOf(b, v) > 1 => b[BucketOf(b, v) - 1] < v
         /\ BucketOf(b, v) <= Len(b) => v <= b[BucketOf(b, v)]
<1> DEFINE n == Len(b)
           J == {j \in DOMAIN b : b[j] < v}
           k == Cardinality(J)
<1>1. n \in Nat /\ DOMAIN b = 1..n /\ \A j \in 1..n : b[j] \in Int BY DEF Ladder
<1>2. \A m \in Nat : IsFiniteSet(1..m) /\ Cardinality(1..m) = m
  <2> SUFFICES ASSUME NEW m \in Nat PROVE IsFiniteSet(1..m) /\ Cardinality(1..m) = m OBVIOUS
  <2>1. Cardinality(1..m) = IF 1 > m THEN 0 ELSE m - 1 + 1 BY FS_Interval
  <2>2. IsFiniteSet(1..m) BY FS_Interval
  <2> QED BY <2>1, <2>2
<1>3. J \in SUBSET (1..n) BY <1>1
<1> HIDE DEF n
<1>4. IsFiniteSet(J) /\ k \in Nat /\ k <= n
  <2> HIDE DEF J
  <2>1. IsFiniteSet(J) /\ Cardinality(J) <= Cardinality(1..n) BY <1>1, <1>2, <1>3, FS_Subset
  <2> QED BY <1>1, <1>2, <2>1, FS_CardinalityType
<1>5. \A i, j \in 1..n : i < j => b[i] < b[j] BY <1>1 DEF Ladder
<1>6. ASSUME k > 0 PROVE b[k] < v
  <2>1. k \in 1..n BY <1>1, <1>4, <1>6
  <2>0. SUFFICES ASSUME ~(b[k] < v) PROVE FALSE OBVIOUS
  <2>2. J \in SUBSET (1..(k - 1))
    <3> SUFFICES ASSUME NEW j \in J PROVE j \in 1..(k - 1) OBVIOUS
    <3>1. j \in 1..n /\ b[j] < v BY <1>1
    <3> HIDE DEF k
    <3>2. ~(k < j) /\ k # j
      <4>1. k < j => b[k] < b[j] BY <1>5, <2>1, <3>1
      <4>2. b[k] \in Int /\ b[j] \in Int BY <1>1, <2>1, <3>1
      <4>3. k = j => b[k] = b[j] OBVIOUS
      <4> QED BY <2>0, <3>1, <4>1, <4>2, <4>3
    <3> QED BY <2>1, <3>1, <3>2
  <2>3. k - 1 \in Nat BY <2>1
  <2> HIDE DEF J
  <2>4. Cardinality(J) <= Cardinality(1..(k - 1)) BY <1>2, <2>2, <2>3, FS_Subset
  <2>5. k <= k - 1 BY <1>2, <2>3, <2>4
  <2> QED BY <1>4, <2>5
<1>7. ASSUME k < n PROVE v <= b[k + 1]
  <2>1. k + 1 \in 1..n BY <1>1, <1>4, <1>7
  <2>0. SUFFICES ASSUME ~(v <= b[k + 1]) PROVE FALSE OBVIOUS
  <2>2. 1..(k + 1) \in SUBSET J
    <3> SUFFICES ASSUME NEW j \in 1..(k + 1) PROVE j \in J OBVIOUS
    <3> HIDE DEF k
    <3>1. j \in 1..n /\ (j = k + 1 \/ j < k + 1) BY <1>1, <1>4, <2>1
    <3>2. b[j] \in Int /\ b[k + 1] \in Int /\ (j < k + 1 => b[j] < b[k + 1]) BY <1>1, <1>5, <2>1, <3>1
    <3>3. b[j] < v BY <2>0, <3>1, <3>2
    <3> QED BY <1>1, <3>1, <3>3
  <2> HIDE DEF J
  <2>3. Cardinality(1..(k + 1)) <= Cardinality(J) BY <1>4, <2>2, FS_Subset
  <2>4. k + 1 <= k BY <1>2, <1>4, <2>3
  <2> QED BY <1>4, <2>4
<1>8. BucketOf(b, v) = 1 + k BY DEF BucketOf
<1> HIDE DEF k
<1> QED BY <1>1, <1>4, <1>6, <1>7, <1>8 DEF n

\* A greater value is in no lower bucket.
LEMMA BucketsAscend ==
  ASSUME NEW b, Ladder(b), NEW u \in Int, NEW v \in Int, u <= v
  PROVE  BucketOf(b, u) <= BucketOf(b, v)
<1> DEFINE i == BucketOf(b, u)
           j == BucketOf(b, v)
           n == Len(b)
<1>1. /\ n \in Nat /\ DOMAIN b = 1..n /\ i \in 1..(n + 1) /\ j \in 1..(n + 1)
      /\ i > 1 => b[i - 1] < u
      /\ j <= n => v <= b[j]
  BY BucketIs
<1>2. \A k \in 1..n : b[k] \in Int BY <1>1 DEF Ladder
<1>3. \A k, l \in 1..n : k < l => b[k] < b[l] BY <1>1 DEF Ladder
<1> HIDE DEF i, j, n
<1> SUFFICES ASSUME j < i PROVE FALSE BY <1>1 DEF i, j
<1>4. i - 1 \in 1..n /\ j \in 1..n /\ (j < i - 1 \/ j = i - 1) /\ i > 1 /\ j <= n BY <1>1
<1>5. b[j] <= b[i - 1]
  <2>1. b[j] \in Int /\ b[i - 1] \in Int BY <1>2, <1>4
  <2>2. j = i - 1 => b[j] = b[i - 1] OBVIOUS
  <2>3. j < i - 1 => b[j] < b[i - 1] BY <1>3, <1>4
  <2> QED BY <1>4, <2>1, <2>2, <2>3
<1>6. b[j] \in Int /\ b[i - 1] \in Int BY <1>2, <1>4
<1> QED BY <1>1, <1>4, <1>5, <1>6

\* The first k buckets add up to the messages in them.
LEMMA BucketsAddUp ==
  ASSUME WindowInv, NEW R \in SUBSET Past, NEW h, Describes(h, R),
         NEW k \in 0..(Len(h.bounds) + 1)
  PROVE  Total([j \in 1..k |-> h.buckets[j]])
           = Cardinality({t \in R : BucketOf(h.bounds, truth[t].age) <= k})
<1> DEFINE b == h.bounds
           m == [A \in SUBSET Past |-> Cardinality(A \cap R)]
           g == [j \in 1..k |-> InBucket(b, j)]
<1>1. Ladder(b) /\ Len(b) \in Nat BY BucketIs DEF Describes, Ladder
<1>2. Additive(m, Past) BY PastTypes, CountAdds
<1>3. g \in [1..k -> SUBSET Past] BY DEF InBucket
<1>4. \A c, d \in 1..k : c # d => g[c] \cap g[d] = {} BY DEF InBucket
<1>5. IsFiniteSet(1..k) BY <1>1, FS_Interval
<1>6. Total([j \in 1..k |-> m[g[j]]]) = m[UNION {g[j] : j \in 1..k}]
  <2> DEFINE C == 1..k
  <2>1. IsFiniteSet(C) /\ g \in [C -> SUBSET Past] BY <1>3, <1>5
  <2>2. \A c, d \in C : c # d => g[c] \cap g[d] = {} BY <1>4
  <2> HIDE DEF m, g, C
  <2>3. Total(Measures(m, g, C)) = m[WholeOf(g, C)] BY <1>2, <2>1, <2>2, SumOfParts
  <2> QED BY <2>3 DEF C, Measures, WholeOf
<1>7. ASSUME NEW j \in 1..k PROVE m[g[j]] = h.buckets[j]
  <2>1. j \in 1..(Len(b) + 1) BY <1>1
  <2>2. h.buckets[j] = Cardinality(R \cap InBucket(b, j)) BY <2>1 DEF Describes
  <2>3. m[g[j]] = Cardinality(InBucket(b, j) \cap R) BY <1>3
  <2>4. R \cap InBucket(b, j) = InBucket(b, j) \cap R OBVIOUS
  <2> QED BY <2>2, <2>3, <2>4
<1>8. [j \in 1..k |-> m[g[j]]] = [j \in 1..k |-> h.buckets[j]] BY <1>7
<1>9. (UNION {g[j] : j \in 1..k}) \cap R = {t \in R : BucketOf(b, truth[t].age) <= k}
  <2>1. ASSUME NEW t \in R PROVE BucketOf(b, truth[t].age) \in 1..(Len(b) + 1)
    <3>1. truth[t].age \in Int BY PastTypes
    <3> QED BY <1>1, <3>1, BucketIs
  <2>2. \A t \in R : t \in UNION {g[j] : j \in 1..k} <=> \E j \in 1..k : t \in InBucket(b, j)
    OBVIOUS
  <2>3. \A t \in R : (\E j \in 1..k : t \in InBucket(b, j)) <=> BucketOf(b, truth[t].age) \in 1..k
    BY DEF InBucket
  <2>4. \A t \in R : BucketOf(b, truth[t].age) \in 1..k <=> BucketOf(b, truth[t].age) <= k
    BY <1>1, <2>1
  <2> HIDE DEF g
  <2>5. \A t \in R : t \in UNION {g[j] : j \in 1..k} <=> BucketOf(b, truth[t].age) <= k
    BY <2>2, <2>3, <2>4
  <2> QED BY <2>5
<1>10. UNION {g[j] : j \in 1..k} \in SUBSET Past BY <1>3
<1>11. m[UNION {g[j] : j \in 1..k}] = Cardinality((UNION {g[j] : j \in 1..k}) \cap R)
  <2> HIDE DEF g
  <2> QED BY <1>10
<1> HIDE DEF m, g
<1> QED BY <1>6, <1>8, <1>9, <1>11

Upto(R, v) == {t \in R : truth[t].age <= v}

\* v is the age of the message at this rank.
HasRank(R, rank, v) ==
  /\ v \in AgesIn(R) /\ rank \in Nat \ {0}
  /\ Cardinality(Upto(R, v)) >= rank
  /\ \A u \in AgesIn(R) : u < v => Cardinality(Upto(R, u)) < rank

\* The bucket of a rank is that of the message.
LEMMA RankBucketIs ==
  ASSUME WindowInv, NEW R \in SUBSET Past, NEW h, Describes(h, R),
         NEW rank, NEW v, HasRank(R, rank, v)
  PROVE  RankBucket(h, rank) = BucketOf(h.bounds, v)
<1> DEFINE b == h.bounds
           First(k) == {t \in R : BucketOf(b, truth[t].age) <= k}
           K == {k \in DOMAIN h.buckets : Total([j \in 1..k |-> h.buckets[j]]) >= rank}
           last == BucketOf(b, v)
<1>1. Ladder(b) /\ Len(b) \in Nat /\ DOMAIN h.buckets = 1..(Len(b) + 1)
  <2>1. Ladder(b) BY DEF Describes
  <2>2. Len(b) \in Nat BY <2>1, BucketIs
  <2>3. DOMAIN h.buckets = 1..(Len(b) + 1) BY DEF Describes
  <2> QED BY <2>1, <2>2, <2>3
<1>2. \A t \in R : truth[t].age \in Int BY PastTypes
<1>3. v \in Int /\ \A u \in AgesIn(R) : u \in Int BY <1>2 DEF HasRank, AgesIn
<1>4. last \in 1..(Len(b) + 1) BY <1>1, <1>3, BucketIs
<1>5. \A k \in DOMAIN h.buckets : k \in K <=> Cardinality(First(k)) >= rank
  <2> SUFFICES ASSUME NEW k \in DOMAIN h.buckets
               PROVE  k \in K <=> Cardinality(First(k)) >= rank
    OBVIOUS
  <2>1. k \in 0..(Len(b) + 1) BY <1>1
  <2> HIDE DEF First
  <2>2. Total([j \in 1..k |-> h.buckets[j]]) = Cardinality(First(k))
    BY <2>1, BucketsAddUp DEF First
  <2> QED BY <2>2
<1>6. \A A \in SUBSET R : IsFiniteSet(A) /\ Cardinality(A) \in Nat /\ (A = {} => Cardinality(A) = 0)
  <2> SUFFICES ASSUME NEW A \in SUBSET R
               PROVE  IsFiniteSet(A) /\ Cardinality(A) \in Nat /\ (A = {} => Cardinality(A) = 0)
    OBVIOUS
  <2>1. A \in SUBSET Past OBVIOUS
  <2> QED BY <2>1, PartTypes
<1>7. \A A, B \in SUBSET R : A \subseteq B => Cardinality(A) <= Cardinality(B) BY <1>6, FS_Subset
<1>8. last \in K
  <2>1. Upto(R, v) \in SUBSET R /\ First(last) \in SUBSET R BY DEF Upto
  <2>2. Upto(R, v) \subseteq First(last)
    <3> SUFFICES ASSUME NEW t \in R, truth[t].age <= v PROVE t \in First(last) BY DEF Upto
    <3>1. truth[t].age \in Int BY <1>2
    <3>2. BucketOf(b, truth[t].age) <= BucketOf(b, v) BY <1>1, <1>3, <3>1, BucketsAscend
    <3> QED BY <3>2
  <2> HIDE DEF First, K, last
  <2>3. Cardinality(Upto(R, v)) <= Cardinality(First(last)) BY <1>7, <2>1, <2>2
  <2>4. Cardinality(Upto(R, v)) \in Int /\ Cardinality(First(last)) \in Int BY <1>6, <2>1
  <2>5. Cardinality(First(last)) >= rank BY <2>3, <2>4 DEF HasRank
  <2> QED BY <1>1, <1>4, <1>5, <2>5
<1>9. ASSUME NEW k \in K PROVE last <= k
  <2> SUFFICES ASSUME k < last PROVE FALSE BY <1>1, <1>4
  <2>1. First(k) \in SUBSET R OBVIOUS
  <2>2. Cardinality(First(k)) >= rank /\ Cardinality(First(k)) \in Nat
    <3> HIDE DEF First
    <3> QED BY <1>5, <1>6, <2>1
  <2>3. First(k) # {}
    <3> HIDE DEF First
    <3> QED BY <1>6, <2>1, <2>2 DEF HasRank
  <2> DEFINE u == Greatest(AgesIn(First(k)))
  <2>4. u \in AgesIn(First(k)) /\ \A a \in AgesIn(First(k)) : a <= u
    <3>1. First(k) \in SUBSET Past BY <2>1
    <3> HIDE DEF First
    <3> QED BY <2>3, <3>1, PartTypes, ExtremesAre
  <2> HIDE DEF u
  <2>5. u \in AgesIn(R) /\ u \in Int /\ BucketOf(b, u) <= k BY <1>2, <2>4 DEF AgesIn
  <2>6. u < v
    <3> SUFFICES ASSUME v <= u PROVE FALSE BY <1>3, <2>5
    <3>1. BucketOf(b, v) <= BucketOf(b, u) BY <1>1, <1>3, <2>5, BucketsAscend
    <3>2. BucketOf(b, u) \in Int BY <1>1, <2>5, BucketIs
    <3> QED BY <1>1, <1>4, <2>5, <3>1, <3>2
  <2>7. First(k) \subseteq Upto(R, u) BY <2>4 DEF Upto, AgesIn
  <2>8. Cardinality(First(k)) <= Cardinality(Upto(R, u)) /\ Cardinality(Upto(R, u)) \in Nat
    <3>1. Upto(R, u) \in SUBSET R BY DEF Upto
    <3> HIDE DEF First
    <3> QED BY <1>6, <1>7, <2>1, <2>7, <3>1
  <2>9. Cardinality(Upto(R, u)) < rank BY <2>5, <2>6 DEF HasRank
  <2> QED BY <2>2, <2>8, <2>9 DEF HasRank
<1>10. K \in SUBSET Int BY <1>1
<1> HIDE DEF K, last
<1>11. Least(K) = last
  <2>1. Least(K) \in K /\ \A k \in K : Least(K) <= k BY <1>8, <1>9 DEF Least
  <2>2. Least(K) <= last /\ last <= Least(K) BY <1>8, <1>9, <2>1
  <2>3. Least(K) \in Int /\ last \in Int BY <1>8, <1>10, <2>1
  <2> QED BY <2>2, <2>3
<1> QED BY <1>11 DEF RankBucket, K, last

\* v lies within the bounds e; what is not negative is known to be at least 0.
Encloses(e, v, nonnegative) ==
  /\ e.lower \in Int /\ e.upper \in Int /\ e.over = 1 /\ e.above \in BOOLEAN
  /\ v <= e.upper
  /\ e.lower <= v \/ (nonnegative /\ e.lower = 0)
  /\ e.above => e.lower < v

LEMMA EstimateEncloses ==
  ASSUME WindowInv, NEW R \in SUBSET Past, NEW h, Describes(h, R),
         NEW v \in AgesIn(R), NEW nonnegative \in BOOLEAN
  PROVE  Encloses(BucketEstimate(h, BucketOf(h.bounds, v), nonnegative), v, nonnegative)
<1> DEFINE b == h.bounds
           k == BucketOf(b, v)
           open == IF k = 1 THEN -Infinity ELSE b[k - 1]
           above == IF k > Len(b) THEN Infinity ELSE b[k]
           zero == IF nonnegative THEN {0} ELSE {}
           min == {h.min} \ {None}
           max == {h.max} \ {None}
           L == {open} \cup zero \cup min
           U == {above} \cup max
           e == BucketEstimate(h, k, nonnegative)
<1>1. v \in (-Infinity)..Infinity /\ Infinity \in Int /\ v \in Int
  BY PastTypes, WindowAssumption DEF AgesIn
<1>2. Ladder(b) BY DEF Describes
<1>3. /\ Len(b) \in Nat /\ DOMAIN b = 1..Len(b) /\ k \in 1..(Len(b) + 1)
      /\ k > 1 => b[k - 1] < v
      /\ k <= Len(b) => v <= b[k]
  BY <1>1, <1>2, BucketIs
<1>4. \A j \in 1..Len(b) : b[j] \in Int BY <1>2, <1>3 DEF Ladder
<1> HIDE DEF k, b
<1>5. open \in Int /\ open <= v /\ (k > 1 => open < v)
  <2>1. CASE k = 1 BY <1>1, <2>1
  <2>2. CASE k # 1
    <3>1. k > 1 /\ k - 1 \in 1..Len(b) BY <1>3, <2>2
    <3> QED BY <1>1, <1>3, <1>4, <2>2, <3>1
  <2> QED BY <2>1, <2>2
<1>6. above \in Int /\ v <= above
  <2>1. CASE k > Len(b) BY <1>1, <2>1
  <2>2. CASE ~(k > Len(b))
    <3>1. k <= Len(b) /\ k \in 1..Len(b) BY <1>3, <2>2
    <3> QED BY <1>3, <1>4, <2>2, <3>1
  <2> QED BY <2>1, <2>2
<1>7. \A x \in min : x \in Int /\ x <= v
  <2>1. \A x \in min : x = Least(AgesIn(R)) /\ R # {} BY DEF Describes
  <2>2. R # {} => Least(AgesIn(R)) \in Int /\ Least(AgesIn(R)) <= v BY PartTypes, ExtremesAre
  <2> HIDE DEF min
  <2> QED BY <2>1, <2>2
<1>8. \A x \in max : x \in Int /\ v <= x
  <2>1. \A x \in max : x = Greatest(AgesIn(R)) /\ R # {} BY DEF Describes
  <2>2. R # {} => Greatest(AgesIn(R)) \in Int /\ v <= Greatest(AgesIn(R)) BY PartTypes, ExtremesAre
  <2> HIDE DEF max
  <2> QED BY <2>1, <2>2
<1>9. IsFiniteSet(L) /\ IsFiniteSet(U)
  <2>1. IsFiniteSet({open}) /\ IsFiniteSet({above}) /\ IsFiniteSet({h.min}) /\ IsFiniteSet({h.max})
        /\ IsFiniteSet({0}) /\ IsFiniteSet({})
    BY FS_Singleton, FS_EmptySet
  <2>2. IsFiniteSet(min) /\ IsFiniteSet(max)
    <3>1. min \in SUBSET {h.min} /\ max \in SUBSET {h.max} OBVIOUS
    <3> HIDE DEF min, max
    <3> QED BY <2>1, <3>1, FS_Subset
  <2>3. IsFiniteSet(zero) BY <2>1
  <2> HIDE DEF min, max, zero, open, above
  <2>4. IsFiniteSet({open} \cup zero) BY <2>1, <2>3, FS_Union
  <2> QED BY <2>1, <2>2, <2>4, FS_Union
<1>10. \A x \in zero : x = 0 /\ nonnegative OBVIOUS
<1>11. open \in L /\ above \in U OBVIOUS
<1>12. \A x \in L : x \in Int /\ (x <= v \/ (nonnegative /\ x = 0))
  <2> HIDE DEF open, zero, min
  <2> QED BY <1>5, <1>7, <1>10
<1>13. \A x \in U : x \in Int /\ v <= x
  <2> HIDE DEF above, max
  <2> QED BY <1>6, <1>8
<1>14. e = [lower |-> Greatest(L), upper |-> Least(U),
            above |-> k > 1 /\ Greatest(L) = open, over |-> 1]
  BY DEF BucketEstimate, b
<1> HIDE DEF L, U, open, above, e
<1>15. Greatest(L) \in L /\ Least(U) \in U
  <2>1. L \in SUBSET Int /\ L # {} /\ U \in SUBSET Int /\ U # {} BY <1>11, <1>12, <1>13
  <2> QED BY <1>9, <2>1, ExtremesAre
<1>16. Encloses(e, v, nonnegative)
  <2>1. e.lower = Greatest(L) /\ e.upper = Least(U) /\ e.over = 1 BY <1>14
  <2>2. e.above <=> k > 1 /\ Greatest(L) = open BY <1>14
  <2>3. e.above \in BOOLEAN BY <1>14
  <2>4. e.above => e.lower < v BY <1>5, <2>1, <2>2
  <2> QED BY <1>12, <1>13, <1>15, <2>1, <2>3, <2>4 DEF Encloses
<1> QED BY <1>16 DEF e, k, b

\* Of some messages, the earliest rank is the least age and the last the greatest.
LEMMA ExtremesHaveRank ==
  ASSUME WindowInv, NEW R \in SUBSET Past, R # {}
  PROVE  /\ HasRank(R, 1, Least(AgesIn(R)))
         /\ HasRank(R, Cardinality(R), Greatest(AgesIn(R)))
<1> DEFINE lo == Least(AgesIn(R))
           hi == Greatest(AgesIn(R))
<1>1. /\ IsFiniteSet(R) /\ Cardinality(R) \in Nat /\ Cardinality(R) # 0
      /\ AgesIn(R) \in SUBSET Int /\ IsFiniteSet(AgesIn(R)) /\ AgesIn(R) # {}
  BY PartTypes
<1>2. /\ lo \in AgesIn(R) /\ \A x \in AgesIn(R) : lo <= x
      /\ hi \in AgesIn(R) /\ \A x \in AgesIn(R) : x <= hi
  BY <1>1, ExtremesAre
<1> HIDE DEF lo, hi
<1>3. \A v : /\ Upto(R, v) \in SUBSET R /\ IsFiniteSet(Upto(R, v))
             /\ Cardinality(Upto(R, v)) \in Nat
  <2>1. \A v : Upto(R, v) \in SUBSET R BY DEF Upto
  <2> QED BY <1>1, <2>1, FS_Subset, FS_CardinalityType
<1>4. HasRank(R, 1, lo)
  <2>1. PICK t \in R : truth[t].age = lo BY <1>2 DEF AgesIn
  <2>2. t \in Upto(R, lo) BY <1>1, <1>2, <2>1 DEF Upto
  <2>3. Cardinality(Upto(R, lo)) # 0 BY <1>3, <2>2, FS_EmptySet
  <2>4. Cardinality(Upto(R, lo)) >= 1 BY <1>3, <2>3
  <2>5. \A u \in AgesIn(R) : ~(u < lo) BY <1>1, <1>2
  <2> QED BY <1>2, <2>4, <2>5 DEF HasRank
<1>5. HasRank(R, Cardinality(R), hi)
  <2>1. Upto(R, hi) = R BY <1>2 DEF Upto, AgesIn
  <2>2. ASSUME NEW u \in AgesIn(R), u < hi PROVE Cardinality(Upto(R, u)) < Cardinality(R)
    <3>1. PICK t \in R : truth[t].age = hi BY <1>2 DEF AgesIn
    <3>2. t \notin Upto(R, u) BY <1>1, <1>2, <2>2, <3>1 DEF Upto
    <3>3. Upto(R, u) # R BY <3>1, <3>2
    <3>4. Cardinality(Upto(R, u)) <= Cardinality(R) /\ Cardinality(Upto(R, u)) # Cardinality(R)
      BY <1>1, <1>3, <3>3, FS_Subset
    <3> QED BY <1>1, <1>3, <3>4
  <2>3. Cardinality(R) \in Nat \ {0} /\ Cardinality(Upto(R, hi)) >= Cardinality(R)
    BY <1>1, <2>1
  <2> QED BY <1>2, <2>2, <2>3 DEF HasRank
<1> QED BY <1>4, <1>5 DEF lo, hi

LEMMA ReceivedIs ==
  ASSUME WindowInv, NEW S \in SUBSET Past
  PROVE  /\ Received(S) \in SUBSET Past
         /\ \A v \in Int : AtMost(v, S) = Cardinality(Upto(Received(S), v))
         /\ AtMost(Infinity, S) = Cardinality(Received(S))
         /\ AgesIn(Received(S)) \subseteq Ages
<1>1. Received(S) \in SUBSET Past BY DEF Received
<1>2. \A v : AtMost(v, S) = Cardinality(Upto(Received(S), v)) BY DEF AtMost, Upto
<1>3. Upto(Received(S), Infinity) = Received(S)
  <2>1. \A t \in Received(S) : truth[t].age <= Infinity BY <1>1, PastTypes, WindowAssumption
  <2> QED BY <2>1 DEF Upto
<1>4. AgesIn(Received(S)) \subseteq Ages
  <2> SUFFICES ASSUME NEW t \in Received(S) PROVE truth[t].age \in Ages BY DEF AgesIn
  <2>1. truth[t] \in Event /\ truth[t].kind = "received" BY <1>1, PastTypes DEF Received
  <2> QED BY <2>1 DEF Ages
<1> QED BY <1>1, <1>2, <1>3, <1>4

LEMMA AgesTypes == Ages \in SUBSET Int /\ IsFiniteSet(Ages)
<1>1. Infinity \in Int /\ -Infinity \in Int BY WindowAssumption
<1>2. Ages \in SUBSET ((-Infinity)..Infinity) BY SourceAssumption DEF Ages
<1>3. IsFiniteSet((-Infinity)..Infinity) BY <1>1, FS_Interval
<1>4. IsFiniteSet(Ages) BY <1>2, <1>3, FS_Subset
<1> QED BY <1>1, <1>2, <1>4

\* A quantile is the age of the message whose rank is that share, rounded up.
LEMMA QuantileHasRank ==
  ASSUME WindowInv, NEW S \in SUBSET Past, Received(S) # {},
         NEW aggregation \in {"p50", "p95"}
  PROVE  HasRank(Received(S), QuantileRank(aggregation, Cardinality(Received(S))),
                 Quantile(Level(aggregation), S))
<1> DEFINE R == Received(S)
           n == Cardinality(R)
           q == Level(aggregation)
           V == {a \in Ages : AtMost(a, S) * q[2] >= q[1] * AtMost(Infinity, S)}
           v == Least(V)
           rank == QuantileRank(aggregation, n)
           C(a) == Cardinality(Upto(R, a))
<1>1. /\ R \in SUBSET Past /\ AtMost(Infinity, S) = n /\ AgesIn(R) \subseteq Ages
      /\ \A a \in Int : AtMost(a, S) = C(a)
  BY ReceivedIs
<1>2. /\ IsFiniteSet(R) /\ n \in Nat /\ n # 0
      /\ AgesIn(R) \in SUBSET Int /\ IsFiniteSet(AgesIn(R)) /\ AgesIn(R) # {}
  BY <1>1, PartTypes
<1>3. \A a \in Int : C(a) \in Nat
  <2>1. \A a : Upto(R, a) \in SUBSET R BY DEF Upto
  <2> HIDE DEF R
  <2> QED BY <1>2, <2>1, FS_Subset, FS_CardinalityType
<1>4. Ages \in SUBSET Int /\ IsFiniteSet(Ages) BY AgesTypes
<1>5. \A k \in Nat : /\ k * q[2] >= q[1] * n <=> k >= rank
                     /\ n >= rank /\ rank \in Nat \ {0}
  <2>1. CASE aggregation = "p50"
    <3>1. q[1] = 1 /\ q[2] = 2 BY <2>1 DEF Level
    <3>2. rank = (n * 1 + 2 - 1) \div 2 BY <3>1 DEF QuantileRank
    <3> HIDE DEF n, q, rank
    <3>3. \A k \in Nat : k * 2 >= 1 * n <=> k >= (n * 1 + 2 - 1) \div 2 BY <1>2
    <3>4. n >= (n * 1 + 2 - 1) \div 2 /\ (n * 1 + 2 - 1) \div 2 \in Nat \ {0} BY <1>2
    <3> QED BY <3>1, <3>2, <3>3, <3>4
  <2>2. CASE aggregation = "p95"
    <3>1. q[1] = 19 /\ q[2] = 20 BY <2>2 DEF Level
    <3>2. rank = (n * 19 + 20 - 1) \div 20 BY <3>1 DEF QuantileRank
    <3> HIDE DEF n, q, rank
    <3>3. \A k \in Nat : k * 20 >= 19 * n <=> k >= (n * 19 + 20 - 1) \div 20 BY <1>2
    <3>4. n >= (n * 19 + 20 - 1) \div 20 /\ (n * 19 + 20 - 1) \div 20 \in Nat \ {0} BY <1>2
    <3> QED BY <3>1, <3>2, <3>3, <3>4
  <2> QED BY <2>1, <2>2
<1>6. \A a \in Ages : a \in V <=> C(a) >= rank
  <2> SUFFICES ASSUME NEW a \in Ages PROVE a \in V <=> C(a) >= rank OBVIOUS
  <2>1. a \in Int BY <1>4
  <2>2. AtMost(a, S) = C(a) /\ C(a) \in Nat BY <1>1, <1>3, <2>1
  <2>3. a \in V <=> C(a) * q[2] >= q[1] * n BY <1>1, <2>2
  <2> HIDE DEF C, V, rank, q, n
  <2> QED BY <1>5, <2>2, <2>3
<1>7. Greatest(AgesIn(R)) \in V
  <2> DEFINE hi == Greatest(AgesIn(R))
  <2>1. hi \in AgesIn(R) /\ HasRank(R, n, hi) BY <1>1, <1>2, ExtremesAre, ExtremesHaveRank
  <2>2. hi \in Ages /\ hi \in Int BY <1>1, <1>4, <2>1
  <2> HIDE DEF hi, V, rank, R
  <2>3. C(hi) >= n BY <2>1 DEF HasRank
  <2>4. C(hi) \in Nat /\ n >= rank /\ rank \in Nat BY <1>3, <1>5, <2>2
  <2> HIDE DEF C, n
  <2>5. C(hi) >= rank BY <1>2, <2>3, <2>4
  <2> QED BY <1>6, <2>2, <2>5 DEF hi
<1>8. V \in SUBSET Ages /\ IsFiniteSet(V) /\ V \in SUBSET Int
  <2>1. V \in SUBSET Ages OBVIOUS
  <2> HIDE DEF V
  <2> QED BY <1>4, <2>1, FS_Subset
<1>9. v \in V /\ \A a \in V : v <= a
  <2> HIDE DEF V
  <2> QED BY <1>7, <1>8, ExtremesAre
<1>10. v \in Ages /\ v \in Int /\ C(v) >= rank
  <2> HIDE DEF v, V, C, rank
  <2> QED BY <1>6, <1>8, <1>9
<1>11. \A u \in AgesIn(R) : u < v => C(u) < rank
  <2> HIDE DEF v, V, C, rank, R
  <2> SUFFICES ASSUME NEW u \in AgesIn(R), u < v PROVE C(u) < rank OBVIOUS
  <2>1. u \in Ages /\ u \in Int BY <1>1, <1>4
  <2>2. u \notin V BY <1>9, <1>10, <2>1
  <2>3. C(u) \in Nat /\ rank \in Nat BY <1>3, <1>5, <2>1
  <2> QED BY <1>6, <2>1, <2>2, <2>3
<1>12. v \in AgesIn(R)
  <2> DEFINE A == Upto(R, v)
             u == Greatest(AgesIn(A))
  <2>1. A \in SUBSET R BY DEF Upto
  <2>2. A # {}
    <3>1. C(v) # 0
      <4>1. rank \in Nat \ {0} BY <1>5
      <4> HIDE DEF C, v, rank
      <4> QED BY <1>3, <1>10, <4>1
    <3> QED BY <3>1, FS_EmptySet
  <2>3. u \in AgesIn(A) /\ \A a \in AgesIn(A) : a <= u
    <3>1. A \in SUBSET Past BY <1>1, <2>1
    <3> HIDE DEF A
    <3> QED BY <2>2, <3>1, PartTypes, ExtremesAre
  <2> HIDE DEF u, v
  <2>4. u \in AgesIn(R) /\ u <= v BY <2>3 DEF AgesIn, Upto
  <2>5. u \in Ages /\ u \in Int BY <1>1, <1>4, <2>4
  <2>6. \A t \in A : truth[t].age <= u BY <2>3 DEF AgesIn
  <2>7. A \subseteq Upto(R, u) BY <2>6 DEF Upto
  <2>8. C(v) <= C(u)
    <3>1. Upto(R, u) \in SUBSET R BY DEF Upto
    <3> HIDE DEF R
    <3>2. IsFiniteSet(Upto(R, u)) BY <1>2, <3>1, FS_Subset
    <3> QED BY <2>7, <3>2, FS_Subset
  <2>9. C(u) >= rank
    <3>1. C(u) \in Nat /\ C(v) \in Nat /\ rank \in Nat BY <1>3, <1>5, <1>10, <2>5
    <3> HIDE DEF C, rank
    <3> QED BY <1>10, <2>8, <3>1
  <2>10. v <= u
    <3> HIDE DEF C, rank, V
    <3> QED BY <1>6, <1>9, <2>5, <2>9
  <2>11. u = v BY <1>10, <2>4, <2>5, <2>10
  <2> QED BY <2>4, <2>11
<1>13. rank \in Nat \ {0} BY <1>5
<1> HIDE DEF rank, R
<1>14. HasRank(R, rank, v) BY <1>10, <1>11, <1>12, <1>13 DEF HasRank
<1> QED BY <1>14 DEF Quantile, rank, R

Ranked == {"min", "max", "p50", "p95"}

\* What Actual is of some messages.
LEMMA ActualIs ==
  ASSUME WindowInv, NEW S \in SUBSET Past, Received(S) # {}, NEW aggregation \in Ranked
  PROVE  /\ Actual(aggregation, S) \in AgesIn(Received(S))
         /\ HasRank(Received(S),
                    CASE aggregation = "min" -> 1
                      [] aggregation = "max" -> Cardinality(Received(S))
                      [] OTHER -> QuantileRank(aggregation, Cardinality(Received(S))),
                    Actual(aggregation, S))
<1> DEFINE R == Received(S)
           v == Actual(aggregation, S)
<1>1. R \in SUBSET Past BY ReceivedIs
<1>2. CASE aggregation = "min"
  <2>1. v = Least(AgesIn(R)) BY <1>2 DEF Actual, AgesIn
  <2>2. HasRank(R, 1, Least(AgesIn(R))) BY <1>1, ExtremesHaveRank
  <2> HIDE DEF v, R
  <2> QED BY <1>2, <2>1, <2>2 DEF HasRank, v, R
<1>3. CASE aggregation = "max"
  <2>1. v = Greatest(AgesIn(R)) BY <1>3 DEF Actual, AgesIn
  <2>2. HasRank(R, Cardinality(R), Greatest(AgesIn(R))) BY <1>1, ExtremesHaveRank
  <2> HIDE DEF v, R
  <2> QED BY <1>3, <2>1, <2>2 DEF HasRank, v, R
<1>4. CASE aggregation \in {"p50", "p95"}
  <2>1. v = Quantile(Level(aggregation), S) BY <1>4 DEF Actual, Level
  <2>2. HasRank(R, QuantileRank(aggregation, Cardinality(R)), Quantile(Level(aggregation), S))
    BY <1>4, QuantileHasRank
  <2>3. aggregation # "min" /\ aggregation # "max" BY <1>4
  <2> HIDE DEF v, R
  <2> QED BY <2>1, <2>2, <2>3 DEF HasRank, v, R
<1> QED BY <1>2, <1>3, <1>4 DEF Ranked

LEMMA ExactlyEncloses ==
  ASSUME NEW v \in Int, NEW nonnegative \in BOOLEAN
  PROVE  Encloses(Exactly(v, 1), v, nonnegative)
BY DEF Exactly, Encloses

\* A statistic that is known encloses what it is of.
LEMMA StatisticEncloses ==
  ASSUME WindowInv, NEW S \in SUBSET Past, NEW h, h.status = "ok", Describes(h, Received(S)),
         NEW aggregation \in Ranked \cup {"count"}, NEW nonnegative \in BOOLEAN,
         Statistic(h, aggregation, nonnegative).status = "ok"
  PROVE  /\ Actual(aggregation, S) \in Int
         /\ Encloses(Statistic(h, aggregation, nonnegative).is, Actual(aggregation, S), nonnegative)
<1> DEFINE R == Received(S)
           v == Actual(aggregation, S)
           e == RankEstimate(h, aggregation, nonnegative)
           s == Statistic(h, aggregation, nonnegative)
<1>1. R \in SUBSET Past /\ h.count = Cardinality(R) BY ReceivedIs DEF Describes
<1>2. CASE aggregation = "count"
  <2>1. s = [status |-> "ok", is |-> Exactly(h.count, 1)] BY <1>2 DEF Statistic, Status
  <2>2. v = Cardinality(R) BY <1>2 DEF Actual
  <2>3. Cardinality(R) \in Int BY <1>1, PartTypes
  <2>4. s.is = Exactly(v, 1) BY <1>1, <2>1, <2>2
  <2> HIDE DEF s, v, R
  <2> QED BY <2>2, <2>3, <2>4, ExactlyEncloses DEF s, v
<1>3. CASE aggregation \in Ranked
  <2>1. aggregation # "count" /\ aggregation # "mean" BY <1>3 DEF Ranked
  <2>2. h.count # 0 /\ s.is = e
    <3> HIDE DEF e
    <3> QED BY <2>1 DEF Statistic, Status, e
  <2>3. R # {}
    <3> HIDE DEF R
    <3> QED BY <1>1, <2>2, PartTypes
  <2> DEFINE rank == CASE aggregation = "min" -> 1
                       [] aggregation = "max" -> h.count
                       [] OTHER -> QuantileRank(aggregation, h.count)
             b == BucketEstimate(h, RankBucket(h, rank), nonnegative)
  <2>4. v \in AgesIn(R) /\ HasRank(R, rank, v)
    <3>1. /\ v \in AgesIn(R)
          /\ HasRank(R, CASE aggregation = "min" -> 1
                          [] aggregation = "max" -> Cardinality(R)
                          [] OTHER -> QuantileRank(aggregation, Cardinality(R)), v)
      BY <1>3, <2>3, ActualIs
    <3> QED BY <1>1, <3>1
  <2>5. v \in Int
    <3> HIDE DEF v, R
    <3> QED BY <1>1, <2>4, PartTypes
  <2>6. Encloses(b, v, nonnegative)
    <3>1. RankBucket(h, rank) = BucketOf(h.bounds, v)
      <4> HIDE DEF rank, v, R
      <4> QED BY <1>1, <2>4, RankBucketIs DEF R
    <3>2. Encloses(BucketEstimate(h, BucketOf(h.bounds, v), nonnegative), v, nonnegative)
      <4> HIDE DEF v, R
      <4> QED BY <1>1, <2>4, EstimateEncloses DEF R
    <3> QED BY <3>1, <3>2
  <2>7. CASE aggregation = "min" /\ h.min # None
    <3>1. e = Exactly(h.min, 1) BY <2>7 DEF RankEstimate
    <3>2. h.min = v BY <2>7 DEF Describes, Actual, AgesIn
    <3> HIDE DEF e, v
    <3> QED BY <2>2, <2>5, <3>1, <3>2, ExactlyEncloses DEF v
  <2>8. CASE aggregation = "max" /\ h.max # None
    <3>1. e = Exactly(h.max, 1) BY <2>8 DEF RankEstimate
    <3>2. h.max = v BY <2>8 DEF Describes, Actual, AgesIn
    <3> HIDE DEF e, v
    <3> QED BY <2>2, <2>5, <3>1, <3>2, ExactlyEncloses DEF v
  <2>9. CASE ~(aggregation = "min" /\ h.min # None) /\ ~(aggregation = "max" /\ h.max # None)
    <3>1. e = b BY <2>9 DEF RankEstimate
    <3> HIDE DEF e, b, v
    <3> QED BY <2>2, <2>5, <2>6, <3>1 DEF v
  <2> QED BY <2>7, <2>8, <2>9
<1> QED BY <1>2, <1>3

\* What a comparison decides is so.
LEMMA CompareDecides ==
  ASSUME NEW e, e.lower \in Int, e.upper \in Int, e.above \in BOOLEAN, NEW v \in Int,
         v <= e.upper, e.lower <= v, e.above => e.lower < v,
         NEW operator \in Operators, NEW x, x * e.over \in Int
  PROVE  /\ Compare(e, operator, x) \in {"passed", "failed", "skipped"}
         /\ Compare(e, operator, x) = "passed" => Holds(v, operator, x * e.over)
         /\ Compare(e, operator, x) = "failed" => ~Holds(v, operator, x * e.over)
<1> DEFINE limit == x * e.over
           c == Compare(e, operator, x)
           above == e.lower > limit \/ (e.above /\ e.lower = limit)
           D(passed, failed) == IF passed THEN "passed" ELSE IF failed THEN "failed" ELSE "skipped"
<1>1. /\ operator = "lt" => c = D(e.upper < limit, e.lower >= limit)
      /\ operator = "lte" => c = D(e.upper <= limit, above)
      /\ operator = "gt" => c = D(above, e.upper <= limit)
      /\ operator = "gte" => c = D(e.lower >= limit, e.upper < limit)
      /\ operator = "eq" => c = D(e.lower = limit /\ e.upper = limit, above \/ limit > e.upper)
  BY DEF Compare
<1>2. above => v > limit
  <2> HIDE DEF limit
  <2> QED BY DEF limit
<1>3. limit \in Int OBVIOUS
<1> HIDE DEF limit, c
<1>4. CASE operator = "lt" BY <1>1, <1>3, <1>4 DEF Holds, c, limit
<1>5. CASE operator = "lte" BY <1>1, <1>2, <1>3, <1>5 DEF Holds, c, limit
<1>6. CASE operator = "gt" BY <1>1, <1>2, <1>3, <1>6 DEF Holds, c, limit
<1>7. CASE operator = "gte" BY <1>1, <1>3, <1>7 DEF Holds, c, limit
<1>8. CASE operator = "eq" BY <1>1, <1>2, <1>3, <1>8 DEF Holds, c, limit
<1> QED BY <1>4, <1>5, <1>6, <1>7, <1>8 DEF Operators

LEMMA StatisticStatus ==
  ASSUME NEW h, h.status = "ok", NEW aggregation, NEW nonnegative
  PROVE  Statistic(h, aggregation, nonnegative).status \in {"ok", "insufficient", "error"}
BY DEF Statistic, Status

\* The mean, as a sum over a count.
LEMMA MeanIs ==
  ASSUME WindowInv, NEW S \in SUBSET Past, NEW h, h.status = "ok", Describes(h, Received(S)),
         Statistic(h, "mean", FALSE).status = "ok"
  PROVE  /\ Cardinality(Received(S)) \in Nat /\ AgeSum(Received(S)) \in Int
         /\ Statistic(h, "mean", FALSE).is
              = Exactly(AgeSum(Received(S)), Cardinality(Received(S)))
<1> DEFINE R == Received(S)
<1>1. R \in SUBSET Past /\ h.count = Cardinality(R) BY ReceivedIs DEF Describes
<1>2. Cardinality(R) \in Nat /\ SumFunctionOnSet(Age, R) \in Int BY <1>1, PartTypes
<1>3. AgeSum(R) = SumFunctionOnSet(Age, R) BY <1>1, AgeSumIs
<1>4. h.sum # None /\ Statistic(h, "mean", FALSE).is = Exactly(h.sum, h.count)
  BY DEF Statistic, Status
<1>5. h.sum = SumFunctionOnSet(Age, R) BY <1>4 DEF Describes
<1> QED BY <1>1, <1>2, <1>3, <1>4, <1>5

\* A verdict on a statistic is true of the messages described.
LEMMA HistogramVerdict ==
  ASSUME WindowInv, NEW S \in SUBSET Past, NEW h, h.status = "ok", Describes(h, Received(S)),
         NEW aggregation \in {"min", "max", "p50", "p95", "mean", "count"},
         NEW operator \in Operators, NEW x \in Int,
         Judged(Statistic(h, aggregation, FALSE), OnStatistic(aggregation, operator, x))
           \in {"passed", "failed"}
  PROVE  Judged(Statistic(h, aggregation, FALSE), OnStatistic(aggregation, operator, x)) = "passed"
           <=> ActuallyHolds(aggregation, operator, x, S)
<1> DEFINE s == Statistic(h, aggregation, FALSE)
           a == OnStatistic(aggregation, operator, x)
<1>1. s.status \in {"ok", "insufficient", "error"} BY StatisticStatus
<1>2. a.operator = operator /\ a.threshold = x BY DEF OnStatistic
<1> HIDE DEF s, a
<1>3. s.status = "ok" /\ Judged(s, a) = Compare(s.is, operator, x)
  <2>1. s.status = "insufficient" => Judged(s, a) = "skipped" BY DEF Judged
  <2>2. s.status = "error" => Judged(s, a) = "error" BY DEF Judged
  <2>3. s.status = "ok" => Judged(s, a) = Compare(s.is, operator, x) BY <1>2 DEF Judged
  <2>4. Judged(s, a) \in {"passed", "failed"} BY DEF s, a
  <2> QED BY <1>1, <2>1, <2>2, <2>3, <2>4
<1> DEFINE right == Judged(s, a) = "passed" <=> ActuallyHolds(aggregation, operator, x, S)
<1>4. ASSUME aggregation = "mean" PROVE right
  <2> DEFINE v == AgeSum(Received(S))
             n == Cardinality(Received(S))
  <2>1. n \in Nat /\ v \in Int /\ s.is = Exactly(v, n) BY <1>3, <1>4, MeanIs DEF s
  <2>2. ActuallyHolds(aggregation, operator, x, S) <=> Holds(v, operator, x * n)
    BY <1>4 DEF ActuallyHolds
  <2> HIDE DEF v, n
  <2> DEFINE e == Exactly(v, n)
  <2>3. e.lower = v /\ e.upper = v /\ e.above = FALSE /\ e.over = n BY DEF Exactly
  <2>4. /\ e.lower \in Int /\ e.upper \in Int /\ v <= e.upper /\ e.lower <= v
        /\ x * e.over \in Int /\ e.above \in BOOLEAN /\ (e.above => e.lower < v)
    <3>1. x * n \in Int BY <2>1
    <3>2. e.above \in BOOLEAN /\ ~e.above BY DEF Exactly
    <3> HIDE DEF e
    <3>3. e.lower \in Int /\ e.upper \in Int /\ v <= e.upper /\ e.lower <= v BY <2>1, <2>3
    <3> QED BY <2>3, <3>1, <3>2, <3>3
  <2> HIDE DEF e
  <2>5. /\ Compare(e, operator, x) = "passed" => Holds(v, operator, x * e.over)
        /\ Compare(e, operator, x) = "failed" => ~Holds(v, operator, x * e.over)
    BY <2>1, <2>4, CompareDecides
  <2>6. Judged(s, a) = Compare(e, operator, x) BY <1>3, <2>1 DEF e
  <2>7. Judged(s, a) \in {"passed", "failed"} BY DEF s, a
  <2>8. Judged(s, a) = "passed" <=> ActuallyHolds(aggregation, operator, x, S)
    BY <2>2, <2>3, <2>5, <2>6, <2>7
  <2> QED BY <2>8
<1>5. ASSUME aggregation # "mean" PROVE right
  <2> DEFINE v == Actual(aggregation, S)
             e == s.is
  <2>1. aggregation \in Ranked \cup {"count"} BY <1>5 DEF Ranked
  <2>2. v \in Int /\ Encloses(e, v, FALSE) BY <1>3, <2>1, StatisticEncloses DEF s
  <2>3. ActuallyHolds(aggregation, operator, x, S) <=> Holds(v, operator, x)
    BY <1>5 DEF ActuallyHolds
  <2> HIDE DEF v, e
  <2>4. /\ e.lower \in Int /\ e.upper \in Int /\ e.above \in BOOLEAN /\ e.over = 1
        /\ v <= e.upper /\ e.lower <= v /\ (e.above => e.lower < v)
    BY <2>2 DEF Encloses
  <2>5. x * e.over = x BY <2>4
  <2>6. /\ Compare(e, operator, x) = "passed" => Holds(v, operator, x)
        /\ Compare(e, operator, x) = "failed" => ~Holds(v, operator, x)
    BY <2>2, <2>4, <2>5, CompareDecides
  <2>7. Judged(s, a) \in {"passed", "failed"} BY DEF s, a
  <2>8. Judged(s, a) = "passed" <=> ActuallyHolds(aggregation, operator, x, S)
    BY <1>3, <2>3, <2>6, <2>7 DEF e
  <2> QED BY <2>8
<1>6. right BY <1>4, <1>5
<1>7. Judged(Statistic(h, aggregation, FALSE), OnStatistic(aggregation, operator, x)) = "passed"
           <=> ActuallyHolds(aggregation, operator, x, S)
  BY <1>6 DEF s, a
<1> QED BY <1>7

\* A maximum that is not negative is kept, or exceeded, as the bounds say.
LEMMA MaximumDecides ==
  ASSUME NEW e, NEW v \in Int, Encloses(e, v, TRUE), NEW x \in Nat
  PROVE  /\ Compare(e, "lte", x) \in {"passed", "failed", "skipped"}
         /\ Compare(e, "lte", x) = "passed" => v <= x
         /\ Compare(e, "lte", x) = "failed" => ~(v <= x)
<1> DEFINE above == e.lower > x \/ (e.above /\ e.lower = x)
<1>1. /\ e.lower \in Int /\ e.upper \in Int /\ e.over = 1 /\ e.above \in BOOLEAN
      /\ v <= e.upper /\ (e.lower <= v \/ e.lower = 0) /\ (e.above => e.lower < v)
  BY DEF Encloses
<1>2. x * e.over = x BY <1>1
<1>3. Compare(e, "lte", x) = IF e.upper <= x THEN "passed" ELSE IF above THEN "failed" ELSE "skipped"
  BY <1>2 DEF Compare
<1>4. above => ~(v <= x) BY <1>1
<1> HIDE DEF above
<1> QED BY <1>1, <1>3, <1>4

LEMMA AuthorityVerdict ==
  ASSUME WindowInv, NEW S \in SUBSET Past, NEW h, h.status = "ok", Describes(h, Received(S)),
         NEW x \in Nat, NEW y \in Nat,
         TimeAuthority(h, x, y, y, 2) \in {"passed", "failed"}
  PROVE  TimeAuthority(h, x, y, y, 2) = "passed"
           <=> /\ Cardinality(Received(S)) >= 2
               /\ ActuallyHolds("p50", "lte", x, S) /\ ActuallyHolds("max", "lte", y, S)
<1> DEFINE R == Received(S)
           n == Cardinality(R)
           Bound(a) == Statistic(h, a, TRUE)
           Is(a) == Actual(a, S)
           t == TimeAuthority(h, x, y, y, 2)
           p50 == Compare(Bound("p50").is, "lte", x)
           p95 == Compare(Bound("p95").is, "lte", y)
           max == Compare(Bound("max").is, "lte", y)
           enough == IF n >= 2 THEN "passed" ELSE "failed"
<1>1. n \in Nat /\ h.count = n /\ R \in SUBSET Past
  <2>1. R \in SUBSET Past /\ h.count = n BY ReceivedIs DEF Describes
  <2> QED BY <2>1, PartTypes
<1>2. /\ ActuallyHolds("p50", "lte", x, S) <=> Is("p50") <= x
      /\ ActuallyHolds("max", "lte", y, S) <=> Is("max") <= y
  BY DEF ActuallyHolds, Holds
<1>3. t = LatencyPolicy(h, x, y, y, 2) BY DEF TimeAuthority
<1>4. CASE n = 0
  <2>1. t = "failed" BY <1>1, <1>3, <1>4 DEF LatencyPolicy
  <2> QED BY <1>4, <2>1
<1>5. CASE n # 0
  <2>0. \A a \in {"p50", "p95", "max"} : Bound(a).status = "ok"
    <3>1. ASSUME ~(\A a \in {"p50", "p95", "max"} : Bound(a).status = "ok") PROVE FALSE
      <4>1. {a \in {"p50", "p95", "max"} : Bound(a).status # "ok"} # {} BY <3>1
      <4>2. t = "error" BY <1>1, <1>3, <1>5, <4>1 DEF LatencyPolicy
      <4> QED BY <4>2
    <3> QED BY <3>1
  <2>1. t = IF "failed" \in {p50, p95, max, enough} THEN "failed"
            ELSE IF "skipped" \in {p50, p95, max, enough} THEN "skipped" ELSE "passed"
    <3>1. {a \in {"p50", "p95", "max"} : Bound(a).status # "ok"} = {} BY <2>0
    <3> QED BY <1>1, <1>3, <1>5, <3>1 DEF LatencyPolicy
  <2>2. \A a \in {"p50", "p95", "max"} : Is(a) \in Int /\ Encloses(Bound(a).is, Is(a), TRUE)
    <3> SUFFICES ASSUME NEW a \in {"p50", "p95", "max"}
                 PROVE  Is(a) \in Int /\ Encloses(Bound(a).is, Is(a), TRUE)
      OBVIOUS
    <3>1. a \in Ranked \cup {"count"} BY DEF Ranked
    <3> QED BY <2>0, <3>1, StatisticEncloses
  <2>3. Is("p95") <= Is("max")
    <3>1. R # {} BY <1>1, <1>5, PartTypes
    <3>2. Is("p95") \in AgesIn(R) BY <3>1, ActualIs DEF Ranked
    <3>3. Is("max") = Greatest(AgesIn(R)) BY DEF Actual, AgesIn
    <3>4. \A a \in AgesIn(R) : a <= Greatest(AgesIn(R)) 
      <4> HIDE DEF R
      <4> QED BY <1>1, <3>1, PartTypes, ExtremesAre
    <3> HIDE DEF Is, R
    <3> QED BY <3>2, <3>3, <3>4
  <2> HIDE DEF Bound, Is, n, t
  <2>4. /\ p50 \in {"passed", "failed", "skipped"}
        /\ p50 = "passed" => Is("p50") <= x
        /\ p50 = "failed" => ~(Is("p50") <= x)
    BY <2>2, MaximumDecides
  <2>5. p95 \in {"passed", "failed", "skipped"} /\ (p95 = "failed" => ~(Is("p95") <= y))
    BY <2>2, MaximumDecides
  <2>6. /\ max \in {"passed", "failed", "skipped"}
        /\ max = "passed" => Is("max") <= y
        /\ max = "failed" => ~(Is("max") <= y)
    BY <2>2, MaximumDecides
  <2>7. p95 = "failed" => ~(Is("max") <= y) BY <2>2, <2>3, <2>5
  <2> HIDE DEF p50, p95, max
  <2>8. t \in {"passed", "failed"} BY DEF t
  <2>9. t = "passed" <=> n >= 2 /\ Is("p50") <= x /\ Is("max") <= y
    BY <2>1, <2>4, <2>5, <2>6, <2>7, <2>8
  <2> QED BY <1>2, <2>9 DEF t, n
<1> QED BY <1>4, <1>5
-----------------------------------------------------------------------------
(***************************************************************************)
(* MetricWindow: what a point tells of the slots since its process began,  *)
(* and the contribution of a stream.                                       *)
(***************************************************************************)

\* The messages received after a and no later than b.
Span(a, b) == Received((a + 1)..b)

LEMMA ReceivedSpanTypes ==
  ASSUME WindowInv, NEW a \in Nat, NEW b \in Nat, b <= now
  PROVE  /\ (a + 1)..b \in SUBSET Past /\ Span(a, b) \in SUBSET Past
         /\ \A c \in Nat : a <= c /\ c <= b =>
              /\ Span(a, c) \in SUBSET Span(a, b)
              /\ Span(a, b) \ Span(a, c) = Span(c, b)
<1>1. now \in Nat BY DEF WindowInv
<1>2. (a + 1)..b \in SUBSET Past BY <1>1 DEF Past
<1>3. Span(a, b) \in SUBSET Past BY <1>2 DEF Span, Received
<1>4. ASSUME NEW c \in Nat, a <= c, c <= b
      PROVE  Span(a, c) \in SUBSET Span(a, b) /\ Span(a, b) \ Span(a, c) = Span(c, b)
  <2>1. \A t : t \in (a + 1)..c => t \in (a + 1)..b BY <1>4
  <2>2. \A t : t \in (a + 1)..b /\ t \notin (a + 1)..c <=> t \in (c + 1)..b BY <1>4
  <2> QED BY <2>1, <2>2 DEF Span, Received
<1> QED BY <1>2, <1>3, <1>4

PointFields == {"id", "instruments", "series", "start", "at", "bounds", "count", "buckets",
                "sum", "min", "max", "received", "lost", "sequence", "gauge"}

\* The point p is a record of what happened after from.
Tells(p, from) ==
  /\ p = [f \in PointFields |-> p[f]]
  /\ from \in Nat /\ p.at \in Nat /\ from < p.at /\ p.at <= now
  /\ Describes(p, Span(from, p.at))
  /\ \A f \in {"received", "lost", "sequence"} : p[f] = CountOf(f, (from + 1)..p.at)

\* What a baseline told is no longer told.
LEMMA SubtractDescribes ==
  ASSUME WindowInv, NEW B \in SUBSET Past, NEW A \in SUBSET B, NEW latest, NEW base,
         Describes(latest, B), Describes(base, A), Subtract(latest, base).status = "ok"
  PROVE  /\ Describes(Subtract(latest, base), B \ A)
         /\ Subtract(latest, base).start = base.at /\ Subtract(latest, base).at = latest.at
<1> DEFINE s == Subtract(latest, base)
           buckets == [k \in DOMAIN latest.buckets |-> latest.buckets[k] - base.buckets[k]]
           baseSum == IF base.count = 0 THEN 0 ELSE base.sum
<1>1. /\ latest.bounds = base.bounds
      /\ s = [status |-> "ok", id |-> latest.id, series |-> latest.series,
              bounds |-> latest.bounds, start |-> base.at, at |-> latest.at,
              count |-> latest.count - base.count, buckets |-> buckets,
              sum |-> IF None \in {latest.sum, baseSum} THEN None ELSE latest.sum - baseSum,
              min |-> IF base.count = 0 THEN latest.min ELSE None,
              max |-> IF base.count = 0 THEN latest.max ELSE None]
  <2>1. s.status # "error" OBVIOUS
  <2>2. ~(latest.bounds # base.bounds) BY <2>1 DEF Subtract, Status
  <2> QED BY <2>1, <2>2 DEF Subtract, Status
<1>2. /\ s.bounds = latest.bounds /\ s.start = base.at /\ s.at = latest.at
      /\ s.count = latest.count - base.count /\ s.buckets = buckets
      /\ s.sum = IF None \in {latest.sum, baseSum} THEN None ELSE latest.sum - baseSum
      /\ s.min = IF base.count = 0 THEN latest.min ELSE None
      /\ s.max = IF base.count = 0 THEN latest.max ELSE None
  BY <1>1
<1> HIDE DEF s
<1>3. A \in SUBSET Past /\ B \ A \in SUBSET Past OBVIOUS
<1>4. \A K : Cardinality((B \ A) \cap K) = Cardinality(B \cap K) - Cardinality(A \cap K)
  <2> SUFFICES ASSUME NEW K
               PROVE  Cardinality((B \ A) \cap K) = Cardinality(B \cap K) - Cardinality(A \cap K)
    OBVIOUS
  <2> DEFINE m == [D \in SUBSET Past |-> Cardinality(D \cap K)]
  <2>1. Additive(m, Past) BY PastTypes, CountAdds
  <2>2. m[A \cup (B \ A)] = m[A] + m[B \ A] /\ m[A] \in Int /\ m[B \ A] \in Int
    <3> HIDE DEF m
    <3>1. A \cap (B \ A) = {} OBVIOUS
    <3> QED BY <1>3, <2>1, <3>1 DEF Additive
  <2>3. A \cup (B \ A) = B OBVIOUS
  <2>4. m[B] = Cardinality(B \cap K) /\ m[A] = Cardinality(A \cap K)
        /\ m[B \ A] = Cardinality((B \ A) \cap K)
    BY <1>3
  <2>5. m[B] = m[A] + m[B \ A]
    <3> HIDE DEF m
    <3> QED BY <2>2, <2>3, Zenon
  <2> DEFINE x == Cardinality(A \cap K)
             y == Cardinality(B \cap K)
             z == Cardinality((B \ A) \cap K)
  <2>6. x \in Int /\ z \in Int /\ y = x + z BY <2>2, <2>4, <2>5
  <2> HIDE DEF m, x, y, z
  <2>7. z = y - x BY <2>6
  <2> QED BY <2>7 DEF x, y, z
<1>5. s.count = Cardinality(B \ A)
  <2>1. /\ (B \ A) \cap Past = B \ A /\ B \cap Past = B /\ A \cap Past = A BY <1>3
  <2>2. Cardinality(B \ A) = Cardinality(B) - Cardinality(A) BY <1>4, <2>1
  <2> QED BY <1>2, <2>2 DEF Describes
<1>6. s.buckets = [k \in 1..(Len(s.bounds) + 1) |-> Cardinality((B \ A) \cap InBucket(s.bounds, k))]
  <2> DEFINE b == latest.bounds
             n == Len(b) + 1
  <2>1. /\ latest.buckets = [k \in 1..n |-> Cardinality(B \cap InBucket(b, k))]
        /\ base.buckets = [k \in 1..n |-> Cardinality(A \cap InBucket(b, k))]
    BY <1>1 DEF Describes
  <2>2. buckets = [k \in 1..n |-> Cardinality(B \cap InBucket(b, k)) - Cardinality(A \cap InBucket(b, k))]
    <3> HIDE DEF n
    <3> QED BY <2>1
  <2>3. \A k \in 1..n : Cardinality(B \cap InBucket(b, k)) - Cardinality(A \cap InBucket(b, k))
                          = Cardinality((B \ A) \cap InBucket(b, k))
    BY <1>4
  <2>4. buckets = [k \in 1..n |-> Cardinality((B \ A) \cap InBucket(b, k))]
    <3> HIDE DEF buckets, n
    <3> QED BY <2>2, <2>3
  <2> QED BY <1>2, <2>4
<1>7. base.count = 0 <=> A = {}
  <2>1. base.count = Cardinality(A) BY DEF Describes
  <2> QED BY <1>3, <2>1, PartTypes
<1>8. s.sum \in {None, SumFunctionOnSet(Age, B \ A)}
  <2>1. SumFunctionOnSet(Age, B) = SumFunctionOnSet(Age, A) + SumFunctionOnSet(Age, B \ A)
    <3> DEFINE m == [D \in SUBSET Past |-> SumFunctionOnSet(Age, D)]
    <3>1. Additive(m, Past) BY PastTypes, SumAdds
    <3>2. m[A \cup (B \ A)] = m[A] + m[B \ A]
      <4> HIDE DEF m
      <4>1. A \cap (B \ A) = {} OBVIOUS
      <4> QED BY <1>3, <3>1, <4>1 DEF Additive
    <3>3. A \cup (B \ A) = B OBVIOUS
    <3> QED BY <1>3, <3>2, <3>3
  <2>2. /\ SumFunctionOnSet(Age, B) \in Int /\ SumFunctionOnSet(Age, A) \in Int
        /\ SumFunctionOnSet(Age, B \ A) \in Int
        /\ A = {} => SumFunctionOnSet(Age, A) = 0
    BY <1>3, PartTypes
  <2>3. baseSum \in {None, SumFunctionOnSet(Age, A)} BY <1>7, <2>2 DEF Describes
  <2>4. latest.sum \in {None, SumFunctionOnSet(Age, B)} BY DEF Describes
  <2> HIDE DEF baseSum
  <2> DEFINE x == SumFunctionOnSet(Age, A)
             y == SumFunctionOnSet(Age, B)
             z == SumFunctionOnSet(Age, B \ A)
  <2>5. x \in Int /\ y \in Int /\ z \in Int /\ y = x + z BY <2>1, <2>2
  <2> HIDE DEF x, y, z
  <2>6. y - x = z BY <2>5
  <2>7. CASE None \in {latest.sum, baseSum} BY <1>2, <2>7
  <2>8. CASE None \notin {latest.sum, baseSum}
    <3>1. latest.sum = y /\ baseSum = x BY <2>3, <2>4, <2>8 DEF x, y
    <3>2. s.sum = latest.sum - baseSum BY <1>2, <2>8
    <3> QED BY <2>6, <3>1, <3>2 DEF z
  <2> QED BY <2>7, <2>8
<1>9. /\ s.min # None => B \ A # {} /\ s.min = Least(AgesIn(B \ A))
      /\ s.max # None => B \ A # {} /\ s.max = Greatest(AgesIn(B \ A))
  <2>1. CASE A = {}
    <3>1. B \ A = B BY <2>1
    <3>2. s.min = latest.min /\ s.max = latest.max BY <1>2, <1>7, <2>1
    <3> QED BY <3>1, <3>2 DEF Describes
  <2>2. CASE A # {} BY <1>2, <1>7, <2>2
  <2> QED BY <2>1, <2>2
<1>10. Ladder(s.bounds) BY <1>2 DEF Describes
<1>11. Describes(s, B \ A) BY <1>5, <1>6, <1>8, <1>9, <1>10 DEF Describes
<1> QED BY <1>2, <1>11 DEF s

\* The points until t come before the others.
LEMMA UntilIsFirst ==
  ASSUME NEW S, Numbered(S), NEW o, InTime(o, S), NEW t \in Int
  PROVE  /\ Cardinality(Until(S, t)) \in 0..Len(o)
         /\ \A k \in 1..Len(o) : o[k].at <= t <=> k <= Cardinality(Until(S, t))
<1> DEFINE n == Len(o)
           U == Until(S, t)
           K == {k \in 1..n : o[k].at <= t}
<1>1. n \in Nat BY DEF InTime
<1>2. \A k \in 1..n : o[k] \in S /\ o[k].at \in Int BY DEF InTime, Numbered
<1>3. \A k \in K, l \in 1..n : l <= k => l \in K
  <2> SUFFICES ASSUME NEW k \in K, NEW l \in 1..n, l <= k PROVE o[l].at <= t OBVIOUS
  <2>1. l = k \/ l < k BY <1>1
  <2>2. l < k => o[l].at <= o[k].at BY DEF InTime
  <2>3. o[l].at \in Int /\ o[k].at \in Int BY <1>2
  <2> QED BY <2>1, <2>2, <2>3
<1>4. PICK m \in 0..n : K = 1..m
  <2>1. CASE K = {}
    <3>1. 0 \in 0..n /\ 1..0 = {} BY <1>1
    <3> QED BY <2>1, <3>1
  <2>2. CASE K # {}
    <3>1. K \in SUBSET (0..n) BY <1>1
    <3>2. PICK m \in K : \A k \in K : k <= m
      <4> HIDE DEF K, n
      <4> QED BY <1>1, <2>2, <3>1, Largest
    <3>3. m \in 1..n OBVIOUS
    <3>4. \A k \in 1..n : k \in K <=> k <= m
      <4> HIDE DEF K
      <4> QED BY <1>3, <3>2
    <3>5. \A k : k \in K <=> k \in 1..m
      <4>1. \A k \in K : k \in 1..n OBVIOUS
      <4> HIDE DEF K
      <4>2. ASSUME NEW k \in K PROVE k \in 1..m
        <5>1. k \in 1..n /\ k <= m BY <3>4, <4>1
        <5> QED BY <1>1, <3>3, <5>1
      <4>3. ASSUME NEW k \in 1..m PROVE k \in K
        <5>1. k \in 1..n /\ k <= m BY <1>1, <3>3
        <5> QED BY <3>4, <5>1
      <4> QED BY <4>2, <4>3
    <3>6. K = 1..m
      <4> HIDE DEF K
      <4> QED BY <3>5
    <3>7. m \in 0..n BY <1>1, <3>3
    <3> HIDE DEF K
    <3> QED BY <3>6, <3>7
  <2> QED BY <2>1, <2>2
<1>5. IsFiniteSet(1..m) /\ Cardinality(1..m) = m
  <2>1. m \in Nat /\ 1 \in Int /\ m \in Int BY <1>1
  <2>2. IsFiniteSet(1..m) /\ Cardinality(1..m) = IF 1 > m THEN 0 ELSE m - 1 + 1
    BY <2>1, FS_Interval
  <2> QED BY <2>1, <2>2
<1>6. Cardinality(U) = m
  <2> DEFINE f == [k \in 1..m |-> o[k]]
  <2>1. f = [k \in 1..m |-> f[k]] OBVIOUS
  <2>2. \A k \in 1..m : k \in 1..n /\ o[k].at <= t BY <1>4
  <2>3. U = {f[k] : k \in 1..m}
    <3>1. \A k \in 1..m : f[k] \in U BY <1>2, <2>2 DEF Until
    <3>2. ASSUME NEW p \in U PROVE \E k \in 1..m : f[k] = p
      <4>1. p \in S /\ p.at <= t BY DEF Until
      <4>2. PICK k \in 1..n : o[k] = p BY <4>1 DEF InTime
      <4>3. k \in K BY <4>1, <4>2
      <4>4. k \in 1..m
        <5> HIDE DEF K
        <5> QED BY <1>4, <4>3
      <4> QED BY <4>2, <4>4
    <3> HIDE DEF f, U
    <3> QED BY <3>1, <3>2
  <2>4. \A k, l \in 1..m : f[k] = f[l] => k = l
    <3> SUFFICES ASSUME NEW k \in 1..m, NEW l \in 1..m, k # l PROVE o[k] # o[l] OBVIOUS
    <3>1. k \in 1..n /\ l \in 1..n /\ (k < l \/ l < k) BY <2>2
    <3> QED BY <3>1 DEF InTime
  <2> HIDE DEF f, U
  <2>5. Cardinality(U) = Cardinality(1..m) BY <1>5, <2>1, <2>3, <2>4, SameCount
  <2> QED BY <1>5, <2>5
<1>7. \A k \in 1..n : o[k].at <= t <=> k <= m
  <2>1. \A k \in 1..n : o[k].at <= t <=> k \in K OBVIOUS
  <2> HIDE DEF K
  <2>2. \A k \in 1..n : k \in 1..m <=> k <= m BY <1>1
  <2> QED BY <1>4, <2>1, <2>2
<1> QED BY <1>4, <1>6, <1>7
-----------------------------------------------------------------------------
(***************************************************************************)
(* MetricWindow: whence the points are.                                    *)
(***************************************************************************)

ProcessInv ==
  /\ temporality \in {"delta", "cumulative"}
  /\ process.layout \in Layouts /\ process.born \in 0..collected /\ process.known \in BOOLEAN
  /\ temporality = "delta" => process.known
  /\ first # None => first \in (process.born + 1)..collected

\* A start that is not known is that of a point in the evidence.
StartIs(p, F) ==
  IF process.known THEN p.start = F[p]
  ELSE /\ p.start \in Nat /\ F[p] < p.start /\ p.start <= p.at
       /\ \A q \in points : F[q] = F[p] => q.start = p.start
       /\ \E q \in points : F[q] = F[p] /\ q.at = p.start /\ q.instruments = Instruments

\* The slots of two points are apart or begin together.
RelatedPoints(p, q, F) ==
  \/ p.at <= F[q] \/ q.at <= F[p]
  \/ F[p] = F[q] /\ p.series = q.series /\ (p.at = q.at \/ temporality = "cumulative")

\* A point of the running process.
Current(p, F) ==
  \/ p.at <= process.born \/ temporality = "delta"
  \/ F[p] = process.born /\ p.series = process.series /\ (process.known \/ p.start = first)

\* F says after which slot what each point tells begins.
Origins(F) ==
  /\ \A p \in points : Tells(p, F[p]) /\ StartIs(p, F) /\ Current(p, F)
  /\ \A p, q \in points : RelatedPoints(p, q, F)
  /\ ~process.known /\ first # None =>
       \E q \in points : F[q] = process.born /\ q.at = first /\ q.instruments = Instruments

HistoryInv == WindowInv /\ ProcessInv /\ \E F : Origins(F)

\* What a point tells stays true.
LEMMA TellsStays ==
  ASSUME WindowInv, now \in Nat, now' \in Nat, now <= now', truth' \in Seq(Event), Len(truth') = now',
         \A t \in Past : truth'[t] = truth[t], NEW p, NEW from, Tells(p, from)
  PROVE  Tells(p, from)'
<1> DEFINE S == (from + 1)..p.at
<1> PICK R : R = Span(from, p.at) OBVIOUS
<1>1. /\ p = [f \in PointFields |-> p[f]] /\ from \in Nat /\ p.at \in Nat /\ from < p.at
      /\ p.at <= now /\ Describes(p, R)
      /\ \A f \in {"received", "lost", "sequence"} : p[f] = CountOf(f, S)
  BY DEF Tells
<1>2. S \in SUBSET Past /\ R \in SUBSET Past BY <1>1, ReceivedSpanTypes
<1>3. \A t \in S : truth'[t] = truth[t] BY <1>2
<1>4. Span(from, p.at)' = R BY <1>3 DEF Span, Received
<1>5. \A f \in {"received", "lost", "sequence"} : CountOf(f, S)' = CountOf(f, S)
  <2>1. \A f \in {"received", "lost", "sequence"} :
          {t \in S : CASE f = "received" -> truth'[t].kind = "received"
                       [] f = "lost" -> truth'[t].kind = "lost"
                       [] f = "sequence" -> ~truth'[t].inOrder}
          = {t \in S : CASE f = "received" -> truth[t].kind = "received"
                         [] f = "lost" -> truth[t].kind = "lost"
                         [] f = "sequence" -> ~truth[t].inOrder}
    <3> HIDE DEF S
    <3> QED BY <1>3
  <2> QED BY <2>1 DEF CountOf
<1>7. \A t \in R : t \in Past /\ t \in Past' /\ truth'[t] = truth[t]
  <2>1. \A t \in Past : t \in Past' BY DEF Past
  <2> QED BY <1>2, <2>1
<1>8. AgesIn(R)' = AgesIn(R) BY <1>7 DEF AgesIn
<1>9. \A b, k : R \cap InBucket(b, k)' = R \cap InBucket(b, k)
  <2> SUFFICES ASSUME NEW b, NEW k PROVE R \cap InBucket(b, k)' = R \cap InBucket(b, k) OBVIOUS
  <2>1. \A t \in R : t \in InBucket(b, k)' <=> t \in InBucket(b, k) BY <1>7 DEF InBucket
  <2> QED BY <2>1
<1>10. SumFunctionOnSet(Age, R)' = SumFunctionOnSet(Age, R)
  <2>1. \A t \in Past' : truth'[t] \in Event BY DEF Past
  <2>2. \A t \in Past' : truth'[t].age \in Int BY <2>1, EventType
  <2>3. Age' \in [Past' -> Int] /\ \A t \in Past' : Age'[t] = truth'[t].age BY <2>2 DEF Age
  <2>4. Age \in [Past -> Int] /\ IsFiniteSet(R) BY <1>2, PastTypes, PartTypes
  <2>5. \A t \in R : Age'[t] = Age[t] BY <1>7, <2>3, PastTypes
  <2>6. R \in SUBSET (Past' \cap Past) BY <1>7
  <2>7. SumFunctionOnSet(Age', R) = SumFunctionOnSet(Age, R) BY <2>3, <2>4, <2>5, <2>6, SumAgrees
  <2> QED BY <2>7
<1>11. Describes(p, R)'
  <2>1. p.buckets = [k \in 1..(Len(p.bounds) + 1) |-> Cardinality(R \cap InBucket(p.bounds, k)')]
    <3> DEFINE n == Len(p.bounds) + 1
               B(k) == InBucket(p.bounds, k)
    <3>1. p.buckets = [k \in 1..n |-> Cardinality(R \cap B(k))] BY <1>1 DEF Describes
    <3>2. \A k \in 1..n : Cardinality(R \cap B(k)') = Cardinality(R \cap B(k))
      <4> HIDE DEF n
      <4> QED BY <1>9
    <3> HIDE DEF n
    <3>3. p.buckets = [k \in 1..n |-> Cardinality(R \cap B(k)')] BY <3>1, <3>2, Zenon
    <3> QED BY <3>3 DEF n
  <2> QED BY <1>1, <1>8, <1>10, <2>1 DEF Describes
<1> QED BY <1>1, <1>4, <1>5, <1>11 DEF Tells

\* What a collection reports is what happened.
LEMMA ReportTells ==
  ASSUME WindowInv, process.layout \in Layouts, NEW from \in Nat, from < now, NEW stamp,
         NEW instruments, NEW k
  PROVE  /\ Tells(Report(process, from, stamp, instruments, k), from)
         /\ Report(process, from, stamp, instruments, k).start = stamp
         /\ Report(process, from, stamp, instruments, k).series = process.series
         /\ Report(process, from, stamp, instruments, k).instruments = instruments
<1> DEFINE p == Report(process, from, stamp, instruments, k)
           S == (from + 1)..now
           R == Span(from, now)
           layout == process.layout
           b == layout.bounds
<1>1. now \in Nat /\ now <= now BY DEF WindowInv
<1>2. R \in SUBSET Past /\ S \in SUBSET Past BY <1>1, ReceivedSpanTypes
<1>3. p = [id |-> k, instruments |-> instruments, series |-> process.series,
           start |-> stamp, at |-> now, bounds |-> b, count |-> Cardinality(R),
           buckets |-> [j \in 1..(Len(b) + 1) |->
                          Cardinality({x \in R : BucketOf(b, truth[x].age) = j})],
           sum |-> IF layout.records THEN AgeSum(R) ELSE None,
           min |-> IF layout.records /\ R # {} THEN Least(AgesIn(R)) ELSE None,
           max |-> IF layout.records /\ R # {} THEN Greatest(AgesIn(R)) ELSE None,
           received |-> Cardinality(R), lost |-> CountOf("lost", S),
           sequence |-> CountOf("sequence", S), gauge |-> truth[now].age]
  BY DEF Report, Span, AgesIn
<1> HIDE DEF p
<1>4. p = [f \in PointFields |-> p[f]] BY <1>3 DEF PointFields
<1>5. /\ p.id = k /\ p.instruments = instruments /\ p.series = process.series /\ p.start = stamp
      /\ p.at = now /\ p.bounds = b /\ p.count = Cardinality(R)
      /\ p.buckets = [j \in 1..(Len(b) + 1) |->
                       Cardinality({x \in R : BucketOf(b, truth[x].age) = j})]
      /\ p.sum = (IF layout.records THEN AgeSum(R) ELSE None)
      /\ p.min = (IF layout.records /\ R # {} THEN Least(AgesIn(R)) ELSE None)
      /\ p.max = (IF layout.records /\ R # {} THEN Greatest(AgesIn(R)) ELSE None)
      /\ p.received = Cardinality(R) /\ p.lost = CountOf("lost", S)
      /\ p.sequence = CountOf("sequence", S)
  BY <1>3
<1>6. CountOf("received", S) = Cardinality(R)
  <2>1. {t \in S : CASE "received" = "received" -> truth[t].kind = "received"
                     [] "received" = "lost" -> truth[t].kind = "lost"
                     [] "received" = "sequence" -> ~truth[t].inOrder} = R
    BY DEF Span, Received
  <2> QED BY <2>1 DEF CountOf
<1>7. Describes(p, R)
  <2>1. Ladder(b) BY SourceAssumption DEF Ladder
  <2>2. \A j : {x \in R : BucketOf(b, truth[x].age) = j} = R \cap InBucket(b, j)
    <3> HIDE DEF R, b
    <3> QED BY <1>2 DEF InBucket
  <2>3. p.buckets = [j \in 1..(Len(b) + 1) |-> Cardinality(R \cap InBucket(b, j))]
    <3> HIDE DEF R, b
    <3> QED BY <1>5, <2>2
  <2>4. AgeSum(R) = SumFunctionOnSet(Age, R) BY <1>2, AgeSumIs
  <2> HIDE DEF R, b, S
  <2>5. p.sum \in {None, SumFunctionOnSet(Age, R)} BY <1>5, <2>4
  <2>6. /\ p.min # None => R # {} /\ p.min = Least(AgesIn(R))
        /\ p.max # None => R # {} /\ p.max = Greatest(AgesIn(R))
    BY <1>5
  <2> QED BY <1>5, <2>1, <2>3, <2>5, <2>6 DEF Describes
<1>8. \A f \in {"received", "lost", "sequence"} : p[f] = CountOf(f, S) BY <1>5, <1>6
<1>9. Tells(p, from) BY <1>1, <1>4, <1>5, <1>7, <1>8 DEF Tells
<1> QED BY <1>5, <1>9 DEF p

LEMMA CollectOrigins ==
  ASSUME HistoryInv, NEW instruments, NEW copies \in Nat, Collect(instruments, copies),
         process.known \/ first # None \/ (instruments = Instruments /\ copies = 1)
  PROVE  ProcessInv' /\ \E F : Origins(F)'
<1> PICK born : born = process.born OBVIOUS
<1> PICK from : from = IF temporality = "delta" THEN collected ELSE born OBVIOUS
<1> PICK stamp : stamp = IF process.known THEN from ELSE IF first = None THEN now ELSE first OBVIOUS
<1> DEFINE Point(k) == Report(process, from, stamp, instruments, Cardinality(points) + k)
<1> PICK new : new = {Point(k) : k \in 1..copies} OBVIOUS
<1> PICK old : old = points OBVIOUS
<1> PICK F : Origins(F) BY DEF HistoryInv
<1> DEFINE G == [p \in old \cup new |-> IF p \in old THEN F[p] ELSE from]
<1>1. /\ now > collected /\ points' = old \cup new /\ collected' = now
      /\ first' = IF first = None THEN now ELSE first
      /\ UNCHANGED <<temporality, now, truth, process>>
  BY DEF Collect
<1>2. WindowInv /\ ProcessInv BY DEF HistoryInv
<1>3. now \in Nat /\ collected \in Nat /\ born \in 0..collected /\ from \in Nat /\ from < now
      /\ born <= from
  BY <1>1, <1>2 DEF WindowInv, ProcessInv
<1>4. \A p \in new : /\ Tells(p, from) /\ p.start = stamp /\ p.series = process.series
                     /\ p.instruments = instruments /\ p.at = now
  <2> SUFFICES ASSUME NEW k \in 1..copies
               PROVE  /\ Tells(Point(k), from) /\ Point(k).start = stamp
                      /\ Point(k).series = process.series
                      /\ Point(k).instruments = instruments /\ Point(k).at = now
    OBVIOUS
  <2>1. process.layout \in Layouts BY <1>2 DEF ProcessInv
  <2> QED BY <1>2, <1>3, <2>1, ReportTells, PointIs
<1>5. \A p \in old : p.at \in 1..collected BY <1>2 DEF WindowInv, PointInv
<1>6. \A p \in old : p \notin new
  <2> HIDE DEF Point
  <2> QED BY <1>1, <1>3, <1>4, <1>5
<1>7. /\ \A p \in old : G[p] = F[p]
      /\ \A p \in new : G[p] = from
  <2> HIDE DEF Point
  <2> QED BY <1>6
<1> HIDE DEF G, Point
<1>8. \A p \in old : Tells(p, F[p]) /\ StartIs(p, F) /\ Current(p, F) BY DEF Origins
<1>9. \A p \in old : F[p] \in Nat /\ F[p] < p.at BY <1>8 DEF Tells
\* A point that begins with the running process is one of it.
<1>10. ASSUME NEW p \in old, F[p] = born, ~process.known
       PROVE  p.start = first /\ p.series = process.series /\ first # None
  <2>1. temporality = "cumulative" BY <1>2, <1>10 DEF ProcessInv
  <2>2. ~(p.at <= born) BY <1>3, <1>5, <1>9, <1>10
  <2>3. p.start = first /\ p.series = process.series BY <1>8, <1>10, <2>1, <2>2 DEF Current
  <2>4. p.start \in Nat BY <1>8, <1>10 DEF StartIs
  <2> QED BY <2>3, <2>4, WindowAssumption
<1>11. ~process.known =>
          from = born /\ first' = stamp /\ stamp \in Nat /\ born < stamp /\ stamp <= now
  <2> SUFFICES ASSUME ~process.known
               PROVE  from = born /\ first' = stamp /\ stamp \in Nat /\ born < stamp /\ stamp <= now
    OBVIOUS
  <2>1. from = born BY <1>2 DEF ProcessInv
  <2> QED BY <1>1, <1>2, <1>3, <2>1 DEF ProcessInv
<1>12. ASSUME ~process.known, first = None
       PROVE  \E q \in new : q.at = now /\ q.instruments = Instruments
  <2>1. instruments = Instruments /\ copies = 1 BY <1>12
  <2>2. Point(1) \in new BY <2>1
  <2> QED BY <1>4, <2>1, <2>2
<1>13. ASSUME ~process.known
       PROVE  \E q \in old \cup new : G[q] = born /\ q.at = stamp /\ q.instruments = Instruments
  <2>1. CASE first = None
    <3>1. PICK q \in new : q.at = now /\ q.instruments = Instruments BY <1>12, <1>13, <2>1
    <3>2. G[q] = born /\ stamp = now BY <1>7, <1>11, <1>13, <2>1
    <3> QED BY <3>1, <3>2
  <2>2. CASE first # None
    <3>1. PICK q \in old : F[q] = born /\ q.at = first /\ q.instruments = Instruments
      BY <1>13, <2>2 DEF Origins
    <3>2. stamp = first BY <1>13, <2>2
    <3> QED BY <1>7, <3>1, <3>2
  <2> QED BY <2>1, <2>2
\* The points of the running process share its stamp.
<1>14. ASSUME ~process.known, NEW p \in old \cup new, G[p] = born PROVE p.start = stamp
  <2>1. CASE p \in old
    <3>1. p.start = first /\ first # None BY <1>7, <1>10, <1>14, <2>1
    <3> QED BY <1>14, <3>1
  <2>2. CASE p \in new BY <1>4, <2>2
  <2> QED BY <2>1, <2>2
<1>15. ASSUME NEW p \in old \cup new PROVE StartIs(p, G)'
  <2>1. CASE process.known
    <3>1. p \in old => p.start = F[p] BY <1>8, <2>1 DEF StartIs
    <3>2. p \in new => p.start = from BY <1>4, <2>1
    <3>3. p.start = G[p] BY <1>7, <1>15, <3>1, <3>2
    <3>4. G' = G BY DEF G
    <3> QED BY <1>1, <2>1, <3>3, <3>4 DEF StartIs
  <2>2. CASE ~process.known
    <3>1. /\ p.start \in Nat /\ G[p] < p.start /\ p.start <= p.at
      <4>1. CASE p \in old BY <1>7, <1>8, <2>2, <4>1 DEF StartIs
      <4>2. CASE p \in new BY <1>4, <1>7, <1>11, <2>2, <4>2
      <4> QED BY <4>1, <4>2
    <3>2. \A q \in old \cup new : G[q] = G[p] => q.start = p.start
      <4>1. CASE G[p] = born BY <1>14, <2>2, <4>1
      <4>2. CASE G[p] # born
        <5>1. p \in old /\ \A q \in old \cup new : G[q] = G[p] => q \in old
          BY <1>7, <1>11, <2>2, <4>2
        <5>2. \A q \in old : F[q] = F[p] => q.start = p.start BY <1>8, <2>2, <5>1 DEF StartIs
        <5> QED BY <1>7, <5>1, <5>2
      <4> QED BY <4>1, <4>2
    <3>3. \E q \in old \cup new : G[q] = G[p] /\ q.at = p.start /\ q.instruments = Instruments
      <4>1. CASE G[p] = born BY <1>13, <1>14, <2>2, <4>1
      <4>2. CASE G[p] # born
        <5>1. p \in old BY <1>7, <1>11, <2>2, <4>2
        <5>2. \E q \in old : F[q] = F[p] /\ q.at = p.start /\ q.instruments = Instruments
          BY <1>8, <2>2, <5>1 DEF StartIs
        <5> QED BY <1>7, <5>1, <5>2
      <4> QED BY <4>1, <4>2
    <3>4. G' = G BY DEF G
    <3> QED BY <1>1, <2>2, <3>1, <3>2, <3>3, <3>4 DEF StartIs
  <2> QED BY <2>1, <2>2
<1>16. ASSUME NEW p \in old \cup new PROVE Tells(p, G[p])'
  <2>1. Tells(p, G[p]) BY <1>4, <1>7, <1>8
  <2>2. G' = G BY DEF G
  <2>3. PICK g : g = G[p] OBVIOUS
  <2>4. Tells(p, g)'
    <3>1. now' = now /\ truth' = truth /\ truth \in Seq(Event) /\ Len(truth) = now
      BY <1>1, <1>2 DEF WindowInv
    <3> QED BY <1>2, <1>3, <2>1, <2>3, <3>1, TellsStays
  <2> QED BY <2>2, <2>3, <2>4
<1>17. ASSUME NEW p \in old \cup new PROVE Current(p, G)'
  <2>0. G' = G BY DEF G
  <2>1. CASE p \in old
    <3>1. Current(p, F) BY <1>8, <2>1
    <3>2. ~process.known /\ p.start = first /\ F[p] = born => first' = first
      BY <1>1, <1>10, <2>1
    <3> QED BY <1>1, <1>7, <2>0, <2>1, <3>1, <3>2 DEF Current
  <2>2. CASE p \in new BY <1>1, <1>4, <1>7, <1>11, <2>0, <2>2 DEF Current
  <2> QED BY <2>1, <2>2
<1>18. ASSUME NEW p \in old \cup new, NEW q \in old \cup new PROVE RelatedPoints(p, q, G)'
  <2>0. G' = G /\ temporality' = temporality BY <1>1 DEF G
  <2>1. CASE p \in old /\ q \in old
    <3>1. RelatedPoints(p, q, F) BY <2>1 DEF Origins
    <3> QED BY <1>7, <2>0, <2>1, <3>1 DEF RelatedPoints
  <2>2. CASE p \in new /\ q \in new BY <1>4, <1>7, <2>0, <2>2 DEF RelatedPoints
  \* An old point is of another collection or process, or of this process.
  <2>3. ASSUME NEW r \in old
        PROVE  \/ r.at <= from
               \/ F[r] = from /\ r.series = process.series /\ temporality = "cumulative"
    <3>1. CASE temporality = "delta" BY <1>5, <3>1
    <3>2. CASE temporality # "delta"
      <4>1. temporality = "cumulative" /\ from = born BY <1>2, <3>2 DEF ProcessInv
      <4> QED BY <1>8, <3>2, <4>1 DEF Current
    <3> QED BY <3>1, <3>2
  <2>4. CASE p \in old /\ q \in new BY <1>4, <1>7, <2>0, <2>3, <2>4 DEF RelatedPoints
  <2>5. CASE p \in new /\ q \in old BY <1>4, <1>7, <2>0, <2>3, <2>5 DEF RelatedPoints
  <2> QED BY <2>1, <2>2, <2>4, <2>5
<1>19. (~process.known /\ first # None =>
         \E q \in points : G[q] = process.born /\ q.at = first /\ q.instruments = Instruments)'
  <2>0. G' = G BY DEF G
  <2> SUFFICES ASSUME ~process.known
               PROVE  \E q \in old \cup new : G[q] = born /\ q.at = first' /\ q.instruments = Instruments
    BY <1>1, <2>0
  <2> QED BY <1>11, <1>13
<1>20. ProcessInv' BY <1>1, <1>2, <1>3 DEF ProcessInv
<1>21. Origins(G)' BY <1>1, <1>15, <1>16, <1>17, <1>18, <1>19 DEF Origins
<1> QED
  <2>1. PICK H : H = G OBVIOUS
  <2>2. G' = G BY DEF G
  <2>3. Origins(H)' BY <1>21, <2>1, <2>2
  <2> QED BY <1>20, <2>3

LEMMA HistoryInitHolds == Init => HistoryInv
<1> SUFFICES ASSUME Init PROVE HistoryInv OBVIOUS
<1>1. WindowInv BY WindowInitHolds
<1>2. ProcessInv
  <2>1. \A p \in Processes(0) : p.layout \in Layouts /\ p.born = 0 /\ p.known \in BOOLEAN
    BY DEF Processes
  <2> QED BY <2>1 DEF Init, ProcessInv
<1>3. Origins(<<>>) BY DEF Init, Origins
<1> QED BY <1>1, <1>2, <1>3 DEF HistoryInv

\* A step that collects nothing.
LEMMA RestKeeps ==
  ASSUME HistoryInv, WindowInv', \A t \in Past : truth'[t] = truth[t], now <= now',
         UNCHANGED <<temporality, points>>, process'.known = process.known, ProcessInv',
         \/ UNCHANGED <<process, first>>
         \/ first' = None /\ process'.born >= collected
  PROVE  HistoryInv'
<1> PICK F : Origins(F) BY DEF HistoryInv
<1>1. WindowInv /\ ProcessInv BY DEF HistoryInv
<1>2. ASSUME NEW p \in points PROVE Tells(p, F[p])'
  <2>1. PICK g : g = F[p] OBVIOUS
  <2>2. Tells(p, g) BY <2>1 DEF Origins
  <2>3. Tells(p, g)' BY <1>1, <2>2, TellsStays DEF WindowInv
  <2> QED BY <2>1, <2>3
<1>3. ASSUME NEW p \in points PROVE StartIs(p, F)' /\ Current(p, F)'
  <2>1. StartIs(p, F) /\ Current(p, F) BY DEF Origins
  <2>2. p.at \in 1..collected /\ collected \in Nat BY <1>1 DEF WindowInv, PointInv
  <2>3. CASE UNCHANGED <<process, first>> BY <2>1, <2>3 DEF StartIs, Current
  <2>4. CASE first' = None /\ process'.born >= collected
    <3>1. process'.born \in Int BY <1>1 DEF ProcessInv, WindowInv
    <3> QED BY <2>1, <2>2, <2>4, <3>1 DEF StartIs, Current
  <2> QED BY <2>3, <2>4
<1>4. \A p, q \in points : RelatedPoints(p, q, F)' BY DEF Origins, RelatedPoints
<1>5. (~process.known /\ first # None =>
        \E q \in points : F[q] = process.born /\ q.at = first /\ q.instruments = Instruments)'
  BY DEF Origins
<1>6. Origins(F)' BY <1>2, <1>3, <1>4, <1>5 DEF Origins
<1> QED BY <1>6 DEF HistoryInv

LEMMA HistoryStepKeeps == HistoryInv /\ [Next]_vars => HistoryInv'
<1> SUFFICES ASSUME HistoryInv, [Next]_vars PROVE HistoryInv' OBVIOUS
<1>1. WindowInv /\ ProcessInv BY DEF HistoryInv
<1>2. WindowInv' BY <1>1, WindowStepKeeps
<1>3. CASE Happen
  <2>1. /\ now' = now + 1 /\ UNCHANGED <<temporality, process, first, collected, points>>
        /\ \E e \in Event : truth' = Append(truth, e)
    BY <1>3, SourceAssumption DEF Happen
  <2>2. now \in Nat /\ truth \in Seq(Event) /\ Len(truth) = now BY <1>1 DEF WindowInv
  <2>3. \A t \in Past : truth'[t] = truth[t] BY <2>1, <2>2 DEF Past
  <2>4. ProcessInv' BY <1>1, <2>1 DEF ProcessInv
  <2>5. /\ now <= now' /\ UNCHANGED <<temporality, points>> /\ UNCHANGED <<process, first>>
        /\ process'.known = process.known
    BY <2>1, <2>2
  <2> QED BY <1>2, <2>3, <2>4, <2>5, RestKeeps
<1>4. CASE Deliver
  <2>1. Collect(Instruments, 1) BY <1>4 DEF Deliver
  <2>2. 1 \in Nat OBVIOUS
  <2> QED BY <1>2, <2>1, <2>2, CollectOrigins DEF HistoryInv
<1>5. CASE Misdeliver
  <2>1. \E instruments : \E copies \in 0..2 : Collect(instruments, copies)
    <3>1. \/ Collect(Instruments, 0) \/ Collect(Instruments, 2)
          \/ \E i \in Instruments : Collect(Instruments \ {i}, 1)
      BY <1>5 DEF Misdeliver
    <3>2. 0 \in 0..2 /\ 1 \in 0..2 /\ 2 \in 0..2 OBVIOUS
    <3> QED BY <3>1, <3>2, Zenon
  <2>2. process.known \/ first # None BY <1>5 DEF Misdeliver
  <2>3. PICK instruments : \E copies \in 0..2 : Collect(instruments, copies) BY <2>1
  <2>4. PICK copies \in 0..2 : Collect(instruments, copies) BY <2>3
  <2> QED BY <1>2, <2>2, <2>4, CollectOrigins DEF HistoryInv
<1>6. CASE Restart
  <2>1. /\ collected' = now /\ UNCHANGED <<now, truth, points, temporality>>
        /\ first' = None /\ process' \in Processes(now) /\ process'.known = process.known
    BY <1>6 DEF Restart
  <2>2. process'.born = now /\ process'.layout \in Layouts /\ process'.known \in BOOLEAN
    BY <2>1 DEF Processes
  <2>3. now \in Nat /\ collected \in Nat /\ collected <= now BY <1>1 DEF WindowInv
  <2>4. ProcessInv' BY <1>1, <2>1, <2>2, <2>3 DEF ProcessInv
  <2> QED BY <1>2, <2>1, <2>2, <2>3, <2>4, RestKeeps
<1>7. CASE UNCHANGED vars
  <2>1. UNCHANGED <<now, truth, points, temporality, process, first, collected>> BY <1>7 DEF vars
  <2>2. ProcessInv' BY <1>1, <2>1 DEF ProcessInv
  <2>3. now <= now' BY <1>1, <2>1 DEF WindowInv
  <2> QED BY <1>2, <2>1, <2>2, <2>3, RestKeeps
<1> QED BY <1>3, <1>4, <1>5, <1>6, <1>7 DEF Next

LEMMA HistoryInvariance == Spec => []HistoryInv
BY HistoryInitHolds, HistoryStepKeeps, PTL DEF Spec
-----------------------------------------------------------------------------
(***************************************************************************)
(* MetricWindow: the contributions to a histogram.                         *)
(***************************************************************************)

\* S are points of one start in one process, which began after from.
StreamOf(S, from, start) ==
  /\ Numbered(S) /\ S # {}
  /\ from \in Nat /\ start \in Nat /\ from <= start
  /\ \A p \in S : Tells(p, from) /\ p.start = start /\ start <= p.at
  /\ start = from \/ \E q \in S : q.at = start

\* The contribution c is a histogram of its interval, in the window.
Tallies(c) ==
  /\ c.start \in Nat /\ c.at \in Nat /\ Window.start <= c.start /\ c.start <= c.at
  /\ c.at <= Window.end /\ c.at <= now
  /\ Describes(c, Span(c.start, c.at))

LEMMA EntireIs ==
  ASSUME NEW p
  PROVE  /\ Entire(p).status = "ok" /\ Entire(p).start = p.start /\ Entire(p).at = p.at
         /\ \A R : Describes(p, R) => Describes(Entire(p), R)
<1>1. /\ Entire(p).status = "ok" /\ Entire(p).start = p.start /\ Entire(p).at = p.at
      /\ Entire(p).bounds = p.bounds /\ Entire(p).count = p.count /\ Entire(p).buckets = p.buckets
      /\ Entire(p).sum = p.sum /\ Entire(p).min = p.min /\ Entire(p).max = p.max
  BY DEF Entire
<1> QED BY <1>1 DEF Describes

\* A point moved in time still describes the same messages.
LEMMA MovedDescribes ==
  ASSUME NEW p, p = [f \in PointFields |-> p[f]], NEW t, NEW R, Describes(p, R)
  PROVE  [p EXCEPT !.at = t].at = t /\ Describes([p EXCEPT !.at = t], R)
<1> DEFINE q == [p EXCEPT !.at = t]
<1>1. /\ q.at = t /\ q.bounds = p.bounds /\ q.count = p.count /\ q.buckets = p.buckets
      /\ q.sum = p.sum /\ q.min = p.min /\ q.max = p.max
  BY DEF PointFields
<1> HIDE DEF q
<1>2. Describes(q, R) BY <1>1 DEF Describes
<1> QED BY <1>1, <1>2 DEF q

\* Points with the same buckets tell of the same messages.
LEMMA SameBuckets ==
  ASSUME WindowInv, NEW p, NEW q, NEW B \in SUBSET Past, NEW A \in SUBSET B,
         Describes(p, A), Describes(q, B), p.buckets = q.buckets
  PROVE  A = B
<1> DEFINE n == Len(p.bounds) + 1
           T == Total([j \in 1..n |-> p.buckets[j]])
<1>1. A \in SUBSET Past OBVIOUS
<1>2. Len(p.bounds) \in Nat /\ Len(q.bounds) \in Nat BY DEF Describes, Ladder
<1>3. n = Len(q.bounds) + 1
  <2> DEFINE m == Len(q.bounds) + 1
  <2>1. DOMAIN p.buckets = 1..n /\ DOMAIN q.buckets = 1..m BY DEF Describes
  <2>2. 1..n = 1..m BY <2>1
  <2>3. n \in Nat \ {0} /\ m \in Nat \ {0} BY <1>2
  <2> HIDE DEF n, m
  <2>4. n \in 1..m /\ m \in 1..n BY <2>2, <2>3
  <2> QED BY <2>3, <2>4 DEF m
<1>4. ASSUME NEW r, NEW R \in SUBSET Past, Describes(r, R)
      PROVE  {t \in R : BucketOf(r.bounds, truth[t].age) <= Len(r.bounds) + 1} = R
  <2>1. Ladder(r.bounds) BY <1>4 DEF Describes
  <2>2. \A t \in R : truth[t].age \in Int
    <3>1. \A t \in R : t \in Past /\ Age[t] \in Int /\ Age[t] = truth[t].age BY PastTypes
    <3> QED BY <3>1
  <2>3. \A t \in R : BucketOf(r.bounds, truth[t].age) \in 1..(Len(r.bounds) + 1)
    BY <2>1, <2>2, BucketIs
  <2>4. Len(r.bounds) \in Nat BY <2>1 DEF Ladder
  <2>5. \A t \in R : BucketOf(r.bounds, truth[t].age) <= Len(r.bounds) + 1 BY <2>3, <2>4
  <2> QED BY <2>5
<1>5. T = Cardinality(A)
  <2>1. n \in 0..(Len(p.bounds) + 1) BY <1>2
  <2>2. Total([j \in 1..n |-> p.buckets[j]])
          = Cardinality({t \in A : BucketOf(p.bounds, truth[t].age) <= n})
    <3> HIDE DEF n
    <3> QED BY <1>1, <2>1, BucketsAddUp
  <2> QED BY <1>1, <1>4, <2>2
<1>6. T = Cardinality(B)
  <2>1. n \in 0..(Len(q.bounds) + 1) BY <1>2, <1>3
  <2>2. Total([j \in 1..n |-> q.buckets[j]])
          = Cardinality({t \in B : BucketOf(q.bounds, truth[t].age) <= n})
    <3> HIDE DEF n
    <3> QED BY <2>1, BucketsAddUp
  <2>3. {t \in B : BucketOf(q.bounds, truth[t].age) <= n} = B
    <3> HIDE DEF n
    <3> QED BY <1>3, <1>4
  <2>4. T = Total([j \in 1..n |-> q.buckets[j]]) OBVIOUS
  <2> HIDE DEF n, T
  <2> QED BY <2>2, <2>3, <2>4
<1>7. IsFiniteSet(B) /\ Cardinality(A) = Cardinality(B) BY <1>5, <1>6, PartTypes
<1> QED BY <1>7, FS_Subset

\* The order of a stream is right, or wrong in a known way.
LEMMA OrderStatusIs ==
  ASSUME NEW o PROVE OrderStatus(o, CumulativePair) \in {"ok", "error", "insufficient"}
<1>1. \A p, q : CumulativePair(p, q) \in {"ok", "error", "insufficient"} BY DEF CumulativePair
<1> QED BY <1>1 DEF OrderStatus

\* What a stream contributes is a histogram of an interval of the window.
LEMMA SampleDescribes ==
  ASSUME WindowInv, NEW S, NEW from, NEW start, StreamOf(S, from, start),
         \A p \in S : p.at <= Window.end
  PROVE  LET c == CumulativeWindowSample(S)
         IN /\ c.status \in {"ok", "error", "insufficient", "outside"}
            /\ c.status = "outside" => c = Status("outside")
            /\ c.status = "ok" => /\ Tallies(c) /\ from <= c.start
                                  /\ \E p \in S : c.at = p.at
<1> DEFINE c == CumulativeWindowSample(S)
           o == InOrder(S)
           latest == o[Len(o)]
           n == Cardinality(Until(S, Window.start))
           order == OrderStatus(o, CumulativePair)
           quiet == [o[n] EXCEPT !.at = Window.start]
<1>0. c = IF order # "ok" THEN Status(order)
          ELSE IF latest.at <= Window.start THEN Status("outside")
          ELSE IF latest.start >= Window.start
            THEN IF o[1].start = o[1].at THEN Subtract(latest, o[1]) ELSE Entire(latest)
          ELSE IF n = 0 \/ (o[n].at < Window.start /\ o[n].buckets # o[n + 1].buckets)
            THEN Status("insufficient")
          ELSE Subtract(latest, quiet)
  BY DEF CumulativeWindowSample
<1>1. Numbered(S) /\ S # {} /\ from \in Nat /\ start \in Nat /\ from <= start
      /\ \A p \in S : Tells(p, from) /\ p.start = start /\ start <= p.at
      /\ (start = from \/ \E q \in S : q.at = start)
  BY DEF StreamOf
<1>2. order \in {"ok", "error", "insufficient"} BY OrderStatusIs
<1>3. InTime(o, S) BY <1>1, InOrderIs
<1>4. Window.start \in Nat /\ Window.end \in Nat /\ now \in Nat BY WindowTypes DEF WindowInv
<1>5. n \in 0..Len(o) /\ \A k \in 1..Len(o) : o[k].at <= Window.start <=> k <= n
  <2> HIDE DEF o
  <2>1. Window.start \in Int BY <1>4
  <2> QED BY <1>1, <1>3, <2>1, UntilIsFirst
<1> HIDE DEF c, o, n, order, quiet
<1>6. Len(o) \in Nat /\ Len(o) >= 1
  <2>1. Len(o) \in Nat /\ \A p \in S : \E k \in 1..Len(o) : o[k] = p BY <1>3 DEF InTime
  <2> QED BY <1>1, <2>1
<1>7. \A k \in 1..Len(o) : /\ o[k] \in S /\ Tells(o[k], from) /\ o[k].start = start
                           /\ start <= o[k].at /\ o[k].at \in Nat /\ from < o[k].at
                           /\ o[k].at <= now /\ o[k].at <= Window.end
                           /\ Describes(o[k], Span(from, o[k].at))
  <2>1. \A k \in 1..Len(o) : o[k] \in S BY <1>3 DEF InTime
  <2> QED BY <1>1, <2>1 DEF Tells
<1>8. \A k, l \in 1..Len(o) : k <= l => o[k].at <= o[l].at
  <2> SUFFICES ASSUME NEW k \in 1..Len(o), NEW l \in 1..Len(o), k <= l PROVE o[k].at <= o[l].at
    OBVIOUS
  <2>1. k = l \/ k < l BY <1>6
  <2> QED BY <1>3, <1>7, <2>1 DEF InTime
<1>9. Len(o) \in 1..Len(o) /\ 1 \in 1..Len(o) BY <1>6
\* The least instant is that of the start, if the start was seen.
<1>11. o[1].start = o[1].at \/ start = from
  <2>1. ASSUME NEW q \in S, q.at = start PROVE o[1].at = start
    <3>1. PICK k \in 1..Len(o) : o[k] = q BY <1>3 DEF InTime
    <3>2. 1 <= k BY <1>6
    <3>3. o[1].at <= o[k].at BY <1>8, <1>9, <3>2
    <3>4. start <= o[1].at /\ o[1].at \in Nat BY <1>7, <1>9
    <3> QED BY <1>1, <2>1, <3>1, <3>3, <3>4
  <2> QED BY <1>1, <1>7, <1>9, <2>1
<1>12. ASSUME c.status = "ok", NEW base, NEW a \in Nat, from <= a, start <= a,
              Window.start <= a, a <= latest.at, base.at = a, Describes(base, Span(from, a)), c = Subtract(latest, base)
       PROVE  Tallies(c) /\ from <= c.start /\ \E p \in S : c.at = p.at
  <2>1. /\ latest \in S /\ latest.at \in Nat /\ from <= latest.at /\ latest.at <= now
        /\ latest.at <= Window.end /\ Describes(latest, Span(from, latest.at))
    BY <1>1, <1>7, <1>9
  <2> HIDE DEF latest
  <2>2. /\ Span(from, latest.at) \in SUBSET Past /\ Span(from, a) \in SUBSET Span(from, latest.at)
        /\ Span(from, latest.at) \ Span(from, a) = Span(a, latest.at)
    BY <1>1, <1>12, <2>1, ReceivedSpanTypes
  <2>3. Describes(c, Span(a, latest.at)) /\ c.start = a /\ c.at = latest.at
    <3>1. Subtract(latest, base).status = "ok" BY <1>12
    <3>2. /\ Describes(Subtract(latest, base), Span(from, latest.at) \ Span(from, a))
          /\ Subtract(latest, base).start = base.at /\ Subtract(latest, base).at = latest.at
      <4> PICK l : l = latest OBVIOUS
      <4> PICK A, B : A = Span(from, a) /\ B = Span(from, l.at) OBVIOUS
      <4>1. B \in SUBSET Past /\ A \in SUBSET B BY <2>2
      <4>2. Describes(l, B) /\ Describes(base, A) /\ Subtract(l, base).status = "ok"
        BY <1>12, <2>1, <3>1
      <4>3. /\ Describes(Subtract(l, base), B \ A)
            /\ Subtract(l, base).start = base.at /\ Subtract(l, base).at = l.at
        BY <4>1, <4>2, SubtractDescribes
      <4> QED BY <4>3
    <3> QED BY <1>12, <2>2, <3>2
  <2>4. Tallies(c) BY <1>4, <1>12, <2>1, <2>3 DEF Tallies
  <2> QED BY <1>12, <2>1, <2>3, <2>4
<1>13. ASSUME c.status = "ok" PROVE Tallies(c) /\ from <= c.start /\ \E p \in S : c.at = p.at
  <2>1. order = "ok" /\ ~(latest.at <= Window.start)
    <3>1. Status(order).status = order /\ Status("outside").status = "outside" BY DEF Status
    <3> QED BY <1>0, <1>13, <3>1
  <2>2. latest.at \in Nat /\ latest.at > Window.start /\ latest.start = start
    BY <1>4, <1>7, <1>9, <2>1
  <2>3. CASE start >= Window.start
    <3>1. CASE o[1].start = o[1].at
      <4>1. c = Subtract(latest, o[1]) BY <1>0, <2>1, <2>2, <2>3, <3>1
      <4>2. o[1].at \in Nat /\ o[1].at = start /\ from <= o[1].at /\ o[1].at <= latest.at
            /\ Describes(o[1], Span(from, o[1].at))
        BY <1>1, <1>6, <1>7, <1>8, <1>9, <3>1
      <4> HIDE DEF latest
      <4> QED BY <1>12, <1>13, <2>3, <4>1, <4>2
    <3>2. CASE o[1].start # o[1].at
      <4>1. c = Entire(latest) /\ start = from BY <1>0, <1>11, <2>1, <2>2, <2>3, <3>2
      <4>2. latest \in S /\ Describes(latest, Span(start, latest.at)) /\ latest.at <= now
            /\ latest.at <= Window.end /\ start <= latest.at
        BY <1>7, <1>9, <4>1
      <4> HIDE DEF latest
      <4>3. c.start = start /\ c.at = latest.at /\ Describes(c, Span(start, latest.at))
        BY <2>2, <4>1, <4>2, EntireIs
      <4>4. Tallies(c) BY <1>1, <2>2, <2>3, <4>2, <4>3 DEF Tallies
      <4> QED BY <1>1, <4>1, <4>2, <4>3, <4>4
    <3> QED BY <3>1, <3>2
  <2>4. CASE ~(start >= Window.start)
    <3>1. /\ n # 0 /\ ~(o[n].at < Window.start /\ o[n].buckets # o[n + 1].buckets)
          /\ c = Subtract(latest, quiet)
      <4>1. Status("insufficient").status = "insufficient" BY DEF Status
      <4> QED BY <1>0, <1>13, <2>1, <2>2, <2>4, <4>1
    <3>2. n \in 1..Len(o) /\ o[n].at <= Window.start BY <1>5, <1>6, <3>1
    <3>3. n # Len(o) BY <1>4, <2>2, <3>2
    <3>4. n + 1 \in 1..Len(o) /\ o[n + 1].at > Window.start
      <4>1. n + 1 \in 1..Len(o) /\ ~(n + 1 <= n) BY <1>5, <1>6, <3>2, <3>3
      <4>2. o[n + 1].at \in Nat /\ ~(o[n + 1].at <= Window.start) BY <1>5, <1>7, <4>1
      <4> QED BY <1>4, <4>1, <4>2
    <3>5. start \in Nat /\ start <= Window.start /\ from <= Window.start /\ Window.start <= now
      BY <1>1, <1>4, <1>7, <2>4, <3>4
    <3>6. Describes(o[n], Span(from, Window.start))
      <4>1. CASE o[n].at = Window.start BY <1>7, <3>2, <4>1
      <4>2. CASE o[n].at # Window.start
        <5> DEFINE A == Span(from, o[n].at)
                   M == Span(from, Window.start)
                   B == Span(from, o[n + 1].at)
        <5>1. o[n].buckets = o[n + 1].buckets BY <1>4, <1>7, <3>1, <3>2, <4>2
        <5>2. A \in SUBSET M
          BY <1>1, <1>4, <1>7, <3>2, <3>5, ReceivedSpanTypes
        <5>3. M \in SUBSET B /\ B \in SUBSET Past
          BY <1>1, <1>4, <1>7, <3>4, <3>5, ReceivedSpanTypes
        <5>4. Describes(o[n], A) /\ Describes(o[n + 1], B) BY <1>7, <3>2, <3>4
        <5> HIDE DEF A, M, B
        <5>5. A \in SUBSET B BY <5>2, <5>3
        <5>6. A = B BY <5>1, <5>3, <5>4, <5>5, SameBuckets
        <5>7. A = M BY <5>2, <5>3, <5>6
        <5> QED BY <5>4, <5>7 DEF M
      <4> QED BY <4>1, <4>2
    <3>7. quiet.at = Window.start /\ Describes(quiet, Span(from, Window.start))
      <4>1. o[n] = [f \in PointFields |-> o[n][f]] BY <1>1, <1>7, <3>2 DEF Tells
      <4> QED BY <3>6, <4>1, MovedDescribes DEF quiet
    <3>8. Window.start \in Nat /\ Window.start <= Window.start /\ Window.start <= latest.at BY <1>4, <2>2
    <3> HIDE DEF latest
    <3> QED BY <1>12, <1>13, <3>1, <3>5, <3>7, <3>8
  <2> QED BY <2>3, <2>4
<1>14. c.status \in {"ok", "error", "insufficient", "outside"} /\ (c.status = "outside" => c = Status("outside"))
  <2>1. \A x, y : Subtract(x, y).status \in {"ok", "error"} BY DEF Subtract, Status
  <2>2. \A x : Entire(x).status = "ok" BY DEF Entire
  <2>3. Status("outside").status = "outside" /\ Status("insufficient").status = "insufficient"
        /\ Status(order).status = order
    BY DEF Status
  <2> HIDE DEF latest
  <2>4. CASE order # "ok" BY <1>0, <1>2, <2>3, <2>4
  <2>5. CASE order = "ok" BY <1>0, <2>1, <2>2, <2>3, <2>5
  <2> QED BY <2>4, <2>5
<1> QED BY <1>13, <1>14 DEF c

LEMMA ImageIsFinite ==
  ASSUME NEW D, IsFiniteSet(D), NEW f
  PROVE  IsFiniteSet({f[x] : x \in D})
<1> DEFINE g == [x \in D |-> f[x]]
           I == {f[x] : x \in D}
<1>1. g \in [D -> I] /\ \A y \in I : \E x \in D : g[x] = y OBVIOUS
<1>2. g \in Surjection(D, I)
  <2> HIDE DEF g, I
  <2> QED BY <1>1 DEF Surjection
<1> HIDE DEF g
<1> QED BY <1>2, FS_Surjection

LEMMA StreamsAreFinite ==
  ASSUME NEW P, IsFiniteSet(P)
  PROVE  IsFiniteSet(Streams(P))
<1> DEFINE f == [p \in P |-> {q \in P : q.series = p.series /\ q.start = p.start}]
<1>1. Streams(P) = {f[p] : p \in P} BY DEF Streams
<1> HIDE DEF f
<1> QED BY <1>1, ImageIsFinite

\* Evidence of an instrument that always was among those of a start.
Evident(P) == P \in SUBSET points /\ \A p \in points : p.instruments = Instruments => p \in P

LEMMA PointsOfAre == \A i \in Instruments : Evident(PointsOf(i))
BY DEF Evident, PointsOf

\* The streams of a cumulative process.
LEMMA StreamsAre ==
  ASSUME WindowInv, ProcessInv, NEW F, Origins(F), temporality = "cumulative",
         NEW P, Evident(P), NEW t \in Int, NEW S \in Streams(Until(P, t)), NEW p \in S
  PROVE  /\ S \in SUBSET points /\ \A q \in S : q.at <= t /\ F[q] = F[p]
         /\ StreamOf(S, F[p], p.start)
         /\ process.known => p.start = F[p]
<1> DEFINE U == Until(P, t)
<1>1. /\ S \in SUBSET U
      /\ \A q \in U : q \in S <=> q.series = p.series /\ q.start = p.start
  <2>1. PICK r \in U : S = {q \in U : q.series = r.series /\ q.start = r.start} BY DEF Streams
  <2> HIDE DEF U
  <2> QED BY <2>1
<1>2. U \in SUBSET points /\ \A q \in U : q.at <= t BY DEF Until, Evident
<1> HIDE DEF U
<1>3. S \in SUBSET points /\ \A q \in S : q.at <= t BY <1>1, <1>2
<1>4. \A q \in points : Tells(q, F[q]) /\ StartIs(q, F) /\ F[q] \in Nat /\ q.at \in Nat /\ F[q] < q.at
  BY DEF Origins, Tells
<1>5. \A q \in points : F[q] = F[p] => q.start = p.start
  BY <1>3, <1>4 DEF StartIs
<1>6. \A q, r \in points : F[q] = F[r] => q.series = r.series
  <2> SUFFICES ASSUME NEW q \in points, NEW r \in points, F[q] = F[r] PROVE q.series = r.series
    OBVIOUS
  <2>1. RelatedPoints(q, r, F) BY DEF Origins
  <2> QED BY <1>4, <2>1 DEF RelatedPoints
\* Points of one start are of one process: starts that differ in process differ.
<1>7. \A q \in S : F[q] = F[p]
  <2> SUFFICES ASSUME NEW q \in S PROVE F[q] = F[p] OBVIOUS
  <2>1. q \in points /\ p \in points /\ q.start = p.start BY <1>1, <1>3
  <2>2. CASE process.known BY <1>4, <2>1, <2>2 DEF StartIs
  <2>3. CASE ~process.known
    <3>1. /\ p.start \in Nat /\ F[p] < p.start /\ p.start <= p.at
          /\ F[q] < q.start /\ q.start <= q.at
      BY <1>4, <2>1, <2>3 DEF StartIs
    <3>2. RelatedPoints(p, q, F) BY <2>1 DEF Origins
    <3>3. F[p] \in Nat /\ F[q] \in Nat /\ p.at \in Nat /\ q.at \in Nat BY <1>4, <2>1
    <3> QED BY <2>1, <3>1, <3>2, <3>3 DEF RelatedPoints
  <2> QED BY <2>2, <2>3
<1>8. Numbered(S)
  <2>1. IsFiniteSet(S) BY <1>3, FS_Subset DEF WindowInv, PointInv
  <2>2. \A q \in points : q.id \in Int /\ q.at \in Int BY DEF WindowInv, PointInv
  <2>3. \A q, r \in points : q.id = r.id => q = r BY DEF WindowInv, PointInv
  <2> QED BY <1>3, <2>1, <2>2, <2>3 DEF Numbered
<1>9. p \in points BY <1>3
<1>10. /\ p.start \in Nat /\ F[p] <= p.start
       /\ \A q \in S : p.start <= q.at
       /\ p.start = F[p] \/ \E q \in S : q.at = p.start
  <2>1. CASE process.known
    <3>1. p.start = F[p] BY <1>4, <1>9, <2>1 DEF StartIs
    <3>2. F[p] \in Nat /\ \A q \in S : F[q] = F[p] /\ F[q] < q.at /\ q.at \in Nat
      BY <1>3, <1>4, <1>7, <1>9
    <3> QED BY <3>1, <3>2
  <2>2. CASE ~process.known
    <3>1. p.start \in Nat /\ F[p] < p.start /\ F[p] \in Nat BY <1>4, <1>9, <2>2 DEF StartIs
    <3>2. \A q \in S : q.start <= q.at /\ q.start = p.start BY <1>1, <1>3, <1>4, <2>2 DEF StartIs
    <3>3. PICK q \in points : F[q] = F[p] /\ q.at = p.start /\ q.instruments = Instruments
      BY <1>4, <1>9, <2>2 DEF StartIs
    <3>4. q.series = p.series /\ q.start = p.start BY <1>5, <1>6, <1>9, <3>3
    <3>5. q \in U
      <4>1. q \in P BY <3>3 DEF Evident
      <4>2. p.start <= p.at /\ p.at <= t /\ p.at \in Nat BY <1>3, <1>4, <1>9, <3>2
      <4>3. q.at <= t BY <3>1, <3>3, <4>2
      <4> QED BY <4>1, <4>3 DEF U, Until
    <3> QED BY <1>1, <3>1, <3>2, <3>3, <3>4, <3>5
  <2> QED BY <2>1, <2>2
<1>11. StreamOf(S, F[p], p.start)
  <2>1. \A q \in S : Tells(q, F[p]) /\ q.start = p.start BY <1>1, <1>3, <1>4, <1>7
  <2> QED BY <1>4, <1>8, <1>9, <1>10, <2>1 DEF StreamOf
<1> QED BY <1>3, <1>4, <1>7, <1>9, <1>11 DEF StartIs

\* Two streams are of processes that follow each other.
LEMMA StreamsAreApart ==
  ASSUME WindowInv, ProcessInv, NEW F, Origins(F), temporality = "cumulative",
         NEW P, Evident(P), NEW t \in Int, NEW S \in Streams(Until(P, t)),
         NEW T \in Streams(Until(P, t)), S # T, NEW p \in S, NEW q \in T
  PROVE  p.at <= F[q] \/ q.at <= F[p]
<1>1. p \in points /\ q \in points BY StreamsAre
<1>2. RelatedPoints(p, q, F) /\ StartIs(p, F) /\ StartIs(q, F) BY <1>1 DEF Origins
<1>3. F[p] = F[q] => p.start = q.start BY <1>1, <1>2 DEF StartIs
<1>4. ~(p.series = q.series /\ p.start = q.start)
  <2> DEFINE U == Until(P, t)
  <2>1. PICK r \in U : S = {x \in U : x.series = r.series /\ x.start = r.start} BY DEF Streams
  <2>2. PICK s \in U : T = {x \in U : x.series = s.series /\ x.start = s.start} BY DEF Streams
  <2> HIDE DEF U
  <2> QED BY <2>1, <2>2
<1> QED BY <1>2, <1>3, <1>4 DEF RelatedPoints

\* What becomes of the streams is known: no stream failed, or one did.
LEMMA FailureIs ==
  ASSUME NEW P, \A p \in P : p.id \in Nat
  PROVE  /\ FirstFailure(CumulativeWindowSample, P) \in {"ok", "error", "insufficient"}
         /\ FirstFailure(CumulativeWindowSample, P) = "ok" =>
              \A S \in Streams(P) :
                CumulativeWindowSample(S).status \notin {"error", "insufficient"}
<1> DEFINE failed == {T \in Streams(P) :
                        CumulativeWindowSample(T).status \in {"error", "insufficient"}}
           rank(T) == Least({p.id : p \in T})
           N == {n \in Nat : \E T \in failed : rank(T) = n}
           earliest == CHOOSE T \in failed : \A V \in failed : rank(T) <= rank(V)
<1>1. FirstFailure(CumulativeWindowSample, P)
        = IF failed = {} THEN "ok" ELSE CumulativeWindowSample(earliest).status
  BY DEF FirstFailure
<1> HIDE DEF failed
<1>2. ASSUME failed # {}
      PROVE  FirstFailure(CumulativeWindowSample, P) \in {"error", "insufficient"}
  <2>1. ASSUME NEW T \in failed PROVE rank(T) \in Nat
    <3> DEFINE I == {p.id : p \in T}
    <3>1. PICK p \in P : T = {q \in P : q.series = p.series /\ q.start = p.start}
      BY DEF Streams, failed
    <3>2. I \in SUBSET Nat /\ p.id \in I BY <3>1
    <3> HIDE DEF I
    <3>3. \E x \in I : \A y \in I : x <= y BY <3>2, Smallest
    <3>4. Least(I) \in I BY <3>3 DEF Least
    <3> QED BY <3>2, <3>4 DEF I
  <2>2. PICK T \in failed : \A V \in failed : rank(T) <= rank(V)
    <3> HIDE DEF rank
    <3>1. N \in SUBSET Nat /\ N # {} BY <1>2, <2>1
    <3>2. PICK n \in N : \A k \in N : n <= k
      <4> HIDE DEF N
      <4> QED BY <3>1, Smallest
    <3>3. PICK T \in failed : rank(T) = n OBVIOUS
    <3>4. \A V \in failed : rank(V) \in N BY <2>1
    <3> HIDE DEF N
    <3> QED BY <3>2, <3>3, <3>4
  <2> HIDE DEF rank
  <2>3. earliest \in failed BY <2>2
  <2> HIDE DEF earliest
  <2> QED BY <1>1, <1>2, <2>3 DEF failed
<1>3. failed = {} => FirstFailure(CumulativeWindowSample, P) = "ok" BY <1>1
<1>4. failed = {} => \A S \in Streams(P) :
                       CumulativeWindowSample(S).status \notin {"error", "insufficient"}
  BY DEF failed
<1> QED BY <1>2, <1>3, <1>4

\* The contributions are histograms of intervals of the window that are apart.
Tallied(C) ==
  /\ IsFiniteSet(C)
  /\ \A c \in C : Tallies(c)
  /\ \A c, d \in C : c # d => c.at <= d.start \/ d.at <= c.start

LEMMA DeltasTally ==
  ASSUME WindowInv, ProcessInv, NEW F, Origins(F), temporality = "delta",
         NEW P \in SUBSET points, ValidDelta(Selected(P))
  PROVE  Tallied({Entire(p) : p \in Selected(P)})
<1> DEFINE D == Selected(P)
           C == {Entire(p) : p \in D}
<1>1. D \in SUBSET points BY DEF Selected
<1>2. IsFiniteSet(C)
  <2>1. IsFiniteSet(D) BY <1>1, FS_Subset DEF WindowInv, PointInv
  <2> DEFINE f == [p \in D |-> Entire(p)]
  <2>2. C = {f[p] : p \in D} OBVIOUS
  <2> HIDE DEF D, f, C
  <2> QED BY <2>1, <2>2, ImageIsFinite
<1>3. \A p \in D : /\ Tells(p, p.start) /\ F[p] = p.start
                   /\ p.start < p.at /\ Window.start <= p.start /\ p.at <= Window.end
  <2>1. process.known BY DEF ProcessInv
  <2>2. \A p \in points : Tells(p, F[p]) /\ p.start = F[p] BY <2>1 DEF Origins, StartIs
  <2>3. \A p \in D : Window.start <= p.start /\ p.at <= Window.end BY DEF Selected
  <2>4. \A p \in D : p.start < p.at BY DEF ValidDelta
  <2> HIDE DEF D
  <2> QED BY <1>1, <2>2, <2>3, <2>4
<1>4. \A p, q \in D : p # q => p.at <= q.start \/ q.at <= p.start
  <2> SUFFICES ASSUME NEW p \in D, NEW q \in D, p # q PROVE p.at <= q.start \/ q.at <= p.start
    OBVIOUS
  <2>1. RelatedPoints(p, q, F) BY <1>1 DEF Origins
  <2>2. p.series = q.series => p.at <= q.start \/ q.at <= p.start BY DEF ValidDelta
  <2> HIDE DEF D
  <2> QED BY <1>3, <2>1, <2>2 DEF RelatedPoints
<1>5. \A p \in D : Tallies(Entire(p))
  <2> HIDE DEF D
  <2> SUFFICES ASSUME NEW p \in D PROVE Tallies(Entire(p)) OBVIOUS
  <2>1. p.start \in Nat /\ p.at \in Nat /\ p.at <= now /\ Describes(p, Span(p.start, p.at))
        /\ p.start < p.at
    BY <1>3 DEF Tells
  <2>2. Entire(p).start = p.start /\ Entire(p).at = p.at
        /\ Describes(Entire(p), Span(p.start, p.at))
    BY <2>1, EntireIs
  <2> QED BY <1>3, <2>1, <2>2 DEF Tallies
<1>6. \A p \in D : Entire(p).start = p.start /\ Entire(p).at = p.at BY EntireIs
<1> HIDE DEF D
<1>7. \A c, d \in C : c # d => c.at <= d.start \/ d.at <= c.start BY <1>4, <1>6
<1>8. \A c \in C : Tallies(c) BY <1>5
<1> HIDE DEF C
<1>9. Tallied(C) BY <1>2, <1>7, <1>8 DEF Tallied
<1> QED BY <1>9 DEF C, D

LEMMA ContributionsTally ==
  ASSUME HistoryInv, NEW P, Evident(P), Contributions(P, temporality).status = "ok"
  PROVE  Tallied(Contributions(P, temporality).of)
<1> PICK F : Origins(F) BY DEF HistoryInv
<1>1. WindowInv /\ ProcessInv /\ P \in SUBSET points BY DEF HistoryInv, Evident
<1> DEFINE early == Until(P, Window.end)
           failure == FirstFailure(CumulativeWindowSample, early)
           deltas == {Entire(p) : p \in Selected(P)}
           samples == {CumulativeWindowSample(S) : S \in Streams(early)}
           C == samples \ {Status("outside")}
<1>2. Contributions(P, temporality) =
        IF P = {} THEN Status("insufficient")
        ELSE IF temporality = "delta"
          THEN IF ValidDelta(Selected(P)) THEN [status |-> "ok", of |-> deltas] ELSE Status("error")
        ELSE IF failure # "ok" THEN Status(failure) ELSE [status |-> "ok", of |-> C]
  BY DEF Contributions
<1> HIDE DEF failure, deltas, samples
<1>3. \A x : Status(x).status = x BY DEF Status
<1>4. CASE temporality = "delta"
  <2>1. ValidDelta(Selected(P)) /\ Contributions(P, temporality).of = deltas
    BY <1>2, <1>3, <1>4
  <2> QED BY <1>1, <1>4, <2>1, DeltasTally DEF deltas
<1>5. CASE temporality # "delta"
  <2>1. temporality = "cumulative" BY <1>1, <1>5 DEF ProcessInv
  <2>2. failure = "ok" /\ Contributions(P, temporality).of = C BY <1>2, <1>3, <1>5
  <2>3. early \in SUBSET points /\ IsFiniteSet(early) /\ \A p \in early : p.id \in Nat
    <3>1. early \in SUBSET points BY <1>1 DEF Until
    <3>2. IsFiniteSet(points) /\ \A p \in points : p.id \in Nat BY <1>1 DEF WindowInv, PointInv
    <3> HIDE DEF early
    <3> QED BY <3>1, <3>2, FS_Subset
  <2>4. IsFiniteSet(C)
    <3> DEFINE f == [S \in Streams(early) |-> CumulativeWindowSample(S)]
    <3>1. samples = {f[S] : S \in Streams(early)} BY DEF samples
    <3> HIDE DEF f
    <3>2. IsFiniteSet(samples) BY <2>3, <3>1, StreamsAreFinite, ImageIsFinite
    <3> QED BY <3>2, FS_Subset
  <2>5. Window.end \in Int BY WindowTypes
  <2>6. ASSUME NEW S \in Streams(early), CumulativeWindowSample(S) # Status("outside")
        PROVE  \E p \in S : /\ Tallies(CumulativeWindowSample(S))
                            /\ F[p] <= CumulativeWindowSample(S).start
                            /\ CumulativeWindowSample(S).at = p.at
    <3> DEFINE c == CumulativeWindowSample(S)
    <3>1. PICK r : r \in S BY DEF Streams
    <3>2. StreamOf(S, F[r], r.start) /\ \A q \in S : q.at <= Window.end
      BY <1>1, <2>1, <2>5, <3>1, StreamsAre
    <3>3. \A q \in S : F[q] = F[r] BY <1>1, <2>1, <2>5, <3>1, StreamsAre
    <3>4. c.status \notin {"error", "insufficient"}
      BY <2>2, <2>3, FailureIs DEF failure
    <3>5. /\ c.status \in {"ok", "error", "insufficient", "outside"}
          /\ c.status = "outside" => c = Status("outside")
          /\ c.status = "ok" => /\ Tallies(c) /\ F[r] <= c.start
                                /\ \E p \in S : c.at = p.at
      BY <1>1, <3>2, SampleDescribes
    <3> HIDE DEF c
    <3>6. Tallies(c) /\ F[r] <= c.start /\ \E p \in S : c.at = p.at
      BY <2>6, <3>4, <3>5 DEF c
    <3> QED BY <3>3, <3>6 DEF c
  <2>7. \A c \in C : Tallies(c) BY <2>6 DEF samples
  <2>8. \A c, d \in C : c # d => c.at <= d.start \/ d.at <= c.start
    <3> SUFFICES ASSUME NEW c \in C, NEW d \in C, c # d
                 PROVE  c.at <= d.start \/ d.at <= c.start
      OBVIOUS
    <3>1. PICK S \in Streams(early) : c = CumulativeWindowSample(S) BY DEF samples
    <3>2. PICK T \in Streams(early) : d = CumulativeWindowSample(T) BY DEF samples
    <3>3. S # T BY <3>1, <3>2
    <3>4. PICK p \in S : F[p] <= c.start /\ c.at = p.at BY <2>6, <3>1
    <3>5. PICK q \in T : F[q] <= d.start /\ d.at = q.at BY <2>6, <3>2
    <3>6. p.at <= F[q] \/ q.at <= F[p] BY <1>1, <2>1, <2>5, <3>3, StreamsAreApart
    <3>7. c.start \in Nat /\ c.at \in Nat /\ d.start \in Nat /\ d.at \in Nat
      BY <2>7 DEF Tallies
    <3>8. F[p] \in Nat /\ F[q] \in Nat
      <4>1. p \in points /\ q \in points BY <1>1, <2>1, <2>5, StreamsAre
      <4> QED BY <4>1 DEF Origins, Tells
    <3> QED BY <3>4, <3>5, <3>6, <3>7, <3>8
  <2> HIDE DEF C
  <2> QED BY <2>2, <2>4, <2>7, <2>8 DEF Tallied
<1> QED BY <1>4, <1>5
-----------------------------------------------------------------------------
(***************************************************************************)
(* MetricWindow: contributions merged.                                     *)
(***************************************************************************)

\* The messages a contribution describes.
Told(c) == Span(c.start, c.at)
ToldBy(C) == [c \in C |-> Told(c)]

LEMMA ToldApart ==
  ASSUME WindowInv, NEW C, Tallied(C)
  PROVE  /\ ToldBy(C) \in [C -> SUBSET Past]
         /\ \A c, d \in C : c # d => ToldBy(C)[c] \cap ToldBy(C)[d] = {}
         /\ \A c \in C : ToldBy(C)[c] = Told(c) /\ Told(c) \in SUBSET Past /\ Describes(c, Told(c))
         /\ SlotsOf(Coverage(C)) \in SUBSET Past /\ SlotsOf(Coverage(C)) \in SUBSET WindowSlots
         /\ WholeOf(ToldBy(C), C) = Received(SlotsOf(Coverage(C)))
<1>1. \A c \in C : /\ c.start \in Nat /\ c.at \in Nat /\ Window.start <= c.start
                   /\ c.start <= c.at /\ c.at <= Window.end /\ c.at <= now
                   /\ Describes(c, Told(c))
  BY DEF Tallied, Tallies, Told
<1>2. \A c \in C : (c.start + 1)..c.at \in SUBSET Past /\ Told(c) \in SUBSET Past
  BY <1>1, ReceivedSpanTypes DEF Told
<1>3. ToldBy(C) \in [C -> SUBSET Past] /\ \A c \in C : ToldBy(C)[c] = Told(c)
  BY <1>2 DEF ToldBy
<1>4. ASSUME NEW c \in C, NEW d \in C, c # d PROVE Told(c) \cap Told(d) = {}
  <2>1. c.at <= d.start \/ d.at <= c.start BY <1>4 DEF Tallied
  <2>2. \A t : ~(t \in (c.start + 1)..c.at /\ t \in (d.start + 1)..d.at) BY <1>1, <2>1
  <2> QED BY <2>2 DEF Told, Span, Received
<1>5. \A t : t \in SlotsOf(Coverage(C)) <=> \E c \in C : t \in (c.start + 1)..c.at
  <2>1. \A c \in C : [series |-> c.series, start |-> c.start, end |-> c.at] \in Coverage(C)
    BY DEF Coverage
  <2>2. \A i \in Coverage(C) : \E c \in C : i.start = c.start /\ i.end = c.at
    BY DEF Coverage
  <2> SUFFICES ASSUME NEW t
               PROVE  t \in SlotsOf(Coverage(C)) <=> \E c \in C : t \in (c.start + 1)..c.at
    OBVIOUS
  <2>3. ASSUME t \in SlotsOf(Coverage(C)) PROVE \E c \in C : t \in (c.start + 1)..c.at
    <3>1. PICK i \in Coverage(C) : t \in (i.start + 1)..i.end BY <2>3 DEF SlotsOf
    <3> QED BY <2>2, <3>1
  <2>4. ASSUME NEW c \in C, t \in (c.start + 1)..c.at PROVE t \in SlotsOf(Coverage(C))
    <3> DEFINE i == [series |-> c.series, start |-> c.start, end |-> c.at]
    <3>1. i \in Coverage(C) /\ i.start = c.start /\ i.end = c.at BY <2>1
    <3> HIDE DEF i
    <3> QED BY <2>4, <3>1 DEF SlotsOf
  <2> QED BY <2>3, <2>4
<1>6. SlotsOf(Coverage(C)) \in SUBSET Past BY <1>2, <1>5
<1>7. SlotsOf(Coverage(C)) \in SUBSET WindowSlots
  <2>1. \A c \in C : \A t : t \in (c.start + 1)..c.at => t \in WindowSlots
    BY <1>1, WindowTypes DEF WindowSlots
  <2> QED BY <1>5, <2>1
<1>8. WholeOf(ToldBy(C), C) = Received(SlotsOf(Coverage(C)))
  <2>1. \A t : t \in WholeOf(ToldBy(C), C) <=> \E c \in C : t \in Told(c)
    BY <1>3 DEF WholeOf
  <2>2. \A c \in C : \A t : t \in Told(c) <=> t \in (c.start + 1)..c.at /\ truth[t].kind = "received"
    BY DEF Told, Span, Received
  <2>3. \A t : t \in Received(SlotsOf(Coverage(C)))
                 <=> t \in SlotsOf(Coverage(C)) /\ truth[t].kind = "received"
    BY DEF Received
  <2> QED BY <1>5, <2>1, <2>2, <2>3
<1> QED BY <1>1, <1>2, <1>3, <1>4, <1>6, <1>7, <1>8

\* A sum over contributions is that of what they tell.
LEMMA TotalIs ==
  ASSUME WindowInv, NEW C, Tallied(C), NEW m, Additive(m, Past), NEW f,
         DOMAIN f = C, f = [c \in C |-> f[c]], \A c \in C : f[c] = m[Told(c)]
  PROVE  Total(f) = m[Received(SlotsOf(Coverage(C)))]
<1>1. /\ ToldBy(C) \in [C -> SUBSET Past] /\ IsFiniteSet(C)
      /\ \A c, d \in C : c # d => ToldBy(C)[c] \cap ToldBy(C)[d] = {}
      /\ \A c \in C : ToldBy(C)[c] = Told(c)
      /\ WholeOf(ToldBy(C), C) = Received(SlotsOf(Coverage(C)))
  BY ToldApart DEF Tallied
<1>2. Measures(m, ToldBy(C), C) = f
  <2>1. \A c \in C : m[ToldBy(C)[c]] = f[c] BY <1>1
  <2> QED BY <2>1 DEF Measures
<1>3. Total(Measures(m, ToldBy(C), C)) = m[WholeOf(ToldBy(C), C)] BY <1>1, SumOfParts
<1> QED BY <1>1, <1>2, <1>3

\* The contributions with messages tell as much as all of them.
LEMMA FullTells ==
  ASSUME WindowInv, NEW C, Tallied(C), NEW full, full = {c \in C : c.count # 0}
  PROVE  /\ Tallied(full) /\ \A c \in full : Told(c) # {}
         /\ Received(SlotsOf(Coverage(full))) = Received(SlotsOf(Coverage(C)))
         /\ (full = {} <=> Received(SlotsOf(Coverage(C))) = {})
<1>1. Tallied(full)
  <2>1. full \in SUBSET C OBVIOUS
  <2>2. IsFiniteSet(full) BY <2>1, FS_Subset DEF Tallied
  <2> QED BY <2>1, <2>2 DEF Tallied
<1>2. \A c \in C : c.count # 0 <=> Told(c) # {}
  <2> SUFFICES ASSUME NEW c \in C PROVE c.count # 0 <=> Told(c) # {} OBVIOUS
  <2>1. Told(c) \in SUBSET Past /\ Describes(c, Told(c)) BY ToldApart
  <2>2. c.count = Cardinality(Told(c)) BY <2>1 DEF Describes
  <2> QED BY <2>1, <2>2, PartTypes
<1>3. \A D : Tallied(D) => \A t : t \in Received(SlotsOf(Coverage(D))) <=> \E c \in D : t \in Told(c)
  <2> SUFFICES ASSUME NEW D, Tallied(D), NEW t
               PROVE  t \in Received(SlotsOf(Coverage(D))) <=> \E c \in D : t \in Told(c)
    OBVIOUS
  <2>1. WholeOf(ToldBy(D), D) = Received(SlotsOf(Coverage(D))) BY ToldApart
  <2>2. t \in WholeOf(ToldBy(D), D) <=> \E c \in D : t \in Told(c) BY DEF WholeOf, ToldBy
  <2> QED BY <2>1, <2>2
<1>4. \A t : t \in Received(SlotsOf(Coverage(full))) <=> t \in Received(SlotsOf(Coverage(C)))
  BY <1>1, <1>2, <1>3
<1>5. \A c \in full : Told(c) # {} BY <1>2
<1>6. full = {} <=> Received(SlotsOf(Coverage(C))) = {} BY <1>1, <1>3, <1>4, <1>5
<1> QED BY <1>1, <1>4, <1>5, <1>6

\* The extremes of contributions are those of their messages.
LEMMA ExtremesMerge ==
  ASSUME WindowInv, NEW C, Tallied(C), C # {}, \A c \in C : Told(c) # {},
         NEW R, R = Received(SlotsOf(Coverage(C)))
  PROVE  /\ (\A c \in C : c.min = Least(AgesIn(Told(c)))) =>
               Least({c.min : c \in C}) = Least(AgesIn(R))
         /\ (\A c \in C : c.max = Greatest(AgesIn(Told(c)))) =>
               Greatest({c.max : c \in C}) = Greatest(AgesIn(R))
<1>1. \A a : a \in AgesIn(R) <=> \E c \in C : a \in AgesIn(Told(c))
  <2>1. \A t : t \in R <=> \E c \in C : t \in Told(c)
    <3>1. WholeOf(ToldBy(C), C) = R BY ToldApart
    <3>2. \A t : t \in WholeOf(ToldBy(C), C) <=> \E c \in C : t \in Told(c) BY DEF WholeOf, ToldBy
    <3> QED BY <3>1, <3>2
  <2> QED BY <2>1 DEF AgesIn
<1>2. \A c \in C : /\ AgesIn(Told(c)) \in SUBSET Int /\ IsFiniteSet(AgesIn(Told(c)))
                   /\ AgesIn(Told(c)) # {}
  <2>1. \A c \in C : Told(c) \in SUBSET Past /\ Told(c) # {} BY ToldApart
  <2> QED BY <2>1, PartTypes
<1>3. AgesIn(R) \in SUBSET Int /\ IsFiniteSet(AgesIn(R)) /\ AgesIn(R) # {}
  <2>1. R \in SUBSET Past BY ToldApart DEF Received
  <2> QED BY <1>1, <1>2, <2>1, PartTypes
<1>4. /\ Least(AgesIn(R)) \in AgesIn(R) /\ \A x \in AgesIn(R) : Least(AgesIn(R)) <= x
      /\ Greatest(AgesIn(R)) \in AgesIn(R) /\ \A x \in AgesIn(R) : x <= Greatest(AgesIn(R))
  BY <1>3, ExtremesAre
<1>5. \A c \in C : /\ Least(AgesIn(Told(c))) \in AgesIn(Told(c))
                   /\ \A x \in AgesIn(Told(c)) : Least(AgesIn(Told(c))) <= x
                   /\ Greatest(AgesIn(Told(c))) \in AgesIn(Told(c))
                   /\ \A x \in AgesIn(Told(c)) : x <= Greatest(AgesIn(Told(c)))
  BY <1>2, ExtremesAre
<1>6. ASSUME \A c \in C : c.min = Least(AgesIn(Told(c)))
      PROVE  Least({c.min : c \in C}) = Least(AgesIn(R))
  <2> DEFINE M == {c.min : c \in C}
             v == Least(AgesIn(R))
  <2>1. M \in SUBSET AgesIn(R) BY <1>1, <1>5, <1>6
  <2>2. v \in M
    <3>1. PICK c \in C : v \in AgesIn(Told(c)) BY <1>1, <1>4
    <3>2. Least(AgesIn(Told(c))) <= v /\ Least(AgesIn(Told(c))) \in AgesIn(R) BY <1>1, <1>5, <3>1
    <3>3. v <= Least(AgesIn(Told(c))) BY <1>4, <3>2
    <3>4. c.min = v BY <1>3, <1>4, <1>6, <3>2, <3>3
    <3> HIDE DEF v
    <3> QED BY <3>4
  <2>3. M # {} /\ IsFiniteSet(M) /\ M \in SUBSET Int
    <3> HIDE DEF M
    <3> QED BY <1>3, <2>1, <2>2, FS_Subset
  <2>4. Least(M) \in M /\ \A x \in M : Least(M) <= x
    <3> HIDE DEF M
    <3> QED BY <2>3, ExtremesAre
  <2>5. v <= Least(M) /\ Least(M) <= v /\ v \in Int /\ Least(M) \in Int
    <3> HIDE DEF M
    <3> QED BY <1>3, <1>4, <2>1, <2>2, <2>4
  <2> HIDE DEF v
  <2>6. Least(M) = v BY <2>5
  <2> QED BY <2>6 DEF v
<1>7. ASSUME \A c \in C : c.max = Greatest(AgesIn(Told(c)))
      PROVE  Greatest({c.max : c \in C}) = Greatest(AgesIn(R))
  <2> DEFINE M == {c.max : c \in C}
             v == Greatest(AgesIn(R))
  <2>1. M \in SUBSET AgesIn(R) BY <1>1, <1>5, <1>7
  <2>2. v \in M
    <3>1. PICK c \in C : v \in AgesIn(Told(c)) BY <1>1, <1>4
    <3>2. v <= Greatest(AgesIn(Told(c))) /\ Greatest(AgesIn(Told(c))) \in AgesIn(R)
      BY <1>1, <1>5, <3>1
    <3>3. Greatest(AgesIn(Told(c))) <= v BY <1>4, <3>2
    <3>4. c.max = v BY <1>3, <1>4, <1>7, <3>2, <3>3
    <3> HIDE DEF v
    <3> QED BY <3>4
  <2>3. M # {} /\ IsFiniteSet(M) /\ M \in SUBSET Int
    <3> HIDE DEF M
    <3> QED BY <1>3, <2>1, <2>2, FS_Subset
  <2>4. Greatest(M) \in M /\ \A x \in M : x <= Greatest(M)
    <3> HIDE DEF M
    <3> QED BY <2>3, ExtremesAre
  <2>5. v <= Greatest(M) /\ Greatest(M) <= v /\ v \in Int /\ Greatest(M) \in Int
    <3> HIDE DEF M
    <3> QED BY <1>3, <1>4, <2>1, <2>2, <2>4
  <2> HIDE DEF v
  <2>6. Greatest(M) = v BY <2>5
  <2> QED BY <2>6 DEF v
<1> QED BY <1>6, <1>7

\* The merged histogram is that of the messages of all contributions.
LEMMA MergeDescribes ==
  ASSUME WindowInv, NEW C, Tallied(C), Merge(C).status = "ok"
  PROVE  Describes(Merge(C), Received(SlotsOf(Coverage(C))))
<1> DEFINE h == Merge(C)
           bounds == (CHOOSE c \in C : TRUE).bounds
<1> PICK R : R = Received(SlotsOf(Coverage(C))) OBVIOUS
<1> PICK full : full = {c \in C : c.count # 0} OBVIOUS
<1> DEFINE Known(f) == \A c \in full : c[f] # None
<1>1. C # {} /\ \A c \in C : c.bounds = bounds
  <2>1. Status("insufficient").status = "insufficient" /\ Status("error").status = "error"
    BY DEF Status
  <2>2. C = {} => h = Status("insufficient") BY DEF Merge
  <2>3. C # {} /\ (\E c \in C : c.bounds # bounds) => h = Status("error") BY Zenon DEF Merge
  <2> HIDE DEF bounds
  <2> QED BY <2>1, <2>2, <2>3
<1>2. h = [status |-> "ok", bounds |-> bounds,
           count |-> Total([c \in C |-> c.count]),
           buckets |-> [k \in 1..(Len(bounds) + 1) |-> Total([c \in C |-> c.buckets[k]])],
           sum |-> IF Known("sum") THEN Total([c \in full |-> c.sum]) ELSE None,
           min |-> IF full # {} /\ Known("min") THEN Least({c.min : c \in full}) ELSE None,
           max |-> IF full # {} /\ Known("max") THEN Greatest({c.max : c \in full}) ELSE None]
  BY <1>1 DEF Merge
<1>3. /\ h.bounds = bounds /\ h.count = Total([c \in C |-> c.count])
      /\ h.buckets = [k \in 1..(Len(bounds) + 1) |-> Total([c \in C |-> c.buckets[k]])]
      /\ h.sum = (IF Known("sum") THEN Total([c \in full |-> c.sum]) ELSE None)
      /\ h.min = (IF full # {} /\ Known("min") THEN Least({c.min : c \in full}) ELSE None)
      /\ h.max = (IF full # {} /\ Known("max") THEN Greatest({c.max : c \in full}) ELSE None)
  BY <1>2
<1> HIDE DEF h, bounds
<1>4. \A c \in C : Told(c) \in SUBSET Past /\ Describes(c, Told(c)) BY ToldApart
<1>5. R \in SUBSET Past BY ToldApart DEF Received
<1>6. /\ Tallied(full) /\ \A c \in full : Told(c) # {}
      /\ Received(SlotsOf(Coverage(full))) = R /\ (full = {} <=> R = {})
  BY FullTells
<1>7. IsFiniteSet(Past) BY PastTypes
<1>8. Ladder(bounds) BY <1>1, <1>4 DEF Describes
<1>9. h.count = Cardinality(R)
  <2> DEFINE f == [c \in C |-> c.count]
             m == [A \in SUBSET Past |-> Cardinality(A \cap Past)]
  <2>1. Additive(m, Past) BY <1>7, CountAdds
  <2>2. \A A \in SUBSET Past : m[A] = Cardinality(A)
    <3>1. \A A \in SUBSET Past : A \cap Past = A OBVIOUS
    <3> QED BY <3>1
  <2>3. DOMAIN f = C /\ f = [c \in C |-> f[c]] OBVIOUS
  <2> HIDE DEF m
  <2>4. \A c \in C : f[c] = m[Told(c)] BY <1>4, <2>2 DEF Describes
  <2>5. h.count = Total(f) BY <1>3
  <2> HIDE DEF f
  <2>6. Total(f) = m[R] BY <2>1, <2>3, <2>4, TotalIs
  <2> QED BY <1>5, <2>2, <2>5, <2>6
<1>10. h.buckets = [k \in 1..(Len(bounds) + 1) |-> Cardinality(R \cap InBucket(bounds, k))]
  <2>1. ASSUME NEW k \in 1..(Len(bounds) + 1)
        PROVE  Total([c \in C |-> c.buckets[k]]) = Cardinality(R \cap InBucket(bounds, k))
    <3> DEFINE f == [c \in C |-> c.buckets[k]]
    <3> PICK K : K = InBucket(bounds, k) OBVIOUS
    <3> DEFINE m == [A \in SUBSET Past |-> Cardinality(A \cap K)]
    <3>1. Additive(m, Past) BY <1>7, CountAdds
    <3>2. \A A \in SUBSET Past : m[A] = Cardinality(A \cap K) OBVIOUS
    <3>3. DOMAIN f = C /\ f = [c \in C |-> f[c]] OBVIOUS
    <3> HIDE DEF m
    <3>4. ASSUME NEW c \in C PROVE f[c] = m[Told(c)]
      <4>1. c.buckets = [j \in 1..(Len(bounds) + 1) |-> Cardinality(Told(c) \cap InBucket(bounds, j))]
        BY <1>1, <1>4 DEF Describes
      <4>2. c.buckets[k] = Cardinality(Told(c) \cap K) BY <4>1
      <4> QED BY <1>4, <3>2, <4>2
    <3> HIDE DEF f
    <3>5. Total(f) = m[R] BY <3>1, <3>3, <3>4, TotalIs
    <3>6. Total(f) = Cardinality(R \cap K) BY <1>5, <3>2, <3>5
    <3> QED BY <3>6 DEF f
  <2> QED BY <1>3, <2>1
<1>11. h.sum \in {None, SumFunctionOnSet(Age, R)}
  <2>1. CASE ~Known("sum") BY <1>3, <2>1
  <2>2. CASE Known("sum")
    <3> DEFINE f == [c \in full |-> c.sum]
               m == [A \in SUBSET Past |-> SumFunctionOnSet(Age, A)]
    <3>1. Additive(m, Past) BY <1>7, PastTypes, SumAdds
    <3>2. \A A \in SUBSET Past : m[A] = SumFunctionOnSet(Age, A) OBVIOUS
    <3>3. DOMAIN f = full /\ f = [c \in full |-> f[c]] OBVIOUS
    <3>4. h.sum = Total(f) BY <1>3, <2>2
    <3> HIDE DEF m
    <3>5. ASSUME NEW c \in full PROVE f[c] = m[Told(c)]
      <4>1. c.sum # None /\ f[c] = c.sum BY <2>2
      <4>2. c.sum \in {None, SumFunctionOnSet(Age, Told(c))} BY <1>4 DEF Describes
      <4> QED BY <1>4, <3>2, <4>1, <4>2
    <3> HIDE DEF f
    <3>6. Total(f) = m[R] BY <1>6, <3>1, <3>3, <3>5, TotalIs
    <3> QED BY <1>5, <3>2, <3>4, <3>6
  <2> QED BY <2>1, <2>2
<1>12. /\ h.min # None => R # {} /\ h.min = Least(AgesIn(R))
       /\ h.max # None => R # {} /\ h.max = Greatest(AgesIn(R))
  <2>1. ASSUME h.min # None PROVE R # {} /\ h.min = Least(AgesIn(R))
    <3>1. full # {} /\ Known("min") /\ h.min = Least({c.min : c \in full}) BY <1>3, <2>1
    <3>2. \A c \in full : c.min = Least(AgesIn(Told(c))) BY <1>4, <3>1 DEF Describes
    <3> QED BY <1>6, <3>1, <3>2, ExtremesMerge
  <2>2. ASSUME h.max # None PROVE R # {} /\ h.max = Greatest(AgesIn(R))
    <3>1. full # {} /\ Known("max") /\ h.max = Greatest({c.max : c \in full}) BY <1>3, <2>2
    <3>2. \A c \in full : c.max = Greatest(AgesIn(Told(c))) BY <1>4, <3>1 DEF Describes
    <3> QED BY <1>6, <3>1, <3>2, ExtremesMerge
  <2> QED BY <2>1, <2>2
<1>13. Describes(h, R) BY <1>3, <1>8, <1>9, <1>10, <1>11, <1>12 DEF Describes
<1> QED BY <1>13 DEF h
-----------------------------------------------------------------------------
(***************************************************************************)
(* MetricWindow: verdicts on histograms.                                   *)
(***************************************************************************)

LEMMA AllowedIs == Allowed \in Int /\ Allowed <= Tolerance
BY WindowAssumption DEF Allowed

LEMMA SlotsAreFinite == IsFiniteSet(WindowSlots)
<1>1. Window.start + 1 \in Int /\ Window.end \in Int BY WindowTypes
<1> QED BY <1>1, FS_Interval DEF WindowSlots

\* What is covered is all but a tolerable part of the window.
LEMMA CoversMost ==
  ASSUME NEW C, Covers(C, temporality)
  PROVE  C # {} /\ Cardinality(WindowSlots \ SlotsOf(Coverage(C))) <= Tolerance
<1>1. PICK c \in C : TRUE BY DEF Covers
<1> PICK I : I = Coverage({d \in C : d.series = c.series}) OBVIOUS
<1>2. SeriesCovers(I, temporality, Allowed)
  <2>1. c.series \in {d.series : d \in C} OBVIOUS
  <2> QED BY <2>1 DEF Covers
<1>3. Cardinality(WindowSlots \ SlotsOf(I)) <= Allowed BY <1>2 DEF SeriesCovers
<1>4. SlotsOf(I) \in SUBSET SlotsOf(Coverage(C))
  <2>1. I \in SUBSET Coverage(C) BY DEF Coverage
  <2> QED BY <2>1 DEF SlotsOf
<1> DEFINE big == WindowSlots \ SlotsOf(I)
           small == WindowSlots \ SlotsOf(Coverage(C))
<1>5. small \in SUBSET big BY <1>4
<1>6. IsFiniteSet(big) BY SlotsAreFinite, FS_Difference
<1> HIDE DEF big, small
<1>7. Cardinality(small) <= Cardinality(big) /\ Cardinality(small) \in Nat /\ Cardinality(big) \in Nat
  BY <1>5, <1>6, FS_Subset, FS_CardinalityType
<1> QED BY <1>1, <1>3, <1>7, AllowedIs, WindowAssumption DEF big, small

\* A histogram of the window describes the messages of the slots it rests on.
LEMMA AggregateDescribes ==
  ASSUME HistoryInv, NEW P, Evident(P), HistogramAggregate(P, temporality).status = "ok"
  PROVE  LET parts == Contributions(P, temporality)
             S == SlotsOf(Coverage(parts.of))
         IN /\ parts.status = "ok" /\ S \in SUBSET Past /\ S \in SUBSET WindowSlots
            /\ Cardinality(WindowSlots \ S) <= Tolerance
            /\ Describes(HistogramAggregate(P, temporality), Received(S))
<1> DEFINE parts == Contributions(P, temporality)
           merged == Merge(parts.of)
           h == HistogramAggregate(P, temporality)
<1>1. h = IF parts.status # "ok" THEN parts
          ELSE IF merged.status # "ok" THEN merged
          ELSE IF Covers(parts.of, temporality) THEN merged
          ELSE Status("insufficient")
  BY DEF HistogramAggregate
<1>2. Status("insufficient").status # "ok" BY DEF Status
<1> HIDE DEF parts, h
<1>3. h.status = "ok" BY DEF h
<1>4. parts.status = "ok" /\ merged.status = "ok" /\ Covers(parts.of, temporality) /\ h = merged
  BY <1>1, <1>2, <1>3
<1>5. WindowInv BY DEF HistoryInv
<1>6. Tallied(parts.of) BY <1>4, ContributionsTally DEF parts
<1> PICK C : C = parts.of OBVIOUS
<1>7. SlotsOf(Coverage(C)) \in SUBSET Past /\ SlotsOf(Coverage(C)) \in SUBSET WindowSlots
  BY <1>5, <1>6, ToldApart
<1>8. Cardinality(WindowSlots \ SlotsOf(Coverage(C))) <= Tolerance BY <1>4, CoversMost
<1>9. Describes(h, Received(SlotsOf(Coverage(C)))) BY <1>4, <1>5, <1>6, MergeDescribes
<1> QED BY <1>4, <1>7, <1>8, <1>9 DEF h, parts

\* A histogram is known, or why it is not.
LEMMA AggregateStatus ==
  ASSUME HistoryInv, NEW P \in SUBSET points
  PROVE  HistogramAggregate(P, temporality).status \in {"ok", "error", "insufficient"}
<1> DEFINE early == Until(P, Window.end)
           failure == FirstFailure(CumulativeWindowSample, early)
           parts == Contributions(P, temporality)
           merged == Merge(parts.of)
<1>1. \A x : Status(x).status = x BY DEF Status
<1>2. failure \in {"ok", "error", "insufficient"}
  <2>1. \A p \in early : p.id \in Nat
    <3>1. \A p \in points : p.id \in Nat BY DEF HistoryInv, WindowInv, PointInv
    <3> QED BY <3>1 DEF Until
  <2> HIDE DEF early
  <2> QED BY <2>1, FailureIs
<1> HIDE DEF failure
<1>3. parts.status \in {"ok", "error", "insufficient"}
  <2>1. \/ parts = Status("insufficient") \/ parts = Status("error") \/ parts = Status(failure)
        \/ parts.status = "ok"
    BY DEF Contributions, failure
  <2> HIDE DEF parts
  <2> QED BY <1>1, <1>2, <2>1
<1>4. merged.status \in {"ok", "error", "insufficient"}
  <2>1. merged = Status("insufficient") \/ merged = Status("error") \/ merged.status = "ok"
    <3> HIDE DEF parts
    <3> QED BY DEF Merge
  <2> HIDE DEF merged
  <2> QED BY <1>1, <2>1
<1> HIDE DEF parts, merged
<1>5. \/ HistogramAggregate(P, temporality) \in {parts, merged}
      \/ HistogramAggregate(P, temporality) = Status("insufficient")
  BY DEF HistogramAggregate, parts, merged
<1> QED BY <1>1, <1>3, <1>4, <1>5

\* What comes after the window does not matter.
LEMMA EarlyIsEnough ==
  ASSUME NEW P, Until(P, Window.end) # {}, \A p \in P : p.at \in Int
  PROVE  HistogramAggregate(Until(P, Window.end), temporality)
           = HistogramAggregate(P, temporality)
<1> PICK U : U = Until(P, Window.end) OBVIOUS
<1>1. Until(U, Window.end) = U BY DEF Until
<1>2. Selected(U) = Selected(P) BY DEF Selected, Until
<1>3. U # {} /\ P # {} BY DEF Until
<1>4. Contributions(U, temporality) = Contributions(P, temporality)
  BY <1>1, <1>2, <1>3 DEF Contributions
<1> QED BY <1>4 DEF HistogramAggregate

LEMMA ThresholdsAre == Thresholds \in SUBSET Int
<1>1. Ages \in SUBSET Int BY AgesTypes
<1>2. \A a \in Ages : a - 1 \in Int BY <1>1
<1> QED BY <1>1, <1>2 DEF Thresholds

\* The age evidence.
LEMMA EvidenceIs ==
  /\ Evidence.ages = PointsOf("age")
  /\ Evidence.merged = HistogramAggregate(PointsOf("age"), temporality)
  /\ Evidence.slots = IF Contributions(PointsOf("age"), temporality).status = "ok"
                      THEN SlotsOf(Coverage(Contributions(PointsOf("age"), temporality).of)) ELSE {}
  /\ \A i \in {"received", "lost", "sequence"} :
       Evidence[i] = CounterAggregate(PointsOf(i), i, temporality)
BY DEF Evidence

LEMMA AgeVerdictsAreTrue ==
  ASSUME HistoryInv
  PROVE  AgeVerdictIsTrue(Evidence)
<1> PICK e : e = Evidence OBVIOUS
<1> PICK P : P = PointsOf("age") OBVIOUS
<1> PICK h : h = HistogramAggregate(P, temporality) OBVIOUS
<1> PICK parts : parts = Contributions(P, temporality) OBVIOUS
<1>1. /\ e.ages = P /\ e.merged = h
      /\ e.slots = IF parts.status = "ok" THEN SlotsOf(Coverage(parts.of)) ELSE {}
  BY EvidenceIs
<1>2. WindowInv BY DEF HistoryInv
<1>3. Evident(P) BY PointsOfAre DEF Instruments
<1>4. h.status \in {"ok", "error", "insufficient"} BY <1>3, AggregateStatus DEF Evident
<1>5. h.status = "ok" =>
        /\ e.slots \in SUBSET Past /\ e.slots \subseteq WindowSlots
        /\ Cardinality(WindowSlots \ e.slots) <= Tolerance
        /\ Describes(h, Received(e.slots))
  BY <1>1, <1>3, AggregateDescribes
<1>6. ASSUME NEW a \in {"min", "max", "p50", "p95", "mean", "count"}, NEW o \in Operators,
             NEW x \in Thresholds,
             MetricAssertion(P, "histogram", Statistic(h, a, FALSE), OnStatistic(a, o, x))
               \in {"passed", "failed"}
      PROVE  /\ MetricAssertion(P, "histogram", Statistic(h, a, FALSE), OnStatistic(a, o, x)) = "passed"
                  <=> ActuallyHolds(a, o, x, e.slots)
             /\ e.slots \subseteq WindowSlots
             /\ Cardinality(WindowSlots \ e.slots) <= Tolerance
  <2> PICK v : v = Judged(Statistic(h, a, FALSE), OnStatistic(a, o, x)) OBVIOUS
  <2>1. MetricAssertion(P, "histogram", Statistic(h, a, FALSE), OnStatistic(a, o, x)) = v
        /\ v \in {"passed", "failed"}
    <3> PICK s : s = Statistic(h, a, FALSE) OBVIOUS
    <3>1. MetricAssertion(P, "histogram", s, OnStatistic(a, o, x)) \in {"passed", "failed"}
      BY <1>6
    <3>2. MetricAssertion(P, "histogram", s, OnStatistic(a, o, x)) = Judged(s, OnStatistic(a, o, x))
      BY <3>1 DEF MetricAssertion, OnStatistic
    <3> QED BY <3>1, <3>2
  <2>2. h.status = "ok"
    <3> SUFFICES ASSUME h.status # "ok" PROVE FALSE OBVIOUS
    <3>1. Statistic(h, a, FALSE) = h BY DEF Statistic
    <3>2. v \in {"skipped", "error"} BY <1>4, <3>1 DEF Judged
    <3> QED BY <2>1, <3>2
  <2>3. x \in Int BY ThresholdsAre
  <2>4. v = "passed" <=> ActuallyHolds(a, o, x, e.slots)
    <3> PICK S : S = e.slots OBVIOUS
    <3>1. S \in SUBSET Past /\ Describes(h, Received(S)) BY <1>5, <2>2
    <3>2. Judged(Statistic(h, a, FALSE), OnStatistic(a, o, x)) \in {"passed", "failed"} BY <2>1
    <3>3. Judged(Statistic(h, a, FALSE), OnStatistic(a, o, x)) = "passed" <=> ActuallyHolds(a, o, x, S)
      BY <1>2, <2>2, <2>3, <3>1, <3>2, HistogramVerdict
    <3> QED BY <3>3
  <2> QED BY <1>5, <2>1, <2>2, <2>4
<1> PICK U : U = Until(P, Window.end) OBVIOUS
<1> PICK early : early = HistogramAggregate(U, temporality) OBVIOUS
<1>7. ASSUME NEW x \in Thresholds \cap Nat, NEW y \in Thresholds \cap Nat,
             TimeAuthority(early, x, y, y, 2) \in {"passed", "failed"}
      PROVE  /\ TimeAuthority(early, x, y, y, 2) = "passed"
                  <=> /\ Cardinality(Received(e.slots)) >= 2
                      /\ ActuallyHolds("p50", "lte", x, e.slots)
                      /\ ActuallyHolds("max", "lte", y, e.slots)
             /\ e.slots \subseteq WindowSlots
             /\ Cardinality(WindowSlots \ e.slots) <= Tolerance
  <2>1. early.status = "ok" BY <1>7 DEF TimeAuthority
  <2>2. U # {}
    <3> SUFFICES ASSUME U = {} PROVE FALSE OBVIOUS
    <3>1. Contributions(U, temporality) = Status("insufficient") BY DEF Contributions
    <3>2. Status("insufficient").status # "ok" BY DEF Status
    <3> QED BY <2>1, <3>1, <3>2 DEF HistogramAggregate
  <2>3. early = h
    <3>1. \A p \in P : p.at \in Int BY <1>2, <1>3 DEF WindowInv, PointInv, Evident
    <3> QED BY <2>2, <3>1, EarlyIsEnough
  <2>4. TimeAuthority(early, x, y, y, 2) = "passed"
          <=> /\ Cardinality(Received(e.slots)) >= 2
              /\ ActuallyHolds("p50", "lte", x, e.slots)
              /\ ActuallyHolds("max", "lte", y, e.slots)
    BY <1>2, <1>5, <1>7, <2>1, <2>3, AuthorityVerdict
  <2> QED BY <1>5, <2>1, <2>3, <2>4
<1>8. AgeVerdictIsTrue(e) BY <1>1, <1>6, <1>7 DEF AgeVerdictIsTrue
<1> QED BY <1>8
-----------------------------------------------------------------------------
(***************************************************************************)
(* MetricWindow: verdicts on counters of known starts.                     *)
(***************************************************************************)

Counters == {"received", "lost", "sequence"}

\* What a counter counts, and that these are measures of the past.
Counted(f) ==
  {t \in Past : CASE f = "received" -> truth[t].kind = "received"
                  [] f = "lost" -> truth[t].kind = "lost"
                  [] f = "sequence" -> ~truth[t].inOrder}

Counts(f) == [A \in SUBSET Past |-> Cardinality(A \cap Counted(f))]

LEMMA CountMeasures ==
  ASSUME WindowInv, NEW f \in Counters
  PROVE  /\ Additive(Counts(f), Past)
         /\ \A A \in SUBSET Past : Counts(f)[A] = CountOf(f, A) /\ CountOf(f, A) \in Nat
<1>1. IsFiniteSet(Past) BY PastTypes
<1>2. Additive(Counts(f), Past) BY <1>1, CountAdds DEF Counts
<1>3. ASSUME NEW A \in SUBSET Past
      PROVE  Counts(f)[A] = CountOf(f, A) /\ CountOf(f, A) \in Nat
  <2>1. A \cap Counted(f)
          = {t \in A : CASE f = "received" -> truth[t].kind = "received"
                         [] f = "lost" -> truth[t].kind = "lost"
                         [] f = "sequence" -> ~truth[t].inOrder}
    BY Zenon DEF Counted
  <2>2. CountOf(f, A) = Cardinality(A \cap Counted(f)) BY <2>1 DEF CountOf
  <2>3. IsFiniteSet(A \cap Counted(f))
    <3>1. A \cap Counted(f) \in SUBSET Past OBVIOUS
    <3> QED BY <1>1, <3>1, FS_Subset
  <2>4. Cardinality(A \cap Counted(f)) \in Nat BY <2>3, FS_CardinalityType
  <2>5. Counts(f)[A] = Cardinality(A \cap Counted(f)) BY DEF Counts
  <2> QED BY <2>2, <2>4, <2>5
<1> QED BY <1>2, <1>3

\* Intervals of the past, apart from each other.
Intervals(C) ==
  /\ IsFiniteSet(C)
  /\ \A c \in C : c.start \in Nat /\ c.at \in Nat /\ c.start <= c.at /\ c.at <= now
                  /\ c.at <= Window.end
  /\ \A c, d \in C : c # d => c.at <= d.start \/ d.at <= c.start

Slots(c) == (c.start + 1)..c.at
SlotsBy(C) == [c \in C |-> Slots(c)]

LEMMA CoverageIs ==
  ASSUME NEW C
  PROVE  /\ SlotsOf(Coverage(C)) = UNION {Slots(c) : c \in C}
         /\ \A i \in Coverage(C) : \E c \in C : i.start = c.start /\ i.end = c.at
<1>1. \A i \in Coverage(C) : \E c \in C : i.start = c.start /\ i.end = c.at
  BY DEF Coverage
<1>2. ASSUME NEW c \in C PROVE \E i \in Coverage(C) : i.start = c.start /\ i.end = c.at
  <2> DEFINE i == [series |-> c.series, start |-> c.start, end |-> c.at]
  <2>1. i \in Coverage(C) /\ i.start = c.start /\ i.end = c.at BY DEF Coverage
  <2> HIDE DEF i
  <2> QED BY <2>1
<1>3. \A t : t \in SlotsOf(Coverage(C)) <=> \E c \in C : t \in Slots(c)
  <2>1. \A t : t \in SlotsOf(Coverage(C)) <=> \E i \in Coverage(C) : t \in (i.start + 1)..i.end
    BY DEF SlotsOf
  <2> QED BY <1>1, <1>2, <2>1 DEF Slots
<1> QED BY <1>1, <1>3

\* What is counted in intervals adds up.
LEMMA IntervalsAddUp ==
  ASSUME WindowInv, NEW C, Intervals(C), NEW f \in Counters, NEW v,
         v = [c \in C |-> v[c]], \A c \in C : v[c] = CountOf(f, Slots(c))
  PROVE  /\ SlotsOf(Coverage(C)) \in SUBSET Past
         /\ Total(v) = CountOf(f, SlotsOf(Coverage(C)))
<1> PICK m : m = Counts(f) OBVIOUS
<1> PICK g : g = SlotsBy(C) OBVIOUS
<1>1. Additive(m, Past) /\ \A A \in SUBSET Past : m[A] = CountOf(f, A) BY CountMeasures
<1>2. \A c \in C : g[c] = Slots(c) /\ Slots(c) \in SUBSET Past
  <2>1. now \in Nat BY DEF WindowInv
  <2>2. \A c \in C : Slots(c) \in SUBSET Past BY <2>1 DEF Intervals, Slots, Past
  <2> QED BY <2>2 DEF SlotsBy
<1>3. g \in [C -> SUBSET Past] BY <1>2 DEF SlotsBy
<1>4. ASSUME NEW c \in C, NEW d \in C, c # d PROVE g[c] \cap g[d] = {}
  <2>1. c.at <= d.start \/ d.at <= c.start BY <1>4 DEF Intervals
  <2>2. c.start \in Nat /\ c.at \in Nat /\ d.start \in Nat /\ d.at \in Nat BY DEF Intervals
  <2>3. \A t : ~(t \in Slots(c) /\ t \in Slots(d)) BY <2>1, <2>2 DEF Slots
  <2> QED BY <1>2, <2>3
<1>5. WholeOf(g, C) = SlotsOf(Coverage(C))
  <2>1. \A t : t \in WholeOf(g, C) <=> \E c \in C : t \in Slots(c) BY <1>2 DEF WholeOf
  <2>2. \A t : t \in UNION {Slots(c) : c \in C} <=> \E c \in C : t \in Slots(c) OBVIOUS
  <2> QED BY <2>1, <2>2, CoverageIs
<1>6. SlotsOf(Coverage(C)) \in SUBSET Past
  <2>1. \A t : t \in WholeOf(g, C) => t \in Past BY <1>3 DEF WholeOf
  <2> QED BY <1>5, <2>1
<1>7. Measures(m, g, C) = v
  <2>1. \A c \in C : m[g[c]] = v[c] BY <1>1, <1>2
  <2> QED BY <2>1 DEF Measures
<1>8. Total(Measures(m, g, C)) = m[WholeOf(g, C)] BY <1>1, <1>3, <1>4, SumOfParts DEF Intervals
<1> QED BY <1>1, <1>5, <1>6, <1>7, <1>8

\* Of a stream whose start is known, the increase is what its interval counts.
LEMMA CounterStreamCounts ==
  ASSUME WindowInv, NEW S, NEW from, StreamOf(S, from, from), NEW f \in Counters,
         CounterStream(S, f).status = "ok", \A p \in S : p.at <= Window.end
  PROVE  LET c == CounterStream(S, f)
         IN /\ c.start \in Nat /\ c.at \in Nat /\ from <= c.start /\ c.start < c.at
            /\ c.at <= now /\ c.at <= Window.end /\ \E p \in S : c.at = p.at
            /\ c.total = CountOf(f, Slots(c))
<1> DEFINE c == CounterStream(S, f)
           o == InOrder(S)
           latest == o[Len(o)]
           Pair(p, q) == IF q.at = p.at \/ q[f] < p[f] THEN "error" ELSE "ok"
           order == OrderStatus(o, Pair)
           baselines == {p \in Until(S, Window.start) : p.at < latest.at}
           base == InOrder(baselines)[Cardinality(baselines)]
           Increase(by, start) ==
             IF start >= latest.at THEN Status("error")
             ELSE [status |-> "ok", id |-> latest.id, total |-> by,
                   series |-> latest.series, start |-> start, at |-> latest.at]
<1>0. c = IF order # "ok" THEN Status("error")
          ELSE IF latest.at < Window.start THEN Status("outside")
          ELSE IF latest.start >= Window.start THEN Increase(latest[f], latest.start)
          ELSE IF baselines = {} THEN Status("error")
          ELSE Increase(latest[f] - base[f], base.at)
  BY DEF CounterStream
<1> HIDE DEF c, o, order, baselines, base
<1>1. c.status = "ok" BY DEF c
<1>2. Status("error").status # "ok" /\ Status("outside").status # "ok" BY DEF Status
<1>3. \/ c = Increase(latest[f], latest.start)
      \/ baselines # {} /\ c = Increase(latest[f] - base[f], base.at)
  <2> HIDE DEF Increase, latest
  <2> QED BY <1>0, <1>1, <1>2
<1>4. \A by, start : Increase(by, start).status = "ok" =>
        /\ ~(start >= latest.at) /\ Increase(by, start).total = by
        /\ Increase(by, start).start = start /\ Increase(by, start).at = latest.at
  <2> HIDE DEF latest
  <2> QED BY <1>2
<1> HIDE DEF Increase
<1>5. Numbered(S) /\ S # {} /\ from \in Nat
      /\ \A p \in S : Tells(p, from) /\ p.start = from
  BY DEF StreamOf
<1>6. \A p \in S : /\ p.at \in Nat /\ from < p.at /\ p.at <= now
                   /\ p[f] = CountOf(f, (from + 1)..p.at)
  BY <1>5 DEF Tells, Counters
<1>7. latest \in S
  <2>1. InTime(o, S) BY <1>5, InOrderIs DEF o
  <2>2. Len(o) \in 1..Len(o)
    <3>1. Len(o) \in Nat /\ \E k \in 1..Len(o) : TRUE BY <1>5, <2>1 DEF InTime
    <3> QED BY <3>1
  <2> QED BY <2>1, <2>2 DEF InTime
<1>8. ASSUME baselines # {} PROVE base \in S
  <2>1. baselines \in SUBSET S BY DEF baselines, Until
  <2>2. Numbered(baselines)
    <3>1. IsFiniteSet(baselines) BY <1>5, <2>1, FS_Subset DEF Numbered
    <3> QED BY <1>5, <2>1, <3>1 DEF Numbered
  <2>3. InTime(InOrder(baselines), baselines) BY <2>2, InOrderIs
  <2> PICK b : b = InOrder(baselines) OBVIOUS
  <2>4. Len(b) = Cardinality(baselines) /\ Len(b) \in Nat /\ \E k \in 1..Len(b) : TRUE
    BY <1>8, <2>3 DEF InTime
  <2>5. Len(b) \in 1..Len(b) BY <2>4
  <2>6. b[Len(b)] \in baselines BY <2>3, <2>5 DEF InTime
  <2> QED BY <2>1, <2>4, <2>6 DEF base
<1>9. c.at = latest.at /\ \/ c.start = from /\ from < latest.at /\ c.total = latest[f]
                          \/ base \in S /\ c.start = base.at /\ ~(base.at >= latest.at)
                             /\ c.total = latest[f] - base[f]
  <2>1. from < latest.at /\ latest.start = from BY <1>5, <1>6, <1>7
  <2> HIDE DEF latest
  <2> QED BY <1>1, <1>3, <1>4, <1>8, <2>1
<1> PICK l : l = latest OBVIOUS
<1>10. l \in S /\ l.at \in Nat /\ from < l.at /\ l.at <= now /\ l[f] = CountOf(f, (from + 1)..l.at)
       /\ l.at <= Window.end
  BY <1>6, <1>7
<1>11. CASE c.start = from /\ c.total = l[f]
  BY <1>5, <1>9, <1>10, <1>11 DEF c, Slots
<1>12. CASE base \in S /\ c.start = base.at /\ ~(base.at >= l.at) /\ c.total = l[f] - base[f]
  <2> PICK b : b = base OBVIOUS
  <2>1. b.at \in Nat /\ from < b.at /\ b.at < l.at /\ b[f] = CountOf(f, (from + 1)..b.at)
    BY <1>6, <1>10, <1>12
  <2> PICK A, B : A = (from + 1)..b.at /\ B = (b.at + 1)..l.at OBVIOUS
  <2>2. now \in Nat BY DEF WindowInv
  <2>3. A \in SUBSET Past /\ B \in SUBSET Past /\ A \cap B = {}
    BY <1>5, <1>10, <2>1, <2>2 DEF Past
  <2>4. A \cup B = (from + 1)..l.at BY <1>5, <1>10, <2>1
  <2>5. CountOf(f, A \cup B) = CountOf(f, A) + CountOf(f, B) /\ CountOf(f, A) \in Nat
        /\ CountOf(f, B) \in Nat
    <3> PICK m : m = Counts(f) OBVIOUS
    <3>1. m[A \cup B] = m[A] + m[B] BY <2>3, CountMeasures DEF Additive
    <3>2. A \cup B \in SUBSET Past BY <2>3
    <3> QED BY <2>3, <3>1, <3>2, CountMeasures
  <2> PICK x, y, z : x = CountOf(f, A) /\ y = CountOf(f, B) /\ z = CountOf(f, A \cup B) OBVIOUS
  <2>6. l[f] = z /\ b[f] = x /\ z = x + y /\ x \in Nat /\ y \in Nat
    BY <1>10, <2>1, <2>4, <2>5
  <2>7. l[f] - b[f] = y BY <2>6
  <2>8. c.total = CountOf(f, B) BY <1>12, <2>7
  <2>9. c.start = b.at /\ c.at = l.at BY <1>9, <1>12
  <2>10. Slots(c) = B BY <2>9 DEF Slots
  <2>11. from <= b.at BY <1>5, <2>1
  <2> QED BY <1>10, <2>1, <2>8, <2>9, <2>10, <2>11 DEF c
<1> QED BY <1>9, <1>11, <1>12

\* An aggregate of counters counts the slots of its intervals.
LEMMA CounterAggregateCounts ==
  ASSUME HistoryInv, process.known, NEW f \in Counters, NEW P, Evident(P),
         CounterAggregate(P, f, temporality).status = "ok"
  PROVE  LET a == CounterAggregate(P, f, temporality)
         IN /\ SlotsOf(a.coverage) \in SUBSET Past /\ a.total = CountOf(f, SlotsOf(a.coverage))
            /\ \A i \in a.coverage : i.start \in Nat /\ i.end \in Nat /\ i.end <= Window.end
<1> PICK F : Origins(F) BY DEF HistoryInv
<1>1. WindowInv /\ ProcessInv /\ P \in SUBSET points BY DEF HistoryInv, Evident
<1> DEFINE a == CounterAggregate(P, f, temporality)
           deltas == Selected(P)
           Stream(S) == CounterStream(S, f)
           early == Until(P, Window.end)
           samples == {Stream(S) : S \in Streams(early)}
           parts == samples \ {Status("outside")}
           deltaTotals == [p \in deltas |-> p[f]]
           totals == [c \in parts |-> c.total]
           overlap == \E c, d \in parts : c # d /\ c.series = d.series /\ c.start < d.at
                                          /\ d.start < c.at
<1>2. a = IF temporality = "delta"
          THEN IF deltas = {} \/ ~ValidDelta(deltas) THEN Status("error")
               ELSE [status |-> "ok", coverage |-> Coverage(deltas), total |-> Total(deltaTotals)]
          ELSE IF parts = {} \/ Status("error") \in parts \/ overlap THEN Status("error")
               ELSE [status |-> "ok", coverage |-> Coverage(parts), total |-> Total(totals)]
  BY DEF CounterAggregate
<1> HIDE DEF a, deltas, parts, samples, early, deltaTotals, totals, overlap
<1>3. a.status = "ok" BY DEF a
<1>4. Status("error").status # "ok" BY DEF Status
\* Both ways, the total is that of intervals of the past.
<1>5. ASSUME NEW C, Intervals(C), NEW v, v = [c \in C |-> v[c]],
             \A c \in C : v[c] = CountOf(f, Slots(c)),
             a.coverage = Coverage(C), a.total = Total(v)
      PROVE  /\ SlotsOf(a.coverage) \in SUBSET Past /\ a.total = CountOf(f, SlotsOf(a.coverage))
             /\ \A i \in a.coverage : i.start \in Nat /\ i.end \in Nat /\ i.end <= Window.end
  <2>1. SlotsOf(Coverage(C)) \in SUBSET Past /\ Total(v) = CountOf(f, SlotsOf(Coverage(C)))
    BY <1>1, <1>5, IntervalsAddUp
  <2>2. \A i \in Coverage(C) : i.start \in Nat /\ i.end \in Nat /\ i.end <= Window.end
    BY <1>5, CoverageIs DEF Intervals
  <2> QED BY <1>5, <2>1, <2>2
<1>6. CASE temporality = "delta"
  <2>1. ValidDelta(deltas) /\ a.coverage = Coverage(deltas) /\ a.total = Total(deltaTotals)
    BY <1>2, <1>3, <1>4, <1>6
  <2>2. \A p \in points : Tells(p, F[p]) /\ p.start = F[p] BY DEF Origins, StartIs
  <2>3. deltas \in SUBSET points /\ \A p \in deltas : p.at <= Window.end
    BY <1>1 DEF deltas, Selected
  <2>4. \A p \in deltas : /\ p.start \in Nat /\ p.at \in Nat /\ p.start < p.at /\ p.at <= now
                          /\ p[f] = CountOf(f, Slots(p))
    BY <2>2, <2>3 DEF Tells, Slots, Counters
  <2>5. \A p, q \in deltas : p # q => p.at <= q.start \/ q.at <= p.start
    <3> SUFFICES ASSUME NEW p \in deltas, NEW q \in deltas, p # q
                 PROVE  p.at <= q.start \/ q.at <= p.start
      OBVIOUS
    <3>1. RelatedPoints(p, q, F) BY <2>3 DEF Origins
    <3>2. p.series = q.series => p.at <= q.start \/ q.at <= p.start BY <2>1 DEF ValidDelta
    <3>3. F[p] = p.start /\ F[q] = q.start BY <2>2, <2>3
    <3> QED BY <2>4, <3>1, <3>2, <3>3 DEF RelatedPoints
  <2>6. IsFiniteSet(deltas) BY <1>1, <2>3, FS_Subset DEF WindowInv, PointInv
  <2>7. Intervals(deltas) BY <2>3, <2>4, <2>5, <2>6 DEF Intervals
  <2>8. deltaTotals = [p \in deltas |-> deltaTotals[p]]
        /\ \A p \in deltas : deltaTotals[p] = CountOf(f, Slots(p))
    BY <2>4 DEF deltaTotals
  <2>9. /\ SlotsOf(a.coverage) \in SUBSET Past /\ a.total = CountOf(f, SlotsOf(a.coverage))
        /\ \A i \in a.coverage : i.start \in Nat /\ i.end \in Nat /\ i.end <= Window.end
    BY <1>5, <2>1, <2>7, <2>8
  <2> QED BY <2>9 DEF a
<1>7. CASE temporality # "delta"
  <2>1. temporality = "cumulative" BY <1>1, <1>7 DEF ProcessInv
  <2>2. Status("error") \notin parts /\ a.coverage = Coverage(parts) /\ a.total = Total(totals)
    BY <1>2, <1>3, <1>4, <1>7
  <2>3. Window.end \in Int BY WindowTypes
  <2>4. ASSUME NEW S \in Streams(early), Stream(S) \in parts
        PROVE  \E p \in S : /\ Stream(S).start \in Nat /\ Stream(S).at \in Nat
                            /\ F[p] <= Stream(S).start /\ Stream(S).start < Stream(S).at
                            /\ Stream(S).at <= now /\ Stream(S).at <= Window.end
                            /\ Stream(S).at = p.at
                            /\ Stream(S).total = CountOf(f, Slots(Stream(S)))
    <3> DEFINE c == CounterStream(S, f)
    <3>1. PICK r : r \in S BY DEF Streams
    <3>2. /\ StreamOf(S, F[r], r.start) /\ \A q \in S : q.at <= Window.end /\ F[q] = F[r]
          /\ r.start = F[r]
      BY <1>1, <2>1, <2>3, <3>1, StreamsAre DEF early
    <3>3. StreamOf(S, F[r], F[r]) BY <3>2
    <3>4. c # Status("error") /\ c # Status("outside") BY <2>2, <2>4 DEF parts
    <3>5. c.status = "ok"
      <4>1. c.status = "ok" \/ c = Status("error") \/ c = Status("outside")
        BY DEF CounterStream
      <4> QED BY <3>4, <4>1
    <3>6. /\ c.start \in Nat /\ c.at \in Nat /\ F[r] <= c.start /\ c.start < c.at
          /\ c.at <= now /\ c.at <= Window.end /\ \E p \in S : c.at = p.at
          /\ c.total = CountOf(f, Slots(c))
      BY <1>1, <3>2, <3>3, <3>5, CounterStreamCounts
    <3> HIDE DEF c
    <3>7. PICK p \in S : c.at = p.at BY <3>6
    <3>8. F[p] = F[r] BY <3>2
    <3> QED BY <3>6, <3>7, <3>8 DEF c
  <2> HIDE DEF Stream
  <2>5. ASSUME NEW c \in parts
        PROVE  /\ c.start \in Nat /\ c.at \in Nat /\ c.start < c.at /\ c.at <= now
               /\ c.at <= Window.end /\ c.total = CountOf(f, Slots(c))
    <3>1. PICK S \in Streams(early) : c = Stream(S) BY DEF parts, samples
    <3> QED BY <2>4, <3>1
  <2>6. ASSUME NEW c \in parts, NEW d \in parts, c # d
        PROVE  c.at <= d.start \/ d.at <= c.start
    <3>1. PICK S \in Streams(early) : c = Stream(S) BY DEF parts, samples
    <3>2. PICK T \in Streams(early) : d = Stream(T) BY DEF parts, samples
    <3>3. S # T BY <2>6, <3>1, <3>2
    <3>4. PICK p \in S : F[p] <= c.start /\ c.at = p.at BY <2>4, <3>1
    <3>5. PICK q \in T : F[q] <= d.start /\ d.at = q.at BY <2>4, <3>2
    <3>6. p.at <= F[q] \/ q.at <= F[p]
      BY <1>1, <2>1, <2>3, <3>3, StreamsAreApart DEF early
    <3>7. c.start \in Nat /\ c.at \in Nat /\ d.start \in Nat /\ d.at \in Nat BY <2>5
    <3>8. F[p] \in Nat /\ F[q] \in Nat
      <4>1. p \in points /\ q \in points BY <1>1, <2>1, <2>3, StreamsAre DEF early
      <4> QED BY <4>1 DEF Origins, Tells
    <3> QED BY <3>4, <3>5, <3>6, <3>7, <3>8
  <2>7. IsFiniteSet(parts)
    <3> DEFINE g == [S \in Streams(early) |-> Stream(S)]
    <3>1. samples = {g[S] : S \in Streams(early)} BY DEF samples
    <3>2. IsFiniteSet(early)
      <4>1. early \in SUBSET points BY <1>1 DEF early, Until
      <4> QED BY <1>1, <4>1, FS_Subset DEF WindowInv, PointInv
    <3> HIDE DEF g
    <3>3. IsFiniteSet(samples) BY <3>1, <3>2, StreamsAreFinite, ImageIsFinite
    <3> QED BY <3>3, FS_Subset DEF parts
  <2>8. Intervals(parts) BY <2>5, <2>6, <2>7 DEF Intervals
  <2>9. totals = [c \in parts |-> totals[c]] /\ \A c \in parts : totals[c] = CountOf(f, Slots(c))
    BY <2>5 DEF totals
  <2>10. /\ SlotsOf(a.coverage) \in SUBSET Past /\ a.total = CountOf(f, SlotsOf(a.coverage))
         /\ \A i \in a.coverage : i.start \in Nat /\ i.end \in Nat /\ i.end <= Window.end
    BY <1>5, <2>2, <2>8, <2>9
  <2> QED BY <2>10 DEF a
<1> QED BY <1>6, <1>7

\* What is covered begins near the window, and little of it lies outside.
LEMMA CoversLittleElse ==
  ASSUME NEW C, Covers(C, temporality),
         \A c \in C : c.start \in Nat /\ c.at \in Nat /\ c.at <= Window.end
  PROVE  Cardinality(SlotsOf(Coverage(C)) \ WindowSlots) <= Tolerance
<1>1. ASSUME NEW c \in C PROVE c.start + Allowed >= Window.start
  <2> PICK I : I = Coverage({d \in C : d.series = c.series}) OBVIOUS
  <2> PICK B : B = {i.start : i \in I} OBVIOUS
  <2>1. SeriesCovers(I, temporality, Allowed)
    <3>1. c.series \in {d.series : d \in C} OBVIOUS
    <3> QED BY <3>1 DEF Covers
  <2>2. Window.start - Least(B) <= Allowed BY <2>1 DEF SeriesCovers
  <2>3. B \in SUBSET Nat /\ c.start \in B
    <3>1. \A i \in I : \E d \in C : i.start = d.start BY CoverageIs
    <3>2. \E i \in I : i.start = c.start
      <4> DEFINE i == [series |-> c.series, start |-> c.start, end |-> c.at]
      <4>1. i \in I /\ i.start = c.start BY DEF Coverage
      <4> HIDE DEF i
      <4> QED BY <4>1
    <3>3. \A i \in I : i.start \in Nat BY <3>1
    <3>4. B \in SUBSET Nat BY <3>3
    <3>5. c.start \in B BY <3>2
    <3> QED BY <3>4, <3>5
  <2>4. Least(B) \in B /\ Least(B) <= c.start
    <3>1. \E x \in B : \A y \in B : x <= y BY <2>3, Smallest
    <3> QED BY <2>3, <3>1 DEF Least
  <2>5. Least(B) \in Nat /\ c.start \in Nat BY <2>3, <2>4
  <2> QED BY <2>2, <2>4, <2>5, WindowTypes, AllowedIs
<1> DEFINE out == SlotsOf(Coverage(C)) \ WindowSlots
           margin == (Window.start - Allowed + 1)..Window.start
<1>2. out \in SUBSET margin
  <2> SUFFICES ASSUME NEW t \in SlotsOf(Coverage(C)), t \notin WindowSlots PROVE t \in margin
    OBVIOUS
  <2>1. PICK c \in C : t \in Slots(c) BY CoverageIs
  <2>2. t \in Int /\ c.start + 1 <= t /\ t <= Window.end /\ c.start \in Nat
    BY <2>1, WindowTypes DEF Slots
  <2>3. ~(Window.start + 1 <= t) BY <2>2, WindowTypes DEF WindowSlots
  <2> QED BY <1>1, <2>2, <2>3, WindowTypes, AllowedIs
<1>3. IsFiniteSet(margin) /\ Cardinality(margin) <= Tolerance
  <2> DEFINE l == Window.start - Allowed + 1
             r == Window.start
  <2>1. l \in Int /\ r \in Int BY WindowTypes, AllowedIs
  <2>2. r - l + 1 = Allowed BY WindowTypes, AllowedIs
  <2> HIDE DEF l, r
  <2>3. IsFiniteSet(l..r) /\ Cardinality(l..r) = IF l > r THEN 0 ELSE r - l + 1
    BY <2>1, FS_Interval
  <2>4. Cardinality(l..r) <= Tolerance BY <2>2, <2>3, AllowedIs, WindowAssumption
  <2> QED BY <2>3, <2>4 DEF l, r
<1> HIDE DEF out, margin
<1>4. IsFiniteSet(out) /\ Cardinality(out) <= Cardinality(margin) BY <1>2, <1>3, FS_Subset
<1>5. Cardinality(out) \in Nat /\ Cardinality(margin) \in Nat
  BY <1>3, <1>4, FS_CardinalityType
<1> QED BY <1>3, <1>4, <1>5, WindowAssumption DEF out

LEMMA LossVerdictsAreTrue ==
  ASSUME HistoryInv, process.known
  PROVE  LossVerdictIsTrue(Evidence)
<1> PICK e : e = Evidence OBVIOUS
<1> PICK S : S = SlotsOf(e.received.coverage) OBVIOUS
<1>1. \A f \in Counters : e[f] = CounterAggregate(PointsOf(f), f, temporality) /\ Evident(PointsOf(f))
  BY EvidenceIs, PointsOfAre DEF Counters, Instruments
<1>2. ASSUME CountersAgree(e)
      PROVE  /\ \A f \in Counters : e[f].total = CountOf(f, S) /\ CountOf(f, S) \in Nat
             /\ Cardinality(WindowSlots \ S) <= Tolerance /\ Cardinality(S \ WindowSlots) <= Tolerance
  <2>1. \A f \in Counters : e[f].status = "ok" BY <1>2 DEF CountersAgree, Counters
  <2>2. \A f \in Counters : e[f].coverage = e.received.coverage BY <1>2 DEF CountersAgree, Counters
  <2>3. ASSUME NEW f \in Counters
        PROVE  /\ SlotsOf(e[f].coverage) \in SUBSET Past
               /\ e[f].total = CountOf(f, SlotsOf(e[f].coverage))
               /\ \A i \in e[f].coverage : i.start \in Nat /\ i.end \in Nat /\ i.end <= Window.end
    <3> PICK P : P = PointsOf(f) OBVIOUS
    <3>1. e[f] = CounterAggregate(P, f, temporality) /\ Evident(P) BY <1>1
    <3>2. CounterAggregate(P, f, temporality).status = "ok" BY <2>1, <3>1
    <3> QED BY <3>1, <3>2, CounterAggregateCounts
  <2>4. "received" \in Counters BY DEF Counters
  <2>5. S \in SUBSET Past /\ \A f \in Counters : e[f].total = CountOf(f, S) BY <2>2, <2>3, <2>4
  <2>6. WindowInv BY DEF HistoryInv
  <2>7. \A f \in Counters : CountOf(f, S) \in Nat BY <2>5, <2>6, CountMeasures
  <2> PICK I : I = e.received.coverage OBVIOUS
  <2> PICK C : C = {[series |-> i.series, start |-> i.start, at |-> i.end] : i \in I} OBVIOUS
  <2>8. Covers(C, temporality) BY <1>2 DEF CountersAgree
  <2>9. /\ \A c \in C : \E i \in I : c.start = i.start /\ c.at = i.end
        /\ \A i \in I : \E c \in C : c.start = i.start /\ c.at = i.end
    <3>1. \A c \in C : \E i \in I : c.start = i.start /\ c.at = i.end OBVIOUS
    <3>2. ASSUME NEW i \in I PROVE \E c \in C : c.start = i.start /\ c.at = i.end
      <4> DEFINE c == [series |-> i.series, start |-> i.start, at |-> i.end]
      <4>1. c \in C /\ c.start = i.start /\ c.at = i.end OBVIOUS
      <4> HIDE DEF c
      <4> QED BY <4>1
    <3> QED BY <3>1, <3>2
  <2>10. SlotsOf(Coverage(C)) = S
    <3>1. \A t : t \in SlotsOf(Coverage(C)) <=> \E c \in C : t \in Slots(c) BY CoverageIs
    <3>2. \A t : t \in S <=> \E i \in I : t \in (i.start + 1)..i.end BY DEF SlotsOf
    <3>3. \A t : (\E c \in C : t \in Slots(c)) <=> \E i \in I : t \in (i.start + 1)..i.end
      <4> SUFFICES ASSUME NEW t
                   PROVE  (\E c \in C : t \in Slots(c)) <=> \E i \in I : t \in (i.start + 1)..i.end
        OBVIOUS
      <4>1. ASSUME NEW c \in C, t \in Slots(c) PROVE \E i \in I : t \in (i.start + 1)..i.end
        BY <2>9, <4>1 DEF Slots
      <4>2. ASSUME NEW i \in I, t \in (i.start + 1)..i.end PROVE \E c \in C : t \in Slots(c)
        BY <2>9, <4>2 DEF Slots
      <4> QED BY <4>1, <4>2
    <3>4. \A t : t \in SlotsOf(Coverage(C)) <=> t \in S BY <3>1, <3>2, <3>3
    <3> QED BY <3>4
  <2>11. \A c \in C : c.start \in Nat /\ c.at \in Nat /\ c.at <= Window.end
    BY <2>3, <2>4, <2>9
  <2> QED BY <2>5, <2>7, <2>8, <2>10, <2>11, CoversMost, CoversLittleElse
<1>3. ASSUME NEW maxLost \in 0..1, LossRatio(e, maxLost, 2) \in {"passed", "failed"}
      PROVE  /\ LossRatio(e, maxLost, 2) = "passed"
                  <=> CountOf("lost", S) * 2
                        <= maxLost * (CountOf("lost", S) + CountOf("received", S))
             /\ CountersAgree(e)
  <2>1. /\ CountersAgree(e)
        /\ LossRatio(e, maxLost, 2)
             = PassedIf(e.lost.total * 2 <= maxLost * (e.received.total + e.lost.total))
    BY <1>3 DEF LossRatio
  <2>2. /\ e.lost.total = CountOf("lost", S) /\ e.received.total = CountOf("received", S)
        /\ CountOf("lost", S) \in Nat /\ CountOf("received", S) \in Nat
    BY <1>2, <2>1 DEF Counters
  <2>3. e.received.total + e.lost.total = CountOf("lost", S) + CountOf("received", S) BY <2>2
  <2>4. LossRatio(e, maxLost, 2)
          = PassedIf(CountOf("lost", S) * 2 <= maxLost * (CountOf("lost", S) + CountOf("received", S)))
    BY <2>1, <2>2, <2>3
  <2> QED BY <2>1, <2>4 DEF PassedIf
<1>4. ASSUME SequenceIntegrity(e) \in {"passed", "failed"}
      PROVE  (SequenceIntegrity(e) = "passed" <=> CountOf("sequence", S) = 0) /\ CountersAgree(e)
  <2>1. CountersAgree(e) /\ SequenceIntegrity(e) = PassedIf(e.sequence.total = 0)
    BY <1>4 DEF SequenceIntegrity
  <2>2. e.sequence.total = CountOf("sequence", S) BY <1>2, <2>1 DEF Counters
  <2> QED BY <2>1, <2>2 DEF PassedIf
<1>5. ASSUME NEW maxLost \in 0..1
      PROVE  /\ DataPlane(e, Infinity, maxLost, 2).loss \in {"error", LossRatio(e, maxLost, 2)}
             /\ DataPlane(e, Infinity, maxLost, 2).sequence \in {"error", SequenceIntegrity(e)}
  BY DEF DataPlane
<1>6. ASSUME NEW maxLost \in 0..1, DataPlane(e, Infinity, maxLost, 2).loss \in {"passed", "failed"}
      PROVE  /\ DataPlane(e, Infinity, maxLost, 2).loss = "passed"
                  <=> CountOf("lost", S) * 2
                        <= maxLost * (CountOf("lost", S) + CountOf("received", S))
             /\ Cardinality(WindowSlots \ S) <= Tolerance /\ Cardinality(S \ WindowSlots) <= Tolerance
  <2>1. DataPlane(e, Infinity, maxLost, 2).loss = LossRatio(e, maxLost, 2) BY <1>5, <1>6
  <2> QED BY <1>2, <1>3, <1>6, <2>1
<1>7. ASSUME NEW maxLost \in 0..1,
             DataPlane(e, Infinity, maxLost, 2).sequence \in {"passed", "failed"}
      PROVE  /\ DataPlane(e, Infinity, maxLost, 2).sequence = "passed" <=> CountOf("sequence", S) = 0
             /\ Cardinality(WindowSlots \ S) <= Tolerance /\ Cardinality(S \ WindowSlots) <= Tolerance
  <2>1. DataPlane(e, Infinity, maxLost, 2).sequence = SequenceIntegrity(e) BY <1>5, <1>7
  <2> QED BY <1>2, <1>4, <1>7, <2>1
<1>8. LossVerdictIsTrue(e) BY <1>6, <1>7 DEF LossVerdictIsTrue
<1> QED BY <1>8

\* Whatever was lost, repeated, missing, or reset by a restart, a verdict that
\* decides is true of the messages of the slots it rests on (metrics.py 389-551
\* and 606-733, policy.py 112-196, time_authority.py 72-162).
THEOREM VerdictsAreTrue == Spec => []VerdictIsTrue
<1>1. HistoryInv => VerdictIsTrue
  BY AgeVerdictsAreTrue, LossVerdictsAreTrue DEF VerdictIsTrue
<1> QED BY <1>1, HistoryInvariance, PTL

\* Of a process whose start is known, what CounterIsExact says holds of either
\* temporality (metrics.py 606-733): where it fails, the start of the stream is
\* not known, and the increase before its first point is taken for nothing.
THEOREM KnownCountersAreExact == Spec => [](process.known => CounterIsExact)
<1>1. HistoryInv => (process.known => CounterIsExact)
  <2> SUFFICES ASSUME HistoryInv, process.known, NEW f \in Counters, Evidence[f].status = "ok"
               PROVE  Evidence[f].total = CountOf(f, SlotsOf(Evidence[f].coverage))
    BY DEF CounterIsExact, Counters
  <2> PICK e : e = Evidence OBVIOUS
  <2> PICK P : P = PointsOf(f) OBVIOUS
  <2>1. e[f] = CounterAggregate(P, f, temporality) /\ Evident(P)
    BY EvidenceIs, PointsOfAre DEF Counters, Instruments
  <2>2. CounterAggregate(P, f, temporality).status = "ok" BY <2>1
  <2> QED BY <2>1, <2>2, CounterAggregateCounts
<1> QED BY <1>1, HistoryInvariance, PTL
=============================================================================
