----------------------------- MODULE SumTheorems -----------------------------
(***************************************************************************)
(* What the proofs about calculations rest on: induction over finite sets  *)
(* and over numbers, folds, and sums (SumFunctionOnSet of the community    *)
(* modules).  A property to be shown by induction is given as the set of   *)
(* the sets, or of the numbers, that have it.                              *)
(***************************************************************************)
EXTENDS Integers, SequencesExt, FiniteSets, Functions, Folds,
        FiniteSetTheorems, FunctionTheorems, SequenceTheorems, WellFoundedInduction, NaturalsInduction, TLAPS

\* The numbers are well founded by their order.
LEMMA NatOrder == IsWellFoundedOn({p \in Nat \X Nat : p[1] < p[2]}, Nat)
  BY NatLessThanWellFounded DEF OpToRel

\* A set of numbers has a least one.
LEMMA Least ==
  ASSUME NEW T \in SUBSET Nat, T # {}
  PROVE  \E n \in T : \A m \in T : n <= m
<1> DEFINE R == {p \in Nat \X Nat : p[1] < p[2]}
<1>1. IsWellFoundedOn(R, Nat)
  BY NatOrder
<1> HIDE DEF R
<1>2. \E x \in T : \A y \in T : <<y, x>> \notin R
  BY <1>1, WFMin
<1>3. PICK x \in T : \A y \in T : <<y, x>> \notin R
  BY <1>2
<1>4. ASSUME NEW y \in T PROVE x <= y
  <2>1. <<y, x>> \notin R
    BY <1>3
  <2>2. ~(y < x)
    BY <2>1 DEF R
  <2> QED BY <2>2
<1> QED BY <1>4

\* A family of subsets of a finite set has a member of which no proper part is
\* in the family.
THEOREM SmallestSet ==
  ASSUME NEW S, IsFiniteSet(S), NEW B \in SUBSET (SUBSET S), B # {}
  PROVE  \E u \in B : \A v \in SUBSET u : v # u => v \notin B
<1> DEFINE Sizes == {Cardinality(u) : u \in B}
<1>1. \A u \in B : IsFiniteSet(u) /\ Cardinality(u) \in Nat
  BY FS_Subset, FS_CardinalityType
<1>2. Sizes \in SUBSET Nat /\ Sizes # {}
  BY <1>1
<1>3. \E n \in Sizes : \A m \in Sizes : n <= m
  <2> HIDE DEF Sizes
  <2> QED BY <1>2, Least
<1>4. PICK n \in Sizes : \A m \in Sizes : n <= m
  BY <1>3
<1>5. PICK u \in B : n = Cardinality(u)
  BY <1>4
<1>6. ASSUME NEW v \in SUBSET u, v # u, v \in B PROVE FALSE
  <2>1. Cardinality(v) < Cardinality(u)
    BY <1>1, <1>5, <1>6, FS_Subset
  <2>2. n <= Cardinality(v)
    BY <1>4, <1>6
  <2> QED BY <1>1, <1>5, <1>6, <2>1, <2>2
<1> QED BY <1>5, <1>6

\* Induction over the parts of a finite set.
THEOREM SetInduction ==
  ASSUME NEW S, IsFiniteSet(S), NEW G, {} \in G,
         \A u \in SUBSET S : \A z \in u : u \ {z} \in G => u \in G
  PROVE  S \in G
<1> DEFINE B == {u \in SUBSET S : u \notin G}
<1> SUFFICES ASSUME B # {} PROVE FALSE
  OBVIOUS
<1>1. PICK u \in B : \A v \in SUBSET u : v # u => v \notin B
  <2>1. B \in SUBSET (SUBSET S)
    OBVIOUS
  <2> HIDE DEF B
  <2> QED BY <2>1, SmallestSet
<1>2. PICK z \in u : TRUE
  BY <1>1
<1>3. u \ {z} \in G
  BY <1>1, <1>2
<1> QED BY <1>1, <1>2, <1>3

\* Induction over the numbers.
THEOREM NumberInduction ==
  ASSUME NEW G, 0 \in G, \A k \in Nat : k \in G => k + 1 \in G
  PROVE  \A k \in Nat : k \in G
<1> DEFINE B == {k \in Nat : k \notin G}
<1> SUFFICES ASSUME B # {} PROVE FALSE
  OBVIOUS
<1>1. PICK n \in B : \A m \in B : n <= m
  <2>1. B \in SUBSET Nat
    OBVIOUS
  <2> HIDE DEF B
  <2> QED BY <2>1, Least
<1>2. n # 0 /\ n - 1 \in Nat /\ n - 1 \notin B /\ (n - 1) + 1 = n
  BY <1>1
<1> QED BY <1>1, <1>2

-----------------------------------------------------------------------------
Some(u) == CHOOSE x \in u : TRUE

\* it is the iteration that adds up f over the parts of S.
Adds(it, f, S) ==
  it = [u \in SUBSET S |-> IF u = {} THEN 0 ELSE f[Some(u)] + it[u \ {Some(u)}]]

\* What a sum takes out first is in the set.
LEMMA SomeIsIn == ASSUME NEW u, u # {} PROVE Some(u) \in u
  BY DEF Some

\* it folds F over the parts of S, taking out what pick says.
Folds(it, S, base, F, pick) ==
  it = [u \in SUBSET S |-> IF u = {} THEN base ELSE F[<<it[u \ {pick[u]}], pick[u]>>]]

\* There is an iteration that folds F over the parts of a finite set.
LEMMA FoldExists ==
  ASSUME NEW S, IsFiniteSet(S), NEW A, NEW base \in A, NEW F \in [A \X S -> A],
         NEW pick, \A u \in SUBSET S : u # {} => pick[u] \in u
  PROVE  \E it \in [SUBSET S -> A] : Folds(it, S, base, F, pick)
<1> DEFINE Next(it) == [u \in SUBSET S |-> IF u = {} THEN base ELSE F[<<it[u \ {pick[u]}], pick[u]>>]]
           Upto(k) == \E it \in [SUBSET S -> A] :
                        \A u \in SUBSET S : Cardinality(u) <= k => it[u] = Next(it)[u]
           Bad == {k \in Nat : ~Upto(k)}
<1>1. \A u \in SUBSET S : IsFiniteSet(u) /\ Cardinality(u) \in Nat
  BY FS_Subset, FS_CardinalityType
<1>2. ASSUME NEW it \in [SUBSET S -> A] PROVE Next(it) \in [SUBSET S -> A]
  OBVIOUS
<1>3. Upto(0)
  <2> DEFINE it == [u \in SUBSET S |-> base]
  <2>1. ASSUME NEW u \in SUBSET S, Cardinality(u) <= 0 PROVE it[u] = Next(it)[u]
    <3>1. u = {}
      BY <1>1, <2>1, FS_EmptySet
    <3> QED BY <3>1
  <2>2. it \in [SUBSET S -> A]
    OBVIOUS
  <2> HIDE DEF it, Next
  <2> QED BY <2>1, <2>2
<1>4. ASSUME NEW k \in Nat, Upto(k) PROVE Upto(k + 1)
  <2>1. PICK it \in [SUBSET S -> A] :
               \A u \in SUBSET S : Cardinality(u) <= k => it[u] = Next(it)[u]
    BY <1>4
  <2> DEFINE jt == Next(it)
  <2>2. jt \in [SUBSET S -> A]
    BY <1>2
  <2>3. ASSUME NEW u \in SUBSET S, Cardinality(u) <= k + 1 PROVE jt[u] = Next(jt)[u]
    <3>1. CASE u = {}
      BY <3>1
    <3>2. CASE u # {}
      <4> DEFINE w == u \ {pick[u]}
      <4>1. w \in SUBSET S /\ Cardinality(w) = Cardinality(u) - 1
        BY <1>1, <3>2, FS_RemoveElement
      <4>2. Cardinality(w) <= k
        BY <1>1, <2>3, <4>1
      <4>3. it[w] = jt[w]
        <5> HIDE DEF w, Next
        <5> QED BY <2>1, <4>1, <4>2
      <4>4. jt[u] = F[<<it[w], pick[u]>>] /\ Next(jt)[u] = F[<<jt[w], pick[u]>>]
        BY <3>2
      <4> QED BY <4>3, <4>4
    <3> QED BY <3>1, <3>2
  <2> HIDE DEF jt, Next
  <2> QED BY <2>2, <2>3
<1>5. \A k \in Nat : Upto(k)
  <2> SUFFICES ASSUME Bad # {} PROVE FALSE
    OBVIOUS
  <2>1. \E n \in Bad : \A m \in Bad : n <= m
    <3>1. Bad \in SUBSET Nat
      OBVIOUS
    <3> HIDE DEF Bad
    <3> QED BY <3>1, Least
  <2>2. PICK n \in Bad : \A m \in Bad : n <= m
    BY <2>1
  <2> HIDE DEF Upto
  <2>3. n # 0 /\ n \in Nat /\ ~Upto(n)
    BY <1>3, <2>2
  <2>4. n - 1 \in Nat /\ n - 1 \notin Bad
    BY <2>2, <2>3
  <2>5. Upto(n - 1)
    BY <2>4
  <2>6. Upto((n - 1) + 1)
    BY <1>4, <2>4, <2>5
  <2>7. (n - 1) + 1 = n
    BY <2>3
  <2> QED BY <2>3, <2>6, <2>7
<1>6. PICK it \in [SUBSET S -> A] :
             \A u \in SUBSET S : Cardinality(u) <= Cardinality(S) => it[u] = Next(it)[u]
  <2>1. Cardinality(S) \in Nat
    BY FS_CardinalityType
  <2>2. Upto(Cardinality(S))
    BY <1>5, <2>1
  <2> QED BY <2>2
<1>7. ASSUME NEW u \in SUBSET S PROVE it[u] = Next(it)[u]
  <2>1. Cardinality(u) <= Cardinality(S)
    BY FS_Subset
  <2> QED BY <1>6, <2>1
<1>8. it = Next(it)
  BY <1>2, <1>7
<1> QED BY <1>8 DEF Folds

\* A fold from the left takes the positions out from the last one on.
Topmost(u) == CHOOSE x \in u : \A y \in u : x >= y

\* A set of positions has a last one.
LEMMA TopmostIsIn ==
  ASSUME NEW n \in Nat, NEW u \in SUBSET (1 .. n), u # {}
  PROVE  Topmost(u) \in u /\ \A y \in u : Topmost(u) >= y
<1> DEFINE T == {n - x : x \in u}
<1>1. T \in SUBSET Nat /\ T # {}
  <2>1. ASSUME NEW x \in u PROVE n - x \in Nat /\ n - x \in T
    OBVIOUS
  <2>2. \E x : x \in u
    OBVIOUS
  <2>3. \A d \in T : d \in Nat
    BY <2>1
  <2> QED BY <2>1, <2>2, <2>3
<1>2. \E d \in T : \A e \in T : d <= e
  <2> HIDE DEF T
  <2> QED BY <1>1, Least
<1>3. PICK d \in T : \A e \in T : d <= e
  BY <1>2
<1>4. PICK x \in u : d = n - x
  BY <1>3
<1>5. \A y \in u : x >= y
  <2> SUFFICES ASSUME NEW y \in u PROVE x >= y
    OBVIOUS
  <2>1. d <= n - y
    BY <1>3
  <2> QED BY <1>4, <2>1
<1>6. \E z \in u : \A y \in u : z >= y
  BY <1>5
<1> QED BY <1>6 DEF Topmost

\* The last of the first k positions is k.
LEMMA TopmostOfFirst ==
  ASSUME NEW n \in Nat, NEW k \in 1 .. n
  PROVE  Topmost(1 .. k) = k /\ (1 .. k) \ {k} = 1 .. k - 1
<1>1. (1 .. k) \in SUBSET (1 .. n) /\ k \in 1 .. k /\ 1 .. k # {}
  OBVIOUS
<1> DEFINE u == 1 .. k
<1>2. Topmost(u) \in u /\ \A y \in u : Topmost(u) >= y
  <2> HIDE DEF u
  <2> QED BY <1>1, TopmostIsIn DEF u
<1>3. Topmost(u) \in Int /\ Topmost(u) <= k /\ Topmost(u) >= k
  BY <1>1, <1>2
<1>4. (1 .. k) \ {k} = 1 .. k - 1
  OBVIOUS
<1> QED BY <1>3, <1>4

FoldsLeft(it, n, A, base, F) ==
  /\ it = [u \in SUBSET (1 .. n) |-> IF u = {} THEN base ELSE F[<<it[u \ {Topmost(u)}], Topmost(u)>>]]
  /\ it[{}] = base
  /\ \A u \in SUBSET (1 .. n) : it[u] \in A
  /\ \A k \in 1 .. n : it[1 .. k] = F[<<it[1 .. k - 1], k>>]

\* Whatever F does to what was folded so far and to the next position, there
\* is an iteration that folds it over the positions from the left.
THEOREM LeftFold ==
  ASSUME NEW n \in Nat, NEW A, NEW base \in A, NEW F \in [A \X (1 .. n) -> A]
  PROVE  \E it : FoldsLeft(it, n, A, base, F)
<1> DEFINE S == 1 .. n
           pick == [u \in SUBSET S |-> Topmost(u)]
<1>1. IsFiniteSet(S)
  BY FS_Interval
<1>2. \A u \in SUBSET S : u # {} => pick[u] \in u
  BY TopmostIsIn
<1>3. \E it \in [SUBSET S -> A] : Folds(it, S, base, F, pick)
  <2> HIDE DEF S, pick
  <2>1. F \in [A \X S -> A]
    BY DEF S
  <2> QED BY <1>1, <1>2, <2>1, FoldExists
<1>4. PICK it \in [SUBSET S -> A] : Folds(it, S, base, F, pick)
  BY <1>3
<1>5. it = [u \in SUBSET S |-> IF u = {} THEN base ELSE F[<<it[u \ {Topmost(u)}], Topmost(u)>>]]
  <2>1. \A u \in SUBSET S : pick[u] = Topmost(u)
    <3> HIDE DEF S
    <3> QED OBVIOUS
  <2> HIDE DEF pick, S
  <2> QED BY <1>4, <2>1 DEF Folds
<1>6. it[{}] = base
  <2> HIDE DEF S
  <2>1. {} \in SUBSET S
    OBVIOUS
  <2> QED BY <1>5, <2>1
<1>7. ASSUME NEW k \in 1 .. n PROVE it[1 .. k] = F[<<it[1 .. k - 1], k>>]
  <2>1. (1 .. k) \in SUBSET S /\ 1 .. k # {}
    OBVIOUS
  <2>2. Topmost(1 .. k) = k /\ (1 .. k) \ {k} = 1 .. k - 1
    BY TopmostOfFirst
  <2> DEFINE u == 1 .. k
             v == 1 .. k - 1
  <2> HIDE DEF S, u, v
  <2>3. u \in SUBSET S /\ u # {} /\ Topmost(u) = k /\ u \ {k} = v
    BY <2>1, <2>2 DEF u, v
  <2>4. it[u] = F[<<it[v], k>>]
    BY <1>5, <2>3
  <2> QED BY <2>4 DEF u, v
<1>8. \A u \in SUBSET S : it[u] \in A
  <2> HIDE DEF S
  <2> QED BY <1>4
<1>9. FoldsLeft(it, n, A, base, F)
  BY <1>5, <1>6, <1>7, <1>8 DEF FoldsLeft
<1> QED BY <1>9

\* There is an iteration that adds up numbers over the parts of a finite set.
LEMMA AddsExists ==
  ASSUME NEW S, IsFiniteSet(S), NEW f, \A x \in S : f[x] \in Int
  PROVE  \E it \in [SUBSET S -> Int] : Adds(it, f, S)
<1> DEFINE F == [p \in Int \X S |-> f[p[2]] + p[1]]
           pick == [u \in SUBSET S |-> Some(u)]
<1>1. F \in [Int \X S -> Int]
  OBVIOUS
<1>2. \A u \in SUBSET S : u # {} => pick[u] \in u
  BY SomeIsIn
<1>3. \E it \in [SUBSET S -> Int] : Folds(it, S, 0, F, pick)
  <2>1. 0 \in Int
    OBVIOUS
  <2> HIDE DEF F, pick
  <2> QED BY <1>1, <1>2, <2>1, FoldExists
<1>4. PICK it \in [SUBSET S -> Int] : Folds(it, S, 0, F, pick)
  BY <1>3
<1>5. ASSUME NEW u \in SUBSET S, u # {}
      PROVE  F[<<it[u \ {pick[u]}], pick[u]>>] = f[Some(u)] + it[u \ {Some(u)}]
  <2>1. pick[u] = Some(u) /\ Some(u) \in S /\ u \ {Some(u)} \in SUBSET S
    BY <1>5, SomeIsIn
  <2>2. it[u \ {Some(u)}] \in Int
    BY <2>1
  <2> QED BY <2>1, <2>2
<1>6. it = [u \in SUBSET S |-> IF u = {} THEN 0 ELSE f[Some(u)] + it[u \ {Some(u)}]]
  <2> HIDE DEF F, pick
  <2> QED BY <1>4, <1>5 DEF Folds
<1> QED BY <1>6 DEF Adds

\* A sum over a finite set is what such an iteration gives for all of it.
LEMMA Unfolds ==
  ASSUME NEW S, IsFiniteSet(S), NEW f, \A x \in S : f[x] \in Int
  PROVE  \E it : Adds(it, f, S) /\ SumFunctionOnSet(f, S) = it[S]
<1> DEFINE fold == CHOOSE it : it = [u \in SUBSET S |-> IF u = {} THEN 0 ELSE f[CHOOSE x \in u : TRUE] + it[u \ {CHOOSE x \in u : TRUE}]]
<1>1. SumFunctionOnSet(f, S) = fold[S]
  BY Zenon DEF SumFunctionOnSet, FoldFunctionOnSet, MapThenFoldSet
<1>2. \E it : it = [u \in SUBSET S |-> IF u = {} THEN 0 ELSE f[CHOOSE x \in u : TRUE] + it[u \ {CHOOSE x \in u : TRUE}]]
  <2>1. PICK it : Adds(it, f, S)
    BY AddsExists
  <2> QED BY <2>1, Zenon DEF Adds, Some
<1>3. fold = [u \in SUBSET S |-> IF u = {} THEN 0 ELSE f[CHOOSE x \in u : TRUE] + fold[u \ {CHOOSE x \in u : TRUE}]]
  BY <1>2, Zenon
<1> HIDE DEF fold
<1>4. Adds(fold, f, S)
  BY <1>3 DEF Adds, Some
<1> QED BY <1>1, <1>4

\* Whole numbers add up to a whole number, for every part.
LEMMA AddsAreInts ==
  ASSUME NEW S, IsFiniteSet(S), NEW f, \A x \in S : f[x] \in Int, NEW it, Adds(it, f, S)
  PROVE  \A u \in SUBSET S : it[u] \in Int
<1> DEFINE B == {u \in SUBSET S : it[u] \notin Int}
<1> SUFFICES ASSUME B # {} PROVE FALSE
  OBVIOUS
<1>1. PICK u \in B : \A v \in SUBSET u : v # u => v \notin B
  <2>1. B \in SUBSET (SUBSET S)
    OBVIOUS
  <2> HIDE DEF B
  <2> QED BY <2>1, SmallestSet
<1>2. CASE u = {}
  BY <1>1, <1>2 DEF Adds
<1>3. CASE u # {}
  <2>1. Some(u) \in u /\ u \ {Some(u)} \in SUBSET u /\ u \ {Some(u)} # u
    BY <1>3, SomeIsIn
  <2>2. it[u \ {Some(u)}] \in Int
    BY <1>1, <2>1
  <2>3. it[u] = f[Some(u)] + it[u \ {Some(u)}]
    BY <1>1, <1>3 DEF Adds
  <2> QED BY <1>1, <2>1, <2>2, <2>3
<1> QED BY <1>2, <1>3

\* In which order the members are taken does not matter.
LEMMA AddsTake ==
  ASSUME NEW S, IsFiniteSet(S), NEW f, \A x \in S : f[x] \in Int, NEW it, Adds(it, f, S),
         NEW t \in SUBSET S, NEW z \in t
  PROVE  it[t] = f[z] + it[t \ {z}]
<1> DEFINE B == {u \in SUBSET S : \E x \in u : it[u] # f[x] + it[u \ {x}]}
<1> SUFFICES ASSUME B # {} PROVE FALSE
  OBVIOUS
<1>1. PICK u \in B : \A v \in SUBSET u : v # u => v \notin B
  <2>1. B \in SUBSET (SUBSET S)
    OBVIOUS
  <2> HIDE DEF B
  <2> QED BY <2>1, SmallestSet
<1>2. PICK x \in u : it[u] # f[x] + it[u \ {x}]
  BY <1>1
<1> DEFINE y == Some(u)
<1>3. y \in u /\ u \in SUBSET S /\ it[u] = f[y] + it[u \ {y}]
  BY <1>1, <1>2, SomeIsIn DEF Adds
<1>4. x # y
  BY <1>2, <1>3
<1> HIDE DEF y
<1> DEFINE w == (u \ {x}) \ {y}
<1>5. w = (u \ {y}) \ {x}
  OBVIOUS
<1>6. it[u \ {y}] = f[x] + it[w]
  <2>1. u \ {y} \notin B
    BY <1>1, <1>3
  <2>2. u \ {y} \in SUBSET S /\ x \in u \ {y}
    BY <1>2, <1>3, <1>4
  <2> HIDE DEF w
  <2> QED BY <1>5, <2>1, <2>2
<1>7. it[u \ {x}] = f[y] + it[w]
  <2>1. u \ {x} \notin B
    BY <1>1, <1>2
  <2>2. u \ {x} \in SUBSET S /\ y \in u \ {x}
    BY <1>2, <1>3, <1>4
  <2> QED BY <2>1, <2>2
<1>8. it[w] \in Int /\ f[x] \in Int /\ f[y] \in Int
  BY <1>2, <1>3, AddsAreInts
<1> HIDE DEF w
<1> QED BY <1>2, <1>3, <1>6, <1>7, <1>8

\* Over a part of the set both iterations add up alike.
LEMMA AddsAgree ==
  ASSUME NEW S, IsFiniteSet(S), NEW f, NEW it, Adds(it, f, S),
         NEW T \in SUBSET S, NEW jt, Adds(jt, f, T)
  PROVE  \A u \in SUBSET T : it[u] = jt[u]
<1> DEFINE B == {u \in SUBSET T : it[u] # jt[u]}
<1> SUFFICES ASSUME B # {} PROVE FALSE
  OBVIOUS
<1>1. PICK u \in B : \A v \in SUBSET u : v # u => v \notin B
  <2>1. B \in SUBSET (SUBSET T) /\ IsFiniteSet(T)
    BY FS_Subset
  <2> HIDE DEF B
  <2> QED BY <2>1, SmallestSet
<1>2. CASE u = {}
  BY <1>1, <1>2 DEF Adds
<1>3. CASE u # {}
  <2>1. Some(u) \in u /\ u \ {Some(u)} \in SUBSET u /\ u \ {Some(u)} # u
    BY <1>3, SomeIsIn
  <2>2. it[u \ {Some(u)}] = jt[u \ {Some(u)}]
    BY <1>1, <2>1
  <2>3. it[u] = f[Some(u)] + it[u \ {Some(u)}] /\ jt[u] = f[Some(u)] + jt[u \ {Some(u)}]
    BY <1>1, <1>3 DEF Adds
  <2> QED BY <1>1, <2>2, <2>3
<1> QED BY <1>2, <1>3

\* The sum of nothing is zero.
THEOREM SumOfNone == ASSUME NEW f PROVE SumFunctionOnSet(f, {}) = 0
<1>1. IsFiniteSet({}) /\ \A x \in {} : f[x] \in Int
  BY FS_EmptySet
<1>2. PICK it : Adds(it, f, {}) /\ SumFunctionOnSet(f, {}) = it[{}]
  BY <1>1, Unfolds
<1> QED BY <1>2 DEF Adds

\* The sum of whole numbers is a whole number.
THEOREM SumIsInt ==
  ASSUME NEW S, IsFiniteSet(S), NEW f, \A x \in S : f[x] \in Int
  PROVE  SumFunctionOnSet(f, S) \in Int
<1>1. PICK it : Adds(it, f, S) /\ SumFunctionOnSet(f, S) = it[S]
  BY Unfolds
<1> QED BY <1>1, AddsAreInts

\* Any member may be taken out of a sum first.
THEOREM SumTake ==
  ASSUME NEW S, IsFiniteSet(S), NEW f, \A x \in S : f[x] \in Int, NEW z \in S
  PROVE  SumFunctionOnSet(f, S) = f[z] + SumFunctionOnSet(f, S \ {z})
<1>1. PICK it : Adds(it, f, S) /\ SumFunctionOnSet(f, S) = it[S]
  BY Unfolds
<1>2. IsFiniteSet(S \ {z}) /\ \A x \in S \ {z} : f[x] \in Int
  BY FS_Subset
<1>3. PICK jt : Adds(jt, f, S \ {z}) /\ SumFunctionOnSet(f, S \ {z}) = jt[S \ {z}]
  BY <1>2, Unfolds
<1>4. it[S] = f[z] + it[S \ {z}]
  BY <1>1, AddsTake
<1>5. it[S \ {z}] = jt[S \ {z}]
  BY <1>1, <1>3, AddsAgree
<1> QED BY <1>1, <1>3, <1>4, <1>5

\* Sums of equal numbers.
THEOREM SumSame ==
  ASSUME NEW S, IsFiniteSet(S), NEW f, NEW g, \A x \in S : f[x] \in Int /\ f[x] = g[x]
  PROVE  SumFunctionOnSet(f, S) = SumFunctionOnSet(g, S)
<1> DEFINE G == {u \in SUBSET S : SumFunctionOnSet(f, u) = SumFunctionOnSet(g, u)}
<1>1. {} \in G
  BY SumOfNone
<1>2. ASSUME NEW u \in SUBSET S, NEW z \in u, u \ {z} \in G PROVE u \in G
  <2> DEFINE w == u \ {z}
  <2>1. SumFunctionOnSet(f, w) = SumFunctionOnSet(g, w)
    BY <1>2
  <2>2. IsFiniteSet(u) /\ IsFiniteSet(w)
    BY FS_Subset
  <2>3. SumFunctionOnSet(f, u) = f[z] + SumFunctionOnSet(f, w) /\ SumFunctionOnSet(f, w) \in Int /\ f[z] \in Int
    <3>1. \A x \in u : f[x] \in Int
      OBVIOUS
    <3> QED BY <2>2, <3>1, SumTake, SumIsInt
  <2>4. SumFunctionOnSet(g, u) = g[z] + SumFunctionOnSet(g, w) /\ SumFunctionOnSet(g, w) \in Int /\ g[z] \in Int
    <3>1. \A x \in u : g[x] \in Int
      OBVIOUS
    <3> QED BY <2>2, <3>1, SumTake, SumIsInt
  <2>5. f[z] = g[z]
    OBVIOUS
  <2> HIDE DEF w
  <2>6. SumFunctionOnSet(f, u) = SumFunctionOnSet(g, u)
    BY <2>1, <2>3, <2>4, <2>5
  <2> QED BY <2>6
<1>3. S \in G
  <2> HIDE DEF G
  <2> QED BY <1>1, <1>2, SetInduction
<1> QED BY <1>3

\* Sums of numbers none of which is larger.
THEOREM SumAtMost ==
  ASSUME NEW S, IsFiniteSet(S), NEW f, NEW g,
         \A x \in S : f[x] \in Int /\ g[x] \in Int /\ f[x] <= g[x]
  PROVE  SumFunctionOnSet(f, S) <= SumFunctionOnSet(g, S)
<1> DEFINE G == {u \in SUBSET S : SumFunctionOnSet(f, u) <= SumFunctionOnSet(g, u)}
<1>1. {} \in G
  BY SumOfNone
<1>2. ASSUME NEW u \in SUBSET S, NEW z \in u, u \ {z} \in G PROVE u \in G
  <2> DEFINE w == u \ {z}
  <2>1. SumFunctionOnSet(f, w) <= SumFunctionOnSet(g, w)
    BY <1>2
  <2>2. IsFiniteSet(u) /\ IsFiniteSet(w)
    BY FS_Subset
  <2>3. SumFunctionOnSet(f, u) = f[z] + SumFunctionOnSet(f, w) /\ SumFunctionOnSet(f, w) \in Int /\ f[z] \in Int
    <3>1. \A x \in u : f[x] \in Int
      OBVIOUS
    <3> QED BY <2>2, <3>1, SumTake, SumIsInt
  <2>4. SumFunctionOnSet(g, u) = g[z] + SumFunctionOnSet(g, w) /\ SumFunctionOnSet(g, w) \in Int /\ g[z] \in Int
    <3>1. \A x \in u : g[x] \in Int
      OBVIOUS
    <3> QED BY <2>2, <3>1, SumTake, SumIsInt
  <2>5. f[z] <= g[z]
    OBVIOUS
  <2> HIDE DEF w
  <2>6. SumFunctionOnSet(f, u) <= SumFunctionOnSet(g, u)
    BY <2>1, <2>3, <2>4, <2>5
  <2> QED BY <2>6
<1>3. S \in G
  <2> HIDE DEF G
  <2> QED BY <1>1, <1>2, SetInduction
<1> QED BY <1>3

\* A sum of sums.
THEOREM SumPlus ==
  ASSUME NEW S, IsFiniteSet(S), NEW f, NEW g, NEW h,
         \A x \in S : f[x] \in Int /\ g[x] \in Int /\ h[x] = f[x] + g[x]
  PROVE  SumFunctionOnSet(h, S) = SumFunctionOnSet(f, S) + SumFunctionOnSet(g, S)
<1> DEFINE G == {u \in SUBSET S : SumFunctionOnSet(h, u) = SumFunctionOnSet(f, u) + SumFunctionOnSet(g, u)}
<1>1. {} \in G
  <2>1. 0 = 0 + 0
    OBVIOUS
  <2> QED BY <2>1, SumOfNone
<1>2. ASSUME NEW u \in SUBSET S, NEW z \in u, u \ {z} \in G PROVE u \in G
  <2> DEFINE w == u \ {z}
  <2>1. SumFunctionOnSet(h, w) = SumFunctionOnSet(f, w) + SumFunctionOnSet(g, w)
    BY <1>2
  <2>2. IsFiniteSet(u) /\ IsFiniteSet(w)
    BY FS_Subset
  <2>3. SumFunctionOnSet(f, u) = f[z] + SumFunctionOnSet(f, w) /\ SumFunctionOnSet(f, w) \in Int /\ f[z] \in Int
    <3>1. \A x \in u : f[x] \in Int
      OBVIOUS
    <3> QED BY <2>2, <3>1, SumTake, SumIsInt
  <2>4. SumFunctionOnSet(g, u) = g[z] + SumFunctionOnSet(g, w) /\ SumFunctionOnSet(g, w) \in Int /\ g[z] \in Int
    <3>1. \A x \in u : g[x] \in Int
      OBVIOUS
    <3> QED BY <2>2, <3>1, SumTake, SumIsInt
  <2>5. SumFunctionOnSet(h, u) = h[z] + SumFunctionOnSet(h, w) /\ SumFunctionOnSet(h, w) \in Int /\ h[z] \in Int
    <3>1. \A x \in u : h[x] \in Int
      OBVIOUS
    <3> QED BY <2>2, <3>1, SumTake, SumIsInt
  <2>6. h[z] = f[z] + g[z]
    OBVIOUS
  <2> HIDE DEF w
  <2>7. SumFunctionOnSet(h, u) = SumFunctionOnSet(f, u) + SumFunctionOnSet(g, u)
    BY <2>1, <2>3, <2>4, <2>5, <2>6
  <2> QED BY <2>7
<1>3. S \in G
  <2> HIDE DEF G
  <2> QED BY <1>1, <1>2, SetInduction
<1> QED BY <1>3

\* A multiple of a sum.
THEOREM SumTimes ==
  ASSUME NEW S, IsFiniteSet(S), NEW f, NEW h, NEW c \in Int,
         \A x \in S : f[x] \in Int /\ h[x] = c * f[x]
  PROVE  SumFunctionOnSet(h, S) = c * SumFunctionOnSet(f, S)
<1> DEFINE G == {u \in SUBSET S : SumFunctionOnSet(h, u) = c * SumFunctionOnSet(f, u)}
<1>1. {} \in G
  <2>1. SumFunctionOnSet(h, {}) = 0 /\ SumFunctionOnSet(f, {}) = 0 /\ c * 0 = 0
    BY SumOfNone
  <2> QED BY <2>1
<1>2. ASSUME NEW u \in SUBSET S, NEW z \in u, u \ {z} \in G PROVE u \in G
  <2> DEFINE w == u \ {z}
  <2>1. SumFunctionOnSet(h, w) = c * SumFunctionOnSet(f, w)
    BY <1>2
  <2>2. IsFiniteSet(u) /\ IsFiniteSet(w)
    BY FS_Subset
  <2>3. SumFunctionOnSet(f, u) = f[z] + SumFunctionOnSet(f, w) /\ SumFunctionOnSet(f, w) \in Int /\ f[z] \in Int
    <3>1. \A x \in u : f[x] \in Int
      OBVIOUS
    <3> QED BY <2>2, <3>1, SumTake, SumIsInt
  <2>4. SumFunctionOnSet(h, u) = h[z] + SumFunctionOnSet(h, w) /\ SumFunctionOnSet(h, w) \in Int /\ h[z] \in Int
    <3>1. \A x \in u : h[x] \in Int
      OBVIOUS
    <3> QED BY <2>2, <3>1, SumTake, SumIsInt
  <2>5. h[z] = c * f[z]
    OBVIOUS
  <2>6. c * (f[z] + SumFunctionOnSet(f, w)) = c * f[z] + c * SumFunctionOnSet(f, w)
    <3> HIDE DEF w
    <3> QED BY <2>3
  <2> HIDE DEF w
  <2>7. SumFunctionOnSet(h, u) = c * SumFunctionOnSet(f, u)
    BY <2>1, <2>3, <2>4, <2>5, <2>6
  <2> QED BY <2>7
<1>3. S \in G
  <2> HIDE DEF G
  <2> QED BY <1>1, <1>2, SetInduction
<1> QED BY <1>3

\* The same number, as often as there are members.
THEOREM SumOfAlike ==
  ASSUME NEW S, IsFiniteSet(S), NEW f, NEW c \in Int, \A x \in S : f[x] = c
  PROVE  SumFunctionOnSet(f, S) = Cardinality(S) * c
<1> DEFINE G == {u \in SUBSET S : SumFunctionOnSet(f, u) = Cardinality(u) * c}
<1>1. {} \in G
  <2>1. SumFunctionOnSet(f, {}) = 0 /\ Cardinality({}) = 0 /\ 0 * c = 0
    BY SumOfNone, FS_EmptySet
  <2> QED BY <2>1
<1>2. ASSUME NEW u \in SUBSET S, NEW z \in u, u \ {z} \in G PROVE u \in G
  <2> DEFINE w == u \ {z}
  <2>1. SumFunctionOnSet(f, w) = Cardinality(w) * c
    BY <1>2
  <2>2. IsFiniteSet(u) /\ IsFiniteSet(w)
    BY FS_Subset
  <2>3. SumFunctionOnSet(f, u) = f[z] + SumFunctionOnSet(f, w) /\ SumFunctionOnSet(f, w) \in Int /\ f[z] \in Int
    <3>1. \A x \in u : f[x] \in Int
      OBVIOUS
    <3> QED BY <2>2, <3>1, SumTake, SumIsInt
  <2>4. Cardinality(u) = Cardinality(w) + 1 /\ Cardinality(w) \in Nat /\ f[z] = c
    <3>1. Cardinality(w) = Cardinality(u) - 1 /\ Cardinality(u) \in Nat /\ Cardinality(w) \in Nat
      BY <2>2, FS_RemoveElement, FS_CardinalityType
    <3> HIDE DEF w
    <3> QED BY <3>1
  <2>5. (Cardinality(w) + 1) * c = Cardinality(w) * c + c
    <3> HIDE DEF w
    <3> QED BY <2>4
  <2> HIDE DEF w
  <2>6. SumFunctionOnSet(f, u) = Cardinality(u) * c
    BY <2>1, <2>3, <2>4, <2>5
  <2> QED BY <2>6
<1>3. S \in G
  <2> HIDE DEF G
  <2> QED BY <1>1, <1>2, SetInduction
<1> QED BY <1>3

\* Sums of numbers that are at most c larger.
THEOREM SumAlmost ==
  ASSUME NEW S, IsFiniteSet(S), NEW f, NEW g, NEW c \in Int,
         \A x \in S : f[x] \in Int /\ g[x] \in Int /\ f[x] <= g[x] + c
  PROVE  SumFunctionOnSet(f, S) <= SumFunctionOnSet(g, S) + Cardinality(S) * c
<1> DEFINE G == {u \in SUBSET S : SumFunctionOnSet(f, u) <= SumFunctionOnSet(g, u) + Cardinality(u) * c}
<1>1. {} \in G
  <2>1. SumFunctionOnSet(f, {}) = 0 /\ SumFunctionOnSet(g, {}) = 0 /\ Cardinality({}) = 0 /\ 0 * c = 0
    BY SumOfNone, FS_EmptySet
  <2> QED BY <2>1
<1>2. ASSUME NEW u \in SUBSET S, NEW z \in u, u \ {z} \in G PROVE u \in G
  <2> DEFINE w == u \ {z}
  <2>1. SumFunctionOnSet(f, w) <= SumFunctionOnSet(g, w) + Cardinality(w) * c
    BY <1>2
  <2>2. IsFiniteSet(u) /\ IsFiniteSet(w)
    BY FS_Subset
  <2>3. SumFunctionOnSet(f, u) = f[z] + SumFunctionOnSet(f, w) /\ SumFunctionOnSet(f, w) \in Int /\ f[z] \in Int
    <3>1. \A x \in u : f[x] \in Int
      OBVIOUS
    <3> QED BY <2>2, <3>1, SumTake, SumIsInt
  <2>4. SumFunctionOnSet(g, u) = g[z] + SumFunctionOnSet(g, w) /\ SumFunctionOnSet(g, w) \in Int /\ g[z] \in Int
    <3>1. \A x \in u : g[x] \in Int
      OBVIOUS
    <3> QED BY <2>2, <3>1, SumTake, SumIsInt
  <2>5. Cardinality(u) = Cardinality(w) + 1 /\ Cardinality(w) \in Nat /\ f[z] <= g[z] + c
    <3>1. Cardinality(w) = Cardinality(u) - 1 /\ Cardinality(u) \in Nat /\ Cardinality(w) \in Nat
      BY <2>2, FS_RemoveElement, FS_CardinalityType
    <3> HIDE DEF w
    <3> QED BY <3>1
  <2>6. (Cardinality(w) + 1) * c = Cardinality(w) * c + c /\ Cardinality(w) * c \in Int
    <3> HIDE DEF w
    <3> QED BY <2>5
  <2> HIDE DEF w
  <2>7. SumFunctionOnSet(f, u) <= SumFunctionOnSet(g, u) + Cardinality(u) * c
    BY <2>1, <2>3, <2>4, <2>5, <2>6
  <2> QED BY <2>7
<1>3. S \in G
  <2> HIDE DEF G
  <2> QED BY <1>1, <1>2, SetInduction
<1> QED BY <1>3

\* A sum of natural numbers.
THEOREM SumIsNat ==
  ASSUME NEW S, IsFiniteSet(S), NEW f, \A x \in S : f[x] \in Nat
  PROVE  SumFunctionOnSet(f, S) \in Nat
<1> DEFINE G == {u \in SUBSET S : SumFunctionOnSet(f, u) \in Nat}
<1>1. {} \in G
  BY SumOfNone
<1>2. ASSUME NEW u \in SUBSET S, NEW z \in u, u \ {z} \in G PROVE u \in G
  <2> DEFINE w == u \ {z}
  <2>1. SumFunctionOnSet(f, w) \in Nat
    BY <1>2
  <2>2. IsFiniteSet(u) /\ IsFiniteSet(w)
    BY FS_Subset
  <2>3. SumFunctionOnSet(f, u) = f[z] + SumFunctionOnSet(f, w) /\ SumFunctionOnSet(f, w) \in Int /\ f[z] \in Int
    <3>1. \A x \in u : f[x] \in Int
      OBVIOUS
    <3> QED BY <2>2, <3>1, SumTake, SumIsInt
  <2>4. f[z] \in Nat
    OBVIOUS
  <2> HIDE DEF w
  <2>5. SumFunctionOnSet(f, u) \in Nat
    BY <2>1, <2>3, <2>4
  <2> QED BY <2>5
<1>3. S \in G
  <2> HIDE DEF G
  <2> QED BY <1>1, <1>2, SetInduction
<1> QED BY <1>3

\* The sum over two parts.
THEOREM SumOfParts ==
  ASSUME NEW S, IsFiniteSet(S), NEW T, IsFiniteSet(T), S \cap T = {}, NEW f,
         \A x \in S \cup T : f[x] \in Int
  PROVE  SumFunctionOnSet(f, S \cup T) = SumFunctionOnSet(f, S) + SumFunctionOnSet(f, T)
<1> DEFINE G == {u \in SUBSET S : SumFunctionOnSet(f, u \cup T) = SumFunctionOnSet(f, u) + SumFunctionOnSet(f, T)}
<1>1. {} \in G
  <2>1. SumFunctionOnSet(f, {}) = 0 /\ SumFunctionOnSet(f, T) \in Int
    BY SumOfNone, SumIsInt
  <2>2. SumFunctionOnSet(f, {} \cup T) = SumFunctionOnSet(f, T)
    <3>1. {} \cup T = T
      OBVIOUS
    <3> QED BY <3>1
  <2> QED BY <2>1, <2>2
<1>2. ASSUME NEW u \in SUBSET S, NEW z \in u, u \ {z} \in G PROVE u \in G
  <2> DEFINE w == u \ {z}
  <2>1. SumFunctionOnSet(f, w \cup T) = SumFunctionOnSet(f, w) + SumFunctionOnSet(f, T)
    BY <1>2
  <2>2. IsFiniteSet(u) /\ IsFiniteSet(w)
    BY FS_Subset
  <2>3. SumFunctionOnSet(f, u) = f[z] + SumFunctionOnSet(f, w) /\ SumFunctionOnSet(f, w) \in Int /\ f[z] \in Int
    <3>1. \A x \in u : f[x] \in Int
      OBVIOUS
    <3> QED BY <2>2, <3>1, SumTake, SumIsInt
  <2>4. SumFunctionOnSet(f, u \cup T) = f[z] + SumFunctionOnSet(f, w \cup T)
    <3>1. IsFiniteSet(u \cup T) /\ z \in u \cup T /\ (u \cup T) \ {z} = w \cup T
      BY <2>2, FS_Union
    <3>2. \A x \in u \cup T : f[x] \in Int
      OBVIOUS
    <3> HIDE DEF w
    <3> QED BY <3>1, <3>2, SumTake
  <2>5. SumFunctionOnSet(f, T) \in Int
    BY SumIsInt
  <2> HIDE DEF w
  <2>6. SumFunctionOnSet(f, u \cup T) = SumFunctionOnSet(f, u) + SumFunctionOnSet(f, T)
    BY <2>1, <2>3, <2>4, <2>5
  <2> QED BY <2>6
<1>3. S \in G
  <2> HIDE DEF G
  <2> QED BY <1>1, <1>2, SetInduction
<1> QED BY <1>3

\* What the function h makes of S.
Reached(h, S) == {h[x] : x \in S}

\* The sum over the members that another set gives their names.
THEOREM SumOfImage ==
  ASSUME NEW S, IsFiniteSet(S), NEW h, NEW f, NEW g,
         \A x \in S : g[x] \in Int /\ f[h[x]] = g[x],
         \A x, y \in S : h[x] = h[y] => x = y
  PROVE  IsFiniteSet(Reached(h, S)) /\ SumFunctionOnSet(f, Reached(h, S)) = SumFunctionOnSet(g, S)
<1> DEFINE G == {u \in SUBSET S : IsFiniteSet(Reached(h, u)) /\ SumFunctionOnSet(f, Reached(h, u)) = SumFunctionOnSet(g, u)}
<1>1. {} \in G
  <2>1. Reached(h, {}) = {}
    BY DEF Reached
  <2>2. IsFiniteSet(Reached(h, {})) /\ SumFunctionOnSet(f, Reached(h, {})) = 0
    BY <2>1, SumOfNone, FS_EmptySet
  <2> QED BY <2>2, SumOfNone
<1>2. ASSUME NEW u \in SUBSET S, NEW z \in u, u \ {z} \in G PROVE u \in G
  <2> DEFINE w == u \ {z}
  <2>1. IsFiniteSet(Reached(h, w)) /\ SumFunctionOnSet(f, Reached(h, w)) = SumFunctionOnSet(g, w)
    BY <1>2
  <2>2. IsFiniteSet(u) /\ IsFiniteSet(w)
    BY FS_Subset
  <2>3. SumFunctionOnSet(g, u) = g[z] + SumFunctionOnSet(g, w) /\ SumFunctionOnSet(g, w) \in Int /\ g[z] \in Int
    <3>1. \A x \in u : g[x] \in Int
      OBVIOUS
    <3> QED BY <2>2, <3>1, SumTake, SumIsInt
  <2>4. Reached(h, w) = Reached(h, u) \ {h[z]} /\ Reached(h, u) = Reached(h, w) \cup {h[z]}
    BY DEF Reached
  <2>5. IsFiniteSet(Reached(h, u))
    <3> DEFINE U == Reached(h, w)
    <3>1. IsFiniteSet(U \cup {h[z]})
      <4>1. IsFiniteSet(U)
        BY <2>1
      <4> HIDE DEF U
      <4> QED BY <4>1, FS_AddElement
    <3> QED BY <2>4, <3>1
  <2>6. SumFunctionOnSet(f, Reached(h, u)) = f[h[z]] + SumFunctionOnSet(f, Reached(h, w))
    <3>1. h[z] \in Reached(h, u) /\ \A t \in Reached(h, u) : f[t] \in Int
      BY DEF Reached
    <3> DEFINE T == Reached(h, u)
               U == Reached(h, w)
    <3>2. IsFiniteSet(T) /\ U = T \ {h[z]} /\ h[z] \in T /\ \A t \in T : f[t] \in Int
      BY <2>4, <2>5, <3>1
    <3>3. SumFunctionOnSet(f, T) = f[h[z]] + SumFunctionOnSet(f, U)
      <4> HIDE DEF T, U
      <4> QED BY <3>2, SumTake
    <3> QED BY <3>3
  <2>7. f[h[z]] = g[z]
    OBVIOUS
  <2> HIDE DEF w
  <2>8. IsFiniteSet(Reached(h, u)) /\ SumFunctionOnSet(f, Reached(h, u)) = SumFunctionOnSet(g, u)
    BY <2>1, <2>3, <2>4, <2>5, <2>6, <2>7
  <2> QED BY <2>8
<1>3. S \in G
  <2> HIDE DEF G
  <2> QED BY <1>1, <1>2, SetInduction
<1> QED BY <1>3

\* A function reaches finitely many values from a finite set.
THEOREM ReachedIsFinite ==
  ASSUME NEW S, IsFiniteSet(S), NEW h
  PROVE  IsFiniteSet(Reached(h, S))
<1> DEFINE G == {u \in SUBSET S : IsFiniteSet(Reached(h, u))}
<1>1. {} \in G
  <2>1. Reached(h, {}) = {}
    BY DEF Reached
  <2> QED BY <2>1, FS_EmptySet
<1>2. ASSUME NEW u \in SUBSET S, NEW z \in u, u \ {z} \in G PROVE u \in G
  <2>1. Reached(h, u) = Reached(h, u \ {z}) \cup {h[z]}
    BY DEF Reached
  <2>2. IsFiniteSet(Reached(h, u \ {z}))
    BY <1>2
  <2> QED BY <2>1, <2>2, FS_AddElement
<1>3. S \in G
  <2> HIDE DEF G
  <2> QED BY <1>1, <1>2, SetInduction
<1> QED BY <1>3

\* Adding up a table, m by rows and c by columns.
Table(m, c, S, T) == \A x \in S : \A y \in T : m[x][y] \in Int /\ c[y][x] = m[x][y]
Totals(a, m, S, T) == \A x \in S : a[x] = SumFunctionOnSet(m[x], T)

\* What a table adds up to by rows, it adds up to by columns.
THEOREM SumByRowsAndColumns ==
  ASSUME NEW S, IsFiniteSet(S), NEW T, IsFiniteSet(T), NEW m, NEW c, NEW a, NEW b,
         Table(m, c, S, T), Totals(a, m, S, T), Totals(b, c, T, S)
  PROVE  SumFunctionOnSet(a, S) = SumFunctionOnSet(b, T)
<1>0. /\ \A x \in S : \A y \in T : m[x][y] \in Int /\ c[y][x] = m[x][y]
      /\ \A x \in S : a[x] = SumFunctionOnSet(m[x], T)
      /\ \A y \in T : b[y] = SumFunctionOnSet(c[y], S)
  BY DEF Table, Totals
<1> USE <1>0
<1> DEFINE Column(u) == [y \in T |-> SumFunctionOnSet(c[y], u)]
           G == {u \in SUBSET S : SumFunctionOnSet(a, u) = SumFunctionOnSet(Column(u), T)}
<1>1. {} \in G
  <2> DEFINE f == Column({})
  <2>1. \A y \in T : f[y] = 0
    BY SumOfNone
  <2>2. SumFunctionOnSet(f, T) = Cardinality(T) * 0 /\ Cardinality(T) \in Nat
    <3> HIDE DEF f
    <3> QED BY <2>1, SumOfAlike, FS_CardinalityType
  <2>3. SumFunctionOnSet(f, T) = 0
    <3> HIDE DEF f
    <3> QED BY <2>2
  <2> QED BY <2>3, SumOfNone
<1>2. ASSUME NEW u \in SUBSET S, NEW z \in u, u \ {z} \in G PROVE u \in G
  <2> DEFINE w == u \ {z}
             f == Column(u)
             g == Column(w)
  <2>1. SumFunctionOnSet(a, w) = SumFunctionOnSet(g, T)
    BY <1>2
  <2>2. IsFiniteSet(u) /\ IsFiniteSet(w) /\ w \subseteq S
    BY FS_Subset
  <2>3. \A y \in T : m[z][y] \in Int /\ g[y] \in Int /\ f[y] = m[z][y] + g[y]
    <3> SUFFICES ASSUME NEW y \in T PROVE m[z][y] \in Int /\ g[y] \in Int /\ f[y] = m[z][y] + g[y]
      OBVIOUS
    <3>1. \A x \in u : c[y][x] \in Int
      OBVIOUS
    <3>2. SumFunctionOnSet(c[y], u) = c[y][z] + SumFunctionOnSet(c[y], w) /\ SumFunctionOnSet(c[y], w) \in Int
      BY <2>2, <3>1, SumTake, SumIsInt
    <3>3. f[y] = SumFunctionOnSet(c[y], u) /\ g[y] = SumFunctionOnSet(c[y], w)
      OBVIOUS
    <3> HIDE DEF f, g, w
    <3> QED BY <3>2, <3>3
  <2>4. SumFunctionOnSet(f, T) = SumFunctionOnSet(m[z], T) + SumFunctionOnSet(g, T)
    <3> HIDE DEF f, g
    <3> QED BY <2>3, SumPlus
  <2>5. \A x \in S : a[x] \in Int
    BY SumIsInt
  <2>6. SumFunctionOnSet(a, u) = a[z] + SumFunctionOnSet(a, w)
    <3>1. \A x \in u : a[x] \in Int
      BY <2>5
    <3> QED BY <2>2, <3>1, SumTake
  <2>7. a[z] = SumFunctionOnSet(m[z], T)
    OBVIOUS
  <2>8. SumFunctionOnSet(a, u) = SumFunctionOnSet(f, T)
    <3> HIDE DEF f, g, w
    <3> QED BY <2>1, <2>4, <2>6, <2>7
  <2> QED BY <2>8
<1>3. S \in G
  <2> HIDE DEF G
  <2> QED BY <1>1, <1>2, SetInduction
<1> DEFINE f == Column(S)
<1>4. SumFunctionOnSet(a, S) = SumFunctionOnSet(f, T)
  BY <1>3
<1>5. \A y \in T : f[y] \in Int /\ f[y] = b[y]
  BY SumIsInt
<1>6. SumFunctionOnSet(f, T) = SumFunctionOnSet(b, T)
  <2> HIDE DEF f
  <2> QED BY <1>5, SumSame
<1> QED BY <1>4, <1>6

-----------------------------------------------------------------------------
\* The sum of a sequence, and of two put together.
LEMMA Positions ==
  ASSUME NEW s, NEW n \in Nat, DOMAIN s = 1 .. n
  PROVE  IsFiniteSet(DOMAIN s)
  BY FS_Interval

\* h is f along s and then g along t.
OneAfterTheOther(f, s, g, t, h) ==
  /\ DOMAIN f = DOMAIN s /\ DOMAIN g = DOMAIN t /\ DOMAIN h = DOMAIN (s \o t)
  /\ \A k \in DOMAIN s : f[k] \in Int /\ h[k] = f[k]
  /\ \A k \in DOMAIN t : g[k] \in Int /\ h[Len(s) + k] = g[k]

\* The sum over a joined sequence is the sum over its two parts.
THEOREM SumOfJoined ==
  ASSUME NEW S, NEW T, NEW s \in Seq(S), NEW t \in Seq(T), NEW f, NEW g, NEW h,
         OneAfterTheOther(f, s, g, t, h)
  PROVE  SumFunction(h) = SumFunction(f) + SumFunction(g)
<1> DEFINE m == Len(s)
           n == Len(t)
           A == 1 .. m
           B == m + 1 .. m + n
           shift == [k \in 1 .. n |-> m + k]
<1>1. m \in Nat /\ n \in Nat /\ DOMAIN f = A /\ DOMAIN g = 1 .. n /\ DOMAIN h = 1 .. m + n
  BY DEF OneAfterTheOther
<1>2. DOMAIN h = A \cup B /\ A \cap B = {} /\ IsFiniteSet(A) /\ IsFiniteSet(B) /\ IsFiniteSet(1 .. n)
  <2>1. 1 .. m + n = A \cup B /\ A \cap B = {}
    BY <1>1
  <2>2. IsFiniteSet(A) /\ IsFiniteSet(B) /\ IsFiniteSet(1 .. n)
    BY <1>1, FS_Interval
  <2> QED BY <1>1, <2>1, <2>2
<1>3. B = Reached(shift, 1 .. n)
  <2>1. ASSUME NEW k \in B PROVE k \in {shift[l] : l \in 1 .. n}
    <3>1. k - m \in 1 .. n /\ k = m + (k - m)
      BY <1>1
    <3> QED BY <3>1
  <2>2. ASSUME NEW k \in 1 .. n PROVE shift[k] \in B
    BY <1>1
  <2> QED BY <2>1, <2>2 DEF Reached
<1>4. \A k \in 1 .. n : g[k] \in Int /\ h[shift[k]] = g[k]
  BY <1>1 DEF OneAfterTheOther
<1>5. \A k, l \in 1 .. n : shift[k] = shift[l] => k = l
  BY <1>1
<1>6. SumFunctionOnSet(h, B) = SumFunctionOnSet(g, 1 .. n)
  <2> DEFINE R == 1 .. n
  <2>1. IsFiniteSet(R) /\ (\A k \in R : g[k] \in Int /\ h[shift[k]] = g[k]) /\ \A k, l \in R : shift[k] = shift[l] => k = l
    BY <1>2, <1>4, <1>5
  <2>2. SumFunctionOnSet(h, Reached(shift, R)) = SumFunctionOnSet(g, R)
    <3> HIDE DEF shift, B, R
    <3> QED BY <2>1, SumOfImage
  <2> QED BY <1>3, <2>2
<1>7. \A k \in A : f[k] \in Int /\ f[k] = h[k]
  BY <1>1 DEF OneAfterTheOther
<1>8. SumFunctionOnSet(f, A) = SumFunctionOnSet(h, A)
  <2> HIDE DEF A
  <2> QED BY <1>2, <1>7, SumSame
<1>9. \A k \in A \cup B : h[k] \in Int
  <2>1. \A k \in A : h[k] \in Int
    BY <1>7
  <2>2. \A k \in B : h[k] \in Int
    <3> HIDE DEF B, shift
    <3> QED BY <1>3, <1>4 DEF Reached
  <2> QED BY <2>1, <2>2
<1>10. SumFunctionOnSet(h, A \cup B) = SumFunctionOnSet(h, A) + SumFunctionOnSet(h, B)
  <2> HIDE DEF A, B
  <2> QED BY <1>2, <1>9, SumOfParts
<1> HIDE DEF A, B
<1> QED BY <1>1, <1>2, <1>6, <1>8, <1>10 DEF SumFunction

\* The members of a finite set, one after the other.
THEOREM SetInASequence ==
  ASSUME NEW S, IsFiniteSet(S)
  PROVE  /\ SetToSeq(S) \in Seq(S)
         /\ DOMAIN SetToSeq(S) = 1 .. Cardinality(S)
         /\ \A k, l \in DOMAIN SetToSeq(S) : SetToSeq(S)[k] = SetToSeq(S)[l] => k = l
         /\ S = Reached(SetToSeq(S), DOMAIN SetToSeq(S))
<1> DEFINE n == Cardinality(S)
<1>1. n \in Nat /\ IsFiniteSet(1 .. n) /\ Cardinality(1 .. n) = n
  BY FS_CardinalityType, FS_Interval
<1>2. PICK b : b \in Bijection(1 .. n, S)
  BY FS_CardinalityType DEF ExistsBijection
<1>3. b \in [1 .. n -> S] /\ IsInjective(b)
  BY <1>2 DEF Bijection, Injection, IsInjective
<1>4. SetToSeq(S) \in [1 .. n -> S] /\ IsInjective(SetToSeq(S))
  <2> HIDE DEF n
  <2> QED BY <1>3 DEF SetToSeq, n
<1> DEFINE q == SetToSeq(S)
<1> HIDE DEF q
<1>5. q \in [1 .. n -> S] /\ \A k, l \in 1 .. n : q[k] = q[l] => k = l
  BY <1>4 DEF IsInjective, q
<1>6. q \in Seq(S) /\ DOMAIN q = 1 .. n
  BY <1>1, <1>5
<1>7. q \in Injection(1 .. n, S)
  BY <1>4 DEF Injection, IsInjective, q
<1>8. q \in Surjection(1 .. n, S)
  <2> HIDE DEF n
  <2> QED BY <1>1, <1>7, FS_Injection DEF n
<1>9. S = Reached(q, 1 .. n)
  BY <1>5, <1>8 DEF Surjection, Reached
<1> QED BY <1>5, <1>6, <1>9 DEF q
-----------------------------------------------------------------------------
(***************************************************************************)
(* Sequences put together from parts (FlattenSeq): all is what is joined   *)
(* after the last of them, at[k] how long it is after the k-th.            *)
(***************************************************************************)
Joins(it, ss, S) ==
  /\ it \in [0 .. Len(ss) -> Seq(S)]
  /\ it[0] = <<>>
  /\ \A k \in 1 .. Len(ss) : it[k] = it[k - 1] \o ss[k]

\* FlattenSeq joins one part after the other.
THEOREM Flattening ==
  ASSUME NEW S, NEW ss \in Seq(Seq(S))
  PROVE  \E it : Joins(it, ss, S) /\ FlattenSeq(ss) = it[Len(ss)]
<1> DEFINE n == Len(ss)
           F == [p \in Seq(S) \X (1 .. n) |-> p[1] \o ss[p[2]]]
<1>1. n \in Nat /\ DOMAIN ss = 1 .. n /\ \A k \in 1 .. n : ss[k] \in Seq(S)
  OBVIOUS
<1>2. F \in [Seq(S) \X (1 .. n) -> Seq(S)]
  BY <1>1
<1>3. <<>> \in Seq(S)
  OBVIOUS
<1>4. PICK jt : FoldsLeft(jt, n, Seq(S), <<>>, F)
  <2> HIDE DEF F
  <2> QED BY <1>1, <1>2, <1>3, LeftFold
<1> DEFINE it == [k \in 0 .. n |-> jt[1 .. k]]
<1>5. it[0] = <<>>
  <2>1. 1 .. 0 = {}
    OBVIOUS
  <2>2. jt[{}] = <<>>
    BY <1>4 DEF FoldsLeft
  <2> QED BY <1>1, <2>1, <2>2
<1>6. ASSUME NEW k \in 0 .. n PROVE it[k] \in Seq(S)
  <2>1. 1 .. k \in SUBSET (1 .. n)
    BY <1>1
  <2>2. jt[1 .. k] \in Seq(S)
    <3> HIDE DEF F
    <3> QED BY <1>4, <2>1 DEF FoldsLeft
  <2> QED BY <2>2
<1>7. ASSUME NEW k \in 1 .. n PROVE it[k] = it[k - 1] \o ss[k]
  <2>1. k \in 0 .. n /\ k - 1 \in 0 .. n
    BY <1>1
  <2>2. jt[1 .. k] = F[<<jt[1 .. k - 1], k>>]
    <3> HIDE DEF F
    <3> QED BY <1>4 DEF FoldsLeft
  <2>3. jt[1 .. k - 1] \in Seq(S)
    BY <1>6, <2>1
  <2>4. F[<<jt[1 .. k - 1], k>>] = jt[1 .. k - 1] \o ss[k]
    BY <2>3
  <2> QED BY <2>1, <2>2, <2>4
<1> HIDE DEF it
<1>8. it \in [0 .. n -> Seq(S)]
  <2>1. it = [k \in 0 .. n |-> it[k]]
    BY DEF it
  <2> QED BY <1>6, <2>1
<1>9. Joins(it, ss, S)
  BY <1>5, <1>7, <1>8 DEF Joins
<1>10. CASE n = 0
  <2>1. ss = <<>>
    BY <1>10
  <2>2. FlattenSeq(ss) = <<>>
    BY <1>10, <2>1 DEF FlattenSeq
  <2> QED BY <1>5, <1>9, <1>10, <2>2
<1>11. CASE n # 0
  <2> DEFINE D == 1 .. n
             body(f) == [i \in D |-> IF i = 1 THEN ss[i] ELSE f[i - 1] \o ss[i]]
             fl == CHOOSE f : f = body(f)
             g == [i \in D |-> it[i]]
  <2>1. g = body(g)
    <3>1. ASSUME NEW i \in D PROVE g[i] = body(g)[i]
      <4>1. it[i] = it[i - 1] \o ss[i] /\ ss[i] \in Seq(S)
        BY <1>1, <1>7
      <4>2. CASE i = 1
        <5>1. it[i] = <<>> \o ss[i]
          <6>1. i - 1 = 0
            BY <4>2
          <6> QED BY <1>5, <4>1, <6>1
        <5>2. <<>> \o ss[i] = ss[i]
          BY <4>1, ConcatEmptySeq
        <5> QED BY <4>2, <5>1, <5>2
      <4>3. CASE i # 1
        <5>1. i - 1 \in D
          BY <1>1, <4>3
        <5> QED BY <4>1, <4>3, <5>1
      <4> QED BY <4>2, <4>3
    <3> QED BY <3>1
  <2>2. fl = body(fl)
    <3> HIDE DEF body
    <3> QED BY <2>1
  <2>3. FlattenSeq(ss) = fl[n]
    BY <1>11, Zenon DEF FlattenSeq
  <2>4. \A k \in Nat : k \in D => fl[k] = it[k]
    <3> DEFINE G == {k \in Nat : k \in D => fl[k] = it[k]}
    <3>1. 0 \in G
      OBVIOUS
    <3>2. ASSUME NEW k \in Nat, k \in G PROVE k + 1 \in G
      <4> DEFINE m == k + 1
      <4> SUFFICES ASSUME m \in D PROVE fl[m] = it[m]
        OBVIOUS
      <4>1. m \in D /\ m = k + 1
        OBVIOUS
      <4> HIDE DEF m
      <4>2. it[m] = it[k] \o ss[m] /\ ss[m] \in Seq(S)
        <5>1. m - 1 = k
          BY <4>1
        <5> QED BY <1>1, <1>7, <4>1, <5>1
      <4>3. fl[m] = IF m = 1 THEN ss[m] ELSE fl[k] \o ss[m]
        <5>1. m - 1 = k
          BY <4>1
        <5>2. fl[m] = IF m = 1 THEN ss[m] ELSE fl[m - 1] \o ss[m]
          <6> HIDE DEF fl, D
          <6> QED BY <2>2, <4>1
        <5> HIDE DEF fl, D
        <5> QED BY <5>1, <5>2
      <4>4. CASE k = 0
        <5>1. it[m] = <<>> \o ss[m]
          BY <1>5, <4>2, <4>4
        <5>2. <<>> \o ss[m] = ss[m]
          BY <4>2, ConcatEmptySeq
        <5>3. m = 1
          BY <4>1, <4>4
        <5> HIDE DEF fl, D
        <5> QED BY <4>3, <5>1, <5>2, <5>3
      <4>5. CASE k # 0
        <5>1. k \in D /\ m # 1
          BY <1>1, <4>1, <4>5
        <5>2. fl[k] = it[k]
          <6> HIDE DEF fl, D
          <6> QED BY <3>2, <5>1
        <5> HIDE DEF fl, D
        <5> QED BY <4>2, <4>3, <5>1, <5>2
      <4> QED BY <4>4, <4>5
    <3> HIDE DEF G
    <3>3. \A k \in Nat : k \in G
      BY <3>1, <3>2, NumberInduction
    <3> QED BY <3>3 DEF G
  <2>5. fl[n] = it[n]
    <3>1. n \in Nat /\ n \in D
      BY <1>1, <1>11
    <3> HIDE DEF fl, D
    <3> QED BY <2>4, <3>1
  <2> QED BY <1>9, <2>3, <2>5
<1> QED BY <1>10, <1>11
\* at[k] is where the k-th part of ss ends.
Laid(at, ss) ==
  /\ at \in [0 .. Len(ss) -> Nat]
  /\ at[0] = 0
  /\ \A k \in 1 .. Len(ss) : at[k] = at[k - 1] + Len(ss[k])

PartsUpto(l, all, at, ss) ==
  /\ \A k \in 1 .. l : \A j \in 1 .. Len(ss[k]) : at[k - 1] + j \in 1 .. Len(all) /\ all[at[k - 1] + j] = ss[k][j]
  /\ \A p \in 1 .. Len(all) : \E k \in 1 .. l : \E j \in 1 .. Len(ss[k]) : p = at[k - 1] + j

\* Every place of what is joined is a place of one part, and the other way round.
THEOREM FlattenPlaces ==
  ASSUME NEW S, NEW ss \in Seq(Seq(S))
  PROVE  \E at : /\ Laid(at, ss)
                 /\ FlattenSeq(ss) \in Seq(S) /\ Len(FlattenSeq(ss)) = at[Len(ss)]
                 /\ PartsUpto(Len(ss), FlattenSeq(ss), at, ss)
<1> DEFINE n == Len(ss)
<1>1. n \in Nat /\ DOMAIN ss = 1 .. n /\ \A k \in 1 .. n : ss[k] \in Seq(S)
  OBVIOUS
<1>2. PICK it : Joins(it, ss, S) /\ FlattenSeq(ss) = it[n]
  BY Flattening
<1> DEFINE at == [k \in 0 .. n |-> Len(it[k])]
<1>3. ASSUME NEW k \in 0 .. n PROVE it[k] \in Seq(S) /\ at[k] = Len(it[k]) /\ at[k] \in Nat
  <2>1. it[k] \in Seq(S)
    BY <1>2 DEF Joins
  <2>2. Len(it[k]) \in Nat
    BY <2>1, LenProperties
  <2> QED BY <2>1, <2>2
<1>4. ASSUME NEW k \in 1 .. n
      PROVE  /\ k - 1 \in 0 .. n /\ k \in 0 .. n
             /\ it[k] = it[k - 1] \o ss[k] /\ at[k] = at[k - 1] + Len(ss[k])
             /\ \A q \in 1 .. at[k] : it[k][q] = IF q <= at[k - 1] THEN it[k - 1][q] ELSE ss[k][q - at[k - 1]]
  <2>1. k - 1 \in 0 .. n /\ k \in 0 .. n
    BY <1>1
  <2>2. it[k] = it[k - 1] \o ss[k]
    BY <1>2 DEF Joins
  <2>3. it[k - 1] \in Seq(S) /\ ss[k] \in Seq(S) /\ at[k - 1] = Len(it[k - 1]) /\ at[k] = Len(it[k])
    BY <1>1, <1>3, <2>1
  <2> HIDE DEF at
  <2>4. at[k] = at[k - 1] + Len(ss[k])
    BY <2>2, <2>3, ConcatProperties
  <2>5. \A q \in 1 .. at[k] : it[k][q] = IF q <= at[k - 1] THEN it[k - 1][q] ELSE ss[k][q - at[k - 1]]
    BY <2>2, <2>3, <2>4, ConcatProperties
  <2> QED BY <2>1, <2>2, <2>4, <2>5
<1>5. Laid(at, ss)
  <2>1. at[0] = 0
    BY <1>1, <1>2 DEF Joins
  <2> QED BY <1>3, <1>4, <2>1 DEF Laid
<1> DEFINE G == {l \in Nat : l <= n => PartsUpto(l, it[l], at, ss)}
<1> HIDE DEF at
<1>6. 0 \in G
  <2>1. it[0] = <<>>
    BY <1>2 DEF Joins
  <2>2. PartsUpto(0, it[0], at, ss)
    BY <2>1 DEF PartsUpto
  <2> QED BY <2>2
<1>7. ASSUME NEW l \in Nat, l \in G PROVE l + 1 \in G
  <2> DEFINE m == l + 1
  <2>1. m \in Nat /\ m - 1 = l
    OBVIOUS
  <2> SUFFICES ASSUME m <= n PROVE PartsUpto(m, it[m], at, ss)
    OBVIOUS
  <2>2. m \in 1 .. n /\ l \in 0 .. n /\ m \in 0 .. n /\ 1 .. m = (1 .. l) \cup {m} /\ l <= n /\ \A k \in 1 .. l : k \in 1 .. n
    BY <1>1
  <2> HIDE DEF m
  <2>3. PartsUpto(l, it[l], at, ss)
    BY <1>7, <2>2
  <2>4. /\ at[m] = at[l] + Len(ss[m]) /\ at[l] \in Nat /\ at[m] \in Nat
        /\ at[l] = Len(it[l]) /\ at[m] = Len(it[m]) /\ Len(ss[m]) \in Nat
    BY <1>1, <1>3, <1>4, <2>1, <2>2
  <2> DEFINE a == at[l]
             b == at[m]
             c == Len(ss[m])
  <2>8. a \in Nat /\ b \in Nat /\ c \in Nat /\ b = a + c
    BY <2>4
  <2>9. /\ \A j \in 1 .. c : a + j \in 1 .. b /\ ~(a + j <= a) /\ a + j - a = j
        /\ \A p \in 1 .. b : p > a => p - a \in 1 .. c /\ p = a + (p - a)
        /\ \A x \in 1 .. a : x \in 1 .. b /\ x <= a
        /\ \A p \in 1 .. b : p <= a => p \in 1 .. a
    <3> HIDE DEF a, b, c
    <3> QED BY <2>8
  <2>7. \A q \in 1 .. b : it[m][q] = IF q <= a THEN it[l][q] ELSE ss[m][q - a]
    BY <1>1, <1>3, <1>4, <2>1, <2>2
  <2>5. ASSUME NEW k \in 1 .. m, NEW j \in 1 .. Len(ss[k])
        PROVE  at[k - 1] + j \in 1 .. Len(it[m]) /\ it[m][at[k - 1] + j] = ss[k][j]
    <3>1. CASE k = m
      <4>1. j \in 1 .. c
        BY <3>1
      <4> HIDE DEF a, b, c
      <4>4. a + j \in 1 .. b /\ ~(a + j <= a) /\ a + j - a = j
        BY <2>9, <4>1
      <4>5. it[m][a + j] = IF a + j <= a THEN it[l][a + j] ELSE ss[m][a + j - a]
        BY <2>7, <2>8, <4>4
      <4>3. it[m][a + j] = ss[m][j] /\ a + j \in 1 .. b
        BY <4>4, <4>5
      <4>2. it[m][at[l] + j] = ss[m][j] /\ at[l] + j \in 1 .. at[m]
        BY <4>3 DEF a, b
      <4> QED BY <2>1, <2>4, <3>1, <4>2
    <3>2. CASE k \in 1 .. l
      <4>1. at[k - 1] + j \in 1 .. at[l] /\ it[l][at[k - 1] + j] = ss[k][j]
        BY <2>3, <2>4, <3>2 DEF PartsUpto
      <4>2. at[k - 1] + j \in 1 .. at[m] /\ at[k - 1] + j <= at[l]
        BY <2>9, <4>1
      <4>3. it[m][at[k - 1] + j] = it[l][at[k - 1] + j]
        BY <2>7, <4>2
      <4> QED BY <2>4, <4>1, <4>2, <4>3
    <3> QED BY <2>2, <3>1, <3>2
  <2>6. ASSUME NEW p \in 1 .. Len(it[m]) PROVE \E k \in 1 .. m : \E j \in 1 .. Len(ss[k]) : p = at[k - 1] + j
    <3>1. CASE p <= at[l]
      <4>1. p \in 1 .. Len(it[l])
        BY <2>4, <3>1
      <4>2. PICK k \in 1 .. l : \E j \in 1 .. Len(ss[k]) : p = at[k - 1] + j
        BY <2>3, <4>1 DEF PartsUpto
      <4> QED BY <2>2, <4>2
    <3>2. CASE p > at[l]
      <4>1. p - at[l] \in 1 .. Len(ss[m]) /\ p = at[m - 1] + (p - at[l])
        BY <2>1, <2>4, <2>9, <3>2
      <4> QED BY <2>2, <4>1
    <3> QED BY <2>4, <3>1, <3>2
  <2> QED BY <2>5, <2>6 DEF PartsUpto
<1>8. PartsUpto(n, it[n], at, ss)
  <2> HIDE DEF G
  <2>1. \A l \in Nat : l \in G
    BY <1>6, <1>7, NumberInduction
  <2>2. n \in G
    BY <1>1, <2>1
  <2> QED BY <1>1, <2>2 DEF G
<1>9. FlattenSeq(ss) \in Seq(S) /\ Len(FlattenSeq(ss)) = at[n]
  <2>1. n \in 0 .. n
    BY <1>1
  <2> QED BY <1>2, <1>3, <2>1
<1> QED BY <1>2, <1>5, <1>8, <1>9

\* The places when all parts but one have one element.
THEOREM AllSingleButOne ==
  ASSUME NEW S, NEW ss \in Seq(Seq(S)), NEW k \in 1 .. Len(ss),
         \A i \in 1 .. Len(ss) : i # k => Len(ss[i]) = 1, NEW at, Laid(at, ss)
  PROVE  \A i \in 0 .. Len(ss) : at[i] = IF i < k THEN i ELSE i - 1 + Len(ss[k])
<1> DEFINE n == Len(ss)
           c == Len(ss[k])
           G == {i \in Nat : i <= n => at[i] = IF i < k THEN i ELSE i - 1 + c}
<1>1. n \in Nat /\ c \in Nat /\ k \in 1 .. n
  OBVIOUS
<1>2. at[0] = 0 /\ \A i \in 1 .. n : at[i] = at[i - 1] + Len(ss[i])
  BY DEF Laid
<1>3. 0 \in G
  BY <1>1, <1>2
<1>4. ASSUME NEW l \in Nat, l \in G PROVE l + 1 \in G
  <2> SUFFICES ASSUME l + 1 <= n PROVE at[l + 1] = IF l + 1 < k THEN l + 1 ELSE l + 1 - 1 + c
    OBVIOUS
  <2> DEFINE m == l + 1
  <2>1. m \in 1 .. n /\ m - 1 = l
    BY <1>1
  <2>2. at[m] = at[l] + Len(ss[m])
    <3> HIDE DEF m
    <3> QED BY <1>2, <2>1
  <2>3. at[l] = IF l < k THEN l ELSE l - 1 + c
    BY <1>1, <1>4
  <2>4. Len(ss[m]) = IF m = k THEN c ELSE 1
    <3> HIDE DEF m
    <3> QED BY <2>1
  <2> HIDE DEF c, n
  <2>5. at[m] = IF m < k THEN m ELSE m - 1 + c
    BY <1>1, <2>1, <2>2, <2>3, <2>4
  <2> QED BY <2>5
<1>5. \A i \in Nat : i \in G
  <2> HIDE DEF G
  <2> QED BY <1>3, <1>4, NumberInduction
<1> QED BY <1>1, <1>5

\* The sum of two sequences put together.
THEOREM SumOfTwo ==
  ASSUME NEW s \in Seq(Int), NEW t \in Seq(Int)
  PROVE  SumFunction(s \o t) = SumFunction(s) + SumFunction(t)
<1> DEFINE h == s \o t
<1>1. /\ h \in Seq(Int) /\ Len(h) = Len(s) + Len(t)
      /\ \A i \in 1 .. Len(s) + Len(t) : h[i] = IF i <= Len(s) THEN s[i] ELSE t[i - Len(s)]
  BY ConcatProperties
<1>2. Len(s) \in Nat /\ Len(t) \in Nat /\ DOMAIN s = 1 .. Len(s) /\ DOMAIN t = 1 .. Len(t)
  OBVIOUS
<1>3. \A k \in DOMAIN s : s[k] \in Int /\ h[k] = s[k]
  BY <1>1, <1>2
<1>4. ASSUME NEW k \in DOMAIN t PROVE t[k] \in Int /\ h[Len(s) + k] = t[k]
  <2>1. Len(s) + k \in 1 .. Len(s) + Len(t) /\ ~(Len(s) + k <= Len(s)) /\ Len(s) + k - Len(s) = k
    BY <1>2
  <2> QED BY <1>1, <2>1
<1>5. OneAfterTheOther(s, s, t, t, h)
  BY <1>3, <1>4 DEF OneAfterTheOther
<1> HIDE DEF h
<1>6. SumFunction(h) = SumFunction(s) + SumFunction(t)
  BY <1>5, SumOfJoined
<1> QED BY <1>6 DEF h

\* What is joined adds up to what the parts add up to.
THEOREM SumOfFlattened ==
  ASSUME NEW ss \in Seq(Seq(Int))
  PROVE  SumFunction(FlattenSeq(ss)) = SumFunction([k \in 1 .. Len(ss) |-> SumFunction(ss[k])])
<1> DEFINE n == Len(ss)
           sums == [k \in 1 .. n |-> SumFunction(ss[k])]
<1>1. n \in Nat /\ \A k \in 1 .. n : ss[k] \in Seq(Int)
  OBVIOUS
<1>2. PICK it : Joins(it, ss, Int) /\ FlattenSeq(ss) = it[n]
  BY Flattening
<1>3. \A s \in Seq(Int) : IsFiniteSet(DOMAIN s) /\ SumFunction(s) \in Int
  <2>1. ASSUME NEW s \in Seq(Int) PROVE IsFiniteSet(DOMAIN s) /\ \A x \in DOMAIN s : s[x] \in Int
    <3>1. Len(s) \in Nat /\ DOMAIN s = 1 .. Len(s)
      OBVIOUS
    <3> QED BY <3>1, FS_Interval
  <2> QED BY <2>1, SumIsInt DEF SumFunction
<1>4. \A k \in 1 .. n : sums[k] \in Int /\ sums[k] = SumFunction(ss[k])
  BY <1>1, <1>3
<1> DEFINE G == {l \in Nat : l <= n => SumFunction(it[l]) = SumFunctionOnSet(sums, 1 .. l)}
<1> HIDE DEF sums
<1>5. 0 \in G
  <2>1. it[0] = <<>> /\ DOMAIN <<>> = {} /\ 1 .. 0 = {}
    BY <1>2 DEF Joins
  <2> QED BY <2>1, SumOfNone DEF SumFunction
<1>6. ASSUME NEW l \in Nat, l \in G PROVE l + 1 \in G
  <2> DEFINE m == l + 1
  <2> SUFFICES ASSUME m <= n PROVE SumFunction(it[m]) = SumFunctionOnSet(sums, 1 .. m)
    OBVIOUS
  <2>1. m \in 1 .. n /\ m - 1 = l /\ l \in 0 .. n /\ (1 .. m) \ {m} = 1 .. l /\ m \in 1 .. m /\ \A k \in 1 .. m : k \in 1 .. n
    BY <1>1
  <2> HIDE DEF m
  <2>2. it[m] = it[l] \o ss[m] /\ it[l] \in Seq(Int) /\ ss[m] \in Seq(Int)
    BY <1>1, <1>2, <2>1 DEF Joins
  <2>3. SumFunction(it[m]) = SumFunction(it[l]) + SumFunction(ss[m])
    BY <2>2, SumOfTwo
  <2>4. SumFunction(it[l]) = SumFunctionOnSet(sums, 1 .. l)
    BY <1>1, <1>6, <2>1
  <2>5. SumFunctionOnSet(sums, 1 .. m) = sums[m] + SumFunctionOnSet(sums, 1 .. l)
    <3> DEFINE M == 1 .. m
    <3>1. IsFiniteSet(M) /\ m \in M
      BY <2>1, FS_Interval
    <3>2. \A x \in M : sums[x] \in Int
      BY <1>4, <2>1
    <3> HIDE DEF M
    <3>3. SumFunctionOnSet(sums, M) = sums[m] + SumFunctionOnSet(sums, M \ {m})
      BY <3>1, <3>2, SumTake
    <3>4. M \ {m} = 1 .. l
      BY <2>1 DEF M
    <3> HIDE DEF m
    <3>5. SumFunctionOnSet(sums, M) = sums[m] + SumFunctionOnSet(sums, 1 .. l)
      BY <3>3, <3>4
    <3> QED BY <3>5 DEF M
  <2>6. sums[m] = SumFunction(ss[m]) /\ sums[m] \in Int /\ SumFunction(it[l]) \in Int
    BY <1>3, <1>4, <2>1, <2>2
  <2> QED BY <2>1, <2>3, <2>4, <2>5, <2>6
<1>7. n \in G
  <2> HIDE DEF G
  <2> QED BY <1>1, <1>5, <1>6, NumberInduction
<1>8. DOMAIN sums = 1 .. n
  BY DEF sums
<1> QED BY <1>1, <1>2, <1>7, <1>8 DEF SumFunction, sums
\* Where one element is replaced by a part, the others keep their order.
OneReplaced(c, k, part) == [i \in DOMAIN c |-> IF i = k THEN part ELSE <<c[i]>>]
HasPart(all, S, c, k, part) ==
  /\ all \in Seq(S) /\ Len(all) = Len(c) - 1 + Len(part)
  /\ \A p \in 1 .. k - 1 : all[p] = c[p]
  /\ \A j \in 1 .. Len(part) : all[k - 1 + j] = part[j]
  /\ \A p \in k + 1 .. Len(c) : all[p - 1 + Len(part)] = c[p]
\* What is left after every item was replaced by a sequence of its own: nothing for
\* one of them, say.
THEOREM FlattenReplaced ==
  ASSUME NEW S, NEW c \in Seq(S), NEW k \in 1 .. Len(c), NEW part \in Seq(S)
  PROVE  HasPart(FlattenSeq(OneReplaced(c, k, part)), S, c, k, part)
<1> DEFINE ss == OneReplaced(c, k, part)
           all == FlattenSeq(ss)
           n == Len(c)
           m == Len(part)
<1>1. n \in Nat /\ m \in Nat /\ k \in 1 .. n /\ DOMAIN c = 1 .. n /\ \A i \in 1 .. n : c[i] \in S
  OBVIOUS
<1>2. ss \in Seq(Seq(S)) /\ Len(ss) = n /\ ss[k] = part /\ \A i \in 1 .. n : i # k => ss[i] = <<c[i]>>
  <2>1. \A i \in 1 .. n : (IF i = k THEN part ELSE <<c[i]>>) \in Seq(S)
    BY <1>1
  <2>2. ss \in [1 .. n -> Seq(S)]
    BY <1>1, <2>1 DEF OneReplaced
  <2>3. ss \in Seq(Seq(S)) /\ Len(ss) = n
    <3> HIDE DEF ss
    <3> QED BY <1>1, <2>2
  <2> QED BY <1>1, <2>3 DEF OneReplaced
<1> HIDE DEF ss
<1>3. PICK at : Laid(at, ss) /\ all \in Seq(S) /\ Len(all) = at[n] /\ PartsUpto(n, all, at, ss)
  BY <1>2, FlattenPlaces
<1> HIDE DEF all
<1>4. ASSUME NEW i \in 1 .. n, i # k PROVE Len(ss[i]) = 1 /\ 1 \in 1 .. Len(ss[i]) /\ ss[i][1] = c[i]
  <2>1. ss[i] = <<c[i]>>
    BY <1>2, <1>4
  <2> QED BY <2>1
<1>5. \A i \in 0 .. n : at[i] = IF i < k THEN i ELSE i - 1 + m
  <2>1. \A i \in 1 .. Len(ss) : i # k => Len(ss[i]) = 1
    BY <1>2, <1>4
  <2>2. k \in 1 .. Len(ss) /\ ss \in Seq(Seq(S)) /\ Laid(at, ss)
    BY <1>1, <1>2, <1>3
  <2>3. \A i \in 0 .. Len(ss) : at[i] = IF i < k THEN i ELSE i - 1 + Len(ss[k])
    BY <2>1, <2>2, AllSingleButOne
  <2> QED BY <1>2, <2>3
<1>6. Len(all) = n - 1 + m
  BY <1>1, <1>3, <1>5, SMTT(30)
<1>7. \A i \in 1 .. n : \A j \in 1 .. Len(ss[i]) : all[at[i - 1] + j] = ss[i][j]
  BY <1>3 DEF PartsUpto
<1>8. ASSUME NEW p \in 1 .. k - 1 PROVE all[p] = c[p]
  <2>1. p \in 1 .. n /\ p # k /\ p - 1 \in 0 .. n /\ p - 1 < k
    BY <1>1
  <2>2. at[p - 1] = p - 1
    BY <1>5, <2>1
  <2>3. at[p - 1] + 1 = p /\ ss[p][1] = c[p] /\ 1 \in 1 .. Len(ss[p])
    BY <1>1, <1>4, <2>1, <2>2
  <2>4. all[at[p - 1] + 1] = ss[p][1]
    BY <1>7, <2>1, <2>3
  <2> QED BY <2>3, <2>4
<1>9. ASSUME NEW j \in 1 .. m PROVE all[k - 1 + j] = part[j]
  <2>1. k - 1 \in 0 .. n /\ k - 1 < k
    BY <1>1
  <2>2. at[k - 1] = k - 1
    BY <1>5, <2>1
  <2> QED BY <1>1, <1>2, <1>7, <2>2
<1>10. ASSUME NEW p \in k + 1 .. n PROVE all[p - 1 + m] = c[p]
  <2>1. p \in 1 .. n /\ p # k /\ p - 1 \in 0 .. n /\ ~(p - 1 < k)
    BY <1>1
  <2>2. at[p - 1] = p - 1 - 1 + m
    BY <1>5, <2>1
  <2>3. at[p - 1] + 1 = p - 1 + m /\ ss[p][1] = c[p] /\ 1 \in 1 .. Len(ss[p])
    BY <1>1, <1>4, <2>1, <2>2
  <2>4. all[at[p - 1] + 1] = ss[p][1]
    BY <1>7, <2>1, <2>3
  <2> QED BY <2>3, <2>4
<1>11. HasPart(all, S, c, k, part)
  BY <1>3, <1>6, <1>8, <1>9, <1>10 DEF HasPart
<1> QED BY <1>11 DEF all, ss
\* As many copies of x as D says have so often its length and its sum.
THEOREM FlattenCopies ==
  ASSUME NEW D \in Nat, NEW x \in Seq(Int)
  PROVE  LET all == FlattenSeq([d \in 1 .. D |-> x]) IN
         all \in Seq(Int) /\ Len(all) = D * Len(x) /\ SumFunction(all) = D * SumFunction(x)
<1> DEFINE ss == [d \in 1 .. D |-> x]
           all == FlattenSeq(ss)
           c == Len(x)
           t == SumFunction(x)
<1>1. c \in Nat /\ DOMAIN x = 1 .. c /\ \A i \in 1 .. c : x[i] \in Int
  OBVIOUS
<1>2. t \in Int
  BY <1>1, FS_Interval, SumIsInt DEF SumFunction
<1>3. ss \in Seq(Seq(Int)) /\ Len(ss) = D /\ \A d \in 1 .. D : ss[d] = x
  OBVIOUS
<1> HIDE DEF ss
<1>4. PICK at : Laid(at, ss) /\ all \in Seq(Int) /\ Len(all) = at[Len(ss)]
  BY <1>3, FlattenPlaces
<1> HIDE DEF all
<1> DEFINE G == {d \in Nat : d <= D => at[d] = d * c}
<1>5. 0 \in G
  BY <1>1, <1>4 DEF Laid
<1>6. ASSUME NEW d \in Nat, d \in G PROVE d + 1 \in G
  <2> DEFINE m == d + 1
  <2> SUFFICES ASSUME m <= D PROVE at[m] = m * c
    OBVIOUS
  <2>1. m \in 1 .. D /\ m - 1 = d /\ d <= D /\ m = d + 1
    OBVIOUS
  <2> HIDE DEF m
  <2>2. at[m] = at[d] + c
    BY <1>3, <1>4, <2>1 DEF Laid
  <2>3. at[d] = d * c
    BY <1>6, <2>1
  <2>4. (d + 1) * c = d * c + c
    BY <1>1
  <2> QED BY <2>1, <2>2, <2>3, <2>4
<1> HIDE DEF G
<1>7. \A d \in Nat : d \in G
  BY <1>5, <1>6, NumberInduction
<1>8. Len(all) = D * c
  BY <1>3, <1>4, <1>7 DEF G
<1>9. SumFunction(all) = D * t
  <2> DEFINE sums == [k \in 1 .. Len(ss) |-> SumFunction(ss[k])]
             K == 1 .. D
  <2>1. SumFunction(all) = SumFunction(sums)
    BY <1>3, SumOfFlattened DEF all
  <2>2. DOMAIN sums = K /\ \A k \in K : sums[k] = t
    BY <1>3
  <2>3. IsFiniteSet(K) /\ Cardinality(K) = D
    BY FS_Interval
  <2> HIDE DEF sums, K, t
  <2>4. SumFunctionOnSet(sums, K) = Cardinality(K) * t
    BY <1>2, <2>2, <2>3, SumOfAlike
  <2> QED BY <2>1, <2>2, <2>3, <2>4 DEF SumFunction
<1> QED BY <1>4, <1>8, <1>9 DEF all, ss

-----------------------------------------------------------------------------
\* A finite set of integers has a smallest and a largest member.
THEOREM FiniteExtremes ==
  ASSUME NEW S, IsFiniteSet(S), S # {}, \A x \in S : x \in Int
  PROVE  (\E x \in S : \A y \in S : x <= y) /\ (\E x \in S : \A y \in S : x >= y)
<1> DEFINE G == {u \in SUBSET S : u # {} => (\E x \in u : \A y \in u : x <= y) /\ (\E x \in u : \A y \in u : x >= y)}
<1>1. {} \in G
  OBVIOUS
<1>2. ASSUME NEW u \in SUBSET S, NEW z \in u, u \ {z} \in G PROVE u \in G
  <2>1. z \in Int /\ \A x \in u : x \in Int
    OBVIOUS
  <2>2. CASE u \ {z} = {}
    <3>1. u = {z}
      BY <2>2
    <3> QED BY <2>1, <3>1
  <2>3. CASE u \ {z} # {}
    <3>1. PICK a \in u \ {z} : \A y \in u \ {z} : a <= y
      BY <1>2, <2>3
    <3>2. PICK b \in u \ {z} : \A y \in u \ {z} : b >= y
      BY <1>2, <2>3
    <3>3. \E x \in u : \A y \in u : x <= y
      <4>1. CASE a <= z
        BY <2>1, <3>1, <4>1
      <4>2. CASE z <= a
        <5>1. \A y \in u : z <= y
          BY <2>1, <3>1, <4>2
        <5> QED BY <5>1
      <4> QED BY <2>1, <4>1, <4>2
    <3>4. \E x \in u : \A y \in u : x >= y
      <4>1. CASE b >= z
        BY <2>1, <3>2, <4>1
      <4>2. CASE z >= b
        <5>1. \A y \in u : z >= y
          BY <2>1, <3>2, <4>2
        <5> QED BY <5>1
      <4> QED BY <2>1, <4>1, <4>2
    <3> QED BY <3>3, <3>4
  <2> QED BY <2>2, <2>3
<1>3. S \in G
  <2> HIDE DEF G
  <2> QED BY <1>1, <1>2, SetInduction
<1> QED BY <1>3

\* A mean, rounded down, lies between the smallest and the largest number.
THEOREM MeanWithin ==
  ASSUME NEW S, IsFiniteSet(S), S # {}, NEW f, NEW a \in Int, NEW b \in Int,
         \A x \in S : f[x] \in Int /\ a <= f[x] /\ f[x] <= b
  PROVE  LET mean == SumFunctionOnSet(f, S) \div Cardinality(S) IN mean \in Int /\ a <= mean /\ mean <= b
<1> DEFINE n == Cardinality(S)
           t == SumFunctionOnSet(f, S)
           low == [x \in S |-> a]
           high == [x \in S |-> b]
<1>1. n \in Nat /\ n # 0
  BY FS_CardinalityType, FS_EmptySet
<1>2. t \in Int
  BY SumIsInt
<1>3. n * a <= t
  <2>1. SumFunctionOnSet(low, S) = n * a
    BY SumOfAlike
  <2>2. SumFunctionOnSet(low, S) <= t
    <3>1. \A x \in S : low[x] \in Int /\ f[x] \in Int /\ low[x] <= f[x]
      OBVIOUS
    <3> HIDE DEF low
    <3> QED BY <3>1, SumAtMost
  <2> QED BY <2>1, <2>2
<1>4. t <= n * b
  <2>1. SumFunctionOnSet(high, S) = n * b
    BY SumOfAlike
  <2>2. t <= SumFunctionOnSet(high, S)
    <3>1. \A x \in S : high[x] \in Int /\ f[x] \in Int /\ f[x] <= high[x]
      OBVIOUS
    <3> HIDE DEF high
    <3> QED BY <3>1, SumAtMost
  <2> QED BY <2>1, <2>2
<1> HIDE DEF n, t
<1> DEFINE q == t \div n
<1>5. q \in Int /\ n * q <= t /\ t < n * (q + 1)
  BY <1>1, <1>2
<1> HIDE DEF q
<1>6. a <= q
  <2>1. n * a < n * (q + 1)
    BY <1>1, <1>2, <1>3, <1>5
  <2>2. a < q + 1
    BY <1>1, <1>5, <2>1
  <2> QED BY <1>5, <2>2
<1>7. q <= b
  <2>1. n * q <= n * b
    BY <1>1, <1>2, <1>4, <1>5
  <2> QED BY <1>1, <1>5, <2>1
<1> QED BY <1>5, <1>6, <1>7 DEF q, n, t

-----------------------------------------------------------------------------
(***************************************************************************)
(* A total that is spread without a rest: over the places of a day by      *)
(* weights, over days that are alike, and over parts that follow each      *)
(* other.                                                                  *)
(***************************************************************************)
\* What is divided without a rest.
THEOREM Exact == ASSUME NEW q \in Int, NEW d \in Nat, d # 0 PROVE (q * d) \div d = q
<1> DEFINE t == q * d
           z == t \div d
<1>1. t \in Int /\ z \in Int /\ d * z <= t /\ t < d * (z + 1)
  OBVIOUS
<1>2. t = d * q
  OBVIOUS
<1> HIDE DEF t, z
<1>3. z <= q
  BY <1>1, <1>2
<1>4. q < z + 1
  BY <1>1, <1>2
<1> QED BY <1>1, <1>3, <1>4 DEF t, z

\* A number that leaves no rest is a multiple.
THEOREM Divides == ASSUME NEW a \in Int, NEW d \in Nat, d # 0, a % d = 0 PROVE \E q \in Int : a = q * d
  OBVIOUS

\* The sum of the first members of a sequence.
THEOREM SumOfFirst ==
  ASSUME NEW s \in Seq(Int), NEW k \in 0 .. Len(s)
  PROVE  SumFunction(SubSeq(s, 1, k)) = SumFunctionOnSet(s, 1 .. k)
<1> DEFINE t == SubSeq(s, 1, k)
<1>1. Len(s) \in Nat /\ DOMAIN s = 1 .. Len(s) /\ k \in Nat
  OBVIOUS
<1>2. \A i \in 1 .. k : s[i] \in Int
  BY <1>1
<1>3. t \in Seq(Int) /\ Len(t) = k /\ \A i \in 1 .. k : t[i] = s[i]
  <2>1. /\ t \in Seq(Int) /\ Len(t) = IF 1 <= k THEN k - 1 + 1 ELSE 0
        /\ \A i \in 1 .. k - 1 + 1 : t[i] = s[1 + i - 1]
    BY <1>1, <1>2, SubSeqProperties
  <2> HIDE DEF t
  <2> QED BY <1>1, <2>1
<1> HIDE DEF t
<1>4. DOMAIN t = 1 .. k
  BY <1>3
<1>5. SumFunctionOnSet(t, 1 .. k) = SumFunctionOnSet(s, 1 .. k)
  <2>1. IsFiniteSet(1 .. k)
    BY <1>1, FS_Interval
  <2>2. \A i \in 1 .. k : t[i] = s[i] /\ t[i] \in Int
    BY <1>2, <1>3
  <2> QED BY <2>1, <2>2, SumSame
<1> QED BY <1>4, <1>5 DEF SumFunction, t

\* Where two products agree, the factors do.
LEMMA Cancelled == ASSUME NEW a \in Int, NEW b \in Int, NEW w \in Nat, w # 0, a * w = b * w PROVE a = b
<1>1. (a * w) \div w = a /\ (b * w) \div w = b
  BY Exact
<1> QED BY <1>1

\* What is spread by the weights u, which come to w, over c days that are alike
\* is spread whole.
ByWeight(u, a, b) == [h \in 1 .. Len(u) |-> (a * u[h]) \div b]
Divided(u, a, b) == \A h \in DOMAIN u : (a * u[h]) % b = 0
WholeIn(part, u, a, b, c) ==
  /\ part \in Seq(Int) /\ Len(part) = Len(u)
  /\ \A h \in 1 .. Len(u) : b * part[h] = a * u[h]
  /\ c * SumFunction(part) = a
\* A quantity that is spread by weights which divide it adds up to itself.
THEOREM SpreadByWeights ==
  ASSUME NEW u \in Seq(Int), NEW a \in Int, NEW c \in Nat \ {0}, NEW w \in Nat \ {0}, NEW b,
         SumFunction(u) = w, b = c * w, Divided(u, a, b)
  PROVE  WholeIn(ByWeight(u, a, b), u, a, b, c)
<1> DEFINE n == Len(u)
           part == ByWeight(u, a, b)
           whole == [h \in 1 .. n |-> a * u[h]]
           t == SumFunctionOnSet(part, 1 .. n)
<1>0. b \in Nat /\ b # 0 /\ b \in Int
  OBVIOUS
<1>1. n \in Nat /\ DOMAIN u = 1 .. n /\ (\A h \in 1 .. n : u[h] \in Int)
  OBVIOUS
<1>2. ASSUME NEW h \in 1 .. n PROVE part[h] \in Int /\ whole[h] = b * part[h] /\ whole[h] = a * u[h] /\ whole[h] \in Int
  <2> DEFINE p == a * u[h]
  <2>1. p \in Int /\ p % b = 0
    <3>1. u[h] \in Int
      BY <1>1
    <3>2. (a * u[h]) % b = 0
      BY <1>1 DEF Divided
    <3>3. p \in Int
      BY <3>1
    <3> QED BY <3>2, <3>3
  <2>2. part[h] = p \div b /\ whole[h] = p
    BY DEF ByWeight
  <2> HIDE DEF p, part, whole
  <2>3. PICK q \in Int : p = q * b
    BY <1>0, <2>1, Divides
  <2>4. part[h] = q
    BY <1>0, <2>2, <2>3, Exact
  <2>5. whole[h] = b * part[h] /\ part[h] \in Int
    <3>1. q * b = b * q
      BY <1>0
    <3> QED BY <2>2, <2>3, <2>4, <3>1
  <2>6. whole[h] = a * u[h] /\ whole[h] \in Int
    BY <2>1, <2>2 DEF p
  <2> QED BY <2>5, <2>6
<1>3. part \in Seq(Int) /\ Len(part) = n /\ DOMAIN part = 1 .. n
  BY <1>1, <1>2 DEF ByWeight
<1> HIDE DEF part, whole
<1>4. IsFiniteSet(1 .. n)
  BY <1>1, FS_Interval
<1>5. SumFunctionOnSet(whole, 1 .. n) = b * t
  <2> DEFINE N == 1 .. n
  <2>1. IsFiniteSet(N) /\ \A j \in N : part[j] \in Int /\ whole[j] = b * part[j]
    BY <1>2, <1>4
  <2> HIDE DEF N
  <2>2. SumFunctionOnSet(whole, N) = b * SumFunctionOnSet(part, N)
    BY <1>0, <2>1, SumTimes
  <2> QED BY <2>2 DEF N
<1>6. SumFunctionOnSet(whole, 1 .. n) = a * SumFunctionOnSet(u, 1 .. n)
  <2> DEFINE N == 1 .. n
  <2>1. IsFiniteSet(N) /\ \A h \in N : u[h] \in Int /\ whole[h] = a * u[h]
    BY <1>1, <1>2, <1>4
  <2> HIDE DEF N
  <2>2. SumFunctionOnSet(whole, N) = a * SumFunctionOnSet(u, N)
    BY <2>1, SumTimes
  <2> QED BY <2>2 DEF N
<1>7. SumFunctionOnSet(u, 1 .. n) = w
  BY <1>1 DEF SumFunction
<1>8. t \in Int
  <2> DEFINE N == 1 .. n
  <2>1. IsFiniteSet(N) /\ \A j \in N : part[j] \in Int
    BY <1>2, <1>4
  <2> HIDE DEF N
  <2>2. SumFunctionOnSet(part, N) \in Int
    BY <2>1, SumIsInt
  <2> QED BY <2>2 DEF N
<1> HIDE DEF t
<1>9. c * t = a
  <2> DEFINE e == c * t
  <2>1. e \in Int /\ b * t = e * w
    BY <1>8
  <2>2. e * w = a * w
    BY <1>5, <1>6, <1>7, <2>1
  <2> HIDE DEF e
  <2>3. e = a
    BY <2>1, <2>2, Cancelled
  <2> QED BY <2>3 DEF e
<1>10. SumFunction(part) = t
  BY <1>3 DEF SumFunction, t
<1>11. \A h \in 1 .. n : b * part[h] = a * u[h]
  BY <1>2
<1> QED BY <1>3, <1>9, <1>10, <1>11 DEF WholeIn, part

\* Where a part ends, each of them cal[k] times h long.
PartEnd(cal, h, k) == h * SumFunctionOnSet(cal, 1 .. k)
\* The parts before one of them end where it begins.
LEMMA PartEnds ==
  ASSUME NEW cal \in Seq(Nat), NEW h \in Nat
  PROVE  /\ Len(cal) \in Nat /\ DOMAIN cal = 1 .. Len(cal)
         /\ cal \in Seq(Int) /\ \A m \in DOMAIN cal : cal[m] \in Nat
         /\ PartEnd(cal, h, 0) = 0
         /\ \A m \in DOMAIN cal : PartEnd(cal, h, m - 1) \in Int /\ PartEnd(cal, h, m) = PartEnd(cal, h, m - 1) + h * cal[m]
<1> DEFINE n == Len(cal)
<1>1. n \in Nat /\ DOMAIN cal = 1 .. n /\ h \in Nat /\ \A m \in 1 .. n : cal[m] \in Nat /\ cal[m] \in Int
  OBVIOUS
<1>2. cal \in Seq(Int)
  BY <1>1
<1>3. PartEnd(cal, h, 0) = 0
  <2>1. 1 .. 0 = {} /\ SumFunctionOnSet(cal, {}) = 0
    BY SumOfNone
  <2> QED BY <1>1, <2>1 DEF PartEnd
<1>4. ASSUME NEW m \in DOMAIN cal
      PROVE  PartEnd(cal, h, m - 1) \in Int /\ PartEnd(cal, h, m) = PartEnd(cal, h, m - 1) + h * cal[m]
  <2> DEFINE S == 1 .. m
             T == 1 .. m - 1
             a == SumFunctionOnSet(cal, T)
             b == cal[m]
  <2>1. m \in S /\ S \ {m} = T /\ (\A j \in S : cal[j] \in Int) /\ b \in Int /\ m \in Int
    BY <1>1
  <2>2. IsFiniteSet(S) /\ IsFiniteSet(T)
    BY <2>1, FS_Interval
  <2>3. SumFunctionOnSet(cal, S) = b + SumFunctionOnSet(cal, S \ {m})
    <3> HIDE DEF S
    <3> QED BY <2>1, <2>2, SumTake
  <2>4. \A j \in T : cal[j] \in Int
    BY <2>1
  <2>5. a \in Int
    <3> HIDE DEF T
    <3> QED BY <2>2, <2>4, SumIsInt
  <2>6. PartEnd(cal, h, m) = h * (b + a) /\ PartEnd(cal, h, m - 1) = h * a
    <3>1. SumFunctionOnSet(cal, S) = b + a
      BY <2>1, <2>3
    <3> QED BY <3>1 DEF PartEnd
  <2> HIDE DEF a, b
  <2>7. h * (b + a) = h * a + h * b /\ h * a \in Int
    BY <1>1, <2>1, <2>5
  <2> QED BY <2>6, <2>7 DEF b
<1> QED BY <1>1, <1>2, <1>3, <1>4

\* What is joined is as long as its parts together, and each part is where the
\* parts before it end.
PartsLie(all, ss, cal, h) ==
  /\ all \in Seq(Int) /\ Len(all) = h * SumFunction(cal)
  /\ \A m \in 1 .. Len(ss) :
       LET from == h * SumFunction(SubSeq(cal, 1, m - 1))
       IN  SubSeq(all, from + 1, from + h * cal[m]) = ss[m]
\* A part of what was put end to end adds up to what that part has.
THEOREM PartsOfFlattened ==
  ASSUME NEW ss \in Seq(Seq(Int)), NEW cal \in Seq(Nat), NEW h \in Nat,
         Len(cal) = Len(ss), \A k \in 1 .. Len(ss) : Len(ss[k]) = h * cal[k]
  PROVE  PartsLie(FlattenSeq(ss), ss, cal, h)
<1> DEFINE n == Len(ss)
           all == FlattenSeq(ss)
<1>1. n \in Nat /\ DOMAIN ss = 1 .. n /\ DOMAIN cal = 1 .. n /\ \A m \in 1 .. n : ss[m] \in Seq(Int) /\ Len(ss[m]) = h * cal[m]
  OBVIOUS
<1>2. PICK at : Laid(at, ss) /\ all \in Seq(Int) /\ Len(all) = at[n] /\ PartsUpto(n, all, at, ss)
  BY FlattenPlaces
<1> HIDE DEF all
<1> DEFINE G == {k \in Nat : k <= n => at[k] = PartEnd(cal, h, k)}
<1>6. 0 \in G
  BY <1>2, PartEnds DEF Laid
<1>7. ASSUME NEW k \in Nat, k \in G PROVE k + 1 \in G
  <2> DEFINE m == k + 1
  <2>1. m \in Nat /\ m - 1 = k /\ k <= m /\ m > 0
    OBVIOUS
  <2> HIDE DEF m
  <2>2. ASSUME m <= n PROVE at[m] = PartEnd(cal, h, m)
    <3>1. m \in 1 .. n /\ at[m - 1] = PartEnd(cal, h, m - 1)
      BY <1>1, <1>7, <2>1, <2>2
    <3>2. at[m] = at[m - 1] + Len(ss[m])
      BY <1>1, <1>2, <3>1 DEF Laid
    <3>3. Len(ss[m]) = h * cal[m]
      BY <1>1, <3>1
    <3>4. PartEnd(cal, h, m) = PartEnd(cal, h, m - 1) + h * cal[m]
      BY <1>1, <3>1, PartEnds
    <3> QED BY <3>1, <3>2, <3>3, <3>4
  <2>3. m \in G
    BY <2>1, <2>2
  <2> QED BY <2>3 DEF m
<1>8. \A k \in 0 .. n : at[k] = PartEnd(cal, h, k)
  <2> HIDE DEF G
  <2>1. \A k \in Nat : k \in G
    BY <1>6, <1>7, NumberInduction
  <2> QED BY <1>1, <2>1 DEF G
<1>9. Len(all) = h * SumFunction(cal)
  <2>1. at[n] = PartEnd(cal, h, n)
    BY <1>1, <1>8
  <2> QED BY <1>1, <1>2, <2>1 DEF PartEnd, SumFunction
<1>10. ASSUME NEW m \in 1 .. n
       PROVE  LET from == h * SumFunction(SubSeq(cal, 1, m - 1))
              IN  SubSeq(all, from + 1, from + h * cal[m]) = ss[m]
  <2> DEFINE from == PartEnd(cal, h, m - 1)
             long == h * cal[m]
             part == ss[m]
             cut == SubSeq(all, from + 1, from + long)
  <2>1. h * SumFunction(SubSeq(cal, 1, m - 1)) = from
    <3>1. m - 1 \in 0 .. Len(cal) /\ cal \in Seq(Int)
      BY <1>1
    <3>2. SumFunction(SubSeq(cal, 1, m - 1)) = SumFunctionOnSet(cal, 1 .. m - 1)
      BY <3>1, SumOfFirst
    <3> QED BY <3>2 DEF PartEnd
  <2>2. from \in Int /\ long \in Nat /\ part \in Seq(Int) /\ Len(part) = long
    <3>1. from \in Int /\ cal[m] \in Nat
      BY <1>1, PartEnds
    <3>2. long \in Nat
      BY <3>1
    <3> QED BY <1>1, <3>1, <3>2
  <2>3. \A j \in 1 .. long : from + j \in 1 .. Len(all) /\ all[from + j] = part[j]
    <3>1. at[m - 1] = from
      BY <1>1, <1>8
    <3> HIDE DEF from, part, long
    <3> QED BY <1>2, <2>2, <3>1 DEF PartsUpto, part
  <2> HIDE DEF from, part, long
  <2> DEFINE low == from + 1
             high == from + long
  <2>4. low \in Int /\ high \in Int /\ high - low + 1 = long /\ (low <= high => high - low + 1 = long) /\ (~(low <= high) => long = 0)
    BY <2>2
  <2>5. ASSUME NEW i \in low .. high PROVE all[i] \in Int
    <3> DEFINE j == i - from
    <3>1. j \in 1 .. long /\ from + j = i
      BY <2>2
    <3> HIDE DEF j
    <3>2. i \in 1 .. Len(all)
      BY <2>3, <3>1
    <3> QED BY <1>2, <3>2
  <2>6. /\ cut \in Seq(Int) /\ Len(cut) = IF low <= high THEN high - low + 1 ELSE 0
        /\ \A i \in 1 .. high - low + 1 : cut[i] = all[low + i - 1]
    <3>1. cut = SubSeq(all, low, high)
      OBVIOUS
    <3> HIDE DEF low, high, cut
    <3> QED BY <2>4, <2>5, <3>1, SubSeqProperties
  <2>7. Len(cut) = long
    BY <2>4, <2>6
  <2>8. \A i \in 1 .. long : cut[i] = part[i]
    <3>1. \A i \in 1 .. long : low + i - 1 = from + i
      BY <2>2
    <3> HIDE DEF low, high, cut
    <3> QED BY <2>3, <2>4, <2>6, <3>1
  <2>9. cut = part
    <3> HIDE DEF cut
    <3> QED BY <2>2, <2>6, <2>7, <2>8, SeqEqual
  <2> QED BY <2>1, <2>9 DEF long, part
<1> QED BY <1>2, <1>9, <1>10 DEF PartsLie, all

\* Of a sequence of rows, k places each, what stands at place j of every row.
Column(s, k, j) == [d \in 1 .. Len(s) \div k |-> s[(d - 1) * k + j]]
Rows(s, k, x) == Len(s) = k * x
\* A column of whole rows has one entry for every row.
LEMMA Columns ==
  ASSUME NEW s \in Seq(Int), NEW k \in Nat \ {0}, NEW j \in 1 .. k, NEW x \in Nat, Rows(s, k, x)
  PROVE  /\ Column(s, k, j) \in Seq(Int) /\ Len(Column(s, k, j)) = x
         /\ \A d \in 1 .. x : Column(s, k, j)[d] = s[(d - 1) * k + j] /\ (d - 1) * k + j \in 1 .. Len(s)
<1> USE DEF Rows
<1>1. Len(s) \div k = x
  <2>1. k * x = x * k
    OBVIOUS
  <2>2. (x * k) \div k = x
    BY Exact
  <2> QED BY <2>1, <2>2
<1>2. ASSUME NEW d \in 1 .. x PROVE (d - 1) * k + j \in 1 .. Len(s)
  <2> DEFINE e == (d - 1) * k
             g == (x - d) * k
  <2>1. e \in Nat /\ g \in Nat
    <3>1. d - 1 \in Nat /\ x - d \in Nat
      OBVIOUS
    <3> QED BY <3>1
  <2>2. e + k + g = k * x
    OBVIOUS
  <2> HIDE DEF e, g
  <2>3. e + j \in 1 .. Len(s)
    BY <2>1, <2>2
  <2> QED BY <2>3 DEF e
<1>3. \A d \in 1 .. x : s[(d - 1) * k + j] \in Int
  <2>1. \A i \in 1 .. Len(s) : s[i] \in Int
    OBVIOUS
  <2> QED BY <1>2, <2>1
<1>4. Column(s, k, j) = [d \in 1 .. x |-> s[(d - 1) * k + j]]
  BY <1>1 DEF Column
<1> QED BY <1>2, <1>3, <1>4

\* The column of two stretches of whole days is that of the one and of the other.
LEMMA ColumnOfTwo ==
  ASSUME NEW s \in Seq(Int), NEW t \in Seq(Int), NEW k \in Nat \ {0}, NEW j \in 1 .. k,
         NEW x \in Nat, NEW y \in Nat, Rows(s, k, x), Rows(t, k, y)
  PROVE  Column(s \o t, k, j) = Column(s, k, j) \o Column(t, k, j)
<1> DEFINE h == s \o t
           a == Column(s, k, j)
           b == Column(t, k, j)
           c == Column(h, k, j)
           z == x + y
<1>1. /\ h \in Seq(Int) /\ Len(h) = Len(s) + Len(t)
      /\ \A i \in 1 .. Len(s) + Len(t) : h[i] = IF i <= Len(s) THEN s[i] ELSE t[i - Len(s)]
  BY ConcatProperties
<1>2. Rows(h, k, z) /\ z \in Nat
  <2>1. Len(s) = k * x /\ Len(t) = k * y /\ k * x + k * y = k * z /\ z \in Nat
    BY DEF Rows
  <2> QED BY <1>1, <2>1 DEF Rows
<1> HIDE DEF h, z
<1>3. a \in Seq(Int) /\ Len(a) = x /\ \A d \in 1 .. x : a[d] = s[(d - 1) * k + j] /\ (d - 1) * k + j \in 1 .. Len(s)
  BY Zenon, Columns
<1>4. b \in Seq(Int) /\ Len(b) = y /\ \A d \in 1 .. y : b[d] = t[(d - 1) * k + j] /\ (d - 1) * k + j \in 1 .. Len(t)
  BY Zenon, Columns
<1>5. c \in Seq(Int) /\ Len(c) = z /\ \A d \in 1 .. z : c[d] = h[(d - 1) * k + j]
  <2>1. h \in Seq(Int)
    BY <1>1
  <2>2. /\ c \in Seq(Int) /\ Len(c) = z
        /\ \A d \in 1 .. z : c[d] = h[(d - 1) * k + j] /\ (d - 1) * k + j \in 1 .. Len(h)
    BY Zenon, <1>2, <2>1, Columns
  <2> QED BY Zenon, <2>2
<1> HIDE DEF a, b, c
<1>6. /\ a \o b \in Seq(Int) /\ Len(a \o b) = x + y
      /\ \A d \in 1 .. x + y : (a \o b)[d] = IF d <= x THEN a[d] ELSE b[d - x]
  <2>1. a \in Seq(Int) /\ Len(a) = x /\ b \in Seq(Int) /\ Len(b) = y
    BY <1>3, <1>4
  <2>2. /\ a \o b \in Seq(Int) /\ Len(a \o b) = Len(a) + Len(b)
        /\ \A d \in 1 .. Len(a) + Len(b) : (a \o b)[d] = IF d <= Len(a) THEN a[d] ELSE b[d - Len(a)]
    BY Zenon, <2>1, ConcatProperties
  <2> QED BY <2>1, <2>2
<1>7. ASSUME NEW d \in 1 .. x + y PROVE c[d] = (a \o b)[d]
  <2>0. c[d] = h[(d - 1) * k + j] /\ Len(s) \in Nat /\ Len(t) \in Nat
    <3>1. d \in 1 .. z
      BY <1>7 DEF z
    <3>2. c[d] = h[(d - 1) * k + j]
      BY <1>5, <3>1, Zenon
    <3>3. Len(s) \in Nat /\ Len(t) \in Nat
      OBVIOUS
    <3> QED BY <3>2, <3>3
  <2>1. CASE d <= x
    <3> DEFINE i == (d - 1) * k + j
    <3>1. d \in 1 .. x
      BY <2>1
    <3>2. a[d] = s[i] /\ i \in 1 .. Len(s)
      BY <1>3, <3>1
    <3> HIDE DEF i
    <3>3. h[i] = s[i]
      <4>1. i \in 1 .. Len(s) + Len(t) /\ i <= Len(s)
        BY <2>0, <3>2
      <4>2. h[i] = IF i <= Len(s) THEN s[i] ELSE t[i - Len(s)]
        BY Zenon, <1>1, <4>1
      <4> QED BY Zenon, <4>1, <4>2
    <3>4. (a \o b)[d] = a[d]
      BY <1>6, <2>1
    <3> QED BY <2>0, <3>2, <3>3, <3>4 DEF i
  <2>2. CASE d > x
    <3> DEFINE f == d - x
               i == (f - 1) * k + j
    <3>1. f \in 1 .. y
      BY <2>2
    <3>2. b[f] = t[i] /\ i \in 1 .. Len(t)
      BY <1>4, <3>1
    <3>3. (d - 1) * k + j = Len(s) + i
      <4>1. Len(s) = k * x
        BY DEF Rows
      <4>2. (d - 1) * k = k * x + (f - 1) * k
        OBVIOUS
      <4> QED BY <4>1, <4>2
    <3>4. (a \o b)[d] = b[f]
      BY <1>6, <2>2
    <3> HIDE DEF i, f
    <3>5. h[Len(s) + i] = t[i]
      <4> DEFINE e == Len(s) + i
      <4>1. e \in 1 .. Len(s) + Len(t) /\ ~(e <= Len(s)) /\ e - Len(s) = i
        BY <2>0, <3>2
      <4> HIDE DEF e
      <4>2. h[e] = IF e <= Len(s) THEN s[e] ELSE t[e - Len(s)]
        BY <1>1, <4>1
      <4>3. h[e] = t[i]
        BY <4>1, <4>2
      <4> QED BY <4>3 DEF e
    <3> QED BY <2>0, <3>2, <3>3, <3>4, <3>5
  <2>3. d <= x \/ d > x
    OBVIOUS
  <2> QED BY <2>1, <2>2, <2>3, Zenon
<1>8. c = a \o b
  <2>1. Len(c) = Len(a \o b) /\ \A d \in 1 .. Len(c) : c[d] = (a \o b)[d]
    BY <1>5, <1>6, <1>7 DEF z
  <2> QED BY <1>5, <1>6, <2>1, SeqEqual
<1> QED BY <1>8 DEF c, h, a, b

\* A column of what is joined adds up to what the columns of the parts add up to.
ColumnSums(sums, ss, cal, k, j) ==
  \A p \in 1 .. Len(ss) : Rows(ss[p], k, cal[p]) /\ sums[p] = SumFunction(Column(ss[p], k, j))
\* The column of stretches of whole days put end to end is that of all of them.
THEOREM ColumnsOfFlattened ==
  ASSUME NEW ss \in Seq(Seq(Int)), NEW cal \in Seq(Nat), NEW k \in Nat \ {0}, NEW j \in 1 .. k, NEW sums,
         Len(cal) = Len(ss), ColumnSums(sums, ss, cal, k, j)
  PROVE  SumFunction(Column(FlattenSeq(ss), k, j)) = SumFunctionOnSet(sums, 1 .. Len(ss))
<1> DEFINE n == Len(ss)
           Col(s) == Column(s, k, j)
<1>1. n \in Nat /\ \A p \in 1 .. n : ss[p] \in Seq(Int) /\ cal[p] \in Nat /\ Rows(ss[p], k, cal[p]) /\ sums[p] = SumFunction(Col(ss[p]))
  BY DEF ColumnSums
<1>2. PICK it : Joins(it, ss, Int) /\ FlattenSeq(ss) = it[n]
  BY Flattening
<1>3. \A p \in 1 .. n : Col(ss[p]) \in Seq(Int)
  BY <1>1, Columns
<1>4. \A p \in 1 .. n : sums[p] \in Int
  <2>1. ASSUME NEW s \in Seq(Int) PROVE SumFunction(s) \in Int
    <3>1. Len(s) \in Nat /\ DOMAIN s = 1 .. Len(s)
      OBVIOUS
    <3>0. IsFiniteSet(1 .. Len(s))
      BY <3>1, FS_Interval
    <3>2. IsFiniteSet(DOMAIN s) /\ \A i \in DOMAIN s : s[i] \in Int
      BY <3>0, <3>1
    <3> QED BY <3>2, SumIsInt DEF SumFunction
  <2> QED BY <1>1, <1>3, <2>1
<1> DEFINE InRows(s) == \E c \in Nat : Rows(s, k, c)
           G == {l \in Nat : l <= n => InRows(it[l]) /\ SumFunction(Col(it[l])) = SumFunctionOnSet(sums, 1 .. l)}
<1>5. 0 \in G
  <2>1. it[0] = <<>> /\ 1 .. 0 = {} /\ <<>> \in Seq(Int)
    BY <1>2 DEF Joins
  <2>2. Rows(<<>>, k, 0) /\ 0 \in Nat
    BY DEF Rows
  <2>3. Col(<<>>) \in Seq(Int) /\ Len(Col(<<>>)) = 0
    BY <2>1, <2>2, Columns
  <2> HIDE DEF Col
  <2>4. DOMAIN Col(<<>>) = {}
    BY <2>3
  <2>5. SumFunction(Col(<<>>)) = 0 /\ SumFunctionOnSet(sums, {}) = 0
    BY <2>4, SumOfNone DEF SumFunction
  <2> QED BY <2>1, <2>2, <2>5
<1>6. ASSUME NEW l \in Nat, l \in G PROVE l + 1 \in G
  <2> DEFINE m == l + 1
  <2> SUFFICES ASSUME m <= n PROVE InRows(it[m]) /\ SumFunction(Col(it[m])) = SumFunctionOnSet(sums, 1 .. m)
    OBVIOUS
  <2>1. m \in 1 .. n /\ m - 1 = l /\ l \in 0 .. n /\ (1 .. m) \ {m} = 1 .. l /\ m \in 1 .. m /\ \A p \in 1 .. m : p \in 1 .. n
    <3>1. n \in Nat
      OBVIOUS
    <3> HIDE DEF n
    <3> QED BY <3>1
  <2> HIDE DEF m
  <2>2. it[m] = it[l] \o ss[m] /\ it[l] \in Seq(Int) /\ ss[m] \in Seq(Int)
    BY <1>1, <1>2, <2>1 DEF Joins
  <2>3. PICK c \in Nat : Rows(it[l], k, c)
    BY <1>6, <2>1
  <2>4. InRows(it[m])
    <3> DEFINE b == cal[m]
               z == c + b
    <3>1. Len(it[m]) = Len(it[l]) + Len(ss[m])
      BY <2>2, ConcatProperties
    <3>2. Rows(ss[m], k, b) /\ b \in Nat
      BY <1>1, <2>1
    <3> HIDE DEF b
    <3>3. k * c + k * b = k * z /\ z \in Nat
      BY <3>2
    <3>4. Rows(it[m], k, z)
      BY <2>3, <3>1, <3>2, <3>3 DEF Rows
    <3> QED BY <3>3, <3>4
  <2>5. Col(it[m]) = Col(it[l]) \o Col(ss[m]) /\ Col(it[l]) \in Seq(Int) /\ Col(ss[m]) \in Seq(Int)
    <3> DEFINE s == it[l]
               t == ss[m]
               y == cal[m]
    <3>1. s \in Seq(Int) /\ t \in Seq(Int) /\ y \in Nat /\ Rows(s, k, c) /\ Rows(t, k, y)
      BY <1>1, <2>1, <2>2, <2>3
    <3> HIDE DEF s, t, y
    <3>0. Rows(s, k, c) /\ c \in Nat
      BY <2>3 DEF s
    <3>2. Column(s \o t, k, j) = Column(s, k, j) \o Column(t, k, j)
      BY <3>0, <3>1, ColumnOfTwo, SMTT(20)
    <3>3. Column(s, k, j) \in Seq(Int) /\ Column(t, k, j) \in Seq(Int)
      BY <3>0, <3>1, Columns
    <3> QED BY <2>2, <3>2, <3>3 DEF s, t
  <2>6. SumFunction(Col(it[m])) = SumFunction(Col(it[l])) + SumFunction(Col(ss[m]))
    <3> HIDE DEF Col
    <3> QED BY <2>5, SumOfTwo
  <2>7. SumFunction(Col(it[l])) = SumFunctionOnSet(sums, 1 .. l)
    BY <1>1, <1>6, <2>1
  <2>8. SumFunctionOnSet(sums, 1 .. m) = sums[m] + SumFunctionOnSet(sums, 1 .. l) /\ SumFunctionOnSet(sums, 1 .. l) \in Int
    <3> DEFINE M == 1 .. m
    <3>1. IsFiniteSet(M) /\ m \in M /\ IsFiniteSet(1 .. l)
      BY <2>1, FS_Interval
    <3>2. \A i \in M : sums[i] \in Int
      BY <1>4, <2>1
    <3>3. \A i \in 1 .. l : sums[i] \in Int
      BY <1>4, <2>1
    <3> HIDE DEF M
    <3>4. SumFunctionOnSet(sums, M) = sums[m] + SumFunctionOnSet(sums, M \ {m})
      BY <3>1, <3>2, SumTake
    <3>5. M \ {m} = 1 .. l
      BY <2>1 DEF M
    <3>6. SumFunctionOnSet(sums, 1 .. l) \in Int
      BY <3>1, <3>3, SumIsInt
    <3>7. SumFunctionOnSet(sums, M) = sums[m] + SumFunctionOnSet(sums, 1 .. l)
      BY <3>4, <3>5
    <3> QED BY <3>6, <3>7 DEF M
  <2>9. sums[m] = SumFunction(Col(ss[m])) /\ sums[m] \in Int
    BY <1>1, <1>4, <2>1
  <2> HIDE DEF InRows, Col
  <2>10. SumFunction(Col(it[m])) = SumFunctionOnSet(sums, 1 .. m)
    BY <2>6, <2>7, <2>8, <2>9
  <2> QED BY <2>4, <2>10
<1>7. n \in G
  <2> HIDE DEF G
  <2> QED BY <1>1, <1>5, <1>6, NumberInduction
<1> QED BY <1>1, <1>2, <1>7

\* A column of rows that are alike.
THEOREM ColumnOfCopies ==
  ASSUME NEW D \in Nat, NEW k \in Nat \ {0}, NEW j \in 1 .. k, NEW x \in Seq(Int), Rows(x, k, 1)
  PROVE  SumFunction(Column(FlattenSeq([d \in 1 .. D |-> x]), k, j)) = D * x[j]
<1> DEFINE ss == [d \in 1 .. D |-> x]
           cal == [d \in 1 .. D |-> 1]
           a == x[j]
           sums == [d \in 1 .. D |-> a]
           one == Column(x, k, j)
<1>1. a \in Int
  <2>1. Len(x) = k
    BY DEF Rows
  <2> QED BY <2>1
<1>2. one \in Seq(Int) /\ Len(one) = 1 /\ one[1] = a
  <2> DEFINE u == 1
  <2>1. Rows(x, k, u) /\ u \in Nat
    BY DEF Rows
  <2>3. u = 1
    OBVIOUS
  <2> HIDE DEF u
  <2>0. one \in Seq(Int) /\ Len(one) = 1 /\ \A d \in 1 .. 1 : one[d] = x[(d - 1) * k + j]
    <3> HIDE DEF one
    <3>1. /\ Column(x, k, j) \in Seq(Int) /\ Len(Column(x, k, j)) = u
          /\ \A d \in 1 .. u : Column(x, k, j)[d] = x[(d - 1) * k + j] /\ (d - 1) * k + j \in 1 .. Len(x)
      BY <2>1, Columns
    <3> QED BY <2>3, <3>1 DEF one
  <2> HIDE DEF one
  <2>2. one \in Seq(Int) /\ Len(one) = 1 /\ one[1] = x[(1 - 1) * k + j]
    BY <2>0
  <2>4. (1 - 1) * k + j = j
    OBVIOUS
  <2> QED BY <2>2, <2>4
<1> HIDE DEF one, a
<1>3. SumFunction(one) = a
  <2> DEFINE S == {1}
  <2>1. DOMAIN one = S /\ S \ {1} = {} /\ 1 \in S /\ \A i \in S : one[i] \in Int
    BY <1>1, <1>2
  <2>0. IsFiniteSet(S)
    BY FS_Singleton
  <2> HIDE DEF S
  <2>2. SumFunctionOnSet(one, S) = one[1] + SumFunctionOnSet(one, S \ {1})
    BY <2>0, <2>1, SumTake
  <2>3. SumFunctionOnSet(one, {}) = 0
    BY SumOfNone
  <2>4. SumFunctionOnSet(one, S) = a + 0
    BY <1>2, <2>1, <2>2, <2>3, Zenon
  <2>5. SumFunctionOnSet(one, S) = a
    BY <1>1, <2>4
  <2> QED BY <2>1, <2>5, Zenon DEF SumFunction
<1>4. /\ ss \in Seq(Seq(Int)) /\ Len(ss) = D /\ cal \in Seq(Nat) /\ Len(cal) = D
      /\ \A p \in 1 .. D : ss[p] = x /\ cal[p] = 1 /\ sums[p] = a
  OBVIOUS
<1> HIDE DEF ss, cal, sums
<1>5. ColumnSums(sums, ss, cal, k, j)
  BY <1>3, <1>4 DEF one, Rows, ColumnSums
<1>6. SumFunction(Column(FlattenSeq(ss), k, j)) = SumFunctionOnSet(sums, 1 .. Len(ss))
  <2>1. ss \in Seq(Seq(Int)) /\ cal \in Seq(Nat) /\ Len(cal) = Len(ss)
    BY <1>4
  <2> QED BY <1>5, <2>1, ColumnsOfFlattened
<1>7. SumFunctionOnSet(sums, 1 .. D) = D * a
  <2>1. IsFiniteSet(1 .. D) /\ Cardinality(1 .. D) = D
    BY FS_Interval
  <2>2. \A i \in 1 .. D : sums[i] = a
    BY <1>4
  <2> QED BY <1>1, <2>1, <2>2, SumOfAlike
<1> QED BY <1>4, <1>6, <1>7 DEF ss, a
=============================================================================
