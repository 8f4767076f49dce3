----------------------------- MODULE RulesProofs -----------------------------
(***************************************************************************)
(* The rules of a community, for every commune, regulation profile,        *)
(* community, table of benefits and list of demands: the cost of a common  *)
(* asset is allocated to the last won, what is owed under a profile        *)
(* follows its items, of two streams that exclude each other no won is     *)
(* counted twice, and a composed bound is the tightest one demanded.       *)
(***************************************************************************)
EXTENDS MCCalculations, SumTheorems

\* The members of M get what r says of total by their weights in w, up to a half.
InParts(r, w, M, total, all) ==
  \A i \in M : /\ r[i] \in Int /\ w[i] \in Nat
               /\ 2 * (all * r[i]) <= 2 * (total * w[i]) + all
               /\ 2 * (total * w[i]) - all <= 2 * (all * r[i])

\* The members share a total; the last has no more than half a unit of every
\* member more or less than its part.
SharedOut(s, w, M, m, total, all) ==
  /\ \A i \in M : s[i] \in Int
  /\ SumFunctionOnSet(s, M) = total
  /\ 2 * (s[m] * all - total * w[m]) <= m * all
  /\ 0 - m * all <= 2 * (s[m] * all - total * w[m])

\* The last of m members gets what the others leave.
LEMMA LastGetsTheRest ==
  ASSUME NEW m \in Nat, m >= 1, NEW W \in Nat, NEW total \in Nat, NEW w, NEW r, NEW s,
         NEW M, M = 1 .. m, NEW L, L = 1 .. m - 1, W = SumFunctionOnSet(w, M),
         InParts(r, w, M, total, W),
         s[m] = r[m] + total - SumFunctionOnSet(r, M), \A i \in L : s[i] = r[i]
  PROVE  SharedOut(s, w, M, m, total, W)
<1>1. IsFiniteSet(M) /\ IsFiniteSet(L) /\ Cardinality(L) = m - 1 /\ L = M \ {m} /\ m \in M /\ L \subseteq M
  <2>1. IsFiniteSet(M) /\ IsFiniteSet(L) /\ Cardinality(L) = m - 1
    BY FS_Interval
  <2>2. L = M \ {m} /\ m \in M /\ L \subseteq M
    OBVIOUS
  <2> QED BY <2>1, <2>2
<1> DEFINE rL == SumFunctionOnSet(r, L)
           wL == SumFunctionOnSet(w, L)
<1>2. rL \in Int /\ SumFunctionOnSet(r, M) = r[m] + rL /\ r[m] \in Int
  <2>1. \A i \in M : r[i] \in Int
    BY DEF InParts
  <2>2. \A i \in L : r[i] \in Int
    BY <1>1, <2>1
  <2>3. SumFunctionOnSet(r, M) = r[m] + SumFunctionOnSet(r, M \ {m})
    BY <1>1, <2>1, SumTake, SMTT(30)
  <2>4. rL \in Int
    BY <1>1, <2>2, SumIsInt
  <2> QED BY <1>1, <2>1, <2>3, <2>4
<1>3. wL \in Int /\ W = w[m] + wL /\ w[m] \in Nat
  <2>1. \A i \in M : w[i] \in Int /\ w[i] \in Nat
    BY DEF InParts
  <2>2. \A i \in L : w[i] \in Int
    BY <1>1, <2>1
  <2>3. SumFunctionOnSet(w, M) = w[m] + SumFunctionOnSet(w, M \ {m})
    BY <1>1, <2>1, SumTake, ZenonT(30)
  <2>4. wL \in Int
    BY <1>1, <2>2, SumIsInt
  <2> QED BY <1>1, <2>1, <2>3, <2>4
<1>4. s[m] = total - rL
  <2> HIDE DEF rL
  <2> QED BY <1>2
<1>5. \A i \in M : s[i] \in Int
  <2>1. ASSUME NEW i \in L PROVE s[i] \in Int
    BY <1>1 DEF InParts
  <2>2. s[m] \in Int
    <3> HIDE DEF rL
    <3> QED BY <1>2, <1>4
  <2> QED BY <1>1, <2>1, <2>2
<1>6. SumFunctionOnSet(s, M) = total
  <2>1. SumFunctionOnSet(s, M) = s[m] + SumFunctionOnSet(s, L)
    <3>1. SumFunctionOnSet(s, M) = s[m] + SumFunctionOnSet(s, M \ {m})
      BY <1>1, <1>5, SumTake, ZenonT(30)
    <3> QED BY <1>1, <3>1
  <2>2. \A i \in L : s[i] \in Int /\ s[i] = r[i]
    BY <1>1, <1>5
  <2>3. SumFunctionOnSet(s, L) = rL
    BY <1>1, <2>2, SumSame
  <2> HIDE DEF rL
  <2> QED BY <1>2, <1>4, <2>1, <2>3
<1> DEFINE B == [i \in L |-> 2 * (W * r[i])]
           T == [i \in L |-> 2 * (total * w[i])]
<1>7. \A i \in L : /\ r[i] \in Int /\ w[i] \in Int /\ B[i] \in Int /\ T[i] \in Int
                   /\ B[i] <= T[i] + W /\ T[i] <= B[i] + W
                   /\ B[i] = (2 * W) * r[i] /\ T[i] = (2 * total) * w[i]
  <2> SUFFICES ASSUME NEW i \in L
               PROVE  /\ r[i] \in Int /\ w[i] \in Int /\ B[i] \in Int /\ T[i] \in Int
                      /\ B[i] <= T[i] + W /\ T[i] <= B[i] + W
                      /\ B[i] = (2 * W) * r[i] /\ T[i] = (2 * total) * w[i]
    OBVIOUS
  <2>1. /\ r[i] \in Int /\ 2 * (W * r[i]) <= 2 * (total * w[i]) + W
        /\ 2 * (total * w[i]) - W <= 2 * (W * r[i]) /\ w[i] \in Nat
    BY <1>1 DEF InParts
  <2> DEFINE x == W * r[i]
             y == total * w[i]
  <2>2. x \in Int /\ y \in Int /\ 2 * x = (2 * W) * r[i] /\ 2 * y = (2 * total) * w[i]
    <3>1. \A a \in Int : W * a \in Int /\ 2 * (W * a) = (2 * W) * a
      OBVIOUS
    <3>2. \A b \in Nat : total * b \in Int /\ 2 * (total * b) = (2 * total) * b
      OBVIOUS
    <3> QED BY <2>1, <3>1, <3>2
  <2>3. B[i] = 2 * x /\ T[i] = 2 * y /\ 2 * x <= 2 * y + W /\ 2 * y - W <= 2 * x
    BY <2>1
  <2> HIDE DEF x, y, B, T
  <2> QED BY <2>1, <2>2, <2>3, SMTT(40)
<1> HIDE DEF B, T
<1>8. SumFunctionOnSet(B, L) = (2 * W) * rL
  <2>1. 2 * W \in Int
    OBVIOUS
  <2>2. \A i \in L : r[i] \in Int /\ B[i] = (2 * W) * r[i]
    BY <1>7
  <2> DEFINE c == 2 * W
  <2>3. SumFunctionOnSet(B, L) = c * SumFunctionOnSet(r, L)
    <3>1. c \in Int /\ \A i \in L : r[i] \in Int /\ B[i] = c * r[i]
      BY <2>1, <2>2
    <3> HIDE DEF c, rL
    <3> QED BY Zenon, <1>1, <3>1, SumTimes
  <2> QED BY <2>3
<1>9. SumFunctionOnSet(T, L) = (2 * total) * wL
  <2>1. 2 * total \in Int
    OBVIOUS
  <2>2. \A i \in L : w[i] \in Int /\ T[i] = (2 * total) * w[i]
    BY <1>7
  <2> QED BY <1>1, <2>1, <2>2, SumTimes
<1>10. SumFunctionOnSet(B, L) <= SumFunctionOnSet(T, L) + (m - 1) * W
  <2>1. W \in Int /\ \A i \in L : B[i] \in Int /\ T[i] \in Int /\ B[i] <= T[i] + W
    BY <1>7
  <2>2. SumFunctionOnSet(B, L) <= SumFunctionOnSet(T, L) + Cardinality(L) * W
    BY <1>1, <2>1, SumAlmost
  <2> QED BY <1>1, <2>2
<1>11. SumFunctionOnSet(T, L) <= SumFunctionOnSet(B, L) + (m - 1) * W
  <2>1. W \in Int /\ \A i \in L : B[i] \in Int /\ T[i] \in Int /\ T[i] <= B[i] + W
    BY <1>7
  <2>2. SumFunctionOnSet(T, L) <= SumFunctionOnSet(B, L) + Cardinality(L) * W
    BY <1>1, <2>1, SumAlmost
  <2> QED BY <1>1, <2>2
<1> HIDE DEF rL, wL
<1> DEFINE p == rL * W
           q == total * wL
           v == total * w[m]
           e == m * W
<1>14. p \in Int /\ q \in Int /\ v \in Int /\ e \in Int
  BY <1>2, <1>3, SMTT(30)
<1>15. (2 * W) * rL = 2 * p /\ (2 * total) * wL = 2 * q /\ (m - 1) * W = e - W
  <2>1. (2 * W) * rL = 2 * p
    BY <1>2
  <2>2. (2 * total) * wL = 2 * q
    BY <1>3
  <2>3. (m - 1) * W = e - W
    OBVIOUS
  <2> QED BY <2>1, <2>2, <2>3
<1>17. s[m] * W = total * W - p
  <2>1. (total - rL) * W = total * W - rL * W
    BY <1>2, Z3
  <2> QED BY <1>4, <2>1
<1>18. total * W = v + q
  <2>1. total * (w[m] + wL) = total * w[m] + total * wL
    BY <1>3, Z3
  <2> QED BY <1>3, <2>1
<1>19. 2 * (s[m] * W - v) <= e /\ 0 - e <= 2 * (s[m] * W - v)
  <2>2. 2 * p <= 2 * q + (e - W) /\ 2 * q <= 2 * p + (e - W)
    BY <1>8, <1>9, <1>10, <1>11, <1>15
  <2>3. total * W \in Int
    OBVIOUS
  <2> DEFINE t == total * W
             z == s[m] * W
  <2>4. t \in Int /\ t = v + q /\ z = t - p
    BY <1>17, <1>18, <2>3
  <2> HIDE DEF p, q, v, e, t, z
  <2>5. 2 * (z - v) <= e /\ 0 - e <= 2 * (z - v)
    BY <1>14, <2>2, <2>4
  <2> QED BY <2>5 DEF z
<1> QED BY <1>5, <1>6, <1>19, Zenon DEF SharedOut, v, e

-----------------------------------------------------------------------------
(***************************************************************************)
(* CommonCosts: what a commune declares well costs whole won of no         *)
(* negative amount, and what has been allocated is the allocation of that  *)
(* cost.                                                                   *)
(***************************************************************************)
WellDeclared == \A a \in Commune!ToSet(Commune!assets) : Commune!DeclaredWell(a)
Splittable ==
  /\ \A i, j \in DOMAIN Commune!assets : Commune!assets[i].name = Commune!assets[j].name => i = j
  /\ Commune!assets # <<>> => Commune!n >= 1
  /\ \A a \in Commune!ToSet(Commune!assets) : a.rule = "capacity" => Commune!Weighable
Allocation(y) ==
  [name \in Commune!Names |-> Commune!Allocate(Commune!Asset(name), Commune!AnnualCost(Commune!Asset(name), y))]

CommuneInv ==
  running = "commune" =>
    /\ Commune!IsCommune(given)
    /\ mark \in {"declared", "refused", "allocating", "failed", "done"}
    /\ mark \notin {"declared", "refused"} => WellDeclared
    /\ made \in Seq({Allocation(y) : y \in 1 .. given.horizon}) /\ Len(made) <= given.horizon
    /\ \A y \in 1 .. Len(made) : made[y] = Allocation(y)
    /\ made # <<>> => mark \notin {"declared", "refused"} /\ Splittable
    /\ mark = "done" => given.horizon >= 1

\* What moves while a commune is calculated is the commune.
LEMMA CommuneSteps ==
  ASSUME [CalculationsNext]_calculationVars, running = "commune"
  PROVE  running' = "commune" /\ [Commune!Next]_(Commune!costVars)
  BY DEF CalculationsNext, calculationVars, ApplyDuty, ShareAssets, ListBenefits, ComposeBounds, OverrideLedger,
         UseSeries, StoreSeries, SpreadShapes, ComposeModel,
         Commune!costVars

(***************************************************************************)
(* Rounding to the won: the exact quotient is at most half a won away.     *)
(***************************************************************************)
LEMMA Rounded ==
  ASSUME NEW x \in Int, NEW d \in Int, d > 0
  PROVE  /\ Commune!DividedToWon(x, d) \in Int
         /\ 2 * (d * Commune!DividedToWon(x, d)) <= 2 * x + d
         /\ 2 * x - d <= 2 * (d * Commune!DividedToWon(x, d))
<1> DEFINE q == (2 * x + d) \div (2 * d)
<1>1. 2 * x + d \in Int /\ 2 * d \in Int /\ 2 * d > 0
  OBVIOUS
<1>2. q \in Int /\ (2 * d) * q <= 2 * x + d /\ 2 * x + d < (2 * d) * q + 2 * d
  <2> DEFINE a == 2 * x + d
             b == 2 * d
  <2>1. a \in Int /\ b \in Int /\ b > 0
    BY <1>1
  <2>2. a \div b \in Int /\ b * (a \div b) <= a /\ a < b * (a \div b) + b
    <3> HIDE DEF a, b
    <3> QED BY <2>1, Z3
  <2> QED BY <2>2
<1>3. (2 * d) * q = 2 * (d * q)
  <2> HIDE DEF q
  <2> QED BY <1>2
<1> HIDE DEF q
<1> QED BY <1>2, <1>3 DEF Commune!DividedToWon, q

\* Rounding keeps the order.
LEMMA RoundedInOrder ==
  ASSUME NEW x \in Int, NEW z \in Int, x <= z, NEW d \in Int, d > 0
  PROVE  Commune!DividedToWon(x, d) <= Commune!DividedToWon(z, d)
<1> DEFINE p == (2 * x + d) \div (2 * d)
           q == (2 * z + d) \div (2 * d)
           a == 2 * x + d
           c == 2 * z + d
           b == 2 * d
<1>1. a \in Int /\ b \in Int /\ c \in Int /\ b > 0 /\ a <= c
  OBVIOUS
<1>2. p \in Int /\ q \in Int /\ b * p <= a /\ a < b * p + b /\ b * q <= c /\ c < b * q + b
  <2>1. a \div b \in Int /\ b * (a \div b) <= a /\ a < b * (a \div b) + b
    <3> HIDE DEF a, b, c
    <3> QED BY <1>1, Z3
  <2>2. c \div b \in Int /\ b * (c \div b) <= c /\ c < b * (c \div b) + b
    <3> HIDE DEF a, b, c
    <3> QED BY <1>1, Z3
  <2> QED BY <2>1, <2>2
<1> HIDE DEF p, q, a, b, c
<1>3. ASSUME q < p PROVE FALSE
  <2>1. b * (q + 1) <= b * p /\ b * (q + 1) = b * q + b
    <3>1. q + 1 <= p
      BY <1>2, <1>3
    <3> QED BY <1>1, <1>2, <3>1, Z3
  <2> QED BY <1>1, <1>2, <2>1, Z3
<1> QED BY <1>2, <1>3 DEF Commune!DividedToWon, p, q

\* The sums of the instance are those of SumTheorems.
LEMMA CommuneSums ==
  ASSUME NEW f
  PROVE  Commune!Sum(f) = SumFunctionOnSet(f, DOMAIN f)
<1>1. Commune!SumFunctionOnSet(f, DOMAIN f) = SumFunctionOnSet(f, DOMAIN f)
  BY Zenon DEF Commune!SumFunctionOnSet, SumFunctionOnSet, Commune!FoldFunctionOnSet, FoldFunctionOnSet,
     Commune!MapThenFoldSet, MapThenFoldSet
<1> QED BY <1>1 DEF Commune!Sum, Commune!SumFunction

\* The sequence of a set is the same one in the calculation of a commune.
LEMMA CommuneSequences ==
  ASSUME NEW S
  PROVE  Commune!SetToSeq(S) = SetToSeq(S)
<1>1. Commune!Cardinality(S) = Cardinality(S)
  BY Zenon DEF Commune!Cardinality, Cardinality
<1> QED BY <1>1, Zenon DEF Commune!SetToSeq, SetToSeq, Commune!IsInjective, IsInjective

\* What a commune declares.
LEMMA AssetsDeclared ==
  ASSUME Commune!IsCommune(given)
  PROVE  /\ Commune!n \in Nat /\ given.horizon \in Nat
         /\ DOMAIN Commune!assets = 1 .. Len(Commune!assets) /\ Len(Commune!assets) \in Nat
         /\ IsFiniteSet(Commune!Names)
         /\ \A name \in Commune!Names : Commune!Asset(name) \in Commune!ToSet(Commune!assets) /\ Commune!Asset(name).name = name
         /\ \A a \in Commune!ToSet(Commune!assets) :
              /\ a.software \in Int /\ a.hardware \in Int /\ a.om \in Int /\ a.softwareLife \in Int
              /\ a.hardwareLife \in Int /\ a.softwareRatio \in Int /\ a.hardwareRatio \in Int
              /\ a.rises \in BOOLEAN /\ a.rule \in Commune!Rules
<1> DEFINE A == [name : STRING, software : Int, hardware : Int, om : Int, softwareLife : Int, hardwareLife : Int,
                 softwareRatio : Int, hardwareRatio : Int, rises : BOOLEAN, rule : Commune!Rules]
<1>1. Commune!assets \in Seq(A) /\ Commune!n \in Nat /\ given.horizon \in Nat
  BY DEF Commune!IsCommune, Commune!assets, Commune!n
<1>2. DOMAIN Commune!assets = 1 .. Len(Commune!assets) /\ Len(Commune!assets) \in Nat
  <2> HIDE DEF A
  <2> QED BY <1>1
<1>3. \A a \in Commune!ToSet(Commune!assets) : a \in A
  <2> HIDE DEF A
  <2> QED BY <1>1 DEF Commune!ToSet
<1>4. IsFiniteSet(Commune!Names)
  <2> DEFINE h == [i \in DOMAIN Commune!assets |-> Commune!assets[i].name]
  <2>1. Commune!Names = Reached(h, DOMAIN Commune!assets)
    <3>1. ASSUME NEW x \in Commune!Names PROVE \E i \in DOMAIN Commune!assets : x = Commune!assets[i].name
      BY DEF Commune!Names, Commune!ToSet
    <3>2. ASSUME NEW i \in DOMAIN Commune!assets PROVE Commune!assets[i].name \in Commune!Names
      BY DEF Commune!Names, Commune!ToSet
    <3> QED BY <3>1, <3>2 DEF Reached
  <2>2. IsFiniteSet(DOMAIN Commune!assets)
    BY <1>2, FS_Interval
  <2> HIDE DEF h
  <2> QED BY <2>1, <2>2, ReachedIsFinite
<1>5. \A name \in Commune!Names : Commune!Asset(name) \in Commune!ToSet(Commune!assets) /\ Commune!Asset(name).name = name
  <2> SUFFICES ASSUME NEW name \in Commune!Names
               PROVE  Commune!Asset(name) \in Commune!ToSet(Commune!assets) /\ Commune!Asset(name).name = name
    OBVIOUS
  <2>1. \E a \in Commune!ToSet(Commune!assets) : a.name = name
    BY DEF Commune!Names
  <2> QED BY <2>1 DEF Commune!Asset
<1> QED BY <1>1, <1>2, <1>3, <1>4, <1>5

\* What an asset costs in a year is no negative amount.
LEMMA CostIsNat ==
  ASSUME Commune!IsCommune(given), NEW a \in Commune!ToSet(Commune!assets), Commune!DeclaredWell(a),
         NEW y \in 1 .. given.horizon
  PROVE  Commune!AnnualCost(a, y) \in Nat
<1>1. /\ a.software \in Nat /\ a.hardware \in Nat /\ a.om \in Nat
      /\ a.softwareRatio \in Nat /\ a.hardwareRatio \in Nat
  <2>1. /\ a.software \in Int /\ a.hardware \in Int /\ a.om \in Int
        /\ a.softwareRatio \in Int /\ a.hardwareRatio \in Int
    BY AssetsDeclared
  <2>2. a.software >= 0 /\ a.hardware >= 0 /\ a.om >= 0 /\ a.softwareRatio >= 0 /\ a.hardwareRatio >= 0
    BY Zenon DEF Commune!DeclaredWell
  <2> QED BY <2>1, <2>2
<1>2. ASSUME NEW c \in Nat, NEW r \in Nat PROVE Commune!HalvesToWon(c * r) \in Nat
  <2>1. c * r \in Nat
    OBVIOUS
  <2> DEFINE x == c * r
  <2>2. (x + 1) \div 2 \in Nat
    <3>1. x \in Nat
      BY <2>1
    <3> HIDE DEF x
    <3> QED BY <3>1
  <2> QED BY <2>2 DEF Commune!HalvesToWon
<1>3. Commune!Software(a).again \in Nat /\ Commune!Hardware(a).again \in Nat
  BY <1>1, <1>2 DEF Commune!Software, Commune!Hardware, Commune!Part
<1>4. Commune!ReplacedIn(Commune!Software(a), y) \in Nat /\ Commune!ReplacedIn(Commune!Hardware(a), y) \in Nat
  BY <1>3 DEF Commune!ReplacedIn
<1>5. Commune!FixedOm(a, y) \in Nat
  <2>1. 2 ^ (y - 1) \in Nat
    BY DEF Commune!IsCommune
  <2>2. (IF a.rises THEN 2 ^ (y - 1) ELSE 1) \in Nat
    BY <2>1
  <2> DEFINE k == IF a.rises THEN 2 ^ (y - 1) ELSE 1
  <2>3. a.om * k \in Nat
    <3> HIDE DEF k
    <3> QED BY <1>1, <2>2 DEF k
  <2> QED BY <2>3 DEF Commune!FixedOm
<1>6. Commune!Capex(a, y) \in Nat
  BY <1>1 DEF Commune!Capex
<1> QED BY <1>4, <1>5, <1>6 DEF Commune!AnnualCost

\* The weights of a rule: as many as there are households, none negative, not all 0.
LEMMA WeightsOf ==
  ASSUME Commune!IsCommune(given), Splittable, NEW a \in Commune!ToSet(Commune!assets), a.rule # "none"
  PROVE  LET w == Commune!Weights(a.rule)
         IN  /\ Commune!n \in Nat /\ Commune!n >= 1
             /\ DOMAIN w = 1 .. Commune!n /\ \A i \in 1 .. Commune!n : w[i] \in Nat
             /\ SumFunctionOnSet(w, 1 .. Commune!n) \in Nat /\ SumFunctionOnSet(w, 1 .. Commune!n) > 0
<1> DEFINE m == Commune!n
           w == Commune!Weights(a.rule)
<1>1. m \in Nat /\ m >= 1
  <2>1. Commune!assets # <<>>
    <3>1. \E i \in DOMAIN Commune!assets : TRUE
      BY DEF Commune!ToSet
    <3> QED BY <3>1
  <2> QED BY <2>1, AssetsDeclared DEF Splittable
<1>2. IsFiniteSet(1 .. m) /\ Cardinality(1 .. m) = m
  BY <1>1, FS_Interval
<1>3. CASE a.rule = "equal"
  <2>1. DOMAIN w = 1 .. m /\ \A i \in 1 .. m : w[i] = 1
    BY <1>3 DEF Commune!Weights
  <2>2. SumFunctionOnSet(w, 1 .. m) = m * 1
    <3>1. 1 \in Int
      OBVIOUS
    <3> HIDE DEF w, m
    <3> QED BY <1>2, <2>1, <3>1, SumOfAlike, ZenonT(30)
  <2> QED BY <1>1, <2>1, <2>2
<1>4. CASE a.rule = "capacity"
  <2>1. w = given.capacities
    BY <1>4 DEF Commune!Weights
  <2>2. Commune!Weighable
    BY <1>4 DEF Splittable
  <2>3. given.capacities \in Seq(Int) /\ Len(given.capacities) = m
        /\ (\A i \in 1 .. m : given.capacities[i] >= 0) /\ Commune!Sum(given.capacities) > 0
    BY <2>2 DEF Commune!Weighable, Commune!IsCommune
  <2>4. DOMAIN w = 1 .. m /\ \A i \in 1 .. m : w[i] \in Nat
    BY <2>1, <2>3
  <2>5. SumFunctionOnSet(w, 1 .. m) > 0
    BY <2>1, <2>3, <2>4, CommuneSums
  <2>6. SumFunctionOnSet(w, 1 .. m) \in Nat
    <3> HIDE DEF w, m
    <3> QED BY <1>2, <2>4, SumIsNat
  <2> QED BY <1>1, <2>4, <2>5, <2>6
<1>5. a.rule \in {"equal", "capacity"}
  BY AssetsDeclared DEF Commune!Rules
<1> QED BY <1>3, <1>4, <1>5

(***************************************************************************)
(* The split of a cost: whole won that come to the cost; the last share is *)
(* no more than half a won of every household away from its part.          *)
(***************************************************************************)
GoodSplit(m, w, total, shares) ==
  LET W == SumFunctionOnSet(w, 1 .. m)
  IN  /\ DOMAIN shares = 1 .. m /\ \A i \in 1 .. m : shares[i] \in Int
      /\ SumFunctionOnSet(shares, 1 .. m) = total
      /\ \A i, j \in 1 .. m - 1 : w[i] <= w[j] => shares[i] <= shares[j]
      /\ 2 * (shares[m] * W - total * w[m]) <= m * W
      /\ 0 - m * W <= 2 * (shares[m] * W - total * w[m])

\* A cost split by weights is shared out to the last won (_split_with_residual).
LEMMA SplitIsGood ==
  ASSUME NEW w, NEW total \in Nat, NEW m, m = Commune!n, m \in Nat, m >= 1,
         DOMAIN w = 1 .. m, \A i \in 1 .. m : w[i] \in Nat,
         NEW W, W = SumFunctionOnSet(w, 1 .. m), W \in Nat, W > 0
  PROVE  GoodSplit(m, w, total, Commune!SplitWithResidual(total, w))
<1> DEFINE M == 1 .. m
           L == 1 .. m - 1
           r == [i \in M |-> Commune!DividedToWon(total * w[i], W)]
           s == Commune!SplitWithResidual(total, w)
<1>1. s = [r EXCEPT ![m] = r[m] + total - SumFunctionOnSet(r, M)]
  <2>1. Commune!Sum(w) = W /\ Commune!Sum(r) = SumFunctionOnSet(r, M)
    BY CommuneSums
  <2>2. s = [r EXCEPT ![m] = r[m] + total - Commune!Sum(r)]
    BY <2>1 DEF Commune!SplitWithResidual
  <2> HIDE DEF s, r
  <2> QED BY <2>1, <2>2
<1>2. \A i \in M : /\ r[i] \in Int /\ 2 * (W * r[i]) <= 2 * (total * w[i]) + W
                   /\ 2 * (total * w[i]) - W <= 2 * (W * r[i])
  <2>1. \A i \in M : r[i] = Commune!DividedToWon(total * w[i], W)
    OBVIOUS
  <2>2. \A i \in M : w[i] \in Nat
    OBVIOUS
  <2> HIDE DEF r, M, L, s
  <2> SUFFICES ASSUME NEW i \in M
               PROVE  /\ r[i] \in Int /\ 2 * (W * r[i]) <= 2 * (total * w[i]) + W
                      /\ 2 * (total * w[i]) - W <= 2 * (W * r[i])
    OBVIOUS
  <2>3. total * w[i] \in Int /\ W \in Int /\ r[i] = Commune!DividedToWon(total * w[i], W)
    BY <2>1, <2>2
  <2> QED BY <2>3, Rounded
<1>3. DOMAIN s = M /\ s[m] = r[m] + total - SumFunctionOnSet(r, M) /\ \A i \in L : s[i] = r[i]
  <2>1. DOMAIN r = M /\ m \in M /\ \A i \in L : i \in M /\ i # m
    OBVIOUS
  <2> HIDE DEF s, r, M, L
  <2> QED BY <1>1, <2>1
<1>4. ASSUME NEW i \in L, NEW j \in L, w[i] <= w[j] PROVE s[i] <= s[j]
  <2>1. i \in M /\ j \in M
    OBVIOUS
  <2>2. total * w[i] \in Int /\ total * w[j] \in Int /\ total * w[i] <= total * w[j]
    <3>1. w[i] \in Nat /\ w[j] \in Nat
      BY <2>1
    <3>2. total * w[i] \in Int /\ total * w[j] \in Int
      BY <3>1
    <3>3. total * w[i] <= total * w[j]
      BY <1>4, <3>1, Z3
    <3> QED BY <3>2, <3>3
  <2>3. r[i] = Commune!DividedToWon(total * w[i], W) /\ r[j] = Commune!DividedToWon(total * w[j], W)
    BY <2>1
  <2>4. W \in Int
    OBVIOUS
  <2>5. r[i] <= r[j]
    <3> HIDE DEF r, M, L
    <3> QED BY <2>2, <2>3, <2>4, RoundedInOrder
  <2>6. s[i] = r[i] /\ s[j] = r[j]
    <3> HIDE DEF r, s, L
    <3> QED BY <1>3
  <2> HIDE DEF r, s
  <2> QED BY <2>5, <2>6
<1> HIDE DEF r, s
<1>5. InParts(r, w, M, total, W)
  <2>1. \A i \in M : w[i] \in Nat
    OBVIOUS
  <2> HIDE DEF M
  <2> QED BY <1>2, <2>1 DEF InParts
<1>6. SharedOut(s, w, M, m, total, W)
  <2>1. M = 1 .. m /\ L = 1 .. m - 1 /\ W = SumFunctionOnSet(w, M)
    OBVIOUS
  <2> HIDE DEF M, L
  <2>2. s[m] = r[m] + total - SumFunctionOnSet(r, M)
    BY <1>3
  <2>3. \A i \in L : s[i] = r[i]
    BY <1>3
  <2>4. M = 1 .. m
    BY <2>1
  <2>5. L = 1 .. m - 1
    BY <2>1
  <2>6. W = SumFunctionOnSet(w, M)
    BY <2>1
  <2> QED BY <1>5, <2>2, <2>3, <2>4, <2>5, <2>6, LastGetsTheRest, Zenon
<1> QED BY <1>3, <1>4, <1>6 DEF GoodSplit, SharedOut, s

\* What an allocation says of an asset: its cost in shares and a rest.
ShownFor(name, y, r) ==
  LET c == Commune!AnnualCost(Commune!Asset(name), y)
  IN  /\ c \in Nat /\ r.total = c /\ r.rest \in Int
      /\ DOMAIN r.shares = 1 .. Commune!n /\ \A i \in 1 .. Commune!n : r.shares[i] \in Int
      /\ SumFunctionOnSet(r.shares, 1 .. Commune!n) + r.rest = c
      /\ Commune!AddsUp(r)
      /\ Commune!Asset(name).rule # "none" => Commune!Fair(Commune!Asset(name), r)

\* Every allocation of a commune that declares well adds up and is fair.
LEMMA AllocationShows ==
  ASSUME Commune!IsCommune(given), WellDeclared, Splittable, NEW y \in 1 .. given.horizon, NEW name \in Commune!Names
  PROVE  ShownFor(name, y, Allocation(y)[name])
<1> DEFINE a == Commune!Asset(name)
           c == Commune!AnnualCost(a, y)
           r == Allocation(y)[name]
           m == Commune!n
<1>1. a \in Commune!ToSet(Commune!assets) /\ m \in Nat
  BY AssetsDeclared
<1>2. c \in Nat
  <2>1. Commune!DeclaredWell(a)
    BY <1>1 DEF WellDeclared
  <2> HIDE DEF a, c
  <2> QED BY <1>1, <2>1, CostIsNat DEF c
<1>3. r = Commune!Allocate(a, c)
  BY DEF Allocation
<1> HIDE DEF a, c, r
<1>4. CASE a.rule = "none"
  <2>1. r = [total |-> c, shares |-> [i \in 1 .. m |-> 0], rest |-> c]
    BY <1>3, <1>4 DEF Commune!Allocate
  <2>2. SumFunctionOnSet(r.shares, 1 .. m) = 0
    <3> DEFINE f == r.shares
    <3>1. \A i \in 1 .. m : f[i] = 0
      BY <2>1
    <3>2. IsFiniteSet(1 .. m) /\ Cardinality(1 .. m) = m
      BY <1>1, FS_Interval
    <3>3. 0 \in Int
      OBVIOUS
    <3> HIDE DEF f, m
    <3>4. SumFunctionOnSet(f, 1 .. m) = m * 0
      BY <3>1, <3>2, <3>3, SumOfAlike
    <3> QED BY <1>1, <3>4 DEF f
  <2>3. Commune!Sum(r.shares) = SumFunctionOnSet(r.shares, 1 .. m)
    <3>1. DOMAIN r.shares = 1 .. m
      BY <2>1
    <3> QED BY <3>1, CommuneSums
  <2>4. r.total = c /\ r.rest = c /\ DOMAIN r.shares = 1 .. m /\ \A i \in 1 .. m : r.shares[i] \in Int
    BY <2>1
  <2> HIDE DEF m
  <2>5. SumFunctionOnSet(r.shares, 1 .. m) + r.rest = c /\ Commune!Sum(r.shares) + r.rest = r.total /\ r.rest \in Int
    BY <1>2, <2>2, <2>3, <2>4
  <2> QED BY <1>2, <1>4, <2>4, <2>5 DEF ShownFor, Commune!AddsUp, a, c, m, r
<1>5. CASE a.rule # "none"
  <2> DEFINE w == Commune!Weights(a.rule)
             W == SumFunctionOnSet(w, 1 .. m)
             s == Commune!SplitWithResidual(c, w)
  <2>1. r = [total |-> c, shares |-> s, rest |-> 0]
    BY <1>3, <1>5 DEF Commune!Allocate
  <2>2. m >= 1 /\ DOMAIN w = 1 .. m /\ (\A i \in 1 .. m : w[i] \in Nat) /\ W \in Nat /\ W > 0
    BY <1>1, <1>5, WeightsOf
  <2>3. GoodSplit(m, w, c, s)
    <3>1. m = Commune!n /\ W = SumFunctionOnSet(w, 1 .. m)
      OBVIOUS
    <3> HIDE DEF m, w, W, s
    <3>2. GoodSplit(m, w, c, Commune!SplitWithResidual(c, w))
      BY <1>1, <1>2, <2>2, <3>1, SplitIsGood
    <3> QED BY <3>2 DEF s
  <2> HIDE DEF w, W, s
  <2>4. /\ DOMAIN s = 1 .. m /\ (\A i \in 1 .. m : s[i] \in Int) /\ SumFunctionOnSet(s, 1 .. m) = c
        /\ \A i, j \in 1 .. m - 1 : w[i] <= w[j] => s[i] <= s[j]
        /\ 2 * (s[m] * W - c * w[m]) <= m * W
        /\ 0 - m * W <= 2 * (s[m] * W - c * w[m])
    BY <2>3 DEF GoodSplit, W
  <2>5. Commune!Sum(s) = c /\ Commune!Sum(w) = W
    BY <2>2, <2>4, CommuneSums DEF W
  <2>6. r.total = c /\ r.rest = 0 /\ r.shares = s
    BY <2>1
  <2>7. Commune!Fair(a, r)
    <3>1. s[m] \in Int /\ w[m] \in Nat /\ m \in Nat /\ W \in Nat /\ c \in Nat
      BY <1>1, <1>2, <2>2, <2>4
    <3> DEFINE gap == s[m] * W - c * w[m]
    <3>2. -m * W <= 2 * gap /\ 2 * gap <= m * W
      <4> DEFINE e == m * W
      <4>1. gap \in Int /\ e \in Int /\ 0 - e <= 2 * gap /\ 2 * gap <= e
        BY <2>4, <3>1, SMTT(30)
      <4> HIDE DEF gap, e
      <4>2. -e <= 2 * gap /\ 2 * gap <= e
        BY <4>1
      <4> QED BY <4>2 DEF e
    <3> QED BY <2>4, <2>5, <2>6, <3>2 DEF Commune!Fair, w, m
  <2> HIDE DEF m
  <2>8. SumFunctionOnSet(s, 1 .. m) + 0 = c /\ Commune!Sum(s) + 0 = c
    BY <1>2, <2>4, <2>5
  <2> QED BY <1>2, <2>4, <2>6, <2>7, <2>8 DEF ShownFor, Commune!AddsUp, a, c, m, r
<1> QED BY <1>4, <1>5 DEF r

\* What is said of a commune is said of what it was declared with.
LEMMA GivenStays ==
  ASSUME given' = given
  PROVE  /\ Commune!IsCommune(given)' <=> Commune!IsCommune(given)
         /\ WellDeclared' <=> WellDeclared
         /\ Splittable' <=> Splittable
         /\ \A y \in 1 .. given.horizon : Allocation(y)' = Allocation(y)
<1>1. Commune!assets' = Commune!assets /\ Commune!n' = Commune!n /\ given.horizon' = given.horizon
  BY DEF Commune!assets, Commune!n
<1>2. Commune!Names' = Commune!Names /\ Commune!ToSet(Commune!assets)' = Commune!ToSet(Commune!assets)
  BY <1>1 DEF Commune!Names, Commune!ToSet
<1>3. \A name : Commune!Asset(name)' = Commune!Asset(name)
  BY <1>2 DEF Commune!Asset
<1>4. Commune!Weighable' <=> Commune!Weighable
  BY <1>1 DEF Commune!Weighable
<1>5. \A a, y : Commune!AnnualCost(a, y)' = Commune!AnnualCost(a, y)
  BY <1>1 DEF Commune!AnnualCost, Commune!ReplacedIn, Commune!Capex, Commune!FixedOm, Commune!Software, Commune!Hardware,
     Commune!Part, Commune!HalvesToWon
<1>6. \A a, t : Commune!Allocate(a, t)' = Commune!Allocate(a, t)
  BY <1>1 DEF Commune!Allocate, Commune!SplitWithResidual, Commune!Weights
<1>7. \A y \in 1 .. given.horizon : Allocation(y)' = Allocation(y)
  BY <1>2, <1>3, <1>5, <1>6 DEF Allocation
<1>8. WellDeclared' <=> WellDeclared
  BY <1>2 DEF WellDeclared, Commune!DeclaredWell
<1>9. Splittable' <=> Splittable
  BY <1>1, <1>2, <1>4 DEF Splittable
<1> QED BY <1>1, <1>7, <1>8, <1>9 DEF Commune!IsCommune

Results == {Allocation(y) : y \in 1 .. given.horizon}

\* Every step keeps CommuneInv.
LEMMA CommuneInductive ==
  ASSUME CommuneInv, [CalculationsNext]_calculationVars
  PROVE  CommuneInv'
<1> SUFFICES ASSUME running' = "commune" PROVE CommuneInv'
  BY DEF CommuneInv
<1>1. running = "commune"
  BY DEF CalculationsNext, calculationVars
<1>2. [Commune!Next]_(Commune!costVars)
  BY <1>1, CommuneSteps
<1>3. given' = given
  BY <1>2 DEF Commune!Next, Commune!Declare, Commune!AllocateYear, Commune!costVars
<1>4. /\ Commune!IsCommune(given)
      /\ mark \in {"declared", "refused", "allocating", "failed", "done"}
      /\ mark \notin {"declared", "refused"} => WellDeclared
      /\ made \in Seq(Results) /\ Len(made) <= given.horizon
      /\ \A y \in 1 .. Len(made) : made[y] = Allocation(y)
      /\ made # <<>> => mark \notin {"declared", "refused"} /\ Splittable
      /\ mark = "done" => given.horizon >= 1
  BY <1>1 DEF CommuneInv, Results
<1>5. SUFFICES /\ mark' \in {"declared", "refused", "allocating", "failed", "done"}
               /\ mark' \notin {"declared", "refused"} => WellDeclared
               /\ made' \in Seq(Results) /\ Len(made') <= given.horizon
               /\ \A y \in 1 .. Len(made') : made'[y] = Allocation(y)
               /\ made' # <<>> => mark' \notin {"declared", "refused"} /\ Splittable
               /\ mark' = "done" => given.horizon >= 1
  <2>1. Commune!IsCommune(given)'
    BY <1>3, <1>4, GivenStays
  <2>2. (WellDeclared' <=> WellDeclared) /\ (Splittable' <=> Splittable)
        /\ \A y \in 1 .. given.horizon : Allocation(y)' = Allocation(y)
    BY <1>3, GivenStays
  <2>3. Results' = Results
    BY <1>3, <2>2 DEF Results
  <2>4. ASSUME made' \in Seq(Results), Len(made') <= given.horizon, \A y \in 1 .. Len(made') : made'[y] = Allocation(y)
        PROVE  \A y \in 1 .. Len(made') : made'[y] = Allocation(y)'
    BY <2>2, <2>4, <1>4, AssetsDeclared
  <2> QED BY <1>3, <2>1, <2>2, <2>3, <2>4 DEF CommuneInv, Results
<1>6. CASE UNCHANGED Commune!costVars
  BY <1>4, <1>6 DEF Commune!costVars
<1>7. CASE Commune!Declare
  <2>1. made' = made /\ mark = "declared" /\ mark' \in {"allocating", "refused"} /\ (mark' = "allocating" => WellDeclared)
    BY <1>7 DEF Commune!Declare, WellDeclared
  <2>2. made = <<>>
    BY <1>4, <2>1
  <2> QED BY <1>4, <2>1, <2>2
<1>8. CASE Commune!AllocateYear
  <2> DEFINE y == Len(made) + 1
             results == Allocation(y)
  <2>1. mark = "allocating" /\ Len(made) < given.horizon /\ WellDeclared
    BY <1>4, <1>8 DEF Commune!AllocateYear
  <2>2. y \in 1 .. given.horizon /\ Len(made) \in Nat /\ given.horizon \in Nat
    <3>1. given.horizon \in Nat
      BY <1>4, AssetsDeclared
    <3>2. Len(made) \in Nat
      BY <1>4
    <3> QED BY <2>1, <3>1, <3>2
  <2>3. CASE ~Splittable
    <3>1. \/ \E i, j \in DOMAIN Commune!assets : i # j /\ Commune!assets[i].name = Commune!assets[j].name
          \/ Commune!assets # <<>> /\ Commune!n < 1
          \/ \E a \in Commune!ToSet(Commune!assets) : a.rule = "capacity" /\ ~Commune!Weighable
      <4>1. Commune!n \in Nat
        BY <1>4, AssetsDeclared
      <4> QED BY <2>3, <4>1 DEF Splittable
    <3>2. mark' = "failed" /\ made' = made
      BY <1>8, <3>1 DEF Commune!AllocateYear
    <3> QED BY <1>4, <2>1, <2>3, <3>2
  <2>4. CASE Splittable
    <3>1. \A name \in Commune!Names : Commune!AddsUp(results[name])
      BY <1>4, <2>1, <2>2, <2>4, AllocationShows DEF ShownFor
    <3>2. ~ \/ \E i, j \in DOMAIN Commune!assets : i # j /\ Commune!assets[i].name = Commune!assets[j].name
            \/ Commune!assets # <<>> /\ Commune!n < 1
            \/ \E a \in Commune!ToSet(Commune!assets) : a.rule = "capacity" /\ ~Commune!Weighable
      <4>1. Commune!n \in Nat
        BY <1>4, AssetsDeclared
      <4> QED BY <2>4, <4>1 DEF Splittable
    <3>3. made' = Append(made, results) /\ mark' = IF y = given.horizon THEN "done" ELSE "allocating"
      <4>1. results = [name \in Commune!Names |->
                         Commune!Allocate(Commune!Asset(name), Commune!AnnualCost(Commune!Asset(name), y))]
        BY DEF Allocation
      <4> HIDE DEF results, y
      <4> QED BY <1>8, <3>1, <3>2, <4>1 DEF Commune!AllocateYear, y
    <3>4. results \in Results
      BY <2>2 DEF Results
    <3> HIDE DEF results, y
    <3>5. made' \in Seq(Results) /\ Len(made') = Len(made) + 1
      BY <1>4, <3>3, <3>4
    <3>6. \A z \in 1 .. Len(made') : made'[z] = Allocation(z)
      <4>1. \A z \in 1 .. Len(made) : made'[z] = made[z]
        BY <1>4, <3>3, <3>4
      <4>2. made'[Len(made) + 1] = results
        BY <1>4, <3>3, <3>4
      <4>3. results = Allocation(Len(made) + 1)
        BY DEF results, y
      <4> QED BY <1>4, <2>2, <3>5, <4>1, <4>2, <4>3
    <3> QED BY <2>1, <2>2, <2>4, <3>3, <3>5, <3>6 DEF y
  <2> QED BY <2>3, <2>4
<1> QED BY <1>2, <1>6, <1>7, <1>8 DEF Commune!Next

\* The own costs of the households are whole.
LEMMA OwnCostsAreInt ==
  ASSUME Commune!IsCommune(given)
  PROVE  Commune!OwnCosts \in Int
<1> DEFINE s == given.own
           f == [k \in DOMAIN s |-> s[k].won]
           Own == [name : STRING, won : Int]
<1>1. s \in Seq(Own)
  BY DEF Commune!IsCommune
<1>2. \A k \in DOMAIN s : f[k] \in Int
  <2>1. \A k \in DOMAIN s : s[k] \in Own
    <3> HIDE DEF Own, s
    <3> QED BY <1>1
  <2> QED BY <2>1
<1>3. DOMAIN f = DOMAIN s /\ IsFiniteSet(DOMAIN s)
  <2>1. DOMAIN s = 1 .. Len(s) /\ Len(s) \in Nat
    <3> HIDE DEF Own, s
    <3> QED BY <1>1
  <2> HIDE DEF s
  <2>2. IsFiniteSet(1 .. Len(s))
    BY <2>1, FS_Interval
  <2> QED BY <2>1, <2>2 DEF f
<1>4. SumFunctionOnSet(f, DOMAIN s) \in Int
  <2> HIDE DEF f, s
  <2> QED BY <1>2, <1>3, SumIsInt
<1>5. Commune!OwnCosts = Commune!Sum(f)
  BY DEF Commune!OwnCosts
<1> HIDE DEF f, s
<1> QED BY <1>3, <1>4, <1>5, CommuneSums

\* The proforma of a household: its own costs and one row for every asset.
LEMMA PaidByHousehold ==
  ASSUME Commune!IsCommune(given), NEW y, NEW i,
         \A name \in Commune!Names : made[y][name].shares[i] \in Int
  PROVE  /\ Commune!OwnCosts \in Int
         /\ Commune!Paid(i, y) = Commune!OwnCosts
              + SumFunctionOnSet([name \in Commune!Names |-> made[y][name].shares[i]], Commune!Names)
<1> DEFINE N == Commune!Names
           shareOf == [name \in N |-> made[y][name].shares[i]]
           row == [name \in N |-> [name |-> name, won |-> made[y][name].shares[i]]]
           R == {[name |-> name, won |-> made[y][name].shares[i]] : name \in N}
           s == given.own
           t == SetToSeq(R)
           won == [r \in R |-> r.won]
           f == [k \in DOMAIN s |-> s[k].won]
           g == [k \in DOMAIN t |-> t[k].won]
           h == [k \in DOMAIN (s \o t) |-> (s \o t)[k].won]
           Own == [name : STRING, won : Int]
<1>1. IsFiniteSet(N)
  BY AssetsDeclared
<1>2. R = Reached(row, N) /\ \A name \in N : row[name] \in R
  BY DEF Reached
<1>3. IsFiniteSet(R)
  <2> HIDE DEF R, row, N
  <2> QED BY <1>1, <1>2, ReachedIsFinite
<1>4. \A name \in N : shareOf[name] \in Int /\ won[row[name]] = shareOf[name]
  BY DEF Reached
<1>5. \A a, b \in N : row[a] = row[b] => a = b
  <2> SUFFICES ASSUME NEW a \in N, NEW b \in N, row[a] = row[b] PROVE a = b
    OBVIOUS
  <2>1. row[a].name = a /\ row[b].name = b
    OBVIOUS
  <2> HIDE DEF row
  <2> QED BY <2>1
<1>6. SumFunctionOnSet(won, R) = SumFunctionOnSet(shareOf, N)
  <2> HIDE DEF R, row, N, won, shareOf
  <2>1. SumFunctionOnSet(won, Reached(row, N)) = SumFunctionOnSet(shareOf, N)
    BY <1>1, <1>4, <1>5, SumOfImage
  <2> QED BY <1>2, <2>1
<1>7. /\ t \in Seq(R) /\ DOMAIN t = 1 .. Cardinality(R) /\ R = Reached(t, DOMAIN t)
      /\ \A k, l \in DOMAIN t : t[k] = t[l] => k = l
  <2> HIDE DEF R
  <2> QED BY <1>3, SetInASequence
<1>8. IsFiniteSet(DOMAIN t)
  <2>1. Cardinality(R) \in Nat
    <3> HIDE DEF R
    <3> QED BY <1>3, FS_CardinalityType
  <2> HIDE DEF R, t
  <2>2. IsFiniteSet(1 .. Cardinality(R))
    BY <2>1, FS_Interval
  <2> QED BY <1>7, <2>2
<1>9. \A r \in R : r.won \in Int
  OBVIOUS
<1>10. \A k \in DOMAIN t : t[k] \in R
  <2>1. t \in Seq(R)
    BY <1>7
  <2> HIDE DEF R, t
  <2> QED BY <2>1
<1>11. \A k \in DOMAIN t : g[k] \in Int /\ won[t[k]] = g[k]
  <2> HIDE DEF R, t
  <2> QED BY <1>9, <1>10
<1>12. SumFunctionOnSet(g, DOMAIN t) = SumFunctionOnSet(shareOf, N)
  <2> HIDE DEF R, row, N, won, shareOf, t, g
  <2>1. SumFunctionOnSet(won, Reached(t, DOMAIN t)) = SumFunctionOnSet(g, DOMAIN t)
    <3>1. \A k, l \in DOMAIN t : t[k] = t[l] => k = l
      BY <1>7
    <3> DEFINE D == DOMAIN t
    <3>2. IsFiniteSet(D) /\ (\A k \in D : g[k] \in Int /\ won[t[k]] = g[k]) /\ \A k, l \in D : t[k] = t[l] => k = l
      BY <1>8, <1>11, <3>1
    <3> HIDE DEF D
    <3>3. SumFunctionOnSet(won, Reached(t, D)) = SumFunctionOnSet(g, D)
      BY <3>2, SumOfImage
    <3> QED BY <3>3 DEF D
  <2> QED BY <1>6, <1>7, <2>1
<1>13. s \in Seq(Own)
  BY DEF Commune!IsCommune
<1>14. \A k \in DOMAIN s : f[k] \in Int
  <2>1. \A k \in DOMAIN s : s[k] \in Own
    <3> HIDE DEF Own, s
    <3> QED BY <1>13
  <2> QED BY <2>1
<1>15. /\ \A k \in DOMAIN s : k \in DOMAIN (s \o t) /\ (s \o t)[k] = s[k]
       /\ \A k \in DOMAIN t : Len(s) + k \in DOMAIN (s \o t) /\ (s \o t)[Len(s) + k] = t[k]
  <2>1. t \in Seq(R)
    BY <1>7
  <2> HIDE DEF R, Own, s, t
  <2> QED BY <1>13, <2>1
<1>16. /\ \A k \in DOMAIN s : f[k] \in Int /\ h[k] = f[k]
       /\ \A k \in DOMAIN t : g[k] \in Int /\ h[Len(s) + k] = g[k]
  <2> HIDE DEF R, Own, s, t
  <2> QED BY <1>11, <1>14, <1>15
<1>17. SumFunction(h) = SumFunction(f) + SumFunction(g)
  <2>1. DOMAIN f = DOMAIN s /\ DOMAIN g = DOMAIN t /\ DOMAIN h = DOMAIN (s \o t)
    OBVIOUS
  <2>2. t \in Seq(R)
    BY <1>7
  <2>3. \A k \in DOMAIN s : f[k] \in Int /\ h[k] = f[k]
    BY <1>16
  <2>4. \A k \in DOMAIN t : g[k] \in Int /\ h[Len(s) + k] = g[k]
    BY <1>16
  <2> HIDE DEF R, Own, s, t, f, g, h
  <2>5. OneAfterTheOther(f, s, g, t, h)
    BY <2>1, <2>3, <2>4 DEF OneAfterTheOther
  <2> QED BY <1>13, <2>2, <2>5, SumOfJoined
<1>18. DOMAIN f = DOMAIN s /\ DOMAIN g = DOMAIN t
  OBVIOUS
<1>19. SumFunctionOnSet(f, DOMAIN f) \in Int
  <2>1. IsFiniteSet(DOMAIN s)
    <3>1. DOMAIN s = 1 .. Len(s) /\ Len(s) \in Nat
      <4> HIDE DEF Own, s
      <4> QED BY <1>13
    <3> HIDE DEF s
    <3>2. IsFiniteSet(1 .. Len(s))
      BY <3>1, FS_Interval
    <3> QED BY <3>1, <3>2
  <2> HIDE DEF f, s
  <2> QED BY <1>14, <1>18, <2>1, SumIsInt
<1>20. Commune!OwnCosts = SumFunctionOnSet(f, DOMAIN f)
  <2>1. Commune!OwnCosts = Commune!Sum(f)
    BY DEF Commune!OwnCosts
  <2> HIDE DEF f
  <2> QED BY <2>1, CommuneSums
<1>21. Commune!Paid(i, y) = SumFunctionOnSet(h, DOMAIN h)
  <2>1. Commune!Rows(i, y) = s \o t
    <3>1. Commune!SetToSeq(R) = t
      <4> HIDE DEF R
      <4> QED BY CommuneSequences
    <3> QED BY <3>1 DEF Commune!Rows
  <2>2. Commune!Paid(i, y) = Commune!Sum(h)
    BY <2>1 DEF Commune!Paid
  <2> HIDE DEF h
  <2> QED BY <2>2, CommuneSums
<1>22. SumFunction(f) = SumFunctionOnSet(f, DOMAIN f) /\ SumFunction(g) = SumFunctionOnSet(g, DOMAIN g)
       /\ SumFunction(h) = SumFunctionOnSet(h, DOMAIN h)
  BY DEF SumFunction
<1> HIDE DEF f, g, h, s, t, R
<1> QED BY <1>12, <1>17, <1>18, <1>19, <1>20, <1>21, <1>22

\* The books of a year balance: what the households are shown and what stays
\* with the community is what they own and what the assets cost.
LEMMA YearBalances ==
  ASSUME Commune!IsCommune(given), NEW y,
         \A name \in Commune!Names : ShownFor(name, y, made[y][name])
  PROVE  Commune!Sum([i \in 1 .. Commune!n |-> Commune!Paid(i, y)])
           + Commune!Sum([name \in Commune!Names |-> made[y][name].rest])
         = Commune!n * Commune!OwnCosts
           + Commune!Sum([name \in Commune!Names |-> Commune!AnnualCost(Commune!Asset(name), y)])
<1> DEFINE m == Commune!n
           M == 1 .. m
           N == Commune!Names
           own == Commune!OwnCosts
           share == [i \in M |-> [name \in N |-> made[y][name].shares[i]]]
           shares == [name \in N |-> made[y][name].shares]
           paid == [i \in M |-> Commune!Paid(i, y)]
           part == [i \in M |-> SumFunctionOnSet(share[i], N)]
           owns == [i \in M |-> own]
           inShares == [name \in N |-> SumFunctionOnSet(shares[name], M)]
           rest == [name \in N |-> made[y][name].rest]
           cost == [name \in N |-> Commune!AnnualCost(Commune!Asset(name), y)]
<1>1. m \in Nat /\ IsFiniteSet(N) /\ IsFiniteSet(M) /\ Cardinality(M) = m
  BY AssetsDeclared, FS_Interval
<1>2. /\ \A name \in N : /\ rest[name] \in Int /\ cost[name] \in Int /\ cost[name] = inShares[name] + rest[name]
                          /\ \A i \in M : shares[name][i] \in Int
  BY DEF ShownFor
<1>3. \A i \in M : \A name \in N : share[i][name] \in Int /\ shares[name][i] = share[i][name]
  BY <1>2
<1>4. own \in Int /\ \A i \in M : paid[i] = owns[i] + part[i] /\ owns[i] = own
  <2>1. ASSUME NEW i \in M
        PROVE  own \in Int /\ paid[i] = owns[i] + part[i] /\ owns[i] = own
    <3>1. \A name \in Commune!Names : made[y][name].shares[i] \in Int
      BY DEF ShownFor
    <3>2. own \in Int /\ Commune!Paid(i, y) = own + SumFunctionOnSet(share[i], N)
      BY <3>1, PaidByHousehold
    <3> QED BY <3>2
  <2>2. own \in Int
    BY OwnCostsAreInt
  <2> QED BY <2>1, <2>2
<1>5. \A i \in M : part[i] = SumFunctionOnSet(share[i], N) /\ part[i] \in Int
  <2> SUFFICES ASSUME NEW i \in M PROVE part[i] = SumFunctionOnSet(share[i], N) /\ part[i] \in Int
    OBVIOUS
  <2>1. part[i] = SumFunctionOnSet(share[i], N)
    OBVIOUS
  <2>2. \A name \in N : share[i][name] \in Int
    BY <1>3
  <2> HIDE DEF share, N, M, part
  <2> QED BY <1>1, <2>1, <2>2, SumIsInt
<1>6. \A name \in N : inShares[name] = SumFunctionOnSet(shares[name], M)
  OBVIOUS
<1>7. /\ Commune!Sum(paid) = SumFunctionOnSet(paid, M) /\ Commune!Sum(rest) = SumFunctionOnSet(rest, N)
      /\ Commune!Sum(cost) = SumFunctionOnSet(cost, N)
  <2>1. DOMAIN paid = M /\ DOMAIN rest = N /\ DOMAIN cost = N
    OBVIOUS
  <2> HIDE DEF paid, rest, cost, M, N
  <2> QED BY <2>1, CommuneSums
<1> HIDE DEF m, M, N, own, share, shares, paid, part, owns, inShares, rest, cost
<1>8. SumFunctionOnSet(part, M) = SumFunctionOnSet(inShares, N)
  <2>1. Totals(part, share, M, N)
    BY <1>5 DEF Totals
  <2>2. Table(share, shares, M, N) /\ Totals(inShares, shares, N, M)
    BY <1>3, <1>6 DEF Table, Totals
  <2> QED BY <1>1, <2>1, <2>2, SumByRowsAndColumns
<1>9. SumFunctionOnSet(paid, M) = SumFunctionOnSet(owns, M) + SumFunctionOnSet(part, M)
  <2>1. \A i \in M : owns[i] \in Int /\ part[i] \in Int /\ paid[i] = owns[i] + part[i]
    BY <1>4, <1>5
  <2> QED BY <1>1, <2>1, SumPlus
<1>10. SumFunctionOnSet(owns, M) = m * own
  <2>1. \A i \in M : owns[i] = own
    BY <1>4
  <2>2. SumFunctionOnSet(owns, M) = Cardinality(M) * own
    BY <1>1, <1>4, <2>1, SumOfAlike
  <2> QED BY <1>1, <2>2
<1>11. SumFunctionOnSet(cost, N) = SumFunctionOnSet(inShares, N) + SumFunctionOnSet(rest, N)
  <2>1. \A name \in N : inShares[name] \in Int
    <3> SUFFICES ASSUME NEW name \in N PROVE inShares[name] \in Int
      OBVIOUS
    <3>1. \A i \in M : shares[name][i] \in Int
      BY <1>2
    <3> QED BY <1>1, <1>6, <3>1, SumIsInt
  <2>2. \A name \in N : inShares[name] \in Int /\ rest[name] \in Int /\ cost[name] = inShares[name] + rest[name]
    BY <1>2, <2>1
  <2> QED BY <1>1, <2>2, SumPlus
<1>12. /\ SumFunctionOnSet(rest, N) \in Int /\ SumFunctionOnSet(part, M) \in Int
       /\ m * own \in Int
  <2>1. (\A name \in N : rest[name] \in Int) /\ \A i \in M : part[i] \in Int
    BY <1>2, <1>5
  <2>2. SumFunctionOnSet(rest, N) \in Int
    BY <1>1, <2>1, SumIsInt
  <2>3. SumFunctionOnSet(part, M) \in Int
    BY <1>1, <2>1, SumIsInt
  <2>4. m * own \in Int
    BY <1>1, <1>4
  <2> QED BY <2>2, <2>3, <2>4
<1>13. Commune!Sum(paid) + Commune!Sum(rest) = m * own + Commune!Sum(cost)
  BY <1>7, <1>8, <1>9, <1>10, <1>11, <1>12
<1> QED BY <1>13 DEF m, M, N, own, paid, rest, cost

\* What is left at the end of what was bought last is no more than its price.
LEMMA LeftOverIsPaidFor ==
  ASSUME NEW p, p.cost \in Nat, p.again \in Nat, p.life \in Nat, p.life > 0, given.horizon \in Nat, given.horizon >= 1
  PROVE  Commune!Salvage(p, given.horizon) <= Commune!Bought(p, Commune!InstalledAt(p, given.horizon))
<1> DEFINE h == given.horizon
           l == p.life
           q == (h - 1) \div l
           k == 1 + l * q
           paid == IF k = 1 THEN p.cost ELSE p.again
           left == l - (h - k + 1)
           v == Commune!DividedToWon(paid * left, l)
<1>1. l \in Nat /\ l > 0 /\ h \in Nat /\ h >= 1
  OBVIOUS
<1>2. q \in Int /\ l * q <= h - 1 /\ h - 1 < l * q + l
  <2> DEFINE a == h - 1
  <2>1. a \in Int
    OBVIOUS
  <2>2. a \div l \in Int /\ l * (a \div l) <= a /\ a < l * (a \div l) + l
    <3> HIDE DEF a, l, h
    <3> QED BY <1>1, <2>1, Z3
  <2> QED BY <2>2
<1>3. q >= 0
  <2>1. ASSUME q < 0 PROVE FALSE
    <3>1. l * (q + 1) <= l * 0
      <4>1. q + 1 <= 0
        BY <1>2, <2>1
      <4> HIDE DEF q, l, h
      <4> QED BY <1>1, <1>2, <4>1, Z3
    <3>2. l * (q + 1) = l * q + l
      <4> HIDE DEF q, l, h
      <4> QED BY <1>1, <1>2, Z3
    <3> HIDE DEF q, l, h
    <3> QED BY <1>1, <1>2, <3>1, <3>2
  <2> HIDE DEF q, l, h
  <2> QED BY <1>2, <2>1
<1>4. l * q \in Nat
  <2> HIDE DEF q, l, h
  <2> QED BY <1>1, <1>2, <1>3
<1>5. k \in Nat /\ k >= 1 /\ k <= h /\ left \in Nat /\ left <= l
  <2> HIDE DEF q, l, h
  <2> QED BY <1>1, <1>2, <1>4
<1>6. paid \in Nat
  <2> HIDE DEF k
  <2> QED OBVIOUS
<1>7. v <= paid
  <2>1. v \in Int /\ 2 * (l * v) <= 2 * (paid * left) + l
    <3> HIDE DEF paid, left, l, k, h, q
    <3>1. paid * left \in Int /\ l \in Int /\ l > 0
      BY <1>1, <1>5, <1>6
    <3> QED BY <3>1, Rounded
  <2> HIDE DEF v, paid, left, l, k, h, q
  <2>2. paid * left <= paid * l
    BY <1>1, <1>5, <1>6, Z3
  <2>3. ASSUME paid < v PROVE FALSE
    <3>1. l * (paid + 1) <= l * v
      <4>1. paid + 1 <= v
        BY <1>6, <2>1, <2>3
      <4> QED BY <1>1, <1>6, <2>1, <4>1, Z3
    <3>2. l * (paid + 1) = paid * l + l
      BY <1>1, <1>6, Z3
    <3>3. paid * l \in Int /\ paid * left \in Int /\ l * v \in Int
      BY <1>1, <1>5, <1>6, <2>1
    <3> QED BY <1>1, <2>1, <2>2, <3>1, <3>2, <3>3
  <2> QED BY <1>6, <2>1, <2>3
<1>8. Commune!Salvage(p, given.horizon) = v /\ Commune!InstalledAt(p, given.horizon) = k
  BY DEF Commune!Salvage, Commune!InstalledAt
<1>9. Commune!Bought(p, k) = paid
  <2>1. CASE k = 1
    <3> HIDE DEF k
    <3>1. Commune!ReplacedIn(p, k) = 0
      BY <2>1 DEF Commune!ReplacedIn
    <3> QED BY <2>1, <3>1 DEF Commune!Bought
  <2>2. CASE k # 1
    <3> DEFINE x == l * q
               d == x \div l
               r == x % l
    <3>1. x \in Int /\ k - 1 = x
      <4> HIDE DEF q, l, h
      <4> QED BY <1>4
    <3>2. r \in Int /\ d \in Int /\ 0 <= r /\ r < l /\ x = l * d + r
      <4> HIDE DEF x, l, q, h
      <4> QED BY <1>1, <3>1, Z3
    <3>3. r = 0
      <4> HIDE DEF r, d, l, q, h
      <4>1. l * q = l * d + r
        BY <3>2
      <4>2. q <= d /\ d <= q
        <5>1. ASSUME d < q PROVE FALSE
          <6>1. l * (d + 1) <= l * q
            <7>1. d + 1 <= q
              BY <1>2, <3>2, <5>1
            <7> QED BY <1>1, <1>2, <3>2, <7>1, Z3
          <6>2. l * (d + 1) = l * d + l
            BY <1>1, <3>2, Z3
          <6>3. l * d \in Int
            BY <1>1, <3>2
          <6> QED BY <1>1, <3>2, <4>1, <6>1, <6>2, <6>3
        <5>2. ASSUME q < d PROVE FALSE
          <6>1. l * (q + 1) <= l * d
            <7>1. q + 1 <= d
              BY <1>2, <3>2, <5>2
            <7> QED BY <1>1, <1>2, <3>2, <7>1, Z3
          <6>2. l * (q + 1) = l * q + l
            BY <1>1, <1>2, Z3
          <6>3. l * q \in Int /\ l * d \in Int
            BY <1>1, <1>2, <3>2
          <6> QED BY <1>1, <3>2, <4>1, <6>1, <6>2, <6>3
        <5> QED BY <1>2, <3>2, <5>1, <5>2
      <4>3. q = d
        BY <1>2, <3>2, <4>2
      <4>4. l * d \in Int
        BY <1>1, <3>2
      <4> QED BY <3>2, <4>1, <4>3, <4>4
    <3>4. (k - 1) % l = 0
      <4>1. (k - 1) % l = x % l
        <5> HIDE DEF x, k, l
        <5> QED BY <3>1
      <4> HIDE DEF k, x
      <4> QED BY <3>3, <4>1
    <3>5. k > 1 /\ k <= given.horizon
      <4> HIDE DEF k
      <4> QED BY <1>5, <2>2
    <3>6. Commune!ReplacedIn(p, k) = p.again
      <4> HIDE DEF k
      <4> QED BY <3>4, <3>5 DEF Commune!ReplacedIn
    <3> HIDE DEF k
    <3> QED BY <2>2, <3>6 DEF Commune!Bought
  <2> QED BY <2>1, <2>2
<1> HIDE DEF v, k, paid
<1> QED BY <1>7, <1>8, <1>9

\* Nothing of a shared cost is lost between the community and the proformas of
\* its households (allocate_assets, household_proforma_rows, salvage_value).
THEOREM SharesAreWhole == CalculationsSpec => []AllocatedWhole
<1>1. CalculationsInit => CommuneInv
  <2> SUFFICES ASSUME CalculationsInit, running = "commune" PROVE CommuneInv
    BY DEF CommuneInv
  <2>1. given \in Communes /\ mark = "declared" /\ made = <<>>
    BY DEF CalculationsInit, CommuneInit, RegulationInit, BenefitsInit, BoundsInit, LedgerInit,
           SeriesInit, FilesInit, ShapesInit, ComposerInit, Commune!Init
  <2>2. Commune!IsCommune(given)
    BY <2>1, CommunesAssumption
  <2>3. given.horizon \in Nat
    BY <2>2, AssetsDeclared
  <2>4. made \in Seq({Allocation(y) : y \in 1 .. given.horizon}) /\ Len(made) = 0
    BY <2>1
  <2> QED BY <2>1, <2>2, <2>3, <2>4 DEF CommuneInv
<1>2. CommuneInv /\ [CalculationsNext]_calculationVars => CommuneInv'
  BY CommuneInductive
<1>3. CommuneInv => AllocatedWhole
  <2> SUFFICES ASSUME CommuneInv, running = "commune" PROVE Commune!AllocatedWhole
    BY DEF AllocatedWhole
  <2>1. /\ Commune!IsCommune(given) /\ mark # "broken" /\ given.horizon \in Nat
        /\ mark = "done" => WellDeclared /\ given.horizon >= 1
        /\ DOMAIN made = 1 .. Len(made) /\ Len(made) \in Nat /\ Len(made) <= given.horizon
        /\ \A y \in DOMAIN made : made[y] = Allocation(y)
        /\ made # <<>> => WellDeclared /\ Splittable
    BY AssetsDeclared DEF CommuneInv
  <2>2. ASSUME NEW y \in DOMAIN made
        PROVE  \A name \in Commune!Names : ShownFor(name, y, made[y][name])
    <3>1. y \in 1 .. given.horizon /\ WellDeclared /\ Splittable /\ made[y] = Allocation(y)
      BY <2>1
    <3> QED BY <2>1, <3>1, AllocationShows
  <2>3. ASSUME NEW y \in DOMAIN made
        PROVE  /\ Commune!Sum([i \in 1 .. Commune!n |-> Commune!Paid(i, y)])
                    + Commune!Sum([name \in Commune!Names |-> made[y][name].rest])
                  = Commune!n * Commune!OwnCosts
                    + Commune!Sum([name \in Commune!Names |-> Commune!AnnualCost(Commune!Asset(name), y)])
               /\ \A name \in Commune!Names :
                    Commune!Asset(name).rule # "none" => Commune!Fair(Commune!Asset(name), made[y][name])
    <3>1. \A name \in Commune!Names :
            Commune!Asset(name).rule # "none" => Commune!Fair(Commune!Asset(name), made[y][name])
      BY <2>2 DEF ShownFor
    <3> QED BY <2>1, <2>2, <3>1, YearBalances
  <2>4. ASSUME mark = "done", NEW a \in Commune!ToSet(Commune!assets), NEW p \in {Commune!Software(a), Commune!Hardware(a)}
        PROVE  Commune!Salvage(p, given.horizon) <= Commune!Bought(p, Commune!InstalledAt(p, given.horizon))
    <3>1. Commune!DeclaredWell(a) /\ given.horizon >= 1
      BY <2>1, <2>4 DEF WellDeclared
    <3>2. /\ a.software \in Nat /\ a.hardware \in Nat /\ a.softwareRatio \in Nat /\ a.hardwareRatio \in Nat
          /\ a.softwareLife \in Nat /\ a.softwareLife > 0 /\ a.hardwareLife \in Nat /\ a.hardwareLife > 0
      <4>1. /\ a.software \in Int /\ a.hardware \in Int /\ a.softwareRatio \in Int /\ a.hardwareRatio \in Int
            /\ a.softwareLife \in Int /\ a.hardwareLife \in Int
        BY <2>1, AssetsDeclared
      <4>2. /\ a.software >= 0 /\ a.hardware >= 0 /\ a.softwareRatio >= 0 /\ a.hardwareRatio >= 0
            /\ a.softwareLife > 0 /\ a.hardwareLife > 0
        BY <3>1, Zenon DEF Commune!DeclaredWell
      <4> QED BY <4>1, <4>2
    <3>3. ASSUME NEW c \in Nat, NEW r \in Nat PROVE Commune!HalvesToWon(c * r) \in Nat
      <4>1. c * r \in Nat
        OBVIOUS
      <4> DEFINE x == c * r
      <4>2. (x + 1) \div 2 \in Nat
        <5>1. x \in Nat
          BY <4>1
        <5> HIDE DEF x
        <5> QED BY <5>1
      <4> QED BY <4>2 DEF Commune!HalvesToWon
    <3>4. p.cost \in Nat /\ p.again \in Nat /\ p.life \in Nat /\ p.life > 0
      BY <3>2, <3>3 DEF Commune!Software, Commune!Hardware, Commune!Part
    <3> QED BY <2>1, <3>1, <3>4, LeftOverIsPaidFor
  <2> QED BY <2>1, <2>3, <2>4 DEF Commune!AllocatedWhole
<1> QED BY <1>1, <1>2, <1>3, PTL DEF CalculationsSpec

-----------------------------------------------------------------------------
(***************************************************************************)
(* RegulationRules: the list of items is what is looked up.                *)
(***************************************************************************)
Entries == [key : STRING, value : Int \cup {None}, from : Nat \cup {None}, to : Nat \cup {None}]
Nothing == [k \in {} |-> None]
Selections == UNION {[K -> Entries] : K \in SUBSET STRING}
Taken(selected, e, day) ==
  IF Regulation!AppliesOn(e, day) THEN Regulation!Select(selected, e) ELSE selected

\* Taking up an entry makes a selection of a selection.
LEMMA SelectionsStay ==
  ASSUME NEW s \in Selections, NEW e \in Entries, NEW day
  PROVE  Taken(s, e, day) \in Selections
<1>1. PICK K \in SUBSET STRING : s \in [K -> Entries]
  BY DEF Selections
<1> DEFINE L == K \cup {e.key}
           t == [k \in L |-> IF k = e.key THEN e ELSE s[k]]
<1>2. L \in SUBSET STRING
  BY DEF Entries
<1>3. t \in [L -> Entries]
  BY <1>1
<1>4. t \in Selections
  <2> HIDE DEF t, L
  <2> QED BY <1>2, <1>3 DEF Selections
<1>5. Regulation!Select(s, e) \in {s, t}
  BY <1>1 DEF Regulation!Select
<1> QED BY <1>4, <1>5 DEF Taken

\* The pass over the entries, one after the other.
LEMMA ItemsOneByOne ==
  ASSUME NEW p \in Seq(Entries), NEW day
  PROVE  \E it : /\ Regulation!Items(p, day) = it[1 .. Len(p)]
                 /\ it[{}] = Nothing
                 /\ \A k \in 1 .. Len(p) : it[1 .. k] = Taken(it[1 .. k - 1], p[k], day)
<1> DEFINE n == Len(p)
           F == [q \in Selections \X (1 .. n) |-> Taken(q[1], p[q[2]], day)]
           fold == CHOOSE it : it = [u \in SUBSET (DOMAIN p) |->
                     IF u = {} THEN Nothing ELSE Taken(it[u \ {Topmost(u)}], p[Topmost(u)], day)]
<1>1. n \in Nat /\ DOMAIN p = 1 .. n /\ \A k \in 1 .. n : p[k] \in Entries
  OBVIOUS
<1>2. Regulation!Items(p, day) = fold[DOMAIN p]
  BY Zenon DEF Regulation!Items, Regulation!FoldLeft, Regulation!MapThenFoldSet, Regulation!Max, Taken, Topmost, Nothing
<1>3. Nothing \in Selections
  <2>1. Nothing \in [{} -> Entries] /\ {} \in SUBSET STRING
    BY DEF Nothing
  <2> QED BY <2>1 DEF Selections
<1>4. F \in [Selections \X (1 .. n) -> Selections]
  <2> SUFFICES ASSUME NEW q \in Selections \X (1 .. n) PROVE Taken(q[1], p[q[2]], day) \in Selections
    OBVIOUS
  <2>1. q[1] \in Selections /\ p[q[2]] \in Entries
    BY <1>1
  <2> QED BY <2>1, SelectionsStay
<1>5. PICK it : FoldsLeft(it, n, Selections, Nothing, F)
  <2> HIDE DEF n, F
  <2> QED BY <1>1, <1>3, <1>4, LeftFold
<1>6. ASSUME NEW u \in SUBSET (1 .. n), u # {}
      PROVE  F[<<it[u \ {Topmost(u)}], Topmost(u)>>] = Taken(it[u \ {Topmost(u)}], p[Topmost(u)], day)
  <2>1. Topmost(u) \in 1 .. n /\ it[u \ {Topmost(u)}] \in Selections
    <3> HIDE DEF n, F
    <3>1. Topmost(u) \in u
      BY <1>1, <1>6, TopmostIsIn
    <3> QED BY <1>5, <3>1 DEF FoldsLeft
  <2> HIDE DEF n
  <2> QED BY <2>1
<1>7. it = [u \in SUBSET (DOMAIN p) |->
             IF u = {} THEN Nothing ELSE Taken(it[u \ {Topmost(u)}], p[Topmost(u)], day)]
  <2> HIDE DEF n, F
  <2> QED BY <1>1, <1>5, <1>6 DEF FoldsLeft
<1>8. fold = [u \in SUBSET (DOMAIN p) |->
               IF u = {} THEN Nothing ELSE Taken(fold[u \ {Topmost(u)}], p[Topmost(u)], day)]
  <2> HIDE DEF n, F
  <2> QED BY <1>7, Zenon
<1>9. \A k \in 1 .. n : fold[1 .. k] = Taken(fold[1 .. k - 1], p[k], day)
  <2> SUFFICES ASSUME NEW k \in 1 .. n PROVE fold[1 .. k] = Taken(fold[1 .. k - 1], p[k], day)
    OBVIOUS
  <2> DEFINE u == 1 .. k
             v == 1 .. k - 1
  <2>1. u \in SUBSET (1 .. n) /\ u # {}
    <3> HIDE DEF n, fold
    <3> QED BY <1>1
  <2>2. Topmost(u) = k /\ u \ {k} = v
    <3> HIDE DEF n
    <3> QED BY <1>1, TopmostOfFirst
  <2> HIDE DEF u, v, n, fold
  <2>3. fold[u] = Taken(fold[u \ {Topmost(u)}], p[Topmost(u)], day)
    BY <1>1, <1>8, <2>1
  <2>4. fold[u] = Taken(fold[v], p[k], day)
    BY <2>2, <2>3
  <2> QED BY <2>4 DEF u, v
<1>10. fold[{}] = Nothing
  <2> HIDE DEF n, F, fold
  <2>1. {} \in SUBSET (DOMAIN p)
    OBVIOUS
  <2> QED BY <1>8, <2>1
<1> HIDE DEF fold
<1> QED BY <1>1, <1>2, <1>9, <1>10

\* Of the candidates the one valid from the latest day, the first listed of several.
Chosen(p, i, C) ==
  /\ i \in C
  /\ \A j \in C : \/ Regulation!From(p[j]) < Regulation!From(p[i])
                  \/ Regulation!From(p[j]) = Regulation!From(p[i]) /\ i <= j
FirstCandidates(p, key, day, k) == {i \in 1 .. k : p[i].key = key /\ Regulation!AppliesOn(p[i], day)}
\* What is selected after k entries.
Selected(s, p, day, k) ==
  /\ DOMAIN s = {p[i].key : i \in {j \in 1 .. k : Regulation!AppliesOn(p[j], day)}}
  /\ \A key \in DOMAIN s : \E i \in 1 .. k : Chosen(p, i, FirstCandidates(p, key, day, k)) /\ s[key] = p[i]

\* What the list has of a key is what the lookup has, one entry after the other.
LEMMA SelectedStays ==
  ASSUME NEW p \in Seq(Entries), NEW day, NEW k \in Nat, k + 1 <= Len(p), NEW s, Selected(s, p, day, k)
  PROVE  Selected(Taken(s, p[k + 1], day), p, day, k + 1)
<1> DEFINE e == p[k + 1]
           t == Taken(s, e, day)
           C(key) == FirstCandidates(p, key, day, k)
           D(key) == FirstCandidates(p, key, day, k + 1)
           new == k + 1
<1>1. /\ new \in 1 .. new /\ 1 .. new = (1 .. k) \cup {new} /\ new \notin 1 .. k
      /\ \A i \in 1 .. new : p[i] \in Entries /\ i \in Nat
  OBVIOUS
<1>2. \A i \in 1 .. new : Regulation!From(p[i]) \in Nat
  BY <1>1 DEF Regulation!From, Entries
<1>3. \A key : key # e.key \/ ~Regulation!AppliesOn(e, day) => D(key) = C(key)
  BY <1>1 DEF FirstCandidates
<1>4. CASE ~Regulation!AppliesOn(e, day)
  <2>1. t = s
    BY <1>4 DEF Taken
  <2>2. {j \in 1 .. new : Regulation!AppliesOn(p[j], day)} = {j \in 1 .. k : Regulation!AppliesOn(p[j], day)}
    BY <1>1, <1>4
  <2> HIDE DEF C, D, new, e
  <2>3. \A key : FirstCandidates(p, key, day, new) = FirstCandidates(p, key, day, k)
    BY <1>3, <1>4 DEF C, D, new
  <2>4. Selected(s, p, day, new)
    BY <1>1, <2>2, <2>3 DEF Selected
  <2> QED BY <2>1, <2>4 DEF new, e
<1>5. CASE Regulation!AppliesOn(e, day)
  <2>1. t = Regulation!Select(s, e)
    BY <1>5 DEF Taken
  <2>2. D(e.key) = C(e.key) \cup {new}
    BY <1>1, <1>5 DEF FirstCandidates
  <2>3. {p[i].key : i \in {j \in 1 .. new : Regulation!AppliesOn(p[j], day)}} = DOMAIN s \cup {e.key}
    <3>1. {j \in 1 .. new : Regulation!AppliesOn(p[j], day)} = {j \in 1 .. k : Regulation!AppliesOn(p[j], day)} \cup {new}
      BY <1>1, <1>5
    <3> HIDE DEF new
    <3> QED BY <3>1 DEF Selected, new
  <2>4. DOMAIN t = DOMAIN s \cup {e.key}
    BY <2>1 DEF Regulation!Select
  <2>5. \A i \in C(e.key) : i \in 1 .. k /\ i \in Nat /\ p[i].key = e.key /\ e.key \in DOMAIN s
    BY DEF FirstCandidates, Selected
  <2>6. \E i \in 1 .. new : Chosen(p, i, D(e.key)) /\ t[e.key] = p[i]
    <3>1. CASE e.key \in DOMAIN s
      <4>1. PICK i \in 1 .. k : Chosen(p, i, C(e.key)) /\ s[e.key] = p[i]
        BY <3>1 DEF Selected
      <4>2. CASE ~Regulation!Later(e, s[e.key])
        <5>1. t = s
          BY <2>1, <3>1, <4>2 DEF Regulation!Select
        <5>2. Regulation!From(e) <= Regulation!From(p[i]) /\ i \in 1 .. new /\ i <= new
          BY <1>1, <1>2, <4>1, <4>2 DEF Regulation!Later
        <5>3. Chosen(p, i, D(e.key))
          <6> HIDE DEF C, D, t
          <6>1. Regulation!From(p[new]) = Regulation!From(e)
            OBVIOUS
          <6>2. Regulation!From(e) \in Nat /\ Regulation!From(p[i]) \in Nat
            BY <1>1, <1>2, <5>2, <6>1
          <6>3. Regulation!From(p[new]) <= Regulation!From(p[i])
            BY <5>2, <6>1
          <6> HIDE DEF new, e
          <6>4. \/ Regulation!From(p[new]) < Regulation!From(p[i])
                \/ Regulation!From(p[new]) = Regulation!From(p[i]) /\ i <= new
            BY <5>2, <6>1, <6>2, <6>3
          <6>5. i \in C(e.key) /\ \A j \in C(e.key) :
                  \/ Regulation!From(p[j]) < Regulation!From(p[i])
                  \/ Regulation!From(p[j]) = Regulation!From(p[i]) /\ i <= j
            BY <4>1 DEF Chosen
          <6> QED BY <2>2, <6>4, <6>5 DEF Chosen
        <5> QED BY <4>1, <5>1, <5>2, <5>3
      <4>3. CASE Regulation!Later(e, s[e.key])
        <5>1. t[e.key] = e
          BY <2>1, <3>1, <4>3 DEF Regulation!Select
        <5>2. Regulation!From(p[i]) < Regulation!From(p[new])
          BY <1>1, <1>2, <4>1, <4>3 DEF Regulation!Later
        <5>3. Chosen(p, new, D(e.key))
          <6>1. ASSUME NEW j \in C(e.key) PROVE Regulation!From(p[j]) < Regulation!From(p[new])
            <7>1. j \in 1 .. new /\ i \in 1 .. new
              BY <1>1, <2>5
            <7>2. Regulation!From(p[j]) \in Nat /\ Regulation!From(p[i]) \in Nat /\ Regulation!From(p[new]) \in Nat
              BY <1>1, <1>2, <7>1
            <7> HIDE DEF C, D, t, e, new
            <7>3. \/ Regulation!From(p[j]) < Regulation!From(p[i])
                  \/ Regulation!From(p[j]) = Regulation!From(p[i])
              BY <4>1, <6>1 DEF Chosen
            <7> QED BY <5>2, <7>2, <7>3
          <6> HIDE DEF C, D, t, e
          <6> QED BY <1>1, <2>2, <6>1 DEF Chosen
        <5> QED BY <1>1, <5>1, <5>3
      <4> QED BY <4>2, <4>3
    <3>2. CASE e.key \notin DOMAIN s
      <4>1. C(e.key) = {}
        BY <2>5, <3>2
      <4>2. t[e.key] = e
        BY <2>1, <3>2 DEF Regulation!Select
      <4>3. Chosen(p, new, D(e.key))
        <5> HIDE DEF C, D, t, e
        <5> QED BY <1>1, <2>2, <4>1 DEF Chosen
      <4> QED BY <1>1, <4>2, <4>3
    <3> QED BY <3>1, <3>2
  <2>7. ASSUME NEW key \in DOMAIN t, key # e.key
        PROVE  \E i \in 1 .. new : Chosen(p, i, D(key)) /\ t[key] = p[i]
    <3>1. key \in DOMAIN s /\ t[key] = s[key]
      BY <2>1, <2>4, <2>7 DEF Regulation!Select
    <3>2. D(key) = C(key)
      BY <1>3, <2>7
    <3>3. PICK i \in 1 .. k : Chosen(p, i, C(key)) /\ s[key] = p[i]
      BY <3>1 DEF Selected
    <3> HIDE DEF C, D, t, e, new
    <3> QED BY <1>1, <3>1, <3>2, <3>3
  <2> HIDE DEF t, e
  <2> QED BY <2>3, <2>4, <2>6, <2>7 DEF Selected, t, e
<1> QED BY <1>4, <1>5

\* What is listed for a day is what is looked up that day.
THEOREM ListsAreLookedUp ==
  ASSUME NEW p, Regulation!IsProfile(p)
  PROVE  /\ Regulation!ListedAsLookedUp(p)
         /\ \A k : Regulation!Has(p, k, given.day) <=> k \in DOMAIN Regulation!Items(p, given.day)
         /\ \A k \in DOMAIN Regulation!Items(p, given.day) : Regulation!Items(p, given.day)[k] \in Entries
<1> DEFINE n == Len(p)
           day == given.day
           items == Regulation!Items(p, day)
<1>1. p \in Seq(Entries)
  BY DEF Regulation!IsProfile, Entries
<1>2. n \in Nat /\ DOMAIN p = 1 .. n /\ \A i \in 1 .. n : p[i] \in Entries
  BY <1>1
<1>3. PICK it : /\ items = it[1 .. Len(p)] /\ it[{}] = Nothing
                /\ \A k \in 1 .. Len(p) : it[1 .. k] = Taken(it[1 .. k - 1], p[k], day)
  <2> HIDE DEF day
  <2> QED BY <1>1, ItemsOneByOne
<1> HIDE DEF items, day
<1>4. Selected(it[1 .. n], p, day, n)
  <2> DEFINE G == {k \in Nat : k <= n => Selected(it[1 .. k], p, day, k)}
  <2>1. 0 \in G
    <3>1. 1 .. 0 = {} /\ DOMAIN Nothing = {}
      BY DEF Nothing
    <3>2. Selected(Nothing, p, day, 0)
      BY <3>1 DEF Selected
    <3> QED BY <1>3, <3>1, <3>2
  <2>2. ASSUME NEW k \in Nat, k \in G PROVE k + 1 \in G
    <3> SUFFICES ASSUME k + 1 <= n PROVE Selected(it[1 .. k + 1], p, day, k + 1)
      OBVIOUS
    <3>1. Selected(it[1 .. k], p, day, k)
      BY <1>2, <2>2
    <3>2. k + 1 \in 1 .. n /\ (k + 1) - 1 = k
      BY <1>2
    <3>3. it[1 .. k + 1] = Taken(it[1 .. (k + 1) - 1], p[k + 1], day)
      BY <1>3, <3>2
    <3>4. it[1 .. k + 1] = Taken(it[1 .. k], p[k + 1], day)
      BY <3>2, <3>3
    <3>5. Selected(Taken(it[1 .. k], p[k + 1], day), p, day, k + 1)
      BY <1>1, <3>1, SelectedStays
    <3> QED BY <3>4, <3>5
  <2>3. \A k \in Nat : k \in G
    <3> HIDE DEF G
    <3> QED BY <2>1, <2>2, NumberInduction
  <2>4. n \in G
    <3> HIDE DEF G
    <3> QED BY <1>2, <2>3
  <2> QED BY <1>2, <2>4
<1>5. Selected(items, p, day, n)
  BY <1>3, <1>4
<1>6. \A key : Regulation!Candidates(p, key, day) = FirstCandidates(p, key, day, n)
  BY <1>2 DEF Regulation!Candidates, FirstCandidates
<1>7. DOMAIN items = {k \in {e.key : e \in Regulation!ToSet(p)} : Regulation!Has(p, k, day)}
  <2>1. ASSUME NEW k \in DOMAIN items PROVE k \in {e.key : e \in Regulation!ToSet(p)} /\ Regulation!Has(p, k, day)
    <3>1. PICK i \in 1 .. n : p[i].key = k /\ Regulation!AppliesOn(p[i], day)
      BY <1>5 DEF Selected
    <3>2. i \in Regulation!Candidates(p, k, day) /\ p[i] \in Regulation!ToSet(p)
      BY <1>2, <3>1 DEF Regulation!Candidates, Regulation!ToSet
    <3> QED BY <3>1, <3>2 DEF Regulation!Has
  <2>2. ASSUME NEW k, Regulation!Has(p, k, day) PROVE k \in DOMAIN items
    <3>1. PICK i \in 1 .. n : p[i].key = k /\ Regulation!AppliesOn(p[i], day)
      BY <1>2, <2>2 DEF Regulation!Candidates, Regulation!Has
    <3> QED BY <1>5, <3>1 DEF Selected
  <2> QED BY <2>1, <2>2
<1>9. ASSUME NEW k, Regulation!Has(p, k, day) PROVE k \in DOMAIN items
  <2>1. PICK i \in 1 .. n : p[i].key = k /\ Regulation!AppliesOn(p[i], day)
    BY <1>2, <1>9 DEF Regulation!Candidates, Regulation!Has
  <2> QED BY <1>5, <2>1 DEF Selected
<1>8. ASSUME NEW k \in DOMAIN items PROVE items[k] = Regulation!Get(p, k, day) /\ items[k] \in Entries
  <2> DEFINE C == Regulation!Candidates(p, k, day)
  <2>1. PICK i \in 1 .. n : Chosen(p, i, C) /\ items[k] = p[i]
    BY <1>5, <1>6 DEF Selected
  <2>2. \A j \in C : j \in 1 .. n
    BY <1>2 DEF Regulation!Candidates
  <2>3. \A j \in C : Regulation!From(p[j]) \in Nat /\ j \in Nat
    <3>1. ASSUME NEW j \in C PROVE Regulation!From(p[j]) \in Nat
      <4>1. p[j] \in Entries
        BY <1>2, <2>2
      <4> QED BY <4>1 DEF Regulation!From, Entries
    <3> QED BY <1>2, <2>2, <3>1
  <2> HIDE DEF C
  <2> DEFINE j == CHOOSE j \in C :
                   \A h \in C : Regulation!From(p[h]) < Regulation!From(p[j]) \/ (Regulation!From(p[h]) = Regulation!From(p[j]) /\ j <= h)
  <2>4. Chosen(p, j, C)
    <3>1. \E g \in C :
            \A h \in C : Regulation!From(p[h]) < Regulation!From(p[g]) \/ (Regulation!From(p[h]) = Regulation!From(p[g]) /\ g <= h)
      BY <2>1, Zenon DEF Chosen
    <3> QED BY <3>1, Zenon DEF Chosen
  <2>5. Regulation!Get(p, k, day) = p[j]
    BY Zenon DEF Regulation!Get, C
  <2>6. j = i
    <3> HIDE DEF j
    <3>1. i \in C /\ j \in C
      BY <2>1, <2>4 DEF Chosen
    <3>2. \/ Regulation!From(p[j]) < Regulation!From(p[i])
          \/ Regulation!From(p[j]) = Regulation!From(p[i]) /\ i <= j
      BY <2>1, <3>1 DEF Chosen
    <3>3. \/ Regulation!From(p[i]) < Regulation!From(p[j])
          \/ Regulation!From(p[i]) = Regulation!From(p[j]) /\ j <= i
      BY <2>4, <3>1 DEF Chosen
    <3> QED BY <2>3, <3>1, <3>2, <3>3
  <2> HIDE DEF j
  <2> QED BY <1>2, <2>1, <2>5, <2>6
<1>10. \A k : Regulation!Has(p, k, day) <=> k \in DOMAIN items
  BY <1>7, <1>9
<1> QED BY <1>7, <1>8, <1>10 DEF Regulation!ListedAsLookedUp, items, day

(***************************************************************************)
(* What is owed is owed for what is missing.                               *)
(***************************************************************************)
LEMMA ChargeIsForMissing ==
  ASSUME NEW p, Regulation!IsCommunity(given.community), Regulation!Assessable(p), Regulation!Ratio(p, "sufficient"),
         \A k : Regulation!Numbered(p, k) => Regulation!Number(p, k) \in Int
  PROVE  Regulation!ChargedForMissing(p, Regulation!Duty(p))
<1> DEFINE d == Regulation!Duty(p)
           consumed == given.community.consumed
           procured == given.community.procured
           ratio == Regulation!Number(p, "required")
           req == Regulation!Required(p)
           ext == Regulation!External
           alw == Regulation!AllowedExternal(p)
           exc == Regulation!ExcessExternal(p)
<1>1. /\ consumed \in Int /\ procured \in Int /\ consumed > 0 /\ procured >= 0
      /\ given.community.supplied \in Int /\ given.community.imported \in Int
  BY DEF Regulation!IsCommunity, Regulation!Assessable, Regulation!who
<1>2. ratio \in 0 .. 100
  BY DEF Regulation!Assessable, Regulation!Ratio
<1>3. req \in Int /\ 0 <= req /\ req <= consumed
  <2> DEFINE x == consumed * ratio
  <2>1. x \in Int /\ 0 <= x /\ x <= consumed * 100
    <3> HIDE DEF consumed, ratio
    <3>1. ratio \in Int /\ 0 <= ratio /\ ratio <= 100
      BY <1>2
    <3>2. 0 <= consumed * ratio
      BY <1>1, <3>1, Z3
    <3>3. consumed * ratio <= consumed * 100
      BY <1>1, <3>1, Z3
    <3>4. consumed * ratio \in Int
      BY <1>1, <3>1
    <3> QED BY <3>2, <3>3, <3>4
  <2>2. req = x \div 100
    BY DEF Regulation!Required, Regulation!who
  <2> HIDE DEF x, consumed, req
  <2> QED BY <1>1, <2>1, <2>2
<1>4. ext = (IF consumed - procured < 0 THEN 0 ELSE consumed - procured) /\ alw = consumed - req
      /\ exc = (IF ext - alw < 0 THEN 0 ELSE ext - alw)
      /\ Regulation!Shortfall(p) = (IF req - procured < 0 THEN 0 ELSE req - procured)
  BY DEF Regulation!External, Regulation!AllowedExternal, Regulation!ExcessExternal, Regulation!Shortfall, Regulation!More,
     Regulation!who
<1>5. /\ d.short = Regulation!Shortfall(p) /\ d.over = exc /\ d.exempt = Regulation!Exempt(p)
      /\ d.warning = (~Regulation!Exempt(p) /\ exc > 0)
      /\ Regulation!Exempt(p) => d.charge = Regulation!NoCharge
      /\ ~Regulation!Exempt(p) => d.charge.excess = Regulation!TenthsToWon(exc * Regulation!Number(p, "excess"))
  BY DEF Regulation!Duty
<1>6. /\ Regulation!Alert(d).triggered = d.warning /\ Regulation!Alert(d).cost = d.charge.excess
  BY DEF Regulation!Alert
<1> HIDE DEF d, ext, alw, exc, req, consumed, procured
<1>7. /\ exc = Regulation!Shortfall(p) /\ exc \in Int /\ exc >= 0
      /\ Regulation!Less(ext, alw) + exc = ext
      /\ exc > 0 <=> procured < req
  <2>1. ext \in Int /\ alw \in Int /\ ext >= 0
    BY <1>1, <1>3, <1>4
  <2>2. exc \in Int /\ exc >= 0 /\ (ext < alw => exc = 0) /\ (~(ext < alw) => exc = ext - alw)
    BY <1>4, <2>1
  <2>3. exc = Regulation!Shortfall(p)
    BY <1>1, <1>3, <1>4
  <2>4. Regulation!Less(ext, alw) + exc = ext
    BY <2>1, <2>2 DEF Regulation!Less
  <2>5. exc > 0 <=> procured < req
    BY <1>1, <1>3, <1>4, <2>3
  <2> QED BY <2>2, <2>3, <2>4, <2>5
<1>8. d.exempt => d.charge = Regulation!NoCharge /\ ~Regulation!Alert(d).triggered /\ Regulation!Alert(d).cost = 0
  <2> SUFFICES ASSUME d.exempt
               PROVE  d.charge = Regulation!NoCharge /\ ~Regulation!Alert(d).triggered /\ Regulation!Alert(d).cost = 0
    OBVIOUS
  <2>1. Regulation!Exempt(p)
    BY <1>5, Zenon
  <2>2. d.charge = Regulation!NoCharge
    BY <1>5, <2>1
  <2>3. Regulation!Alert(d).cost = 0
    BY <1>6, <2>2 DEF Regulation!NoCharge
  <2>4. ~d.warning
    BY <1>5, <2>1
  <2> QED BY <1>6, <2>2, <2>3, <2>4, Zenon
<1>9. Regulation!Alert(d).cost > 0 => Regulation!Alert(d).triggered
  <2>1. CASE Regulation!Exempt(p)
    <3>1. Regulation!Alert(d).cost = 0
      BY <1>5, <1>8, <2>1
    <3> QED BY <3>1
  <2>2. CASE ~Regulation!Exempt(p)
    <3> SUFFICES ASSUME ~(exc > 0) PROVE ~(Regulation!Alert(d).cost > 0)
      BY <1>5, <1>6, <2>2
    <3>1. exc = 0
      BY <1>7
    <3>2. Regulation!Number(p, "excess") \in Int
      BY <2>2 DEF Regulation!Assessable
    <3>3. exc * Regulation!Number(p, "excess") = 0
      BY <3>1, <3>2
    <3>4. Regulation!Alert(d).cost = Regulation!TenthsToWon(0)
      BY <1>5, <1>6, <2>2, <3>3
    <3>5. Regulation!TenthsToWon(0) = 0
      BY DEF Regulation!TenthsToWon
    <3> QED BY <3>4, <3>5
  <2> QED BY <2>1, <2>2
<1>10. ~d.exempt => (Regulation!Alert(d).triggered <=> procured < req)
  BY <1>5, <1>6, <1>7
<1>11. given.community.supplied + given.community.imported = consumed
         => (Regulation!Insufficient(p, "self_supply") <=> Regulation!Insufficient(p, "grid_burden"))
  <2> SUFFICES ASSUME given.community.supplied + given.community.imported = consumed
               PROVE  Regulation!Sufficiency("self_supply") = Regulation!Sufficiency("grid_burden")
    BY DEF Regulation!Insufficient
  <2>1. given.community.supplied = consumed - given.community.imported
    BY <1>1
  <2>2. Regulation!Sufficiency("self_supply") = 100 * given.community.supplied
    BY DEF Regulation!Sufficiency, Regulation!who
  <2>3. Regulation!Sufficiency("grid_burden") = 100 * (consumed - given.community.imported)
    BY DEF Regulation!Sufficiency, Regulation!who, consumed
  <2> QED BY <2>1, <2>2, <2>3
<1> QED BY <1>5, <1>7, <1>8, <1>9, <1>10, <1>11
  DEF Regulation!ChargedForMissing, Regulation!who, d, ext, alw, exc, req, consumed, procured

\* What counts as a number of a profile is one.
LEMMA NumbersAreInts ==
  ASSUME NEW p, Regulation!IsProfile(p), NEW k, Regulation!Numbered(p, k)
  PROVE  Regulation!Number(p, k) \in Int
<1>1. Regulation!Items(p, given.day)[k] \in Entries /\ Regulation!Items(p, given.day)[k] = Regulation!Get(p, k, given.day)
  BY ListsAreLookedUp DEF Regulation!Numbered, Regulation!ListedAsLookedUp
<1> QED BY <1>1 DEF Regulation!Number, Regulation!Numbered, Regulation!Numeric, Entries

\* What a preview does not name is the same, and a value that does not change is.
LEMMA PreviewNamesChanges ==
  ASSUME Regulation!IsProfile(given.current), Regulation!IsProfile(given.proposed)
  PROVE  /\ \A k : k \notin DOMAIN Regulation!Differences /\ Regulation!Has(given.current, k, given.day)
                   /\ Regulation!Has(given.proposed, k, given.day)
                => Regulation!Get(given.current, k, given.day) = Regulation!Get(given.proposed, k, given.day)
         /\ \A k \in DOMAIN Regulation!Differences :
              Regulation!Differences[k].change # None /\ Regulation!Differences[k].change.num = 0
                => Regulation!Get(given.current, k, given.day).value = Regulation!Get(given.proposed, k, given.day).value
<1> DEFINE left == Regulation!Items(given.current, given.day)
           right == Regulation!Items(given.proposed, given.day)
           keys == {k \in DOMAIN left \cup DOMAIN right : Regulation!ItemOf(left, k) # Regulation!ItemOf(right, k)}
           change(k) == Regulation!Relative(Regulation!ItemOf(left, k), Regulation!ItemOf(right, k))
<1>1. /\ \A k : Regulation!Has(given.current, k, given.day) <=> k \in DOMAIN left
      /\ \A k \in DOMAIN left : left[k] = Regulation!Get(given.current, k, given.day) /\ left[k] \in Entries
  BY ListsAreLookedUp DEF Regulation!ListedAsLookedUp
<1>2. /\ \A k : Regulation!Has(given.proposed, k, given.day) <=> k \in DOMAIN right
      /\ \A k \in DOMAIN right : right[k] = Regulation!Get(given.proposed, k, given.day) /\ right[k] \in Entries
  BY ListsAreLookedUp DEF Regulation!ListedAsLookedUp
<1>3. DOMAIN Regulation!Differences = keys /\ \A k \in keys : Regulation!Differences[k].change = change(k)
  BY DEF Regulation!Differences
<1> HIDE DEF left, right
<1>4. ASSUME NEW k, k \notin keys, k \in DOMAIN left, k \in DOMAIN right PROVE left[k] = right[k]
  BY <1>4 DEF Regulation!ItemOf
<1>5. ASSUME NEW k \in keys, change(k) # None, change(k).num = 0
      PROVE  k \in DOMAIN left /\ k \in DOMAIN right /\ left[k].value = right[k].value
  <2> DEFINE before == Regulation!ItemOf(left, k)
             after == Regulation!ItemOf(right, k)
  <2>1. change(k) = Regulation!Relative(before, after)
    OBVIOUS
  <2>2. before # None /\ after # None /\ Regulation!Numeric(before.value) /\ Regulation!Numeric(after.value)
        /\ change(k) = [num |-> after.value - before.value, den |-> before.value]
    <3> HIDE DEF before, after
    <3> QED BY <1>5, <2>1 DEF Regulation!Relative
  <2>3. k \in DOMAIN left /\ k \in DOMAIN right /\ before = left[k] /\ after = right[k]
    BY <2>2 DEF Regulation!ItemOf
  <2> HIDE DEF before, after
  <2>4. before \in Entries /\ after \in Entries
    BY <1>1, <1>2, <2>3
  <2>5. before.value \in Int /\ after.value \in Int
    BY <2>2, <2>4 DEF Regulation!Numeric, Entries
  <2>6. after.value - before.value = 0
    <3>1. change(k).num = after.value - before.value
      <4> HIDE DEF change
      <4> QED BY <2>2
    <3> QED BY <1>5, <3>1
  <2> QED BY <2>3, <2>5, <2>6
<1> HIDE DEF keys, change
<1> QED BY <1>1, <1>2, <1>3, <1>4, <1>5

RegulationInv ==
  running = "regulation" =>
    /\ Regulation!IsProfile(given.current) /\ Regulation!IsProfile(given.proposed)
    /\ Regulation!IsCommunity(given.community)
    /\ mark \in {"asked", "previewed", "assessed", "failed"}
    /\ mark \in {"previewed", "failed"} => made = <<Regulation!Differences>>
    /\ mark = "assessed" =>
         /\ made = <<Regulation!Differences, [p \in {given.current, given.proposed} |-> Regulation!Duty(p)]>>
         /\ \A p \in {given.current, given.proposed} : Regulation!Assessable(p) /\ Regulation!Ratio(p, "sufficient")

\* What is computed from the question stays while the question does.
LEMMA ProfilesStay ==
  ASSUME given' = given
  PROVE  /\ Regulation!Differences' = Regulation!Differences
         /\ \A p : Regulation!Duty(p)' = Regulation!Duty(p)
         /\ \A p : Regulation!Assessable(p)' <=> Regulation!Assessable(p)
         /\ \A p : Regulation!Ratio(p, "sufficient")' <=> Regulation!Ratio(p, "sufficient")
<1>1. Regulation!Differences' = Regulation!Differences
  BY DEF Regulation!Differences
<1>2. \A p, k : Regulation!Number(p, k)' = Regulation!Number(p, k)
  BY DEF Regulation!Number
<1>3. \A p, k : Regulation!Numbered(p, k)' <=> Regulation!Numbered(p, k)
  BY <1>2 DEF Regulation!Numbered
<1>4. \A p, k : Regulation!Ratio(p, k)' <=> Regulation!Ratio(p, k)
  BY <1>2, <1>3 DEF Regulation!Ratio
<1>5. \A p : Regulation!Required(p)' = Regulation!Required(p)
  BY <1>2 DEF Regulation!Required, Regulation!who
<1>6. \A p : Regulation!Exempt(p)' <=> Regulation!Exempt(p)
  BY <1>2 DEF Regulation!Exempt, Regulation!who
<1>7. \A p : /\ Regulation!External' = Regulation!External
             /\ Regulation!AllowedExternal(p)' = Regulation!AllowedExternal(p)
             /\ Regulation!ExcessExternal(p)' = Regulation!ExcessExternal(p)
             /\ Regulation!Shortfall(p)' = Regulation!Shortfall(p)
  BY <1>5 DEF Regulation!External, Regulation!AllowedExternal, Regulation!ExcessExternal, Regulation!Shortfall,
     Regulation!who
<1>8. \A p : Regulation!Assessable(p)' <=> Regulation!Assessable(p)
  BY <1>3, <1>4, <1>6 DEF Regulation!Assessable, Regulation!who
<1>9. \A p : Regulation!Duty(p)' = Regulation!Duty(p)
  BY <1>2, <1>6, <1>7 DEF Regulation!Duty
<1> QED BY <1>1, <1>4, <1>8, <1>9

\* A second result is appended to the first.
LEMMA AppendSecond == ASSUME NEW x, NEW y PROVE Append(<<x>>, y) = <<x, y>>
<1>1. <<x>> \in Seq({x, y}) /\ <<x, y>> \in Seq({x, y})
  OBVIOUS
<1> DEFINE s == <<x>>
           t == <<x, y>>
           u == Append(s, y)
<1>2. s \in Seq({x, y}) /\ t \in Seq({x, y}) /\ Len(s) = 1 /\ Len(t) = 2 /\ s[1] = x /\ t[1] = x /\ t[2] = y
  BY <1>1
<1> HIDE DEF s, t
<1>3. u \in Seq({x, y}) /\ Len(u) = 2 /\ u[1] = x /\ u[2] = y
  <2> DEFINE E == {x, y}
  <2>1. s \in Seq(E) /\ y \in E
    BY <1>2
  <2> HIDE DEF E
  <2>2. u \in Seq(E) /\ Len(u) = Len(s) + 1 /\ u[Len(s) + 1] = y
    BY <2>1
  <2>3. \A i \in 1 .. Len(s) : u[i] = s[i]
    BY <2>1
  <2>4. u \in Seq({x, y})
    BY <2>2 DEF E
  <2> HIDE DEF u
  <2> QED BY <1>2, <2>2, <2>3, <2>4
<1> HIDE DEF u
<1>4. DOMAIN u = 1 .. 2 /\ DOMAIN t = 1 .. 2
  BY <1>2, <1>3
<1>5. \A i \in 1 .. 2 : u[i] = t[i]
  BY <1>2, <1>3
<1>6. u = [i \in 1 .. 2 |-> u[i]] /\ t = [i \in 1 .. 2 |-> t[i]]
  BY <1>2, <1>3, <1>4
<1>7. u = t
  BY <1>5, <1>6
<1> QED BY <1>7 DEF u, s, t

\* Every step keeps RegulationInv.
LEMMA RegulationInductive ==
  ASSUME RegulationInv, [CalculationsNext]_calculationVars
  PROVE  RegulationInv'
<1> SUFFICES ASSUME running' = "regulation" PROVE RegulationInv'
  BY DEF RegulationInv
<1> DEFINE owed == [p \in {given.current, given.proposed} |-> Regulation!Duty(p)]
           judged == \A p \in {given.current, given.proposed} : Regulation!Assessable(p) /\ Regulation!Ratio(p, "sufficient")
<1>1. running = "regulation"
  BY DEF CalculationsNext, calculationVars
<1>2. Regulation!Next \/ UNCHANGED <<given, made, mark>>
  BY <1>1 DEF CalculationsNext, calculationVars, ApplyDuty, ShareAssets, ListBenefits, ComposeBounds, OverrideLedger,
         UseSeries, StoreSeries, SpreadShapes, ComposeModel
<1>3. given' = given
  BY <1>2 DEF Regulation!Next, Regulation!Preview, Regulation!Assess
<1>4. owed' = owed /\ (judged' <=> judged) /\ Regulation!Differences' = Regulation!Differences
  BY <1>3, ProfilesStay
<1>5. /\ Regulation!IsProfile(given.current)' /\ Regulation!IsProfile(given.proposed)' /\ Regulation!IsCommunity(given.community)'
  BY <1>1, <1>3 DEF RegulationInv
<1>6. /\ mark \in {"asked", "previewed", "assessed", "failed"}
      /\ mark \in {"previewed", "failed"} => made = <<Regulation!Differences>>
      /\ mark = "assessed" => made = <<Regulation!Differences, owed>> /\ judged
  BY <1>1 DEF RegulationInv
<1> HIDE DEF owed, judged
<1>7. /\ mark' \in {"asked", "previewed", "assessed", "failed"}
      /\ mark' \in {"previewed", "failed"} => made' = <<Regulation!Differences>>
      /\ mark' = "assessed" => made' = <<Regulation!Differences, owed>> /\ judged
  <2>1. CASE UNCHANGED <<given, made, mark>>
    BY <1>6, <2>1
  <2>2. CASE Regulation!Preview
    BY <1>6, <2>2 DEF Regulation!Preview
  <2>3. CASE Regulation!Assess
    <3>1. mark = "previewed" /\ made = <<Regulation!Differences>>
      BY <1>6, <2>3 DEF Regulation!Assess
    <3>2. CASE judged
      <4>1. made' = Append(made, owed) /\ mark' = "assessed"
        BY <2>3, <3>2 DEF Regulation!Assess, judged, owed
      <4>2. made' = <<Regulation!Differences, owed>>
        <5>1. made' = Append(<<Regulation!Differences>>, owed)
          BY <3>1, <4>1
        <5> QED BY <5>1, AppendSecond, Zenon
      <4> QED BY <3>2, <4>1, <4>2
    <3>3. CASE ~judged
      <4>1. made' = made /\ mark' = "failed"
        BY <2>3, <3>3 DEF Regulation!Assess, judged
      <4> QED BY <3>1, <4>1
    <3> QED BY <3>2, <3>3
  <2> QED BY <1>2, <2>1, <2>2, <2>3 DEF Regulation!Next
<1>8. /\ mark' \in {"asked", "previewed", "assessed", "failed"}
      /\ mark' \in {"previewed", "failed"} => made' = <<Regulation!Differences'>>
      /\ mark' = "assessed" => made' = <<Regulation!Differences', owed'>> /\ judged'
  BY <1>4, <1>7
<1> QED BY <1>5, <1>8 DEF RegulationInv, owed, judged

\* RegulationInv is enough for DutyFollowsProfile.
LEMMA OwedFollowsProfile ==
  ASSUME RegulationInv, running = "regulation"
  PROVE  Regulation!DutyFollowsProfile
<1> DEFINE p == given.current
           q == given.proposed
           left == Regulation!Duty(p)
           right == Regulation!Duty(q)
<1>1. Regulation!IsProfile(p) /\ Regulation!IsProfile(q) /\ Regulation!IsCommunity(given.community)
  BY DEF RegulationInv
<1>2. Regulation!ListedAsLookedUp(p) /\ Regulation!ListedAsLookedUp(q)
  BY <1>1, ListsAreLookedUp
<1>3. ASSUME mark = "assessed"
      PROVE  /\ made[2][p] = left /\ made[2][q] = right /\ made[1] = Regulation!Differences
             /\ Regulation!Assessable(p) /\ Regulation!Ratio(p, "sufficient")
             /\ Regulation!Assessable(q) /\ Regulation!Ratio(q, "sufficient")
  <2> DEFINE owed == [r \in {p, q} |-> Regulation!Duty(r)]
  <2>1. made = <<Regulation!Differences, owed>>
    BY <1>3 DEF RegulationInv
  <2>2. \A r \in {p, q} : Regulation!Assessable(r) /\ Regulation!Ratio(r, "sufficient")
    BY <1>3 DEF RegulationInv
  <2>3. owed[p] = left /\ owed[q] = right
    OBVIOUS
  <2> HIDE DEF owed
  <2> QED BY <2>1, <2>2, <2>3
<1> HIDE DEF p, q, left, right
<1>4. ASSUME mark = "assessed"
      PROVE  Regulation!ChargedForMissing(p, left) /\ Regulation!ChargedForMissing(q, right)
  <2>1. \A k : Regulation!Numbered(p, k) => Regulation!Number(p, k) \in Int
    BY <1>1, NumbersAreInts
  <2>2. \A k : Regulation!Numbered(q, k) => Regulation!Number(q, k) \in Int
    BY <1>1, NumbersAreInts
  <2>3. Regulation!ChargedForMissing(p, left)
    BY <1>1, <1>3, <1>4, <2>1, ChargeIsForMissing DEF left
  <2>4. Regulation!ChargedForMissing(q, right)
    BY <1>1, <1>3, <1>4, <2>2, ChargeIsForMissing DEF right
  <2> QED BY <2>3, <2>4
<1>5. /\ \A k : k \notin DOMAIN Regulation!Differences /\ Regulation!Has(p, k, given.day) /\ Regulation!Has(q, k, given.day)
                => Regulation!Get(p, k, given.day) = Regulation!Get(q, k, given.day)
      /\ \A k \in DOMAIN Regulation!Differences :
           Regulation!Differences[k].change # None /\ Regulation!Differences[k].change.num = 0
             => Regulation!Get(p, k, given.day).value = Regulation!Get(q, k, given.day).value
  BY <1>1, PreviewNamesChanges DEF p, q
<1>6. ASSUME mark = "assessed", left # right
      PROVE  DOMAIN Regulation!Differences \cap (Regulation!Looks \ {"sufficient"}) # {}
  <2> SUFFICES ASSUME DOMAIN Regulation!Differences \cap (Regulation!Looks \ {"sufficient"}) = {} PROVE FALSE
    OBVIOUS
  <2>1. \A k \in {"required", "exemption", "allowed", "excess"} :
          Regulation!Numbered(p, k) /\ Regulation!Numbered(q, k) => Regulation!Number(p, k) = Regulation!Number(q, k)
    <3>1. \A k \in {"required", "exemption", "allowed", "excess"} : k \notin DOMAIN Regulation!Differences
      BY DEF Regulation!Looks
    <3> QED BY <1>5, <3>1 DEF Regulation!Numbered, Regulation!Number
  <2>2. Regulation!Number(p, "required") = Regulation!Number(q, "required")
        /\ Regulation!Number(p, "exemption") = Regulation!Number(q, "exemption")
    BY <1>3, <1>6, <2>1 DEF Regulation!Assessable, Regulation!Ratio
  <2>3. Regulation!Exempt(p) <=> Regulation!Exempt(q)
    BY <2>2 DEF Regulation!Exempt
  <2>4. /\ Regulation!Required(p) = Regulation!Required(q) /\ Regulation!Shortfall(p) = Regulation!Shortfall(q)
        /\ Regulation!AllowedExternal(p) = Regulation!AllowedExternal(q)
        /\ Regulation!ExcessExternal(p) = Regulation!ExcessExternal(q)
    BY <2>2 DEF Regulation!Required, Regulation!Shortfall, Regulation!AllowedExternal, Regulation!ExcessExternal
  <2>5. CASE Regulation!Exempt(p)
    BY <1>6, <2>3, <2>4, <2>5 DEF left, right, Regulation!Duty
  <2>6. CASE ~Regulation!Exempt(p)
    <3>1. Regulation!Number(p, "allowed") = Regulation!Number(q, "allowed")
          /\ Regulation!Number(p, "excess") = Regulation!Number(q, "excess")
      BY <1>3, <1>6, <2>1, <2>3, <2>6 DEF Regulation!Assessable
    <3>2. ~Regulation!Exempt(q)
      BY <2>3, <2>6
    <3>3. left.charge = right.charge
      BY <2>4, <2>6, <3>1, <3>2, Zenon DEF left, right, Regulation!Duty
    <3>4. Regulation!Exempt(p) = Regulation!Exempt(q)
      BY <2>2, Zenon DEF Regulation!Exempt
    <3>5. left.exempt = right.exempt /\ left.warning = right.warning /\ left.short = right.short /\ left.over = right.over
      BY <2>4, <3>4, Zenon DEF left, right, Regulation!Duty
    <3>6. /\ left = [short |-> left.short, over |-> left.over, exempt |-> left.exempt, warning |-> left.warning,
                     charge |-> left.charge]
          /\ right = [short |-> right.short, over |-> right.over, exempt |-> right.exempt, warning |-> right.warning,
                      charge |-> right.charge]
      BY DEF left, right, Regulation!Duty
    <3> QED BY <1>6, <3>3, <3>5, <3>6, Zenon
  <2> QED BY <2>5, <2>6
<1> QED BY <1>2, <1>3, <1>4, <1>5, <1>6 DEF Regulation!DutyFollowsProfile, p, q

-----------------------------------------------------------------------------
(***************************************************************************)
(* ConstraintBounds: what a pass over the declarations leaves is the       *)
(* tightest that was demanded, with all who demand it.                     *)
(***************************************************************************)
BoundsOf == [value : Int \cup {None}, by : Seq(STRING)]
Sides == {"min", "max"}
Composed(b, d, target, kind, step) == IF Bounds!Against(d, target, kind) THEN Bounds!Tighten(b, d, step) ELSE b
\* The declarations of a target say something of the step.
SaysOf(ds, target, step) == \A i \in DOMAIN ds : ds[i].target = target => step \in DOMAIN ds[i].values

\* What is demanded by the first k declarations.
DemandedByFirst(ds, target, kind, step, k) ==
  {[source |-> ds[i].source, value |-> ds[i].values[step]] :
     i \in {j \in 1 .. k : Bounds!Against(ds[j], target, kind) /\ ds[j].values[step] \notin Unbounded}}
\* A bound is the tightest of what is demanded.
Tightest(b, kind, D) ==
  /\ b.value = None => D = {}
  /\ b.value # None => (\E d \in D : d.value = b.value) /\ \A d \in D : ~Bounds!Tighter(kind, d.value, b.value)
  /\ ToSet(b.by) = {d.source : d \in {e \in D : e.value = b.value}}

\* One declaration makes a bound of a bound.
LEMMA BoundStays ==
  ASSUME NEW b \in BoundsOf, NEW d \in Bounds!Declarations, NEW target, NEW kind, NEW step,
         d.target = target => step \in DOMAIN d.values
  PROVE  Composed(b, d, target, kind, step) \in BoundsOf
<1>1. CASE ~Bounds!Against(d, target, kind)
  BY <1>1 DEF Composed
<1>2. CASE Bounds!Against(d, target, kind)
  <2> DEFINE v == d.values[step]
  <2>1. v \in Int /\ d.source \in STRING
    BY <1>2 DEF Bounds!Against, Bounds!Declarations
  <2>2. [value |-> v, by |-> <<d.source>>] \in BoundsOf
    <3> HIDE DEF v
    <3> QED BY <2>1 DEF BoundsOf
  <2>3. [b EXCEPT !.by = Append(b.by, d.source)] \in BoundsOf
    BY <2>1 DEF BoundsOf
  <2>4. Bounds!Tighten(b, d, step) \in {b, [value |-> v, by |-> <<d.source>>], [b EXCEPT !.by = Append(b.by, d.source)]}
    BY Zenon DEF Bounds!Tighten
  <2> HIDE DEF v
  <2> QED BY <1>2, <2>2, <2>3, <2>4 DEF Composed
<1> QED BY <1>1, <1>2

\* The pass over the declarations, one after the other.
LEMMA BoundsOneByOne ==
  ASSUME NEW target, NEW kind, NEW step, given \in Seq(Bounds!Declarations), SaysOf(given, target, step)
  PROVE  \E it : /\ Bounds!Bound(given, target, kind, step) = it[1 .. Len(given)]
                 /\ it[{}] = Bounds!Free
                 /\ \A k \in 1 .. Len(given) : it[1 .. k] = Composed(it[1 .. k - 1], given[k], target, kind, step)
<1> DEFINE n == Len(given)
           F == [q \in BoundsOf \X (1 .. n) |-> Composed(q[1], given[q[2]], target, kind, step)]
           fold == CHOOSE it : it = [u \in SUBSET (DOMAIN given) |->
                     IF u = {} THEN Bounds!Free ELSE Composed(it[u \ {Topmost(u)}], given[Topmost(u)], target, kind, step)]
<1>1. /\ n \in Nat /\ DOMAIN given = 1 .. n
      /\ \A k \in 1 .. n : given[k] \in Bounds!Declarations /\ (given[k].target = target => step \in DOMAIN given[k].values)
  BY DEF SaysOf
<1>2. Bounds!Bound(given, target, kind, step) = fold[DOMAIN given]
  BY Zenon DEF Bounds!Bound, Bounds!FoldLeft, Bounds!MapThenFoldSet, Bounds!Max, Composed, Topmost
<1>3. Bounds!Free \in BoundsOf
  BY DEF Bounds!Free, BoundsOf
<1>4. F \in [BoundsOf \X (1 .. n) -> BoundsOf]
  <2> SUFFICES ASSUME NEW q \in BoundsOf \X (1 .. n) PROVE Composed(q[1], given[q[2]], target, kind, step) \in BoundsOf
    OBVIOUS
  <2>1. q[1] \in BoundsOf /\ q[2] \in 1 .. n
    OBVIOUS
  <2>2. given[q[2]] \in Bounds!Declarations /\ (given[q[2]].target = target => step \in DOMAIN given[q[2]].values)
    BY <1>1, <2>1, Zenon
  <2> QED BY <2>1, <2>2, BoundStays
<1>5. PICK it : FoldsLeft(it, n, BoundsOf, Bounds!Free, F)
  <2> HIDE DEF n, F
  <2> QED BY <1>1, <1>3, <1>4, LeftFold
<1>6. ASSUME NEW u \in SUBSET (1 .. n), u # {}
      PROVE  F[<<it[u \ {Topmost(u)}], Topmost(u)>>] = Composed(it[u \ {Topmost(u)}], given[Topmost(u)], target, kind, step)
  <2>1. Topmost(u) \in 1 .. n /\ it[u \ {Topmost(u)}] \in BoundsOf
    <3> HIDE DEF n, F
    <3>1. Topmost(u) \in u
      BY <1>1, <1>6, TopmostIsIn
    <3> QED BY <1>5, <3>1 DEF FoldsLeft
  <2> HIDE DEF n
  <2> QED BY <2>1
<1>7. it = [u \in SUBSET (DOMAIN given) |->
             IF u = {} THEN Bounds!Free ELSE Composed(it[u \ {Topmost(u)}], given[Topmost(u)], target, kind, step)]
  <2> HIDE DEF n, F
  <2> QED BY <1>1, <1>5, <1>6 DEF FoldsLeft
<1>8. fold = [u \in SUBSET (DOMAIN given) |->
               IF u = {} THEN Bounds!Free ELSE Composed(fold[u \ {Topmost(u)}], given[Topmost(u)], target, kind, step)]
  <2> HIDE DEF n, F
  <2> QED BY <1>7, Zenon
<1>9. \A k \in 1 .. n : fold[1 .. k] = Composed(fold[1 .. k - 1], given[k], target, kind, step)
  <2> SUFFICES ASSUME NEW k \in 1 .. n PROVE fold[1 .. k] = Composed(fold[1 .. k - 1], given[k], target, kind, step)
    OBVIOUS
  <2> DEFINE u == 1 .. k
             v == 1 .. k - 1
  <2>1. u \in SUBSET (1 .. n) /\ u # {}
    <3>1. n \in Nat
      BY <1>1
    <3> HIDE DEF n, fold
    <3> QED BY <3>1
  <2>2. Topmost(u) = k /\ u \ {k} = v
    <3> HIDE DEF n
    <3> QED BY <1>1, TopmostOfFirst
  <2> HIDE DEF u, v, n, fold
  <2>3. fold[u] = Composed(fold[u \ {Topmost(u)}], given[Topmost(u)], target, kind, step)
    BY <1>1, <1>8, <2>1
  <2>4. fold[u] = Composed(fold[v], given[k], target, kind, step)
    BY <2>2, <2>3
  <2> QED BY <2>4 DEF u, v
<1>10. fold[{}] = Bounds!Free
  <2> HIDE DEF n, F, fold
  <2>1. {} \in SUBSET (DOMAIN given)
    OBVIOUS
  <2> QED BY <1>8, <2>1
<1> HIDE DEF fold
<1> QED BY <1>1, <1>2, <1>9, <1>10

\* A declaration that does not bound the step leaves what is demanded; any other adds
\* its demand.
LEMMA OneMoreDemand ==
  ASSUME NEW ds, NEW target, NEW kind, NEW step, NEW k \in Nat,
         NEW D, D = DemandedByFirst(ds, target, kind, step, k),
         NEW E, E = DemandedByFirst(ds, target, kind, step, k + 1),
         NEW d, d = ds[k + 1]
  PROVE  /\ ~Bounds!Against(d, target, kind) \/ d.values[step] \in Unbounded => E = D
         /\ Bounds!Against(d, target, kind) /\ d.values[step] \notin Unbounded =>
              E = D \cup {[source |-> d.source, value |-> d.values[step]]}
<1> DEFINE P(j) == Bounds!Against(ds[j], target, kind) /\ ds[j].values[step] \notin Unbounded
           new == k + 1
           I == {j \in 1 .. k : P(j)}
           J == {j \in 1 .. new : P(j)}
<1>1. 1 .. new = (1 .. k) \cup {new}
  OBVIOUS
<1>2. P(new) => J = I \cup {new}
  <2> HIDE DEF P, new
  <2> QED BY <1>1
<1>3. ~P(new) => J = I
  <2> HIDE DEF P, new
  <2> QED BY <1>1
<1>4. D = {[source |-> ds[i].source, value |-> ds[i].values[step]] : i \in I}
  BY DEF DemandedByFirst
<1>5. E = {[source |-> ds[i].source, value |-> ds[i].values[step]] : i \in J}
  BY DEF DemandedByFirst
<1>6. P(new) <=> Bounds!Against(d, target, kind) /\ d.values[step] \notin Unbounded
  OBVIOUS
<1>7. d = ds[new]
  OBVIOUS
<1> HIDE DEF I, J, P, new
<1> QED BY <1>2, <1>3, <1>4, <1>5, <1>6, <1>7

\* What is appended to a sequence is added to what it has.
AddsOne(s, x) == ToSet(Append(s, x)) = ToSet(s) \cup {x}
LEMMA AppendedTo ==
  ASSUME NEW S, NEW s \in Seq(S), NEW x \in S
  PROVE  AddsOne(s, x)
<1> DEFINE t == Append(s, x)
<1>1. DOMAIN t = DOMAIN s \cup {Len(s) + 1} /\ t[Len(s) + 1] = x /\ \A i \in DOMAIN s : t[i] = s[i]
  OBVIOUS
<1> HIDE DEF t
<1>2. ToSet(t) = ToSet(s) \cup {x}
  BY <1>1 DEF ToSet
<1> QED BY <1>2 DEF t, AddsOne

\* The tightest stays the tightest.
LEMMA TightestStays ==
  ASSUME NEW kind \in Sides, NEW b \in BoundsOf, NEW d \in Bounds!Declarations, NEW target, NEW step,
         d.target = target => step \in DOMAIN d.values,
         NEW D, \A e \in D : e.value \in Int, Tightest(b, kind, D),
         NEW E, \/ ~Bounds!Against(d, target, kind) \/ d.values[step] \in Unbounded,
         E = D
  PROVE  Tightest(Composed(b, d, target, kind, step), kind, E)
<1>1. Composed(b, d, target, kind, step) = b
  BY DEF Composed, Bounds!Tighten
<1> QED BY <1>1

\* One more demand leaves the tightest bound the tightest.
LEMMA TightestWithOneMore ==
  ASSUME NEW kind \in Sides, NEW b \in BoundsOf, NEW d \in Bounds!Declarations, NEW target, NEW step,
         d.target = target => step \in DOMAIN d.values,
         NEW D, \A e \in D : e.value \in Int, Tightest(b, kind, D),
         Bounds!Against(d, target, kind), d.values[step] \notin Unbounded,
         NEW E, E = D \cup {[source |-> d.source, value |-> d.values[step]]}
  PROVE  Tightest(Composed(b, d, target, kind, step), kind, E)
<1> DEFINE v == d.values[step]
           e == [source |-> d.source, value |-> v]
           c == Composed(b, d, target, kind, step)
           alone == [value |-> v, by |-> <<d.source>>]
           joined == [b EXCEPT !.by = Append(b.by, d.source)]
<1>1. v \in Int /\ v # None /\ d.source \in STRING
  BY DemandsAssumption DEF Bounds!Against, Bounds!Declarations
<1>2. c = IF b.value = None \/ Bounds!Tighter(kind, v, b.value) THEN alone
          ELSE IF v = b.value THEN joined ELSE b
  BY DEF Composed, Bounds!Tighten, Bounds!Against
<1>3. e.source = d.source /\ e.value = v /\ E = D \cup {e}
  OBVIOUS
<1>4. alone.value = v /\ ToSet(alone.by) = {d.source}
  BY DEF ToSet
<1>5. joined.value = b.value /\ ToSet(joined.by) = ToSet(b.by) \cup {d.source} /\ b.value \in Int \cup {None}
  <2>1. b.by \in Seq(STRING) /\ b.value \in Int \cup {None} /\ joined.value = b.value /\ joined.by = Append(b.by, d.source)
    BY DEF BoundsOf
  <2>2. ToSet(Append(b.by, d.source)) = ToSet(b.by) \cup {d.source}
    BY <1>1, <2>1, AppendedTo DEF AddsOne
  <2> QED BY <2>1, <2>2
<1> SUFFICES Tightest(c, kind, E)
  OBVIOUS
<1> HIDE DEF v, e, alone, joined, c
<1>6. \A x, y \in Int : Bounds!Tighter(kind, x, y) => ~Bounds!Tighter(kind, y, x) /\ x # y
  BY DEF Bounds!Tighter, Sides
<1>7. \A x, y, z \in Int : Bounds!Tighter(kind, x, y) /\ ~Bounds!Tighter(kind, z, y) => Bounds!Tighter(kind, x, z)
  BY DEF Bounds!Tighter, Sides
<1>8. \A x, y \in Int : ~Bounds!Tighter(kind, x, y) /\ x # y => Bounds!Tighter(kind, y, x)
  BY DEF Bounds!Tighter, Sides
<1>9. CASE b.value = None
  <2>1. D = {} /\ c = alone
    BY <1>2, <1>9 DEF Tightest
  <2>2. E = {e}
    BY <1>3, <2>1
  <2> QED BY <1>1, <1>3, <1>4, <1>6, <2>1, <2>2 DEF Tightest
<1>10. CASE b.value # None /\ Bounds!Tighter(kind, v, b.value)
  <2>1. c = alone /\ b.value \in Int
    BY <1>2, <1>5, <1>10
  <2>2. \A f \in D : Bounds!Tighter(kind, v, f.value)
    BY <1>1, <1>7, <1>10, <2>1 DEF Tightest
  <2>3. \A f \in E : ~Bounds!Tighter(kind, f.value, v)
    BY <1>1, <1>3, <1>6, <2>2
  <2>4. {f \in E : f.value = v} = {e}
    BY <1>1, <1>3, <1>6, <2>2
  <2>5. {f.source : f \in {g \in E : g.value = v}} = {d.source}
    BY <1>3, <2>4
  <2> QED BY <1>1, <1>3, <1>4, <2>1, <2>3, <2>5 DEF Tightest
<1>11. CASE b.value # None /\ ~Bounds!Tighter(kind, v, b.value) /\ v = b.value
  <2>1. c = joined
    BY <1>2, <1>11
  <2>2. {f \in E : f.value = b.value} = {f \in D : f.value = b.value} \cup {e}
    BY <1>3, <1>11
  <2>3. \A f \in E : ~Bounds!Tighter(kind, f.value, b.value)
    BY <1>3, <1>11 DEF Tightest
  <2>4. {f.source : f \in {g \in E : g.value = b.value}} = {f.source : f \in {g \in D : g.value = b.value}} \cup {d.source}
    BY <1>3, <2>2
  <2> QED BY <1>3, <1>5, <1>11, <2>1, <2>3, <2>4 DEF Tightest
<1>12. CASE b.value # None /\ ~Bounds!Tighter(kind, v, b.value) /\ v # b.value
  <2>1. c = b
    BY <1>2, <1>12
  <2>2. {f \in E : f.value = b.value} = {f \in D : f.value = b.value}
    BY <1>3, <1>12
  <2>3. \A f \in E : ~Bounds!Tighter(kind, f.value, b.value)
    BY <1>3, <1>12 DEF Tightest
  <2> QED BY <1>3, <1>12, <2>1, <2>2, <2>3 DEF Tightest
<1> QED BY <1>9, <1>10, <1>11, <1>12

\* What is left of all declarations is the tightest of all that is demanded.
LEMMA BoundIsTightest ==
  ASSUME NEW kind \in Sides, NEW target, NEW step,
         given \in Seq(Bounds!Declarations), SaysOf(given, target, step)
  PROVE  /\ Bounds!Bound(given, target, kind, step) \in BoundsOf
         /\ Tightest(Bounds!Bound(given, target, kind, step), kind, Bounds!Demands(target, kind, step))
         /\ \A d \in Bounds!Demands(target, kind, step) : d.value \in Int
<1> DEFINE n == Len(given)
           D(k) == DemandedByFirst(given, target, kind, step, k)
<1>1. PICK it : /\ Bounds!Bound(given, target, kind, step) = it[1 .. n]
                /\ it[{}] = Bounds!Free
                /\ \A k \in 1 .. n : it[1 .. k] = Composed(it[1 .. k - 1], given[k], target, kind, step)
  BY BoundsOneByOne
<1>2. /\ n \in Nat /\ DOMAIN given = 1 .. n
      /\ \A k \in 1 .. n : given[k] \in Bounds!Declarations /\ (given[k].target = target => step \in DOMAIN given[k].values)
  BY DEF SaysOf
<1> DEFINE G == {k \in Nat : k <= n => it[1 .. k] \in BoundsOf /\ Tightest(it[1 .. k], kind, D(k))}
<1>3. ASSUME NEW k \in Nat, k <= n PROVE \A d \in D(k) : d.value \in Int
  <2>1. ASSUME NEW i \in 1 .. k, Bounds!Against(given[i], target, kind) PROVE given[i].values[step] \in Int
    <3>1. i \in 1 .. n
      BY <1>2, <1>3
    <3>2. given[i] \in Bounds!Declarations /\ (given[i].target = target => step \in DOMAIN given[i].values)
      BY <1>2, <3>1, Zenon
    <3> QED BY <2>1, <3>2 DEF Bounds!Declarations, Bounds!Against
  <2> QED BY <2>1 DEF DemandedByFirst
<1>4. 0 \in G
  <2>1. 1 .. 0 = {}
    OBVIOUS
  <2>2. D(0) = {}
    BY <2>1 DEF DemandedByFirst
  <2>3. Bounds!Free \in BoundsOf
    BY DEF Bounds!Free, BoundsOf
  <2>4. Tightest(Bounds!Free, kind, {})
    BY DEF Bounds!Free, Tightest, ToSet
  <2>5. it[1 .. 0] = Bounds!Free
    BY <1>1, <2>1
  <2> HIDE DEF D
  <2> QED BY <2>2, <2>3, <2>4, <2>5
<1>5. ASSUME NEW k \in Nat, k \in G PROVE k + 1 \in G
  <2> DEFINE m == k + 1
             b == it[1 .. k]
             d == given[m]
             c == it[1 .. m]
  <2> SUFFICES ASSUME m <= n PROVE c \in BoundsOf /\ Tightest(c, kind, D(m))
    OBVIOUS
  <2>1. m \in 1 .. n /\ m - 1 = k /\ k <= n
    BY <1>2
  <2>2. c = Composed(b, d, target, kind, step)
    <3>1. it[1 .. m] = Composed(it[1 .. m - 1], given[m], target, kind, step)
      <4> HIDE DEF m
      <4> QED BY <1>1, <2>1, Zenon
    <3> HIDE DEF m
    <3> QED BY <2>1, <3>1
  <2>3. b \in BoundsOf /\ Tightest(b, kind, D(k))
    BY <1>5, <2>1
  <2>4. d \in Bounds!Declarations /\ (d.target = target => step \in DOMAIN d.values)
    <3> HIDE DEF m
    <3> QED BY <1>2, <2>1, Zenon
  <2>5. \A e \in D(k) : e.value \in Int
    BY <1>3, <2>1
  <2> HIDE DEF b, c
  <2>6. /\ ~Bounds!Against(d, target, kind) \/ d.values[step] \in Unbounded => D(m) = D(k)
        /\ Bounds!Against(d, target, kind) /\ d.values[step] \notin Unbounded =>
              D(m) = D(k) \cup {[source |-> d.source, value |-> d.values[step]]}
    <3>1. /\ D(k) = DemandedByFirst(given, target, kind, step, k)
          /\ D(m) = DemandedByFirst(given, target, kind, step, k + 1) /\ d = given[k + 1]
      OBVIOUS
    <3> HIDE DEF D, d, m
    <3> QED BY <3>1, OneMoreDemand
  <2> HIDE DEF D, d, m
  <2>7. c \in BoundsOf
    BY <2>2, <2>3, <2>4, BoundStays
  <2>8. CASE ~Bounds!Against(d, target, kind) \/ d.values[step] \in Unbounded
    BY <2>2, <2>3, <2>4, <2>5, <2>6, <2>7, <2>8, TightestStays
  <2>9. CASE Bounds!Against(d, target, kind) /\ d.values[step] \notin Unbounded
    BY <2>2, <2>3, <2>4, <2>5, <2>6, <2>7, <2>9, TightestWithOneMore
  <2> QED BY <2>7, <2>8, <2>9
<1>6. n \in G
  <2> HIDE DEF G
  <2> QED BY <1>2, <1>4, <1>5, NumberInduction
<1>7. it[1 .. n] \in BoundsOf /\ Tightest(it[1 .. n], kind, D(n))
  <2> HIDE DEF n, D
  <2> QED BY <1>2, <1>6
<1>8. Bounds!Demands(target, kind, step) = D(n)
  <2> DEFINE P(e) == Bounds!Against(e, target, kind) /\ e.values[step] \notin Unbounded
  <2>1. D(n) = {[source |-> given[i].source, value |-> given[i].values[step]] : i \in {j \in 1 .. n : P(given[j])}}
    BY Zenon DEF DemandedByFirst
  <2>2. Bounds!Demands(target, kind, step) = {[source |-> d.source, value |-> d.values[step]] : d \in {e \in Range(given) : P(e)}}
    BY Zenon DEF Bounds!Demands, Bounds!Range, Range
  <2>3. Range(given) = {given[i] : i \in 1 .. n}
    BY <1>2, Zenon DEF Range
  <2> HIDE DEF n, D, P
  <2> QED BY <2>1, <2>2, <2>3
<1>9. n <= n
  BY <1>2
<1> HIDE DEF n, D
<1> QED BY <1>1, <1>2, <1>3, <1>7, <1>8, <1>9

\* What holds of the bounds while they are composed.
BoundsInv ==
  running = "bounds" =>
    /\ given \in Seq(Bounds!Declarations)
    /\ mark = "composed" => Bounds!OneLength /\ made = Bounds!DetectConflicts

\* All declarations of a target are as long as it has steps.
LEMMA StepsOfATarget ==
  ASSUME given \in Seq(Bounds!Declarations), Bounds!OneLength, NEW t \in Bounds!Targets
  PROVE  /\ Bounds!StepCount(t) \in Nat
         /\ \A i \in 1 .. Bounds!StepCount(t) : SaysOf(given, t, i)
<1> DEFINE L == Bounds!Lengths(t)
           n == Bounds!StepCount(t)
<1>1. PICK k \in DOMAIN given : given[k].target = t
  BY DEF Bounds!Targets
<1>2. ASSUME NEW i \in DOMAIN given, given[i].target = t
      PROVE  Len(given[i].values) \in L /\ Len(given[i].values) \in Nat
  <2>1. given[i] \in Range(given) /\ given[i] \in Bounds!Declarations
    BY DEF Range
  <2>2. given[i] \in Bounds!Range(given)
    BY <2>1, Zenon DEF Range, Bounds!Range
  <2>3. Len(given[i].values) \in Nat
    BY <2>1 DEF Bounds!Declarations
  <2>4. Len(given[i].values) \in L
    BY <1>2, <2>2, Zenon DEF Bounds!Lengths
  <2> QED BY <2>3, <2>4
<1>3. IsFiniteSet(L)
  <2>1. DOMAIN given = 1 .. Len(given)
    OBVIOUS
  <2>2. IsFiniteSet(DOMAIN given)
    BY <2>1, FS_Interval
  <2> DEFINE f == [i \in DOMAIN given |-> Len(given[i].values)]
             M == {f[i] : i \in DOMAIN given}
  <2>3. IsFiniteSet(M)
    <3> HIDE DEF f
    <3> QED BY <2>2, ReachedIsFinite DEF Reached
  <2>4. L \subseteq M
    BY Zenon DEF Bounds!Lengths, Bounds!Range
  <2> HIDE DEF L, M
  <2> QED BY <2>3, <2>4, FS_Subset
<1>4. Cardinality(L) = 1
  <2>1. Bounds!Cardinality(L) = Cardinality(L)
    BY Zenon DEF Bounds!Cardinality, Cardinality
  <2>2. Bounds!Cardinality(L) = 1
    BY Zenon DEF Bounds!OneLength
  <2> QED BY <2>1, <2>2
<1>5. PICK l : L = {l}
  <2> HIDE DEF L
  <2> QED BY <1>3, <1>4, FS_Singleton
<1>6. n = l
  <2>1. n = CHOOSE x \in L : TRUE
    BY Zenon DEF Bounds!StepCount
  <2> HIDE DEF L, n
  <2> QED BY <1>5, <2>1
<1>7. \A i \in DOMAIN given : given[i].target = t => Len(given[i].values) = n /\ n \in Nat
  <2> HIDE DEF L, n
  <2> QED BY <1>2, <1>5, <1>6
<1>8. \A i \in DOMAIN given : given[i].target = t => DOMAIN given[i].values = 1 .. n
  <2> HIDE DEF n
  <2> QED BY <1>7 DEF Bounds!Declarations
<1> HIDE DEF n
<1> QED BY <1>1, <1>7, <1>8 DEF SaysOf, n

\* There is a conflict where nothing meets what is demanded.
LEMMA ConflictWhereImpossible ==
  ASSUME given \in Seq(Bounds!Declarations), NEW t, NEW i, SaysOf(given, t, i),
         NEW lo, lo = Bounds!Bound(given, t, "min", i), NEW hi, hi = Bounds!Bound(given, t, "max", i)
  PROVE  Bounds!Impossible(t, i) <=> lo.value # None /\ hi.value # None /\ lo.value > hi.value
<1> DEFINE L == Bounds!Demands(t, "min", i)
           H == Bounds!Demands(t, "max", i)
           V == {d.value : d \in L \cup H} \cup {0}
<1>1. lo \in BoundsOf /\ Tightest(lo, "min", L) /\ \A d \in L : d.value \in Int
  BY BoundIsTightest DEF Sides
<1>2. hi \in BoundsOf /\ Tightest(hi, "max", H) /\ \A d \in H : d.value \in Int
  BY BoundIsTightest DEF Sides
<1>3. Bounds!Impossible(t, i) <=> ~\E v \in V : (\A d \in L : v >= d.value) /\ (\A d \in H : v <= d.value)
  BY Zenon DEF Bounds!Impossible, Bounds!Met
<1>4. /\ \A d \in L \cup H : d.value \in V
      /\ 0 \in V /\ \A v \in V : v \in Int
  BY <1>1, <1>2
<1>5. lo.value # None => lo.value \in Int /\ (\E d \in L : d.value = lo.value) /\ \A d \in L : d.value <= lo.value
  BY <1>1 DEF Tightest, BoundsOf, Bounds!Tighter
<1>6. hi.value # None => hi.value \in Int /\ (\E d \in H : d.value = hi.value) /\ \A d \in H : d.value >= hi.value
  BY <1>2 DEF Tightest, BoundsOf, Bounds!Tighter
<1>7. (lo.value = None => L = {}) /\ (hi.value = None => H = {})
  BY <1>1, <1>2 DEF Tightest
<1> HIDE DEF L, H, V
<1>8. CASE lo.value # None /\ hi.value # None /\ lo.value > hi.value
  <2>1. PICK a \in L : a.value = lo.value
    BY <1>5, <1>8
  <2>2. PICK b \in H : b.value = hi.value
    BY <1>6, <1>8
  <2>3. ASSUME NEW v \in V PROVE ~(v >= a.value /\ v <= b.value)
    BY <1>4, <1>5, <1>6, <1>8, <2>1, <2>2
  <2> QED BY <1>3, <1>8, <2>3
<1>9. CASE lo.value # None /\ ~(hi.value # None /\ lo.value > hi.value)
  <2>1. lo.value \in V /\ \A d \in L : lo.value >= d.value
    BY <1>1, <1>4, <1>5, <1>9
  <2>2. \A d \in H : lo.value <= d.value
    BY <1>2, <1>5, <1>6, <1>7, <1>9
  <2> QED BY <1>3, <1>9, <2>1, <2>2
<1>10. CASE lo.value = None
  <2>1. L = {}
    BY <1>7, <1>10
  <2>2. CASE hi.value # None
    <3>1. hi.value \in V /\ \A d \in H : hi.value <= d.value
      BY <1>2, <1>4, <1>6, <2>2
    <3> QED BY <1>3, <1>10, <2>1, <3>1
  <2>3. CASE hi.value = None
    BY <1>3, <1>4, <1>7, <1>10, <2>1, <2>3
  <2> QED BY <2>2, <2>3
<1> QED BY <1>8, <1>9, <1>10

\* A bound names those whom nobody surpasses.
LEMMA NamesTheTightest ==
  ASSUME given \in Seq(Bounds!Declarations), NEW t, NEW i, SaysOf(given, t, i),
         NEW kind \in Sides, NEW b, b = Bounds!Bound(given, t, kind, i), b.value # None
  PROVE  Bounds!Named(b.by, kind, Bounds!Demands(t, kind, i))
<1> DEFINE D == Bounds!Demands(t, kind, i)
           X == {e \in D : e.value = b.value}
           Y == {e \in D : \A f \in D : ~Bounds!Tighter(kind, f.value, e.value)}
<1>1. b \in BoundsOf /\ Tightest(b, kind, D) /\ \A d \in D : d.value \in Int
  BY BoundIsTightest
<1>2. b.value \in Int /\ (\E d \in D : d.value = b.value) /\ (\A d \in D : ~Bounds!Tighter(kind, d.value, b.value))
  BY <1>1 DEF Tightest, BoundsOf
<1>3. ToSet(b.by) = {d.source : d \in X}
  BY <1>1 DEF Tightest
<1>4. Bounds!Range(b.by) = ToSet(b.by)
  <2>1. Bounds!Range(b.by) = {b.by[x] : x \in DOMAIN b.by}
    BY Zenon DEF Bounds!Range
  <2> QED BY <2>1 DEF ToSet
<1>5. Bounds!Named(b.by, kind, D) <=> Bounds!Range(b.by) = {d.source : d \in Y}
  BY Zenon DEF Bounds!Named
<1>6. \A x, y \in Int : ~Bounds!Tighter(kind, x, y) /\ x # y => Bounds!Tighter(kind, y, x)
  BY DEF Bounds!Tighter, Sides
<1> HIDE DEF D
<1>7. X = Y
  BY <1>1, <1>2, <1>6
<1> HIDE DEF X, Y
<1> QED BY <1>3, <1>4, <1>5, <1>7 DEF D

\* BoundsInv is enough for ConflictsAreReal.
LEMMA DetectedAreReal ==
  ASSUME BoundsInv, running = "bounds"
  PROVE  Bounds!ConflictsAreReal
<1> SUFFICES ASSUME mark = "composed" PROVE Bounds!ConflictsAreReal
  BY DEF Bounds!ConflictsAreReal
<1>1. given \in Seq(Bounds!Declarations) /\ Bounds!OneLength /\ made = Bounds!DetectConflicts
  BY DEF BoundsInv
<1> DEFINE T == Bounds!Targets
           n(t) == Bounds!StepCount(t)
           C(t, i) == Bounds!ConflictAt(t, i)
           real(c) == c.min.value # None /\ c.max.value # None /\ c.min.value > c.max.value
<1>2. \A t \in T : \A i \in 1 .. n(t) : SaysOf(given, t, i)
  BY <1>1, StepsOfATarget
<1>3. made = {c \in UNION {{C(t, i) : i \in 1 .. n(t)} : t \in T} : real(c)}
  BY <1>1, Zenon DEF Bounds!DetectConflicts
<1>4. \A t, i : /\ C(t, i).target = t /\ C(t, i).step = i
                /\ C(t, i).min = Bounds!Bound(given, t, "min", i) /\ C(t, i).max = Bounds!Bound(given, t, "max", i)
                /\ C(t, i)["min"] = Bounds!Bound(given, t, "min", i) /\ C(t, i)["max"] = Bounds!Bound(given, t, "max", i)
  BY DEF Bounds!ConflictAt
<1>5. \A t \in T : \A i \in 1 .. n(t) : Bounds!Impossible(t, i) <=> real(C(t, i))
  <2> SUFFICES ASSUME NEW t \in T, NEW i \in 1 .. n(t) PROVE Bounds!Impossible(t, i) <=> real(C(t, i))
    OBVIOUS
  <2> DEFINE lo == Bounds!Bound(given, t, "min", i)
             hi == Bounds!Bound(given, t, "max", i)
  <2>1. Bounds!Impossible(t, i) <=> lo.value # None /\ hi.value # None /\ lo.value > hi.value
    <3>1. SaysOf(given, t, i)
      BY <1>2
    <3> HIDE DEF lo, hi
    <3> QED BY <1>1, <3>1, ConflictWhereImpossible DEF lo, hi
  <2>2. C(t, i).min = lo /\ C(t, i).max = hi
    BY <1>4
  <2> HIDE DEF lo, hi, C
  <2> QED BY <2>1, <2>2
<1>6. ASSUME NEW c \in made
      PROVE  \E t \in T : \E i \in 1 .. n(t) : c = C(t, i) /\ real(c)
  <2> HIDE DEF T, n, C, real
  <2> QED BY <1>3, <1>6
<1>7. {<<c.target, c.step>> : c \in made} = UNION {{<<t, i>> : i \in {j \in 1 .. n(t) : Bounds!Impossible(t, j)}} : t \in T}
  <2> DEFINE A == {<<c.target, c.step>> : c \in made}
             B == UNION {{<<t, i>> : i \in {j \in 1 .. n(t) : Bounds!Impossible(t, j)}} : t \in T}
  <2>1. ASSUME NEW p \in A PROVE p \in B
    <3>1. PICK c \in made : p = <<c.target, c.step>>
      OBVIOUS
    <3>2. PICK t \in T : \E i \in 1 .. n(t) : c = C(t, i) /\ real(c)
      BY <1>6
    <3>3. PICK i \in 1 .. n(t) : c = C(t, i) /\ real(c)
      BY <3>2
    <3>4. p = <<t, i>> /\ Bounds!Impossible(t, i)
      <4>1. c.target = t /\ c.step = i
        BY <1>4, <3>3
      <4>2. Bounds!Impossible(t, i)
        BY <1>5, <3>3
      <4> QED BY <3>1, <4>1, <4>2
    <3> HIDE DEF T, n
    <3> QED BY <3>4
  <2>2. ASSUME NEW p \in B PROVE p \in A
    <3> HIDE DEF T, n, C, real
    <3>1. PICK t \in T : p \in {<<t, i>> : i \in {j \in 1 .. n(t) : Bounds!Impossible(t, j)}}
      OBVIOUS
    <3>2. PICK i \in 1 .. n(t) : p = <<t, i>> /\ Bounds!Impossible(t, i)
      BY <3>1
    <3>3. C(t, i) \in made
      BY <1>3, <1>5, <3>2
    <3>4. <<C(t, i).target, C(t, i).step>> = p
      BY <1>4, <3>2
    <3> QED BY <3>3, <3>4
  <2> SUFFICES A = B
    OBVIOUS
  <2> HIDE DEF A, B
  <2> QED BY <2>1, <2>2
<1>8. ASSUME NEW c \in made, NEW kind \in {"min", "max"}
      PROVE  Bounds!Named(c[kind].by, kind, Bounds!Demands(c.target, kind, c.step))
  <2>1. PICK t \in T : \E i \in 1 .. n(t) : c = C(t, i) /\ real(c)
    BY <1>6
  <2>2. PICK i \in 1 .. n(t) : c = C(t, i) /\ real(c)
    BY <2>1
  <2>3. c.target = t /\ c.step = i /\ c[kind] = Bounds!Bound(given, t, kind, i) /\ c[kind].value # None
    <3>1. c["min"] = c.min /\ c["max"] = c.max
      OBVIOUS
    <3>2. c["min"].value # None /\ c["max"].value # None
      BY <2>2, <3>1
    <3> HIDE DEF C, real
    <3>3. kind = "min" \/ kind = "max"
      BY <1>8
    <3> QED BY <1>4, <2>2, <3>2, <3>3
  <2>4. SaysOf(given, t, i) /\ kind \in Sides
    BY <1>2 DEF Sides
  <2> HIDE DEF C, T, n, real
  <2> QED BY <1>1, <2>3, <2>4, NamesTheTightest
<1> QED BY <1>7, <1>8, Zenon DEF Bounds!ConflictsAreReal

\* The same declarations, the same conflicts.
LEMMA DetectsAlike ==
  ASSUME given' = given
  PROVE  Bounds!OneLength' = Bounds!OneLength /\ Bounds!DetectConflicts' = Bounds!DetectConflicts
<1>1. Bounds!Targets' = Bounds!Targets
  BY DEF Bounds!Targets
<1>2. \A t : Bounds!Lengths(t)' = Bounds!Lengths(t)
  BY DEF Bounds!Lengths
<1>3. \A t : Bounds!StepCount(t)' = Bounds!StepCount(t)
  BY <1>2 DEF Bounds!StepCount
<1>4. \A t, i : Bounds!ConflictAt(t, i)' = Bounds!ConflictAt(t, i)
  BY DEF Bounds!ConflictAt
<1>5. Bounds!OneLength' = Bounds!OneLength
  BY <1>1, <1>2 DEF Bounds!OneLength
<1>6. Bounds!DetectConflicts' = Bounds!DetectConflicts
  BY <1>1, <1>3, <1>4 DEF Bounds!DetectConflicts
<1> QED BY <1>5, <1>6

\* The bounds stay sound.
LEMMA BoundsInductive == BoundsInv /\ [CalculationsNext]_calculationVars => BoundsInv'
<1> SUFFICES ASSUME BoundsInv, [CalculationsNext]_calculationVars PROVE BoundsInv'
  OBVIOUS
<1> SUFFICES ASSUME running' = "bounds" PROVE BoundsInv'
  BY DEF BoundsInv
<1>1. CASE UNCHANGED calculationVars
  <2>1. running' = running /\ given' = given /\ mark' = mark /\ made' = made
    BY <1>1 DEF calculationVars
  <2>2. running = "bounds" /\ given \in Seq(Bounds!Declarations)
    BY <2>1 DEF BoundsInv
  <2>3. ASSUME mark' = "composed" PROVE Bounds!OneLength' /\ made' = Bounds!DetectConflicts'
    BY <2>1, <2>2, <2>3, DetectsAlike DEF BoundsInv
  <2> QED BY <2>1, <2>2, <2>3 DEF BoundsInv
<1>2. CASE CalculationsNext
  <2>1. running = "bounds" /\ Bounds!Next
    BY <1>2 DEF CalculationsNext, ApplyDuty, ShareAssets, ListBenefits, ComposeBounds, OverrideLedger,
           UseSeries, StoreSeries, SpreadShapes, ComposeModel
  <2>2. CASE Bounds!RefuseLengths
    BY <2>1, <2>2 DEF Bounds!RefuseLengths, BoundsInv
  <2>3. CASE Bounds!Compose
    <3>1. given' = given /\ given \in Seq(Bounds!Declarations) /\ Bounds!OneLength /\ made' = Bounds!DetectConflicts
      BY <2>1, <2>3 DEF Bounds!Compose, BoundsInv
    <3> QED BY <3>1, DetectsAlike DEF BoundsInv
  <2> QED BY <2>1, <2>2, <2>3 DEF Bounds!Next
<1> QED BY <1>1, <1>2 DEF CalculationsNext

-----------------------------------------------------------------------------
\* What is listed is what is looked up, what a preview does not name changes
\* nothing that is owed, and what is owed is owed for what is missing; a conflict
\* is reported where no value meets what benefits demand, and names all who cause
\* it (items, get, diff_profiles, assess_supply_duty, supply_duty_alert, compose,
\* detect_conflicts).
THEOREM DemandsStayReal == CalculationsSpec => []DemandsAreReal
<1>1. CalculationsInit => RegulationInv /\ BoundsInv
  <2>1. ASSUME CalculationsInit, running = "regulation" PROVE RegulationInv
    <3>1. PICK r \in Profiles, c \in Communities, d \in RuleDays :
                 given = [current |-> r[1], proposed |-> r[2], community |-> c, day |-> d]
      BY <2>1 DEF CalculationsInit, CommuneInit, RegulationInit, BenefitsInit, BoundsInit, LedgerInit,
             SeriesInit, FilesInit, ShapesInit, ComposerInit, Regulation!Init
    <3>2. mark = "asked" /\ made = <<>>
      BY <2>1 DEF CalculationsInit, CommuneInit, RegulationInit, BenefitsInit, BoundsInit, LedgerInit,
             SeriesInit, FilesInit, ShapesInit, ComposerInit, Regulation!Init
    <3>3. Regulation!IsProfile(r[1]) /\ Regulation!IsProfile(r[2]) /\ Regulation!IsCommunity(c)
      BY ProfilesAssumption
    <3> QED BY <3>1, <3>2, <3>3 DEF RegulationInv
  <2>2. ASSUME CalculationsInit, running = "bounds" PROVE BoundsInv
    <3>1. given \in DeclarationLists /\ mark = "given"
      BY <2>2 DEF CalculationsInit, CommuneInit, RegulationInit, BenefitsInit, BoundsInit, LedgerInit,
             SeriesInit, FilesInit, ShapesInit, ComposerInit, Bounds!Init
    <3> QED BY <3>1, DemandsAssumption DEF BoundsInv
  <2> QED BY <2>1, <2>2 DEF RegulationInv, BoundsInv
<1>2. RegulationInv /\ [CalculationsNext]_calculationVars => RegulationInv'
  BY RegulationInductive
<1>3. BoundsInv /\ [CalculationsNext]_calculationVars => BoundsInv'
  BY BoundsInductive
<1>4. RegulationInv /\ BoundsInv => DemandsAreReal
  BY OwedFollowsProfile, DetectedAreReal DEF DemandsAreReal
<1> QED BY <1>1, <1>2, <1>3, <1>4, PTL DEF CalculationsSpec

-----------------------------------------------------------------------------
\* What holds of a table of benefits while its lines are written.
BenefitsInv ==
  running = "benefits" =>
    /\ given \in Tables /\ mark \in {"load", "lines", "done", "refused"}
    /\ made \in [Lines!Columns -> Seq(Nat)]
    /\ Lines!Written \in Nat /\ Lines!Written <= Len(given.streams)
    /\ mark = "done" => Lines!Written = Len(given.streams)
    /\ \A i \in ToSet(made["accounted"]) :
         /\ i \in DOMAIN given.streams
         /\ Lines!ColumnOf(given.streams[i], given.streams, Lines!Rules, given.exported) = "accounted"

\* The sums of the instance are those of SumTheorems.
LEMMA LinesSums ==
  ASSUME NEW f
  PROVE  Lines!SumFunction(f) = SumFunctionOnSet(f, DOMAIN f)
<1>1. Lines!SumFunctionOnSet(f, DOMAIN f) = SumFunctionOnSet(f, DOMAIN f)
  BY Zenon DEF Lines!SumFunctionOnSet, SumFunctionOnSet, Lines!FoldFunctionOnSet, FoldFunctionOnSet,
     Lines!MapThenFoldSet, MapThenFoldSet
<1> QED BY <1>1 DEF Lines!SumFunction

\* There are four columns.
LEMMA ColumnsAreFinite == IsFiniteSet(Lines!Columns)
<1>1. Lines!Columns = {"accounted"} \cup ({"excluded"} \cup ({"increment_only"} \cup {"unmonetized_zero"}))
  BY DEF Lines!Columns
<1> QED BY <1>1, FS_Singleton, FS_Union

\* A line more is one line more.
LEMMA OneMoreLine ==
  ASSUME made \in [Lines!Columns -> Seq(Nat)], Lines!Written \in Nat, NEW c \in Lines!Columns, NEW i \in Nat,
         made' = [made EXCEPT ![c] = Append(@, i)]
  PROVE  /\ made' \in [Lines!Columns -> Seq(Nat)] /\ Lines!Written' = Lines!Written + 1
         /\ \A d \in Lines!Columns : ToSet(made'[d]) = IF d = c THEN ToSet(made[d]) \cup {i} ELSE ToSet(made[d])
<1> DEFINE C == Lines!Columns
           f == [d \in C |-> Len(made[d])]
           g == [d \in C |-> Len(made'[d])]
<1>1. made' \in [C -> Seq(Nat)]
  OBVIOUS
<1>2. \A d \in C : made'[d] = IF d = c THEN Append(made[d], i) ELSE made[d]
  OBVIOUS
<1>3. IsFiniteSet(C)
  BY ColumnsAreFinite
<1>4. \A d \in C : made[d] \in Seq(Nat)
  OBVIOUS
<1>5. \A d \in C : f[d] \in Int /\ g[d] \in Int /\ g[d] = IF d = c THEN f[d] + 1 ELSE f[d]
  BY <1>2, <1>4
<1>6. Lines!Written = SumFunctionOnSet(f, C) /\ Lines!Written' = SumFunctionOnSet(g, C)
  <2>1. Lines!Written = Lines!SumFunction(f) /\ Lines!Written' = Lines!SumFunction(g)
    BY Zenon DEF Lines!Written
  <2> HIDE DEF f, g
  <2>2. Lines!SumFunction(f) = SumFunctionOnSet(f, DOMAIN f) /\ Lines!SumFunction(g) = SumFunctionOnSet(g, DOMAIN g)
    BY LinesSums
  <2>3. DOMAIN f = C /\ DOMAIN g = C
    BY DEF f, g
  <2> QED BY <2>1, <2>2, <2>3
<1>7. SumFunctionOnSet(f, C) = f[c] + SumFunctionOnSet(f, C \ {c}) /\ SumFunctionOnSet(g, C) = g[c] + SumFunctionOnSet(g, C \ {c})
  <2> HIDE DEF f, g
  <2> QED BY <1>3, <1>5, SumTake
<1>8. SumFunctionOnSet(f, C \ {c}) = SumFunctionOnSet(g, C \ {c}) /\ SumFunctionOnSet(f, C \ {c}) \in Int
  <2> HIDE DEF f, g
  <2> DEFINE D == C \ {c}
  <2>1. IsFiniteSet(D) /\ \A d \in D : f[d] \in Int /\ g[d] \in Int /\ f[d] = g[d]
    BY <1>3, <1>5, FS_Subset
  <2> HIDE DEF D
  <2>2. SumFunctionOnSet(f, D) = SumFunctionOnSet(g, D) /\ SumFunctionOnSet(f, D) \in Int
    BY <2>1, SumSame, SumIsInt
  <2> QED BY <2>2 DEF D
<1>9. Lines!Written' = Lines!Written + 1
  <2> DEFINE u == f[c]
             v == g[c]
             rest == SumFunctionOnSet(f, C \ {c})
             w == Lines!Written
             x == Lines!Written'
  <2>1. u \in Int /\ v = u + 1
    BY <1>5
  <2>2. rest \in Int /\ SumFunctionOnSet(g, C \ {c}) = rest
    BY <1>8
  <2> HIDE DEF f, g
  <2>3. w = u + rest /\ x = v + rest
    BY <1>6, <1>7, <2>2
  <2> HIDE DEF u, v, rest, w, x
  <2>4. x = w + 1
    BY <2>1, <2>2, <2>3
  <2> QED BY <2>4 DEF w, x
<1>10. \A d \in C : ToSet(made'[d]) = IF d = c THEN ToSet(made[d]) \cup {i} ELSE ToSet(made[d])
  <2> SUFFICES ASSUME NEW d \in C PROVE ToSet(made'[d]) = IF d = c THEN ToSet(made[d]) \cup {i} ELSE ToSet(made[d])
    OBVIOUS
  <2> DEFINE s == made[d]
  <2>0. s \in Seq(Nat) /\ i \in Nat
    BY <1>4
  <2>1. AddsOne(s, i)
    <3> HIDE DEF s
    <3> QED BY <2>0, AppendedTo
  <2> QED BY <1>2, <2>1 DEF AddsOne
<1> QED BY <1>1, <1>9, <1>10

\* What the lines look at stays while they are written.
LEMMA TableStays ==
  ASSUME given' = given
  PROVE  /\ Lines!Rules' = Lines!Rules
         /\ \A s : Lines!ColumnOf(s, given.streams, Lines!Rules, given.exported)'
                     = Lines!ColumnOf(s, given.streams, Lines!Rules, given.exported)
<1>1. Lines!Rules' = Lines!Rules
  BY DEF Lines!Rules
<1> QED BY <1>1

\* BenefitsInv stays true.
LEMMA BenefitsInductive == BenefitsInv /\ [CalculationsNext]_calculationVars => BenefitsInv'
<1> SUFFICES ASSUME BenefitsInv, [CalculationsNext]_calculationVars PROVE BenefitsInv'
  OBVIOUS
<1> SUFFICES ASSUME running' = "benefits" PROVE BenefitsInv'
  BY DEF BenefitsInv
<1> DEFINE column(i) == Lines!ColumnOf(given.streams[i], given.streams, Lines!Rules, given.exported)
<1>1. running = "benefits"
  BY DEF CalculationsNext, calculationVars
<1>2. /\ given \in Tables /\ mark \in {"load", "lines", "done", "refused"}
      /\ made \in [Lines!Columns -> Seq(Nat)]
      /\ Lines!Written \in Nat /\ Lines!Written <= Len(given.streams)
      /\ mark = "done" => Lines!Written = Len(given.streams)
      /\ \A i \in ToSet(made["accounted"]) : i \in DOMAIN given.streams /\ column(i) = "accounted"
  BY <1>1, Zenon DEF BenefitsInv
<1>3. Len(given.streams) \in Nat /\ DOMAIN given.streams = 1 .. Len(given.streams)
  BY <1>2, TablesAssumption DEF Lines!IsTable
<1>4. ASSUME given' = given PROVE \A i : column(i)' = column(i)
  BY <1>4, TableStays
<1>5. ASSUME given' = given, made' = made, mark' \in {"load", "lines", "done", "refused"},
             mark' = "done" => Lines!Written = Len(given.streams)
      PROVE  BenefitsInv'
  <2>1. Lines!Written' = Lines!Written
    BY <1>5 DEF Lines!Written
  <2>2. \A i \in ToSet(made["accounted"])' : i \in DOMAIN given'.streams /\ column(i)' = "accounted"
    BY <1>2, <1>4, <1>5
  <2> HIDE DEF column
  <2> QED BY <1>2, <1>5, <2>1, <2>2, Zenon DEF BenefitsInv, column
<1>6. CASE UNCHANGED calculationVars
  <2>1. given' = given /\ made' = made /\ mark' = mark
    BY <1>6 DEF calculationVars
  <2> QED BY <1>2, <1>5, <2>1
<1>7. CASE CalculationsNext
  <2>1. Lines!Next
    BY <1>1, <1>7 DEF CalculationsNext, ApplyDuty, ShareAssets, ListBenefits, ComposeBounds, OverrideLedger,
           UseSeries, StoreSeries, SpreadShapes, ComposeModel
  <2>2. CASE Lines!Load
    <3>1. given' = given /\ made' = made /\ mark' \in {"lines", "refused"}
      BY <2>2, Zenon DEF Lines!Load
    <3> QED BY <1>5, <3>1
  <2>3. CASE Lines!AddLine /\ ~(Lines!Written < Len(given.streams))
    <3>1. given' = given /\ made' = made /\ mark' = "done"
      BY <2>3, Zenon DEF Lines!AddLine
    <3>2. Lines!Written = Len(given.streams)
      BY <1>2, <1>3, <2>3
    <3> QED BY <1>5, <3>1, <3>2
  <2>4. CASE Lines!AddLine /\ Lines!Written < Len(given.streams)
    <3> DEFINE i == Lines!Written + 1
               c == column(i)
    <3>1. given' = given /\ mark' = mark /\ mark = "lines" /\ made' = [made EXCEPT ![c] = Append(@, i)]
      BY <2>4, Zenon DEF Lines!AddLine
    <3>2. c \in Lines!Columns
      BY DEF Lines!ColumnOf, Lines!Columns
    <3>3. i \in Nat
      BY <1>2
    <3>4. "accounted" \in Lines!Columns
      BY DEF Lines!Columns
    <3> HIDE DEF c, i, column
    <3>5. /\ made' \in [Lines!Columns -> Seq(Nat)] /\ Lines!Written' = Lines!Written + 1
          /\ \A d \in Lines!Columns : ToSet(made'[d]) = IF d = c THEN ToSet(made[d]) \cup {i} ELSE ToSet(made[d])
      BY <1>2, <3>1, <3>2, <3>3, OneMoreLine
    <3>6. ASSUME NEW j \in ToSet(made'["accounted"]) PROVE j \in DOMAIN given.streams /\ column(j) = "accounted"
      <4>1. CASE j \in ToSet(made["accounted"])
        BY <1>2, <4>1
      <4>2. CASE j \notin ToSet(made["accounted"])
        <5>1. c = "accounted" /\ j = i
          BY <3>4, <3>5, <3>6, <4>2
        <5>2. i \in DOMAIN given.streams
          BY <1>2, <1>3, <2>4 DEF i
        <5>3. column(i) = "accounted"
          BY <5>1, Zenon DEF c
        <5> QED BY <5>1, <5>2, <5>3
      <4> QED BY <4>1, <4>2
    <3>7. \A j \in ToSet(made["accounted"])' : j \in DOMAIN given'.streams /\ column(j)' = "accounted"
      BY <1>4, <3>1, <3>6
    <3>8. Lines!Written' \in Nat /\ Lines!Written' <= Len(given.streams)
      BY <1>2, <1>3, <2>4, <3>5
    <3> QED BY <1>2, <3>1, <3>5, <3>7, <3>8, Zenon DEF BenefitsInv, column
  <2> QED BY <2>1, <2>2, <2>3, <2>4 DEF Lines!Next
<1> QED BY <1>6, <1>7

\* Two enabled streams that a rule of the profile tells apart are told apart: the
\* report sets the first of them aside, or counts it as an increment only.
LEMMA ToldApart ==
  ASSUME NEW streams, NEW rules, NEW exported, NEW r \in rules, NEW i \in DOMAIN streams, NEW j \in DOMAIN streams,
         Lines!StructureApplies(r, streams), streams[i].enabled, streams[j].enabled,
         r.type \in {"A", "E"} => Lines!SameQuantityIsPossible(streams[i], streams[j]),
         \/ r.type # "B" /\ {r.a, r.b} = {streams[i].tag, streams[j].tag}
         \/ r.type = "B" /\ streams[i].tag = r.a /\ streams[j].tag = r.b
  PROVE  Lines!ColumnOf(streams[i], streams, rules, exported) # "accounted"
<1>1. (r.a = streams[i].tag /\ r.b = streams[j].tag) \/ (r.b = streams[i].tag /\ r.a = streams[j].tag)
  OBVIOUS
<1>2. r.type \in {"A", "E"} => Lines!SameQuantityIsPossible(streams[j], streams[i])
  BY DEF Lines!SameQuantityIsPossible
<1>3. Lines!Hits(r, streams)
  BY <1>1, <1>2 DEF Lines!Hits, Lines!Tagged
<1>4. r \in Lines!CollectExclusions(streams, rules)
  BY <1>3 DEF Lines!CollectExclusions
<1>5. streams[i].tag \in Lines!SetAside(streams, rules) \/ streams[i].tag \in Lines!IncrementOnly(streams, rules)
  BY <1>1, <1>4 DEF Lines!SetAside, Lines!IncrementOnly
<1> QED BY <1>5 DEF Lines!ColumnOf

\* No benefit is counted twice (collect_exclusions, assert_no_exclusions,
\* build_report): for every table, profile and list of streams.
THEOREM NoneIsCountedTwice == CalculationsSpec => []NothingCountedTwice
<1>1. CalculationsInit => BenefitsInv
  <2> SUFFICES ASSUME CalculationsInit, running = "benefits" PROVE BenefitsInv
    BY DEF BenefitsInv
  <2>1. given \in Tables /\ made = [c \in Lines!Columns |-> <<>>] /\ mark = "load"
    BY DEF CalculationsInit, CommuneInit, RegulationInit, BenefitsInit, BoundsInit, LedgerInit,
           SeriesInit, FilesInit, ShapesInit, ComposerInit, Lines!Init
  <2>2. Lines!Written = 0
    <3> DEFINE f == [c \in Lines!Columns |-> Len(made[c])]
    <3>1. \A c \in Lines!Columns : f[c] = 0
      BY <2>1
    <3>2. Lines!Written = SumFunctionOnSet(f, Lines!Columns)
      <4>1. Lines!Written = Lines!SumFunction(f)
        BY Zenon DEF Lines!Written
      <4>2. Lines!SumFunction(f) = SumFunctionOnSet(f, DOMAIN f)
        BY LinesSums
      <4> QED BY <4>1, <4>2
    <3>3. IsFiniteSet(Lines!Columns)
      BY ColumnsAreFinite
    <3>4. Cardinality(Lines!Columns) \in Nat
      BY <3>3, FS_CardinalityType
    <3>5. SumFunctionOnSet(f, Lines!Columns) = Cardinality(Lines!Columns) * 0
      <4> HIDE DEF f
      <4> QED BY <3>1, <3>3, SumOfAlike
    <3> QED BY <3>2, <3>4, <3>5
  <2>3. Len(given.streams) \in Nat
    BY <2>1, TablesAssumption DEF Lines!IsTable
  <2>4. made \in [Lines!Columns -> Seq(Nat)] /\ made["accounted"] = <<>>
    BY <2>1 DEF Lines!Columns
  <2>5. ToSet(made["accounted"]) = {}
    BY <2>4 DEF ToSet
  <2> QED BY <2>1, <2>2, <2>3, <2>4, <2>5 DEF BenefitsInv
<1>2. BenefitsInv /\ [CalculationsNext]_calculationVars => BenefitsInv'
  BY BenefitsInductive
<1>3. BenefitsInv => NothingCountedTwice
  <2> SUFFICES ASSUME BenefitsInv, running = "benefits", mark = "done" PROVE Lines!NothingCountedTwice
    BY DEF NothingCountedTwice, Lines!NothingCountedTwice
  <2>1. Lines!Written = Len(given.streams)
    BY DEF BenefitsInv
  <2>2. Lines!ToSet(given.rules) = ToSet(given.rules) /\ Lines!ToSet(made.accounted) = ToSet(made["accounted"])
    BY DEF Lines!ToSet, ToSet
  <2> DEFINE conflict(r, i, j) ==
        LET s == given.streams[i]
            t == given.streams[j]
        IN  /\ r.profile \in {None, given.profile}
            /\ r.structure = None \/ \E k \in DOMAIN given.streams :
                 given.streams[k].enabled /\ given.streams[k].structure = r.structure
            /\ s.enabled /\ t.enabled
            /\ r.type \in {"A", "E"} => s.quantity = None \/ t.quantity = None \/ s.quantity = t.quantity
  <2>3. ASSUME NEW r \in ToSet(given.rules), NEW i \in ToSet(made["accounted"]), NEW j \in DOMAIN given.streams,
               conflict(r, i, j)
        PROVE  /\ ~(r.type # "B" /\ {r.a, r.b} = {given.streams[i].tag, given.streams[j].tag})
               /\ ~(r.type = "B" /\ given.streams[i].tag = r.a /\ given.streams[j].tag = r.b)
    <3>1. i \in DOMAIN given.streams /\ Lines!ColumnOf(given.streams[i], given.streams, Lines!Rules, given.exported) = "accounted"
      BY <2>3, Zenon DEF BenefitsInv
    <3>2. r \in Lines!Rules
      BY <2>2, <2>3 DEF Lines!Rules, Lines!RulesForProfile
    <3>3. Lines!StructureApplies(r, given.streams) /\ given.streams[i].enabled /\ given.streams[j].enabled
      BY <2>3 DEF Lines!StructureApplies
    <3>4. r.type \in {"A", "E"} => Lines!SameQuantityIsPossible(given.streams[i], given.streams[j])
      BY <2>3 DEF Lines!SameQuantityIsPossible
    <3> HIDE DEF conflict
    <3> QED BY <2>3, <3>1, <3>2, <3>3, <3>4, ToldApart
  <2>4. ASSUME NEW r \in Lines!ToSet(given.rules), NEW i \in Lines!ToSet(made.accounted), NEW j \in DOMAIN given.streams
        PROVE  /\ conflict(r, i, j) /\ r.type # "B" /\ {r.a, r.b} = {given.streams[i].tag, given.streams[j].tag}
                    => j \notin Lines!ToSet(made.accounted)
               /\ conflict(r, i, j) /\ r.type = "B" => ~(given.streams[i].tag = r.a /\ given.streams[j].tag = r.b)
    <3> HIDE DEF conflict
    <3> QED BY <2>2, <2>3, <2>4
  <2> QED BY <2>1, <2>4, Zenon DEF Lines!NothingCountedTwice
<1> QED BY <1>1, <1>2, <1>3, PTL DEF CalculationsSpec
=============================================================================
