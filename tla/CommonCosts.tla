---------------------------- MODULE CommonCosts ----------------------------
(***************************************************************************)
(* The costs of the assets a community shares and their allocation to its  *)
(* households (core/asset/common_asset.py, core/contracts/asset.py): every *)
(* year the cost of every asset is split by its rule, rounded to the won,  *)
(* and what rounding leaves goes to the last household.                    *)
(*                                                                         *)
(* Ratios are in halves; prices double every year or stay.                 *)
(***************************************************************************)
EXTENDS Integers, Sequences, SequencesExt

CONSTANTS
  Communes, \* assets, households, capacities and own costs, horizon
  None

VARIABLES
  given,  \* the commune
  at,     \* "declared", "refused", "allocating", "failed", "broken", "done"
  made    \* by year: name of an asset to its allocation

costVars == <<given, at, made>>

\* What a commune is declared with: every number of any sign, capacities or none.
Rules == {"equal", "capacity", "none"}
IsCommune(c) ==
  /\ c.assets \in Seq([name : STRING, software : Int, hardware : Int, om : Int, softwareLife : Int, hardwareLife : Int,
                       softwareRatio : Int, hardwareRatio : Int, rises : BOOLEAN, rule : Rules])
  /\ c.households \in Nat /\ (c.capacities = None \/ c.capacities \in Seq(Int))
  /\ c.own \in Seq([name : STRING, won : Int]) /\ c.horizon \in Nat
  /\ \A y \in 1 .. c.horizon : 2 ^ (y - 1) \in Nat

assets == given.assets
n == given.households
Names == {a.name : a \in ToSet(assets)}
Asset(name) == CHOOSE a \in ToSet(assets) : a.name = name
HalvesToWon(x) == (x + 1) \div 2
Sum(s) == SumFunction(s)
DividedToWon(x, d) == (2 * x + d) \div (2 * d)

(***************************************************************************)
(* The cost of an asset in a year: software and hardware are bought in the *)
(* first year and again at the end of their own lives.                     *)
(***************************************************************************)
Part(cost, ratio, life) == [cost |-> cost, again |-> HalvesToWon(cost * ratio), life |-> life]
Software(a) == Part(a.software, a.softwareRatio, a.softwareLife)
Hardware(a) == Part(a.hardware, a.hardwareRatio, a.hardwareLife)
Capex(a, y) == IF y = 1 THEN a.software + a.hardware ELSE 0
FixedOm(a, y) == a.om * (IF a.rises THEN 2 ^ (y - 1) ELSE 1)
ReplacedIn(p, y) == IF y > 1 /\ (y - 1) % p.life = 0 /\ y <= given.horizon THEN p.again ELSE 0
AnnualCost(a, y) == Capex(a, y) + FixedOm(a, y) + ReplacedIn(Software(a), y) + ReplacedIn(Hardware(a), y)
DeclaredWell(a) ==
  /\ a.name # "" /\ a.softwareLife > 0 /\ a.hardwareLife > 0
  /\ a.software >= 0 /\ a.hardware >= 0 /\ a.om >= 0
  /\ a.softwareRatio >= 0 /\ a.hardwareRatio >= 0

(***************************************************************************)
(* The split of a cost.                                                    *)
(***************************************************************************)
Weighable == given.capacities # None /\ Len(given.capacities) = n
             /\ (\A i \in 1 .. n : given.capacities[i] >= 0) /\ Sum(given.capacities) > 0
Weights(rule) == IF rule = "equal" THEN [i \in 1 .. n |-> 1] ELSE given.capacities
\* Variant: what rounding leaves stays with nobody.
SplitRounded(total, weights) == [i \in 1 .. n |-> DividedToWon(total * weights[i], Sum(weights))]
SplitWithResidual(total, weights) ==
  LET shares == [i \in 1 .. n |-> DividedToWon(total * weights[i], Sum(weights))]
  IN  [shares EXCEPT ![n] = @ + total - Sum(shares)]
Allocate(a, total) ==
  IF a.rule = "none"
  THEN [total |-> total, shares |-> [i \in 1 .. n |-> 0], rest |-> total]
  ELSE [total |-> total, shares |-> SplitWithResidual(total, Weights(a.rule)), rest |-> 0]
AddsUp(r) == Sum(r.shares) + r.rest = r.total

-----------------------------------------------------------------------------
Init == given \in Communes /\ at = "declared" /\ made = <<>>

\* __init__ of every asset; a name is none, a life is not positive, ...
Declare ==
  /\ at = "declared"
  /\ at' = IF \A a \in ToSet(assets) : DeclaredWell(a) THEN "allocating" ELSE "refused"
  /\ UNCHANGED <<given, made>>

\* allocate_assets of one year, and __post_init__ of what it returns.
AllocateYear ==
  /\ at = "allocating" /\ Len(made) < given.horizon
  /\ LET y == Len(made) + 1
         results == [name \in Names |-> Allocate(Asset(name), AnnualCost(Asset(name), y))]
     IN  IF \/ \E i, j \in DOMAIN assets : i # j /\ assets[i].name = assets[j].name
            \/ assets # <<>> /\ n < 1
            \/ \E a \in ToSet(assets) : a.rule = "capacity" /\ ~Weighable
         THEN at' = "failed" /\ UNCHANGED made
         ELSE IF \E name \in Names : ~AddsUp(results[name])
         THEN at' = "broken" /\ UNCHANGED made
         ELSE /\ made' = Append(made, results)
              /\ at' = IF y = given.horizon THEN "done" ELSE "allocating"
  /\ UNCHANGED given

Next == Declare \/ AllocateYear

\* household_proforma_rows: own costs, then one row for every asset.
Rows(i, y) ==
  given.own \o SetToSeq({[name |-> name, won |-> made[y][name].shares[i]] : name \in Names})
Paid(i, y) == Sum([k \in DOMAIN Rows(i, y) |-> Rows(i, y)[k].won])

\* _salvage: what the unit in place was bought for, over its life, is left.
InstalledAt(p, y) == 1 + p.life * ((y - 1) \div p.life)
Salvage(p, y) ==
  DividedToWon((IF InstalledAt(p, y) = 1 THEN p.cost ELSE p.again) * (p.life - (y - InstalledAt(p, y) + 1)), p.life)
Bought(p, y) == (IF y = 1 THEN p.cost ELSE 0) + ReplacedIn(p, y)

-----------------------------------------------------------------------------
(***************************************************************************)
(* Nothing of a shared cost is lost between the community and the          *)
(* proformas of its households: what the rows of all households and what   *)
(* is shown for the community alone add up to, year by year, is what the   *)
(* assets cost, and no allocation breaks the contract of its result.  The  *)
(* last household bears no more than half a won of every household for     *)
(* it, the others with the same capacity pay the same, with less capacity  *)
(* not more.  What is left of an asset at the end is never more than was   *)
(* paid for it in its last purchase (allocate_assets,                      *)
(* household_proforma_rows, _split_with_residual, salvage_value).          *)
(***************************************************************************)
OwnCosts == Sum([k \in DOMAIN given.own |-> given.own[k].won])
Fair(a, r) ==
  LET w == Weights(a.rule)
      exact == r.total * w[n]
      gap == r.shares[n] * Sum(w) - exact
  IN  /\ \A i, j \in 1 .. n - 1 : w[i] <= w[j] => r.shares[i] <= r.shares[j]
      /\ -n * Sum(w) <= 2 * gap /\ 2 * gap <= n * Sum(w)
AllocatedWhole ==
  /\ at # "broken"
  /\ \A y \in DOMAIN made :
       /\ Sum([i \in 1 .. n |-> Paid(i, y)]) + Sum([name \in Names |-> made[y][name].rest])
            = n * OwnCosts + Sum([name \in Names |-> AnnualCost(Asset(name), y)])
       /\ \A name \in Names : Asset(name).rule # "none" => Fair(Asset(name), made[y][name])
  /\ at = "done" =>
       \A a \in ToSet(assets) : \A p \in {Software(a), Hardware(a)} :
         Salvage(p, given.horizon) <= Bought(p, InstalledAt(p, given.horizon))
=============================================================================
