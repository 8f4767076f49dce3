--------------------------- MODULE AssetLifecycle ---------------------------
(***************************************************************************)
(* What a resource buys during the analysis period, and what is left of it *)
(* at the end: replacement_schedule and salvage_value of the resources     *)
(* (core/der/*.py, core/asset/common_asset.py) and the rows the runner     *)
(* makes of them (core/casegrid/lifecycle.py).                             *)
(*                                                                         *)
(* A resource is one or two parts with lives of their own.  The loop of    *)
(* every class walks the parts: the years in which a part is bought again  *)
(* are life + 1, 2 * life + 1, ... up to the end of the analysis.  The     *)
(* classes differ in what a part costs, in whether the first purchase of a *)
(* part is counted, and in how the salvage value finds the unit in place:  *)
(* PV, ESS and HeatPump look at the purchases, the others compute its year *)
(* from the life.                                                          *)
(*                                                                         *)
(* Prices are whole won; the price factor of a year is (1 + rate)^(year-1) *)
(* for a whole rate.  Amounts are compared part by part, before to_won.    *)
(***************************************************************************)
EXTENDS Integers, Sequences, FiniteSets

CONSTANTS
  Resources,  \* the resources to be analysed
  Horizons    \* lengths of the analysis, in years

\* PV, ESS and HeatPump look at what was bought; the others compute the year of
\* the unit in place from its life.
LooksAtPurchases(r) == r.kind \in {"PV", "ESS", "HeatPump"}
Parts(r) == 1 .. Len(r.life)

\* (1 + replacement_escalation_rate) ** (year - 1)
Factor(r, y) == (1 + r.rate) ^ (y - 1)

\* What the constructors of the classes below make: lives of a year or more, no
\* negative price; a load is bought again at its first price, a common asset
\* never retires and its prices do not rise.
WellMade(r) ==
  /\ r.life \in Seq(Nat \ {0})
  /\ r.first \in [Parts(r) -> Nat] /\ r.again \in [Parts(r) -> Nat]
  /\ r.retire \in BOOLEAN
  /\ LooksAtPurchases(r) \/ r.kind \in {"EV", "Load", "ThermalLoad", "CommonAsset"}
  /\ r.kind \in {"Load", "ThermalLoad"} => r.again = r.first
  /\ r.kind = "CommonAsset" => ~r.retire /\ r.rate = 0

\* Arithmetic of the factor in the years of an analysis.
FactorLaws(r, h) ==
  /\ \A y \in 1 .. h : Factor(r, y) \in Nat
  /\ Factor(r, 1) = 1
  /\ r.rate = 0 => \A y \in 1 .. h : Factor(r, y) = 1

ASSUME LifecycleAssumption ==
  /\ Horizons \subseteq Nat \ {0}
  /\ \A r \in Resources : WellMade(r) /\ \A h \in Horizons : FactorLaws(r, h)

VARIABLES
  res,      \* the resource
  horizon,  \* analysis end year
  stage,       \* "part", "buy" or "done"
  part,     \* the part the loop is at
  year,     \* next year in which it is bought again
  bought    \* bought[p]: years in which part p is bought again

lifeVars == <<res, horizon, stage, part, year, bought>>

(***************************************************************************)
(* The parts of each class: lives, the price of the first purchase (0 when *)
(* the price of the resource contains it) and of the following ones.       *)
(***************************************************************************)
Resource(kind, life, first, again, retire, rate) ==
  [kind |-> kind, life |-> life, first |-> first, again |-> again,
   retire |-> retire, rate |-> rate]

\* The body is bought again at its unit price, without the extras.
PV(life, inverter, price, extra, inverterPrice, retire, rate) ==
  Resource("PV", <<life, inverter>>, <<price + extra, 0>>,
           <<price, inverterPrice>>, retire, rate)

\* pcs = 0: no PCS life is given.
ESS(life, pcs, price, battery, pcsPrice, retire, rate) ==
  IF pcs = 0
  THEN Resource("ESS", <<life>>, <<price>>, <<battery>>, retire, rate)
  ELSE Resource("ESS", <<life, pcs>>, <<price, 0>>, <<battery, pcsPrice>>,
                retire, rate)

HeatPump(life, pump, price, bodyPrice, pumpPrice, retire, rate) ==
  IF pump = 0
  THEN Resource("HeatPump", <<life>>, <<price>>, <<bodyPrice>>, retire, rate)
  ELSE Resource("HeatPump", <<life, pump>>, <<price, 0>>,
                <<bodyPrice, pumpPrice>>, retire, rate)

EV(life, charger, extra, retire, rate) ==
  Resource("EV", <<life>>, <<charger + extra>>, <<charger>>, retire, rate)

\* Every part counts with its own price, the first time too.
Load(life, price, subLife, subPrice, retire, rate) ==
  Resource("Load", <<life, subLife>>, <<price, subPrice>>, <<price, subPrice>>,
           retire, rate)
ThermalLoad(life, price, subLife, subPrice, retire, rate) ==
  [Load(life, price, subLife, subPrice, retire, rate) EXCEPT !.kind = "ThermalLoad"]

\* Software and hardware; what is bought again is a share of the first price,
\* without a price factor, and it never retires.
CommonAsset(softLife, hardLife, soft, hard, softAgain, hardAgain) ==
  Resource("CommonAsset", <<softLife, hardLife>>, <<soft, hard>>,
           <<softAgain, hardAgain>>, FALSE, 0)

Price(r, p, y) == IF y = 1 THEN r.first[p] ELSE r.again[p] * Factor(r, y)

\* A part that costs nothing is not bought again (the EV charger is).
BoughtAgain(r, p) == r.kind = "EV" \/ r.again[p] > 0

\* The first purchase of a part that the salvage value knows of: the inverter,
\* the PCS and the pump come with the body.
CountsFirst(r, p) == LooksAtPurchases(r) => p = 1

-----------------------------------------------------------------------------
LifeInit ==
  /\ res \in Resources
  /\ horizon \in Horizons
  /\ stage = "part"
  /\ part = 1
  /\ year = 0
  /\ bought = [p \in Parts(res) |-> {}]

\* retires_at_end_of_life(): nothing is bought again.
Retire ==
  /\ stage = "part" /\ part = 1
  /\ res.retire
  /\ stage' = "done"
  /\ UNCHANGED <<res, horizon, part, year, bought>>

SkipPart ==
  /\ stage = "part" /\ part \in Parts(res)
  /\ ~res.retire
  /\ ~BoughtAgain(res, part)
  /\ part' = part + 1
  /\ UNCHANGED <<res, horizon, stage, year, bought>>

\* Due in the year after the life of the unit in place.
EnterPart ==
  /\ stage = "part" /\ part \in Parts(res)
  /\ ~res.retire
  /\ BoughtAgain(res, part)
  /\ stage' = "buy"
  /\ year' = res.life[part] + 1
  /\ UNCHANGED <<res, horizon, part, bought>>

\* Variant: every part is bought with the life of the body.
BuyByBody ==
  /\ stage = "buy"
  /\ year <= horizon
  /\ bought' = [bought EXCEPT ![part] = @ \cup {year}]
  /\ year' = year + res.life[1]
  /\ UNCHANGED <<res, horizon, stage, part>>

\* while year <= horizon
Buy ==
  /\ stage = "buy"
  /\ year <= horizon
  /\ bought' = [bought EXCEPT ![part] = @ \cup {year}]
  /\ year' = year + res.life[part]
  /\ UNCHANGED <<res, horizon, stage, part>>

LeavePart ==
  /\ stage = "buy"
  /\ year > horizon
  /\ stage' = "part"
  /\ part' = part + 1
  /\ UNCHANGED <<res, horizon, year, bought>>

Finish ==
  /\ stage = "part"
  /\ part > Len(res.life)
  /\ stage' = "done"
  /\ UNCHANGED <<res, horizon, part, year, bought>>

LifeNext == Retire \/ SkipPart \/ EnterPart \/ Buy \/ LeavePart \/ Finish

LifeSpec == LifeInit /\ [][LifeNext]_lifeVars

-----------------------------------------------------------------------------
(***************************************************************************)
(* What the answer is made of.  An amount of a part is a number of won and *)
(* the life it is still to be divided by.                                  *)
(***************************************************************************)
Greatest(S) == CHOOSE x \in S : \A y \in S : x >= y
AtLeastZero(n) == IF n > 0 THEN n ELSE 0
Share(price, remaining, life) == [won |-> price * remaining, of |-> life]

Purchases(r, p) == bought[p] \cup (IF CountsFirst(r, p) THEN {1} ELSE {})

\* PV, ESS, HeatPump: the last purchase, counted from its year.
SalvageOfPurchases(r, p) ==
  LET last == Greatest(Purchases(r, p))
      used == horizon - last + 1
  IN  IF Purchases(r, p) = {}
      THEN Share(0, 0, r.life[p])
      ELSE Share(Price(r, p, last), AtLeastZero(r.life[p] - used), r.life[p])

\* Load, ThermalLoad: the year of the unit in place follows from its life.
SalvageOfLoad(r, p) ==
  LET age == (horizon - 1) % r.life[p]
  IN  Share(r.first[p] * Factor(r, horizon - age), r.life[p] - age - 1, r.life[p])

SalvageOfEV(r, p) ==
  LET n == r.life[p]
      install == ((horizon - 1) \div n) * n + 1
      remaining == n - (horizon - install + 1)
  IN  IF remaining <= 0
      THEN Share(0, 0, n)
      ELSE Share(IF install = 1 THEN r.first[p] ELSE r.again[p] * Factor(r, install),
                 remaining, n)

\* Variant: the price of the first unit, whichever is in place.
SalvageOfCommonFirst(r, p) ==
  LET n == r.life[p]
      installed == 1 + n * ((horizon - 1) \div n)
  IN  Share(r.first[p], AtLeastZero(n - (horizon - installed + 1)), n)

SalvageOfCommon(r, p) ==
  LET n == r.life[p]
      installed == 1 + n * ((horizon - 1) \div n)
  IN  Share(IF installed = 1 THEN r.first[p] ELSE r.again[p],
            AtLeastZero(n - (horizon - installed + 1)), n)

Salvage(r, p) ==
  CASE LooksAtPurchases(r) -> SalvageOfPurchases(r, p)
    [] r.kind \in {"Load", "ThermalLoad"} -> SalvageOfLoad(r, p)
    [] r.kind = "EV" -> SalvageOfEV(r, p)
    [] r.kind = "CommonAsset" -> SalvageOfCommon(r, p)

-----------------------------------------------------------------------------
LifeTypeOK ==
  /\ res \in Resources
  /\ horizon \in Horizons
  /\ stage \in {"part", "buy", "done"}
  /\ part \in 1 .. Len(res.life) + 1
  /\ year \in Nat
  /\ bought \in [Parts(res) -> SUBSET (2 .. horizon)]

(***************************************************************************)
(* A resource that is replaced is in service in every year of the          *)
(* analysis, with exactly one unit of each part: no year without a unit    *)
(* and none bought while the one before it has life left.                  *)
(***************************************************************************)
Serves(p, bt, y) == bt <= y /\ y < bt + res.life[p]
EveryYearServed ==
  stage = "done" /\ ~res.retire =>
    \A p \in Parts(res) : BoughtAgain(res, p) =>
      \A y \in 1 .. horizon :
        /\ \E b \in bought[p] \cup {1} : Serves(p, b, y)
        /\ \A b, c \in bought[p] \cup {1} : Serves(p, b, y) /\ Serves(p, c, y) => b = c

(***************************************************************************)
(* The salvage value of a part is that of the unit in place among those    *)
(* that were paid for, at the price that was paid, and no other            *)
(* (test_lifecycle_wiring.py: only what was bought has a salvage value).   *)
(***************************************************************************)
LeftOf(p, b) == AtLeastZero(b + res.life[p] - 1 - horizon)
SalvageOfWhatWasBought ==
  stage = "done" =>
    \A p \in Parts(res) :
      LET units == Purchases(res, p)
          worth == {Price(res, p, b) * LeftOf(p, b) : b \in units}
      IN  Salvage(res, p).won = IF units = {} THEN 0 ELSE Greatest(worth)

(***************************************************************************)
(* The loop ends for every resource and every horizon.                     *)
(***************************************************************************)
LoopEnds == <>(stage = "done")
=============================================================================
