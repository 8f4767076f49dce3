----------------------------- MODULE HeatSupply -----------------------------
(***************************************************************************)
(* A heat pump (core/der/heatpump.py) beside the heat load of the site     *)
(* (core/der/thermal_load.py) in the engine that balances every medium     *)
(* (core/engine/rule_based.py).  The pump follows its load, or shifts the  *)
(* load of a day to the night or to the cheapest hours of the day.         *)
(*                                                                         *)
(* Heat is counted in parts such that levels and months are exact;         *)
(* electricity in twelfths of that.  A pump fades by half or not at all,   *)
(* a load doubles every year or stays.                                     *)
(***************************************************************************)
EXTENDS Integers, Sequences, SequencesExt, FiniteSetsExt

CONSTANTS
  Pumps, HeatLoads,    \* what is declared
  Asked,               \* contexts of a dispatch: year, steps, steps of an hour, ambient
  Days, Hours, Months, \* days of a year, hours of a day, days of each month
  None

VARIABLES
  given,  \* pump, load, context
  at,     \* "declared", "refused", "accepted", "failed", "supplied", "balanced", "unbalanced"
  made    \* heat and unmet heat by step, and the totals the pump reports

heatVars == <<given, at, made>>

pump == given.pump
load == given.load
ctx == given.ctx
Less(a, b) == IF a < b THEN a ELSE b
More(a, b) == IF a < b THEN b ELSE a
Sum(s) == FoldLeft(LAMBDA x, y : x + y, 0, s)
NonNegative(s) == \A x \in ToSet(s) : x >= 0
Steps == 1 .. ctx.steps
PerDay == Hours * pump.perHour
YearSteps == Days * PerDay
Zeros == [s \in Steps |-> 0]

(***************************************************************************)
(* What is declared: a pump with a curve of coefficients, a load by steps  *)
(* or by degree days and the weights of the months.                        *)
(***************************************************************************)
Curve == SetToSortSeq(ToSet(pump.curve), LAMBDA p, q : p[1] < q[1])
PumpValid ==
  /\ pump.rated > 0 /\ pump.aux >= 0
  /\ pump.mode = "price" => pump.prices # None
  /\ pump.cheapest > 0
  /\ Len(pump.curve) > 0
  /\ \A p, q \in DOMAIN pump.curve : p # q => pump.curve[p][1] # pump.curve[q][1]
  /\ \A p \in ToSet(pump.curve) : p[2] > 0
  /\ pump.prices # None => Len(pump.prices) = YearSteps
  /\ pump.profile # None => Len(pump.profile) = YearSteps /\ NonNegative(pump.profile)
  /\ pump.annual >= 0

WeightsValid ==
  load.weights # None => Len(load.weights) = Len(Months) /\ NonNegative(load.weights) /\ Sum(load.weights) > 0
DegreeDaysValid == load.hdd # None /\ load.intensity # None /\ load.hdd >= 0 /\ load.intensity >= 0
LoadValid ==
  /\ WeightsValid
  /\ IF load.hdd # None \/ load.intensity # None
     THEN load.steps = None /\ DegreeDaysValid
     ELSE load.steps # None /\ Len(load.steps) = YearSteps /\ NonNegative(load.steps)
MonthWeights == IF load.weights = None THEN Months ELSE load.weights
MonthOf(s) ==
  CHOOSE m \in DOMAIN Months :
    /\ s <= Sum(SubSeq(Months, 1, m)) * PerDay
    /\ s > Sum(SubSeq(Months, 1, m - 1)) * PerDay
Expand ==
  [s \in 1 .. YearSteps |->
     LET m == MonthOf(s)
     IN  ((load.hdd * load.intensity * MonthWeights[m]) \div Sum(MonthWeights)) \div (Months[m] * PerDay)]
Demand ==
  LET base == IF load.steps # None THEN load.steps ELSE Expand
  IN  [s \in Steps |-> base[s] * (IF load.grows THEN 2 ^ (ctx.year - 1) ELSE 1)]

(***************************************************************************)
(* The plan of the pump: how much to produce in a step, and against what   *)
(* the heat it could not produce is counted.                               *)
(***************************************************************************)
PumpLoad == IF pump.profile # None THEN pump.profile ELSE [s \in Steps |-> pump.annual \div YearSteps]
DayOf(s) == (s - 1) \div PerDay
StepsOf(day) == {s \in Steps : DayOf(s) = day}
Hour(s) == ((s - 1) \div pump.perHour) % Hours
Cheaper(s, t) ==
  \/ pump.prices[s] < pump.prices[t]
  \/ pump.prices[s] = pump.prices[t] /\ s < t
Allowed(s) ==
  CASE pump.mode = "night" -> Hour(s) \in pump.night
    [] pump.mode = "price" ->
         Cardinality({t \in StepsOf(DayOf(s)) : Cheaper(t, s)}) < pump.cheapest * pump.perHour
    [] OTHER -> TRUE
Window(day) == {s \in StepsOf(day) : Allowed(s)}
Level(day) ==
  SumFunctionOnSet(PumpLoad, StepsOf(day)) \div Cardinality(Window(day))
Target(s) ==
  CASE pump.mode = "follow" -> PumpLoad[s]
    [] Allowed(s) -> Level(DayOf(s))
    [] OTHER -> 0
\* Variant: a day without an allowed hour is a day without a load.
TargetAsBasis(s) == Target(s)
Basis(s) == IF pump.mode # "follow" /\ Window(DayOf(s)) = {} THEN PumpLoad[s] ELSE Target(s)

CopAt(temp) ==
  LET last == Curve[Len(Curve)]
      inside == {p \in 1 .. Len(Curve) - 1 : Curve[p][1] <= temp /\ temp <= Curve[p + 1][1]}
  IN  IF temp <= Curve[1][1] THEN Curve[1][2]
      ELSE IF inside = {} THEN last[2]
      ELSE LET p == CHOOSE q \in inside : \A r \in inside : q <= r
           IN  Curve[p][2] + ((Curve[p + 1][2] - Curve[p][2]) * (temp - Curve[p][1]))
                               \div (Curve[p + 1][1] - Curve[p][1])
Temperature(s) == IF ctx.ambient # None THEN ctx.ambient[s] ELSE pump.temperature
Fading == IF pump.fades THEN 2 ^ (ctx.year - 1) ELSE 1

PumpHeat(s) == Less(Target(s), pump.rated \div pump.perHour)
AuxHeat(s) == Less(Target(s) - PumpHeat(s), pump.aux \div pump.perHour)
Consumed(s) == (12 * PumpHeat(s) * Fading) \div CopAt(Temperature(s)) + 12 * AuxHeat(s)
Retired == pump.retires /\ ctx.year > Less(pump.life, IF pump.pumpLife = None THEN pump.life ELSE pump.pumpLife)

Heat == [s \in Steps |-> PumpHeat(s) + AuxHeat(s)]
Simulated ==
  IF Retired
  THEN [heat |-> Zeros, unmet |-> PumpLoad, used |-> 0, supplied |-> 0, short |-> Sum(PumpLoad)]
  ELSE [heat |-> Heat,
        unmet |-> [s \in Steps |-> More(0, Basis(s) - Heat[s])],
        used |-> Sum([s \in Steps |-> Consumed(s)]), supplied |-> Sum(Heat),
        short |-> More(0, Sum(PumpLoad) - Sum(Heat))]

-----------------------------------------------------------------------------
Init ==
  /\ given \in [pump : Pumps, load : HeatLoads, ctx : Asked]
  /\ at = "declared" /\ made = <<>>

\* __init__ of both
Declare ==
  /\ at = "declared"
  /\ at' = IF PumpValid /\ LoadValid THEN "accepted" ELSE "refused"
  /\ UNCHANGED <<given, made>>

\* simulate: a profile and prices are those of a whole year.
Simulate ==
  /\ at = "accepted"
  /\ IF \/ ctx.perHour # pump.perHour \/ ctx.steps > YearSteps
        \/ ctx.ambient # None /\ Len(ctx.ambient) # ctx.steps
        \/ pump.profile # None /\ ctx.steps # YearSteps
        \/ pump.mode = "price" /\ ~Retired /\ ctx.steps # YearSteps
     THEN at' = "failed" /\ UNCHANGED made
     ELSE at' = "supplied" /\ made' = Simulated
  /\ UNCHANGED given

\* RuleBasedEngine.run, verify_media_balance: heat and unmet heat of pump and
\* load are nothing in every step.
BalanceError(s) == made.heat[s] + made.unmet[s] - Demand[s]
Balance ==
  /\ at = "supplied"
  /\ at' = IF \A s \in Steps : BalanceError(s) = 0 THEN "balanced" ELSE "unbalanced"
  /\ UNCHANGED <<given, made>>

Next == Declare \/ Simulate \/ Balance

\* heat_cost_saving: heat that was supplied, by a boiler of half the efficiency,
\* against the electricity for it.
Saving(fuel, price) == 12 * made.supplied * 2 * fuel - made.used * price

\* ThermalLoad.is_heat_balanced
HeatBalanced == \A s \in Steps : made.heat[s] - Demand[s] = 0

-----------------------------------------------------------------------------
(***************************************************************************)
(* Heat is supplied or reported as missing, and once: of a day the pump    *)
(* supplies no more than the load of that day, what is missing by step is  *)
(* what is missing in total, on days without an hour to run in and after   *)
(* its life too; what was not supplied saves nothing; and a pump that      *)
(* follows the load of the site always passes the balance of the engine,   *)
(* which is the balance of the load where nothing is missing (simulate,    *)
(* _production_plan, verify_media_balance, is_heat_balanced).              *)
(***************************************************************************)
HeatIsAccountedFor ==
  at \in {"supplied", "balanced", "unbalanced"} =>
    /\ Sum(made.unmet) = made.short
    /\ made.supplied + made.short = Sum(PumpLoad)
    /\ \A day \in {DayOf(s) : s \in Steps} :
         SumFunctionOnSet(made.heat, StepsOf(day)) <= SumFunctionOnSet(PumpLoad, StepsOf(day))
    /\ \A s \in Steps : made.heat[s] * pump.perHour <= pump.rated + pump.aux
    /\ Retired => made.supplied = 0 /\ Saving(3, 5) = 0
    /\ at # "supplied" /\ pump.mode = "follow" /\ PumpLoad = Demand => at = "balanced"
    /\ at # "supplied" /\ made.short = 0 => (at = "balanced" <=> HeatBalanced)
=============================================================================
