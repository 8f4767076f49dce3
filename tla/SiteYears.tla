----------------------------- MODULE SiteYears -----------------------------
(***************************************************************************)
(* A resource of the site over its years (core/der/pv.py, ess.py, load.py  *)
(* on core/contracts/der.py): it is declared, and in every year its series *)
(* is dispatched and its annual energy is computed by another formula,     *)
(* from which the lines of the case are billed.                            *)
(*                                                                         *)
(* A year has Days days of Hours hours, Months is the days of its months.  *)
(* Energy is counted in parts of a kWh such that every quotient is exact;  *)
(* PV fades by half or not at all, a load doubles or does not grow.        *)
(***************************************************************************)
EXTENDS Integers, Sequences, SequencesExt, FiniteSetsExt

CONSTANTS
  Plants,        \* resources that are declared
  Asked,         \* contexts of a dispatch: year, steps, steps of an hour, limit of the grid
  Days, Hours, Months,
  Windows,       \* per operating mode of a battery, the hours [charge, discharge]
  OperatingModes,  \* the modes in their order
  None

VARIABLES
  given,  \* the resource
  at,     \* "declared", "accepted", "refused", "done", "failed"
  made    \* the context, and the series dispatched for it: supplied to the site > 0

yearVars == <<given, at, made>>

PerHour == given.perHour
YearSteps == Days * Hours * PerHour
Less(a, b) == IF a < b THEN a ELSE b
More(a, b) == IF a < b THEN b ELSE a
Sum(s) == FoldLeft(LAMBDA x, y : x + y, 0, s)
Flat(x, n) == [s \in 1 .. n |-> x]

\* DispatchContext, check_context: no more steps than a year has, series of as
\* many values, the resolution of the resource.
Understood(ctx) ==
  /\ ctx.steps \in 1 .. Days * Hours * ctx.perHour
  /\ ctx.limit = None \/ Len(ctx.limit) = ctx.steps
  /\ ctx.perHour = PerHour

(***************************************************************************)
(* PV: a capacity factor (power is capacity times factor) or the profile   *)
(* of a year, never both; given.parts is the parts of a kWh.               *)
(***************************************************************************)
PvValid ==
  /\ (given.power = None) # (given.profile = None)
  /\ given.profile # None => Len(given.profile) = YearSteps /\ \A e \in ToSet(given.profile) : e >= 0
Derate(x, year) == IF given.fades THEN x \div 2 ^ (year - 1) ELSE x
Generation(year) ==
  IF given.profile # None THEN Sum([s \in DOMAIN given.profile |-> Derate(given.profile[s], year)])
  ELSE Derate(given.power * Days * Hours * given.parts, year)
Ratio == IF given.mode = "full export" THEN 0 ELSE given.ratio
SelfUsed(year) == (Generation(year) * Ratio) \div 4
PvSurplus(year) == Generation(year) - SelfUsed(year)
Tags == (IF Ratio > 0 THEN {"SelfConsumption"} ELSE {}) \cup (IF Ratio < 4 THEN {"SurplusSale"} ELSE {}) \cup {"REC"}

\* Variant: the length of a step is forgotten.
PvSeriesOfPower(ctx) ==
  IF given.profile # None
  THEN [s \in 1 .. ctx.steps |-> Derate(given.profile[s], ctx.year)]
  ELSE Flat(Derate(given.power * given.parts, ctx.year), ctx.steps)
PvSeries(ctx) ==
  IF given.profile # None
  THEN [s \in 1 .. ctx.steps |-> Derate(given.profile[s], ctx.year)]
  ELSE Flat(Derate(given.power * given.parts, ctx.year) \div PerHour, ctx.steps)
GridLimit(ctx, s) == (ctx.limit[s] * given.parts) \div PerHour
PvLimited(ctx) ==
  IF ctx.limit = None THEN PvSeries(ctx)
  ELSE [s \in 1 .. ctx.steps |-> Less(PvSeries(ctx)[s], GridLimit(ctx, s))]
PvFails(ctx) == given.mode # "curtailment" /\ PvLimited(ctx) # PvSeries(ctx)

(***************************************************************************)
(* Battery: weights of the modes in halves; health in tenths, a reserve in *)
(* quarters; what it can give is counted in Parts of a kWh.                *)
(***************************************************************************)
FadeSpan == given.health - given.eol
Parts == 40 * given.calendar * given.cycleLife
EssValid ==
  /\ given.eol > 0 /\ given.eol < given.health /\ given.reserve < 4
  /\ IF given.mode = "hybrid"
     THEN /\ DOMAIN given.weights # {}
          /\ \A m \in DOMAIN given.weights : given.weights[m] >= 0
          /\ MapThenSumSet(LAMBDA m : given.weights[m], DOMAIN given.weights) = 2
     ELSE DOMAIN given.weights = {}
  /\ IF given.source = "grid" THEN given.profile = None
     ELSE given.profile # None /\ (\E e \in ToSet(given.profile) : e > 0) /\ Len(given.profile) = Hours
  /\ FadeSpan * More(given.cycleLife, given.cycles * given.calendar) < 10 * given.calendar * given.cycleLife

Weights == IF given.mode = "hybrid" THEN given.weights ELSE [m \in {given.mode} |-> 2]
Dominant ==
  OperatingModes[Min({k \in DOMAIN OperatingModes :
    /\ OperatingModes[k] \in DOMAIN Weights
    /\ \A m \in DOMAIN Weights : Weights[m] <= Weights[OperatingModes[k]]})]
ChargeHours == Windows[Dominant].charge
DischargeHours == Windows[Dominant].discharge
Reserved == IF "backup" \in DOMAIN Weights THEN given.reserve * Weights["backup"] ELSE 0

\* State of health at the end of a year, in parts of ten lives.
SohCycle(year) ==
  More(0, (given.health * given.cycleLife - FadeSpan * given.cycles * year) * given.calendar)
SohCalendar(year) ==
  More(0, (given.health * given.calendar - FadeSpan * year) * given.cycleLife)
Health(year) == Less(SohCycle(year), SohCalendar(year))
Usable(year) == (given.window * Health(More(0, year - 1)) * (8 - Reserved)) \div 2

EolYear ==
  More(1, Less(given.calendar, (given.cycleLife + given.cycles - 1) \div given.cycles))

\* _pv_surplus_charge_kwh_by_hour, with the room for a day.
DailyRoom(year) == ((Usable(year) * given.cycles) \div Days) * given.loss
SurplusCharge(year) ==
  LET take(acc, hour) ==
        LET most == Less(Less(given.profile[hour + 1], given.power) * Parts, acc.room)
            amount == IF hour \in DischargeHours \/ given.profile[hour + 1] <= 0 THEN 0 ELSE most
        IN  [charged |-> Append(acc.charged, amount), room |-> acc.room - amount]
  IN  FoldLeft(take, [charged |-> <<>>, room |-> DailyRoom(year)], [h \in 1 .. Hours |-> h - 1]).charged

AnnualDischarge(year) ==
  IF given.source = "surplus" THEN (Sum(SurplusCharge(year)) \div given.loss) * Days
  ELSE Usable(year) * given.cycles
AnnualCharge(year) == AnnualDischarge(year) * given.loss

OutStep(year) == AnnualDischarge(year) \div (Days * Cardinality(DischargeHours) * PerHour)
InStep(year) == AnnualCharge(year) \div (Days * Cardinality(ChargeHours) * PerHour)
Hour(s) == ((s - 1) \div PerHour) % Hours
EssSeries(ctx) ==
  [s \in 1 .. ctx.steps |->
     IF Hour(s) \in DischargeHours THEN OutStep(ctx.year)
     ELSE IF given.source = "surplus" THEN - SurplusCharge(ctx.year)[Hour(s) + 1] \div PerHour
     ELSE IF Hour(s) \in ChargeHours THEN - InStep(ctx.year)
     ELSE 0]
Size(x) == IF x < 0 THEN - x ELSE x
EssFails(ctx) ==
  \/ OutStep(ctx.year) * PerHour > given.power * Parts
  \/ given.source = "grid" /\ InStep(ctx.year) * PerHour > given.power * Parts
  \/ ctx.limit # None /\ \E s \in 1 .. ctx.steps :
       Size(EssSeries(ctx)[s]) * PerHour > ctx.limit[s] * Parts

(***************************************************************************)
(* Load: steps or months, months by a shape of the year or evenly.         *)
(***************************************************************************)
PerDay == Hours * PerHour
MonthBounds(m) == [first |-> Sum(SubSeq(Months, 1, m - 1)) * PerDay + 1, last |-> Sum(SubSeq(Months, 1, m)) * PerDay]
OfMonth(s, m) == Sum(SubSeq(s, MonthBounds(m).first, MonthBounds(m).last))
MonthOf(s) == CHOOSE m \in DOMAIN Months : s <= MonthBounds(m).last /\ s >= MonthBounds(m).first
NonNegative(s) == \A x \in ToSet(s) : x >= 0
LoadValid ==
  /\ (given.steps = None) # (given.monthly = None)
  /\ given.shape # None => Len(given.shape) = YearSteps /\ NonNegative(given.shape)
  /\ given.steps # None => Len(given.steps) = YearSteps /\ NonNegative(given.steps)
  /\ given.monthly # None =>
       /\ Len(given.monthly) = Len(Months) /\ NonNegative(given.monthly)
       /\ given.shape # None => \A m \in DOMAIN Months : OfMonth(given.shape, m) > 0
Monthly ==
  IF given.steps # None THEN [m \in DOMAIN Months |-> OfMonth(given.steps, m)] ELSE given.monthly
Spread ==
  [s \in 1 .. YearSteps |->
     LET m == MonthOf(s)
     IN  IF given.shape # None
         THEN (given.monthly[m] * given.shape[s]) \div OfMonth(given.shape, m)
         ELSE given.monthly[m] \div (Months[m] * PerDay)]
BaseSeries == IF given.steps # None THEN given.steps ELSE Spread
Growth(year) == IF given.grows THEN 2 ^ (year - 1) ELSE 1
AnnualEnergy(year) == Sum(Monthly) * Growth(year)
LoadSeries(ctx) == [s \in 1 .. ctx.steps |-> - BaseSeries[s] * Growth(ctx.year)]

-----------------------------------------------------------------------------
Init == given \in Plants /\ at = "declared" /\ made = <<>>

\* __init__
Declare ==
  /\ at = "declared"
  /\ at' = IF \/ given.kind = "PV" /\ PvValid
              \/ given.kind = "ESS" /\ EssValid
              \/ given.kind = "Load" /\ LoadValid
           THEN "accepted" ELSE "refused"
  /\ UNCHANGED <<given, made>>

\* _first_end_of_life_year, _first_eol_year; the energy of a load stays.
Retired(year) ==
  \/ given.kind = "PV" /\ given.retires /\ year > Less(given.life, given.inverter)
  \/ given.kind = "ESS" /\ given.retires /\ year > Less(EolYear, given.inverter)
Series(ctx) ==
  IF Retired(ctx.year) THEN Flat(0, ctx.steps)
  ELSE CASE given.kind = "PV" -> PvLimited(ctx)
         [] given.kind = "ESS" -> EssSeries(ctx)
         [] OTHER -> LoadSeries(ctx)
Fails(ctx) ==
  \/ ~Understood(ctx)
  \/ given.kind = "PV" /\ ~Retired(ctx.year) /\ PvFails(ctx)
  \/ given.kind = "ESS" /\ ~Retired(ctx.year) /\ EssFails(ctx)

Dispatch(ctx) ==
  /\ at = "accepted"
  /\ at' = IF Fails(ctx) THEN "failed" ELSE "done"
  /\ made' = [ctx |-> ctx, series |-> IF Fails(ctx) THEN <<>> ELSE Series(ctx)]
  /\ UNCHANGED given

Next == Declare \/ \E ctx \in Asked : Dispatch(ctx)

\* variable_om: the energy a resource is billed for.
Billed(year) ==
  CASE given.kind = "PV" -> Generation(year)
    [] given.kind = "ESS" -> AnnualDischarge(year)
    [] OTHER -> AnnualEnergy(year)

-----------------------------------------------------------------------------
Supplied == Sum([s \in DOMAIN made.series |-> More(0, made.series[s])])
Taken == Sum([s \in DOMAIN made.series |-> More(0, - made.series[s])])
Year == made.ctx.year
WholeYear == made.ctx.steps = YearSteps

(***************************************************************************)
(* What a year is billed for is what a whole year of dispatch moves, in    *)
(* every year in which nothing is curtailed or retired; the battery takes  *)
(* what it gives and the loss of it; the months of a load keep their       *)
(* energy; a stream of the PV is declared when there is energy for it      *)
(* (annual_generation_kwh, annual_discharge_kwh, annual_energy_kwh,        *)
(* dispatch, value_streams).                                               *)
(***************************************************************************)
BilledIsDispatched ==
  at = "done" /\ WholeYear /\ ~Retired(Year) =>
    CASE given.kind = "PV" ->
           /\ Supplied <= Billed(Year)
           /\ made.ctx.limit = None => Supplied = Billed(Year)
           /\ Billed(Year) > 0 =>
                /\ "SelfConsumption" \in Tags <=> SelfUsed(Year) > 0
                /\ "SurplusSale" \in Tags <=> PvSurplus(Year) > 0
      [] given.kind = "ESS" -> Supplied = Billed(Year) /\ Taken = AnnualCharge(Year)
      [] OTHER ->
           /\ Taken = Billed(Year)
           /\ \A m \in DOMAIN Months : OfMonth(made.series, m) = - Monthly[m] * Growth(Year)

(***************************************************************************)
(* The year in which a battery is taken for spent is the first at whose    *)
(* end it is: its health is above the end-of-life value before it, and not *)
(* after it, by cycles or by age; what it can give never rises (eol_year,  *)
(* state_of_health, usable_capacity_kwh).                                  *)
(***************************************************************************)
SpentWhenReplaced ==
  given.kind = "ESS" /\ at # "declared" /\ at # "refused" =>
    LET least == given.eol * given.calendar * given.cycleLife
    IN  /\ Health(EolYear) <= least
        /\ EolYear > 1 => Health(EolYear - 1) > least
        /\ \A y \in 1 .. EolYear : Usable(y + 1) <= Usable(y)
=============================================================================
