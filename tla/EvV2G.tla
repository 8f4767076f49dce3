------------------------------- MODULE EvV2G -------------------------------
(***************************************************************************)
(* Electric cars that lend their batteries (core/der/ev_v2g.py): they      *)
(* arrive, give what is available of their charge at the beginning of the  *)
(* time they are connected, and take it back before they leave.            *)
(*                                                                         *)
(* Energy is in whole units and a fleet is one battery (cars, participation*)
(* and power per car are multiplied out).  An efficiency is one over loss; *)
(* levels of charge are counted in parts of 1/loss of a unit, and the      *)
(* levels a fleet is declared with are eighths of its capacity.  A car     *)
(* fades by half or not at all.                                            *)
(***************************************************************************)
EXTENDS Integers, Sequences, SequencesExt

CONSTANTS
  Fleets,    \* fleets that are declared
  Contexts,  \* contexts of the dispatch: year, steps and the limit of the grid
  Hours,     \* hours of a day
  PerHour,   \* steps of an hour
  NoLimit    \* a grid without a limit

VARIABLES
  given,  \* the fleet and the context
  at,     \* "declared", "accepted", "refused", "done", "unfilled"
  made    \* the exchange with the grid by step, positive when cars give

evVars == <<given, at, made>>

ev == given.ev
ctx == given.ctx
PerDay == Hours * PerHour
Steps == 0 .. ctx.steps - 1
Days == [d \in 1 .. (ctx.steps + PerDay - 1) \div PerDay |-> d - 1]
Less(a, b) == IF a < b THEN a ELSE b
OneWay == ev.mode = "charge only"

(***************************************************************************)
(* The day of a car.  _connected_hours: the same hour twice is the whole   *)
(* day; _cycle_offsets: steps in the order of the stay, over midnight.     *)
(***************************************************************************)
ConnectedHours == IF ev.start = ev.end THEN Hours ELSE (ev.end - ev.start) % Hours
FullDay == ConnectedHours = Hours
CycleOffsets ==
  [k \in 1 .. ConnectedHours * PerHour |->
     ((IF FullDay THEN 0 ELSE ev.start * PerHour) + k - 1) % PerDay]

FleetCapacity(year) == IF ev.fades THEN ev.capacity \div 2 ^ (year - 1) ELSE ev.capacity
Eighths(n, year) == (FleetCapacity(year) * n) \div 8
DailyAvailable(year) == IF OneWay THEN 0 ELSE Eighths(ev.dod, year)
DailyDischarge(year) == DailyAvailable(year) \div ev.loss
DailyCharge(year) == IF OneWay THEN ev.daily ELSE DailyAvailable(year) * ev.loss

\* _validate_operation
StepsNeeded(energy, power) == (energy + power - 1) \div power
Valid ==
  /\ ev.dod <= ev.arrival
  /\ OneWay \/ ev.leave <= ev.arrival
  /\ ev.mode = "window" => ~FullDay
  /\ StepsNeeded(DailyDischarge(1), ev.discharge) + StepsNeeded(DailyCharge(1), ev.charge)
       <= Len(CycleOffsets)

\* _fill: step by step from a position on, until nothing is left to place.
Fill(series, indices, start, energy, power, sign) ==
  LET placed(acc, k) ==
        LET i == indices[k]
            most == IF ctx.limit = NoLimit THEN power ELSE Less(power, ctx.limit[i])
            amount == Less(acc.left, most)
        IN  IF acc.left = 0 THEN acc
            ELSE [series |-> IF amount > 0 THEN [acc.series EXCEPT ![i] = sign * amount] ELSE acc.series,
                  pos |-> k, left |-> acc.left - amount]
  IN  FoldLeft(placed, [series |-> series, pos |-> start, left |-> energy],
               [k \in 1 .. Len(indices) - start |-> start + k])

\* _recharge_need_kwh: of what was delivered, not of what was planned.
RechargeNeed(delivered) == IF OneWay THEN ev.daily ELSE delivered * ev.loss * ev.loss

Sum(s) == FoldLeft(LAMBDA x, y : x + y, 0, s)
Indices(day) == SelectSeq([k \in DOMAIN CycleOffsets |-> day * PerDay + CycleOffsets[k]],
                          LAMBDA i : i < ctx.steps)
Delivered(series, day) ==
  Sum([k \in DOMAIN Indices(day) |->
         IF series[Indices(day)[k]] > 0 THEN series[Indices(day)[k]] ELSE 0])

\* One day of dispatch: a whole stay that leaves something uncharged fails.
DayOf(acc, day) ==
  LET given2 == Fill(acc.series, Indices(day), 0, DailyDischarge(ctx.year), ev.discharge, 1)
      taken == Fill(given2.series, Indices(day), given2.pos,
                    RechargeNeed(Delivered(given2.series, day)), ev.charge, -1)
  IN  [series |-> taken.series,
       fails |-> acc.fails \/ (taken.left > 0 /\ Len(Indices(day)) = Len(CycleOffsets))]
Retired == ev.retires /\ ctx.year > ev.life
Zeros == [i \in Steps |-> 0]
DispatchOf ==
  IF Retired THEN [series |-> Zeros, fails |-> FALSE]
  ELSE FoldLeft(DayOf, [series |-> Zeros, fails |-> FALSE], Days)

Init ==
  /\ given \in [ev : Fleets, ctx : Contexts]
  /\ at = "declared" /\ made = <<>>

\* __init__
Declare ==
  /\ at = "declared"
  /\ at' = IF Valid THEN "accepted" ELSE "refused"
  /\ UNCHANGED <<given, made>>

Dispatch ==
  /\ at = "accepted"
  /\ at' = IF DispatchOf.fails THEN "unfilled" ELSE "done"
  /\ made' = DispatchOf.series
  /\ UNCHANGED given

Next == Declare \/ Dispatch

-----------------------------------------------------------------------------
\* soc_profile, in parts of 1/loss, on the days with a whole stay.
PlannedNet == IF OneWay THEN ev.daily ELSE 0
StartLevel == Eighths(ev.arrival, ctx.year) * ev.loss - PlannedNet
Change(i) == IF made[i] > 0 THEN made[i] * ev.loss * ev.loss ELSE made[i]
LevelAfter(day, k) ==
  StartLevel - Sum([l \in 1 .. k |-> LET i == day * PerDay + CycleOffsets[l]
                                     IN  IF i < ctx.steps THEN Change(i) ELSE 0])
WholeDays == {d \in ToSet(Days) : Len(Indices(d)) = Len(CycleOffsets)}

\* v2g_discharge_benefit, for a price per unit.
AnnualDelivered(year) == DailyAvailable(year) \div ev.loss

-----------------------------------------------------------------------------
(***************************************************************************)
(* Whatever the grid lets through, a car that lends its battery leaves as  *)
(* charged as it came, at least as charged as it was promised, is never    *)
(* emptier than what it makes available, and gives before it takes, within *)
(* the power of the fleet, the limit of the grid and the hours it is there *)
(* (dispatch, soc_profile).  Where the grid has no limit, a fleet that was *)
(* accepted is never found unable to recharge, in no year of its life, and *)
(* a day delivers what the benefit of the year is computed from            *)
(* (_validate_operation, v2g_discharge_benefit).                           *)
(***************************************************************************)
LeavesCharged ==
  /\ at = "done" =>
       /\ \A i \in Steps :
            /\ made[i] <= ev.discharge /\ - made[i] <= ev.charge
            /\ ctx.limit # NoLimit => made[i] <= ctx.limit[i] /\ - made[i] <= ctx.limit[i]
            /\ made[i] # 0 => i % PerDay \in {CycleOffsets[k] : k \in DOMAIN CycleOffsets}
       /\ ~OneWay => \A d \in WholeDays :
            /\ LevelAfter(d, Len(CycleOffsets)) = StartLevel
            /\ StartLevel >= Eighths(ev.leave, ctx.year) * ev.loss
            /\ \A k \in DOMAIN CycleOffsets :
                 /\ LevelAfter(d, k) <= StartLevel
                 /\ LevelAfter(d, k) >= StartLevel - DailyAvailable(ctx.year) * ev.loss
                 /\ LevelAfter(d, k) >= 0
            /\ \A k, l \in DOMAIN CycleOffsets :
                 k < l /\ made[d * PerDay + CycleOffsets[l]] > 0 => made[d * PerDay + CycleOffsets[k]] >= 0
       /\ ctx.limit = NoLimit /\ ~Retired => \A d \in WholeDays :
            Delivered(made, d) = AnnualDelivered(ctx.year)
  /\ at = "unfilled" => ctx.limit # NoLimit
=============================================================================
