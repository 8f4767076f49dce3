---------------------------- MODULE DayDispatch ----------------------------
(***************************************************************************)
(* The representative day of a case (core/casegrid/e2e_runner.py): who     *)
(* gets the power of the PV first (pv_allocation.py), the battery and the  *)
(* shares it may be split into (ess_build.py, ess_share.py), the plan each *)
(* of them makes for its day (core/der/ess.py) and the exchange with the   *)
(* grid that balances the site (core/engine/rule_based.py).                *)
(*                                                                         *)
(* Energies are whole numbers of kWh, chosen by the instance such that     *)
(* every division of the day is exact; an hour is a step, as in the case   *)
(* runner, which gives no grid limit and looks at the first year.          *)
(***************************************************************************)
EXTENDS Integers, Sequences, FiniteSets, FiniteSetsExt

CONSTANTS
  Cases,    \* what the day of a case is made of, see CaseType
  Windows,  \* per operating mode its hours, [charge |-> .., discharge |-> ..]
  Length,   \* hours in a day
  Loss,     \* kWh charged for one kWh discharged (1 / rte)
  Whole     \* the parts of all shares add up to this

VARIABLES
  case,      \* the case
  pc,        \* where its calculation is
  surplus,   \* per hour, what the PV leaves for the battery
  n,         \* the share that is planned
  hour,      \* the hour its plan has come to
  room,      \* what it can still store today
  charged,   \* per share and hour, what it charges from the surplus
  electric,  \* per share and hour: discharged > 0, charged < 0
  net        \* per hour, the site as seen by the grid: exported > 0

vars == <<case, pc, surplus, n, hour, room, charged, electric, net>>

Day == 0 .. Length - 1
Idle == [h \in Day |-> 0]
Less(a, b) == IF a < b THEN a ELSE b
More(a, b) == IF a < b THEN b ELSE a
Total(f, S) == MapThenSumSet(LAMBDA x : f[x], S)

\* An undivided battery is one share of everything (shares = None).
Share == [name : STRING, part : Int, mode : DOMAIN Windows, quantity : STRING]

CaseType ==
  [pv : [Day -> Nat],
   load : [Day -> Nat],
   household : BOOLEAN,  \* a household load is given
   priority : {"household_first", "battery_first", "price_based"},
   baseline : {"none", "maintain", "pool"},
   metered : BOOLEAN,    \* what the pool baseline asks for is declared
   source : {"pv_surplus", "grid"},
   capacity : Nat, power : Nat, cycles : Nat,  \* per cycle; a day
   shares : Seq(Share)]

HouseholdServedFirst ==
  case.household /\ case.priority = "household_first" /\ case.baseline # "none"

Load(h) == IF case.household THEN case.load[h] ELSE 0

Init ==
  /\ case \in Cases
  /\ pc = "allocate"
  /\ surplus = Idle /\ net = Idle
  /\ n = 1 /\ hour = 0 /\ room = 0
  /\ charged = <<>> /\ electric = <<>>

-----------------------------------------------------------------------------
\* get_baseline_branch, resolve_pv_allocation_priority.
Accepted ==
  /\ case.baseline = "pool" => case.metered
  /\ case.priority # "price_based"

\* _dispatch_inputs_under_baseline and _resolve_ess_dispatch_inputs.  The PV of
\* a case consumes nothing itself (PV_SELF_CONSUMPTION_RATIO = 0), so that all
\* of its output is left where the household does not come first.
Allocate ==
  /\ pc = "allocate"
  /\ \/ /\ ~Accepted
        /\ pc' = "rejected"
        /\ UNCHANGED surplus
     \/ /\ Accepted
        /\ surplus' = [h \in Day |->
             IF HouseholdServedFirst THEN More(0, case.pv[h] - case.load[h]) ELSE case.pv[h]]
        /\ pc' = "build"
  /\ UNCHANGED <<case, n, hour, room, charged, electric, net>>

\* _validate of the shares, and the constructor of every share (_positive).
SharesHold ==
  /\ case.shares # <<>>
  /\ Total([i \in DOMAIN case.shares |-> case.shares[i].part], DOMAIN case.shares) = Whole
  /\ \A i, j \in DOMAIN case.shares :
       case.shares[i].quantity = case.shares[j].quantity => i = j
  /\ \A i \in DOMAIN case.shares : case.shares[i].part > 0

\* build_case_ess_fleet: the battery as a whole needs some surplus if that is
\* what it is charged from (_check_pv_surplus), whether or not it is split.
Build ==
  /\ pc = "build"
  /\ pc' = IF /\ case.source = "pv_surplus" => \E h \in Day : surplus[h] > 0
              /\ SharesHold
           THEN "resource" ELSE "rejected"
  /\ UNCHANGED <<case, surplus, n, hour, room, charged, electric, net>>

\* The part of share i in an amount (_prorate): the last share takes what the
\* others leave.
Prorate(amount, i) ==
  LET part(j) == (amount * case.shares[j].part) \div Whole
      last == Len(case.shares)
  IN  IF i < last THEN part(i) ELSE amount - MapThenSumSet(part, 1 .. last - 1)

\* split_ess: the resource of share i.
Capacity(i) == Prorate(case.capacity, i)
Power(i) == Prorate(case.power, i)
ChargeHours(i) == Windows[case.shares[i].mode].charge
DischargeHours(i) == Windows[case.shares[i].mode].discharge

\* What share i can discharge in a day (cycles_per_year / DAYS_PER_YEAR).
DailyCap(i) == Capacity(i) * case.cycles

-----------------------------------------------------------------------------
\* RuleBasedEngine.run turns to the next resource; two of one name are refused.
\* A battery charged from the grid needs no plan of the hours.
NextResource ==
  /\ pc = "resource"
  /\ n <= Len(case.shares)
  /\ IF \E i \in 1 .. n - 1 : case.shares[i].name = case.shares[n].name
     THEN pc' = "rejected" /\ UNCHANGED <<room, charged>>
     ELSE /\ charged' = Append(charged, Idle)
          /\ room' = DailyCap(n) * Loss
          /\ pc' = IF case.source = "grid" THEN "dispatch" ELSE "plan"
  /\ hour' = 0
  /\ UNCHANGED <<case, surplus, n, electric, net>>

\* Variant: the first hour without surplus ends the plan.
PlanHourUntilDark ==
  /\ pc = "plan" /\ hour < Length
  /\ IF hour \in DischargeHours(n) \/ room <= 0 \/ surplus[hour] <= 0
     THEN /\ hour' = IF surplus[hour] <= 0 /\ room < DailyCap(n) * Loss THEN Length ELSE hour + 1
          /\ UNCHANGED <<charged, room>>
     ELSE LET amount == Less(Less(surplus[hour], Power(n)), room)
          IN  /\ charged' = [charged EXCEPT ![n][hour] = amount] /\ room' = room - amount
              /\ hour' = hour + 1
  /\ UNCHANGED <<case, pc, surplus, n, electric, net>>

\* One hour of _pv_surplus_charge_kwh_by_hour.
PlanHour ==
  /\ pc = "plan" /\ hour < Length
  /\ IF hour \in DischargeHours(n) \/ room <= 0 \/ surplus[hour] <= 0
     THEN UNCHANGED <<charged, room>>
     ELSE LET amount == Less(Less(surplus[hour], Power(n)), room)
          IN  charged' = [charged EXCEPT ![n][hour] = amount] /\ room' = room - amount
  /\ hour' = hour + 1
  /\ UNCHANGED <<case, pc, surplus, n, electric, net>>

Planned ==
  /\ pc = "plan" /\ hour = Length
  /\ pc' = "dispatch"
  /\ UNCHANGED <<case, surplus, n, hour, room, charged, electric, net>>

\* annual_charge_kwh and annual_discharge_kwh of a day.
DayCharge ==
  IF case.source = "grid" THEN DailyCap(n) * Loss ELSE Total(charged[n], Day)
OutStep == (DayCharge \div Loss) \div Cardinality(DischargeHours(n))
InStep == DayCharge \div Cardinality(ChargeHours(n))

\* ESS.dispatch: even steps through the discharge window, and through the
\* charge window of a battery charged from the grid; a plan beyond the rated
\* power is refused (_check_power).
Dispatch ==
  /\ pc = "dispatch"
  /\ IF OutStep > Power(n) \/ (case.source = "grid" /\ InStep > Power(n))
     THEN pc' = "rejected" /\ UNCHANGED <<electric, n>>
     ELSE /\ electric' = Append(electric,
               [h \in Day |->
                  IF h \in DischargeHours(n) THEN OutStep
                  ELSE IF case.source = "pv_surplus" THEN - charged[n][h]
                  ELSE IF h \in ChargeHours(n) THEN - InStep
                  ELSE 0])
          /\ n' = n + 1
          /\ pc' = "resource"
  /\ UNCHANGED <<case, surplus, hour, room, charged, net>>

Battery(h) == MapThenSumSet(LAMBDA i : electric[i][h], DOMAIN electric)

\* _grid_exchange over the PV, the shares and the household.
Exchange ==
  /\ pc = "resource"
  /\ n > Len(case.shares)
  /\ net' = [h \in Day |-> case.pv[h] + Battery(h) - Load(h)]
  /\ pc' = "done"
  /\ UNCHANGED <<case, surplus, n, hour, room, charged, electric>>

GridImport(h) == More(0, - net[h])

Next ==
  Allocate \/ Build \/ NextResource \/ PlanHour \/ Planned \/ Dispatch \/ Exchange

Spec == Init /\ [][Next]_vars

-----------------------------------------------------------------------------
\* Every variable has its type, and every division so far was exact.
TypeOK ==
  /\ pc \in {"allocate", "build", "resource", "plan", "dispatch", "done", "rejected"}
  /\ surplus \in [Day -> Nat] /\ net \in [Day -> Int]
  /\ n \in 1 .. Len(case.shares) + 1
  /\ hour \in 0 .. Length /\ room \in Nat
  /\ \A i \in DOMAIN charged : charged[i] \in [Day -> Nat]
  /\ \A i \in DOMAIN electric : electric[i] \in [Day -> Int]
  /\ pc = "dispatch" =>
       /\ DayCharge = Loss * OutStep * Cardinality(DischargeHours(n))
       /\ case.source = "grid" => DayCharge = InStep * Cardinality(ChargeHours(n))

(***************************************************************************)
(* All that is charged from the surplus in an hour was left in that hour,  *)
(* so that with the household served first the site buys no more from the  *)
(* grid than the household lacks (_resolve_ess_dispatch_inputs and         *)
(* _pv_surplus_charge_kwh_by_hour against _grid_exchange).                 *)
(***************************************************************************)
ChargedFromSurplus ==
  pc = "done" /\ case.source = "pv_surplus" =>
    \A h \in Day :
      /\ - Battery(h) <= surplus[h]
      /\ HouseholdServedFirst => GridImport(h) <= More(0, Load(h) - case.pv[h])

(***************************************************************************)
(* The shares together stay within the one battery they are made of: its   *)
(* rated power in every hour and its cycles in a day (the reason for       *)
(* PRORATED_FIELDS in ess_share.py).                                       *)
(***************************************************************************)
WithinOneBattery ==
  pc = "done" =>
    /\ \A h \in Day : - case.power <= Battery(h) /\ Battery(h) <= case.power
    /\ MapThenSumSet(LAMBDA i : MapThenSumSet(LAMBDA h : More(0, electric[i][h]), Day),
                     DOMAIN electric)
       <= case.capacity * case.cycles

(***************************************************************************)
(* The plan of a share leaves no surplus it could have stored, and charges *)
(* as early as it can: A-8-b, charge what is possible, refuse nothing      *)
(* (_pv_surplus_charge_kwh_by_hour).                                       *)
(***************************************************************************)
PlanTakesWhatItCan ==
  pc = "dispatch" /\ case.source = "pv_surplus" =>
    LET Open == Day \ DischargeHours(n)
        possible(h) == Less(surplus[h], Power(n))
    IN  \A h \in Open :
          Total(charged[n], 0 .. h)
            = Less(MapThenSumSet(possible, Open \cap 0 .. h), DailyCap(n) * Loss)
=============================================================================
