------------------------------ MODULE CaseRun ------------------------------
(***************************************************************************)
(* One case from its inputs to its outcome (run_single_case_e2e of         *)
(* core/casegrid/e2e_runner.py): the day of the site (DayDispatch), the    *)
(* streams its battery earns (ess_build.py, ess_share_benefits.py), the    *)
(* settlement of its contract structure (ValueStreams), the rows of its    *)
(* proforma and the views a report takes of them.                          *)
(*                                                                         *)
(* Amounts are whole won; an NPV is scaled so that it stays whole.         *)
(***************************************************************************)
EXTENDS DayDispatch, ValueStreams

CONSTANTS
  Terms,       \* what a case is made of besides its day, see TermsType
  DaysPerYear, \* DAYS_PER_YEAR
  Escalation,  \* PRICE_ESCALATION_RATE, [num |-> .., den |-> ..]
  Fine        \* a kWh of the attribution is this many parts

VARIABLES
  terms,  \* the other inputs of the case
  at,     \* where its run is
  out     \* what has been worked out so far

caseVars == <<vars, terms, at, out>>

Viewpoints == {"OWNER", "PARTICIPANT", "GOV", "SOCIAL"}
TermsType ==
  [shapes : BOOLEAN,  \* the shapes of a representative day are given
   structure : ContractStructures \cup {None},
   provider : BOOLEAN,  \* the ledger is given
   sale : Nat, purchase : Nat, rec : Nat, nwas : Nat, cp : Nat, demand : Nat,
   pvOM : Nat, essOM : Nat,
   pvCapex : Nat, essCapex : Nat,
   contract : [tariff : Nat, given : SUBSET STRING, generation : Nat],  \* .. and the figures of Settlement
   extra : Seq([tag : STRING]),  \* streams of the caller, only checked
   sub : Seq(Nat) \cup {None},  \* what society gains
   horizon : Nat \ {0}, rate : [num : Nat, den : Nat \ {0}],
   pv : [life : Nat \ {0}, salvage : Nat], ess : [life : Nat \ {0}, salvage : Nat],
   scheme : [rate : 0 .. 100, loan : 0 .. 100, prefunded : {"no", "confirmed", "planned"}] \cup {None},
   viewpoint : Viewpoints]

Years == 1 .. terms.horizon
SumOf(items) == FoldLeft(LAMBDA x, y : x + y, 0, items)
Percent(amount, p) == (2 * amount * p + 100) \div 200  \* to_won: halves go up

CaseInit ==
  /\ Init
  /\ terms \in Terms
  /\ at = "given"
  /\ out = [streams |-> <<>>, peak |-> Plain("PeakShaving"), costs |-> <<>>]

Refuse == at' = "refused" /\ UNCHANGED <<vars, terms, out>>

\* _household_load_if_total_given: a load needs the shape of its day.
Open ==
  /\ at = "given"
  /\ IF case.household /\ ~terms.shapes
     THEN Refuse
     ELSE at' = "day" /\ UNCHANGED <<vars, terms, out>>

\* check_analysis_period: not beyond two lives of the longest-lived resource.
PeriodHolds == terms.horizon <= 2 * More(terms.pv.life, terms.ess.life)
BeforeEngine == pc = "resource" /\ n = 1

\* The day itself; the period is looked at when the resources are built.
Simulate ==
  /\ at = "day"
  /\ BeforeEngine => PeriodHolds
  /\ Next
  /\ UNCHANGED <<terms, at, out>>
BreakOff ==
  /\ at = "day"
  /\ pc = "rejected" \/ (BeforeEngine /\ ~PeriodHolds)
  /\ Refuse

-----------------------------------------------------------------------------
(***************************************************************************)
(* What the battery earns (build_fleet_streams).                           *)
(***************************************************************************)
GridDirected == {"grid_discharge", "semi_central_dispatch"}

\* Without a mode of its own the battery is there for the household.
TagOf(mode) ==
  CASE mode = "self" -> "SelfConsumption"
    [] mode = "tou" -> "TouArbitrage"
    [] mode = "peak" -> "PeakShaving"
    [] mode = "grid_discharge" -> "NWAs"
    [] mode = "semi_central_dispatch" -> "CP"
    [] OTHER -> None  \* backup_reserve

\* _site_load_kw and ESS.reducible_peak_kw: the battery can only take off the
\* first hour of the highest load, if it discharges then.
PeakHour ==
  CHOOSE h \in Day :
    /\ \A g \in Day : Load(g) <= Load(h)
    /\ \A g \in 0 .. h - 1 : Load(g) < Load(h)
ReduciblePeak(i) ==
  IF ~case.household \/ PeakHour \notin DischargeHours(i) THEN 0
  ELSE Less(Less(Power(i), Capacity(i) \div Cardinality(DischargeHours(i))), Load(PeakHour))

Undivided == Len(case.shares) = 1 /\ case.shares[1].part = Whole
Mode(i) == case.shares[i].mode

\* peak_shaving_enabled: a battery the grid directs does not shave the peak.
PeakShavingEnabled(mode) == mode \notin GridDirected

\* benefit_for_tag: one stream for a share.
ShareBenefit(i) ==
  CASE Mode(i) = "peak" -> PeakShaving(ReduciblePeak(i), terms.demand, TRUE)
    [] Mode(i) = "grid_discharge" -> NWAs(terms.nwas, TRUE)
    [] OTHER -> CapacityPayment(Power(i), terms.cp, TRUE)
\* _reject_tou_arbitrage, build_share_benefits, _refuse_self_consumption.
ShareEarns(i) == TagOf(Mode(i)) \in {"PeakShaving", "NWAs", "CP"}
OfQuantity(s, i) == [s EXCEPT !.quantity = case.shares[i].quantity]

\* _resolve_nwas_cp: both are there, the mode says which of them earns.
NwasAndCp ==
  <<NWAs(terms.nwas, Mode(1) = "grid_discharge"),
    CapacityPayment(Power(1), terms.cp, Mode(1) = "semi_central_dispatch")>>

\* The streams of the battery, and apart from them the one of the peak.
FleetStreams ==
  /\ at = "day" /\ pc = "done"
  /\ IF Undivided
     THEN /\ out' = [out EXCEPT
               !.streams = NwasAndCp,
               !.peak = PeakShaving(ReduciblePeak(1), terms.demand, PeakShavingEnabled(Mode(1)))]
          /\ at' = "streams" /\ UNCHANGED <<vars, terms>>
     ELSE IF \A i \in DOMAIN case.shares : ShareEarns(i)
     THEN LET benefit == [i \in DOMAIN case.shares |-> OfQuantity(ShareBenefit(i), i)]
              first == SelectInSeq(benefit, LAMBDA s : s.tag = "PeakShaving")
          IN  /\ out' = [out EXCEPT
                   !.streams = IF first = 0 THEN benefit ELSE RemoveAt(benefit, first),
                   !.peak = IF first = 0 THEN PeakShaving(0, terms.demand, FALSE) ELSE benefit[first]]
              /\ at' = "streams" /\ UNCHANGED <<vars, terms>>
     ELSE Refuse

-----------------------------------------------------------------------------
(***************************************************************************)
(* The settlement: of the contract structure, or without one the sale of   *)
(* what is fed into the grid, less what the battery had bought there.      *)
(***************************************************************************)
Exported == Total([h \in Day |-> More(0, net[h])], Day)
DayImport == Total([h \in Day |-> GridImport(h)], Day)
GridCharged ==
  IF case.source = "grid"
  THEN MapThenSumSet(LAMBDA i : MapThenSumSet(LAMBDA h : More(0, electric[i][h]), Day), DOMAIN electric)
  ELSE 0

Rec == REC(1, terms.rec)

\* _with_model_generation: the generation is the model's own.
Contract == [terms.contract EXCEPT !.generation = Total(case.pv, Day) * DaysPerYear]

Settlement ==
  IF terms.structure = None
  THEN Plan(<<SurplusSale(terms.sale, None, GridCharged)>>, <<>>)
  ELSE IF ~terms.provider \/ "annual_generation" \in terms.contract.given THEN Refused
  ELSE Assemble(terms.structure, Contract)

\* assert_no_exclusions and annualise: nothing is counted twice, and nothing
\* is sold that was not fed in.
Settle ==
  /\ at = "streams"
  /\ LET all == Settlement.streams \o <<Rec>> \o out.streams
     IN  IF /\ Settlement.ok
            /\ NoExclusions(Append(all, out.peak) \o terms.extra, ToSet(DefaultRules))
            /\ \A i \in DOMAIN all : Sellable(all[i], Exported)
         THEN /\ out' = [out EXCEPT !.streams = all, !.costs = Settlement.costs]
              /\ at' = "settled" /\ UNCHANGED <<vars, terms>>
         ELSE Refuse

\* annualise: what the day decides is earned every day.
Annual(s) == AnnualValue(s, Exported) * (IF s.scales THEN DaysPerYear ELSE 1)
Streams == Append(out.streams, out.peak)
Benefits == [i \in DOMAIN Streams |-> Annual(Streams[i])]
AnnualBenefit == SumOf(Benefits)

-----------------------------------------------------------------------------
(***************************************************************************)
(* The rows of the proforma (proforma.py, lifecycle.py): an amount for     *)
(* each of its years.  Costs are positive, a salvage value is a negative   *)
(* cost.                                                                   *)
(***************************************************************************)
Row(tag, amounts) == [tag |-> tag, amounts |-> amounts]
Evenly(tag, won) == Row(tag, [y \in Years |-> won])
Escalated(won, y) ==
  LET up == (Escalation.num + Escalation.den) ^ (y - 1)
      down == Escalation.den ^ (y - 1)
  IN  (2 * won * up + down) \div (2 * down)
FixedOM(tag, won) == Row(tag, [y \in Years |-> Escalated(won, y)])

AnnualPurchase == DayImport * DaysPerYear * terms.purchase

\* Variant: the ratio of the PV of a case is read, which is zero.
SelfUsedByRatio == 0

\* _forfeited_self_consumption_rows: what a pool gives up by feeding all in.
SelfUsed == (Total(case.pv, Day) - Total(surplus, Day)) * DaysPerYear
Forfeited ==
  IF case.baseline = "pool"
  THEN <<Evenly("ForfeitedSelfConsumption", SelfUsed * terms.purchase)>>
  ELSE <<>>

BenefitRow == Evenly("E2EBenefit", AnnualBenefit)
OperatingRows ==
  <<FixedOM("PVFixedOM", terms.pvOM), FixedOM("ESSFixedOM", terms.essOM),
    Evenly("GridPurchase", AnnualPurchase)>>
  \o [i \in DOMAIN out.costs |-> Evenly(out.costs[i].tag, out.costs[i].won)]
  \o Forfeited

\* lifecycle_rows: a row for every replacement within the horizon and one for
\* what is left at its end, for the PV and for the battery as a whole.
LifecycleOf(replacement, salvage, life) ==
  LET due == {y \in DOMAIN life.replaced : y <= terms.horizon}
  IN  [i \in 1 .. Cardinality(due) |->
         LET y == CHOOSE z \in due : Cardinality({x \in due : x < z}) = i - 1
         IN  Row(replacement, [x \in {y} |-> life.replaced[y]])]
      \o <<Row(salvage, [x \in {terms.horizon} |-> - life.salvage])>>
LifecycleRows ==
  LifecycleOf("PVReplacement", "PVSalvage", terms.pv)
  \o LifecycleOf("ESSReplacement", "ESSSalvage", terms.ess)

InYear(row, y) == IF y \in DOMAIN row.amounts THEN row.amounts[y] ELSE 0
TotalIn(rows, y) == SumOf([i \in DOMAIN rows |-> InYear(rows[i], y)])

\* net_operating_flows
NetIn(y) == InYear(BenefitRow, y) - TotalIn(OperatingRows \o LifecycleRows, y)

\* npv, times (1 + r)^horizon * den^horizon.
Rate == terms.rate
Growth == Rate.num + Rate.den
ScaledNpv(outlay) ==
  MapThenSumSet(LAMBDA y : NetIn(y) * (Rate.den ^ y) * Growth ^ (terms.horizon - y), Years)
    - outlay * Growth ^ terms.horizon

\* annual_cost_won counts the first year of the rows, cost_lines says what it
\* is made of.
AnnualCost == TotalIn(OperatingRows \o LifecycleRows, 1)
CostLines ==
  <<terms.pvOM, terms.essOM, AnnualPurchase>> \o [i \in DOMAIN out.costs |-> out.costs[i].won]
OneOffIn(y) == TotalIn(LifecycleRows, y)

-----------------------------------------------------------------------------
(***************************************************************************)
(* Support (incentive/schemas.py, calculator.py, incentive_cases.py): what *)
(* is left of the investment to whoever's view it is.                      *)
(***************************************************************************)
Capex == terms.pvCapex + terms.essCapex
Unsupported == [rate |-> 0, fixed |-> None, limit |-> None, loan |-> 0, prefunded |-> "no"]
Scheme == IF terms.scheme = None THEN Unsupported ELSE terms.scheme

Subsidy(s) ==
  IF s.fixed # None THEN s.fixed
  ELSE IF s.limit # None THEN Less(Percent(Capex, s.rate), s.limit) ELSE Percent(Capex, s.rate)
Loan(s) == Percent(Capex, s.loan)

\* calculate_financing refuses more money than the investment needs; what is
\* funded elsewhere is not financed here.
Financed(s) == Capex = 0 \/ s.prefunded # "no" \/ Subsidy(s) + Loan(s) <= Capex

\* build_capex_cashflows
Outlay(s, viewpoint) ==
  CASE viewpoint \in {"OWNER", "PARTICIPANT"} ->
         IF s.prefunded = "no" THEN Capex - Subsidy(s) - Loan(s) ELSE 0
    [] viewpoint = "GOV" -> IF s.prefunded = "no" THEN Subsidy(s) ELSE Capex
    [] OTHER -> Capex

\* build_baseline_capex_cashflows: with no support there is nothing that is
\* only planned to be paid by others.
BaselineOutlay(s, viewpoint) ==
  IF s.prefunded = "planned" THEN 0
  ELSE Outlay([Unsupported EXCEPT !.prefunded = s.prefunded], viewpoint)

\* build_capex_cashflows_for_all_cases, the baseline first, and metrics_for.
Variants(viewpoint) ==
  <<ScaledNpv(BaselineOutlay(Scheme, viewpoint)), ScaledNpv(Outlay(Scheme, viewpoint))>>

-----------------------------------------------------------------------------
(***************************************************************************)
(* Whose benefit it is (build_perspective_wiring).  The operator's view is *)
(* the conclusion with all of its rows; no class of stream is a transfer.  *)
(***************************************************************************)
Society == IF terms.sub = None THEN <<>> ELSE <<DistributedBenefit(terms.sub)>>
PaidTo(payers) ==
  {i \in DOMAIN (Streams \o Society) : EffectivePayer((Streams \o Society)[i]) \in payers}
WonOf(payers) ==
  MapThenSumSet(LAMBDA i : Annual((Streams \o Society)[i]), PaidTo(payers))
\* Variant: the market that pays for capacity is forgotten.
OutsideGridOnly == {i \in PaidTo({"grid_operator"}) : Annual((Streams \o Society)[i]) # 0}
OutsideLines == {i \in PaidTo({"grid_operator", "power_market"}) : Annual((Streams \o Society)[i]) # 0}

(***************************************************************************)
(* Which resource earned it (attribution.py): what the day feeds in goes   *)
(* to the resources that produced in that hour, the rest as a whole to the *)
(* resource its line names.                                                *)
(***************************************************************************)
Producers == 0 .. Len(case.shares)  \* 0 is the PV
Produced(r, h) == IF r = 0 THEN case.pv[h] ELSE More(0, electric[r][h])
ExportShare(r) ==
  MapThenSumSet(
    LAMBDA h : LET all == MapThenSumSet(LAMBDA p : Produced(p, h), Producers)
               IN  IF net[h] <= 0 \/ all <= 0 THEN 0
                   ELSE (net[h] * Produced(r, h) * Fine) \div all, Day)
Exporting == SelectSeq([i \in 1 .. Len(case.shares) + 1 |-> i - 1], LAMBDA r : ExportShare(r) > 0)

\* Variant: every part is rounded for itself.
SplitRounded(won, weights) ==
  [i \in DOMAIN weights |-> (2 * won * weights[i] + SumOf(weights)) \div (2 * SumOf(weights))]

\* _split_with_residual: the last part takes what rounding left.
Split(won, weights) ==
  LET all == SumOf(weights)
      rounded == [i \in DOMAIN weights |-> (2 * won * weights[i] + all) \div (2 * all)]
      last == Len(weights)
  IN  [rounded EXCEPT ![last] = @ + won - SumOf(rounded)]

\* The amounts of one line of benefit, per resource that has a part in it.
Attribution(i) ==
  IF Streams[i].scales /\ Exporting # <<>>
  THEN Split(Benefits[i], [k \in DOMAIN Exporting |-> ExportShare(Exporting[k])])
  ELSE <<Benefits[i]>>

-----------------------------------------------------------------------------
\* What a report is given of a case (models.py).
CashflowSplit == [benefit |-> <<BenefitRow>>, operating |-> OperatingRows, lifecycle |-> LifecycleRows]
CaseBasis ==
  [investment |-> Capex, benefit |-> AnnualBenefit, cost |-> AnnualCost, costs |-> CostLines,
   benefits |-> Benefits, attributions |-> [i \in DOMAIN Benefits |-> Attribution(i)],
   one_off |-> [y \in Years |-> OneOffIn(y)]]

\* The outcome: refused if the support is more than the investment.
Conclude ==
  /\ at = "settled"
  /\ IF Financed(Scheme)
     THEN at' = "done" /\ UNCHANGED <<vars, terms, out>>
     ELSE Refuse

CaseNext == Open \/ Simulate \/ BreakOff \/ FleetStreams \/ Settle \/ Conclude

-----------------------------------------------------------------------------
\* Every variable has its type, and the parts of the attribution are exact.
CaseTypeOK ==
  /\ TypeOK
  /\ at \in {"given", "day", "streams", "settled", "done", "refused"}
  /\ at = "done" =>
       \A h \in Day, r \in Producers :
         LET all == MapThenSumSet(LAMBDA p : Produced(p, h), Producers)
         IN  net[h] > 0 /\ all > 0 => (net[h] * Produced(r, h) * Fine) % all = 0

(***************************************************************************)
(* The parts of the resources add up to the benefit of the year, and no    *)
(* part is further from its exact value than rounding of all explains      *)
(* (_split_with_residual, attribute_benefits).                             *)
(***************************************************************************)
AttributionAddsUp ==
  at = "done" =>
    /\ SumOf([i \in DOMAIN Benefits |-> SumOf(Attribution(i))]) = InYear(BenefitRow, terms.horizon)
    /\ \A i \in DOMAIN Benefits :
         LET part == Attribution(i)
             kwh == [k \in DOMAIN Exporting |-> ExportShare(Exporting[k])]
             all == SumOf(kwh)
             off(k) == part[k] * all - Benefits[i] * kwh[k]
         IN  Len(part) > 1 =>
               \A k \in DOMAIN part :
                 /\ 2 * off(k) <= Len(part) * all
                 /\ - 2 * off(k) <= Len(part) * all

(***************************************************************************)
(* Every mode of a battery can be run: without a contract structure and    *)
(* other streams of the caller, the streams the case makes for itself are  *)
(* never refused for excluding each other (_resolve_nwas_cp,               *)
(* peak_shaving_enabled against the table of exclusions).                  *)
(***************************************************************************)
ModesAreRunnable ==
  at = "refused" /\ pc = "done" /\ Undivided /\ terms.structure = None /\ terms.extra = <<>> =>
    GridCharged > Exported \/ ~Financed(Scheme)

(***************************************************************************)
(* What is sold of a day is from the PV: no more than it generated, in     *)
(* however many shares the battery bought on the grid what it discharged   *)
(* (the judgement behind non_pv_ess_discharge_kwh).                        *)
(***************************************************************************)
SoldFromPv ==
  at = "done" /\ terms.structure = None =>
    \A i \in DOMAIN out.streams :
      out.streams[i].tag = "SurplusSale" => Exported - out.streams[i].less <= Total(case.pv, Day)

(***************************************************************************)
(* Every won has one payer.  What residents, operator, grid operator and   *)
(* market pay in a year is the benefit of the conclusion, and what society *)
(* gains is in none of them (build_perspective_wiring).  The investment is *)
(* borne once: the views of owner and government and the loan add up to    *)
(* that of society, with and without support, to the won; and support      *)
(* never makes the project look worse to its owner (FR-604,                *)
(* calculate_financing, build_capex_cashflows_for_all_cases).              *)
(***************************************************************************)
EveryWonHasAPayer ==
  at = "done" =>
    LET lent == IF Scheme.prefunded = "no" THEN Loan(Scheme) ELSE 0
        owner == Variants("OWNER")
    IN  /\ AnnualBenefit = WonOf({"resident", "operator"})
             + MapThenSumSet(LAMBDA i : Annual((Streams \o Society)[i]), OutsideLines)
        /\ WonOf({"society"}) = (IF terms.sub = None THEN 0 ELSE SumOf(terms.sub))
        /\ Outlay(Scheme, "OWNER") + Outlay(Scheme, "GOV") + lent = Outlay(Scheme, "SOCIAL")
        /\ Scheme.prefunded # "planned" =>
             BaselineOutlay(Scheme, "OWNER") + BaselineOutlay(Scheme, "GOV")
               = BaselineOutlay(Scheme, "SOCIAL")
        /\ Variants(terms.viewpoint)[2] <= ScaledNpv(0)
        /\ owner[1] <= owner[2]

(***************************************************************************)
(* The lines of cost a report shows are the cost it shows: "if the two     *)
(* disagree, that itself is a defect" (CaseBasis.costs).                   *)
(***************************************************************************)
CostLinesAddUp ==
  at = "done" => CaseBasis.cost = SumOf(CaseBasis.costs) + CaseBasis.one_off[1]

-----------------------------------------------------------------------------
(***************************************************************************)
(* What a report says about a finished case besides its numbers: what the  *)
(* evaluation did not count, measured anew from every run                  *)
(* (core/report/unreflected.py), and which of its stages agree with the    *)
(* one before (core/report/verification.py).                               *)
(*                                                                         *)
(* An item is its name and where the conclusion would move if it were      *)
(* counted: "better", "worse" or "unknown".                                *)
(***************************************************************************)
\* build_hourly_profile: a series per resource; 0 is the PV, the household
\* comes after the shares of the battery.
Household == Len(case.shares) + 1
Metered == 0 .. (IF case.household THEN Household ELSE Len(case.shares))
Hourly(r, h) == IF r = 0 THEN case.pv[h] ELSE IF r = Household THEN - Load(h) ELSE electric[r][h]

\* _measured_quantities: what only gives generates, what only takes is a load,
\* a battery is neither.
Generators == {r \in Metered : (\A h \in Day : Hourly(r, h) >= 0) /\ \E h \in Day : Hourly(r, h) > 0}
Loads == {r \in Metered : (\A h \in Day : Hourly(r, h) <= 0) /\ \E h \in Day : Hourly(r, h) < 0}
Of(resources, h) == MapThenSumSet(LAMBDA r : Hourly(r, h), resources)
Matched == MapThenSumSet(LAMBDA h : Less(Of(Generators, h), - Of(Loads, h)), Day)

Item(label, direction) == [label |-> label, direction |-> direction]
ListedIf(condition, item) == IF condition THEN <<item>> ELSE <<>>
Tags(rows) == {rows[i].tag : i \in DOMAIN rows}
Counted(tag) == tag \in Tags(Streams \o OperatingRows \o LifecycleRows)

\* _replacement_items: judged by the rows that are there, not by the lives alone.
Shorts == {"PV", "ESS"}
Part(short) == IF short = "PV" THEN terms.pv ELSE terms.ess
ReplacementItems ==
  LET replaced(s) == Counted(s \o "Replacement")
      shortLived == {s \in Shorts : Part(s).life < terms.horizon /\ ~replaced(s)}
      outliving == {s \in Shorts :
                      ~Counted(s \o "Salvage") /\ (Part(s).life > terms.horizon \/ replaced(s))}
  IN  ListedIf(shortLived # {}, Item("replacement", "worse"))
        \o ListedIf(outliving # {}, Item("salvage", "better"))

\* _self_consumption_item: a kWh used is one not bought and not sold.
SelfConsumptionItem ==
  ListedIf(~Counted("SelfConsumption"),
    Item("self-consumption",
         IF Loads = {} THEN "unknown"
         ELSE IF Matched * (terms.purchase - terms.sale) > 0 THEN "better" ELSE "worse"))

PoolCompensationItem == ListedIf(case.baseline = "pool", Item("pool compensation", "better"))

PurchaseItem ==
  ListedIf(~Counted("GridPurchase"),
    Item("purchase", IF DayImport = 0 THEN "unknown" ELSE "worse"))

VariableOMItem == ListedIf(~Counted("VariableOM"), Item("variable O&M", "worse"))

\* _flat_generation_item
FlatGenerationItem ==
  ListedIf(Length > 1 /\ \E r \in Generators : \A g, h \in Day : Hourly(r, g) = Hourly(r, h),
    Item("flat generation", "unknown"))

\* _season_item, _METHOD_LIMITS: a day stands for the year, and nothing is
\* drawn at random.
SeasonItem == <<Item("season", "unknown")>>
MethodLimits == <<Item("probability", "unknown")>>

\* build_unreflected, without the inputs nothing reads (Influences).
Items ==
  ReplacementItems \o SelfConsumptionItem \o PoolCompensationItem \o PurchaseItem
    \o VariableOMItem \o FlatGenerationItem \o SeasonItem \o MethodLimits
Unlisted(label) == \A i \in DOMAIN Items : Items[i].label # label

(***************************************************************************)
(* The stages of the verification report.                                  *)
(***************************************************************************)
\* OneOffLine: what the rows of the life cycle are announced as.
OneOffs ==
  UNION {{[tag |-> s \o "Replacement", year |-> y, won |-> Part(s).replaced[y]] :
            y \in {x \in DOMAIN Part(s).replaced : x <= terms.horizon}}
         \cup {[tag |-> s \o "Salvage", year |-> terms.horizon, won |-> - Part(s).salvage]} : s \in Shorts}

\* _lifecycle_year_amounts: by tag and year, a later row replaces an earlier one.
YearAmount(tag, year) ==
  LET k == SelectLastInSeq(LifecycleRows, LAMBDA r : r.tag = tag /\ year \in DOMAIN r.amounts)
  IN  IF k = 0 THEN None ELSE LifecycleRows[k].amounts[year]

\* _stage7_cashflow: the marks of a mismatch.
Mismatches ==
  {o \in OneOffs : YearAmount(o.tag, o.year) # o.won}
    \cup (IF CaseBasis.benefit = InYear(BenefitRow, 1) THEN {} ELSE {"benefit"})
    \cup (IF CaseBasis.cost = TotalIn(OperatingRows, 1) + TotalIn(LifecycleRows, 1) THEN {} ELSE {"cost"})

-----------------------------------------------------------------------------
(***************************************************************************)
(* What a case leaves out is listed: a life that ends without anything     *)
(* bought; in a pool, the compensation that nobody pays yet, beside the    *)
(* cost of what is given up for it.  That cost is what the report measures *)
(* that the household used, where the household comes first, though one is *)
(* made from the surplus before the battery plans and the other from the   *)
(* series of the resources (_forfeited_self_consumption_rows says that the *)
(* two are the same).  The stages of the verification report agree with    *)
(* each other.                                                             *)
(***************************************************************************)
OmissionsAreListed ==
  at = "done" =>
    /\ \A s \in Shorts :
         Unlisted("replacement") /\ Part(s).life < terms.horizon =>
           \E o \in OneOffs : o.tag = s \o "Replacement"
    /\ case.baseline = "pool" /\ HouseholdServedFirst =>
         /\ ~Unlisted("pool compensation")
         /\ \E row \in ToSet(Forfeited) : \A y \in Years :
              row.amounts[y] = Matched * DaysPerYear * terms.purchase
    /\ Mismatches = {}
=============================================================================
