----------------------------- MODULE MCEconomics -----------------------------
(***************************************************************************)
(* The calculations behind a report, checked in one run: the goal seek,    *)
(* replacements, indicators, the day of a case and the whole case, what a  *)
(* report says of its inputs, its benefits and its loss; the resources     *)
(* over their years; bills, duties and shared costs; ledgers, series and   *)
(* case grids; comparisons; and the composition of a model, a calculation  *)
(* that several users interrupt.  They share nothing here, so the initial  *)
(* state says which one is running and the variables of the others stay as *)
(* they are.  Inputs are in MCCalculations, or below where they need       *)
(* operators of the module they are inputs of.                             *)
(***************************************************************************)
EXTENDS MinSubsidySolver, AssetLifecycle, MCCalculations

CONSTANTS
  Calculations,  \* calculations to run
  Investments, BenefitRows, CostRows, Rates,  \* CashFlow
  DayCases, DayWindows, DayLength, Loss, Whole,  \* DayDispatch
  Runs, DaysPerYear, Escalation, Fine,  \* CaseRun, Runs with a day and its terms
  Reports, Samples  \* Influences

VARIABLES
  inv, benefits, costs, rate, loop, flows, flowYear, cum, simple, discounted,
  sign, changes,  \* CashFlow
  case, step, surplus, share, hour, room, charged, electric, net,  \* DayDispatch
  terms, at, out,  \* CaseRun
  report, levels, npv, phase, input, seg, entries, coupled, capacities  \* Influences

Flow == INSTANCE CashFlow WITH pc <- loop, year <- flowYear
EveryCase == DayCases \cup {r.case : r \in Runs}
EveryTerms == {r.terms : r \in Runs}
Site == INSTANCE CaseRun WITH
  Terms <- EveryTerms, pc <- step, n <- share, Cases <- EveryCase, Windows <- DayWindows, Length <- DayLength

Sweep == INSTANCE Influences WITH stage <- phase, i <- input
Cars == INSTANCE EvV2G WITH
  Fleets <- SomeFleets, Contexts <- SomeStays, Hours <- 6, PerHour <- 2, NoLimit <- None, at <- mark
Years == INSTANCE SiteYears WITH
  Plants <- SomePlants, Asked <- SomeYears, Days <- 2, Hours <- 4, Months <- <<1, 1>>,
  Windows <- PlantWindows, OperatingModes <- PlantModes, at <- mark

Heat == INSTANCE HeatSupply WITH
  Pumps <- SomePumps, HeatLoads <- SomeHeatLoads, Asked <- SomeWinters,
  Days <- 2, Hours <- 4, Months <- <<1, 1>>, at <- mark

Tariffs == INSTANCE TariffBills WITH
  Catalogs <- SomeCatalogs, BillingDays <- {1, 4, 6, 8}, Scenarios <- SomeScenarios,
  Vat <- [num |-> 1, den |-> 10], Fund <- [num |-> 27, den |-> 1000], at <- mark

Axes == INSTANCE CaseGridAxes WITH
  Grids <- SomeGrids, BaseLevel <- "base", LevelLedgers <- SomeLevelLedgers, Backed <- SomeBacked, Fixed <- SomeFixed,
  LoadVariable <- "load", CapacityVariable <- "capacity", YearHours <- 3, at <- mark
Models == INSTANCE ModelComparison WITH
  Comparisons <- SomeComparisons, BaselineCases <- SomeBaselines, Accounts <- SomeAccounts, Steps <- 4, Never <- 9, at <- mark

flowVars ==
  <<inv, benefits, costs, rate, loop, flows, flowYear, cum, simple, discounted, sign, changes>>
dayVars == <<case, step, surplus, share, hour, room, charged, electric, net>>
siteVars == <<dayVars, terms, at, out>>
sweepVars == <<report, levels, npv, phase, input, seg, entries, coupled, capacities>>
smallVars == <<given, made, mark, held, shown>>
viewVars == <<sweepVars, smallVars>>

\* Every calculation that is not running keeps its variables at nothing.
Nothing == <<>>
\* The calculations of MCCalculations.
Proved == {"regulation", "commune", "benefits", "bounds", "ledger", "series", "files", "shapes", "composer"}
EconomicsInit ==
  /\ running \in Calculations
  /\ IF running = "solver" THEN Init
     ELSE /\ problem = [mode |-> "goals", goals |-> Nothing] /\ k = 0 /\ pc = "idle" /\ i = 0
          /\ low = 0 /\ high = 0 /\ found = Nothing /\ best = 0 /\ binding = 0 /\ least = 0
          /\ outcome = [status |-> "running", shortfall |-> 0]
  /\ IF running = "lifecycle" THEN LifeInit
     ELSE res = Nothing /\ horizon = 0 /\ stage = "idle" /\ part = 0 /\ year = 0 /\ bought = Nothing
  /\ IF running = "cashflow" THEN Flow!Init
     ELSE /\ inv = 0 /\ benefits = Nothing /\ costs = Nothing /\ rate = Nothing /\ loop = "idle"
          /\ flows = Nothing /\ flowYear = 0 /\ cum = 0 /\ simple = 0 /\ discounted = 0
          /\ sign = 0 /\ changes = 0
  /\ CASE running = "day" -> case \in DayCases /\ Site!Init /\ terms = Nothing /\ at = "idle" /\ out = Nothing
       [] running = "case" -> (\E r \in Runs : case = r.case /\ terms = r.terms) /\ Site!CaseInit
       [] OTHER -> /\ case = Nothing /\ step = "idle" /\ surplus = Nothing /\ share = 0 /\ hour = 0
                   /\ room = 0 /\ charged = Nothing /\ electric = Nothing /\ net = Nothing
                   /\ terms = Nothing /\ at = "idle" /\ out = Nothing
  /\ IF running = "influences" THEN Sweep!Init
     ELSE /\ report = Nothing /\ levels = Nothing /\ npv = 0 /\ phase = "idle" /\ input = 0
          /\ seg = Nothing /\ entries = Nothing /\ coupled = Nothing /\ capacities = Nothing
  /\ CASE running = "cars" -> Cars!Init
       [] running = "years" -> Years!Init
       [] running = "heat" -> Heat!Init
       [] running = "tariffs" -> Tariffs!Init
       [] running \in Proved -> CalculationsInit
       [] running = "grids" -> Axes!Init
       [] running = "models" -> Models!Init
       [] running = "shortfall" -> Models!ShortfallInit
       [] running = "baselines" -> Models!BaselineInit
       [] running = "levels" -> Axes!LevelsInit
       [] OTHER -> given = Nothing /\ made = Nothing /\ mark = "idle"
  /\ running \notin Proved => held = Nothing /\ shown = Nothing

Solve == running = "solver" /\ Next /\ UNCHANGED <<running, lifeVars, flowVars, siteVars, viewVars>>
Replace == running = "lifecycle" /\ LifeNext /\ UNCHANGED <<running, vars, flowVars, siteVars, viewVars>>
Evaluate == running = "cashflow" /\ Flow!Next /\ UNCHANGED <<running, vars, lifeVars, siteVars, viewVars>>
Balance ==
  /\ running = "day" /\ Site!Next
  /\ UNCHANGED <<running, vars, lifeVars, flowVars, terms, at, out, viewVars>>
RunCase == running = "case" /\ Site!CaseNext /\ UNCHANGED <<running, vars, lifeVars, flowVars, viewVars>>
SweepInputs ==
  /\ running = "influences" /\ Sweep!Next
  /\ UNCHANGED <<running, vars, lifeVars, flowVars, siteVars, smallVars>>
Small(name) == running = name /\ UNCHANGED <<running, vars, lifeVars, flowVars, siteVars, sweepVars, held, shown>>
LendBatteries == Small("cars") /\ Cars!Next
DispatchYears == Small("years") /\ Years!Next
SupplyHeat == Small("heat") /\ Heat!Next
BillMeters == Small("tariffs") /\ Tariffs!Next
Calculate == CalculationsNext /\ UNCHANGED <<vars, lifeVars, flowVars, siteVars, sweepVars>>
CrossAxes == Small("grids") /\ Axes!Next
CompareModels == Small("models") /\ Models!Next
SplitLoss == Small("shortfall") /\ Models!ShortfallNext
CompareBaseline == Small("baselines") /\ Models!BaselineNext
BuildLevels == Small("levels") /\ Axes!LevelsNext
EconomicsNext ==
  Solve \/ Replace \/ Evaluate \/ Balance \/ RunCase \/ SweepInputs
  \/ LendBatteries \/ DispatchYears \/ SupplyHeat \/ BillMeters \/ Calculate
  \/ CrossAxes \/ CompareModels \/ SplitLoss \/ CompareBaseline \/ BuildLevels

\* Goal seek and replacement loop run in one thread that nothing interrupts
\* (nothing is claimed of the end of the others).
Economics ==
  /\ EconomicsInit
  /\ [][EconomicsNext]_<<running, vars, lifeVars, flowVars, siteVars, viewVars>>
  /\ WF_vars(Solve)
  /\ WF_lifeVars(Replace)

-----------------------------------------------------------------------------
(***************************************************************************)
(* Resources of every class, with lives that do and do not divide the      *)
(* horizon, free parts, a rise of prices of 0 or 100% a year.              *)
(***************************************************************************)
Lives == {1, 2, 3, 5}
Rises == {0, 1}
Buyers ==
  {PV(l, n, 2, 1, p, t, r) : l \in Lives, n \in {2, 3}, p \in {0, 2}, t \in BOOLEAN, r \in Rises}
  \cup {ESS(l, n, 3, b, 2, t, r) : l \in Lives, n \in {0, 2}, b \in {0, 1}, t \in BOOLEAN, r \in Rises}
  \cup {HeatPump(l, n, 3, 2, b, t, r) : l \in Lives, n \in {0, 3}, b \in {0, 1}, t \in BOOLEAN, r \in Rises}
Replacing ==
  {EV(l, c, 1, FALSE, r) : l \in Lives, c \in {0, 2}, r \in Rises}
  \cup {Load(l, c, n, 2, FALSE, r) : l \in Lives, c \in {0, 3}, n \in {1, 4}, r \in Rises}
  \cup {ThermalLoad(l, c, n, 2, FALSE, r) : l \in Lives, c \in {0, 3}, n \in {1, 4}, r \in Rises}
  \cup {CommonAsset(l, n, 3, 2, sa, 1) : l \in Lives, n \in {2, 3}, sa \in {0, 2}}
Retiring ==
  {EV(l, 2, 1, TRUE, 0) : l \in Lives}
  \cup {Load(l, 3, 4, 2, TRUE, 0) : l \in Lives}
  \cup {ThermalLoad(l, 3, 4, 2, TRUE, 0) : l \in Lives}
AllResources == Buyers \cup Replacing
SomeHorizons == 1 .. 7

(***************************************************************************)
(* Three years: benefits in one or two rows, some with years left out;     *)
(* costs with an item of one year and with a salvage value.                *)
(***************************************************************************)
Row(Y, V) == [Y -> V]
Every(n) == [y \in 1 .. 3 |-> n]
SomeInvestments == {0, 1, 2, 5}
SomeBenefitRows ==
  {<<r>> : r \in Row(1 .. 3, {0, 5}) \cup Row({2, 3}, {2, 6})}
    \cup {<<Every(n), s>> : n \in {3, 4}, s \in Row({1, 3}, {0, 4})}
SomeCostRows ==
  {<<>>, <<Every(1)>>, <<Every(3)>>, <<[y \in {1} |-> 7]>>}
    \cup {<<r, s>> : r \in Row(1 .. 3, {0, 3}), s \in Row({3}, {-2, 4})}
SomeRates == {[num |-> 0, den |-> 1], [num |-> 1, den |-> 4], [num |-> 1, den |-> 1]}

(***************************************************************************)
(* A day of six hours, an efficiency of one half, shares of halves; PV and *)
(* load with a dark hour at noon and with a load above and below the PV.   *)
(***************************************************************************)
Hourly(a, b, c, d, e, f) == [h \in 0 .. 5 |-> <<a, b, c, d, e, f>>[h + 1]]
SomePVs == {Hourly(0, 8, 16, 8, 4, 0), Hourly(0, 4, 4, 8, 0, 0), Hourly(0, 16, 0, 16, 0, 0)}
SomeLoads == {Hourly(4, 4, 4, 4, 8, 8), Hourly(0, 8, 8, 0, 16, 4)}
SomeWindows ==
  [self |-> [charge |-> {1, 2}, discharge |-> {4, 5}],
   tou |-> [charge |-> {0, 1}, discharge |-> {4, 5}],
   peak |-> [charge |-> {0, 1}, discharge |-> {2, 3}],
   grid_discharge |-> [charge |-> {0, 1}, discharge |-> {4, 5}],
   semi_central_dispatch |-> [charge |-> {0, 1}, discharge |-> {4, 5}]]
DayModes == {"self", "tou", "peak"}

Of(name, halves, mode, quantity) ==
  [name |-> name, part |-> halves, mode |-> mode, quantity |-> quantity]
Undivided == {<<Of("ess", 2, m, "q")>> : m \in DayModes}
Halves == {<<Of("a", 1, l, "p"), Of("b", 1, m, "q")>> : l, m \in DayModes}
Faulty ==
  {<<>>,
   <<Of("a", 1, "self", "p")>>,
   <<Of("a", 3, "self", "p"), Of("b", -1, "self", "q")>>,
   <<Of("a", 0, "self", "p"), Of("b", 2, "self", "q")>>,
   <<Of("a", 1, "self", "p"), Of("b", 1, "tou", "p")>>,
   <<Of("a", 1, "self", "p"), Of("a", 1, "tou", "q")>>}

CasesOf(pvs, priorities, baselines, declared, sources, shares) ==
  [pv : pvs, load : SomeLoads, household : BOOLEAN, priority : priorities,
   baseline : baselines, metered : declared, source : sources,
   capacity : {8, 16}, power : {8, 16}, cycles : {1, 2}, shares : shares]
Firsts == {"household_first", "battery_first"}
BothSources == {"pv_surplus", "grid"}
SomeCases ==
  CasesOf(SomePVs, Firsts, {"none", "maintain"}, {TRUE}, BothSources, Undivided)
  \cup CasesOf(SomePVs, Firsts, {"pool"}, {TRUE}, {"grid"}, Halves)
  \cup CasesOf(SomePVs, Firsts, {"maintain"}, {TRUE}, {"pv_surplus"}, Faulty)
  \cup CasesOf({Hourly(0, 0, 0, 0, 0, 0)}, Firsts \cup {"price_based"}, {"pool"}, BOOLEAN,
               {"pv_surplus"}, Undivided)

(***************************************************************************)
(* Whole cases: every mode, undivided and in pairs, with terms that differ *)
(* from a plain case in one thing each: structure, support, life, society, *)
(* streams of the caller, what is not given.                               *)
(***************************************************************************)
Pair(l, m, q) == <<Of("a", 1, l, "p"), Of("b", 1, m, q)>>
RunCasesOf(baselines, sources, shares) ==
  {c \in CasesOf({Hourly(0, 0, 16, 8, 4, 0)}, Firsts, baselines, {TRUE}, sources, shares) :
     c.cycles = 1 /\ c.capacity = 8}
EveryBattery ==
  {<<Of("ess", 2, m, "q")>> : m \in DOMAIN SomeWindows}
    \cup {Pair("peak", "peak", "q"), Pair("peak", "grid_discharge", "q"),
          Pair("semi_central_dispatch", "grid_discharge", "q"), Pair("self", "peak", "q")}
OneBattery == {<<Of("ess", 2, "peak", "q")>>, <<Of("ess", 2, "semi_central_dispatch", "q")>>}

NoContract ==
  [given |-> {}, tariff |-> 4, salePrice |-> 2, tradePrice |-> 3, volume |-> 5, feeRate |-> 1,
   ratio |-> 2, generation |-> 0, contractPrice |-> 3, baselineBill |-> 90, newBill |-> 50,
   managerPct |-> 10, sameMeters |-> TRUE]
FullContract ==
  [NoContract EXCEPT !.given =
     {"trade_price", "trade_volume", "contract_price", "engine", "meters", "billing_date"}]
Supported(r, l, p) == [rate |-> r, fixed |-> None, limit |-> None, loan |-> l, prefunded |-> p]
PlainTerms ==
  [shapes |-> TRUE, structure |-> None, provider |-> TRUE, contract |-> NoContract, extra |-> <<>>,
   sale |-> 3, purchase |-> 5, rec |-> 1, nwas |-> 2, cp |-> 2, demand |-> 3, pvOM |-> 51, essOM |-> 25,
   pvCapex |-> 1000, essCapex |-> 501, horizon |-> 3, rate |-> [num |-> 1, den |-> 4], sub |-> None,
   pv |-> [life |-> 2, replaced |-> [y \in {3} |-> 40], salvage |-> 20],
   ess |-> [life |-> 1, replaced |-> [y \in {2, 3} |-> 30], salvage |-> 0],
   scheme |-> None, viewpoint |-> "OWNER"]
Stream == INSTANCE ValueStreams
SomeEscalation == [num |-> 1, den |-> 50]
SomeTerms ==
  {PlainTerms,
   [PlainTerms EXCEPT !.shapes = FALSE],
   [PlainTerms EXCEPT !.horizon = 5],
   [PlainTerms EXCEPT !.horizon = 1, !.sub = <<3, 4>>],
   [PlainTerms EXCEPT !.extra = <<Stream!TouArbitrage(4, 8, 3, 1)>>],
   [PlainTerms EXCEPT !.extra = <<Stream!DirectTrade(4, 3, 5, 2, None), Stream!HeatCostSaving(9, 4)>>],
   [PlainTerms EXCEPT !.structure = "net_metering", !.provider = FALSE],
   [PlainTerms EXCEPT !.structure = "aggregated_ppa", !.contract.given = {"annual_generation"}]}
  \cup {[PlainTerms EXCEPT !.structure = s, !.contract = c] :
         s \in Stream!ContractStructures, c \in {NoContract, FullContract}}
  \cup {[PlainTerms EXCEPT !.scheme = s, !.viewpoint = v] :
         s \in {Supported(0, 30, "no"), Supported(33, 25, "no"), Supported(80, 40, "no"),
                Supported(0, 0, "planned"), Supported(0, 0, "confirmed"),
                [Supported(0, 20, "no") EXCEPT !.fixed = 600],
                [Supported(50, 10, "no") EXCEPT !.limit = 300]},
         v \in {"OWNER", "GOV", "SOCIAL"}}
SomeRuns ==
  [case : RunCasesOf({"maintain", "pool"}, BothSources, EveryBattery), terms : {PlainTerms}]
  \cup [case : {c \in RunCasesOf({"maintain"}, BothSources, OneBattery) :
                 c.power = 8 /\ c.priority = "household_first"}, terms : SomeTerms]

(***************************************************************************)
(* Reports over two inputs and a capacity on a grid of nine values, with   *)
(* contributions that rise, fall, turn and stay, levels that meet, with    *)
(* and without an override of the first input, which is within its levels  *)
(* or one above the high one; a thousand won of investment and a grant.    *)
(***************************************************************************)
Grid9 == 0 .. 8
Rising == [x \in Grid9 |-> 7 * x]
Falling == [x \in Grid9 |-> 40 - 10 * x]
Turning == [x \in Grid9 |-> IF x < 3 THEN 12 * x ELSE 50 - 9 * x]
Unmoved == [x \in Grid9 |-> 5]
Input(l, b, h) == [design |-> FALSE, low |-> l, base |-> b, high |-> h]
Capacity9 == [design |-> TRUE, low |-> 0, base |-> 4, high |-> 8]
ReportsOf(worths, pluses, overrides, rates) ==
  [ledger : {<<Input(l, 4, h), Input(2, 3, 7), Capacity9>> : l \in {0, 4}, h \in {4, 7}},
   override : {<<o, None, None>> : o \in overrides},
   worth : {<<w, x, [x2 \in Grid9 |-> y[x2] + plus]>> : w \in worths, x \in {Rising, Turning}, y \in worths \ {Falling},
            plus \in pluses},
   joint : {0, 2}, cost : {999}, rate : rates, refused : {{}, {6, 8}}, failing : {{0}}]
SomeReports == ReportsOf({Rising, Falling, Turning, Unmoved}, {470, 930}, {None, 5}, {0, 50})

(***************************************************************************)
(* Benefits in any order, about one quantity or two, with and without a    *)
(* structure, against the table of the repository and changed ones.        *)
(***************************************************************************)
SomeStreams ==
  {<<>>,
   <<Stream!REC(1, 2), [Stream!SurplusSale(3, None, 0) EXCEPT !.structure = "net_metering"],
     Stream!DistributedBenefit(<<4, 5>>)>>,
   <<Stream!DistributedBenefit(<<0, 0>>), Stream!SelfConsumption(9, 4, None)>>,
   <<Stream!SelfConsumption(9, 4, "via_manager"), Stream!PeakShaving(1, 2, TRUE), Stream!NWAs(2, FALSE)>>}
  \cup {<<[Stream!PeakShaving(1, 2, TRUE) EXCEPT !.quantity = p],
          [Stream!PeakShaving(2, 2, e) EXCEPT !.quantity = q],
          [Stream!NWAs(2, TRUE) EXCEPT !.quantity = r]>> :
          p \in {None, "p"}, q, r \in {None, "p", "q"}, e \in BOOLEAN}
SomeTables ==
  [rules : {Stream!DefaultRules, Stream!Reverse(Stream!DefaultRules), <<>>,
            Append(Stream!DefaultRules, Stream!Rule("SurplusSale", "REC", "D")),
            <<Stream!Rule("REC", "REC", "A")>>, <<Stream!Rule("REC", "CP", "F")>>},
   profile : {None, "net_metering"}, streams : SomeStreams \cup {Stream!Reverse(s) : s \in SomeStreams},
   exported : {0, 6}]

-----------------------------------------------------------------------------
\* Every variable of the goal seek, of the replacement loop, of the indicators
\* and of the day has its type (MinSubsidySolver, AssetLifecycle, CashFlow,
\* DayDispatch); the curve over loans names one of its points.
TypesOK ==
  CASE running = "solver" -> TypeOK
    [] running = "lifecycle" -> LifeTypeOK
    [] running = "cashflow" -> Flow!TypeOK
    [] running = "day" -> Site!TypeOK
    [] running = "case" -> Site!CaseTypeOK
    [] running = "influences" -> Sweep!InfluencesTypeOK
    [] running = "benefits" -> Lines!TypeOK
    [] OTHER -> TRUE

\* The goal seek and the replacement loop end (solve_min_subsidy_rate,
\* replacement_schedule).
CalculationsEnd ==
  /\ running = "solver" => Answers
  /\ running = "lifecycle" => LoopEnds

\* NPV and B/C are two views of the same won, NPV and payback agree up to
\* rounding, a payback period is the first recovery, in any order of the rows, and
\* IRR is unique where MIRR is not preferred (npv, bcr, payback_simple,
\* payback_discounted, mirr_preferred_over_irr, irr); a loss is split without a
\* rest (build_shortfall).
IndicatorsAgree ==
  /\ running = "cashflow" =>
       /\ Flow!NpvIsBenefitsLessCosts /\ Flow!NpvAgreesUpToRounding
       /\ Flow!FirstRecovery /\ Flow!IrrIsUnique
  /\ running = "shortfall" => Models!SplitIsWhole

\* The shares of a battery stay within its power and its cycles; the plan of the
\* hours stores what it can, as early as it can, from what the PV leaves in the
\* hour, and makes the site buy nothing for it (split_ess,
\* _pv_surplus_charge_kwh_by_hour, _resolve_ess_dispatch_inputs,
\* RuleBasedEngine.run).
SharesFillOneBattery ==
  running = "day" => Site!WithinOneBattery /\ Site!PlanTakesWhatItCan /\ Site!ChargedFromSurplus

\* What the resources earned adds up to the benefit of the year, what is sold is
\* from the PV, and no mode of the battery makes the streams of a case exclude each
\* other (attribute_benefits, run_single_case_e2e, build_fleet_streams).
AttributionAddsUp == running = "case" => Site!AttributionAddsUp /\ Site!SoldFromPv /\ Site!ModesAreRunnable

\* Every won has one payer and the investment is borne once
\* (build_perspective_wiring, build_capex_cashflows_for_all_cases).
EveryWonHasAPayer == running = "case" => Site!EveryWonHasAPayer

\* What is not counted is listed, and what is listed is not counted
\* (build_unreflected, _stage7_cashflow).
OmissionsAreListed == running = "case" => Site!OmissionsAreListed

\* A sweep moves what it says and nothing else, and what it names as a turn is one
\* (_Sweeper).
OneThingMoves == running = "influences" => Sweep!SweepsMoveOneThing /\ Sweep!TurnsWhereReported

\* What a year is billed for is what its dispatch moves, a battery is replaced
\* when it is spent (PV, ESS, Load; eol_year), and a car that lends its battery
\* leaves as charged as it came (EV_V2G.dispatch).
BilledIsDispatched ==
  /\ running = "years" => Years!BilledIsDispatched /\ Years!SpentWhenReplaced
  /\ running = "cars" => Cars!LeavesCharged

\* Heat is supplied or reported as missing (HeatPump.simulate, RuleBasedEngine.run).
HeatIsAccountedFor == running = "heat" => Heat!HeatIsAccountedFor

\* What is saved line by line is what the bills differ by (TariffEngine).
BillsAddUp == running = "tariffs" => Tariffs!BillsAddUp

\* The cases are the choices of the grid, what is read off them agrees, and a
\* level is the ledger's in its own unit (CaseGrid, feasible_region,
\* tornado_ranking, build_level_map).
GridMeansItsAxes ==
  /\ running = "grids" => Axes!GridMeansItsAxes /\ Axes!ReadingsAgree /\ Axes!BundlesAreWhole
  /\ running = "levels" => Axes!LevelsAreOfTheLedger

\* Models in one table see the same values or are marked, and the rows of a
\* comparison come to its total (compare_models, compute_incremental).
ComparesLikeWithLike ==
  /\ running = "models" => Models!ComparesLikeWithLike
  /\ running = "baselines" => Models!DifferenceIsWhole

\* Costs lower the net present value of a compared model (net_operating_flows).
CostsLowerTheNpv == running = "models" => Models!CostsLowerTheNpv


\* The lines of cost are the cost (cost_lines, annual_cost_won).
CostLinesAddUp == running = "case" => Site!CostLinesAddUp
-----------------------------------------------------------------------------
(***************************************************************************)
(* Twenty units of support, metrics that take a few values and change at   *)
(* two places: rising, falling, with a peak or a dip, inside one of the    *)
(* ten intervals of the shape check or across several.                     *)
(***************************************************************************)
Steps3(a, b, va, vb, vc) ==
  [x \in Support |-> IF x < a THEN va ELSE IF x < b THEN vb ELSE vc]

Curves(Breaks, Values) ==
  {Steps3(p[1], p[2], v[1], v[2], v[3]) :
     p \in {q \in Breaks \X Breaks : q[1] <= q[2]}, v \in Values \X Values \X Values}

\* The target is met, lost again and met once more.
Dips(Breaks) ==
  {[x \in Support |-> IF x < p[1] \/ (p[2] <= x /\ x < p[3]) THEN 0 ELSE 1] :
     p \in {q \in Breaks \X Breaks \X Breaks : q[1] < q[2] /\ q[2] < q[3]}}

Free == [x \in Support |-> x]
Flat == [x \in Support |-> 1]
One(curves, type) ==
  {[mode |-> "goals", goals |-> <<[curve |-> c, cost |-> Free, target |-> 1, type |-> type]>>] :
     c \in curves}

SingleProblems ==
  One(Dips({1, 3, 4, 7, 8, 10, 13, 16, 19}), "NPV") \cup
  One(Curves({1, 3, 4, 7, 10, 13, 16, 19}, 0 .. 2), "NPV")
    \cup One(Curves({1, 3, 4, 9, 15}, 0 .. 2), "PAYBACK")

Few == Curves({3, 9, 14}, 0 .. 1)
Choice(cost) == {[curve |-> c, cost |-> cost, target |-> 1, type |-> "IRR"] : c \in Few}
PairProblems ==
  {[mode |-> "goals", goals |-> <<a, b>>] : a \in Choice(Free), b \in Choice(Free)}
    \cup {[mode |-> "curve", goals |-> <<a, b, c>>] :
            a \in Choice(Free), b \in Choice(Flat), c \in Choice(Free)}
    \cup {[mode |-> "curve", goals |-> <<>>]}
    \cup {[mode |-> "goals",
           goals |-> <<[curve |-> c, cost |-> Free, target |-> 2, type |-> "NPV"]>>] :
            c \in Curves({3, 19}, 0 .. 2)}
AllProblems == SingleProblems \cup PairProblems
=============================================================================
