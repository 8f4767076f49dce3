--------------------------- MODULE ModelComparison ---------------------------
(***************************************************************************)
(* Several models in one table (compare_models of                          *)
(* core/casegrid/comparison.py): they must name one ledger, what each of   *)
(* them lays over it is marked, and every model gets its indicators from   *)
(* the rows of its own day.                                                *)
(*                                                                         *)
(* The day of a model is what it sold; the goal seek is what               *)
(* MinSubsidySolver answers for a metric that does not turn: the least     *)
(* support on a grid of Steps that reaches the goal, or all of it.         *)
(*                                                                         *)
(* And the other comparison, of a project with what there was before it;   *)
(* and a loss with what it is made of.                                     *)
(***************************************************************************)
EXTENDS Integers, Sequences, SequencesExt, FiniteSetsExt

CONSTANTS
  Comparisons,  \* models, prices, period and discount rate, see Init
  DaysPerYear,  \* DAYS_PER_YEAR
  Steps,        \* steps of the support from nothing to everything
  Never,        \* no payback within the period
  BaselineCases,  \* arrangement, declaration, rows without and with the project
  Accounts,     \* outlay, three groups of rows, rate, and rows the split lost
  None

VARIABLES
  given,  \* what is compared
  at,     \* "given", "running", "refused" or "shown"; "split", "printed"
  made    \* the rows of the table

comparisonVars == <<given, at, made>>

\* The present values of a table's rows at a discount rate.
Valued(r) == INSTANCE CashFlow WITH
  Investments <- {}, BenefitRows <- {}, CostRows <- {}, Rates <- {},
  inv <- 0, benefits <- <<>>, costs <- <<>>, rate <- r, pc <- "net", flows <- <<>>, year <- 0, cum <- 0,
  simple <- 0, discounted <- 0, sign <- 0, changes <- 0

Period == 1 .. given.horizon
Added(amounts) == FoldLeft(LAMBDA x, y : x + y, 0, amounts)

PeakReduction(model) == Added([i \in DOMAIN model.resources |-> model.resources[i].reducible])
AnnualBenefit(model) ==
  model.sold * given.sale * DaysPerYear + 12 * PeakReduction(model) * given.demand
InitialInvestment(model) == Added([i \in DOMAIN model.resources |-> model.resources[i].capex])

BenefitRow(model) == [y \in Period |-> AnnualBenefit(model)]
FixedOmRow(resource) == [y \in Period |-> resource.om]
\* The costs stand in the rows as they stand in a proforma.
CashFlows(model) ==
  <<BenefitRow(model)>> \o [i \in DOMAIN model.resources |-> FixedOmRow(model.resources[i])]

NpvOf(outlay, rows) == Valued(given.rate)!PV(rows) - outlay

\* payback_discounted, in whole years.
Cumulative(outlay, rows, y) ==
  MapThenSumSet(LAMBDA x : Valued(given.rate)!Discounted(Valued(given.rate)!InYear(rows, x), x), 1 .. y) - outlay
PaybackOf(outlay, rows) == Min({y \in Period : Cumulative(outlay, rows, y) >= 0} \cup {Never})

\* The outlay that is left is cut to the won.
Subsidised(outlay, s) == (outlay * (Steps - s)) \div Steps
RequiredSubsidy(outlay, rows) ==
  Min({s \in 0 .. Steps : NpvOf(Subsidised(outlay, s), rows) >= 0} \cup {Steps})

\* _overrides_of: what a provider does not tell is not marked.
OverridesOf(model) == IF model.tells THEN DOMAIN model.overrides ELSE {}

SetId(model) == <<model.set, model.version>>
\* Variant: the name of the ledger alone.
SameSetByName(models) == \A i \in DOMAIN models : models[i].set = models[1].set
SameSet(models) == \A i \in DOMAIN models : SetId(models[i]) = SetId(models[1])

RowOf(model) ==
  LET outlay == InitialInvestment(model)
      rows == CashFlows(model)
  IN  [npv |-> NpvOf(outlay, rows), payback |-> PaybackOf(outlay, rows),
       subsidy |-> RequiredSubsidy(outlay, rows), divergent |-> OverridesOf(model)]
DivergentKeys == UNION {made[i].divergent : i \in DOMAIN made}

-----------------------------------------------------------------------------
Init == given \in Comparisons /\ at = "given" /\ made = <<>>

Refuse ==
  /\ at = "given"
  /\ given.models = <<>> \/ ~SameSet(given.models)
  /\ at' = "refused" /\ UNCHANGED <<given, made>>
Accept ==
  /\ at = "given"
  /\ given.models # <<>> /\ SameSet(given.models)
  /\ at' = "running" /\ UNCHANGED <<given, made>>
Run ==
  /\ at = "running" /\ Len(made) < Len(given.models)
  /\ made' = Append(made, RowOf(given.models[Len(made) + 1]))
  /\ UNCHANGED <<given, at>>
Show ==
  /\ at = "running" /\ Len(made) = Len(given.models)
  /\ at' = "shown" /\ UNCHANGED <<given, made>>

Next == Refuse \/ Accept \/ Run \/ Show

-----------------------------------------------------------------------------
(***************************************************************************)
(* A table compares like with like.  Where two of its models see different *)
(* values of an assumption the key is marked, as long as every provider    *)
(* tells its overrides; of two models that differ in the price of their    *)
(* resources alone the cheaper one is no worse in any column; and the      *)
(* support of every row reaches the goal, a support of everything          *)
(* included, and nothing below it does (compare_models, divergent_keys,    *)
(* _required_subsidy_rate).  So no row hides a miss: with its whole outlay *)
(* paid a model has no yearly amount below zero, its costs being among the *)
(* benefits (CostsLowerTheNpv).                                            *)
(***************************************************************************)
Sees(model, key) ==
  IF key \in DOMAIN model.overrides THEN <<"its own", model.overrides[key]>> ELSE <<"of ledger", SetId(model)>>
Marked ==
  \A i, j \in DOMAIN made : \A k \in UNION {DOMAIN m.overrides : m \in ToSet(given.models)} \cup {"any other"} :
    /\ given.models[i].tells /\ given.models[j].tells
    /\ Sees(given.models[i], k) # Sees(given.models[j], k)
    => k \in DivergentKeys
Cheaper(i, j) ==
  /\ CashFlows(given.models[i]) = CashFlows(given.models[j])
  /\ InitialInvestment(given.models[i]) < InitialInvestment(given.models[j])
CheaperIsNoWorse ==
  \A i, j \in DOMAIN made : Cheaper(i, j) =>
    /\ made[i].npv > made[j].npv /\ made[i].subsidy <= made[j].subsidy
    /\ made[j].payback # Never => made[i].payback <= made[j].payback
SupportIsLeast ==
  \A i \in DOMAIN made :
    LET Left(s) == Subsidised(InitialInvestment(given.models[i]), s)
        rows == CashFlows(given.models[i])
    IN  /\ NpvOf(Left(made[i].subsidy), rows) >= 0
        /\ \A s \in 0 .. made[i].subsidy - 1 : NpvOf(Left(s), rows) < 0
        /\ made[i].subsidy = 0 <=> made[i].npv >= 0
ComparesLikeWithLike == at = "shown" => Marked /\ CheaperIsNoWorse /\ SupportIsLeast

(***************************************************************************)
(* What is spent to run a model lowers its net present value: operating    *)
(* costs are taken from the benefits before they are discounted            *)
(* (net_operating_flows, core/casegrid/operating_lines.py:238-249).        *)
(***************************************************************************)
CostsLowerTheNpv ==
  at = "shown" =>
    \A i \in DOMAIN made :
      made[i].npv <= NpvOf(InitialInvestment(given.models[i]), <<BenefitRow(given.models[i])>>)

-----------------------------------------------------------------------------
(***************************************************************************)
(* What a project is compared with otherwise (core/cba/baseline.py): the   *)
(* arrangement a user names and what is declared for a pool are read and   *)
(* refused, and the rows of the baseline are taken from those of the       *)
(* project, tag by tag and year by year.  given is the arrangement, the    *)
(* declaration and both lists of rows, at is "given", "named", "refused",  *)
(* "compared" or "shown", and made the rows of the difference.             *)
(***************************************************************************)
(***************************************************************************)
(* The arrangement, the resources of the site being kept unless it says    *)
(* something else, and what a pool needs: a declaration of two fields.     *)
(***************************************************************************)
Treatment == [none |-> "none", maintain |-> "cancel_out", pool |-> "forfeit"]
ResolveArrangement(value) == IF value = None THEN "maintain" ELSE value
ArrangementKnown(value) == value = None \/ value \in DOMAIN Treatment

Prerequisites == {"transferred", "separated"}
MeteringReadable(value) ==
  value # None =>
    /\ value.shape = "mapping"
    /\ DOMAIN value.fields \subseteq Prerequisites
    /\ \A f \in DOMAIN value.fields : value.fields[f] \in {"true", "false"}
\* What is not written has not been done.
Missing(value) ==
  IF value = None THEN Prerequisites
  ELSE {f \in Prerequisites : f \notin DOMAIN value.fields \/ value.fields[f] # "true"}
BranchHolds ==
  Treatment[ResolveArrangement(given.arrangement)] = "forfeit" => Missing(given.metering) = {}
Accepted ==
  ArrangementKnown(given.arrangement) /\ MeteringReadable(given.metering) /\ BranchHolds

(***************************************************************************)
(* The difference.  A row is known by its tag, or without one by its       *)
(* label; of two rows with one tag the later counts.                       *)
(***************************************************************************)
KeyOf(row) == IF row.tag # "" THEN row.tag ELSE row.label
KeysOf(rows) == {KeyOf(rows[i]) : i \in DOMAIN rows}
LastOf(rows, key) ==
  IF key \in KeysOf(rows) THEN rows[SelectLastInSeq(rows, LAMBDA r : KeyOf(r) = key)].amounts
  ELSE [y \in {} |-> 0]
AmountIn(amounts, y) == IF y \in DOMAIN amounts THEN amounts[y] ELSE 0

Difference(without, with) == [y \in DOMAIN without \cup DOMAIN with |-> AmountIn(with, y) - AmountIn(without, y)]
NotNil(amounts) == [y \in {x \in DOMAIN amounts : amounts[x] # 0} |-> amounts[y]]
IncrementFor(key) ==
  [tag |-> key, amounts |-> NotNil(Difference(LastOf(given.baseline, key), LastOf(given.new, key)))]
ComputeIncremental ==
  {r \in {IncrementFor(k) : k \in KeysOf(given.baseline) \cup KeysOf(given.new)} : DOMAIN r.amounts # {}}

Aggregate(rows) ==
  MapThenSumSet(LAMBDA e : rows[e[1]].amounts[e[2]],
                {e \in (DOMAIN rows) \X (UNION {DOMAIN rows[i].amounts : i \in DOMAIN rows}) :
                   e[2] \in DOMAIN rows[e[1]].amounts})
IncrementalTotal == Aggregate(given.new) - Aggregate(given.baseline)

\* assert_baseline_displayed: a difference alone is not a comparison.
Displayed == Aggregate(given.baseline) # 0 \/ given.baseline # <<>>

-----------------------------------------------------------------------------
BaselineInit == given \in BaselineCases /\ at = "given" /\ made = {}

RefuseArrangement ==
  /\ at = "given"
  /\ ~Accepted
  /\ at' = "refused" /\ UNCHANGED <<given, made>>
Name ==
  /\ at = "given"
  /\ Accepted
  /\ at' = "named" /\ UNCHANGED <<given, made>>
CompareRows == at = "named" /\ made' = ComputeIncremental /\ at' = "compared" /\ UNCHANGED given
Display ==
  /\ at = "compared"
  /\ at' = IF Displayed THEN "shown" ELSE "refused"
  /\ UNCHANGED <<given, made>>

BaselineNext == RefuseArrangement \/ Name \/ CompareRows \/ Display

-----------------------------------------------------------------------------
(***************************************************************************)
(* The difference is all of the difference: where no tag occurs twice in a *)
(* list its rows come to the total that is stated beside them and, in      *)
(* every year, lead from the baseline to the project; a row that is        *)
(* missing changes nothing.  A pool is compared only when both of its      *)
(* prerequisites are declared (compute_incremental, incremental_total,     *)
(* resolve_pool_metering, get_baseline_branch).                            *)
(***************************************************************************)
OfEach(rows) == \A i, j \in DOMAIN rows : KeyOf(rows[i]) = KeyOf(rows[j]) => i = j
InYear(rows, y) == MapThenSumSet(LAMBDA i : AmountIn(rows[i].amounts, y), DOMAIN rows)
DifferenceIsWhole ==
  /\ at \in {"compared", "shown"} /\ OfEach(given.baseline) /\ OfEach(given.new) =>
       /\ MapThenSumSet(LAMBDA r : Aggregate(<<r>>), made) = IncrementalTotal
       /\ \A y \in UNION {DOMAIN r.amounts : r \in made} \cup {1, 2} :
            InYear(given.baseline, y) + MapThenSumSet(LAMBDA r : AmountIn(r.amounts, y), made) = InYear(given.new, y)
  /\ at = "shown" /\ ResolveArrangement(given.arrangement) = "pool" =>
       given.metering # None /\ \A f \in Prerequisites : given.metering.fields[f] = "true"

-----------------------------------------------------------------------------
(***************************************************************************)
(* Where the loss of a project comes from (core/report/shortfall.py): its  *)
(* net present value is split into what is spent at the start, what the    *)
(* operation brings in and what replacements cost, the second and third    *)
(* are split again into the rows they are made of, and two sentences name  *)
(* what weighs most.  A split that misses the net present value is not     *)
(* printed.                                                                *)
(***************************************************************************)
PresentValue(rows) == Valued(given.rate)!PV(rows)
Negated(rows) == [i \in DOMAIN rows |-> [y \in DOMAIN rows[i] |-> -rows[i][y]]]
Size(n) == IF n < 0 THEN -n ELSE n
Largest(items) == SortSeq(items, LAMBDA a, b : Size(a.amount) > Size(b.amount))

\* What the case was computed with: every row, with its sign.
Conclusion ==
  PresentValue(given.benefit \o Negated(given.operating) \o Negated(given.lifecycle)) - given.outlay

\* What CashflowSplit still holds: rows may be missing from it.
Kept(group) == IF given.lost = group THEN Tail(given[group]) ELSE given[group]

RowsAsParts(rows) ==
  Largest([i \in DOMAIN rows |-> [label |-> i, amount |-> -PresentValue(<<rows[i]>>)]])
Initial == [key |-> "initial", amount |-> -given.outlay, parts |-> <<>>]
Operating ==
  [key |-> "operating",
   amount |-> PresentValue(Kept("benefit")) - PresentValue(Kept("operating")),
   parts |-> <<[label |-> 0, amount |-> PresentValue(Kept("benefit"))]>> \o RowsAsParts(Kept("operating"))]
Lifecycle ==
  [key |-> "lifecycle", amount |-> -PresentValue(Kept("lifecycle")), parts |-> RowsAsParts(Kept("lifecycle"))]

AmountsOf(items) == [i \in DOMAIN items |-> items[i].amount]
TotalOf(items) == Added(AmountsOf(items))
Items == Largest(<<Initial, Operating, Lifecycle>>)

\* What weighs most among what is lost, the first of several; None is 0.
Adverse(items) == SelectSeq(items, LAMBDA x : x.amount < 0)
Worst(items) ==
  LET lost == Adverse(items)
  IN  IF lost = <<>> THEN 0
      ELSE SelectInSeq(items, LAMBDA x : x.amount = Min(ToSet(AmountsOf(lost))))
Find(items, key) == items[SelectInSeq(items, LAMBDA x : x.key = key)]

-----------------------------------------------------------------------------
ShortfallInit == given \in Accounts /\ at = "given" /\ made = <<>>

Split == at = "given" /\ made' = <<Items>> /\ at' = "split" /\ UNCHANGED given

\* EXACT_WON: amounts are whole won, so that none may be missing.
RefuseSplit == at = "split" /\ TotalOf(made[1]) # Conclusion /\ at' = "refused" /\ UNCHANGED <<given, made>>
ShowSplit ==
  /\ at = "split" /\ TotalOf(made[1]) = Conclusion
  /\ made' = <<made[1], Worst(made[1]), Worst(Find(made[1], "operating").parts)>>
  /\ at' = "printed" /\ UNCHANGED given

ShortfallNext == Split \/ RefuseSplit \/ ShowSplit

-----------------------------------------------------------------------------
(***************************************************************************)
(* The split loses nothing: as long as the report kept every row its items *)
(* come to the net present value to the won, though each row is rounded by *)
(* itself and with the other sign, and the rows printed under an item come *)
(* to the item; a split that lost a row worth something is not printed.    *)
(* The first sentence names an item than which none takes more, the second *)
(* one of the costs (build_shortfall, _rows_as_parts, _lead_line,          *)
(* _operating_line).                                                       *)
(***************************************************************************)
LostWorth ==
  IF given.lost = "nothing" THEN 0 ELSE PresentValue(<<Head(given[given.lost])>>)
SplitIsWhole ==
  /\ at = "refused" => LostWorth # 0
  /\ at = "printed" =>
       LET items == made[1]
           operating == Find(items, "operating")
       IN  /\ LostWorth = 0 /\ TotalOf(items) = Conclusion
           /\ \A i \in DOMAIN items :
                items[i].parts # <<>> => TotalOf(items[i].parts) = items[i].amount
           /\ Conclusion < 0 => made[2] # 0 /\ \A i \in DOMAIN items : items[made[2]].amount <= items[i].amount
           /\ made[3] # 0 /\ given.benefit # <<>> /\ PresentValue(given.benefit) >= 0 => operating.parts[made[3]].label # 0
=============================================================================
