---------------------------- MODULE ValueStreams ----------------------------
(***************************************************************************)
(* The value streams of a case (core/valuestream, core/contracts/          *)
(* valuestream.py): what each of them earns in a year, who pays for it,    *)
(* which pairs may not be counted together, and what a contract structure  *)
(* puts together for its settlement (settlement.py).                       *)
(*                                                                         *)
(* A stream is a record.  What it earns is a price per kWh of the window   *)
(* it looks at, or an amount its constructor knows.  Prices and energies   *)
(* are whole numbers, so that no amount of this module is ever rounded.    *)
(***************************************************************************)
EXTENDS Integers, Sequences, FiniteSets, SequencesExt

CONSTANT None  \* a structure, a quantity, a profile that is not given

Months == 12  \* PeakShaving.MONTHS, CapacityPayment.MONTHS

ContractStructures ==
  {"household_direct", "via_manager", "zone_direct_trade", "net_metering",
   "surplus_direct_sale", "aggregated_ppa", "vpp"}

ValueStream ==
  [tag : STRING, enabled : BOOLEAN, structure : ContractStructures \cup {None}, quantity : {None} \cup STRING,
   scales : BOOLEAN, price : Int, less : Int, fixed : Int]

\* A stream with nothing but a name; the constructors below fill in the rest.
Plain(tag) ==
  [tag |-> tag, enabled |-> TRUE, structure |-> None, quantity |-> None,
   scales |-> FALSE, price |-> 0, less |-> 0, fixed |-> 0]

\* What is earned per kWh fed into the grid on the representative day.
SurplusSale(price, structure, less) ==
  [Plain("SurplusSale") EXCEPT !.scales = TRUE, !.price = price, !.structure = structure, !.less = less]
REC(weight, price) == [Plain("REC") EXCEPT !.scales = TRUE, !.price = weight * price]
NWAs(price, enabled) ==
  [Plain("NWAs") EXCEPT !.scales = TRUE, !.price = price, !.enabled = enabled]

\* What is known for the whole year.
TouArbitrage(discharge, charge, peak, offpeak) ==
  [Plain("TouArbitrage") EXCEPT !.fixed = discharge * peak - charge * offpeak]
CapacityPayment(kw, price, enabled) ==
  [Plain("CP") EXCEPT !.fixed = kw * price * Months, !.enabled = enabled]
PeakShaving(kw, charge, enabled) ==
  [Plain("PeakShaving") EXCEPT !.fixed = kw * Months * charge, !.enabled = enabled]
SelfConsumption(baseline, new, structure) ==
  [Plain("SelfConsumption") EXCEPT !.fixed = baseline - new, !.structure = structure]
DirectTrade(tariff, price, volume, fee, structure) ==
  [Plain("DirectTrade") EXCEPT !.fixed = (tariff - price) * volume - fee, !.structure = structure]
AggregatedPPA(price, generation, structure) ==
  [Plain("AggregatedPPA") EXCEPT !.fixed = generation * price, !.structure = structure]
HeatCostSaving(fuel, electricity) == [Plain("HeatCostSaving") EXCEPT !.fixed = fuel - electricity]
DistributedBenefit(items) == [Plain("DistributedBenefit") EXCEPT !.fixed = FoldLeft(LAMBDA x, y : x + y, 0, items)]

\* SurplusSale._net_surplus_kwh refuses to sell less than nothing.
Sellable(s, exported) == s.enabled => exported >= s.less

\* annual_value of an enabled stream, for what the window feeds into the grid.
AnnualValue(s, exported) ==
  IF s.enabled THEN (exported - s.less) * s.price + s.fixed ELSE 0

(***************************************************************************)
(* Who pays: the class says so, and SurplusSale lets two structures decide *)
(* otherwise (payer_by_structure).                                         *)
(***************************************************************************)
ClassPayer(tag) ==
  CASE tag \in {"PeakShaving", "SelfConsumption", "HeatCostSaving"} -> "resident"
    [] tag = "NWAs" -> "grid_operator"
    [] tag = "CP" -> "power_market"
    [] tag = "DistributedBenefit" -> "society"
    [] OTHER -> "operator"

EffectivePayer(s) ==
  IF s.tag = "SurplusSale" /\ s.structure \in {"net_metering", "household_direct"}
  THEN "resident" ELSE ClassPayer(s.tag)

-----------------------------------------------------------------------------
(***************************************************************************)
(* The table of pairs that may not be counted together                     *)
(* (docs/exclusion-rules.yaml).                                            *)
(***************************************************************************)
Rule(a, b, type) == [a |-> a, b |-> b, type |-> type, profile |-> None, structure |-> None]

DefaultRules ==
  <<Rule("SelfConsumption", "SurplusSale", "A"),
    Rule("SurplusSale", "DirectTrade", "A"),
    Rule("DistributedBenefit", "SelfConsumption", "B"),
    [Rule("REC", "SurplusSale", "D") EXCEPT !.profile = "net_metering"],
    [Rule("REC", "DistributedBenefit", "D") EXCEPT !.structure = "net_metering"],
    Rule("AggregatedPPA", "SurplusSale", "A"),
    Rule("AggregatedPPA", "SelfConsumption", "A"),
    Rule("NWAs", "SelfConsumption", "E"),
    Rule("NWAs", "PeakShaving", "E"),
    Rule("CP", "SelfConsumption", "E"),
    Rule("CP", "PeakShaving", "E"),
    Rule("NWAs", "TouArbitrage", "E"),
    Rule("CP", "TouArbitrage", "E")>>

\* load_exclusion_rules_from_text: no empty table, no stream against itself,
\* no pair twice (in either order), no unknown type or structure.
Loadable(rules) ==
  /\ rules # <<>>
  /\ \A i \in DOMAIN rules :
       /\ rules[i].a # rules[i].b
       /\ \A j \in 1 .. i - 1 : {rules[i].a, rules[i].b} # {rules[j].a, rules[j].b}
       /\ rules[i].type \in {"A", "B", "C", "D", "E"}
       /\ rules[i].structure \in ContractStructures \cup {None}

\* rules_for_profile: no pair is in a table twice, so that the rules are a set.
RulesForProfile(rules, profile) == {r \in ToSet(rules) : r.profile \in {None, profile}}

Tagged(streams, tag) == {i \in DOMAIN streams : streams[i].enabled /\ streams[i].tag = tag}

\* A rule of a structure applies where some enabled stream has that structure.
StructureApplies(r, streams) ==
  \/ r.structure = None
  \/ \E i \in DOMAIN streams : streams[i].enabled /\ streams[i].structure = r.structure

\* Two streams may be about one quantity unless both say that they are not.
SameQuantityIsPossible(s, t) ==
  s.quantity = None \/ t.quantity = None \/ s.quantity = t.quantity

\* Variant: the first pair of streams decides for all of them.
HitsFirst(r, streams) ==
  /\ StructureApplies(r, streams)
  /\ Tagged(streams, r.a) # {} /\ Tagged(streams, r.b) # {}
  /\ r.type \in {"A", "E"} =>
       SameQuantityIsPossible(streams[CHOOSE i \in Tagged(streams, r.a) : TRUE],
                              streams[CHOOSE j \in Tagged(streams, r.b) : TRUE])

\* One rule of collect_exclusions.
Hits(r, streams) ==
  /\ StructureApplies(r, streams)
  /\ \E i \in Tagged(streams, r.a), j \in Tagged(streams, r.b) :
       r.type \in {"A", "E"} => SameQuantityIsPossible(streams[i], streams[j])

CollectExclusions(streams, rules) == {r \in rules : Hits(r, streams)}

\* assert_no_exclusions: types A and E are refused, the others are only shown.
NoExclusions(streams, rules) ==
  \A r \in CollectExclusions(streams, rules) : r.type \notin {"A", "E"}

\* Names of the pairs that are to be told apart in the report.
SetAside(streams, rules) ==
  UNION {{r.a, r.b} : r \in {x \in CollectExclusions(streams, rules) : x.type # "B"}}
IncrementOnly(streams, rules) ==
  {r.a : r \in {x \in CollectExclusions(streams, rules) : x.type = "B"}}

\* build_report: the column of the line of a stream.
ColumnOf(s, streams, rules, exported) ==
  CASE s.tag \in SetAside(streams, rules) -> "excluded"
    [] s.tag \in IncrementOnly(streams, rules) -> "increment_only"
    [] s.enabled /\ AnnualValue(s, exported) = 0 -> "unmonetized_zero"
    [] OTHER -> "accounted"

-----------------------------------------------------------------------------
(***************************************************************************)
(* Settlement: what a contract structure turns into streams and costs.     *)
(* `terms' holds the figures of the ledger and of the contract, and in     *)
(* `given' the names of those the user has stated.                         *)
(***************************************************************************)
Refused == [ok |-> FALSE, streams |-> <<>>, costs |-> <<>>]
Plan(streams, costs) == [ok |-> TRUE, streams |-> streams, costs |-> costs]

NetMetering(t) == Plan(<<SurplusSale(t.tariff, "net_metering", 0)>>, <<>>)
SurplusDirectSale(t) == Plan(<<SurplusSale(t.salePrice, "surplus_direct_sale", 0)>>, <<>>)

DistributedDirectTrade(t) ==
  IF {"trade_price", "trade_volume"} \subseteq t.given
  THEN Plan(<<DirectTrade(t.tariff, t.tradePrice, t.volume, t.feeRate * t.volume,
                          "zone_direct_trade")>>, <<>>)
  ELSE Refused

\* The generation is the model's own, see WithModelGeneration.
AggregatedPPAPlan(t) ==
  Plan(<<AggregatedPPA(t.tariff * t.ratio, t.generation, "aggregated_ppa")>>, <<>>)

HouseholdDirectContract(t) ==
  IF "contract_price" \in t.given
  THEN Plan(<<SurplusSale(t.contractPrice, "household_direct", 0)>>, <<>>) ELSE Refused

\* The two bills come from the tariff engine, over the same meters; the fee of
\* the managing body is a share of the new bill and a cost, not a deduction.
SingleContractViaManager(t) ==
  IF {"engine", "meters", "billing_date"} \subseteq t.given /\ t.sameMeters
  THEN Plan(<<SelfConsumption(t.baselineBill, t.newBill, "via_manager")>>,
            <<[tag |-> "ManagerEntityFee", won |-> (t.newBill * t.managerPct) \div 100]>>)
  ELSE Refused

Assembled(structure, t) ==
  CASE structure = "net_metering" -> NetMetering(t)
    [] structure = "surplus_direct_sale" -> SurplusDirectSale(t)
    [] structure = "zone_direct_trade" -> DistributedDirectTrade(t)
    [] structure = "via_manager" -> SingleContractViaManager(t)
    [] structure = "household_direct" -> HouseholdDirectContract(t)
    [] structure = "aggregated_ppa" -> AggregatedPPAPlan(t)
    [] OTHER -> Refused  \* vpp: not assembled yet

\* assemble
Assemble(structure, t) ==
  LET plan == Assembled(structure, t)
  IN  IF NoExclusions(plan.streams, ToSet(DefaultRules)) THEN plan ELSE Refused
=============================================================================
