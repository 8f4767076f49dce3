---------------------------- MODULE CaseGridAxes ----------------------------
(***************************************************************************)
(* The case grid: variables with their levels, sets of variables that move *)
(* together, the cases they make, and what is read off the results of the  *)
(* cases: the cells of two axes, the cases that meet a target, the ranking *)
(* of the variables (src/core/casegrid/grid.py, models.py, analysis.py).   *)
(* A metric is the sum of what the levels of a case are worth, so that     *)
(* what one variable does to it is known without the grid.  And the levels *)
(* themselves, which come from a ledger.                                   *)
(***************************************************************************)
EXTENDS Integers, FiniteSetsExt, SequencesExt

CONSTANTS
  Grids,      \* questions: a grid, a metric, two axes, a slice, a target
  BaseLevel,  \* the level a variable off the axes is held at
  None,       \* not given
  LevelLedgers, \* items, overrides, what the case asks for, reference loads
  Backed,     \* variable -> [key, per] (_LEDGER_VARS)
  Fixed,      \* variable -> its levels (_MODELLING_VARS, _DESIGN_VARS)
  LoadVariable, CapacityVariable,  \* of the sizing, in Backed and in Fixed
  YearHours   \* HOURS_PER_YEAR times the capacity factor

VARIABLES
  given,  \* the question
  made,   \* the cases, their results, what is read off them
  at      \* what is done next

axisVars == <<given, made, at>>

-----------------------------------------------------------------------------
NamesOf(g) == {v.name : v \in Range(g.variables)}
Named(g, n) == CHOOSE v \in Range(g.variables) : v.name = n

\* What a constructor refuses: blank names, no levels, sets of fewer than two
\* variables or with one twice.
VariableFits(v) == v.name # "" /\ v.values # <<>> /\ v.target # ""
SetFits(s) == s.name # "" /\ Len(s.of) >= 2 /\ IsInjective(s.of)

\* A set names variables of the grid that have equally many levels, and a variable
\* is in at most one set.
SetsFit(g) ==
  /\ \A s \in Range(g.coupled) :
       /\ Range(s.of) \subseteq NamesOf(g)
       /\ Cardinality({Len(Named(g, n).values) : n \in Range(s.of)}) = 1
  /\ \A p, q \in DOMAIN g.coupled : p # q => Range(g.coupled[p].of) \cap Range(g.coupled[q].of) = {}

GridFits(g) ==
  /\ \A v \in Range(g.variables) : VariableFits(v)
  /\ \A s \in Range(g.coupled) : SetFits(s)
  /\ g.variables # <<>> /\ g.threshold >= 0 /\ g.seconds >= 0
  /\ Cardinality(NamesOf(g)) = Len(g.variables)
  /\ SetsFit(g)

-----------------------------------------------------------------------------
(***************************************************************************)
(* The cases: the product of the axes, the last of them fastest. A set of  *)
(* variables is one axis, where the first of its variables stands.         *)
(***************************************************************************)
SetWith(g, n) == LET s == SelectSeq(g.coupled, LAMBDA c : n \in Range(c.of)) IN IF s = <<>> THEN None ELSE Last(s)

StandsForAxis(g, p) ==
  LET SetAt(q) == SetWith(g, g.variables[q].name)
  IN  SetAt(p) # None => \A q \in 1 .. p - 1 : SetAt(q) # None => SetAt(q).name # SetAt(p).name

Single(v) == [j \in DOMAIN v.values |-> v.name :> v.values[j]]
AlignedComponent(g, s) ==
  [j \in DOMAIN Named(g, s.of[1]).values |-> [n \in Range(s.of) |-> Named(g, n).values[j]]]
Component(g, p) ==
  LET v == g.variables[p] IN IF SetWith(g, v.name) = None THEN Single(v) ELSE AlignedComponent(g, SetWith(g, v.name))

Components(g, filtered) ==
  IF filtered
  THEN LET axes == SelectSeq([p \in DOMAIN g.variables |-> p], LAMBDA p : StandsForAxis(g, p))
       IN  [q \in DOMAIN axes |-> Component(g, axes[q])]
  ELSE [p \in DOMAIN g.variables |-> Single(g.variables[p])]

CaseCount(g, filtered) == FoldLeft(LAMBDA n, c : n * Len(c), 1, Components(g, filtered))

Crossed(cases, c) ==
  [m \in 1 .. Len(cases) * Len(c) |-> c[((m - 1) % Len(c)) + 1] @@ cases[((m - 1) \div Len(c)) + 1]]
Generate(g, filtered) ==
  LET values == FoldLeft(Crossed, <<<<>>>>, Components(g, filtered))
  IN  [m \in DOMAIN values |-> [index |-> m - 1, values |-> values[m]]]

\* The first cases, all of them without a limit.
Preview(g, limit) ==
  IF limit = None THEN Generate(g, TRUE) ELSE SubSeq(Generate(g, TRUE), 1, limit)

(***************************************************************************)
(* The two grids that are offered, and what they say moves together: a set *)
(* of either, with the variables of both.                                  *)
(***************************************************************************)
Levels3 == <<"low", "base", "high">>
Equipment == <<"pv_unit_cost", "ess_unit_cost", "heat_pump_unit_cost", "construction_cost">>
Prices == <<"direct_trade_price", "smp_price">>
Preset(names, sets) ==
  [variables |-> [p \in DOMAIN names |-> [name |-> names[p], values |-> Levels3, target |-> "scalar"]],
   coupled |-> sets, threshold |-> 100, seconds |-> 1]
EquipmentBundle == [name |-> "equipment_cost_bundle", of |-> Equipment]
QuickPreset == Preset(Equipment \o <<"discount_rate", "tariff_escalation">>, <<EquipmentBundle>>)
FullPreset ==
  Preset(Equipment \o Prices \o <<"discount_rate", "tariff_escalation", "pv_capacity_factor", "ev_adoption_rate">>,
         <<EquipmentBundle, [name |-> "trade_price_bundle", of |-> Prices]>>)

MergeSet(merged, s) ==
  LET seen == IF s.name \in DOMAIN merged THEN merged[s.name] ELSE <<>>
  IN  (s.name :> seen \o SelectSeq(s.of, LAMBDA n : n \notin Range(seen))) @@ merged
CoupledVariableSets(grids) == FoldLeft(MergeSet, <<>>, FlattenSeq([p \in DOMAIN grids |-> grids[p].coupled]))

-----------------------------------------------------------------------------
(***************************************************************************)
(* What is read off the results, which come in any order.                  *)
(***************************************************************************)
Ordered(results) == SortSeq(results, LAMBDA r, s : r.index < s.index)
VariablesOf(results) == UNION {DOMAIN r.values : r \in Range(results)}
LevelsSeen(results, n) == {r.values[n] : r \in Range(results)}

CompareMetric(value, target, comparator) ==
  CASE comparator = ">=" -> value >= target [] comparator = ">" -> value > target
    [] comparator = "<=" -> value <= target [] comparator = "<" -> value < target
    [] comparator = "==" -> value = target

\* The variables off the axes are held at the slice of the caller; without one at
\* their only level, else at the base level, and one that has neither refuses.
OtherVariables(q, results) == VariablesOf(results) \ {q.x, q.y}
\* Variant: the cells of every case are kept (as they were before the slice).
ResolveSliceNever(q, results) == IF q.slice = None THEN <<>> ELSE q.slice
Only(q, results, n) == Cardinality(LevelsSeen(results, n)) = 1
ResolveSlice(q, results) ==
  LET other == OtherVariables(q, results)
  IN  CASE q.slice # None -> IF DOMAIN q.slice \subseteq other THEN q.slice ELSE None
        [] \A n \in other : Only(q, results, n) \/ BaseLevel \in LevelsSeen(results, n) ->
             [n \in other |-> IF Only(q, results, n) THEN CHOOSE l \in LevelsSeen(results, n) : TRUE ELSE BaseLevel]
        [] OTHER -> None
LevelIndex(q, n, l) ==
  LET levels == Named(q.grid, n).values
  IN  IF q.levels /\ l \in Range(levels) THEN SelectInSeq(levels, LAMBDA m : m = l) - 1 ELSE None

FeasibleRegion(q, results) ==
  LET slice == ResolveSlice(q, results)
      kept == SelectSeq(Ordered(results), LAMBDA r : \A n \in DOMAIN slice : r.values[n] = slice[n])
  IN  CASE results = <<>> -> <<>>
        [] results # <<>> /\ (slice = None \/ kept = <<>>) -> None
        [] OTHER ->
             [j \in DOMAIN kept |->
                LET r == kept[j]
                IN  [x |-> r.values[q.x], y |-> r.values[q.y], metric |-> r.metric,
                     achieved |-> CompareMetric(r.metric, q.target, q.comparator), index |-> r.index,
                     xIndex |-> LevelIndex(q, q.x, r.values[q.x]), yIndex |-> LevelIndex(q, q.y, r.values[q.y])]]

FilterResults(q, results, achieved) ==
  SelectSeq(Ordered(results), LAMBDA r : CompareMetric(r.metric, q.target, q.comparator) = achieved)

\* Averages are taken in units that every number of cases up to ten divides.
Unit == 2520
AverageAt(results, n, l) ==
  LET group == SelectSeq(results, LAMBDA r : r.values[n] = l)
  IN  (Unit * FoldLeft(LAMBDA sum, r : sum + r.metric, 0, group)) \div Len(group)
Influence(results, n) ==
  LET averages == {AverageAt(results, n, l) : l \in LevelsSeen(results, n)} IN Max(averages) - Min(averages)
TornadoRanking(results, alphabet) ==
  LET names == SelectSeq(alphabet, LAMBDA n : n \in VariablesOf(results))
      Influences == [j \in DOMAIN names |-> [place |-> j, name |-> names[j], influence |-> Influence(results, names[j])]]
  IN  SortSeq(Influences, LAMBDA a, b :
        a.influence > b.influence \/ (a.influence = b.influence /\ a.place < b.place))

-----------------------------------------------------------------------------
Init == given \in Grids /\ made = <<>> /\ at = "grid"

RefuseGrid ==
  /\ at = "grid" /\ ~GridFits(given.grid)
  /\ at' = "refused" /\ UNCHANGED <<given, made>>

MakeCases ==
  /\ at = "grid" /\ GridFits(given.grid)
  /\ made' = Generate(given.grid, TRUE) /\ at' = "cases" /\ UNCHANGED given

\* Every case is run but the ones that fail, and what it is worth is its metric.
RunCases ==
  /\ at = "cases"
  /\ LET ended == SelectSeq(made, LAMBDA c : c.index \notin given.failing)
         WorthOf(c) == SumFunction([n \in DOMAIN c.values |-> given.worth[n][c.values[n]]])
         results == [j \in DOMAIN ended |-> [index |-> ended[j].index, values |-> ended[j].values, metric |-> WorthOf(ended[j])]]
     IN  made' = IF given.reversed THEN Reverse(results) ELSE results
  /\ at' = "results" /\ UNCHANGED given

ReadOff ==
  /\ at = "results"
  /\ made' = [results |-> made, region |-> FeasibleRegion(given, made),
              met |-> FilterResults(given, made, TRUE), unmet |-> FilterResults(given, made, FALSE),
              ranking |-> TornadoRanking(made, given.alphabet)]
  /\ at' = "read" /\ UNCHANGED given

Next == RefuseGrid \/ MakeCases \/ RunCases \/ ReadOff

-----------------------------------------------------------------------------
(***************************************************************************)
(* What a grid means, without saying how it is made: a level of every      *)
(* variable, the same one for the variables of a set.                      *)
(***************************************************************************)
LevelChoices(g) ==
  {c \in [NamesOf(g) -> UNION {DOMAIN v.values : v \in Range(g.variables)}] :
     /\ \A v \in Range(g.variables) : c[v.name] \in DOMAIN v.values
     /\ \A s \in Range(g.coupled) : Cardinality({c[n] : n \in Range(s.of)}) = 1}
ValuesOf(g, c) == [n \in NamesOf(g) |-> Named(g, n).values[c[n]]]
Partners(g, n) == IF SetWith(g, n) = None THEN {n} ELSE Range(SetWith(g, n).of)
LevelsDiffer(g) == \A v \in Range(g.variables) : IsInjective(v.values)

\* The cases of a grid are its choices, each as often as the levels say it, counted
\* beforehand, and each also a case of the grid with nothing coupled; what is
\* previewed is what runs first (CaseGrid.generate, case_count, preview).
GridMeansItsAxes ==
  at = "cases" =>
    LET g == given.grid
        Times(values) == Cardinality({m \in DOMAIN made : made[m].values = values})
    IN  /\ Len(made) = CaseCount(g, TRUE) /\ \A m \in DOMAIN made : made[m].index = m - 1
        /\ \A values \in {ValuesOf(g, c) : c \in LevelChoices(g)} \cup {made[m].values : m \in DOMAIN made} :
              Times(values) = Cardinality({c \in LevelChoices(g) : ValuesOf(g, c) = values})
        /\ {made[m].values : m \in DOMAIN made} \subseteq {c.values : c \in Range(Generate(g, FALSE))}
        /\ IsPrefix(Preview(g, 2), made) /\ Preview(g, None) = made

\* Without a slice of the caller a region has one cell for a pair of levels, all of
\* them at the same levels of the other variables, and a cell for every pair that
\* the grid can hold there; a result either meets the target or does not; and a
\* variable has the influence that it and what moves with it have on the metric,
\* whatever the others are worth (feasible_region, filter_results, tornado_ranking).
ReadingsAgree ==
  at = "read" =>
    LET g == given.grid
        free == given.failing = {} /\ LevelsDiffer(g)
        region == made.region
        PairOf(c) == <<c.x, c.y>>
        CaseOf(c) == SelectSeq(made.results, LAMBDA r : r.index = c.index)[1]
        Coupled(n) == SetWith(g, n) # None
        Spread(n) ==
          LET Part(j) == SumFunction([p \in Partners(g, n) |-> given.worth[p][Named(g, p).values[j]]])
              parts == {Part(j) : j \in DOMAIN Named(g, n).values}
          IN  Max(parts) - Min(parts)
    IN  /\ (given.slice = None /\ region # None /\ LevelsDiffer(g)) =>
             /\ \A p, q \in DOMAIN region : PairOf(region[p]) = PairOf(region[q]) => p = q
             /\ \A p, q \in DOMAIN region : \A n \in NamesOf(g) \ {given.x, given.y} :
                   CaseOf(region[p]).values[n] = CaseOf(region[q]).values[n]
             /\ (free /\ ~Coupled(given.x) /\ ~Coupled(given.y)) =>
                   {PairOf(c) : c \in Range(region)} = Range(Named(g, given.x).values) \X Range(Named(g, given.y).values)
        /\ region # None => \A c \in Range(region) : c.achieved <=> \E r \in Range(made.met) : r.index = c.index
        /\ Range(made.met) \cup Range(made.unmet) = Range(made.results) /\ Range(made.met) \cap Range(made.unmet) = {}
        /\ free => \A t \in Range(made.ranking) : t.influence = Unit * Spread(t.name)
        /\ \A p, q \in DOMAIN made.ranking : p < q => made.ranking[p].influence >= made.ranking[q].influence

\* What the two offered grids say moves together is said once, with the variables
\* of both (coupled_variable_sets).
BundlesAreWhole ==
  LET bundles == CoupledVariableSets(<<QuickPreset, FullPreset>>)
  IN  /\ GridFits(QuickPreset) /\ GridFits(FullPreset)
      /\ CaseCount(QuickPreset, TRUE) = 27 /\ CaseCount(FullPreset, TRUE) = 729
      /\ \A g \in {QuickPreset, FullPreset} : \A s \in Range(g.coupled) :
            Range(s.of) \subseteq Range(bundles[s.name]) /\ IsInjective(bundles[s.name])

-----------------------------------------------------------------------------
(***************************************************************************)
(* The three levels of a case variable (core/casegrid/ledger_levels.py):   *)
(* read from the ledger in its unit, turned into the unit of the           *)
(* calculation, with the value a user laid over the ledger as base; the    *)
(* report turns them back into the unit of the ledger                      *)
(* (core/report/case_influences.py) and asks which capacity would supply   *)
(* each level of the load (core/report/sizing.py).                         *)
(*                                                                         *)
(* given is the ledger and the request, made the level map, then the       *)
(* points of the sizing.  A scale is a fraction 1 / per.  Loads are kWh of *)
(* a year, capacities kW; a capacity is compared by what it generates, not *)
(* by a quotient.                                                          *)
(***************************************************************************)
LevelNames == <<"low", "base", "high">>
Levels == ToSet(LevelNames)

\* _levels_of: all three or none.
Readable(key) == key \in DOMAIN given.items /\ given.items[key] # None /\ Levels \subseteq DOMAIN given.items[key]
\* What is laid over as something else than a number stands here as None.
NumberGiven(key) == key \in DOMAIN given.overrides => given.overrides[key] # None
MapBuilds == \A v \in DOMAIN Backed : Readable(Backed[v].key) /\ NumberGiven(Backed[v].key)

\* Amounts of the calculation are kept as num / per.
Scaled(n, per) == [num |-> n, per |-> per]
LevelsOf(key, per) == [l \in Levels |-> Scaled(given.items[key][l], per)]
WithOverriddenBase(levels, raw, per) == [levels EXCEPT !.base = Scaled(raw, per)]
LevelsFor(v) ==
  LET key == Backed[v].key
      swept == LevelsOf(key, Backed[v].per)
  IN  IF key \in DOMAIN given.overrides
      THEN WithOverriddenBase(swept, given.overrides[key], Backed[v].per)
      ELSE swept
BuildLevelMap ==
  [v \in DOMAIN Backed \cup DOMAIN Fixed |->
     IF v \in DOMAIN Backed THEN LevelsFor(v) ELSE [l \in Levels |-> Scaled(Fixed[v][l], 1)]]

\* _resolve: a case that does not name a level asks for the base.
Asked(v) == IF v \in DOMAIN given.asked THEN given.asked[v] ELSE "base"
CanResolve(v, levelMap) == v \in DOMAIN levelMap /\ Asked(v) \in DOMAIN levelMap[v]
Resolve(v, levelMap) == levelMap[v][Asked(v)]

\* A level in the unit of the ledger.
InLedgerUnit(v, level) == IF v \in DOMAIN Backed THEN (level.num * Backed[v].per) \div level.per ELSE level.num

(***************************************************************************)
(* The capacity that supplies a load; a load above what the highest        *)
(* capacity generates is out of the range that is searched, as is one      *)
(* below the lowest.                                                       *)
(***************************************************************************)
Generates(capacity) == capacity * YearHours
LoadOf(levelMap, l) == levelMap[LoadVariable][l].num
Loads(levelMap) == [i \in 1 .. 3 |-> LoadOf(levelMap, LevelNames[i])] \o given.references
SizingHolds(levelMap) ==
  /\ Fixed[CapacityVariable].low <= Fixed[CapacityVariable].high
  /\ \A i \in DOMAIN Loads(levelMap) : Loads(levelMap)[i] > 0
RangeNote(load) ==
  CASE load > Generates(Fixed[CapacityVariable].high) -> "above"
    [] load < Generates(Fixed[CapacityVariable].low) -> "below"
    [] OTHER -> "within"
Points(levelMap) ==
  [i \in DOMAIN Loads(levelMap) |-> [load |-> Loads(levelMap)[i], note |-> RangeNote(Loads(levelMap)[i])]]
\* _mismatch_lines: the base and the first reference.
Mismatch(points) == IF Len(points) > 3 THEN <<points[2].load, points[4].load>> ELSE <<>>

-----------------------------------------------------------------------------
LevelsInit == given \in LevelLedgers /\ at = "given" /\ made = <<>>

Build ==
  /\ at = "given" /\ MapBuilds
  /\ made' = BuildLevelMap /\ at' = "built" /\ UNCHANGED given
RefuseLedger == at = "given" /\ ~MapBuilds /\ at' = "refused" /\ UNCHANGED <<given, made>>
RefuseCase ==
  /\ at = "built"
  /\ (\E v \in DOMAIN given.asked : ~CanResolve(v, made)) \/ ~SizingHolds(made)
  /\ at' = "refused" /\ UNCHANGED <<given, made>>
ReportSizing ==
  /\ at = "built"
  /\ (\A v \in DOMAIN given.asked : CanResolve(v, made)) /\ SizingHolds(made)
  /\ made' = <<made, Points(made), Mismatch(Points(made))>>
  /\ at' = "reported" /\ UNCHANGED given

LevelsNext == Build \/ RefuseLedger \/ RefuseCase \/ ReportSizing

-----------------------------------------------------------------------------
(***************************************************************************)
(* The levels are those of the ledger: what the report prints of a level   *)
(* in the unit of the ledger is what stands there, or what was laid over   *)
(* it as base, for every variable and level, and the loads of the sizing   *)
(* are those of the levels (_levels_of, _with_overridden_base,             *)
(* build_level_map, ledger_unit_scales, build_self_sufficiency_sizing).    *)
(***************************************************************************)
Expected(v, l) ==
  LET key == Backed[v].key
  IN  IF l = "base" /\ key \in DOMAIN given.overrides THEN given.overrides[key] ELSE given.items[key][l]
LevelsAreOfTheLedger ==
  at = "reported" =>
    /\ \A v \in DOMAIN Backed : \A l \in Levels : InLedgerUnit(v, made[1][v][l]) = Expected(v, l)
    /\ \A i \in 1 .. 3 : made[2][i].load = Expected(LoadVariable, LevelNames[i])
    /\ \A i, j \in DOMAIN made[2] :
         made[2][i].load < made[2][j].load /\ made[2][i].note = "above" => made[2][j].note = "above"
=============================================================================
