---------------------------- MODULE MCCalculations ----------------------------
(***************************************************************************)
(* What the calculations of MCEconomics start from: resources and what     *)
(* they are dispatched in; tariffs, profiles and communities; ledgers,     *)
(* series and their files; case grids and shapes of days; comparisons,     *)
(* accounts and baselines; models and declarations of limits.              *)
(*                                                                         *)
(* Before that the calculations that the proof modules are about, each of  *)
(* them alone: the rules of a community, benefits and their limits, and    *)
(* what users put in: series, their files, and a model they compose.       *)
(***************************************************************************)
EXTENDS Integers, Sequences

CONSTANTS
  None,
  Profiles, Communities, RuleDays,  \* RegulationRules
  Communes,  \* CommonCosts
  Tables,  \* BenefitReport
  Settings, DirectKeys, BackedKeys, HorizonKey,  \* AssumptionLedger
  DeclarationLists, Unbounded,  \* ConstraintBounds
  Uploads, DataSets, Sharers, MonthDays, SeriesHours,  \* TimeSeriesData
  SeriesTables, Writers, SeriesKinds, SeriesRows,  \* SeriesFiles
  ShapeFiles, Tenths, Grain,  \* DayShapes
  Composers, DemoModel, KnownTags, Additions, CopyNames, Submissions, Unbuildable, MaxWrites  \* ModelComposer

VARIABLES
  running,            \* the calculation that is running
  given, made, mark,  \* its input, its results, how far it is
  held, shown         \* what several users work on, what one of them sees of it

calculationVars == <<running, given, made, mark, held, shown>>

Regulation == INSTANCE RegulationRules WITH at <- mark
Commune == INSTANCE CommonCosts WITH at <- mark
Lines == INSTANCE BenefitReport WITH report <- made
Bounds == INSTANCE ConstraintBounds WITH at <- mark
Ledgers == INSTANCE AssumptionLedger WITH
  Direct <- DirectKeys, Backed <- BackedKeys, at <- mark, provider <- held, printed <- shown
Series == INSTANCE TimeSeriesData WITH
  Ids <- DataSets, Users <- Sharers, Months <- MonthDays, DayHours <- SeriesHours, at <- mark, library <- held
Files == INSTANCE SeriesFiles WITH Kinds <- SeriesKinds, Resolutions <- SeriesRows, file <- held, reader <- shown
YearShapes == INSTANCE DayShapes WITH at <- mark
Composer == INSTANCE ModelComposer WITH model <- made, users <- held, history <- given

ASSUME ProfilesAssumption ==
  /\ \A p \in Profiles : Regulation!IsProfile(p[1]) /\ Regulation!IsProfile(p[2])
  /\ \A c \in Communities : Regulation!IsCommunity(c)
  /\ RuleDays \subseteq Nat
ASSUME CommunesAssumption == \A c \in Communes : Commune!IsCommune(c)
ASSUME TablesAssumption == \A t \in Tables : Lines!IsTable(t)
ASSUME SettingsAssumption ==
  HorizonKey \in DirectKeys /\ \A s \in Settings : Ledgers!IsLedgerFile(s.now) /\ Ledgers!IsLedgerFile(s.later)
ASSUME DemandsAssumption == None \notin Int /\ \A ds \in DeclarationLists : ds \in Seq(Bounds!Declarations)
ASSUME UploadsAssumption ==
  /\ MonthDays \in Seq(Nat \ {0}) /\ SeriesHours \in Nat /\ None \notin Int
  /\ \A u \in Uploads : Series!IsUpload(u)
ASSUME ShapesAssumption ==
  /\ Tenths \in Int /\ Grain \in Int /\ None \notin Int \cup Seq(Int)
  /\ \A f \in ShapeFiles : YearShapes!IsShapeFile(f)
ASSUME ComposerAssumption ==
  /\ Composer!IsComposition(DemoModel) /\ None \notin Seq(Composer!Instances)
  /\ Additions \subseteq [tag : STRING, name : STRING] /\ CopyNames \subseteq STRING
  /\ \A s \in Submissions : s \in Seq(Int \cup {None}) /\ Len(s) <= Len(DemoModel)

RegulationInit == running = "regulation" /\ Regulation!Init /\ held = <<>> /\ shown = <<>>
CommuneInit == running = "commune" /\ Commune!Init /\ held = <<>> /\ shown = <<>>
BenefitsInit == running = "benefits" /\ Lines!Init /\ held = <<>> /\ shown = <<>>
BoundsInit == running = "bounds" /\ Bounds!Init /\ held = <<>> /\ shown = <<>>
LedgerInit == running = "ledger" /\ Ledgers!Init
SeriesInit == running = "series" /\ Series!Init /\ shown = <<>>
FilesInit == running = "files" /\ Files!Init /\ mark = "idle"
ShapesInit == running = "shapes" /\ YearShapes!Init /\ held = <<>> /\ shown = <<>>
ComposerInit == running = "composer" /\ Composer!ComposerInit /\ mark = "idle" /\ shown = <<>>
CalculationsInit ==
  RegulationInit \/ CommuneInit \/ BenefitsInit \/ BoundsInit \/ LedgerInit
  \/ SeriesInit \/ FilesInit \/ ShapesInit \/ ComposerInit

ApplyDuty == running = "regulation" /\ Regulation!Next /\ UNCHANGED <<held, shown>>
ShareAssets == running = "commune" /\ Commune!Next /\ UNCHANGED <<held, shown>>
ListBenefits == running = "benefits" /\ Lines!Next /\ UNCHANGED <<held, shown>>
ComposeBounds == running = "bounds" /\ Bounds!Next /\ UNCHANGED <<held, shown>>
OverrideLedger == running = "ledger" /\ Ledgers!Next
UseSeries == running = "series" /\ Series!Next /\ UNCHANGED shown
StoreSeries == running = "files" /\ Files!Next /\ UNCHANGED mark
SpreadShapes == running = "shapes" /\ YearShapes!Next /\ UNCHANGED <<held, shown>>
ComposeModel == running = "composer" /\ Composer!ComposerNext /\ UNCHANGED <<mark, shown>>
CalculationsNext ==
  /\ \/ ApplyDuty \/ ShareAssets \/ ListBenefits \/ ComposeBounds \/ OverrideLedger
     \/ UseSeries \/ StoreSeries \/ SpreadShapes \/ ComposeModel
  /\ UNCHANGED running
CalculationsSpec == CalculationsInit /\ [][CalculationsNext]_calculationVars

\* What is demanded: list, preview and calculation see the same items, and what is
\* owed is owed for what is missing; a conflict between the demands of benefits is
\* reported where no value meets them all, and names those who cause it
\* (diff_profiles, assess_supply_duty, detect_conflicts).
DemandsAreReal ==
  /\ running = "regulation" => Regulation!DutyFollowsProfile
  /\ running = "bounds" => Bounds!ConflictsAreReal

\* Nothing of a shared cost is lost between community and households
\* (allocate_assets, household_proforma_rows).
AllocatedWhole == running = "commune" => Commune!AllocatedWhole

\* No benefit is counted twice (build_report, assert_no_exclusions).
NothingCountedTwice == running = "benefits" => Lines!NothingCountedTwice

\* What a report lists as changed is what changed its result (_overrides,
\* keys_read).
ChangesAreThoseUsed == running = "ledger" => Ledgers!ChangesAreThoseUsed

\* What users put in is kept: what was measured stays as it was and a data set in
\* use is there; what is read is what was written; adding, removing and copying
\* touch one resource, a form the places it has fields for - the resources it was
\* drawn for as long as the composition is as drawn - and an edit is lost only to
\* a request that was under way (validate_and_summarize, read_series,
\* TimeSeriesDatasetRegistry, ModelCompositionService, _submissions).
WorkIsKept ==
  /\ running = "series" => Series!SeriesAreKept
  /\ running = "files" => Files!ReadIsWritten
  /\ running = "composer" => Composer!ComposerKeepsEdits

\* A total spread over a year is kept, by step and by season (DailyShape).
TotalsAreKept == running = "shapes" => YearShapes!TotalsAreKept

-----------------------------------------------------------------------------
(***************************************************************************)
(* Days of six hours in half hours: stays within a day, over midnight and  *)
(* of the whole day; fleets too weak for their stay among them; whole days *)
(* and the beginning of one; a limit of the grid that is never, sometimes  *)
(* and always below the power of the fleet.                                *)
(***************************************************************************)
SomeFleets ==
  [mode : {"both ways", "window", "charge only"}, capacity : {16}, loss : {1, 2}, dod : {2, 4},
   arrival : {2, 6}, leave : {4, 6}, start : {4}, end : {1, 4}, discharge : {1, 3}, charge : {4, 8},
   daily : {9}, fades : BOOLEAN, life : {1}, retires : BOOLEAN]
SomeStays ==
  [year : {1, 2}, steps : {15}, limit : {None, [s \in 0 .. 14 |-> 5], [s \in 0 .. 14 |-> (s * 5) % 4]}]

(***************************************************************************)
(* Years of two days of four hours, each day a month; hours and half hours.*)
(* Among the resources are every way to declare one wrongly.               *)
(***************************************************************************)
PlantModes == <<"self", "tou", "backup", "hybrid">>
PlantWindows ==
  [self |-> [charge |-> {1, 2}, discharge |-> {3}],
   tou |-> [charge |-> {0}, discharge |-> {2, 3}],
   backup |-> [charge |-> {0, 1}, discharge |-> {3}]]

Sun(n) == [s \in 1 .. 8 * n |-> (((s - 1) \div n) % 4) * 8]
Photovoltaics ==
  [kind : {"PV"}, perHour : {1, 2}, power : {None, 8}, profile : {None, Sun(1), Sun(2), [Sun(1) EXCEPT ![3] = -8]},
   parts : {1}, fades : BOOLEAN, mode : {"self", "full export", "curtailment"}, ratio : {0, 1, 4},
   retires : BOOLEAN, life : {1, 3}, inverter : {2}]

NoWeights == [m \in {} |-> 0]
Batteries ==
  [kind : {"ESS"}, perHour : {1, 2}, window : {16}, health : {10, 8}, eol : {6, 8}, reserve : {0, 2},
   calendar : {2, 3}, cycleLife : {5, 8}, cycles : {2, 4}, loss : {2}, power : {16, 80}, source : {"grid", "surplus"},
   profile : {None, <<0, 24, 8, 5>>, <<0, 0, 0, 0>>},
   mode : {"self", "tou"}, weights : {NoWeights}, retires : BOOLEAN, inverter : {1, 99}]
Hybrids ==
  [kind : {"ESS"}, perHour : {1}, window : {16}, health : {10}, eol : {6}, reserve : {2, 4},
   calendar : {3}, cycleLife : {5}, cycles : {2}, loss : {2}, power : {80}, source : {"grid"},
   profile : {None}, mode : {"hybrid", "backup"},
   weights : {NoWeights} \cup [{"self", "tou"} -> 0 .. 2] \cup [{"tou", "backup"} -> -1 .. 3],
   retires : {FALSE}, inverter : {99}]

Shapes(n) == {None, [s \in 1 .. 8 * n |-> s % 2], [s \in 1 .. 8 * n |-> IF s <= 4 * n THEN 1 ELSE 0]}
Loads ==
  UNION {[kind : {"Load"}, perHour : {n}, steps : {None, [s \in 1 .. 8 * n |-> s % 3]},
          monthly : {None, <<16, 0>>, <<16, 48>>, <<16>>, <<16, -16>>}, shape : Shapes(n), grows : BOOLEAN] :
         n \in {1, 2}}
SomePlants == Photovoltaics \cup Batteries \cup Hybrids \cup Loads

SomeYears ==
  [year : 1 .. 3, steps : {8}, perHour : {1}, limit : {None, [s \in 1 .. 8 |-> 16], [s \in 1 .. 8 |-> s * 4]}]
    \cup [year : 1 .. 3, steps : {16}, perHour : {2}, limit : {None, [s \in 1 .. 16 |-> 12]}]
    \cup [year : {1}, steps : {3, 17}, perHour : {1, 2}, limit : {None, [s \in 1 .. 3 |-> 80]}]

(***************************************************************************)
(* Two days of four hours: a pump strong enough, with a heater, and too    *)
(* weak; nights of one, two and no hours; prices with ties; the same load  *)
(* as that of the site and another one.                                    *)
(***************************************************************************)
Heating(n) == [s \in 1 .. 8 * n |-> (s % 4) * 24]
HeatPumps ==
  UNION {[mode : {"follow", "night", "price"}, rated : {24, 288}, aux : {0, 48}, perHour : {n},
    curve : {<<<<7, 4>>, <<-7, 2>>>>, <<<<0, 3>>>>}, profile : {None, Heating(n)}, annual : {96 * n},
    night : {{0, 3}, {3}, {}}, prices : {None, [s \in 1 .. 8 * n |-> IF s < 5 THEN s % 2 ELSE s]}, cheapest : {1, 2},
    temperature : {0}, fades : {TRUE}, life : {2}, pumpLife : {None, 1}, retires : BOOLEAN] : n \in {1, 2}}
WrongPumps ==
  LET right == CHOOSE p \in HeatPumps : p.perHour = 1
  IN  {[right EXCEPT !.rated = 0], [right EXCEPT !.cheapest = 0], [right EXCEPT !.curve = <<>>],
       [right EXCEPT !.curve = <<<<0, 2>>, <<0, 3>>>>], [right EXCEPT !.curve = <<<<0, 0>>>>],
       [right EXCEPT !.profile = <<24>>]}
SomePumps ==
  {p \in HeatPumps : /\ p.mode # "night" => p.night = {3}
                     /\ p.mode # "price" => p.cheapest = 1 /\ p.prices = None
                     /\ p.retires \/ p.pumpLife = None
                     /\ (p.perHour = 1 \/ (p.aux = 0 /\ Len(p.curve) = 2))}
    \cup WrongPumps
SomeHeatLoads ==
  [steps : {Heating(1)}, hdd : {None}, intensity : {None}, weights : {None}, grows : BOOLEAN]
    \cup [steps : {Heating(2)}, hdd : {None}, intensity : {None}, weights : {None}, grows : {FALSE}]
    \cup [steps : {None}, hdd : {4}, intensity : {24}, weights : {None, <<3, 1>>, <<0, 0>>}, grows : BOOLEAN]
    \cup [steps : {None}, hdd : {4}, intensity : {None}, weights : {None}, grows : {FALSE}]
    \cup [steps : {Heating(1)}, hdd : {4}, intensity : {24}, weights : {None}, grows : {FALSE}]
SomeWinters ==
  [year : {1, 2}, steps : {8}, perHour : {1}, ambient : {None, [s \in 1 .. 8 |-> (s % 3) * 7 - 7]}]
    \cup [year : {1}, steps : {6, 16}, perHour : {1, 2}, ambient : {None}]

-----------------------------------------------------------------------------
(***************************************************************************)
(* Tables with periods that meet, leave gaps, overlap, are open, and end   *)
(* before they begin; blocks that rise, fall, and end; missing rates;      *)
(* periods of the day that wrap around midnight and that leave hours out.  *)
(***************************************************************************)
Spans ==
  {<<s, t>> : s, t \in {[from |-> None, to |-> 3], [from |-> 2, to |-> 5], [from |-> 4, to |-> 6],
                        [from |-> 7, to |-> None], [from |-> 6, to |-> 3], [from |-> None, to |-> None]}}
Block(u, r, b) == [upper |-> u, rate |-> r, basic |-> b]
BlockTables ==
  {<<Block(3, 7, 10), Block(6, 13, 20), Block(None, 29, 40)>>, <<Block(None, 9, 10)>>,
   <<Block(6, 7, 10), Block(3, 13, 20), Block(None, 29, 40)>>,
   <<Block(3, 7, 10), Block(6, 13, 20)>>, <<Block(3, 7, 10), Block(None, None, 20)>>, <<>>}
Dwellings(span, b, full) ==
  [from |-> span.from, to |-> span.to, blocks |-> b, climate |-> IF full THEN 9 ELSE None,
   discount |-> IF full THEN 4 ELSE None, discountMax |-> 2, taxed |-> full]
Period(k, start, end, r) ==
  [key |-> k, months |-> {1, 2}, days |-> {0, 1}, start |-> start, end |-> end, rate |-> r]
PeriodTables ==
  {<<Period("night", 4, 2, 7), Period("day", 1, 4, 13)>>, <<Period("day", 1, 4, 13)>>,
   <<[Period("winter", 0, 6, 31) EXCEPT !.months = {1}], Period("night", 4, 2, 7), Period("day", 2, 4, 13)>>,
   <<Period("night", 4, 2, 7), Period("day", 2, 4, None)>>, <<>>}
Discounts ==
  {<<>>, <<[key |-> "weekend", months |-> {1, 2}, days |-> {1}, periods |-> {}, tenths |-> 5],
           [key |-> "nights", months |-> {2}, days |-> {0, 1}, periods |-> {"night"}, tenths |-> 3]>>}
Timed(span, p, d, full) == [from |-> span.from, to |-> span.to, periods |-> p, discounts |-> d, taxed |-> full]
Traded(span, r) == [from |-> span.from, to |-> span.to, rate |-> r, fee |-> 3, taxed |-> TRUE]

Always == [from |-> None, to |-> None]
CatalogOf(res, tou, direct) ==
  [k \in {"residential", "tou", "direct_trade"} |->
     CASE k = "residential" -> res [] k = "tou" -> tou [] OTHER -> direct]
AnyBlocks == <<Block(3, 7, 10), Block(None, 13, 20)>>
AnyPeriods == <<Period("night", 4, 2, 7), Period("day", 2, 4, 13)>>
SomeCatalogs ==
  {CatalogOf(<<Dwellings(s[1], AnyBlocks, TRUE), Dwellings(s[2], <<Block(None, 9, 10)>>, FALSE)>>,
             <<Timed(r, AnyPeriods, <<>>, TRUE)>>, <<>>) : s \in Spans, r \in {Always, [from |-> 4, to |-> 6]}}
  \cup {CatalogOf(<<Dwellings(Always, b, f)>>, <<Timed(Always, p, d, f)>>, <<Traded(Always, r)>>) :
          b \in BlockTables, f \in BOOLEAN, p \in PeriodTables, d \in Discounts, r \in {11, None}}
  \cup {[k \in {"tou", "direct_trade"} |-> <<>>], CatalogOf(<<>>, <<>>, <<>>)}

Home(n) == [kind |-> "residential", kwh |-> n, usages |-> <<>>]
Shop(u) == [kind |-> "tou", kwh |-> 0, usages |-> u]
Trade(n) == [kind |-> "direct_trade", kwh |-> n, usages |-> <<>>]
Use(m, d, h, n) == [time |-> [month |-> m, day |-> d, hour |-> h], kwh |-> n]
AllDay == <<Use(1, 0, 1, 3), Use(2, 1, 5, 4), Use(2, 0, 3, 2), Use(1, 1, 3, 1)>>
SomeScenarios ==
  {[before |-> <<Home(m)>>, after |-> <<Home(n)>>] : m \in {7, 9}, n \in {0, 2, 3, 5}}
  \cup {[before |-> <<Home(7), Shop(AllDay)>>, after |-> <<Home(4), Shop(SubSeq(AllDay, 1, 2))>>],
        [before |-> <<Shop(AllDay), Trade(6)>>, after |-> <<Shop(<<>>), Trade(1)>>],
        [before |-> <<Home(-1)>>, after |-> <<Trade(-1)>>],
        [before |-> <<Trade(5)>>, after |-> <<Trade(-1)>>],
        [before |-> <<Shop(<<Use(1, 0, 0, -1)>>)>>, after |-> <<Shop(<<Use(3, 0, 0, 1)>>)>>]}

(***************************************************************************)
(* Profiles of five items, with further entries of one key: valid later,   *)
(* over, from the same day, without an open end, of another value or the   *)
(* same, and with what makes a calculation fail.                           *)
(***************************************************************************)
Entry(k, v, from, to) == [key |-> k, value |-> v, from |-> from, to |-> to]
BaseProfile ==
  <<Entry("required", 70, None, None), Entry("exemption", 2, None, None), Entry("allowed", 7, 1, None),
    Entry("excess", 13, 1, None), Entry("sufficient", 40, None, 6)>>
MoreEntries ==
  {<<>>, <<Entry("required", 50, 3, None)>>, <<Entry("required", 50, 3, None), Entry("required", 90, 3, 4)>>,
   <<Entry("required", 90, 5, None), Entry("required", 50, 3, None)>>, <<Entry("excess", 0, 1, None)>>,
   <<Entry("excess", 26, 2, None), Entry("allowed", 7, 2, None)>>, <<Entry("exemption", 0, 0, None)>>,
   <<Entry("required", 101, 4, None)>>, <<Entry("allowed", None, 4, None)>>}
Extended == {BaseProfile \o m : m \in MoreEntries} \cup {m \o BaseProfile : m \in MoreEntries}
SomeProfiles == {<<BaseProfile, p>> : p \in Extended} \cup {<<p, SubSeq(BaseProfile, 2, 5) \o <<Entry("required", 70, 2, 5)>>>> : p \in Extended}
Community(procured, supplied, year) ==
  [consumed |-> 100, procured |-> procured, supplied |-> supplied, imported |-> 70, year |-> year]
SomeCommunities ==
  {Community(p, 30, y) : p \in {0, 50, 60, 80, 120}, y \in {1, 3}}
    \cup {Community(60, 60, 3), [Community(60, 30, 3) EXCEPT !.consumed = 0], Community(60, 30, 0)}

(***************************************************************************)
(* Shared assets that are split equally, by capacity and not at all, with  *)
(* totals below and above the number of households; households without     *)
(* capacity; names that are used twice.                                    *)
(***************************************************************************)
Shared(name, sw, hw, lives, rule) ==
  [name |-> name, software |-> sw, hardware |-> hw, om |-> 1, softwareLife |-> lives, hardwareLife |-> 3,
   softwareRatio |-> 1, hardwareRatio |-> 2, rises |-> lives = 2, rule |-> rule]
SomeCommunes ==
  {[assets |-> <<Shared("cems", sw, hw, l, r)>> \o more, households |-> h, capacities |-> c, own |-> o, horizon |-> 5] :
     sw \in {0, 5}, hw \in {1, 2, 100}, l \in {1, 2}, r \in {"equal", "capacity", "none"},
     more \in {<<>>, <<Shared("meters", 3, 4, 2, "none")>>},
     h \in 1 .. 4, c \in {<<0, 3, 1, 3>>, <<2, 2, 1, 0>>, <<1, 5, 5>>, <<0>>}, o \in {<<>>, <<[name |-> "pv", won |-> 7]>>}}
  \cup {[assets |-> a, households |-> h, capacities |-> None, own |-> <<>>, horizon |-> 2] :
           a \in {<<>>, <<Shared("", 1, 1, 1, "equal")>>, <<Shared("a", 1, 1, 0, "equal")>>,
                  <<Shared("a", -1, 1, 1, "equal")>>, <<Shared("a", 1, 1, 1, "equal"), Shared("a", 2, 1, 1, "none")>>,
                  <<Shared("a", 1, 1, 1, "capacity")>>, <<Shared("a", 1, 1, 1, "equal")>>},
           h \in {0, 2}}

-----------------------------------------------------------------------------
(***************************************************************************)
(* A ledger with the horizon, a price read directly, a price that is a     *)
(* case variable, an item nothing reads and one that is a text; ledgers    *)
(* that differ from it in one item, and ledgers that do not load.          *)
(***************************************************************************)
Amount(kind, n) == [kind |-> kind, n |-> n]
Assumed(key, value) ==
  [key |-> key, value |-> value, base |-> value.n, blocked |-> FALSE, unit |-> "plain", source |-> "cited"]
Blocked(item) == [item EXCEPT !.blocked = TRUE, !.base = None]
LedgerItems ==
  <<Assumed("period", Amount("int", 200)), Assumed("rec", Amount("float", 705)),
    Assumed("capex", Amount("int", 1500)), Assumed("idle", Amount("float", 33)),
    Assumed("scheme", Amount("text", 1))>>
Ledger(items) == [basis |-> "real", items |-> items]
Plain == Ledger(LedgerItems)
OtherLedgers ==
  {Ledger(LedgerItems \o <<Assumed("capex", Amount("int", 1700))>>),
   Ledger(LedgerItems \o <<Assumed("solar", Amount("int", 10))>>),
   Ledger([LedgerItems EXCEPT ![3].value = Amount("text", 2), ![3].base = None]),
   Ledger(LedgerItems \o <<Blocked(Assumed("capex", Amount("int", 1700)))>>),
   Ledger([LedgerItems EXCEPT ![4] = Blocked(@)]),
   Ledger([LedgerItems EXCEPT ![2] = Blocked(@)]),
   Ledger([LedgerItems EXCEPT ![1] = Assumed("period", Amount("float", 205))]),
   Ledger([LedgerItems EXCEPT ![5].unit = "basis"]),
   Ledger([LedgerItems EXCEPT ![5].source = "without terms"]),
   [Plain EXCEPT !.basis = None]}
Typed(as, n) == [as |-> as, n |-> n]
Cells == {Typed("empty", 0), Typed("int", 100), Typed("float", 125)}
Forms ==
  [mine : {[k \in {"period", "rec", "capex", "idle"} |-> CASE k = "period" -> a [] k = "rec" -> b [] k = "capex" -> c [] OTHER -> d] :
             a \in {Typed("empty", 0), Typed("int", 100), Typed("int", 0)}, b, c \in Cells, d \in Cells}
          \cup {[k \in {"scheme", "gone"} |-> IF k = "gone" THEN a ELSE Typed("words", 3)] : a \in {Typed("empty", 0), Typed("words", 4)}},
   reasons : {<<>>, [k \in {"rec", "idle"} |-> IF k = "rec" THEN "offer" ELSE "guess"]}]
Written(key, value, reason) == [field |-> "known", key |-> key, value |-> value, reason |-> reason]
WrittenRows ==
  {<<>>, <<Written("rec", Amount("int", 700), None), Written("capex", Amount("float", 15), "offer")>>,
   <<Written("rec", Amount("int", 700), None), Written("rec", Amount("int", 710), None)>>,
   <<Written("rec", Amount("boolean", 1), None)>>, <<Written("rec", Amount("text", 1), None)>>,
   <<Written("capex", Amount("list", 0), None)>>, <<Written("capex", None, None)>>,
   <<Written(None, Amount("int", 1), None)>>, <<Written("capex", Amount("int", 1), "no text")>>,
   <<[Written("capex", Amount("int", 1), None) EXCEPT !.field = "other"]>>,
   <<Written("period", Amount("float", 105), None)>>}
SomeSettings ==
  [now : {Plain}, later : {Plain} \cup OtherLedgers, form : Forms, written : {None}]
  \cup [now : {Plain}, later : {Plain} \cup OtherLedgers, form : {None},
        written : {None} \cup {[shape |-> "list", rows |-> r] : r \in WrittenRows} \cup {[shape |-> "mapping", rows |-> <<>>]}]

(***************************************************************************)
(* Uploads of five rows with gaps at both ends, in a row and everywhere,   *)
(* under every policy; uploads that are refused; years of two months.      *)
(***************************************************************************)
GappyValues ==
  {v \in [1 .. 5 -> {0, 216, 864, None}] : \E j \in 1 .. 5 : v[j] = None}
CsvFile(values, policy, window, shared) ==
  [kind |-> "csv", mime |-> "csv", size |-> 1, lines |-> 6, limits |-> [size |-> 2, lines |-> 6],
   columns |-> "timestamp, value", values |-> values, rows |-> 5, policy |-> policy, window |-> window, shared |-> shared]
AnyFile == CsvFile(<<216, None, None, 864, 216>>, "interpolate", None, FALSE)
Estimated(months, weights) == [kind |-> "monthly", months |-> months, weights |-> weights, shared |-> FALSE]
SomeUploads ==
  {CsvFile(v, "interpolate", None, FALSE) : v \in GappyValues}
  \cup {CsvFile(v, "prior_month_mean", w, FALSE) : v \in GappyValues, w \in {0, 2, 3}}
  \cup {CsvFile(v, p, None, FALSE) : v \in {<<0, 216, 0, 0, 0>>, <<0, None, 0, 0, 0>>}, p \in {"error", "other"}}
  \cup {[AnyFile EXCEPT !.shared = TRUE], [AnyFile EXCEPT !.mime = "html"], [AnyFile EXCEPT !.size = 3],
        [AnyFile EXCEPT !.lines = 7], [AnyFile EXCEPT !.columns = "value"], [AnyFile EXCEPT !.rows = 4]}
  \cup {Estimated(m, w) : m \in {<<60, 120>>, <<0, 60>>, <<60>>}, w \in {<<2, 3, 5>>, <<10, 0, 0>>, <<2, 3>>, <<3, 3, 3>>}}
TwoMonths == <<1, 2>>
SomeTablesWritten == {[kind |-> "pv", rows |-> 24], [kind |-> "smp", rows |-> 24], [kind |-> "pv", rows |-> 23], [kind |-> "gas", rows |-> 24]}

-----------------------------------------------------------------------------
(***************************************************************************)
(* Grids of up to four variables, alone and in sets, with and without a    *)
(* base level, with a level that occurs twice, and grids that are refused; *)
(* the axes of a region are the first variable and another one.            *)
(***************************************************************************)
Axis(name, values) == [name |-> name, values |-> values, target |-> "scalar"]
Three == <<"low", "base", "high">>
Together(name, of) == [name |-> name, of |-> of]
GridOf(variables, sets) == [variables |-> variables, coupled |-> sets, threshold |-> 100, seconds |-> 1]
Axes4 == <<Axis("a", Three), Axis("b", <<"base", "high">>), Axis("c", Three), Axis("d", <<"base">>)>>
GoodGrids ==
  {GridOf(Axes4, s) : s \in {<<>>, <<Together("s", <<"a", "c">>)>>, <<Together("s", <<"c", "a">>)>>}}
  \cup {GridOf(<<Axis("a", Three), Axis("b", Three), Axis("c", Three)>>, s) :
          s \in {<<Together("s", <<"b", "c">>)>>, <<Together("s", <<"c", "a", "b">>)>>}}
  \cup {GridOf(<<Axis("a", <<"low", "high">>), Axis("b", <<"base", "base">>), Axis("c", <<"low", "high">>), Axis("d", <<"one", "two">>)>>,
               <<Together("s", <<"d", "b">>), Together("t", <<"a", "c">>)>>)}
RefusedGrids ==
  {GridOf(<<>>, <<>>), GridOf(<<Axis("a", Three), Axis("a", Three)>>, <<>>), GridOf(<<Axis("a", <<>>)>>, <<>>),
   GridOf(<<Axis("", Three)>>, <<>>), [GridOf(Axes4, <<>>) EXCEPT !.threshold = -1]}
  \cup {GridOf(Axes4, <<s>>) :
          s \in {Together("s", <<"a">>), Together("s", <<"a", "a">>), Together("", <<"a", "c">>),
                 Together("s", <<"a", "e">>), Together("s", <<"a", "b">>)}}
  \cup {GridOf(Axes4, <<Together("s", <<"a", "c">>), Together("t", <<"c", "d">>)>>)}
WorthOf ==
  [n \in {"a", "b", "c", "d"} |->
     CASE n = "a" -> [low |-> 0, base |-> 3, high |-> 1] [] n = "b" -> [low |-> 5, base |-> 0, high |-> 4]
       [] n = "c" -> [low |-> 2, base |-> 2, high |-> 9] [] OTHER -> [base |-> 7, one |-> 0, two |-> 6]]
SomeGrids ==
  [grid : GoodGrids, worth : {WorthOf}, alphabet : {<<"a", "b", "c", "d">>}, failing : {{}, {0, 3}}, reversed : BOOLEAN,
   x : {"a"}, y : {"b", "c"}, slice : {None, [c \in {"c"} |-> "low"], [c \in {"c"} |-> "gone"], [c \in {"z"} |-> "low"]},
   target : {7}, comparator : {">=", "<"}, levels : BOOLEAN]
  \cup [grid : RefusedGrids, worth : {WorthOf}, alphabet : {<<>>}, failing : {{}}, reversed : {FALSE},
        x : {"a"}, y : {"b"}, slice : {None}, target : {0}, comparator : {"=="}, levels : {FALSE}]

(***************************************************************************)
(* A year of six days of three steps: weights all year round, two seasons  *)
(* of two and four days, one season with days, and shapes that are refused *)
(* or do not fit together or the year.                                     *)
(***************************************************************************)
SeasonOf(name, days, tenths, weights) == [name |-> name, days |-> days, share |-> tenths, weights |-> weights]
AllYear(weights) == [seasons |-> None, weights |-> weights]
Seasons(s) == [seasons |-> s, weights |-> None]
WeightsSome == {<<1, 2, 1>>, <<0, 3, 1>>, <<0, 0, 2>>}
GoodShapes ==
  {AllYear(w) : w \in WeightsSome}
  \cup {Seasons(<<SeasonOf("summer", 2, t, v), SeasonOf("winter", 4, 10 - t, w)>>) : t \in {0, 3, 8}, v, w \in WeightsSome}
  \cup {Seasons(<<SeasonOf("all", d, 10, w)>>) : d \in {None, 6, 5}, w \in WeightsSome}
BadShapes ==
  {None, [seasons |-> None, weights |-> None], [Seasons(<<>>) EXCEPT !.weights = <<1, 1, 1>>], Seasons(<<>>),
   AllYear(<<>>), AllYear(<<0, 0, 0>>), AllYear(<<2, -1, 1>>), AllYear(<<1, 1>>),
   Seasons(<<SeasonOf("summer", 2, 5, <<1, 1, 1>>), SeasonOf("winter", None, 5, <<1, 1, 1>>)>>),
   Seasons(<<SeasonOf("summer", 2, 5, <<1, 1, 1>>), SeasonOf("winter", 0, 5, <<1, 1, 1>>)>>),
   Seasons(<<SeasonOf("summer", 2, 5, <<1, 1>>), SeasonOf("winter", 4, 5, <<1, 1, 1>>)>>),
   Seasons(<<SeasonOf("summer", 2, 12, <<1, 1, 1>>), SeasonOf("winter", 4, -2, <<1, 1, 1>>)>>),
   Seasons(<<SeasonOf("summer", 2, 5, <<1, 1, 1>>), SeasonOf("winter", 4, 4, <<1, 1, 1>>)>>)}
SomeShapes ==
  [load : GoodShapes, generation : GoodShapes, total : {60}, days : {6}]
  \cup [load : GoodShapes, generation : BadShapes, total : {60}, days : {6}]

-----------------------------------------------------------------------------
(***************************************************************************)
(* Models of one or two resources with cheap and dear ones, of one ledger  *)
(* or of two versions, with overrides that a provider tells or keeps; some *)
(* pay back, some never do.                                                *)
(***************************************************************************)
Machine(capex, om, reducible) == [capex |-> capex, om |-> om, reducible |-> reducible]
ModelOf(version, overrides, tells, sold, resources) ==
  [set |-> "ledger", version |-> version, overrides |-> overrides, tells |-> tells, sold |-> sold, resources |-> resources]
NoOverride == [k \in {} |-> 0]
SomeModels ==
  {ModelOf("1", o, TRUE, s, <<Machine(c, m, 0)>>) :
     o \in {NoOverride, [k \in {"capex"} |-> 4]}, s \in {0, 5}, c \in {9, 40}, m \in {0, 3}}
  \cup {ModelOf("1", [k \in {"rec"} |-> 2], t, 2, <<Machine(11, 1, 1), Machine(5, 1, 0)>>) : t \in BOOLEAN}
  \cup {ModelOf("2", NoOverride, TRUE, 2, <<Machine(11, 1, 1)>>)}
SomeComparisons ==
  [models : {<<>>} \cup {<<l, m>> : l, m \in SomeModels}, horizon : {3}, rate : {[num |-> 1, den |-> 4]}, sale : {1}, demand : {1}]

(***************************************************************************)
(* Accounts of three years with replacements and a salvage value, rates    *)
(* that leave halves to round, and a split that lost a row.                *)
(***************************************************************************)
Yearly(a, b, c) == [y \in 1 .. 3 |-> <<a, b, c>>[y]]
SomeAccounts ==
  [outlay : {0, 7, 30}, rate : {[num |-> 1, den |-> 1], [num |-> 0, den |-> 1], [num |-> 1, den |-> 3]},
   benefit : {<<Yearly(3, 5, 9)>>, <<Yearly(5, 5, 5), Yearly(-1, 0, 1)>>},
   operating : {<<Yearly(1, 1, 1)>>, <<Yearly(9, 7, 5), Yearly(1, 3, 0)>>},
   lifecycle : {<<[y \in {2} |-> 5]>>, <<[y \in {3} |-> -6], Yearly(0, 3, 0)>>, <<[y \in {2, 3} |-> 1]>>},
   lost : {"nothing", "benefit", "operating", "lifecycle"}]

(***************************************************************************)
(* Rows of two years with and without a tag, on one side or on both, twice *)
(* in a list, and every arrangement and declaration.                       *)
(***************************************************************************)
Tagged(tag, label, amounts) == [tag |-> tag, label |-> label, amounts |-> amounts]
Lists ==
  {<<>>, <<Tagged("bill", "x", [y \in {1, 2} |-> 5])>>, <<Tagged("", "bill", [y \in {1} |-> 3])>>,
   <<Tagged("sale", "x", [y \in {2} |-> 4]), Tagged("bill", "x", [y \in {1, 2} |-> 4 + y])>>,
   <<Tagged("bill", "x", [y \in {1} |-> 1]), Tagged("bill", "z", [y \in {2} |-> 2])>>,
   <<Tagged("nothing", "x", [y \in {} |-> 0])>>}
MeteringOf(fields) == [shape |-> "mapping", fields |-> fields]
Declarations ==
  {None, [shape |-> "text", fields |-> <<>>], MeteringOf([f \in {"other"} |-> "true"]),
   MeteringOf([f \in {"separated"} |-> "yes"])}
  \cup {MeteringOf([f \in s |-> b]) : s \in SUBSET {"transferred", "separated"}, b \in {"true", "false"}}
SomeBaselines ==
  [arrangement : {None, "maintain", "pool", "elsewhere"}, metering : Declarations,
   baseline : {<<>>, <<Tagged("bill", "x", [y \in {1, 2} |-> 5])>>}, new : {<<>>}]
  \cup [arrangement : {"none"}, metering : {None}, baseline : Lists, new : Lists]

(***************************************************************************)
(* A ledger with a value in percent and a load, an item with levels out of *)
(* order, an override beyond the levels, and ledgers that are refused.     *)
(***************************************************************************)
Of3(l, b, h) == [low |-> l, base |-> b, high |-> h]
SomeBacked == [load |-> [key |-> "load.annual", per |-> 1], trend |-> [key |-> "capex.trend", per |-> 100]]
SomeFixed == [discount |-> Of3(30, 45, 60), capacity |-> Of3(1, 3, 9)]
GoodItems == {[k \in {"load.annual", "capex.trend"} |-> IF k = "capex.trend" THEN t ELSE l] :
                t \in {Of3(-2, 0, 1), Of3(3, 3, 3)}, l \in {Of3(4, 8, 30), Of3(9, 2, 1)}}
BadItems == {[k \in {"load.annual"} |-> Of3(1, 2, 3)],
             [k \in {"load.annual", "capex.trend"} |-> IF k = "capex.trend" THEN None ELSE Of3(1, 2, 3)],
             [k \in {"load.annual", "capex.trend"} |-> IF k = "capex.trend" THEN [low |-> 1, base |-> 2] ELSE Of3(1, 2, 3)],
             [k \in {"load.annual", "capex.trend"} |-> Of3(0, 2, 3)]}
OverridesTried ==
  {NoOverride} \cup [{"capex.trend"} -> {0, 5}] \cup [{"load.annual", "capex.trend"} -> {7, 40}]
    \cup {[k \in {"load.annual"} |-> None], [k \in {"elsewhere"} |-> 1]}
SomeLevelLedgers ==
  [items : GoodItems \cup BadItems, overrides : OverridesTried,
   asked : {<<>>, [v \in {"trend", "capacity"} |-> "high"], [v \in {"load"} |-> "middle"], [v \in {"unheard"} |-> "base"]},
   references : {<<>>, <<12, 3>>}]

(***************************************************************************)
(* Two resources, one of them without a number it needs; forms that fill   *)
(* it, leave it empty or ask for what cannot be built; a name of its own,  *)
(* one in use, none, and a kind of resource nobody knows.                  *)
(***************************************************************************)
SomeDemo == <<[tag |-> "PV", name |-> "roof", size |-> 3], [tag |-> "ESS", name |-> "battery", size |-> None]>>
SomeAdditions == {[tag |-> "PV", name |-> "roof"], [tag |-> "ESS", name |-> "new"],
                  [tag |-> "PV", name |-> ""], [tag |-> "unheard", name |-> "new"]}
SomeSubmissions == {<<3, None>>, <<3, 1>>, <<-1, 1>>}

(***************************************************************************)
(* Up to three declarations for one target or two, over two steps, with    *)
(* bounds that are equal, that meet, that exclude each other and that are  *)
(* infinite on either side; and series of unequal length.                  *)
(***************************************************************************)
NoBounds == {-99, 99}
NotBuilt == {-1}

Demand(source, target, kind, values) == [source |-> source, target |-> target, kind |-> kind, values |-> values]
Lower == {Demand("a", "soc", "min", <<v, w>>) : v \in {-99, 1, 5}, w \in {5, 99}}
Upper == {Demand("b", "soc", "max", <<v, w>>) : v \in {-99, 3, 5}, w \in {4, 99}}
Third == {Demand(s, "soc", k, <<v, 5>>) : s \in {"a", "c"}, k \in {"min", "max"}, v \in {3, 5}}
           \cup {Demand("c", "import", "max", <<7>>), Demand("c", "soc", "min", <<7>>)}
SomeDemands == {<<>>} \cup {<<l, u, d>> : l \in Lower, u \in Upper, d \in Third}
                 \cup {<<d, u, l>> : l \in Lower, u \in Upper, d \in Third}
=============================================================================
