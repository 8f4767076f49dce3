SPECIFICATION Economics
CONSTANTS
  Calculations = {"solver", "lifecycle", "cashflow", "day", "case", "influences", "benefits", "cars", "years", "heat", "tariffs", "regulation", "commune", "ledger", "series", "files", "grids", "shapes", "models", "shortfall", "baselines", "levels", "composer", "bounds"}
  Full = 20
  Tenth = 2
  Precision = 1
  Slack = 0
  Problems <- AllProblems
  Resources <- AllResources
  Horizons <- SomeHorizons
  Investments <- SomeInvestments
  BenefitRows <- SomeBenefitRows
  CostRows <- SomeCostRows
  Rates <- SomeRates
  DayCases <- SomeCases
  DayWindows <- SomeWindows
  DayLength = 6
  Loss = 2
  Whole = 2
  Runs <- SomeRuns
  DaysPerYear = 2
  Escalation <- SomeEscalation
  Fine = 3060
  None = None
  Reports <- SomeReports
  Samples = 5
  Tables <- SomeTables
  Settings <- SomeSettings
  DirectKeys = {"period", "rec"}
  BackedKeys = {"capex"}
  HorizonKey = "period"
  Profiles <- SomeProfiles
  Communities <- SomeCommunities
  RuleDays = {0, 2, 4, 6, 7}
  Communes <- SomeCommunes
  DeclarationLists <- SomeDemands
  Unbounded <- NoBounds
  Uploads <- SomeUploads
  DataSets = {"a", "b"}
  Sharers = {"one", "two"}
  MonthDays <- TwoMonths
  SeriesHours = 3
  SeriesTables <- SomeTablesWritten
  Writers = {"v", "w"}
  SeriesKinds = {"pv", "smp"}
  SeriesRows = {24}
  ShapeFiles <- SomeShapes
  Tenths = 10
  Grain = 24
  Composers = {"one", "two"}
  DemoModel <- SomeDemo
  KnownTags = {"PV", "ESS"}
  Additions <- SomeAdditions
  CopyNames = {"new", ""}
  Submissions <- SomeSubmissions
  Unbuildable <- NotBuilt
  MaxWrites = 4
INVARIANTS
  TypesOK AnswerMeets LeastSupport GoalsDecide
  EveryYearServed SalvageOfWhatWasBought
  IndicatorsAgree
  SharesFillOneBattery
  AttributionAddsUp EveryWonHasAPayer OmissionsAreListed
  OneThingMoves NothingCountedTwice BilledIsDispatched HeatIsAccountedFor
  BillsAddUp DemandsAreReal AllocatedWhole ChangesAreThoseUsed WorkIsKept GridMeansItsAxes TotalsAreKept ComparesLikeWithLike
PROPERTIES CalculationsEnd
CHECK_DEADLOCK FALSE
