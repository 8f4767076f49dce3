SPECIFICATION Economics
CONSTANTS
  Calculations = {"solver"}
  Full = 20
  Tenth = 2
  Precision = 3
  Slack = 0
  Problems <- PairProblems
  Resources <- Retiring
  Horizons <- SomeHorizons
  Investments <- SomeInvestments
  BenefitRows <- SomeBenefitRows
  CostRows <- SomeCostRows
  Rates <- SomeRates
  DayCases <- SomeCases
  DayWindows <- SomeWindows
  DayLength = 6
  Loss = 2
  Whole = 2
  Runs <- SomeRuns
  DaysPerYear = 2
  Escalation <- SomeEscalation
  Fine = 3060
  None = None
  Reports <- SomeReports
  Samples = 5
  Tables <- SomeTables
  Settings <- SomeSettings
  DirectKeys = {"period", "rec"}
  BackedKeys = {"capex"}
  HorizonKey = "period"
  Profiles <- SomeProfiles
  Communities <- SomeCommunities
  RuleDays = {0, 2, 4, 6, 7}
  Communes <- SomeCommunes
  DeclarationLists <- SomeDemands
  Unbounded <- NoBounds
  Uploads <- SomeUploads
  DataSets = {"a", "b"}
  Sharers = {"one", "two"}
  MonthDays <- TwoMonths
  SeriesHours = 3
  SeriesTables <- SomeTablesWritten
  Writers = {"v", "w"}
  SeriesKinds = {"pv", "smp"}
  SeriesRows = {24}
  ShapeFiles = {}
  Tenths = 10
  Grain = 1
  Composers = {"one", "two"}
  DemoModel <- SomeDemo
  KnownTags = {"PV", "ESS"}
  Additions <- SomeAdditions
  CopyNames = {"new", ""}
  Submissions <- SomeSubmissions
  Unbuildable <- NotBuilt
  MaxWrites = 4
INVARIANTS AllGoalsMet
CHECK_DEADLOCK FALSE
