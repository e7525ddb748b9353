SPECIFICATION MCSpec
CONSTANTS
  r1 = r1
  r2 = r2
  k1 = k1
  k2 = k2
  p1 = p1
  p2 = p2
  Null = Null
  None = None
  Nothing = Nothing
  NotRead = NotRead
  NoKey = NoKey
  NoKeyReplica = NoKeyReplica
  NoRow = NoRow
  Gone = Gone
  NoOwner = NoOwner
  NoFilter = "all"
  NoCursor = 0
  NoClient = "none"
  Keys = {k1, k2}
  KeyReplicas = {p1, p2}
  Verifications = {1}
  Revocations = {1}
  CacheTtl = 1
  CacheMax = 1
  Adapters = {1}
  Rounds = {1, 2}
  UnhealthyAfter = 2
  MaxFaults = 4
  Patchers = {1, 2}
  BudgetRows <- MCBudgetRows
  BudgetBodies <- MCBudgetBodies
  RuleRows <- MCRuleRows
  RuleBodies <- MCRuleBodies
  Streamed = {r1, r2}
  Scripts <- MCScripts
  OwnerOf <- MCOwnerOf
  Filters = {None, r1}
  MaxQueue = 2
  MaxBreaks = 1
  MaxChanges = 2
  MaxSubmits = 4
  Watched = {"summary", "catalog", "budgets", "budgetDecisions", "timeseries", "anomalies", "insights", "keys", "rules", "rule", "replay", "event", "health"}
  Records <- MCRecords
  BrowserFilters = {"all", "a"}
  PageSize = 1
  MaxLimit = 500
  MaxClicks = 3
  MaxRefusals = 1
  Observed <- MCObserved
  Late = {3}
  Queries <- MCQueries
  MaxWindow = 8
  BucketLength = 2
  Lookback = 2
  AnomalyConfig <- MCAnomalyConfig
  InsightConfig <- MCInsightConfig
  Catalog <- MCCatalog
  PricingTable <- MCPricingTable
  ReportBudgets <- MCReportBudgets
  DayLength = 10
  RecentLimit = 2
  XTicks = 6
  KindOf <- MCKindOf
  ModelFor <- MCModelFor
  AdapterPrices <- MCAdapterPrices
  FailFirst <- MCFailFirst
  AdapterCalls = {1, 2}
  Statuses = {404, 429, 503}
  Usages <- MCUsages
  InputEstimate = 100
  MaxArms = 1
  Routed <- MCRouted
  Proposals <- MCProposals
  RuleSets <- MCRuleSets
  FreshIds = {1, 3}
  RoutedModels <- MCRoutedModels
  RoutedEntries <- MCRoutedEntries
  BudgetTables <- MCBudgetTables
  RoutedSpend <- MCRoutedSpend
  RoutedNow = 9
  MaxMoves = 2
  Endings <- MCEndings
  Timings <- MCTimings
  PageKeys = {1, 2, 3}
  ListedFirst = {1}
  NoPageKey = 0
  MaxDialogs = 2
  RuleAtFirst <- MCRuleAtFirst
  FormValues <- MCFormValues
  OtherValues <- MCOtherValues
  Invalid = Invalid
  NoRule = NoRule
  MaxCalls = 2
  MaxOthers = 1
  MaxRows = 1
  MaxLosses = 1
  MaxUpheavals = 1
  NoAnswer = NoAnswer
  AlertTicks = {1, 2}
  AlertWindow = 2
  AlertRows = 2
  AlertThreshold = 950000
  MetricBudgets <- MCMetricBudgets
  Unread = Unread
  MaxClock = 3
  MaxSamples = 2
  MaxMetricSpend = 3
  MaxBoots = 1
  SmokeArguments <- MCSmokeArguments
  SmokeCatalog = {"groq"}
  MaxPolls = 2
  MaxGlitches = 2
  NotANumber = NotANumber
  NoProvider = NoProvider
  MaxFires = 3
  MaxMisses = 1
  NoScenario = NoScenario
INVARIANTS
  TypeOK
  ConfigIsAsAsked
  GraphShowsOneRequest
  PagesTellWhatIs
  PagesCoverOnce
  FiguresAgree
  AdaptersKeepContract
  RoutesForetell
  DecisionsAgree
PROPERTIES
  RevocationTakesEffect
  RecoveredProviderReturns
  StreamIsShown
CHECK_DEADLOCK FALSE
