SPECIFICATION Spec
CONSTANTS
  Users <- MCUsers
  Owner = "u1"
  Requests = {"r1", "r2"}
  MaxRequests = 5
  MaxPushes = 3
  MaxLost = 1
  Trades <- MCTrades
  ApiIds = {1, 5, 6}
  Files <- MCFiles
  Tokens = {"k"}
  GroupIds = {1, 2}
  Names = {"n1", "n2"}
  Stocks = {"x", "y"}
  ListFiles <- MCListFiles
  Rules = {"a"}
  Members <- MCMembers
  Runs = {1, 2}
  Dates = {1, 2}
  DailyLimit = 1
  MaxTogether = 2
  MaxEdits = 1
  Accounts = {"u", "v"}
  Calls = {"a", "b"}
  MaxSessions = 2
  MaxSent = 2
  MaxFaults = 1
  Streams = {"s1", "s2"}
  Owners = {"view", "list"}
  ListOwners = {"list"}
  MaxWants = 3
  MaxFailures = 2
  Screens = {1}
  Expressions <- MCExpressions
  Judged <- MCJudged
  Maps <- MCMaps
  Rows <- MCRows
  MaxScreened = 3
  Listed = {"p", "q"}
  Themes = {1, 2, 3}
  DayRows <- MCDayRows
  FirstMembers <- MCFirstMembers
  MaxMoves = 1
  MaxRankings = 2
  Days = {1, 2, 3, 4}
  DaysOfWeek = 2
  Bars <- MCBars
  Parameters <- MCParameters
  MaxCorrections = 1
  ActiveStocks = {"p", "q"}
  Sectors = {1, 2, 3}
  TypeOf <- MCTypeOf
  Mappings <- MCMappings
  Quotes <- MCQuotes
  MaxQuotes = 3
  MaxBroken = 1
  Readers = {"u", "v"}
  AiCalls = {"a"}
  Asked <- MCAsked
  PortfolioOf <- MCPortfolioOf
  KnownStocks = {"stock"}
  NamedGroups = {}
  MaxAnalyses = 2
  MaxMeanwhile = 2
INVARIANTS GuardedLedgerReplays NotifiedSparingly SessionsAgree ServedAsOwned
   StrengthRanks SeriesNeverLookAhead
  LiveRanksAreOfTheQuotes AnalysesAreOfOwnFacts
PROPERTIES AppliedIsStored  PushGetsThrough ImportedListsAreThere
  SuccessIsComplete KeptWhileValid
CHECK_DEADLOCK FALSE
