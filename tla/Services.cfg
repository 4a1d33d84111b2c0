SPECIFICATION MCSpec
CONSTANTS
  Handlers = {h1, h2}
  None = None
  \* PaperTrading
  Codes = {"600036"}
  Currencies = {"CNY", "HKD"}
  Markets = {"CN", "HK"}
  CurrencyOf <- MCCurrencyOf
  NextDayMarkets = {"CN"}
  Prices = {2}
  Fee = 1
  InitialCash = 5
  MaxRequests = 3
  MaxQuantity = 1
  MaxDay = 1
  \* VerificationCode: one phone, whose interval is shorter than the minute, or the limit
  \* of the address would never be the one that refuses; the clock goes past all three times
  Targets = {"phone"}
  SendInterval = 1
  Expiry = 1
  Minute = 2
  MaxFailCount = 1
  IpLimit = 1
  MaxClock = 2
  MaxCodes = 3
  \* TradingGraph
  Selections <- MCSelections
  Rounds <- MCRounds
  RecursionLimit = 36
  \* ScheduledJobs: time goes past both ages, and between them a record is of neither
  Kinds = {"batches", "items"}
  MatchWindow = 0
  ZombieAge = 1
  MaxRecords = 2
  MaxNow = 2
  MaxRuns = 1
  MaxActs = 2
SYMMETRY MCSymmetry
CONSTRAINT MCOneDayOnceDisturbed
INVARIANTS
  AllTypeOK
  BooksBalance
  SoldWasSettled
  NoDebt
  LimitsHold
  OnlyTheNewestCounts
  NeverGivesUp
  ReportsComeFirst
  SidesAreHeardAlike
PROPERTIES
  FinishedIsFinal
CHECK_DEADLOCK FALSE
