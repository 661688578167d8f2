CONSTANTS
  User = {u1, u2}
  Meter = {m1}
  Gateway = {g1}
  Point = {p1, p2}
  Source = {m1, g1, p1, p2}
  GatewayOf <- MCGatewayOf
  MessageId = {x}
  Values = {0, 2}
  UpperLimit = 1
  DailyLimit = 0
  UnitLimit = 0
  OfflineAfter = 0
  Day = 1
  ReportedTypes = {"over_limit", "offline"}
  MaxTime = 1
  MaxReadings = 2
  MaxAlarms = 1
  MaxRuns = 1
  RateLimit = 3
  RateWindow = 1
  LimitWindow = 0
  OfflineWindow = 0
  SilentAfter = 0
  MaxMessages = 2
  MaxItems = 1
  Person = {u1, u2}
  Kind = {"complaint", "review", "transport", "hazard", "accident", "permit", "check", "alarm", "equipment", "abnormal"}
  Case = {c1, c2}
  OneCase = c1
  Device = {d1}
  NoDevice = noDevice
  Technician = {u1, u2}
  MAX_TASKS_PER_GENERATION = 2
  MaxDate = 4
  MaxReports = 1
  MaxRepairs = 2
  Evaluator = {u1, u2}
  Dimensions = 4
  Hundred = 10
  GivenWeights <- MCGivenWeights
  MaxVersions = 2
SPECIFICATION MCSpec
SYMMETRY Users
INVARIANTS
  AlarmsCoverWhatWasSeen
  ProcessedMessagesHaveReadings
  StagesWerePassed
  WorkIsPlanned
  WeightsAddUp
CHECK_DEADLOCK FALSE
