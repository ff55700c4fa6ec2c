SPECIFICATION Spec
SYMMETRY Symmetry
CONSTANTS
  a1 = a1 a2 = a2 e1 = e1 e2 = e2 c1 = c1 c2 = c2 b1 = b1 b2 = b2 s1 = s1 nothing = nothing
  Filters = {"rule"}
  Attacks = {"sqli", "xss"}
  Patches = {"patch"}
  DetectorOrder <- MCDetectorOrder
  Profiles <- MCProfiles
  MaxChanges = 3
  Clients = {a1, a2}
  Challenges = {c1, c2}
  Nothing = nothing
  Streams = {a1, a2}
  Buffers = {b1, b2}
  Kinds <- MCKinds
  Nobody = nothing
  Requests = {a1, a2}
  MaxVersions = 2
  Editors = {e1}
  Tokens = {s1}
  Visitors = {a1, a2}
  IdleTTL = 2
  AbsoluteTTL = 3
  MaxClock = 5
  MaxDBErrors = 1
  NoSession = nothing
  Handlers = {a1, a2}
  UserNames = {"alice", "bob"}
  Captchas = {c1}
  MaxAttempts = 2
  Operators = {a1, a2}
  Rules = {"seed", "custom", "broken"}
  Builtin = {"seed"}
  Tools = {"seed", "custom"}
  Broken = {"broken"}
  Policies = {"record", "block"}
  DefaultPolicy = "record"
  MaxRuleChanges = 2
  Null = nothing
  MaxRequests = 1
  MaxBlocks = 2
  MinutesPerHour = 2
  MaxMinute = 3
  MetricQueue = 1
  EventQueue = 1
  BatchSize = 2
  MaxFlushErrors = 1
  Domains = {"d1"}
  Jobs = {e1}
  MaxPairs = 2
  MaxTroubles = 1
  Admins = {a1, a2}
  Sections = {"security", "log"}
  Validated = {"security"}
  Contents = {"default", "changed", "unset"}
  RuleRows = {"rule"}
  MaxSnapshots = 1
  LogChannel = 1
  LogBatch = 2
  MaxWriters = 1
  Rotations <- MCRotations
  MaxEntries = 3
  MaxLogFaults = 1
  LineKinds <- MCLineKinds
  Bounds <- MCBounds
  PageSizes = {1, 2}
  MaxLines = 3
  Readers = {a1, a2}
  QueryKeys = {"stats", "series"}
  MaxCached = 1
  CacheTTL = 1
  MaxFlights = 2
  Unloaded = nothing
  Callers = {a1, a2}
  AdminName = "admin"
  Others = {"bob"}
  Passwords = {"old", "new"}
  FirstPasswords = {"old", ""}
  MaxPasswordChanges = 2
  MaxUserChanges = 1
  MaxAccountErrors = 1
  Plain = {e1}
  Hijacked = {e2}
  MaxReloads = 1
  DomainIds = {b1, b2}
  DomainForms <- MCDomainForms
  Wildcard = "*"
  DefaultName = "default"
  Hosts = {"www"}
  CertIds = {c1, c2}
  Pairs = {1, 2}
  CertCacheTTL = 1
  MaxConfigChanges = 3
  Blank = nothing
  Evaluations = {1, 2, 3}
  AlertForms <- MCAlertForms
  ChannelForms <- MCChannelForms
  CounterLife = 2
  CooldownLife = 2
  MaxAlertTime = 3
  Never = nothing
  Listed = {"path"}
  MaxHits = 2
  LastTick = 4
  TicksPerDay = 2
  RetentionDays = 1
  WindowDays = 1
  TopEntries = 1
  PageLength = 1
  MaxReportErrors = 1
  Bits = 3
  Written <- MCWritten
  MaxListed = 3
INVARIANTS
  RuleInForceIsEnforced BackendGetsWholeBody
  AnswerExpiresOnUse
  BodiesAreNotMixed
  ThresholdsAreCurrent
  LoggedOutStaysOut SessionsEndInTime RestartKeepsSessions
  GuessesAreBounded
  RestartKeepsRules NoOverrideIsLost
  HistoryAddsUp
  AcknowledgedIsSaved
  FilesKeepOrder OneLoadAtATime ListAndStatsAgree RestartKeepsPasswords RequestsAreLogged
  ProxiesFollowDomains AlertsAreMeasured DetailsAreCounted MergeIsRight
PROPERTIES
  StartUpHeals
