\* One of the three scopes of web names the account of the configuration and its
\* region, so that one place has two record names.
SPECIFICATION Spec
CONSTANTS
  NoScope = NoScope
  NoUid = NoUid
  NoRegion = NoRegion
  None = None
  Old = Old
  New = New
  ConfigRegion = "cn-hangzhou"
  ConfigAccount = "main"
  Credentials <- MCCredentials
  Apps <- MCApps
  Scopes <- MCScopes
  Templates <- MCTemplates
  Procs = {p1, p2}
  Ids = {s1, s2}
  Fake = DryRunFakeStack
  MaxEdits = 1
  MaxBoots = 2
  MaxFaults = 1
INVARIANTS TypeOK OutputsSaved OneStackPerPlace GoneFromHere LeaderWatches
PROPERTY RecordsKept
SYMMETRY Sym
CHECK_DEADLOCK FALSE
