\* The program's own components and its update, what a repair does, and a
\* revision of a managed network.
CONSTANTS
  db = db
  cache = cache
  web = web
  Containers = {db, cache, web}
  Nameless = Nameless
  Groups <- GroupsDef
  RepairKinds = {"containers", "service", "agent", "program", "stuck"}
  ReadySeconds = 1
  StopSeconds = 2
  VerifySeconds = 2
  StartingSeconds = 4
  MaxJumps = 1
  Jump = 2
  MaxUnread = 1
  MaxStrays = 1
  gateway = gateway
  local = local
  Web = Web
  Helper = Helper
  Cli = Cli
  Person = Person
  Operators = {Helper, Cli, Person}
  Components = {gateway, local}
  Order <- OrderDef
  ByPid = {gateway}
  v0 = v0
  v1 = v1
  v2 = v2
  Versions = {v0, v1, v2}
  Home = v0
  Broken = {v1}
  Page = local
  NoFile = NoFile
  Gone = Gone
  NoVersion = NoVersion
  Nobody = Nobody
  Leftover = Leftover
  NoRecord = NoRecord
  Limits <- LimitsDef
  a = a
  b = b
  Lifecycles = {a, b}
  Grants = {1, 2}
  Nothing = Nothing
  Trouble <- TroubleDef
SYMMETRY Alike
SPECIFICATION MCSpec
\* Commands, updates and repairs end, and nothing else has to happen.
CHECK_DEADLOCK FALSE
INVARIANTS
  MachineTypeOK
  
  OneUpdater
  PointerRunnable
  
  LayersRight
  NothingLeft
  Patient
  VerifiedIsApplied
PROPERTIES
  
  RecordTells
  DependencyFirst
  NoReplay
  RevisionKept
