\* Rounds that nothing disturbs.
CONSTANTS
  photos = photos
  notes = notes
  Services = {photos}
  KindOf <- KindOfService
  Mine = {}
  Overlap = FALSE
  ConfirmRounds = 2
  RecoverRounds = 1
  Stable = 1
  StaleDown = 2
  AskCooldown = 3
  FixCooldown = 3
  DailyAsks = 1
  MaxTime = 8
  MaxWords = 2
  MaxRestarts = 0
SPECIFICATION Spec
\* The rounds stop at MaxTime, and with them everything else.
CHECK_DEADLOCK FALSE
INVARIANTS
  TypeOK
  MeantIsKept
  RemovedIsGone
PROPERTIES
  OnlyAsAllowed
  
  PauseHolds
  ConfirmedByRounds
