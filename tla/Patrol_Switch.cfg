\* The owner turns the switch off while a round awaits its probes.
CONSTANTS
  photos = photos
  notes = notes
  Services = {photos}
  KindOf <- KindOfService
  Mine = {}
  Overlap = TRUE
  ConfirmRounds = 2
  RecoverRounds = 1
  Stable = 1
  StaleDown = 2
  AskCooldown = 3
  FixCooldown = 4
  DailyAsks = 1
  MaxTime = 6
  MaxWords = 2
  MaxRestarts = 0
SPECIFICATION Spec
\* The rounds stop at MaxTime, and with them everything else.
CHECK_DEADLOCK FALSE
INVARIANTS
  SwitchIsOwners
