\* Two services whose outages want the Agent at the same time, beside rounds
\* whose probes do not answer at once.
CONSTANTS
  photos = photos
  notes = notes
  Services = {photos, notes}
  KindOf <- KindOfService
  Mine = {}
  Overlap = TRUE
  ConfirmRounds = 2
  RecoverRounds = 1
  Stable = 0
  StaleDown = 1
  AskCooldown = 2
  FixCooldown = 2
  DailyAsks = 2
  MaxTime = 4
  MaxWords = 1
  MaxRestarts = 1
SPECIFICATION Spec
\* The rounds stop at MaxTime, and with them everything else.
CHECK_DEADLOCK FALSE
INVARIANTS
  OneInvestigation
