\* No event loop: every store operation interleaves, on a machine that may sleep.
CONSTANTS
  r1 = r1
  r2 = r2
  r3 = r3
  photos = photos
  restart = restart
  relaunch = relaunch
  Repairs = {r1}
  NoRepair = NoRepair
  Services = {photos}
  ServiceOf <- ServiceOfRepair
  Keys = {restart, relaunch}
  KeyOf <- KeyOfRepair
  Sessions = {s1, s2}
  Loop = {}
  AuthWindow = 2
  RateWindow = 4
  RateLimit = 2
  Interrupt = 2
  StepTime = 1
  Suspends = TRUE
  LastStart = 2
  MaxTime = 4
  MaxDeaths = 1
SPECIFICATION Safe
SYMMETRY SessionSymmetry
INVARIANTS
  OneRunPerApproval
  RunsOnlyApproved
