\* The local web and the gateway process approve the same repair.
CONSTANTS
  r1 = r1
  r2 = r2
  r3 = r3
  photos = photos
  restart = restart
  relaunch = relaunch
  Repairs = {r1}
  NoRepair = NoRepair
  Services = {photos}
  ServiceOf <- ServiceOfRepair
  Keys = {restart, relaunch}
  KeyOf <- KeyOfRepair
  Sessions = {s1, s2}
  Loop = {}
  AuthWindow = 2
  RateWindow = 4
  RateLimit = 1
  Interrupt = 2
  StepTime = 1
  Suspends = FALSE
  LastStart = 1
  MaxTime = 2
  MaxDeaths = 0
SPECIFICATION Safe
INVARIANT ExecutedOnce
