\* One event loop: safety.
CONSTANTS
  r1 = r1
  r2 = r2
  r3 = r3
  photos = photos
  restart = restart
  relaunch = relaunch
  Repairs = {r1, r2, r3}
  NoRepair = NoRepair
  Services = {photos}
  ServiceOf <- ServiceOfRepair
  Keys = {restart, relaunch}
  KeyOf <- KeyOfRepair
  Sessions = {s1, s2}
  Loop = {s1, s2}
  AuthWindow = 2
  RateWindow = 0
  RateLimit = 1
  Interrupt = 2
  StepTime = 1
  Suspends = FALSE
  LastStart = 1
  MaxTime = 5
  MaxDeaths = 1
SPECIFICATION Safe
SYMMETRY SessionSymmetry
INVARIANTS
  TypeOK
  OneAtATime
  ExecutedOnce
  
  WorkIsVisible
  LiveIsNotInterrupted
  RateKept
  OneOpenPerKey
PROPERTIES
  FinalStaysFinal
  StagesKept
