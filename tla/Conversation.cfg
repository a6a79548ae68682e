\* Two runs and notes in one conversation, a restart and a write that fails.
CONSTANTS
  Repairs = {photos, music}
  Targets = {program, none}
  Nothing = Nothing
  MaxRuns = 2
  MaxNotices = 1
  MaxDeaths = 1
  MaxFailures = 1
SPECIFICATION ConversationSpec
\* A conversation may come to rest.
CHECK_DEADLOCK FALSE
INVARIANTS
  ToldOnce
  
PROPERTIES
  DeletedStaysDeleted
  ResultTold
