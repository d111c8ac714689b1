SPECIFICATION FairSpec
CONSTANTS
  ThreadCounts = {1, 2, 3}
  Totals = {0, 2, 4}
  MaxTurns = 1
  Actions = {0, 2}
  Created = {TRUE}
CHECK_DEADLOCK FALSE
INVARIANTS
  CountsTrue
  NoLostWakeUp
  JoinsReturn
PROPERTIES
  Ends
