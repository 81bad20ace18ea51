\* Two sessions, the id of one has two parts; three writing calls.
SPECIFICATION Spec
CONSTANTS
  Ids <- MCIds
  Users <- MCUsers
  Times <- MCTimes
  Values <- MCValues
  MaxCalls = 3
PROPERTY ImplementsArchive
\* The number of calls is bounded.
CHECK_DEADLOCK FALSE
