SPECIFICATION Spec
CONSTANTS
  k1 = k1
  k2 = k2
  Keypaths <- MCKeypaths
  Values = {1, 2}
  Absent = Absent
  Initial = {Absent, 1}
  Edits = {e1}
  MaxChanges = 2
  MaxVisits = 2
CHECK_DEADLOCK FALSE
INVARIANT CacheFollows
PROPERTY SubscriptionsReleased
PROPERTY NoForeignDeletion
