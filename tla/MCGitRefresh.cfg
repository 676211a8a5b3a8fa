CONSTANTS
  MaxChanges = 3
  MaxEdits = 1
  MaxActs = 2
SPECIFICATION FairRefreshSpec
INVARIANTS
  NothingMissed
PROPERTIES
  ListNeverOlder
  SettlesDown
CHECK_DEADLOCK FALSE
