SPECIFICATION FairSpec
CONSTANTS
  Buzzers = {b1, b2}
  None = None
  Hours = {12, 22}
  TIME_ZONE_OFFSET_HOUR = 2
  MaxResets = 2
  MaxPresses = 2
INVARIANT TypeOK
INVARIANT PageShowsRound
PROPERTY RoundOpens
CHECK_DEADLOCK FALSE
