SPECIFICATION FairSpec
CONSTANTS
  Reservations = {r1, r2}
  Units = {u1}
  Workers = {w1}
  Stays <- Touching
  Channels = {"web"}
  Repairable = {}
  LastDay = 2
  MaxBalance = 1
  MaxTasks = 0
  MaxCrashes = 1
PROPERTIES
  OverdueIsResolved
