SPECIFICATION Spec
CONSTANTS
  Reservations = {r1, r2}
  Units = {u1}
  Workers = {w1, w2}
  Stays <- Touching
  Channels = {"web"}
  Repairable = {}
  LastDay = 1
  MaxBalance = 1
  MaxTasks = 1
  MaxCrashes = 0
SYMMETRY Symmetry
INVARIANTS
  NoDoubleBooking
