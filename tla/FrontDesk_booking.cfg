SPECIFICATION Spec
CONSTANTS
  Reservations = {r1, r2}
  Units = {u1, u2}
  Workers = {w1, w2}
  Stays <- Touching
  Channels = {"web", "sync"}
  Repairable = {}
  LastDay = 1
  MaxBalance = 0
  MaxTasks = 0
  MaxCrashes = 0
SYMMETRY Symmetry
INVARIANTS
  DoubleBookingNeedsEdit
  
PROPERTIES
  ImplementsCalendar
