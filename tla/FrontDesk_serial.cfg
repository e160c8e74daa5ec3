SPECIFICATION Spec
CONSTANTS
  Reservations = {r1, r2}
  Units = {u1, u2}
  Workers = {w1}
  Stays <- Touching
  Channels = {"web"}
  Repairable = {u1, u2}
  LastDay = 2
  MaxBalance = 0
  MaxTasks = 1
  MaxCrashes = 1
SYMMETRY Symmetry
INVARIANTS
  TypeOK
  NoDoubleBooking
  OccupiedRoomsHaveGuests
  CleaningIsOnTheList
