---------------------------- MODULE Reservations ----------------------------
(***************************************************************************)
(* The tables reservations_reservation and reservations_reservationroom    *)
(* and the queries the front desk decides by.                              *)
(*                                                                         *)
(* A reservation covers a half-open range of dates and holds units through *)
(* its ReservationRoom rows, from the moment it is booked.  Nothing in the *)
(* database forbids two rows for the same unit and overlapping dates: the  *)
(* query Conflicting, run by the code at the right moment, is all there is.*)
(***************************************************************************)
EXTENDS Integers, Inventory

CONSTANTS Reservations,   \* primary keys the database may hand out
          Stays           \* date ranges a clerk may enter: [in |-> _, out |-> _]

(* The CheckConstraint reservation_checkout_after_checkin. *)
ASSUME StaysAssumption ==
  /\ Stays \subseteq [in : Int, out : Int]
  /\ \A s \in Stays : s.in < s.out

VARIABLES status,       \* reservation -> its status, "none" while the row does not exist
          stay,         \* reservation -> [check_in, check_out)
          rooms         \* reservation -> the units its ReservationRoom rows name

(* PENDING is left out: no flow of the code creates or sets it. *)
ReservationStatus == {"CONF", "CHIN", "CHOUT", "CANC", "NOSH"}

(* Statuses whose rooms are taken, for the conflict query. *)
Blocking == {"CONF", "CHIN"}

Exists(r) == status[r] # "none"

(* Half-open ranges: the day one guest leaves is free for the next. *)
Overlap(s, t) == s.in < t.out /\ t.in < s.out

ConfirmedConflicts(s, rs) ==
  UNION {rooms[r] : r \in {q \in rs : status[q] = "CONF" /\ Overlap(stay[q], s)}}

(* Units that the reservations rs hold for some night of s. *)
Conflicting(s, rs) ==
  UNION {rooms[r] : r \in {q \in rs : status[q] \in Blocking /\ Overlap(stay[q], s)}}

(* Units a form offers for s: no conflict, except with the units own that  *)
(* the reservation being edited already has, and not out of service.  The  *)
(* housekeeping status does not matter.                                    *)
AvailableUnits(s, own) ==
  {u \in Units : unitStatus[u] # "MAINT"} \ (Conflicting(s, Reservations) \ own)
=============================================================================
