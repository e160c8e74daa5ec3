------------------------------ MODULE Inventory ------------------------------
(***************************************************************************)
(* The units of one property.  A unit's status is what housekeeping and    *)
(* the front desk show; it is not what blocks a booking.                   *)
(***************************************************************************)
CONSTANT Units          \* the units of one property
VARIABLE unitStatus     \* unit -> Unit.status

(* BLOCKED and SOLD are left out: no query or handler of the front desk    *)
(* treats them differently from AVAIL.                                     *)
UnitStatus == {"AVAIL", "OCC", "CLEAN", "MAINT"}
=============================================================================
