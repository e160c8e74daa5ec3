------------------------------ MODULE FrontDesk ------------------------------
(***************************************************************************)
(* The front desk: reservations, folios and housekeeping composed, worked  *)
(* on by concurrent web and offline-sync requests and by the night audit.  *)
(*                                                                         *)
(* A request has two steps.  Fetch<Op> is what the view does outside its   *)
(* transaction: it loads the reservation (or task) and validates the form. *)
(* What it saw is kept in request[w].  <Op> is the body of the transaction:*)
(* it acts on the object as it was fetched, rereads only what the code     *)
(* rereads (the conflict query under the unit's lock, the folio balance,   *)
(* the ReservationRoom rows), and commits or changes nothing.  Between the *)
(* two, any other worker may commit.                                       *)
(***************************************************************************)
EXTENDS Folios, Housekeeping, FiniteSets

CONSTANTS Workers,      \* server processes, each with one request at a time
          Channels,     \* subset of {"web", "sync"}: where requests come from
          Repairable,   \* bound: the units that staff take out of service
          LastDay,      \* bound: today stays within 1 .. LastDay
          MaxTasks,     \* bound: no check-out starts for a unit with more tasks
          MaxCrashes    \* bound: times the night audit dies half-way

ASSUME FrontDeskAssumption ==
  /\ IsFiniteSet(Units) /\ Stays # {}
  /\ Repairable \subseteq Units
  /\ Channels \subseteq {"web", "sync"}
  /\ LastDay \in Nat \ {0}
  /\ MaxTasks \in Nat /\ MaxCrashes \in Nat

VARIABLES request,      \* worker -> the request it has fetched data for
          today,        \* the current date
          audit,        \* the night audit: running, its date, room charges still to post
          crashes,      \* how often the audit has died
          edited        \* history: reservations an edit form was ever saved for

desk  == <<status, stay, rooms, edited>>
cash  == <<folio, balance>>
house == <<unitStatus, tasks>>
night == <<today, audit, crashes>>
vars  == <<desk, cash, house, night, request>>

Idle == [kind |-> "idle"]

Request ==
  {Idle}
  \cup [kind : {"book"}, stay : Stays, unit : Units]
  \cup [kind : {"edit"}, res : Reservations, seen : {"CONF", "NOSH"},
        stay : Stays, unit : Units, newRate : BOOLEAN]
  \cup [kind : {"checkIn"}, res : Reservations, stay : Stays, unit : Units]
  \cup [kind : {"checkOut"}, res : Reservations, rows : SUBSET Units,
        occupied : SUBSET Units]
  \cup [kind : {"cancel"}, res : Reservations]
  \cup [kind : {"task"}, unit : Units, index : Nat, new : TaskStatus]

NoAudit == [running |-> FALSE, date |-> 0, bill |-> [r \in Reservations |-> 0]]

Init ==
  /\ status = [r \in Reservations |-> "none"]
  /\ stay = [r \in Reservations |-> CHOOSE s \in Stays : TRUE]
  /\ rooms = [r \in Reservations |-> {}]
  /\ edited = {}
  /\ folio = [r \in Reservations |-> "none"]
  /\ balance = [r \in Reservations |-> 0]
  /\ unitStatus = [u \in Units |-> "AVAIL"]
  /\ tasks = [u \in Units |-> <<>>]
  /\ request = [w \in Workers |-> Idle]
  /\ today = 1
  /\ audit = NoAudit
  /\ crashes = 0

Fetched(w, q) ==
  /\ request[w] = Idle
  /\ request' = [request EXCEPT ![w] = q]
  /\ UNCHANGED <<desk, cash, house, night>>

Answered(w) == request' = [request EXCEPT ![w] = Idle]

Refused(w) == Answered(w) /\ UNCHANGED <<desk, cash, house, night>>

-----------------------------------------------------------------------------
(* Booking.                                                                *)

FetchBook(w) ==
  \E s \in Stays : \E u \in AvailableUnits(s, {}) :
    Fetched(w, [kind |-> "book", stay |-> s, unit |-> u])

SaveBooking(w, r) ==
  LET q == request[w] IN
  /\ status[r] = "none"
  /\ status' = [status EXCEPT ![r] = "CONF"]
  /\ stay' = [stay EXCEPT ![r] = q.stay]
  /\ rooms' = [rooms EXCEPT ![r] = {q.unit}]
  /\ Answered(w)
  /\ UNCHANGED <<edited, cash, house, night>>

BookUnchecked(w) ==
  /\ request[w].kind = "book"
  /\ \E r \in Reservations : SaveBooking(w, r)

(* Under the unit's lock the conflict query runs again; a conflict deletes *)
(* the reservation just saved.  (Bound: so does running out of rows.)      *)
Book(w) ==
  /\ request[w].kind = "book"
  /\ LET taken == request[w].unit \in Conflicting(request[w].stay, Reservations) IN
     \/ ~taken /\ \E r \in Reservations : SaveBooking(w, r)
     \/ (taken \/ \A r \in Reservations : Exists(r)) /\ Refused(w)

-----------------------------------------------------------------------------
(* Editing.                                                                *)

(* The form accepts the unit if nobody else has it; nothing is locked.     *)
FetchEdit(w) ==
  \E r \in Reservations, s \in Stays, nr \in BOOLEAN :
    /\ status[r] \in {"CONF", "NOSH"}
    /\ \E u \in AvailableUnits(s, rooms[r]) \ Conflicting(s, Reservations \ {r}) :
         Fetched(w, [kind |-> "edit", res |-> r, seen |-> status[r],
                     stay |-> s, unit |-> u, newRate |-> nr])

(* The whole row is saved, with the status that was fetched.  An unchanged *)
(* room at an unchanged rate is kept without a check; otherwise the other  *)
(* rows are deleted and the new one is attached under the lock, and when   *)
(* that is refused what was saved before it is committed all the same.     *)
(* Saving a row whose status is NO_SHOW frees its occupied units.          *)
Edit(w) ==
  LET q       == request[w]
      r       == q.res
      held    == {q.unit} \cap rooms[r]
      keeps   == held # {} /\ ~q.newRate
      refused == q.unit \in Conflicting(q.stay, Reservations \ {r})
  IN
  /\ q.kind = "edit"
  /\ status' = [status EXCEPT ![r] = q.seen]
  /\ stay' = [stay EXCEPT ![r] = q.stay]
  /\ edited' = edited \cup {r}
  /\ rooms' = [rooms EXCEPT ![r] =
                 IF keeps THEN @ ELSE IF refused THEN held ELSE {q.unit}]
  /\ unitStatus' = [u \in Units |->
                      IF q.seen = "NOSH" /\ u \in rooms[r] /\ unitStatus[u] = "OCC"
                        THEN "AVAIL"
                        ELSE unitStatus[u]]
  /\ Answered(w)
  /\ UNCHANGED <<cash, tasks, night>>

(* Cancelling: the rows go, whatever has happened since the fetch. *)
FetchCancel(w) ==
  \E r \in Reservations :
    /\ status[r] \in {"CONF", "CANC", "NOSH"}
    /\ Fetched(w, [kind |-> "cancel", res |-> r])

Cancel(w) ==
  /\ request[w].kind = "cancel"
  /\ status' = [status EXCEPT ![request[w].res] = "CANC"]
  /\ rooms' = [rooms EXCEPT ![request[w].res] = {}]
  /\ Answered(w)
  /\ UNCHANGED <<stay, edited, cash, house, night>>
-----------------------------------------------------------------------------
(* Check-in and check-out.                                                 *)

(* The web form offers available units; an offline operation names any.    *)
FetchCheckIn(w) ==
  \E r \in Reservations, ch \in Channels :
    /\ status[r] = "CONF"
    /\ \E u \in IF ch = "web" THEN AvailableUnits(stay[r], rooms[r]) ELSE Units :
         Fetched(w, [kind |-> "checkIn", res |-> r, stay |-> stay[r], unit |-> u])

MoveIn(w) ==
  LET q == request[w] IN
  /\ rooms' = [rooms EXCEPT ![q.res] = {q.unit}]
  /\ unitStatus' = [unitStatus EXCEPT ![q.unit] = "OCC"]
  /\ status' = [status EXCEPT ![q.res] = "CHIN"]
  /\ OpenFolio(q.res)
  /\ Answered(w)
  /\ UNCHANGED <<stay, edited, balance, tasks, night>>

CheckInUnchecked(w) == request[w].kind = "checkIn" /\ MoveIn(w)

(* The rows for other units go, the unit is locked, and the conflict query *)
(* runs with the dates that were fetched; a conflict rolls back.           *)
CheckIn(w) ==
  LET q == request[w]
      taken == q.unit \in Conflicting(q.stay, Reservations \ {q.res})
  IN
  /\ q.kind = "checkIn"
  /\ \/ ~taken /\ MoveIn(w)
     \/ taken /\ Refused(w)

(* The check-out page prefetches the rows and their units; an offline      *)
(* check-out loads the reservation alone.                                  *)
FetchCheckOut(w) ==
  \E r \in Reservations, ch \in Channels :
    LET rows == IF ch = "web" THEN rooms[r] ELSE {} IN
    /\ status[r] = "CHIN"
    /\ \A u \in rooms[r] : Len(tasks[u]) < MaxTasks
    /\ Fetched(w, [kind |-> "checkOut", res |-> r, rows |-> rows,
                   occupied |-> {u \in rows : unitStatus[u] = "OCC"}])

MoveOut(w, r, left, cleaned) ==
  /\ SettleFolio(r)
  /\ status' = [status EXCEPT ![r] = "CHOUT"]
  /\ unitStatus' = [u \in Units |-> IF u \in left THEN "CLEAN" ELSE unitStatus[u]]
  /\ RaiseCleaning(cleaned)
  /\ Answered(w)
  /\ UNCHANGED <<stay, rooms, edited, balance, night>>

CheckOutLeavesUnits(w) ==
  /\ request[w].kind = "checkOut"
  /\ MoveOut(w, request[w].res, {}, request[w].occupied)

CheckOutNoTask(w) ==
  /\ request[w].kind = "checkOut"
  /\ MoveOut(w, request[w].res, request[w].occupied, {})

(* The folio must balance.  The service releases the units that are        *)
(* occupied now; then post_save releases, and raises a cleaning for, those *)
(* it finds occupied, which are the prefetched ones if there was a         *)
(* prefetch and none if not.  Saving a prefetched row deleted since fails. *)
CheckOut(w) ==
  LET q     == request[w]
      stays == balance[q.res] # 0 \/ ~(q.rows \subseteq rooms[q.res])
      left  == {u \in rooms[q.res] : unitStatus[u] = "OCC"} \cup q.occupied
  IN
  /\ q.kind = "checkOut"
  /\ \/ ~stays /\ MoveOut(w, q.res, left, q.occupied)
     \/ stays /\ Refused(w)
-----------------------------------------------------------------------------
(* Housekeeping, the folio and portal views, and units taken out of service.          *)

FetchTask(w) ==
  \E u \in Units : \E i \in DOMAIN tasks[u] : \E new \in NextTaskStatus[tasks[u][i]] :
    Fetched(w, [kind |-> "task", unit |-> u, index |-> i, new |-> new])

UpdateTask(w) ==
  /\ request[w].kind = "task"
  /\ SaveTask(request[w].unit, request[w].index, request[w].new)
  /\ Answered(w)
  /\ UNCHANGED <<desk, cash, night>>

PostCharge(r) ==
  /\ ChargeFolio(r)
  /\ UNCHANGED <<desk, folio, house, night, request>>

TakePayment(r) ==
  /\ PayFolio(r)
  /\ UNCHANGED <<desk, folio, house, night, request>>

(* Staff resend the guest's portal link.  That saves the reservation, and  *)
(* post_save acts on the status it finds, changed or not: for a stay that  *)
(* is over, the units some later guest occupies are released again.  For   *)
(* any other status only the token changes, which is left out.  (Bound:    *)
(* one task more than check-outs raise.)                                   *)
ResendLink(r) ==
  LET released == {u \in rooms[r] : unitStatus[u] = "OCC"}
      gone     == status[r] = "CHOUT"
  IN
  /\ status[r] \in {"CHOUT", "NOSH"}
  /\ \A u \in released : Len(tasks[u]) <= MaxTasks
  /\ unitStatus' = [u \in Units |-> IF u \notin released THEN unitStatus[u]
                                    ELSE IF gone THEN "CLEAN" ELSE "AVAIL"]
  /\ RaiseCleaning(IF gone THEN released ELSE {})
  /\ UNCHANGED <<desk, cash, night, request>>

(* Staff set the status by hand; modelled for free units only. *)
SetService(u) ==
  /\ \/ unitStatus[u] = "AVAIL" /\ unitStatus' = [unitStatus EXCEPT ![u] = "MAINT"]
     \/ unitStatus[u] = "MAINT" /\ unitStatus' = [unitStatus EXCEPT ![u] = "AVAIL"]
  /\ UNCHANGED <<desk, cash, tasks, night, request>>
-----------------------------------------------------------------------------
(* The night audit, a Celery task and not a transaction.  It reads the     *)
(* date and the in-house reservations with their folios and rooms once,    *)
(* posts the room charges one by one, then marks every confirmation that   *)
(* is overdue on its date a no-show.                                       *)

Midnight ==
  /\ today < LastDay
  /\ today' = today + 1
  /\ UNCHANGED <<desk, cash, house, audit, crashes, request>>

AuditStart ==
  /\ ~audit.running
  /\ audit' = [running |-> TRUE, date |-> today,
               bill |-> [r \in Reservations |->
                           IF status[r] = "CHIN" /\ folio[r] = "OPEN"
                             THEN Cardinality(rooms[r]) ELSE 0]]
  /\ UNCHANGED <<desk, cash, house, today, crashes, request>>

(* Bound: the balance stops at MaxBalance. *)
AuditPost(r) ==
  /\ audit.running /\ audit.bill[r] > 0
  /\ balance' = [balance EXCEPT ![r] = Capped(@ + audit.bill[r])]
  /\ audit' = [audit EXCEPT !.bill[r] = 0]
  /\ UNCHANGED <<desk, folio, house, today, crashes, request>>

AuditDone == audit' = NoAudit

AuditOnlyIfInHouse ==
  /\ audit.running /\ \A r \in Reservations : audit.bill[r] = 0
  /\ status' = [r \in Reservations |->
                  IF /\ status[r] = "CONF" /\ stay[r].in < audit.date
                     /\ \E q \in Reservations : status[q] = "CHIN"
                    THEN "NOSH" ELSE status[r]]
  /\ AuditDone
  /\ UNCHANGED <<stay, rooms, edited, cash, house, today, crashes, request>>

(* A queryset update: no signal fires, and the rooms are kept. *)
AuditNoShow ==
  /\ audit.running /\ \A r \in Reservations : audit.bill[r] = 0
  /\ status' = [r \in Reservations |->
                  IF status[r] = "CONF" /\ stay[r].in < audit.date THEN "NOSH" ELSE status[r]]
  /\ AuditDone
  /\ UNCHANGED <<stay, rooms, edited, cash, house, today, crashes, request>>

AuditDies ==
  /\ audit.running /\ crashes < MaxCrashes
  /\ audit' = NoAudit
  /\ crashes' = crashes + 1
  /\ UNCHANGED <<desk, cash, house, today, request>>
-----------------------------------------------------------------------------
Work(w) ==
  \/ FetchBook(w)     \/ Book(w)
  \/ FetchEdit(w)     \/ Edit(w)
  \/ FetchCancel(w)   \/ Cancel(w)
  \/ FetchCheckIn(w)  \/ CheckIn(w)
  \/ FetchCheckOut(w) \/ CheckOut(w)
  \/ FetchTask(w)     \/ UpdateTask(w)

Next ==
  \/ \E w \in Workers : Work(w)
  \/ \E r \in Reservations :
       PostCharge(r) \/ TakePayment(r) \/ ResendLink(r) \/ AuditPost(r)
  \/ \E u \in Repairable : SetService(u)
  \/ Midnight \/ AuditStart \/ AuditNoShow \/ AuditDies

Spec == Init /\ [][Next]_vars

(* Celery beat starts the audit every night and its worker keeps going. *)
Fairness ==
  /\ WF_vars(AuditStart) /\ WF_vars(AuditNoShow)
  /\ \A r \in Reservations : WF_vars(AuditPost(r))

FairSpec == Spec /\ Fairness
-----------------------------------------------------------------------------
TypeOK ==
  /\ status \in [Reservations -> ReservationStatus \cup {"none"}]
  /\ stay \in [Reservations -> Stays]
  /\ rooms \in [Reservations -> SUBSET Units]
  /\ edited \subseteq Reservations
  /\ folio \in [Reservations -> FolioStatus]
  /\ balance \in [Reservations -> -MaxBalance .. MaxBalance]
  /\ unitStatus \in [Units -> UnitStatus]
  /\ tasks \in [Units -> Seq(TaskStatus)]
  /\ request \in [Workers -> Request]
  /\ today \in 1 .. LastDay
  /\ audit \in [running : BOOLEAN, date : 0 .. LastDay, bill : [Reservations -> Nat]]
  /\ crashes \in 0 .. MaxCrashes

(* Two reservations that block inventory share a unit for some night. *)
DoubleBooked(q, r) ==
  /\ q # r
  /\ status[q] \in Blocking /\ status[r] \in Blocking
  /\ rooms[q] \cap rooms[r] # {}
  /\ Overlap(stay[q], stay[r])

(* What services.py and the create and edit views say of the unit lock: no *)
(* two requests get the same room for the same night.  An edit form breaks *)
(* it when another worker commits between its check and its save.          *)
NoDoubleBooking == \A q, r \in Reservations : ~DoubleBooked(q, r)

(* The part of it that holds whatever the interleaving: a double booking   *)
(* always involves a reservation that went through the edit form.  Booking,*)
(* check-in (also of a stale reservation), check-out, cancelling and the   *)
(* audit alone never make one.                                             *)
DoubleBookingNeedsEdit ==
  \A q, r \in Reservations : DoubleBooked(q, r) => q \in edited \/ r \in edited

(* The guest's bill follows the stay under every interleaving: who is in   *)
(* house, or ever checked out, has a folio, and a check-out is never       *)
(* recorded without the folio being settled.                               *)
FolioFollowsStay ==
  \A r \in Reservations :
    /\ status[r] = "CHIN" => folio[r] # "none"
    /\ status[r] = "CHOUT" => folio[r] = "SETL"

(* The pages of the calendar, of the reservations no edit form touched.     *)
Booked == [u \in Units |->
             {e \in [holder : Reservations, stay : Stays] :
                /\ e.holder \notin edited
                /\ status[e.holder] \in Blocking
                /\ u \in rooms[e.holder]
                /\ e.stay = stay[e.holder]}]

Calendar ==
  INSTANCE RoomCalendar WITH Rooms <- Units, Holders <- Reservations, booked <- Booked

(* Under every interleaving the reservations that were never edited move   *)
(* in and out of rooms as a calendar without overlaps allows: every take   *)
(* is of free nights, and a reservation gives up its rooms as it takes new *)
(* ones.                                                                   *)
ImplementsCalendar == Calendar!Spec

(* A unit shown as occupied has a guest in house.  Otherwise nothing frees *)
(* it again: no query and no task looks for such a unit.                   *)
OccupiedRoomsHaveGuests ==
  \A u \in Units : unitStatus[u] = "OCC" =>
    \E r \in Reservations : status[r] = "CHIN" /\ u \in rooms[r]

(* A unit waiting to be cleaned is on the housekeeping list: the           *)
(* check-out that left it dirty raised a task, which is still to be done   *)
(* or was skipped.                                                         *)
CleaningIsOnTheList == \A u \in Units : unitStatus[u] = "CLEAN" => HasCleaning(u)

(* A stay goes one way: a guest in house leaves only by checking out, and  *)
(* a departure or a cancellation is never undone.                          *)
StaysGoOneWay ==
  [][\A r \in Reservations :
       /\ status[r] = "CHIN" => status'[r] \in {"CHIN", "CHOUT"}
       /\ status[r] \in {"CHOUT", "CANC"} => status'[r] = status[r]]_status

(* A confirmed guest who did not come is eventually marked a no-show, or   *)
(* the booking is moved, cancelled or honoured, although the audit may die *)
(* half-way on some nights.                                                *)
OverdueIsResolved ==
  \A r \in Reservations :
    (status[r] = "CONF" /\ stay[r].in < today)
      ~> (status[r] # "CONF" \/ stay[r].in >= today)
=============================================================================
