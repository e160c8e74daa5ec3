--------------------------- MODULE FrontDesk_proofs ---------------------------
(***************************************************************************)
(* What TLC finds on small front desks holds for every number of           *)
(* reservations, units, workers and date ranges.                           *)
(***************************************************************************)
EXTENDS FrontDesk, FiniteSetTheorems, SequenceTheorems, TLAPS

-----------------------------------------------------------------------------
(* Type correctness.                                                       *)

(* What a fetched request of each kind carries.                            *)
LEMMA RequestFields ==
  ASSUME NEW q \in Request
  PROVE  /\ q.kind = "book" => q.stay \in Stays /\ q.unit \in Units
         /\ q.kind = "edit" => /\ q.res \in Reservations /\ q.seen \in {"CONF", "NOSH"}
                               /\ q.stay \in Stays /\ q.unit \in Units
         /\ q.kind = "checkIn" => /\ q.res \in Reservations
                                  /\ q.stay \in Stays /\ q.unit \in Units
         /\ q.kind = "checkOut" => /\ q.res \in Reservations
                                   /\ q.rows \subseteq Units
                                   /\ q.occupied \subseteq Units
         /\ q.kind = "cancel" => q.res \in Reservations
         /\ q.kind = "task" => /\ q.unit \in Units /\ q.index \in Nat
                               /\ q.new \in TaskStatus
  BY DEF Request, Idle

(* Replacing an entry of a sequence leaves a sequence.                     *)
LEMMA EntryReplaced ==
  ASSUME NEW S, NEW s \in Seq(S), NEW i, NEW v \in S
  PROVE  [s EXCEPT ![i] = v] \in Seq(S)
  <1>1. CASE i \in 1 .. Len(s)
    BY <1>1, ExceptSeq
  <1>2. CASE i \notin 1 .. Len(s)
    <2>1. DOMAIN s = 1 .. Len(s) /\ s = [j \in DOMAIN s |-> s[j]]
      OBVIOUS
    <2>2. [s EXCEPT ![i] = v] = s
      BY <1>2, <2>1, Zenon
    <2>3. QED
      BY <2>2
  <1>3. QED
    BY <1>1, <1>2

LEMMA NoAuditType ==
  NoAudit \in [running : BOOLEAN, date : 0 .. LastDay, bill : [Reservations -> Nat]]
  BY FrontDeskAssumption DEF NoAudit

LEMMA TypeInit == Init => TypeOK
  <1> SUFFICES ASSUME Init PROVE TypeOK
    OBVIOUS
  <1>1. (CHOOSE s \in Stays : TRUE) \in Stays
    BY FrontDeskAssumption
  <1>2. request \in [Workers -> Request]
    BY DEF Init, Request
  <1>3. tasks \in [Units -> Seq(TaskStatus)]
    BY DEF Init
  <1>4. QED
    BY <1>1, <1>2, <1>3, NoAuditType, FrontDeskAssumption, MaxBalanceAssumption
       DEF Init, TypeOK, FolioStatus, UnitStatus

(* Fetching changes the request alone.                                     *)
LEMMA TypeFetched ==
  ASSUME TypeOK, NEW w \in Workers, NEW q \in Request, Fetched(w, q)
  PROVE  TypeOK'
  BY DEF TypeOK, Fetched, desk, cash, house, night

LEMMA TypeFetch ==
  ASSUME TypeOK, NEW w \in Workers,
         FetchBook(w) \/ FetchEdit(w) \/ FetchCancel(w) \/ FetchCheckIn(w)
           \/ FetchCheckOut(w) \/ FetchTask(w)
  PROVE  TypeOK'
  <1>1. CASE FetchBook(w)
    <2>1. PICK s \in Stays : \E u \in AvailableUnits(s, {}) :
            Fetched(w, [kind |-> "book", stay |-> s, unit |-> u])
      BY <1>1 DEF FetchBook
    <2>2. PICK u \in Units : Fetched(w, [kind |-> "book", stay |-> s, unit |-> u])
      BY <2>1 DEF AvailableUnits
    <2>3. [kind |-> "book", stay |-> s, unit |-> u] \in Request
      BY DEF Request
    <2>4. QED
      BY <2>2, <2>3, TypeFetched
  <1>2. CASE FetchEdit(w)
    <2>1. PICK r \in Reservations, s \in Stays, nr \in BOOLEAN :
            /\ status[r] \in {"CONF", "NOSH"}
            /\ \E u \in AvailableUnits(s, rooms[r]) \ Conflicting(s, Reservations \ {r}) :
                 Fetched(w, [kind |-> "edit", res |-> r, seen |-> status[r],
                             stay |-> s, unit |-> u, newRate |-> nr])
      BY <1>2 DEF FetchEdit
    <2>2. PICK u \in Units :
            Fetched(w, [kind |-> "edit", res |-> r, seen |-> status[r],
                        stay |-> s, unit |-> u, newRate |-> nr])
      BY <2>1 DEF AvailableUnits
    <2>3. [kind |-> "edit", res |-> r, seen |-> status[r],
           stay |-> s, unit |-> u, newRate |-> nr] \in Request
      BY <2>1 DEF Request
    <2>4. QED
      BY <2>2, <2>3, TypeFetched
  <1>3. CASE FetchCancel(w)
    <2>1. PICK r \in Reservations : Fetched(w, [kind |-> "cancel", res |-> r])
      BY <1>3 DEF FetchCancel
    <2>2. [kind |-> "cancel", res |-> r] \in Request
      BY DEF Request
    <2>3. QED
      BY <2>1, <2>2, TypeFetched
  <1>4. CASE FetchCheckIn(w)
    <2>1. PICK r \in Reservations, u \in Units :
            Fetched(w, [kind |-> "checkIn", res |-> r, stay |-> stay[r], unit |-> u])
      BY <1>4 DEF FetchCheckIn, AvailableUnits
    <2>2. [kind |-> "checkIn", res |-> r, stay |-> stay[r], unit |-> u] \in Request
      BY DEF Request, TypeOK
    <2>3. QED
      BY <2>1, <2>2, TypeFetched
  <1>5. CASE FetchCheckOut(w)
    <2>1. PICK r \in Reservations, ch \in Channels :
            LET rows == IF ch = "web" THEN rooms[r] ELSE {} IN
            Fetched(w, [kind |-> "checkOut", res |-> r, rows |-> rows,
                        occupied |-> {u \in rows : unitStatus[u] = "OCC"}])
      BY <1>5 DEF FetchCheckOut
    <2> DEFINE rows == IF ch = "web" THEN rooms[r] ELSE {}
               occ == {u \in rows : unitStatus[u] = "OCC"}
    <2>2. rows \subseteq Units /\ occ \subseteq Units
      BY DEF TypeOK
    <2>3. [kind |-> "checkOut", res |-> r, rows |-> rows, occupied |-> occ] \in Request
      BY <2>2 DEF Request
    <2>4. QED
      BY <2>1, <2>3, TypeFetched
  <1>6. CASE FetchTask(w)
    <2>1. PICK u \in Units : \E i \in DOMAIN tasks[u] :
            \E new \in NextTaskStatus[tasks[u][i]] :
              Fetched(w, [kind |-> "task", unit |-> u, index |-> i, new |-> new])
      BY <1>6 DEF FetchTask
    <2>2. PICK i \in DOMAIN tasks[u] : \E new \in NextTaskStatus[tasks[u][i]] :
            Fetched(w, [kind |-> "task", unit |-> u, index |-> i, new |-> new])
      BY <2>1
    <2>3. i \in Nat /\ tasks[u][i] \in TaskStatus
      BY <2>2 DEF TypeOK
    <2>4. PICK new \in NextTaskStatus[tasks[u][i]] :
            Fetched(w, [kind |-> "task", unit |-> u, index |-> i, new |-> new])
      BY <2>2
    <2>5. new \in TaskStatus
      BY <2>3, <2>4 DEF NextTaskStatus, TaskStatus
    <2>6. [kind |-> "task", unit |-> u, index |-> i, new |-> new] \in Request
      BY <2>3, <2>5 DEF Request
    <2>7. QED
      BY <2>4, <2>6, TypeFetched
  <1>7. QED
    BY <1>1, <1>2, <1>3, <1>4, <1>5, <1>6

(* Answering a request clears it and nothing else.                         *)
LEMMA TypeAnswered ==
  ASSUME TypeOK, NEW w \in Workers, Answered(w)
  PROVE  request' \in [Workers -> Request]
  BY DEF TypeOK, Answered, Request

LEMMA TypeRefused ==
  ASSUME TypeOK, NEW w \in Workers, Refused(w)
  PROVE  TypeOK'
  BY TypeAnswered DEF TypeOK, Refused, desk, cash, house, night

LEMMA TypeReservation ==
  ASSUME TypeOK, NEW w \in Workers, Book(w) \/ Edit(w) \/ Cancel(w)
  PROVE  TypeOK'
  <1> DEFINE q == request[w]
  <1>0. q \in Request
    BY DEF TypeOK
  <1>1. CASE Book(w)
    <2>1. q.stay \in Stays /\ q.unit \in Units
      BY <1>0, <1>1, RequestFields DEF Book
    <2>2. CASE Refused(w)
      BY <2>2, TypeRefused
    <2>3. ASSUME NEW r \in Reservations, SaveBooking(w, r) PROVE TypeOK'
      <3>1. request' \in [Workers -> Request]
        BY <2>3, TypeAnswered DEF SaveBooking
      <3>2. QED
        BY <2>1, <2>3, <3>1
           DEF TypeOK, SaveBooking, ReservationStatus, cash, house, night
    <2>4. QED
      BY <1>1, <2>2, <2>3 DEF Book
  <1>2. CASE Edit(w)
    <2>1. /\ q.res \in Reservations /\ q.seen \in {"CONF", "NOSH"}
          /\ q.stay \in Stays /\ q.unit \in Units
      BY <1>0, <1>2, RequestFields DEF Edit
    <2>2. request' \in [Workers -> Request]
      BY <1>2, TypeAnswered DEF Edit
    <2>3. /\ status' \in [Reservations -> ReservationStatus \cup {"none"}]
          /\ stay' \in [Reservations -> Stays]
          /\ edited' \subseteq Reservations
      BY <1>2, <2>1 DEF Edit, TypeOK, ReservationStatus
    <2>4. rooms' \in [Reservations -> SUBSET Units]
      BY <1>2, <2>1 DEF Edit, TypeOK
    <2>5. unitStatus' \in [Units -> UnitStatus]
      BY <1>2 DEF Edit, TypeOK, UnitStatus
    <2>6. QED
      BY <1>2, <2>2, <2>3, <2>4, <2>5 DEF Edit, TypeOK, cash, night
  <1>3. CASE Cancel(w)
    <2>1. q.res \in Reservations
      BY <1>0, <1>3, RequestFields DEF Cancel
    <2>2. request' \in [Workers -> Request]
      BY <1>3, TypeAnswered DEF Cancel
    <2>3. QED
      BY <1>3, <2>1, <2>2 DEF Cancel, TypeOK, ReservationStatus, cash, house, night
  <1>4. QED
    BY <1>1, <1>2, <1>3

LEMMA TypeStay ==
  ASSUME TypeOK, NEW w \in Workers, CheckIn(w) \/ CheckOut(w)
  PROVE  TypeOK'
  <1> DEFINE q == request[w]
  <1>0. q \in Request
    BY DEF TypeOK
  <1>1. CASE CheckIn(w)
    <2>1. q.res \in Reservations /\ q.stay \in Stays /\ q.unit \in Units
      BY <1>0, <1>1, RequestFields DEF CheckIn
    <2>2. CASE Refused(w)
      BY <2>2, TypeRefused
    <2>3. CASE MoveIn(w)
      <3>1. request' \in [Workers -> Request]
        BY <2>3, TypeAnswered DEF MoveIn
      <3>2. /\ status' \in [Reservations -> ReservationStatus \cup {"none"}]
            /\ rooms' \in [Reservations -> SUBSET Units]
            /\ unitStatus' \in [Units -> UnitStatus]
        BY <2>1, <2>3 DEF MoveIn, TypeOK, ReservationStatus, UnitStatus
      <3>3. folio' \in [Reservations -> FolioStatus]
        BY <2>1, <2>3 DEF MoveIn, OpenFolio, TypeOK, FolioStatus
      <3>4. QED
        BY <2>3, <3>1, <3>2, <3>3 DEF MoveIn, TypeOK, night
    <2>4. QED
      BY <1>1, <2>2, <2>3 DEF CheckIn
  <1>2. CASE CheckOut(w)
    <2>1. q.res \in Reservations /\ q.rows \subseteq Units /\ q.occupied \subseteq Units
      BY <1>0, <1>2, RequestFields DEF CheckOut
    <2>2. CASE Refused(w)
      BY <2>2, TypeRefused
    <2>3. ASSUME NEW left, MoveOut(w, q.res, left, q.occupied) PROVE TypeOK'
      <3>1. request' \in [Workers -> Request]
        BY <2>3, TypeAnswered DEF MoveOut
      <3>2. /\ status' \in [Reservations -> ReservationStatus \cup {"none"}]
            /\ unitStatus' \in [Units -> UnitStatus]
        BY <2>1, <2>3 DEF MoveOut, TypeOK, ReservationStatus, UnitStatus
      <3>3. folio' \in [Reservations -> FolioStatus]
        BY <2>1, <2>3 DEF MoveOut, SettleFolio, TypeOK, FolioStatus
      <3>4. tasks' \in [Units -> Seq(TaskStatus)]
        <4>1. \A u \in Units : Append(tasks[u], "PEND") \in Seq(TaskStatus)
          BY AppendProperties DEF TypeOK, TaskStatus
        <4>2. QED
          BY <2>3, <4>1 DEF MoveOut, RaiseCleaning, TypeOK
      <3>5. QED
        BY <2>3, <3>1, <3>2, <3>3, <3>4 DEF MoveOut, TypeOK, night
    <2>4. QED
      BY <1>2, <2>2, <2>3 DEF CheckOut
  <1>3. QED
    BY <1>1, <1>2

LEMMA TypeTask ==
  ASSUME TypeOK, NEW w \in Workers, UpdateTask(w)
  PROVE  TypeOK'
  <1> DEFINE q == request[w]
  <1>1. q.unit \in Units /\ q.index \in Nat /\ q.new \in TaskStatus
    BY RequestFields DEF TypeOK, UpdateTask
  <1>2. request' \in [Workers -> Request]
    BY TypeAnswered DEF UpdateTask
  <1>3. [tasks[q.unit] EXCEPT ![q.index] = q.new] \in Seq(TaskStatus)
    BY <1>1, EntryReplaced DEF TypeOK
  <1>4. tasks' \in [Units -> Seq(TaskStatus)]
    BY <1>1, <1>3 DEF UpdateTask, SaveTask, TypeOK
  <1>5. unitStatus' \in [Units -> UnitStatus]
    BY <1>1 DEF UpdateTask, SaveTask, UnitAfterTask, TypeOK, UnitStatus
  <1>6. QED
    BY <1>2, <1>4, <1>5 DEF UpdateTask, TypeOK, desk, cash, night

LEMMA TypeMoney ==
  ASSUME TypeOK, NEW r \in Reservations, PostCharge(r) \/ TakePayment(r) \/ AuditPost(r)
  PROVE  TypeOK'
  <1>1. balance[r] \in -MaxBalance .. MaxBalance /\ MaxBalance \in Nat
    BY MaxBalanceAssumption DEF TypeOK
  <1>2. CASE PostCharge(r)
    <2>1. balance' \in [Reservations -> -MaxBalance .. MaxBalance]
      BY <1>1, <1>2 DEF PostCharge, ChargeFolio, TypeOK
    <2>2. QED
      BY <1>2, <2>1 DEF PostCharge, TypeOK, desk, house, night
  <1>3. CASE TakePayment(r)
    <2>1. balance' \in [Reservations -> -MaxBalance .. MaxBalance]
      BY <1>1, <1>3 DEF TakePayment, PayFolio, TypeOK
    <2>2. QED
      BY <1>3, <2>1 DEF TakePayment, TypeOK, desk, house, night
  <1>4. CASE AuditPost(r)
    <2>1. Capped(balance[r] + audit.bill[r]) \in -MaxBalance .. MaxBalance
      BY <1>1, <1>4 DEF AuditPost, Capped, TypeOK
    <2>2. balance' \in [Reservations -> -MaxBalance .. MaxBalance]
      BY <1>4, <2>1 DEF AuditPost, TypeOK
    <2>3. audit' \in [running : BOOLEAN, date : 0 .. LastDay, bill : [Reservations -> Nat]]
      BY <1>4 DEF AuditPost, TypeOK
    <2>4. QED
      BY <1>4, <2>2, <2>3 DEF AuditPost, TypeOK, desk, house
  <1>5. QED
    BY <1>2, <1>3, <1>4

LEMMA TypeNight ==
  ASSUME TypeOK, Midnight \/ AuditStart \/ AuditNoShow \/ AuditDies
  PROVE  TypeOK'
  <1>1. CASE Midnight
    BY <1>1, FrontDeskAssumption DEF Midnight, TypeOK, desk, cash, house
  <1>2. CASE AuditStart
    <2>1. \A r \in Reservations : Cardinality(rooms[r]) \in Nat
      BY FrontDeskAssumption, FS_Subset, FS_CardinalityType DEF TypeOK
    <2>2. audit' \in [running : BOOLEAN, date : 0 .. LastDay, bill : [Reservations -> Nat]]
      BY <1>2, <2>1, FrontDeskAssumption DEF AuditStart, TypeOK
    <2>3. QED
      BY <1>2, <2>2 DEF AuditStart, TypeOK, desk, cash, house
  <1>3. CASE AuditNoShow
    BY <1>3, NoAuditType DEF AuditNoShow, AuditDone, TypeOK, ReservationStatus, cash, house
  <1>4. CASE AuditDies
    BY <1>4, NoAuditType, FrontDeskAssumption DEF AuditDies, TypeOK, desk, cash, house
  <1>5. QED
    BY <1>1, <1>2, <1>3, <1>4

LEMMA TypeResend ==
  ASSUME TypeOK, NEW r \in Reservations, ResendLink(r)
  PROVE  TypeOK'
  <1>1. unitStatus' \in [Units -> UnitStatus]
    BY DEF ResendLink, TypeOK, UnitStatus
  <1>2. PICK us : RaiseCleaning(us)
    BY DEF ResendLink
  <1>3. \A u \in Units : Append(tasks[u], "PEND") \in Seq(TaskStatus)
    BY DEF TypeOK, TaskStatus
  <1>4. tasks' \in [Units -> Seq(TaskStatus)]
    BY <1>2, <1>3 DEF RaiseCleaning, TypeOK
  <1>5. UNCHANGED <<desk, cash, night, request>>
    BY DEF ResendLink
  <1>6. QED
    BY <1>1, <1>4, <1>5 DEF TypeOK, desk, cash, night

LEMMA TypeStep == TypeOK /\ [Next]_vars => TypeOK'
  <1> SUFFICES ASSUME TypeOK, [Next]_vars PROVE TypeOK'
    OBVIOUS
  <1>1. ASSUME NEW w \in Workers, Work(w) PROVE TypeOK'
    BY <1>1, TypeFetch, TypeReservation, TypeStay, TypeTask DEF Work
  <1>2. ASSUME NEW r \in Reservations, PostCharge(r) \/ TakePayment(r) \/ AuditPost(r)
        PROVE  TypeOK'
    BY <1>2, TypeMoney
  <1>3. ASSUME NEW u \in Repairable, SetService(u) PROVE TypeOK'
    BY <1>3, FrontDeskAssumption DEF SetService, TypeOK, UnitStatus, desk, cash, night
  <1>4. CASE Midnight \/ AuditStart \/ AuditNoShow \/ AuditDies
    BY <1>4, TypeNight
  <1>5. ASSUME NEW r \in Reservations, ResendLink(r) PROVE TypeOK'
    BY <1>5, TypeResend
  <1>6. CASE UNCHANGED vars
    BY <1>6 DEF vars, desk, cash, house, night, TypeOK
  <1>7. QED
    BY <1>1, <1>2, <1>3, <1>4, <1>5, <1>6 DEF Next

(* Every variable keeps its type: in particular no interleaving drives a   *)
(* request, a bill of the audit or a task list out of the values the       *)
(* handlers expect.                                                        *)
THEOREM TypeCorrect == Spec => []TypeOK
  <1>1. QED
    BY TypeInit, TypeStep, PTL DEF Spec

-----------------------------------------------------------------------------
(* Double bookings, and the folio of a stay.  A request in flight knows    *)
(* less than the tables do, so the invariant says what it still knows:     *)
(* its reservation exists, a check-in has the dates of a reservation that  *)
(* was not edited, and who is about to check out has a folio.              *)

RequestNamesRow ==
  \A w \in Workers :
    request[w].kind \in {"edit", "checkIn", "checkOut", "cancel"} =>
      Exists(request[w].res)

CheckInSawStay ==
  \A w \in Workers :
    request[w].kind = "checkIn" =>
      request[w].res \in edited \/ request[w].stay = stay[request[w].res]

CheckOutSawFolio ==
  \A w \in Workers : request[w].kind = "checkOut" => folio[request[w].res] # "none"

EditedExists == \A r \in edited : Exists(r)

DeskInv ==
  /\ TypeOK
  /\ RequestNamesRow /\ CheckInSawStay /\ CheckOutSawFolio /\ EditedExists
  /\ DoubleBookingNeedsEdit
  /\ FolioFollowsStay

LEMMA DeskInit == Init => DeskInv
  <1> SUFFICES ASSUME Init PROVE DeskInv
    OBVIOUS
  <1>1. TypeOK
    BY TypeInit
  <1>2. RequestNamesRow /\ CheckInSawStay /\ CheckOutSawFolio /\ EditedExists
    BY DEF Init, RequestNamesRow, CheckInSawStay, CheckOutSawFolio, EditedExists, Idle
  <1>3. DoubleBookingNeedsEdit /\ FolioFollowsStay
    BY DEF Init, DoubleBookingNeedsEdit, DoubleBooked, Blocking, FolioFollowsStay
  <1>4. QED
    BY <1>1, <1>2, <1>3 DEF DeskInv

(* A step that leaves the desk alone, and loses no folio, disturbs neither *)
(* property.                                                               *)
LEMMA DeskUntouched ==
  ASSUME DeskInv, UNCHANGED desk,
         \A r \in Reservations : folio'[r] = folio[r]
  PROVE  (DoubleBookingNeedsEdit /\ FolioFollowsStay /\ EditedExists)'
  BY DEF DeskInv, desk, DoubleBookingNeedsEdit, DoubleBooked, FolioFollowsStay,
         EditedExists, Exists

(* Fetching establishes what the request knows.                            *)
LEMMA DeskFetch ==
  ASSUME DeskInv, NEW w \in Workers,
         FetchBook(w) \/ FetchEdit(w) \/ FetchCancel(w) \/ FetchCheckIn(w)
           \/ FetchCheckOut(w) \/ FetchTask(w)
  PROVE  DeskInv'
  <1> USE DEF Exists
  <1>1. TypeOK'
    BY TypeFetch DEF DeskInv
  <1>2. PICK q : /\ Fetched(w, q)
                 /\ q.kind \in {"edit", "checkIn", "checkOut", "cancel"} => Exists(q.res)
                 /\ q.kind = "checkIn" => q.stay = stay[q.res]
                 /\ q.kind = "checkOut" => folio[q.res] # "none"
    <2>1. CASE FetchBook(w)
      BY <2>1 DEF FetchBook
    <2>2. CASE FetchEdit(w)
      BY <2>2 DEF FetchEdit
    <2>3. CASE FetchCancel(w)
      BY <2>3 DEF FetchCancel
    <2>4. CASE FetchCheckIn(w)
      BY <2>4 DEF FetchCheckIn
    <2>5. CASE FetchCheckOut(w)
      BY <2>5 DEF FetchCheckOut, DeskInv, FolioFollowsStay
    <2>6. CASE FetchTask(w)
      BY <2>6 DEF FetchTask
    <2>7. QED
      BY <2>1, <2>2, <2>3, <2>4, <2>5, <2>6
  <1>3. /\ request' = [request EXCEPT ![w] = q]
        /\ UNCHANGED <<status, stay, rooms, edited, folio>>
    BY <1>2 DEF Fetched, desk, cash
  <1>4. (RequestNamesRow /\ CheckInSawStay /\ CheckOutSawFolio)'
    BY <1>2, <1>3 DEF DeskInv, TypeOK, RequestNamesRow, CheckInSawStay, CheckOutSawFolio
  <1>5. QED
    BY <1>1, <1>3, <1>4, DeskUntouched DEF DeskInv, desk

(* A commit that answers w, keeps every row and every folio, and changes   *)
(* no dates but those of edited reservations, keeps what the other         *)
(* requests know.                                                          *)
LEMMA RequestsKeep ==
  ASSUME DeskInv, NEW w \in Workers, Answered(w),
         edited \subseteq edited',
         \A r \in Reservations :
           /\ Exists(r) => Exists(r)'
           /\ folio[r] # "none" => folio'[r] # "none"
           /\ Exists(r) => stay'[r] = stay[r] \/ r \in edited'
  PROVE  (RequestNamesRow /\ CheckInSawStay /\ CheckOutSawFolio)'
  <1>1. \A x \in Workers : request'[x] = Idle \/ request'[x] = request[x]
    BY DEF DeskInv, TypeOK, Answered
  <1>2. Idle.kind = "idle"
    BY DEF Idle
  <1>3. \A x \in Workers :
          request[x].kind \in {"edit", "checkIn", "checkOut", "cancel"} =>
            request[x].res \in Reservations
    BY RequestFields DEF DeskInv, TypeOK
  <1>4. RequestNamesRow'
    BY <1>1, <1>2, <1>3 DEF DeskInv, RequestNamesRow, Exists
  <1>5. CheckInSawStay'
    BY <1>1, <1>2, <1>3 DEF DeskInv, RequestNamesRow, CheckInSawStay, Exists
  <1>6. CheckOutSawFolio'
    BY <1>1, <1>2, <1>3 DEF DeskInv, CheckOutSawFolio
  <1>7. QED
    BY <1>4, <1>5, <1>6
(* A refusal changes the request alone.                                    *)
LEMMA DeskRefused ==
  ASSUME DeskInv, NEW w \in Workers, Refused(w)
  PROVE  DeskInv'
  <1>1. TypeOK'
    BY TypeRefused DEF DeskInv
  <1>2. (RequestNamesRow /\ CheckInSawStay /\ CheckOutSawFolio)'
    BY RequestsKeep DEF Refused, desk, cash, Exists
  <1>3. QED
    BY <1>1, <1>2, DeskUntouched DEF Refused, DeskInv, cash

(* A new booking conflicts with nobody: the query ran under the lock.      *)
LEMMA DeskBook ==
  ASSUME DeskInv, NEW w \in Workers, Book(w)
  PROVE  DeskInv'
  <1> DEFINE q == request[w]
  <1>1. CASE Refused(w)
    BY <1>1, DeskRefused
  <1>2. ASSUME NEW r \in Reservations, SaveBooking(w, r),
               q.unit \notin Conflicting(q.stay, Reservations)
        PROVE  DeskInv'
    <2>1. /\ status[r] = "none"
          /\ status' = [status EXCEPT ![r] = "CONF"]
          /\ stay' = [stay EXCEPT ![r] = q.stay]
          /\ rooms' = [rooms EXCEPT ![r] = {q.unit}]
          /\ Answered(w)
          /\ UNCHANGED <<edited, folio>>
      BY <1>2 DEF SaveBooking, cash
    <2>2. TypeOK'
      BY <1>2, TypeReservation DEF Book, DeskInv, SaveBooking
    <2>3. \A s \in Reservations : s # r =>
            status'[s] = status[s] /\ stay'[s] = stay[s] /\ rooms'[s] = rooms[s]
      BY <2>1 DEF DeskInv, TypeOK
    <2>4. status'[r] = "CONF" /\ stay'[r] = q.stay /\ rooms'[r] = {q.unit}
      BY <2>1 DEF DeskInv, TypeOK
    <2>5. (RequestNamesRow /\ CheckInSawStay /\ CheckOutSawFolio)'
      BY <2>1, <2>3, <2>4, RequestsKeep DEF Exists
    <2>6. EditedExists'
      BY <2>1, <2>3, <2>4 DEF DeskInv, TypeOK, EditedExists, Exists
    <2>7. \A s \in Reservations : ~DoubleBooked(r, s)'
      BY <1>2, <2>3, <2>4 DEF DoubleBooked, Conflicting, Overlap, Blocking
    <2>8. DoubleBookingNeedsEdit'
      <3> SUFFICES ASSUME NEW x \in Reservations, NEW y \in Reservations,
                          DoubleBooked(x, y)'
                   PROVE  x \in edited \/ y \in edited
        BY <2>1 DEF DoubleBookingNeedsEdit
      <3>1. x # r /\ y # r
        BY <2>7 DEF DoubleBooked, Overlap
      <3>2. DoubleBooked(x, y)
        BY <2>3, <3>1 DEF DoubleBooked
      <3>3. QED
        BY <3>2 DEF DeskInv, DoubleBookingNeedsEdit
    <2>9. FolioFollowsStay'
      BY <2>1, <2>3, <2>4 DEF DeskInv, FolioFollowsStay
    <2>10. QED
      BY <2>2, <2>5, <2>6, <2>8, <2>9 DEF DeskInv
  <1>3. QED
    BY <1>1, <1>2 DEF Book

(* An edit marks its reservation, so it may do what it likes to its rooms. *)
LEMMA DeskEdit ==
  ASSUME DeskInv, NEW w \in Workers, Edit(w)
  PROVE  DeskInv'
  <1> DEFINE q == request[w]
             r == q.res
  <1>1. r \in Reservations /\ q.seen \in {"CONF", "NOSH"}
    BY RequestFields DEF DeskInv, TypeOK, Edit
  <1>2. TypeOK'
    BY TypeReservation DEF DeskInv
  <1>3. /\ status' = [status EXCEPT ![r] = q.seen]
        /\ stay' = [stay EXCEPT ![r] = q.stay]
        /\ edited' = edited \cup {r}
        /\ Answered(w)
        /\ folio' = folio
    BY DEF Edit, cash
  <1>4. \A s \in Reservations : s # r =>
          status'[s] = status[s] /\ stay'[s] = stay[s] /\ rooms'[s] = rooms[s]
    <2>1. \A s \in Reservations : s # r => rooms'[s] = rooms[s]
      BY DEF Edit, DeskInv, TypeOK
    <2>2. QED
      BY <1>3, <2>1 DEF DeskInv, TypeOK
  <1>5. status'[r] = q.seen
    BY <1>1, <1>3 DEF DeskInv, TypeOK
  <1>6. (RequestNamesRow /\ CheckInSawStay /\ CheckOutSawFolio)'
    BY <1>1, <1>3, <1>4, <1>5, RequestsKeep DEF Exists
  <1>7. EditedExists'
    BY <1>1, <1>3, <1>4, <1>5 DEF DeskInv, TypeOK, EditedExists, Exists
  <1>8. DoubleBookingNeedsEdit'
    <2> SUFFICES ASSUME NEW x \in Reservations, NEW y \in Reservations,
                        DoubleBooked(x, y)', x # r, y # r
                 PROVE  x \in edited \/ y \in edited
      BY <1>3 DEF DoubleBookingNeedsEdit
    <2>1. DoubleBooked(x, y)
      BY <1>4 DEF DoubleBooked
    <2>2. QED
      BY <2>1 DEF DeskInv, DoubleBookingNeedsEdit
  <1>9. FolioFollowsStay'
    BY <1>1, <1>3, <1>4, <1>5 DEF DeskInv, FolioFollowsStay
  <1>10. QED
    BY <1>2, <1>6, <1>7, <1>8, <1>9 DEF DeskInv

(* Cancelling, checking out and being marked a no-show only take           *)
(* reservations out of the conflict query.                                 *)
LEMMA DeskLeave ==
  ASSUME DeskInv, UNCHANGED <<stay, edited>>,
         \A r \in Reservations :
           /\ status'[r] # status[r] => status'[r] \notin Blocking \cup {"none"}
           /\ rooms'[r] \subseteq rooms[r]
  PROVE  (DoubleBookingNeedsEdit /\ EditedExists)'
  <1>1. DoubleBookingNeedsEdit'
    <2> SUFFICES ASSUME NEW x \in Reservations, NEW y \in Reservations,
                        DoubleBooked(x, y)'
                 PROVE  x \in edited \/ y \in edited
      BY DEF DoubleBookingNeedsEdit
    <2>1. DoubleBooked(x, y)
      BY DEF DoubleBooked
    <2>2. QED
      BY <2>1 DEF DeskInv, DoubleBookingNeedsEdit
  <1>2. EditedExists'
    BY DEF DeskInv, TypeOK, EditedExists, Exists
  <1>3. QED
    BY <1>1, <1>2

LEMMA DeskCancel ==
  ASSUME DeskInv, NEW w \in Workers, Cancel(w)
  PROVE  DeskInv'
  <1> DEFINE r == request[w].res
  <1>1. r \in Reservations
    BY RequestFields DEF DeskInv, TypeOK, Cancel
  <1>2. TypeOK'
    BY TypeReservation DEF DeskInv
  <1>3. \A s \in Reservations :
          /\ status'[s] = IF s = r THEN "CANC" ELSE status[s]
          /\ rooms'[s] \subseteq rooms[s]
    BY <1>1 DEF Cancel, DeskInv, TypeOK
  <1>4. Answered(w) /\ UNCHANGED <<stay, edited, folio>>
    BY DEF Cancel, cash
  <1>5. (RequestNamesRow /\ CheckInSawStay /\ CheckOutSawFolio)'
    BY <1>3, <1>4, RequestsKeep DEF Exists
  <1>6. (DoubleBookingNeedsEdit /\ EditedExists)'
    BY <1>3, <1>4, DeskLeave DEF Blocking
  <1>7. FolioFollowsStay'
    BY <1>3, <1>4 DEF DeskInv, FolioFollowsStay
  <1>8. QED
    BY <1>2, <1>5, <1>6, <1>7 DEF DeskInv

LEMMA DeskCheckOut ==
  ASSUME DeskInv, NEW w \in Workers, CheckOut(w)
  PROVE  DeskInv'
  <1> DEFINE r == request[w].res
  <1>1. r \in Reservations /\ folio[r] # "none"
    BY RequestFields DEF DeskInv, TypeOK, CheckOut, CheckOutSawFolio
  <1>2. TypeOK'
    BY TypeStay DEF DeskInv
  <1>3. CASE Refused(w)
    BY <1>3, DeskRefused
  <1>4. ASSUME NEW left, NEW cleaned, MoveOut(w, r, left, cleaned)
        PROVE  DeskInv'
    <2>1. \A s \in Reservations :
            /\ status'[s] = IF s = r THEN "CHOUT" ELSE status[s]
            /\ folio'[s] = IF s = r THEN "SETL" ELSE folio[s]
      BY <1>1, <1>4 DEF MoveOut, SettleFolio, DeskInv, TypeOK
    <2>2. Answered(w) /\ UNCHANGED <<stay, rooms, edited>>
      BY <1>4 DEF MoveOut
    <2>3. (RequestNamesRow /\ CheckInSawStay /\ CheckOutSawFolio)'
      BY <2>1, <2>2, RequestsKeep DEF Exists
    <2>4. (DoubleBookingNeedsEdit /\ EditedExists)'
      BY <2>1, <2>2, DeskLeave DEF Blocking
    <2>5. FolioFollowsStay'
      BY <2>1 DEF DeskInv, FolioFollowsStay
    <2>6. QED
      BY <1>2, <2>3, <2>4, <2>5 DEF DeskInv
  <1>5. QED
    BY <1>3, <1>4 DEF CheckOut

(* A check-in takes a unit nobody else has for the dates it fetched, and   *)
(* unless the reservation was edited these are its dates.                  *)
LEMMA DeskCheckIn ==
  ASSUME DeskInv, NEW w \in Workers, CheckIn(w)
  PROVE  DeskInv'
  <1> DEFINE q == request[w]
  <1>1. PICK r \in Reservations : r = q.res /\ (r \in edited \/ q.stay = stay[r])
    BY RequestFields DEF DeskInv, TypeOK, CheckIn, CheckInSawStay
  <1>2. TypeOK'
    BY TypeStay DEF DeskInv
  <1>3. CASE Refused(w)
    BY <1>3, DeskRefused
  <1>4. ASSUME MoveIn(w), q.unit \notin Conflicting(q.stay, Reservations \ {r})
        PROVE  DeskInv'
    <2>1. \A s \in Reservations :
            /\ status'[s] = IF s = r THEN "CHIN" ELSE status[s]
            /\ rooms'[s] = IF s = r THEN {q.unit} ELSE rooms[s]
      BY <1>1, <1>4 DEF MoveIn, DeskInv, TypeOK
    <2>2. \A s \in Reservations :
            folio'[s] = IF s = r /\ folio[s] = "none" THEN "OPEN" ELSE folio[s]
      BY <1>1, <1>4 DEF MoveIn, OpenFolio, DeskInv, TypeOK
    <2>3. Answered(w) /\ UNCHANGED <<stay, edited>>
      BY <1>4 DEF MoveIn
    <2>4. (RequestNamesRow /\ CheckInSawStay /\ CheckOutSawFolio)'
      BY <2>1, <2>2, <2>3, RequestsKeep DEF Exists
    <2>5. EditedExists'
      BY <2>1, <2>3 DEF DeskInv, TypeOK, EditedExists, Exists
    <2>6. ASSUME r \notin edited, NEW s \in Reservations, DoubleBooked(r, s)'
          PROVE  FALSE
      <3>1. /\ s # r /\ status[s] \in Blocking
            /\ q.unit \in rooms[s] /\ Overlap(stay[s], q.stay)
        BY <1>1, <2>1, <2>3, <2>6 DEF DoubleBooked, Overlap
      <3>2. q.unit \in Conflicting(q.stay, Reservations \ {r})
        BY <3>1 DEF Conflicting
      <3>3. QED
        BY <1>4, <3>2
    <2>7. DoubleBookingNeedsEdit'
      <3> SUFFICES ASSUME NEW x \in Reservations, NEW y \in Reservations,
                          DoubleBooked(x, y)'
                   PROVE  x \in edited \/ y \in edited
        BY <2>3 DEF DoubleBookingNeedsEdit
      <3>1. CASE x # r /\ y # r
        <4>1. DoubleBooked(x, y)
          BY <2>1, <2>3, <3>1 DEF DoubleBooked
        <4>2. QED
          BY <4>1 DEF DeskInv, DoubleBookingNeedsEdit
      <3>2. CASE x = r
        BY <2>6, <3>2
      <3>3. CASE y = r
        <4>1. DoubleBooked(r, x)'
          BY <3>3 DEF DoubleBooked, Overlap
        <4>2. QED
          BY <2>6, <3>3, <4>1
      <3>4. QED
        BY <3>1, <3>2, <3>3
    <2>8. FolioFollowsStay'
      BY <2>1, <2>2 DEF DeskInv, FolioFollowsStay
    <2>9. QED
      BY <1>2, <2>4, <2>5, <2>7, <2>8 DEF DeskInv
  <1>5. QED
    BY <1>1, <1>3, <1>4 DEF CheckIn
(* Steps that do not answer a request: what requests know stays true.      *)
LEMMA RequestsWait ==
  ASSUME DeskInv, UNCHANGED <<request, stay, edited>>,
         \A r \in Reservations : (Exists(r) => Exists(r)') /\ folio'[r] = folio[r]
  PROVE  (RequestNamesRow /\ CheckInSawStay /\ CheckOutSawFolio)'
  <1>1. \A w \in Workers :
          request[w].kind \in {"edit", "checkIn", "checkOut", "cancel"} =>
            request[w].res \in Reservations
    BY RequestFields DEF DeskInv, TypeOK
  <1>2. QED
    BY <1>1 DEF DeskInv, RequestNamesRow, CheckInSawStay, CheckOutSawFolio, Exists

(* The audit marks confirmed reservations only, and those lose their claim *)
(* on a room.                                                              *)
LEMMA DeskNoShow ==
  ASSUME DeskInv, AuditNoShow
  PROVE  DeskInv'
  <1>1. TypeOK'
    BY TypeNight DEF DeskInv
  <1>2. \A r \in Reservations :
          status'[r] # status[r] => status[r] = "CONF" /\ status'[r] = "NOSH"
    BY DEF AuditNoShow, DeskInv, TypeOK
  <1>3. UNCHANGED <<stay, rooms, edited, folio, request>>
    BY DEF AuditNoShow, cash
  <1>4. (RequestNamesRow /\ CheckInSawStay /\ CheckOutSawFolio)'
    BY <1>2, <1>3, RequestsWait DEF Exists
  <1>5. (DoubleBookingNeedsEdit /\ EditedExists)'
    BY <1>2, <1>3, DeskLeave DEF Blocking
  <1>6. FolioFollowsStay'
    BY <1>2, <1>3 DEF DeskInv, FolioFollowsStay
  <1>7. QED
    BY <1>1, <1>4, <1>5, <1>6 DEF DeskInv

LEMMA DeskStep == DeskInv /\ [Next]_vars => DeskInv'
  <1> SUFFICES ASSUME DeskInv, [Next]_vars PROVE DeskInv'
    OBVIOUS
  <1>1. TypeOK'
    BY TypeStep DEF DeskInv
  <1>2. ASSUME UNCHANGED <<desk, folio, request>> PROVE DeskInv'
    <2>1. (RequestNamesRow /\ CheckInSawStay /\ CheckOutSawFolio)'
      BY <1>2, RequestsWait DEF desk, Exists
    <2>2. QED
      BY <1>1, <1>2, <2>1, DeskUntouched DEF DeskInv
  <1>3. ASSUME NEW w \in Workers, Work(w) PROVE DeskInv'
    <2>1. CASE UpdateTask(w)
      <3>1. (RequestNamesRow /\ CheckInSawStay /\ CheckOutSawFolio)'
        BY <2>1, RequestsKeep DEF UpdateTask, desk, cash, Exists
      <3>2. QED
        BY <1>1, <2>1, <3>1, DeskUntouched DEF UpdateTask, DeskInv, cash
    <2>2. QED
      BY <1>3, <2>1, DeskFetch, DeskBook, DeskEdit, DeskCancel, DeskCheckIn, DeskCheckOut
         DEF Work
  <1>4. ASSUME NEW r \in Reservations, PostCharge(r) \/ TakePayment(r) \/ AuditPost(r)
        PROVE  DeskInv'
    BY <1>2, <1>4 DEF PostCharge, TakePayment, AuditPost, desk
  <1>5. ASSUME NEW u \in Repairable, SetService(u) PROVE DeskInv'
    BY <1>2, <1>5 DEF SetService, cash
  <1>6. CASE Midnight \/ AuditStart \/ AuditDies
    BY <1>2, <1>6 DEF Midnight, AuditStart, AuditDies, cash
  <1>7. CASE AuditNoShow
    BY <1>7, DeskNoShow
  <1>8. ASSUME NEW r \in Reservations, ResendLink(r) PROVE DeskInv'
    BY <1>2, <1>8 DEF ResendLink, cash
  <1>9. CASE UNCHANGED vars
    BY <1>2, <1>9 DEF vars, cash
  <1>10. QED
    BY <1>3, <1>4, <1>5, <1>6, <1>7, <1>8, <1>9 DEF Next

LEMMA DeskInvariant == Spec => []DeskInv
  <1>1. QED
    BY DeskInit, DeskStep, PTL DEF Spec

(* Whatever the interleaving of requests, two reservations have the same   *)
(* room for the same night only if one of them went through the edit form. *)
THEOREM DoubleBookingsComeFromEdits == Spec => []DoubleBookingNeedsEdit
  <1>1. DeskInv => DoubleBookingNeedsEdit
    BY DEF DeskInv
  <1>2. QED
    BY <1>1, DeskInvariant, PTL

(* Whatever the interleaving, a guest in house has a folio and a departure *)
(* leaves it settled.                                                      *)
THEOREM FoliosFollowStays == Spec => []FolioFollowsStay
  <1>1. DeskInv => FolioFollowsStay
    BY DEF DeskInv
  <1>2. QED
    BY <1>1, DeskInvariant, PTL
-----------------------------------------------------------------------------
(***************************************************************************)
(* The calendar keeps its promise, and the front desk implements it.       *)
(***************************************************************************)

Entry == [holder : Reservations, stay : Stays]

(* A reservation that gets free rooms for its stay, everything else as it  *)
(* was, is a Hold of the calendar.                                         *)
LEMMA HoldStep ==
  ASSUME NEW r \in Reservations, NEW s \in Stays, NEW us \in SUBSET Units,
         r \notin edited, UNCHANGED edited,
         status'[r] \in Blocking, stay'[r] = s, rooms'[r] = us,
         \A x \in Reservations \ {r} :
           status'[x] = status[x] /\ stay'[x] = stay[x] /\ rooms'[x] = rooms[x],
         us \cap Conflicting(s, Reservations \ {r}) = {}
  PROVE  Calendar!Hold(r, s, us)
  <1>1. ASSUME NEW u \in us PROVE Calendar!Free(u, r, s)
    <2> SUFFICES ASSUME NEW e \in Booked[u], e.holder # r, Calendar!Overlap(e.stay, s)
                 PROVE  FALSE
      BY DEF Calendar!Free
    <2>1. /\ e.holder \in Reservations \ {r} /\ status[e.holder] \in Blocking
          /\ u \in rooms[e.holder] /\ Overlap(stay[e.holder], s)
      BY DEF Booked, Calendar!Overlap, Overlap
    <2>2. u \in Conflicting(s, Reservations \ {r})
      BY <2>1 DEF Conflicting
    <2>3. QED
      BY <2>2
  <1>2. ASSUME NEW u \in Units
        PROVE  Booked'[u] = {e \in Booked[u] : e.holder # r}
                              \cup {e \in Entry : u \in us /\ e.holder = r /\ e.stay = s}
    <2>1. ASSUME NEW e \in Entry
          PROVE  e \in Booked'[u] <=>
                   \/ e \in Booked[u] /\ e.holder # r
                   \/ u \in us /\ e.holder = r /\ e.stay = s
      <3>1. CASE e.holder = r
        BY <3>1 DEF Booked, Entry
      <3>2. CASE e.holder # r
        BY <3>2 DEF Booked, Entry
      <3>3. QED
        BY <3>1, <3>2
    <2>2. Booked[u] \subseteq Entry /\ Booked'[u] \subseteq Entry
      BY DEF Booked, Entry
    <2>3. QED
      BY <2>1, <2>2
  <1>3. Booked' = [u \in Units |-> {e \in Booked[u] : e.holder # r}
                     \cup {e \in Entry : u \in us /\ e.holder = r /\ e.stay = s}]
    BY <1>2 DEF Booked
  <1>4. QED
    BY <1>1, <1>3 DEF Calendar!Hold, Calendar!Entries, Entry

(* Reservations that leave the calendar, the others as they were, are a    *)
(* Release.                                                                *)
LEMMA ReleaseStep ==
  ASSUME NEW hs \in SUBSET Reservations,
         \A x \in hs : x \in edited' \/ status'[x] \notin Blocking,
         edited \subseteq edited', edited' \subseteq edited \cup hs,
         \A x \in Reservations \ hs :
           status'[x] = status[x] /\ stay'[x] = stay[x] /\ rooms'[x] = rooms[x]
  PROVE  Calendar!Release(hs)
  <1>1. ASSUME NEW u \in Units
        PROVE  Booked'[u] = {e \in Booked[u] : e.holder \notin hs}
    <2>1. ASSUME NEW e \in Entry
          PROVE  e \in Booked'[u] <=> e \in Booked[u] /\ e.holder \notin hs
      <3>1. CASE e.holder \in hs
        BY <3>1 DEF Booked, Entry
      <3>2. CASE e.holder \notin hs
        BY <3>2 DEF Booked, Entry
      <3>3. QED
        BY <3>1, <3>2
    <2>2. Booked[u] \subseteq Entry /\ Booked'[u] \subseteq Entry
      BY DEF Booked, Entry
    <2>3. QED
      BY <2>1, <2>2
  <1>2. Booked' = [u \in Units |-> {e \in Booked[u] : e.holder \notin hs}]
    BY <1>1 DEF Booked
  <1>3. QED
    BY <1>2 DEF Calendar!Release

LEMMA ReleaseIsStep ==
  ASSUME NEW hs \in SUBSET Reservations, Calendar!Release(hs)
  PROVE  Calendar!Next
  BY DEF Calendar!Next

LEMMA CalendarBook ==
  ASSUME DeskInv, NEW w \in Workers, Book(w)
  PROVE  Calendar!Next \/ UNCHANGED Booked
  <1> DEFINE q == request[w]
  <1>1. CASE Refused(w)
    BY <1>1 DEF Refused, desk, Booked
  <1>2. ASSUME NEW r \in Reservations, SaveBooking(w, r),
               q.unit \notin Conflicting(q.stay, Reservations)
        PROVE  Calendar!Next
    <2>1. q.stay \in Stays /\ q.unit \in Units
      BY RequestFields DEF DeskInv, TypeOK, Book
    <2>2. r \notin edited
      BY <1>2 DEF SaveBooking, DeskInv, EditedExists, Exists
    <2>3. /\ status'[r] = "CONF" /\ stay'[r] = q.stay /\ rooms'[r] = {q.unit}
          /\ \A x \in Reservations \ {r} :
               status'[x] = status[x] /\ stay'[x] = stay[x] /\ rooms'[x] = rooms[x]
      BY <1>2 DEF SaveBooking, DeskInv, TypeOK
    <2>4. {q.unit} \cap Conflicting(q.stay, Reservations \ {r}) = {}
      BY <1>2 DEF Conflicting
    <2>5. Calendar!Hold(r, q.stay, {q.unit})
      BY <1>2, <2>1, <2>2, <2>3, <2>4, HoldStep DEF SaveBooking, Blocking
    <2>6. QED
      BY <2>1, <2>5 DEF Calendar!Next
  <1>3. QED
    BY <1>1, <1>2 DEF Book

LEMMA CalendarEdit ==
  ASSUME DeskInv, NEW w \in Workers, Edit(w)
  PROVE  Calendar!Next
  <1>1. PICK r \in Reservations : r = request[w].res
    BY RequestFields DEF DeskInv, TypeOK, Edit
  <1>2. edited' = edited \cup {r}
    BY <1>1 DEF Edit
  <1>3. \A x \in Reservations \ {r} :
          status'[x] = status[x] /\ stay'[x] = stay[x] /\ rooms'[x] = rooms[x]
    BY <1>1 DEF Edit, DeskInv, TypeOK
  <1>4. Calendar!Release({r})
    BY <1>2, <1>3, ReleaseStep
  <1>5. QED
    BY <1>4, ReleaseIsStep

LEMMA CalendarLeave ==
  ASSUME DeskInv, NEW w \in Workers, Cancel(w) \/ CheckOut(w)
  PROVE  Calendar!Next \/ UNCHANGED Booked
  <1>1. PICK r \in Reservations : r = request[w].res
    BY RequestFields DEF DeskInv, TypeOK, Cancel, CheckOut
  <1>2. CASE Refused(w)
    BY <1>2 DEF Refused, desk, Booked
  <1>3. CASE ~Refused(w)
    <2>1. /\ status'[r] \in {"CANC", "CHOUT"} /\ UNCHANGED <<stay, edited>>
          /\ \A x \in Reservations \ {r} : status'[x] = status[x] /\ rooms'[x] = rooms[x]
      BY <1>1, <1>3 DEF Cancel, CheckOut, MoveOut, DeskInv, TypeOK
    <2>2. Calendar!Release({r})
      BY <2>1, ReleaseStep DEF Blocking
    <2>3. QED
      BY <2>2, ReleaseIsStep
  <1>4. QED
    BY <1>2, <1>3

(* The check-in of an edited reservation is not on the calendar.           *)
LEMMA CalendarCheckIn ==
  ASSUME DeskInv, NEW w \in Workers, CheckIn(w)
  PROVE  Calendar!Next \/ UNCHANGED Booked
  <1> DEFINE q == request[w]
  <1>1. PICK r \in Reservations :
          r = q.res /\ (r \in edited \/ q.stay = stay[r]) /\ q.unit \in Units
    BY RequestFields DEF DeskInv, TypeOK, CheckIn, CheckInSawStay
  <1>2. CASE Refused(w)
    BY <1>2 DEF Refused, desk, Booked
  <1>3. ASSUME MoveIn(w), q.unit \notin Conflicting(q.stay, Reservations \ {r})
        PROVE  Calendar!Next
    <2>1. /\ status'[r] = "CHIN" /\ rooms'[r] = {q.unit} /\ UNCHANGED <<stay, edited>>
          /\ \A x \in Reservations \ {r} : status'[x] = status[x] /\ rooms'[x] = rooms[x]
      BY <1>1, <1>3 DEF MoveIn, DeskInv, TypeOK
    <2>2. CASE r \in edited
      <3>1. Calendar!Release({r})
        BY <2>1, <2>2, ReleaseStep
      <3>2. QED
        BY <3>1, ReleaseIsStep
    <2>3. CASE r \notin edited
      <3>1. stay[r] \in Stays
        BY DEF DeskInv, TypeOK
      <3>2. Calendar!Hold(r, stay[r], {q.unit})
        BY <1>1, <1>3, <2>1, <2>3, <3>1, HoldStep DEF Blocking
      <3>3. QED
        BY <1>1, <3>1, <3>2 DEF Calendar!Next
    <2>4. QED
      BY <2>2, <2>3
  <1>4. QED
    BY <1>1, <1>2, <1>3 DEF CheckIn

LEMMA CalendarNoShow ==
  ASSUME DeskInv, AuditNoShow
  PROVE  Calendar!Next
  <1> DEFINE hs == {r \in Reservations : status'[r] # status[r]}
  <1>1. \A r \in hs : status'[r] \notin Blocking
    BY DEF AuditNoShow, DeskInv, TypeOK, Blocking
  <1>2. UNCHANGED <<stay, rooms, edited>>
    BY DEF AuditNoShow
  <1> HIDE DEF hs
  <1>3. hs \subseteq Reservations /\ \A r \in Reservations \ hs : status'[r] = status[r]
    BY DEF hs
  <1>4. Calendar!Release(hs)
    BY <1>1, <1>2, <1>3, ReleaseStep
  <1>5. QED
    BY <1>3, <1>4, ReleaseIsStep

LEMMA CalendarInit == Init => Calendar!Init
  BY DEF Init, Calendar!Init, Booked, Blocking

LEMMA CalendarStep == DeskInv /\ [Next]_vars => [Calendar!Next]_Booked
  <1> SUFFICES ASSUME DeskInv, [Next]_vars PROVE Calendar!Next \/ UNCHANGED Booked
    OBVIOUS
  <1>1. UNCHANGED desk => UNCHANGED Booked
    BY DEF desk, Booked
  <1>2. ASSUME NEW w \in Workers, Work(w) PROVE Calendar!Next \/ UNCHANGED Booked
    <2>1. CASE FetchBook(w) \/ FetchEdit(w) \/ FetchCancel(w) \/ FetchCheckIn(w)
                 \/ FetchCheckOut(w) \/ FetchTask(w) \/ UpdateTask(w)
      <3>1. UNCHANGED desk
        BY <2>1 DEF FetchBook, FetchEdit, FetchCancel, FetchCheckIn, FetchCheckOut,
                    FetchTask, Fetched, UpdateTask
      <3>2. QED
        BY <1>1, <3>1
    <2>2. QED
      BY <1>2, <2>1, CalendarBook, CalendarEdit, CalendarLeave, CalendarCheckIn DEF Work
  <1>3. CASE AuditNoShow
    BY <1>3, CalendarNoShow
  <1>4. ASSUME NEW r \in Reservations, PostCharge(r) \/ TakePayment(r) \/ AuditPost(r)
        PROVE  UNCHANGED Booked
    BY <1>1, <1>4 DEF PostCharge, TakePayment, AuditPost
  <1>5. ASSUME NEW u \in Repairable, SetService(u) PROVE UNCHANGED Booked
    BY <1>1, <1>5 DEF SetService
  <1>6. CASE Midnight \/ AuditStart \/ AuditDies
    BY <1>1, <1>6 DEF Midnight, AuditStart, AuditDies
  <1>7. ASSUME NEW r \in Reservations, ResendLink(r) PROVE UNCHANGED Booked
    BY <1>1, <1>7 DEF ResendLink
  <1>8. CASE UNCHANGED vars
    BY <1>1, <1>8 DEF vars
  <1>9. QED
    BY <1>2, <1>3, <1>4, <1>5, <1>6, <1>7, <1>8 DEF Next

(* The front desk, under every interleaving of its requests with the night *)
(* audit, implements the calendar for the reservations never edited.       *)
THEOREM FrontDeskImplementsCalendar == Spec => ImplementsCalendar
  <1>1. QED
    BY CalendarInit, CalendarStep, DeskInvariant, PTL
       DEF Spec, ImplementsCalendar, Calendar!Spec
-----------------------------------------------------------------------------
(* What the calendar promises to whoever implements it.                    *)

LEMMA NightsInit == Calendar!Init => Calendar!NoSharedNight
  BY DEF Calendar!Init, Calendar!NoSharedNight

(* A new entry was checked against the entries of every other holder.      *)
LEMMA NightsHold ==
  ASSUME Calendar!NoSharedNight, NEW h \in Reservations, NEW s \in Stays, NEW us \in SUBSET Units,
         Calendar!Hold(h, s, us)
  PROVE  Calendar!NoSharedNight'
  <1> SUFFICES ASSUME NEW u \in Units, NEW e \in Booked'[u], NEW f \in Booked'[u],
                      e.holder # f.holder
               PROVE  ~Calendar!Overlap(e.stay, f.stay)
    BY DEF Calendar!NoSharedNight
  <1>1. ASSUME NEW x \in Booked'[u]
        PROVE  \/ x \in Booked[u] /\ x.holder # h
               \/ u \in us /\ x.holder = h /\ x.stay = s
    BY DEF Calendar!Hold
  <1>2. u \in us => \A x \in Booked[u] : x.holder = h \/ ~Calendar!Overlap(x.stay, s)
    BY DEF Calendar!Hold, Calendar!Free
  <1>3. CASE e.holder # h /\ f.holder # h
    BY <1>1, <1>3 DEF Calendar!NoSharedNight
  <1>4. CASE e.holder = h
    BY <1>1, <1>2, <1>4 DEF Calendar!Overlap
  <1>5. CASE f.holder = h
    BY <1>1, <1>2, <1>5 DEF Calendar!Overlap
  <1>6. QED
    BY <1>3, <1>4, <1>5

LEMMA NightsRelease ==
  ASSUME Calendar!NoSharedNight, NEW hs \in SUBSET Reservations, Calendar!Release(hs)
  PROVE  Calendar!NoSharedNight'
  BY DEF Calendar!NoSharedNight, Calendar!Release

(* No two holders of the calendar ever have the same room for the same     *)
(* night, whatever is taken and given up.                                  *)
THEOREM NoNightIsShared == Calendar!Spec => []Calendar!NoSharedNight
  <1>1. Calendar!NoSharedNight /\ [Calendar!Next]_Booked => Calendar!NoSharedNight'
    <2> SUFFICES ASSUME Calendar!NoSharedNight, [Calendar!Next]_Booked
                 PROVE  Calendar!NoSharedNight'
      OBVIOUS
    <2>1. CASE UNCHANGED Booked
      BY <2>1 DEF Calendar!NoSharedNight
    <2>2. QED
      BY <2>1, NightsHold, NightsRelease DEF Calendar!Next
  <1>2. QED
    BY <1>1, NightsInit, PTL DEF Calendar!Spec
-----------------------------------------------------------------------------
(* A front desk worked by one request at a time.  Between the fetch of a   *)
(* request and its commit only the night audit, the clock, resent links    *)
(* and money move, so what the request saw is still true of its own        *)
(* reservation when it commits: a confirmation may have become a no-show,  *)
(* a unit may have been released, a task may have been added.              *)

OneWorker == \A v, w \in Workers : v = w

OneRoomEach == \A r \in Reservations : \A u, v \in rooms[r] : u = v

RowsNotGone == {"CONF", "CANC", "NOSH"}

EditIsCurrent(q) ==
  q.kind = "edit" =>
    /\ status[q.res] \in {"CONF", "NOSH"}
    /\ q.unit \notin Conflicting(q.stay, Reservations \ {q.res})

CheckInIsCurrent(q) ==
  q.kind = "checkIn" => status[q.res] \in {"CONF", "NOSH"} /\ q.stay = stay[q.res]

CancelIsCurrent(q) == q.kind = "cancel" => status[q.res] \in RowsNotGone

(* A check-out in the browser prefetched the rooms it will leave; an       *)
(* offline one prefetches nothing.                                         *)
CheckOutIsCurrent(q) ==
  q.kind = "checkOut" =>
    /\ status[q.res] = "CHIN"
    /\ "sync" \notin Channels =>
         {u \in rooms[q.res] : unitStatus[u] = "OCC"} \subseteq q.occupied

TaskIsCurrent(q) == q.kind = "task" => q.index \in DOMAIN tasks[q.unit]

IsCurrent(q) ==
  /\ EditIsCurrent(q) /\ CheckInIsCurrent(q) /\ CancelIsCurrent(q)
  /\ CheckOutIsCurrent(q) /\ TaskIsCurrent(q)

RequestsAreCurrent == \A w \in Workers : IsCurrent(request[w])

SerialInv ==
  /\ TypeOK
  /\ OneRoomEach
  /\ RequestsAreCurrent
  /\ NoDoubleBooking
  /\ OccupiedRoomsHaveGuests
  /\ "sync" \notin Channels => CleaningIsOnTheList

LEMMA SerialInit == Init => SerialInv
  <1> SUFFICES ASSUME Init PROVE SerialInv
    OBVIOUS
  <1>1. TypeOK
    BY TypeInit
  <1>2. RequestsAreCurrent
    BY DEF Init, RequestsAreCurrent, IsCurrent, EditIsCurrent, CheckInIsCurrent,
           CancelIsCurrent, CheckOutIsCurrent, TaskIsCurrent, Idle
  <1>3. OneRoomEach /\ NoDoubleBooking
    BY DEF Init, OneRoomEach, NoDoubleBooking, DoubleBooked, Blocking
  <1>4. OccupiedRoomsHaveGuests /\ CleaningIsOnTheList
    BY DEF Init, OccupiedRoomsHaveGuests, CleaningIsOnTheList
  <1>5. QED
    BY <1>1, <1>2, <1>3, <1>4 DEF SerialInv

(* The idle request knows nothing, so a worker that answered, and was the  *)
(* only one, leaves no request that could be stale.                        *)
LEMMA AnsweredIsCurrent ==
  ASSUME OneWorker, TypeOK, NEW w \in Workers, Answered(w)
  PROVE  RequestsAreCurrent'
  <1>1. \A v \in Workers : request'[v] = Idle
    BY DEF OneWorker, TypeOK, Answered
  <1>2. Idle.kind = "idle"
    BY DEF Idle
  <1>3. QED
    BY <1>1, <1>2 DEF RequestsAreCurrent, IsCurrent, EditIsCurrent, CheckInIsCurrent,
                      CancelIsCurrent, CheckOutIsCurrent, TaskIsCurrent

(* Fetching leaves the tables alone and sees what is there.                *)
LEMMA FetchSees ==
  ASSUME OneWorker, SerialInv, NEW w \in Workers, NEW q, Fetched(w, q), IsCurrent(q),
         TypeOK'
  PROVE  SerialInv'
  <1>1. UNCHANGED <<status, stay, rooms, unitStatus, tasks>>
    BY DEF Fetched, desk, house
  <1>2. \A v \in Workers : request'[v] = q
    BY DEF OneWorker, SerialInv, TypeOK, Fetched
  <1>3. IsCurrent(q)'
    BY <1>1 DEF IsCurrent, EditIsCurrent, CheckInIsCurrent, CancelIsCurrent,
                CheckOutIsCurrent, TaskIsCurrent, Conflicting
  <1>4. RequestsAreCurrent'
    BY <1>2, <1>3 DEF RequestsAreCurrent, IsCurrent, EditIsCurrent, CheckInIsCurrent,
                      CancelIsCurrent, CheckOutIsCurrent, TaskIsCurrent, Conflicting
  <1>5. (OneRoomEach /\ NoDoubleBooking)'
    BY <1>1 DEF SerialInv, OneRoomEach, NoDoubleBooking, DoubleBooked
  <1>6. OccupiedRoomsHaveGuests' /\ (CleaningIsOnTheList => CleaningIsOnTheList')
    BY <1>1 DEF SerialInv, OccupiedRoomsHaveGuests, CleaningIsOnTheList, HasCleaning
  <1>7. QED
    BY <1>4, <1>5, <1>6 DEF SerialInv

LEMMA SerialFetch ==
  ASSUME OneWorker, SerialInv, NEW w \in Workers,
         FetchBook(w) \/ FetchEdit(w) \/ FetchCancel(w) \/ FetchCheckIn(w)
           \/ FetchCheckOut(w) \/ FetchTask(w)
  PROVE  SerialInv'
  <1> USE DEF IsCurrent, EditIsCurrent, CheckInIsCurrent, CancelIsCurrent,
              CheckOutIsCurrent, TaskIsCurrent
  <1>1. TypeOK'
    BY TypeFetch DEF SerialInv
  <1>2. PICK q : Fetched(w, q) /\ IsCurrent(q)
    <2>1. CASE FetchBook(w)
      BY <2>1 DEF FetchBook
    <2>2. CASE FetchEdit(w)
      <3>1. PICK r \in Reservations, s \in Stays, nr \in BOOLEAN :
              /\ status[r] \in {"CONF", "NOSH"}
              /\ \E u \in AvailableUnits(s, rooms[r])
                            \ Conflicting(s, Reservations \ {r}) :
                   Fetched(w, [kind |-> "edit", res |-> r, seen |-> status[r],
                               stay |-> s, unit |-> u, newRate |-> nr])
        BY <2>2 DEF FetchEdit
      <3>2. PICK u : /\ u \notin Conflicting(s, Reservations \ {r})
                     /\ Fetched(w, [kind |-> "edit", res |-> r, seen |-> status[r],
                                    stay |-> s, unit |-> u, newRate |-> nr])
        BY <3>1
      <3> DEFINE q == [kind |-> "edit", res |-> r, seen |-> status[r],
                       stay |-> s, unit |-> u, newRate |-> nr]
      <3>3. q.kind = "edit" /\ q.res = r /\ q.stay = s /\ q.unit = u
        OBVIOUS
      <3>4. Fetched(w, q)
        BY <3>2
      <3> HIDE DEF q
      <3>5. IsCurrent(q)
        BY <3>1, <3>2, <3>3
      <3>6. QED
        BY <3>4, <3>5
    <2>3. CASE FetchCancel(w)
      BY <2>3 DEF FetchCancel, RowsNotGone
    <2>4. CASE FetchCheckIn(w)
      BY <2>4 DEF FetchCheckIn
    <2>5. CASE FetchCheckOut(w)
      <3>1. PICK r \in Reservations, ch \in Channels :
              LET rows == IF ch = "web" THEN rooms[r] ELSE {} IN
              /\ status[r] = "CHIN"
              /\ Fetched(w, [kind |-> "checkOut", res |-> r, rows |-> rows,
                             occupied |-> {u \in rows : unitStatus[u] = "OCC"}])
        BY <2>5 DEF FetchCheckOut
      <3>2. "sync" \notin Channels => ch = "web"
        BY FrontDeskAssumption
      <3> DEFINE rows == IF ch = "web" THEN rooms[r] ELSE {}
                 occ == {u \in rows : unitStatus[u] = "OCC"}
                 q == [kind |-> "checkOut", res |-> r, rows |-> rows, occupied |-> occ]
      <3>3. Fetched(w, q) /\ status[r] = "CHIN"
        BY <3>1
      <3>4. "sync" \notin Channels => {u \in rooms[r] : unitStatus[u] = "OCC"} \subseteq occ
        BY <3>2
      <3>5. q.kind = "checkOut" /\ q.res = r /\ q.occupied = occ
        OBVIOUS
      <3> HIDE DEF occ, q
      <3>6. IsCurrent(q)
        BY <3>3, <3>4, <3>5
      <3>7. QED
        BY <3>3, <3>6
    <2>6. CASE FetchTask(w)
      BY <2>6 DEF FetchTask
    <2>7. QED
      BY <2>1, <2>2, <2>3, <2>4, <2>5, <2>6
  <1>3. QED
    BY <1>1, <1>2, FetchSees

(* What stays true while a request waits: nobody else moves a guest, and   *)
(* units are only released.                                                *)
LEMMA SerialWaits ==
  ASSUME SerialInv, UNCHANGED <<stay, rooms, request>>,
         \A r \in Reservations :
           \/ status'[r] = status[r]
           \/ status[r] = "CONF" /\ status'[r] = "NOSH",
         \A u \in Units : /\ unitStatus'[u] = "OCC" => unitStatus[u] = "OCC"
                          /\ DOMAIN tasks[u] \subseteq DOMAIN tasks'[u]
  PROVE  (OneRoomEach /\ RequestsAreCurrent /\ NoDoubleBooking
            /\ OccupiedRoomsHaveGuests)'
  <1>1. OneRoomEach'
    BY DEF SerialInv, OneRoomEach
  <1>2. NoDoubleBooking'
    BY DEF SerialInv, NoDoubleBooking, DoubleBooked, Blocking
  <1>3. OccupiedRoomsHaveGuests'
    BY DEF SerialInv, OccupiedRoomsHaveGuests
  <1>4. ASSUME NEW w \in Workers PROVE IsCurrent(request[w])'
    <2> DEFINE q == request[w]
    <2>1. IsCurrent(q) /\ q \in Request /\ q' = q
      BY DEF SerialInv, RequestsAreCurrent, TypeOK
    <2>2. EditIsCurrent(request[w])'
      <3> SUFFICES ASSUME q.kind = "edit"
                   PROVE  /\ status'[q.res] \in {"CONF", "NOSH"}
                          /\ q.unit \notin Conflicting(q.stay, Reservations \ {q.res})'
        BY <2>1 DEF EditIsCurrent, Conflicting
      <3>1. q.res \in Reservations
        BY <2>1, RequestFields
      <3>2. Conflicting(q.stay, Reservations \ {q.res})'
              \subseteq Conflicting(q.stay, Reservations \ {q.res})
        BY <2>1 DEF Conflicting, Blocking
      <3>3. QED
        BY <2>1, <3>1, <3>2 DEF IsCurrent, EditIsCurrent
    <2>3. CheckInIsCurrent(request[w])' /\ CancelIsCurrent(request[w])'
      BY <2>1, RequestFields DEF IsCurrent, CheckInIsCurrent, CancelIsCurrent, RowsNotGone
    <2>4. CheckOutIsCurrent(request[w])'
      <3> SUFFICES ASSUME q.kind = "checkOut"
                   PROVE  CheckOutIsCurrent(request[w])'
        BY <2>1 DEF CheckOutIsCurrent
      <3>1. q.res \in Reservations /\ rooms[q.res] \subseteq Units
        BY <2>1, RequestFields DEF SerialInv, TypeOK
      <3>2. {u \in rooms'[q.res] : unitStatus'[u] = "OCC"}
              \subseteq {u \in rooms[q.res] : unitStatus[u] = "OCC"}
        BY <3>1
      <3>3. status'[q.res] = "CHIN"
        BY <2>1, <3>1 DEF IsCurrent, CheckOutIsCurrent
      <3>4. QED
        BY <2>1, <3>2, <3>3 DEF IsCurrent, CheckOutIsCurrent
    <2>5. TaskIsCurrent(request[w])'
      BY <2>1, RequestFields DEF IsCurrent, TaskIsCurrent
    <2>6. QED
      BY <2>2, <2>3, <2>4, <2>5 DEF IsCurrent
  <1>5. QED
    BY <1>1, <1>2, <1>3, <1>4 DEF RequestsAreCurrent

(* A reservation that takes one unit nobody else has for its dates.        *)
LEMMA TakesRoom ==
  ASSUME SerialInv, NEW r \in Reservations, NEW s, NEW u,
         u \notin Conflicting(s, Reservations \ {r}),
         rooms'[r] = {u}, stay'[r] = s,
         \A x \in Reservations \ {r} :
           status'[x] = status[x] /\ stay'[x] = stay[x] /\ rooms'[x] = rooms[x]
  PROVE  (OneRoomEach /\ NoDoubleBooking)'
  <1>1. OneRoomEach'
    BY DEF SerialInv, OneRoomEach
  <1>2. ASSUME NEW x \in Reservations, x # r PROVE ~DoubleBooked(r, x)'
    <2> SUFFICES ASSUME DoubleBooked(r, x)' PROVE FALSE
      OBVIOUS
    <2>1. status[x] \in Blocking /\ u \in rooms[x] /\ Overlap(stay[x], s)
      BY <1>2 DEF DoubleBooked, Overlap
    <2>2. u \in Conflicting(s, Reservations \ {r})
      BY <1>2, <2>1 DEF Conflicting
    <2>3. QED
      BY <2>2
  <1>3. ASSUME NEW x \in Reservations, NEW y \in Reservations, DoubleBooked(x, y)'
        PROVE  FALSE
    <2>1. CASE x = r
      BY <1>2, <1>3, <2>1 DEF DoubleBooked
    <2>2. CASE y = r
      <3>1. x # r /\ DoubleBooked(r, x)'
        BY <1>3, <2>2 DEF DoubleBooked, Overlap
      <3>2. QED
        BY <1>2, <3>1
    <2>3. CASE x # r /\ y # r
      <3>1. DoubleBooked(x, y)
        BY <1>3, <2>3 DEF DoubleBooked
      <3>2. QED
        BY <3>1 DEF SerialInv, NoDoubleBooking
    <2>4. QED
      BY <2>1, <2>2, <2>3
  <1>4. QED
    BY <1>1, <1>3 DEF NoDoubleBooking

(* A reservation that leaves the conflict query, with or without its rooms. *)
LEMMA LeavesRoom ==
  ASSUME SerialInv, NEW r \in Reservations, UNCHANGED stay,
         status'[r] \notin Blocking, rooms'[r] \subseteq rooms[r],
         \A x \in Reservations \ {r} : status'[x] = status[x] /\ rooms'[x] = rooms[x]
  PROVE  (OneRoomEach /\ NoDoubleBooking)'
  <1>1. OneRoomEach'
    BY DEF SerialInv, OneRoomEach
  <1>2. ASSUME NEW x \in Reservations, NEW y \in Reservations, DoubleBooked(x, y)'
        PROVE  FALSE
    <2>1. x # r /\ y # r
      BY <1>2 DEF DoubleBooked
    <2>2. DoubleBooked(x, y)
      BY <1>2, <2>1 DEF DoubleBooked
    <2>3. QED
      BY <2>2 DEF SerialInv, NoDoubleBooking
  <1>3. QED
    BY <1>1, <1>2 DEF NoDoubleBooking

LEMMA SerialRefused ==
  ASSUME OneWorker, SerialInv, NEW w \in Workers, Refused(w)
  PROVE  SerialInv'
  <1>1. TypeOK' /\ RequestsAreCurrent'
    BY TypeRefused, AnsweredIsCurrent DEF SerialInv, Refused
  <1>2. UNCHANGED <<status, stay, rooms, unitStatus, tasks>>
    BY DEF Refused, desk, house
  <1>3. (OneRoomEach /\ NoDoubleBooking)'
    BY <1>2 DEF SerialInv, OneRoomEach, NoDoubleBooking, DoubleBooked
  <1>4. OccupiedRoomsHaveGuests' /\ (CleaningIsOnTheList => CleaningIsOnTheList')
    BY <1>2 DEF SerialInv, OccupiedRoomsHaveGuests, CleaningIsOnTheList, HasCleaning
  <1>5. QED
    BY <1>1, <1>3, <1>4 DEF SerialInv

(* The unit was free under the lock.                                       *)
LEMMA SerialBook ==
  ASSUME OneWorker, SerialInv, NEW w \in Workers, Book(w)
  PROVE  SerialInv'
  <1> DEFINE q == request[w]
  <1>1. CASE Refused(w)
    BY <1>1, SerialRefused
  <1>2. ASSUME NEW r \in Reservations, SaveBooking(w, r),
               q.unit \notin Conflicting(q.stay, Reservations)
        PROVE  SerialInv'
    <2>1. TypeOK'
      BY <1>2, TypeReservation DEF Book, SerialInv, SaveBooking
    <2>2. Answered(w) /\ UNCHANGED <<unitStatus, tasks>> /\ status[r] = "none"
      BY <1>2 DEF SaveBooking, house
    <2>3. RequestsAreCurrent'
      BY <2>2, AnsweredIsCurrent DEF SerialInv
    <2>4. \A s \in Reservations \ {r} :
            status'[s] = status[s] /\ stay'[s] = stay[s] /\ rooms'[s] = rooms[s]
      BY <1>2 DEF SaveBooking, SerialInv, TypeOK
    <2>5. stay'[r] = q.stay /\ rooms'[r] = {q.unit}
      BY <1>2 DEF SaveBooking, SerialInv, TypeOK
    <2>6. q.unit \notin Conflicting(q.stay, Reservations \ {r})
      BY <1>2 DEF Conflicting
    <2>7. (OneRoomEach /\ NoDoubleBooking)'
      BY <2>4, <2>5, <2>6, TakesRoom
    <2>8. OccupiedRoomsHaveGuests'
      BY <2>2, <2>4 DEF SerialInv, OccupiedRoomsHaveGuests
    <2>9. CleaningIsOnTheList => CleaningIsOnTheList'
      BY <2>2 DEF CleaningIsOnTheList, HasCleaning
    <2>10. QED
      BY <2>1, <2>3, <2>7, <2>8, <2>9 DEF SerialInv
  <1>3. QED
    BY <1>1, <1>2 DEF Book

(* Nobody has committed since the form was checked, so the rows are not    *)
(* refused and the unit is still free.                                     *)
LEMMA SerialEdit ==
  ASSUME OneWorker, SerialInv, NEW w \in Workers, Edit(w)
  PROVE  SerialInv'
  <1> DEFINE q == request[w]
             r == q.res
  <1>1. r \in Reservations /\ q.seen \in {"CONF", "NOSH"}
    BY RequestFields DEF SerialInv, TypeOK, Edit
  <1>2. TypeOK'
    BY TypeReservation DEF SerialInv
  <1>3. RequestsAreCurrent'
    BY AnsweredIsCurrent DEF SerialInv, Edit
  <1>4. /\ status[r] \in {"CONF", "NOSH"}
        /\ q.unit \notin Conflicting(q.stay, Reservations \ {r})
    BY DEF SerialInv, RequestsAreCurrent, IsCurrent, EditIsCurrent, Edit
  <1>5. \A s \in Reservations \ {r} :
          status'[s] = status[s] /\ stay'[s] = stay[s] /\ rooms'[s] = rooms[s]
    BY DEF Edit, SerialInv, TypeOK
  <1>6. status'[r] = q.seen /\ stay'[r] = q.stay
    BY <1>1 DEF Edit, SerialInv, TypeOK
  <1>7. rooms'[r] = {q.unit}
    <2> DEFINE held == {q.unit} \cap rooms[r]
    <2>1. rooms'[r] = IF held # {} /\ ~q.newRate THEN rooms[r] ELSE {q.unit}
      BY <1>1, <1>4 DEF Edit, SerialInv, TypeOK
    <2>2. held # {} => rooms[r] = {q.unit}
      BY <1>1 DEF SerialInv, OneRoomEach
    <2>3. QED
      BY <2>1, <2>2
  <1>8. (OneRoomEach /\ NoDoubleBooking)'
    BY <1>1, <1>4, <1>5, <1>6, <1>7, TakesRoom
  <1>9. \A u \in Units : unitStatus'[u] = unitStatus[u] \/ unitStatus'[u] = "AVAIL"
    BY DEF Edit
  <1>10. OccupiedRoomsHaveGuests'
    BY <1>4, <1>5, <1>9 DEF SerialInv, OccupiedRoomsHaveGuests
  <1>11. tasks' = tasks
    BY DEF Edit
  <1>12. CleaningIsOnTheList => CleaningIsOnTheList'
    BY <1>9, <1>11 DEF CleaningIsOnTheList, HasCleaning
  <1>13. QED
    BY <1>2, <1>3, <1>8, <1>10, <1>12 DEF SerialInv

(* Whoever is cancelled was not in house.                                  *)
LEMMA SerialCancel ==
  ASSUME OneWorker, SerialInv, NEW w \in Workers, Cancel(w)
  PROVE  SerialInv'
  <1> DEFINE r == request[w].res
  <1>1. r \in Reservations
    BY RequestFields DEF SerialInv, TypeOK, Cancel
  <1>2. TypeOK'
    BY TypeReservation DEF SerialInv
  <1>3. RequestsAreCurrent'
    BY AnsweredIsCurrent DEF SerialInv, Cancel
  <1>4. status[r] \in RowsNotGone
    BY DEF SerialInv, RequestsAreCurrent, IsCurrent, CancelIsCurrent, Cancel
  <1>5. /\ status'[r] = "CANC" /\ rooms'[r] = {}
        /\ \A x \in Reservations \ {r} : status'[x] = status[x] /\ rooms'[x] = rooms[x]
        /\ UNCHANGED <<stay, unitStatus, tasks>>
    BY <1>1 DEF Cancel, SerialInv, TypeOK, house
  <1>6. (OneRoomEach /\ NoDoubleBooking)'
    BY <1>1, <1>5, LeavesRoom DEF Blocking
  <1>7. OccupiedRoomsHaveGuests'
    BY <1>4, <1>5 DEF SerialInv, OccupiedRoomsHaveGuests, RowsNotGone
  <1>8. CleaningIsOnTheList => CleaningIsOnTheList'
    BY <1>5 DEF CleaningIsOnTheList, HasCleaning
  <1>9. QED
    BY <1>2, <1>3, <1>6, <1>7, <1>8 DEF SerialInv

LEMMA SerialCheckIn ==
  ASSUME OneWorker, SerialInv, NEW w \in Workers, CheckIn(w)
  PROVE  SerialInv'
  <1> DEFINE q == request[w]
             r == q.res
  <1>1. r \in Reservations /\ q.unit \in Units
    BY RequestFields DEF SerialInv, TypeOK, CheckIn
  <1>2. TypeOK'
    BY TypeStay DEF SerialInv
  <1>3. CASE Refused(w)
    BY <1>3, SerialRefused
  <1>4. ASSUME MoveIn(w), q.unit \notin Conflicting(q.stay, Reservations \ {r})
        PROVE  SerialInv'
    <2>1. RequestsAreCurrent'
      BY <1>4, AnsweredIsCurrent DEF SerialInv, MoveIn
    <2>2. status[r] \in {"CONF", "NOSH"} /\ q.stay = stay[r]
      BY DEF SerialInv, RequestsAreCurrent, IsCurrent, CheckInIsCurrent, CheckIn
    <2>3. /\ status'[r] = "CHIN" /\ rooms'[r] = {q.unit}
          /\ \A x \in Reservations \ {r} : status'[x] = status[x] /\ rooms'[x] = rooms[x]
          /\ UNCHANGED <<stay, tasks>>
      BY <1>1, <1>4 DEF MoveIn, SerialInv, TypeOK
    <2>4. \A u \in Units : unitStatus'[u] = IF u = q.unit THEN "OCC" ELSE unitStatus[u]
      BY <1>1, <1>4 DEF MoveIn, SerialInv, TypeOK
    <2>5. (OneRoomEach /\ NoDoubleBooking)'
      <3>1. stay'[r] = q.stay
        BY <2>2, <2>3
      <3>2. \A x \in Reservations \ {r} :
              status'[x] = status[x] /\ stay'[x] = stay[x] /\ rooms'[x] = rooms[x]
        BY <2>3
      <3>3. QED
        BY <1>1, <1>4, <2>3, <3>1, <3>2, TakesRoom
    <2>6. OccupiedRoomsHaveGuests'
      BY <1>1, <2>2, <2>3, <2>4 DEF SerialInv, OccupiedRoomsHaveGuests
    <2>7. CleaningIsOnTheList => CleaningIsOnTheList'
      BY <2>3, <2>4 DEF CleaningIsOnTheList, HasCleaning
    <2>8. QED
      BY <1>2, <2>1, <2>5, <2>6, <2>7 DEF SerialInv
  <1>5. QED
    BY <1>3, <1>4 DEF CheckIn

(* An added task is still to be done.                                      *)
LEMMA RaisedIsOnTheList ==
  ASSUME TypeOK, NEW us, RaiseCleaning(us)
  PROVE  \A u \in Units : /\ u \in us \/ HasCleaning(u) => HasCleaning(u)'
                          /\ DOMAIN tasks[u] \subseteq DOMAIN tasks'[u]
  <1> SUFFICES ASSUME NEW u \in Units
               PROVE  /\ u \in us \/ HasCleaning(u) => HasCleaning(u)'
                      /\ DOMAIN tasks[u] \subseteq DOMAIN tasks'[u]
    OBVIOUS
  <1>1. tasks[u] \in Seq(TaskStatus) /\ "PEND" \in TaskStatus
    BY DEF TypeOK, TaskStatus
  <1>2. CASE u \in us
    <2>1. tasks'[u] = Append(tasks[u], "PEND")
      BY <1>2 DEF RaiseCleaning
    <2>2. /\ Len(tasks'[u]) = Len(tasks[u]) + 1
          /\ tasks'[u][Len(tasks[u]) + 1] = "PEND"
          /\ DOMAIN tasks'[u] = 1 .. Len(tasks'[u])
          /\ DOMAIN tasks[u] = 1 .. Len(tasks[u])
          /\ Len(tasks[u]) \in Nat
      BY <1>1, <2>1, AppendProperties
    <2>3. QED
      BY <2>2 DEF HasCleaning
  <1>3. CASE u \notin us
    <2>1. tasks'[u] = tasks[u]
      BY <1>3 DEF RaiseCleaning
    <2>2. QED
      BY <1>3, <2>1 DEF HasCleaning
  <1>4. QED
    BY <1>2, <1>3

(* The unit of every guest who leaves is released, and the browser's       *)
(* prefetch still names all that are occupied, so each gets a task.        *)
LEMMA SerialCheckOut ==
  ASSUME OneWorker, SerialInv, NEW w \in Workers, CheckOut(w)
  PROVE  SerialInv'
  <1> DEFINE q == request[w]
             r == q.res
             mine == {u \in rooms[r] : unitStatus[u] = "OCC"}
             left == mine \cup q.occupied
  <1>1. r \in Reservations
    BY RequestFields DEF SerialInv, TypeOK, CheckOut
  <1>2. TypeOK'
    BY TypeStay DEF SerialInv
  <1>3. CASE Refused(w)
    BY <1>3, SerialRefused
  <1>4. ASSUME MoveOut(w, r, left, q.occupied) PROVE SerialInv'
    <2>1. RequestsAreCurrent'
      BY <1>4, AnsweredIsCurrent DEF SerialInv, MoveOut
    <2>2. "sync" \notin Channels => mine \subseteq q.occupied
      BY DEF SerialInv, RequestsAreCurrent, IsCurrent, CheckOutIsCurrent, CheckOut
    <2>3. /\ status'[r] = "CHOUT"
          /\ \A x \in Reservations \ {r} : status'[x] = status[x]
          /\ UNCHANGED <<stay, rooms>>
          /\ RaiseCleaning(q.occupied)
      BY <1>1, <1>4 DEF MoveOut, SerialInv, TypeOK
    <2>4. \A u \in Units : unitStatus'[u] = IF u \in left THEN "CLEAN" ELSE unitStatus[u]
      BY <1>4 DEF MoveOut
    <2>5. (OneRoomEach /\ NoDoubleBooking)'
      BY <1>1, <2>3, LeavesRoom DEF Blocking
    <2>6. OccupiedRoomsHaveGuests'
      <3> SUFFICES ASSUME NEW u \in Units, unitStatus'[u] = "OCC"
                   PROVE  \E x \in Reservations : status'[x] = "CHIN" /\ u \in rooms'[x]
        BY DEF OccupiedRoomsHaveGuests
      <3>1. unitStatus[u] = "OCC" /\ u \notin rooms[r]
        BY <2>4
      <3>2. PICK x \in Reservations : status[x] = "CHIN" /\ u \in rooms[x]
        BY <3>1 DEF SerialInv, OccupiedRoomsHaveGuests
      <3>3. QED
        BY <2>3, <3>1, <3>2
    <2>7. "sync" \notin Channels => CleaningIsOnTheList'
      <3> SUFFICES ASSUME "sync" \notin Channels, NEW u \in Units, unitStatus'[u] = "CLEAN"
                   PROVE  HasCleaning(u)'
        BY DEF CleaningIsOnTheList
      <3>1. u \in q.occupied \/ unitStatus[u] = "CLEAN"
        BY <2>2, <2>4
      <3>2. u \in q.occupied \/ HasCleaning(u)
        BY <3>1 DEF SerialInv, CleaningIsOnTheList
      <3>3. QED
        BY <2>3, <3>2, RaisedIsOnTheList DEF SerialInv
    <2>8. QED
      BY <1>2, <2>1, <2>5, <2>6, <2>7 DEF SerialInv
  <1>5. QED
    BY <1>3, <1>4 DEF CheckOut

(* A task that leaves the list makes its unit available.                   *)
LEMMA SerialTask ==
  ASSUME OneWorker, SerialInv, NEW w \in Workers, UpdateTask(w)
  PROVE  SerialInv'
  <1> DEFINE q == request[w]
  <1>1. q.unit \in Units /\ q.index \in Nat /\ q.new \in TaskStatus
    BY RequestFields DEF SerialInv, TypeOK, UpdateTask
  <1>2. TypeOK'
    BY TypeTask DEF SerialInv
  <1>3. RequestsAreCurrent'
    BY AnsweredIsCurrent DEF SerialInv, UpdateTask
  <1>4. q.index \in DOMAIN tasks[q.unit]
    BY DEF SerialInv, RequestsAreCurrent, IsCurrent, TaskIsCurrent, UpdateTask
  <1>5. UNCHANGED <<status, stay, rooms>>
    BY DEF UpdateTask, desk
  <1>6. /\ unitStatus'[q.unit] = UnitAfterTask(unitStatus[q.unit], q.new)
        /\ tasks'[q.unit] = [tasks[q.unit] EXCEPT ![q.index] = q.new]
        /\ \A u \in Units \ {q.unit} :
             unitStatus'[u] = unitStatus[u] /\ tasks'[u] = tasks[u]
    BY <1>1 DEF UpdateTask, SaveTask, SerialInv, TypeOK
  <1>7. (OneRoomEach /\ NoDoubleBooking)'
    BY <1>5 DEF SerialInv, OneRoomEach, NoDoubleBooking, DoubleBooked
  <1>8. OccupiedRoomsHaveGuests'
    BY <1>5, <1>6 DEF SerialInv, OccupiedRoomsHaveGuests, UnitAfterTask
  <1>9. CleaningIsOnTheList => CleaningIsOnTheList'
    <2> SUFFICES ASSUME CleaningIsOnTheList, NEW u \in Units, unitStatus'[u] = "CLEAN"
                 PROVE  HasCleaning(u)'
      BY DEF CleaningIsOnTheList
    <2>1. CASE u # q.unit
      BY <1>6, <2>1 DEF CleaningIsOnTheList, HasCleaning
    <2>2. CASE u = q.unit
      <3>1. q.new \in {"PEND", "PROG", "SKIP"}
        BY <1>1, <1>6, <2>2 DEF UnitAfterTask, TaskStatus
      <3>2. tasks[u] = [j \in DOMAIN tasks[u] |-> tasks[u][j]]
        BY DEF SerialInv, TypeOK
      <3>3. DOMAIN tasks'[u] = DOMAIN tasks[u] /\ tasks'[u][q.index] = q.new
        BY <1>4, <1>6, <2>2, <3>2
      <3>4. QED
        BY <1>4, <2>2, <3>1, <3>3 DEF HasCleaning
    <2>3. QED
      BY <2>1, <2>2
  <1>10. QED
    BY <1>2, <1>3, <1>7, <1>8, <1>9 DEF SerialInv

(* Resending a link only releases units, with a task for each that is left *)
(* to be cleaned.                                                          *)
LEMMA SerialResend ==
  ASSUME SerialInv, NEW r \in Reservations, ResendLink(r)
  PROVE  SerialInv'
  <1> DEFINE released == {u \in rooms[r] : unitStatus[u] = "OCC"}
             gone == status[r] = "CHOUT"
  <1>1. TypeOK'
    BY TypeResend DEF SerialInv
  <1>2. UNCHANGED <<status, stay, rooms, request>>
    BY DEF ResendLink, desk
  <1>3. /\ \A u \in Units :
             unitStatus'[u] = IF u \notin released THEN unitStatus[u]
                              ELSE IF gone THEN "CLEAN" ELSE "AVAIL"
        /\ RaiseCleaning(IF gone THEN released ELSE {})
    BY DEF ResendLink
  <1>4. \A u \in Units :
          /\ HasCleaning(u) \/ (gone /\ u \in released) => HasCleaning(u)'
          /\ DOMAIN tasks[u] \subseteq DOMAIN tasks'[u]
    BY <1>3, RaisedIsOnTheList DEF SerialInv
  <1>5. (OneRoomEach /\ RequestsAreCurrent /\ NoDoubleBooking /\ OccupiedRoomsHaveGuests)'
    BY <1>2, <1>3, <1>4, SerialWaits
  <1>6. CleaningIsOnTheList => CleaningIsOnTheList'
    BY <1>3, <1>4 DEF CleaningIsOnTheList
  <1>7. QED
    BY <1>1, <1>5, <1>6 DEF SerialInv

LEMMA SerialStep ==
  ASSUME OneWorker, SerialInv, [Next]_vars
  PROVE  SerialInv'
  <1>1. TypeOK'
    BY TypeStep DEF SerialInv
  <1>2. ASSUME UNCHANGED <<stay, rooms, request, tasks>>,
               \A r \in Reservations :
                 \/ status'[r] = status[r]
                 \/ status[r] = "CONF" /\ status'[r] = "NOSH",
               \A u \in Units : unitStatus'[u] \in {"OCC", "CLEAN"} =>
                                  unitStatus'[u] = unitStatus[u]
        PROVE  SerialInv'
    <2>1. (OneRoomEach /\ RequestsAreCurrent /\ NoDoubleBooking
             /\ OccupiedRoomsHaveGuests)'
      BY <1>2, SerialWaits
    <2>2. CleaningIsOnTheList => CleaningIsOnTheList'
      BY <1>2 DEF CleaningIsOnTheList, HasCleaning
    <2>3. QED
      BY <1>1, <2>1, <2>2 DEF SerialInv
  <1>3. ASSUME NEW w \in Workers, Work(w) PROVE SerialInv'
    BY <1>3, SerialFetch, SerialBook, SerialEdit, SerialCancel, SerialCheckIn,
       SerialCheckOut, SerialTask DEF Work
  <1>4. ASSUME NEW r \in Reservations, PostCharge(r) \/ TakePayment(r) \/ AuditPost(r)
        PROVE  SerialInv'
    BY <1>2, <1>4 DEF PostCharge, TakePayment, AuditPost, desk, house
  <1>5. ASSUME NEW r \in Reservations, ResendLink(r) PROVE SerialInv'
    BY <1>5, SerialResend
  <1>6. ASSUME NEW u \in Repairable, SetService(u) PROVE SerialInv'
    <2>1. /\ UNCHANGED <<status, stay, rooms, request, tasks>>
          /\ \A v \in Units : unitStatus'[v] \in {"OCC", "CLEAN"} =>
                                unitStatus'[v] = unitStatus[v]
      BY <1>6 DEF SetService, desk, SerialInv, TypeOK
    <2>2. QED
      BY <1>2, <2>1
  <1>7. CASE Midnight \/ AuditStart \/ AuditDies
    BY <1>2, <1>7 DEF Midnight, AuditStart, AuditDies, desk, house
  <1>8. CASE AuditNoShow
    BY <1>2, <1>8 DEF AuditNoShow, house
  <1>9. CASE UNCHANGED vars
    BY <1>2, <1>9 DEF vars, desk, house
  <1>10. QED
    BY <1>3, <1>4, <1>5, <1>6, <1>7, <1>8, <1>9 DEF Next

LEMMA SerialInvariant == ASSUME OneWorker PROVE Spec => []SerialInv
  <1>1. SerialInv /\ [Next]_vars => SerialInv'
    BY SerialStep
  <1>2. QED
    BY SerialInit, <1>1, PTL DEF Spec

(* One request at a time, in the browser or from an offline device, never  *)
(* books a unit twice for a night, although the forms check without a lock *)
(* and the audit runs in between.                                          *)
THEOREM SerialDeskNeverDoubleBooks ==
  ASSUME OneWorker
  PROVE  Spec => []NoDoubleBooking
  <1>1. SerialInv => NoDoubleBooking
    BY DEF SerialInv
  <1>2. QED
    BY SerialInvariant, <1>1, PTL

(* And a unit shown as occupied has a guest in house.                      *)
THEOREM SerialRoomsHaveGuests ==
  ASSUME OneWorker
  PROVE  Spec => []OccupiedRoomsHaveGuests
  <1>1. SerialInv => OccupiedRoomsHaveGuests
    BY DEF SerialInv
  <1>2. QED
    BY SerialInvariant, <1>1, PTL

(* And, when no check-out comes from an offline device, a unit waiting to  *)
(* be cleaned is on the housekeeping list.                                 *)
THEOREM SerialCleaningIsListed ==
  ASSUME OneWorker, "sync" \notin Channels
  PROVE  Spec => []CleaningIsOnTheList
  <1>1. SerialInv => CleaningIsOnTheList
    BY DEF SerialInv
  <1>2. QED
    BY SerialInvariant, <1>1, PTL

(* A commit finds its reservation where the fetch saw it, or a no-show     *)
(* instead of a confirmation, so no stay ever goes back.                   *)
LEMMA OneWayStep ==
  ASSUME OneWorker, SerialInv, [Next]_vars, NEW r \in Reservations
  PROVE  /\ status[r] = "CHIN" => status'[r] \in {"CHIN", "CHOUT"}
         /\ status[r] \in {"CHOUT", "CANC"} => status'[r] = status[r]
  <1> DEFINE goal == /\ status[r] = "CHIN" => status'[r] \in {"CHIN", "CHOUT"}
                     /\ status[r] \in {"CHOUT", "CANC"} => status'[r] = status[r]
  <1>1. ASSUME UNCHANGED status PROVE goal
    BY <1>1
  <1>2. ASSUME NEW w \in Workers, Work(w) PROVE goal
    <2> DEFINE q == request[w]
    <2>1. q \in Request /\ IsCurrent(q)
      BY DEF SerialInv, TypeOK, RequestsAreCurrent
    <2>2. CASE FetchBook(w) \/ FetchEdit(w) \/ FetchCancel(w) \/ FetchCheckIn(w)
                 \/ FetchCheckOut(w) \/ FetchTask(w)
      BY <1>1, <2>2 DEF FetchBook, FetchEdit, FetchCancel, FetchCheckIn, FetchCheckOut,
                        FetchTask, Fetched, desk
    <2>3. CASE Refused(w) \/ UpdateTask(w)
      BY <1>1, <2>3 DEF Refused, UpdateTask, desk
    <2>4. ASSUME NEW x \in Reservations, SaveBooking(w, x) PROVE goal
      BY <2>4 DEF SaveBooking, SerialInv, TypeOK
    <2>5. CASE Edit(w)
      <3>1. /\ status[q.res] \in {"CONF", "NOSH"}
            /\ status' = [status EXCEPT ![q.res] = q.seen]
        BY <2>1, <2>5 DEF Edit, IsCurrent, EditIsCurrent
      <3>2. QED
        BY <3>1 DEF SerialInv, TypeOK
    <2>6. CASE Cancel(w)
      <3>1. /\ status[q.res] \in RowsNotGone
            /\ status' = [status EXCEPT ![q.res] = "CANC"]
        BY <2>1, <2>6 DEF Cancel, IsCurrent, CancelIsCurrent
      <3>2. QED
        BY <3>1 DEF SerialInv, TypeOK, RowsNotGone
    <2>7. ASSUME q.kind = "checkIn", MoveIn(w) PROVE goal
      <3>1. /\ status[q.res] \in {"CONF", "NOSH"}
            /\ status' = [status EXCEPT ![q.res] = "CHIN"]
        BY <2>1, <2>7 DEF MoveIn, IsCurrent, CheckInIsCurrent
      <3>2. QED
        BY <3>1 DEF SerialInv, TypeOK
    <2>8. ASSUME q.kind = "checkOut", NEW us, NEW cs, MoveOut(w, q.res, us, cs) PROVE goal
      <3>1. /\ status[q.res] = "CHIN"
            /\ status' = [status EXCEPT ![q.res] = "CHOUT"]
        BY <2>1, <2>8 DEF MoveOut, IsCurrent, CheckOutIsCurrent
      <3>2. QED
        BY <3>1 DEF SerialInv, TypeOK
    <2>9. QED
      <3>1. CASE Book(w)
        BY <2>3, <2>4, <3>1 DEF Book
      <3>2. CASE CheckIn(w)
        BY <2>3, <2>7, <3>2 DEF CheckIn
      <3>3. CASE CheckOut(w)
        BY <2>3, <2>8, <3>3 DEF CheckOut
      <3>4. QED
        BY <1>2, <2>2, <2>3, <2>5, <2>6, <3>1, <3>2, <3>3 DEF Work
  <1>3. ASSUME NEW x \in Reservations,
               PostCharge(x) \/ TakePayment(x) \/ ResendLink(x) \/ AuditPost(x)
        PROVE  goal
    BY <1>1, <1>3 DEF PostCharge, TakePayment, ResendLink, AuditPost, desk
  <1>4. ASSUME NEW u \in Repairable, SetService(u) PROVE goal
    BY <1>1, <1>4 DEF SetService, desk
  <1>5. CASE Midnight \/ AuditStart \/ AuditDies
    BY <1>1, <1>5 DEF Midnight, AuditStart, AuditDies, desk
  <1>6. CASE AuditNoShow
    BY <1>6 DEF AuditNoShow
  <1>7. CASE UNCHANGED vars
    BY <1>1, <1>7 DEF vars, desk
  <1>8. QED
    BY <1>2, <1>3, <1>4, <1>5, <1>6, <1>7 DEF Next

(* With one request at a time a guest in house leaves only by checking     *)
(* out, and a departure or a cancellation is never undone.                 *)
THEOREM SerialStaysGoOneWay ==
  ASSUME OneWorker
  PROVE  Spec => StaysGoOneWay
  <1>1. SerialInv /\ [Next]_vars =>
          [\A r \in Reservations :
             /\ status[r] = "CHIN" => status'[r] \in {"CHIN", "CHOUT"}
             /\ status[r] \in {"CHOUT", "CANC"} => status'[r] = status[r]]_status
    BY OneWayStep
  <1>2. QED
    BY SerialInvariant, <1>1, PTL DEF Spec, StaysGoOneWay
=============================================================================
