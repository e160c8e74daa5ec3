-------------------------------- MODULE Tenancy --------------------------------
(***************************************************************************)
(* The property office: leases, sales and maintenance requests, which meet *)
(* in the status of a unit.                                                *)
(*                                                                         *)
(* A request runs in steps, because the views read outside any lock and    *)
(* write later: Fetch<Op> loads the row and refuses it when the code does, *)
(* <Op> writes.  Between the two any other worker may write.  A lease is   *)
(* activated in three steps: load it, look for another active lease of its *)
(* unit, write.                                                            *)
(***************************************************************************)
EXTENDS Naturals, FiniteSets

CONSTANTS Workers,      \* server processes, each with one request at a time
          Leases,       \* the rows that may exist (bound)
          Units,        \* the units let and sold
          Offers,       \* the offers on the one listing (bound)
          ForSale,      \* the unit that is listed
          LastDay,      \* bound: leases end by this day
          Scopes        \* bound: what one behaviour is about, the desks at
                        \* work, the most leases and the units they name

ASSUME TenancyAssumption ==
  /\ IsFiniteSet(Leases) /\ IsFiniteSet(Offers)
  /\ ForSale \in Units
  /\ LastDay \in Nat \ {0}
  /\ Scopes # {}
  /\ Scopes \subseteq [desks : SUBSET {"lettings", "sales", "repairs"},
                       leases : Nat, units : SUBSET Units]

VARIABLES request,      \* worker -> what its request has read
          lease,        \* lease -> its row
          unitStatus,   \* unit -> Unit.status
          listing,      \* SaleListing.status
          offer,        \* offer -> SaleOffer.status
          agreement,    \* whether a SaleAgreement for the listing exists
          job,          \* the row of the one maintenance request
          scope,        \* the bound this behaviour keeps to
          revived,      \* history: leases made by renewing an expired one,
                        \* and those that continue them
          raced         \* history: what two requests worked on at once

letting == <<lease, revived>>
selling == <<listing, offer, agreement>>
vars == <<request, letting, unitStatus, selling, job, scope, raced>>

Idle == [kind |-> "idle"]

LeaseStatus == {"none", "DRAFT", "PEND", "ACT", "EXP", "TERM", "REN"}
Lease == [status : LeaseStatus, unit : Units, start : 0 .. LastDay, end : 1 .. LastDay]

ListingStatus == {"LIST", "OFFER", "AGR", "COMP", "WDR"}
OfferStatus == {"none", "PEND", "ACC", "REJ"}

JobStatus == {"SUBM", "ACK", "PROG", "COMP", "VER", "CANC"}
Stamps == {"ACK", "COMP", "VER"}
Job == [status : JobStatus, stamped : SUBSET Stamps]

Request ==
  {Idle}
  \cup [kind : {"activate"}, lease : Leases, unit : Units, checked : BOOLEAN]
  \cup [kind : {"edit", "terminate", "renew"}, lease : Leases, row : Lease]
  \cup [kind : {"accept", "agree"}, offer : Offers]
  \cup [kind : {"job"}, row : Job]

Active(u) == {l \in Leases : lease[l].status = "ACT" /\ lease[l].unit = u}

Init ==
  /\ request = [w \in Workers |-> Idle]
  /\ lease = [l \in Leases |-> [status |-> "none", unit |-> ForSale, start |-> 0, end |-> 1]]
  /\ unitStatus = [u \in Units |-> "AVAIL"]
  /\ listing = "LIST"
  /\ offer = [o \in Offers |-> "none"]
  /\ agreement = FALSE
  /\ job = [status |-> "SUBM", stamped |-> {}]
  /\ scope \in Scopes
  /\ revived = {}
  /\ raced = {}

Fetched(w, desk, q) ==
  /\ desk \in scope.desks
  /\ request[w] = Idle
  /\ request' = [request EXCEPT ![w] = q]
  /\ UNCHANGED <<letting, unitStatus, selling, job, scope, raced>>

Answered(w) == request' = [request EXCEPT ![w] = Idle]

(* History.  A write while another request is at work on the same row, or  *)
(* while another activation or acceptance runs, marks what both are about. *)
LeaseOf(q) == IF "lease" \in DOMAIN q THEN {q.lease} ELSE {}

Subject(q) ==
  CASE q.kind = "activate" -> {q.lease, q.unit}
    [] q.kind \in {"edit", "terminate", "renew"} -> {q.lease, q.row.unit, lease[q.lease].unit}
    [] q.kind = "accept" -> {q.offer}
    [] OTHER -> {}

Meet(p, q) ==
  \/ LeaseOf(p) \cap LeaseOf(q) # {}
  \/ p.kind = "activate" /\ q.kind = "activate" /\ q.checked
  \/ p.kind = "accept" /\ q.kind = "accept"

Races(w) ==
  UNION {Subject(request[w]) \cup Subject(request[v]) :
           v \in {x \in Workers \ {w} : Meet(request[w], request[x])}}

-----------------------------------------------------------------------------
(* Leases.                                                                 *)

(* Rows not used yet, within the bound.                                    *)
Spare ==
  LET free == {l \in Leases : lease[l].status = "none"} IN
  IF Cardinality(Leases \ free) < scope.leases THEN free ELSE {}

(* The form makes a draft, of any unit.                                    *)
CreateLease ==
  /\ "lettings" \in scope.desks
  /\ \E l \in Spare, u \in scope.units :
       /\ lease' = [lease EXCEPT ![l] =
                      [status |-> "DRAFT", unit |-> u, start |-> 0, end |-> 1]]
  /\ UNCHANGED <<request, revived, unitStatus, selling, job, scope, raced>>

(* Only drafts and pending leases can be edited.  The whole row is saved,  *)
(* with the status that was fetched.                                       *)
FetchEditLease(w) ==
  \E l \in Leases, u \in scope.units, end \in 1 .. LastDay :
    /\ lease[l].status \in {"DRAFT", "PEND"}
    /\ lease[l].start < end
    /\ Fetched(w, "lettings", [kind |-> "edit", lease |-> l,
                               row |-> [lease[l] EXCEPT !.unit = u, !.end = end]])

EditLease(w) ==
  LET q == request[w] IN
  /\ q.kind = "edit"
  /\ lease' = [lease EXCEPT ![q.lease] = q.row]
  /\ raced' = raced \cup Races(w)
  /\ Answered(w)
  /\ UNCHANGED <<revived, unitStatus, selling, job, scope>>

FetchActivate(w) ==
  \E l \in Leases :
    /\ lease[l].status \in {"DRAFT", "PEND"}
    /\ Fetched(w, "lettings", [kind |-> "activate", lease |-> l,
                               unit |-> lease[l].unit, checked |-> FALSE])

Checked(w) ==
  /\ request[w].kind = "activate" /\ ~request[w].checked
  /\ request' = [request EXCEPT ![w].checked = TRUE]
  /\ UNCHANGED <<letting, unitStatus, selling, job, scope, raced>>

(* Another active lease of the unit refuses the activation.                *)
CheckActivate(w) ==
  /\ request[w].kind = "activate" /\ ~request[w].checked
  /\ IF Active(request[w].unit) \ {request[w].lease} = {}
       THEN request' = [request EXCEPT ![w].checked = TRUE]
       ELSE Answered(w)
  /\ UNCHANGED <<letting, unitStatus, selling, job, scope, raced>>

(* Only the status column is written; the unit it was fetched with is       *)
(* marked as occupied.                                                      *)
Activate(w) ==
  LET q == request[w] IN
  /\ q.kind = "activate" /\ q.checked
  /\ lease' = [lease EXCEPT ![q.lease].status = "ACT"]
  /\ unitStatus' = [unitStatus EXCEPT ![q.unit] = "OCC"]
  /\ raced' = raced \cup Races(w)
  /\ Answered(w)
  /\ UNCHANGED <<revived, selling, job, scope>>

FetchTerminateAny(w) ==
  \E l \in Leases :
    /\ lease[l].status \in {"ACT", "REN"}
    /\ Fetched(w, "lettings", [kind |-> "terminate", lease |-> l, row |-> lease[l]])

FetchTerminate(w) ==
  \E l \in Leases :
    /\ lease[l].status = "ACT"
    /\ Fetched(w, "lettings", [kind |-> "terminate", lease |-> l, row |-> lease[l]])

Terminate(w) ==
  LET q == request[w] IN
  /\ q.kind = "terminate"
  /\ lease' = [lease EXCEPT ![q.lease].status = "TERM"]
  /\ unitStatus' = [unitStatus EXCEPT ![q.row.unit] = "AVAIL"]
  /\ raced' = raced \cup Races(w)
  /\ Answered(w)
  /\ UNCHANGED <<revived, selling, job, scope>>

FetchRenew(w) ==
  \E l \in Leases :
    /\ lease[l].status \in {"ACT", "EXP"}
    /\ Fetched(w, "lettings", [kind |-> "renew", lease |-> l, row |-> lease[l]])

(* The new lease starts active when the old one ends; no other lease of    *)
(* the unit is looked at, nor its status.  A new end that does not follow  *)
(* the start is refused by the table.  (Bound: so is running out of rows.) *)
RenewTo(w, n, end) ==
  LET q == request[w] IN
  /\ lease' = [lease EXCEPT ![n] = [status |-> "ACT", unit |-> q.row.unit,
                                    start |-> q.row.end, end |-> end],
                            ![q.lease].status = "REN"]
  /\ revived' = IF q.row.status = "EXP" \/ q.lease \in revived
                  THEN revived \cup {n} ELSE revived
  /\ raced' = LET r == raced \cup Races(w) IN
                IF q.lease \in r THEN r \cup {n, q.row.unit} ELSE r

Renew(w) ==
  /\ request[w].kind = "renew"
  /\ \/ \E n \in Spare, end \in request[w].row.end + 1 .. LastDay : RenewTo(w, n, end)
     \/ UNCHANGED <<letting, raced>>
  /\ Answered(w)
  /\ UNCHANGED <<unitStatus, selling, job, scope>>

(* Nothing but an edit in the admin marks a lease as expired.               *)
Expire ==
  /\ "lettings" \in scope.desks
  /\ \E l \in Leases :
       /\ lease[l].status = "ACT"
       /\ lease' = [lease EXCEPT ![l].status = "EXP"]
       /\ raced' = raced \cup
            UNION {Subject(request[w]) : w \in {x \in Workers : l \in LeaseOf(request[x])}}
  /\ UNCHANGED <<request, revived, unitStatus, selling, job, scope>>

-----------------------------------------------------------------------------
(* Sales.                                                                  *)

(* An offer is recorded whatever the status of the listing.                *)
MakeOffer ==
  /\ "sales" \in scope.desks
  /\ \E o \in Offers : offer[o] = "none" /\ offer' = [offer EXCEPT ![o] = "PEND"]
  /\ UNCHANGED <<request, letting, unitStatus, listing, agreement, job, scope, raced>>

FetchAcceptAny(w) ==
  \E o \in Offers :
    /\ offer[o] = "PEND"
    /\ Fetched(w, "sales", [kind |-> "accept", offer |-> o])

FetchAccept(w) ==
  \E o \in Offers :
    /\ offer[o] = "PEND" /\ listing = "LIST"
    /\ Fetched(w, "sales", [kind |-> "accept", offer |-> o])

AcceptMixedUp(w) ==
  /\ request[w].kind = "accept"
  /\ offer' = [offer EXCEPT ![request[w].offer] = "ACC"]
  /\ listing' = "ACC"
  /\ Answered(w)
  /\ UNCHANGED <<letting, unitStatus, agreement, job, scope, raced>>

(* The other pending offers are rejected in one statement.                 *)
Accept(w) ==
  LET o == request[w].offer IN
  /\ request[w].kind = "accept"
  /\ offer' = [p \in Offers |-> IF p = o THEN "ACC"
                                ELSE IF offer[p] = "PEND" THEN "REJ" ELSE offer[p]]
  /\ listing' = "OFFER"
  /\ raced' = raced \cup Races(w)
  /\ Answered(w)
  /\ UNCHANGED <<letting, unitStatus, agreement, job, scope>>

FetchAgreement(w) ==
  \E o \in Offers : /\ offer[o] = "ACC"
                    /\ Fetched(w, "sales", [kind |-> "agree", offer |-> o])

(* The agreement, the listing's status and the installments are written,   *)
(* then the commission multiplies a Decimal by a float: the exception      *)
(* rolls everything back.                                                  *)
CreateAgreement(w) ==
  /\ request[w].kind = "agree"
  /\ Answered(w)
  /\ UNCHANGED <<letting, unitStatus, selling, job, scope, raced>>

(* So an agreement is entered in the admin, which leaves the listing alone.*)
EnterAgreement ==
  /\ "sales" \in scope.desks
  /\ ~agreement
  /\ agreement' = TRUE
  /\ UNCHANGED <<request, letting, unitStatus, listing, offer, job, scope, raced>>

(* No status is looked at, and the button can be pressed again.            *)
CompleteSale ==
  /\ "sales" \in scope.desks
  /\ agreement
  /\ listing' = "COMP"
  /\ unitStatus' = [unitStatus EXCEPT ![ForSale] = "SOLD"]
  /\ UNCHANGED <<request, letting, offer, agreement, job, scope, raced>>

-----------------------------------------------------------------------------
(* Maintenance.                                                            *)

Transitions == [SUBM |-> {"ACK", "CANC"}, ACK |-> {"PROG", "CANC"},
                PROG |-> {"COMP"}, COMP |-> {"VER"}, VER |-> {}, CANC |-> {}]

(* save(): the first time a status is reached is stamped.                  *)
Stamped(row, status) ==
  [status |-> status, stamped |-> row.stamped \cup ({status} \cap Stamps)]

(* The quick buttons, the completion form and the assignment form, which   *)
(* acknowledges a request in any state.                                    *)
FetchJob(w) ==
  \E new \in Transitions[job.status]
             \cup {"ACK"}
             \cup {s \in {"COMP"} : job.status \in {"ACK", "PROG"}} :
    Fetched(w, "repairs", [kind |-> "job", row |-> Stamped(job, new)])

SaveJobStatus(w) ==
  /\ request[w].kind = "job"
  /\ job' = [job EXCEPT !.status = request[w].row.status]
  /\ Answered(w)
  /\ UNCHANGED <<letting, unitStatus, selling, scope, raced>>

(* The whole row is saved.                                                 *)
SaveJob(w) ==
  /\ request[w].kind = "job"
  /\ job' = request[w].row
  /\ Answered(w)
  /\ UNCHANGED <<letting, unitStatus, selling, scope, raced>>

-----------------------------------------------------------------------------
Next ==
  \/ \E w \in Workers :
       \/ FetchEditLease(w) \/ EditLease(w)
       \/ FetchActivate(w) \/ CheckActivate(w) \/ Activate(w)
       \/ FetchTerminate(w) \/ Terminate(w)
       \/ FetchRenew(w) \/ Renew(w)
       \/ FetchAccept(w) \/ Accept(w)
       \/ FetchAgreement(w) \/ CreateAgreement(w)
       \/ FetchJob(w) \/ SaveJob(w)
  \/ CreateLease \/ Expire
  \/ MakeOffer \/ EnterAgreement \/ CompleteSale

Spec == Init /\ [][Next]_vars

-----------------------------------------------------------------------------
TypeOK ==
  /\ request \in [Workers -> Request]
  /\ lease \in [Leases -> Lease]
  /\ unitStatus \in [Units -> {"AVAIL", "OCC", "SOLD"}]
  /\ listing \in ListingStatus
  /\ offer \in [Offers -> OfferStatus]
  /\ agreement \in BOOLEAN
  /\ job \in Job
  /\ scope \in Scopes
  /\ revived \subseteq Leases
  /\ raced \subseteq Leases \cup Units \cup Offers

(* activate_lease: "Verify no other active lease exists for the same unit".*)
(* Two active leases share a unit only if one of them goes back to the     *)
(* renewal of an expired lease, which looks at no other, or two requests   *)
(* raced.                                                                  *)
DoubleLettingNeedsRace ==
  \A l, m \in Leases :
    l # m /\ lease[l].status = "ACT" /\ m \in Active(lease[l].unit) =>
      {l, m} \cap (revived \cup raced) # {}

(* renew_lease: "Preserves the rental history chain".  A renewed lease that*)
(* no two requests worked on at once is continued by a lease of the same   *)
(* unit that starts the day it ends.                                       *)
RenewedHasSuccessor ==
  \A l \in Leases : lease[l].status = "REN" /\ l \notin raced =>
    \E m \in Leases \ {l} : /\ lease[m].status # "none"
                            /\ lease[m].unit = lease[l].unit
                            /\ lease[m].start = lease[l].end

(* The status of a unit follows its leases: a unit with an active lease is *)
(* never shown as available, unless two requests raced on its leases or    *)
(* one of them goes back to the renewal of an expired one.                 *)
LetUnitsAreOccupied ==
  \A u \in Units \ raced :
    /\ Active(u) # {}
    /\ \A l \in revived : lease[l].unit # u
    => unitStatus[u] # "AVAIL"

(* The listing and its offers agree: under offer means that some offer was *)
(* accepted, an open listing has none, and two were accepted only if both  *)
(* were being accepted at the same time.                                   *)
OffersFitListing ==
  LET accepted == {o \in Offers : offer[o] = "ACC"} IN
  /\ listing = "OFFER" => accepted # {}
  /\ listing = "LIST" => accepted = {}
  /\ Cardinality(accepted) > 1 => accepted \subseteq raced

(* Whole-row saves of the same maintenance request never mix two of them:  *)
(* completed work has its completion time and verified work both times.    *)
StampsFollowStatus ==
  /\ job.status \in Stamps => job.status \in job.stamped
  /\ job.status = "VER" => "COMP" \in job.stamped
=============================================================================
