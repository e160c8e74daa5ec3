------------------------------ MODULE Tenancy_proofs ------------------------------
(***************************************************************************)
(* What the property office keeps right, for any number of server          *)
(* processes, leases, units and offers, and however requests that read     *)
(* early and write late interleave.                                        *)
(***************************************************************************)
EXTENDS Tenancy, FiniteSetTheorems, TLAPS

-----------------------------------------------------------------------------
(* Type correctness.                                                       *)

OnRow == {"edit", "terminate", "renew"}
OnLease == {"activate"} \cup OnRow

LEMMA RequestFields ==
  ASSUME NEW q \in Request
  PROVE  /\ q.kind \in OnLease \cup {"idle", "accept", "agree", "job"}
         /\ q.kind \in OnLease => q.lease \in Leases /\ LeaseOf(q) = {q.lease}
         /\ q.kind \in OnRow => q.row \in Lease
         /\ q.kind = "activate" => q.unit \in Units /\ q.checked \in BOOLEAN
         /\ q.kind \in {"accept", "agree"} => q.offer \in Offers
         /\ q.kind = "job" => q.row \in Job
  BY DEF Request, Idle, OnRow, OnLease, LeaseOf

LEMMA ConstantTypes ==
  /\ ForSale \in Units
  /\ LastDay \in Nat \ {0}
  /\ \A s \in Scopes : /\ s.desks \subseteq {"lettings", "sales", "repairs"}
                       /\ s.leases \in Nat /\ s.units \subseteq Units
  <1>1. /\ ForSale \in Units /\ LastDay \in Nat \ {0}
        /\ Scopes \subseteq [desks : SUBSET {"lettings", "sales", "repairs"},
                             leases : Nat, units : SUBSET Units]
    BY TenancyAssumption
  <1>2. QED
    BY <1>1

LEMMA IdleIsRequest == Idle \in Request
  BY DEF Request

LEMMA TypeInit == Init => TypeOK
  <1> SUFFICES ASSUME Init PROVE TypeOK
    OBVIOUS
  <1>1. [status |-> "none", unit |-> ForSale, start |-> 0, end |-> 1] \in Lease
    BY ConstantTypes DEF Lease, LeaseStatus
  <1>2. lease \in [Leases -> Lease]
    BY <1>1 DEF Init
  <1>3. request \in [Workers -> Request]
    BY IdleIsRequest DEF Init
  <1>4. job \in Job
    BY DEF Init, Job, JobStatus
  <1>5. QED
    BY <1>2, <1>3, <1>4 DEF Init, TypeOK, ListingStatus, OfferStatus

LEMMA TypeFetched ==
  ASSUME TypeOK, NEW w \in Workers, NEW desk, NEW q \in Request, Fetched(w, desk, q)
  PROVE  TypeOK'
  BY DEF TypeOK, Fetched, letting, selling

LEMMA TypeAnswered ==
  ASSUME TypeOK, NEW w \in Workers, Answered(w)
  PROVE  request' \in [Workers -> Request]
  BY IdleIsRequest DEF TypeOK, Answered

LEMMA SubjectTypes ==
  ASSUME TypeOK, NEW w \in Workers
  PROVE  Subject(request[w]) \subseteq Leases \cup Units \cup Offers
  <1>1. request[w] \in Request
    BY DEF TypeOK
  <1>2. CASE request[w].kind = "activate"
    BY <1>1, <1>2, RequestFields DEF Subject, OnLease, OnRow
  <1>3. CASE request[w].kind \in OnRow
    <2>1. request[w].row.unit \in Units /\ lease[request[w].lease].unit \in Units
      BY <1>1, <1>3, RequestFields DEF OnLease, Lease, TypeOK
    <2>2. QED
      BY <1>1, <1>3, <2>1, RequestFields DEF Subject, OnLease, OnRow
  <1>4. CASE request[w].kind = "accept"
    BY <1>1, <1>4, RequestFields DEF Subject
  <1>5. CASE request[w].kind \notin OnLease \cup {"accept"}
    BY <1>5 DEF Subject, OnLease, OnRow
  <1>6. QED
    BY <1>2, <1>3, <1>4, <1>5 DEF OnLease

LEMMA RacesTypes ==
  ASSUME TypeOK, NEW w \in Workers
  PROVE  raced \cup Races(w) \subseteq Leases \cup Units \cup Offers
  BY SubjectTypes DEF Races, TypeOK

LEMMA TypeFetches ==
  ASSUME TypeOK, NEW w \in Workers,
         \/ FetchEditLease(w) \/ FetchActivate(w) \/ FetchTerminate(w) \/ FetchRenew(w)
         \/ FetchAccept(w) \/ FetchAgreement(w) \/ FetchJob(w)
  PROVE  TypeOK'
  <1>0. \A l \in Leases : lease[l] \in Lease
    BY DEF TypeOK
  <1>1. CASE FetchEditLease(w)
    <2>1. PICK l \in Leases, u \in scope.units, end \in 1 .. LastDay :
            Fetched(w, "lettings", [kind |-> "edit", lease |-> l,
                                    row |-> [lease[l] EXCEPT !.unit = u, !.end = end]])
      BY <1>1 DEF FetchEditLease
    <2>2. [lease[l] EXCEPT !.unit = u, !.end = end] \in Lease
      BY <1>0, ConstantTypes DEF Lease, TypeOK
    <2>3. [kind |-> "edit", lease |-> l,
           row |-> [lease[l] EXCEPT !.unit = u, !.end = end]] \in Request
      BY <2>2 DEF Request
    <2>4. QED
      BY <2>1, <2>3, TypeFetched
  <1>2. CASE FetchActivate(w)
    <2>1. PICK l \in Leases :
            Fetched(w, "lettings", [kind |-> "activate", lease |-> l,
                                    unit |-> lease[l].unit, checked |-> FALSE])
      BY <1>2 DEF FetchActivate
    <2>2. lease[l].unit \in Units
      BY <1>0 DEF Lease
    <2>3. [kind |-> "activate", lease |-> l,
           unit |-> lease[l].unit, checked |-> FALSE] \in Request
      BY <2>2 DEF Request
    <2>4. QED
      BY <2>1, <2>3, TypeFetched
  <1>3. CASE FetchTerminate(w)
    <2>1. PICK l \in Leases :
            Fetched(w, "lettings", [kind |-> "terminate", lease |-> l, row |-> lease[l]])
      BY <1>3 DEF FetchTerminate
    <2>2. [kind |-> "terminate", lease |-> l, row |-> lease[l]] \in Request
      BY <1>0 DEF Request
    <2>3. QED
      BY <2>1, <2>2, TypeFetched
  <1>4. CASE FetchRenew(w)
    <2>1. PICK l \in Leases :
            Fetched(w, "lettings", [kind |-> "renew", lease |-> l, row |-> lease[l]])
      BY <1>4 DEF FetchRenew
    <2>2. [kind |-> "renew", lease |-> l, row |-> lease[l]] \in Request
      BY <1>0 DEF Request
    <2>3. QED
      BY <2>1, <2>2, TypeFetched
  <1>5. CASE FetchAccept(w)
    <2>1. PICK o \in Offers : Fetched(w, "sales", [kind |-> "accept", offer |-> o])
      BY <1>5 DEF FetchAccept
    <2>2. [kind |-> "accept", offer |-> o] \in Request
      BY DEF Request
    <2>3. QED
      BY <2>1, <2>2, TypeFetched
  <1>6. CASE FetchAgreement(w)
    <2>1. PICK o \in Offers : Fetched(w, "sales", [kind |-> "agree", offer |-> o])
      BY <1>6 DEF FetchAgreement
    <2>2. [kind |-> "agree", offer |-> o] \in Request
      BY DEF Request
    <2>3. QED
      BY <2>1, <2>2, TypeFetched
  <1>7. CASE FetchJob(w)
    <2>1. PICK new \in Transitions[job.status]
                         \cup {"ACK"}
                         \cup {s \in {"COMP"} : job.status \in {"ACK", "PROG"}} :
            Fetched(w, "repairs", [kind |-> "job", row |-> Stamped(job, new)])
      BY <1>7 DEF FetchJob
    <2>2. job.status \in JobStatus /\ job.stamped \subseteq Stamps
      BY DEF TypeOK, Job
    <2>3. new \in JobStatus
      BY <2>2 DEF Transitions, JobStatus
    <2>4. Stamped(job, new) \in Job
      BY <2>2, <2>3 DEF Stamped, Job
    <2>5. [kind |-> "job", row |-> Stamped(job, new)] \in Request
      BY <2>4 DEF Request
    <2>6. QED
      BY <2>1, <2>5, TypeFetched
  <1>8. QED
    BY <1>1, <1>2, <1>3, <1>4, <1>5, <1>6, <1>7

LEMMA SpareIsFree ==
  ASSUME NEW n \in Spare
  PROVE  n \in Leases /\ lease[n].status = "none"
  BY DEF Spare

LEMMA TypeLettings ==
  ASSUME TypeOK, NEW w \in Workers,
         \/ EditLease(w) \/ CheckActivate(w) \/ Activate(w)
         \/ Terminate(w) \/ Renew(w)
  PROVE  TypeOK'
  <1> DEFINE q == request[w]
  <1>0. q \in Request /\ raced \cup Races(w) \subseteq Leases \cup Units \cup Offers
    BY RacesTypes DEF TypeOK
  <1>1. CASE EditLease(w)
    <2>1. q.row \in Lease
      BY <1>0, <1>1, RequestFields DEF EditLease, OnRow
    <2>2. lease' \in [Leases -> Lease]
      BY <1>1, <2>1 DEF EditLease, TypeOK
    <2>3. request' \in [Workers -> Request]
      BY <1>1, TypeAnswered DEF EditLease
    <2>4. QED
      BY <1>0, <1>1, <2>2, <2>3 DEF EditLease, TypeOK, selling
  <1>2. CASE CheckActivate(w)
    <2>1. [q EXCEPT !.checked = TRUE] \in Request
      BY <1>0, <1>2 DEF CheckActivate, Request, Idle
    <2>2. request' \in [Workers -> Request]
      BY <1>2, <2>1, IdleIsRequest DEF CheckActivate, Answered, TypeOK
    <2>3. QED
      BY <1>2, <2>2 DEF CheckActivate, TypeOK, letting, selling
  <1>3. CASE Activate(w)
    <2>1. lease' \in [Leases -> Lease]
      BY <1>3 DEF Activate, TypeOK, Lease, LeaseStatus
    <2>2. unitStatus' \in [Units -> {"AVAIL", "OCC", "SOLD"}]
      BY <1>3 DEF Activate, TypeOK
    <2>3. request' \in [Workers -> Request]
      BY <1>3, TypeAnswered DEF Activate
    <2>4. QED
      BY <1>0, <1>3, <2>1, <2>2, <2>3 DEF Activate, TypeOK, selling
  <1>4. CASE Terminate(w)
    <2>1. lease' \in [Leases -> Lease]
      BY <1>4 DEF Terminate, TypeOK, Lease, LeaseStatus
    <2>2. unitStatus' \in [Units -> {"AVAIL", "OCC", "SOLD"}]
      BY <1>4 DEF Terminate, TypeOK
    <2>3. request' \in [Workers -> Request]
      BY <1>4, TypeAnswered DEF Terminate
    <2>4. QED
      BY <1>0, <1>4, <2>1, <2>2, <2>3 DEF Terminate, TypeOK, selling
  <1>5. CASE Renew(w)
    <2>1. request' \in [Workers -> Request]
      BY <1>5, TypeAnswered DEF Renew
    <2>2. q.row \in Lease
      BY <1>0, <1>5, RequestFields DEF Renew, OnRow
    <2>3. ASSUME NEW n \in Spare, NEW end \in q.row.end + 1 .. LastDay,
                 RenewTo(w, n, end)
          PROVE  lease' \in [Leases -> Lease] /\ revived' \subseteq Leases
                 /\ raced' \subseteq Leases \cup Units \cup Offers
      <3>1. n \in Leases /\ q.row.unit \in Units /\ q.row.end \in 1 .. LastDay
        BY <2>2, SpareIsFree DEF Lease
      <3>2. end \in 1 .. LastDay
        BY <3>1, <2>3, ConstantTypes
      <3>3. q.row.end \in 0 .. LastDay
        BY <3>1, ConstantTypes
      <3>4. [status |-> "ACT", unit |-> q.row.unit, start |-> q.row.end,
             end |-> end] \in Lease
        BY <3>1, <3>2, <3>3 DEF Lease, LeaseStatus
      <3>5. lease' \in [Leases -> Lease]
        BY <2>3, <3>1, <3>4 DEF RenewTo, TypeOK, Lease, LeaseStatus
      <3>6. QED
        BY <1>0, <2>3, <3>1, <3>5 DEF RenewTo, TypeOK
    <2>4. lease' \in [Leases -> Lease] /\ revived' \subseteq Leases
          /\ raced' \subseteq Leases \cup Units \cup Offers
      BY <1>5, <2>3 DEF Renew, TypeOK, letting
    <2>5. QED
      BY <1>5, <2>1, <2>4 DEF Renew, TypeOK, selling
  <1>6. QED
    BY <1>1, <1>2, <1>3, <1>4, <1>5

LEMMA TypeSalesAndRepairs ==
  ASSUME TypeOK, NEW w \in Workers, Accept(w) \/ CreateAgreement(w) \/ SaveJob(w)
  PROVE  TypeOK'
  <1>0. /\ request[w] \in Request
        /\ raced \cup Races(w) \subseteq Leases \cup Units \cup Offers
    BY RacesTypes DEF TypeOK
  <1>1. CASE Accept(w)
    <2>1. offer' \in [Offers -> OfferStatus] /\ listing' \in ListingStatus
      BY <1>1 DEF Accept, TypeOK, OfferStatus, ListingStatus
    <2>2. request' \in [Workers -> Request]
      BY <1>1, TypeAnswered DEF Accept
    <2>3. QED
      BY <1>0, <1>1, <2>1, <2>2 DEF Accept, TypeOK, letting
  <1>2. CASE CreateAgreement(w)
    <2>1. request' \in [Workers -> Request]
      BY <1>2, TypeAnswered DEF CreateAgreement
    <2>2. QED
      BY <1>2, <2>1 DEF CreateAgreement, TypeOK, letting, selling
  <1>3. CASE SaveJob(w)
    <2>1. request' \in [Workers -> Request]
      BY <1>3, TypeAnswered DEF SaveJob
    <2>2. job' \in Job
      BY <1>0, <1>3, RequestFields DEF SaveJob
    <2>3. QED
      BY <1>3, <2>1, <2>2 DEF SaveJob, TypeOK, letting, selling
  <1>4. QED
    BY <1>1, <1>2, <1>3

LEMMA TypeOthers ==
  ASSUME TypeOK, CreateLease \/ Expire \/ MakeOffer \/ EnterAgreement \/ CompleteSale
  PROVE  TypeOK'
  <1>1. CASE CreateLease
    <2>1. PICK l \in Spare, u \in scope.units :
            lease' = [lease EXCEPT ![l] =
                        [status |-> "DRAFT", unit |-> u, start |-> 0, end |-> 1]]
      BY <1>1 DEF CreateLease
    <2>2. u \in Units
      BY ConstantTypes DEF TypeOK
    <2>3. [status |-> "DRAFT", unit |-> u, start |-> 0, end |-> 1] \in Lease
      BY <2>2, ConstantTypes DEF Lease, LeaseStatus
    <2>4. QED
      BY <1>1, <2>1, <2>3 DEF CreateLease, TypeOK, selling
  <1>2. CASE Expire
    <2>1. lease' \in [Leases -> Lease]
      BY <1>2 DEF Expire, TypeOK, Lease, LeaseStatus
    <2>2. PICK l \in Leases : raced' = raced \cup
            UNION {Subject(request[w]) : w \in {x \in Workers : l \in LeaseOf(request[x])}}
      BY <1>2 DEF Expire
    <2>3. raced' \subseteq Leases \cup Units \cup Offers
      BY <2>2, SubjectTypes DEF TypeOK
    <2>4. QED
      BY <1>2, <2>1, <2>3 DEF Expire, TypeOK, selling
  <1>3. CASE MakeOffer
    <2>1. offer' \in [Offers -> OfferStatus]
      BY <1>3 DEF MakeOffer, TypeOK, OfferStatus
    <2>2. QED
      BY <1>3, <2>1 DEF MakeOffer, TypeOK, letting
  <1>4. CASE EnterAgreement
    BY <1>4 DEF EnterAgreement, TypeOK, letting
  <1>5. CASE CompleteSale
    BY <1>5 DEF CompleteSale, TypeOK, letting, ListingStatus
  <1>6. QED
    BY <1>1, <1>2, <1>3, <1>4, <1>5

LEMMA TypeNext == TypeOK /\ [Next]_vars => TypeOK'
  <1> SUFFICES ASSUME TypeOK, [Next]_vars PROVE TypeOK'
    OBVIOUS
  <1>1. CASE UNCHANGED vars
    BY <1>1 DEF vars, letting, selling, TypeOK
  <1>2. CASE Next
    BY <1>2, TypeFetches, TypeLettings, TypeSalesAndRepairs, TypeOthers DEF Next
  <1>3. QED
    BY <1>1, <1>2

(* Rows, requests and the history keep their types.                        *)
THEOREM OfficeTypes == Spec => []TypeOK
  BY TypeInit, TypeNext, PTL DEF Spec

-----------------------------------------------------------------------------
(* Maintenance.  Every copy of the request that is saved has the stamps of *)
(* its own status.                                                         *)

StampsGood(r) ==
  /\ r.status \in Stamps => r.status \in r.stamped
  /\ r.status = "VER" => "COMP" \in r.stamped

JobsGood ==
  /\ StampsGood(job)
  /\ \A w \in Workers : request[w].kind = "job" => StampsGood(request[w].row)

LEMMA StampedIsGood ==
  ASSUME TypeOK, StampsGood(job),
         NEW new \in Transitions[job.status] \cup {"ACK", "COMP"}
  PROVE  StampsGood(Stamped(job, new))
  <1>1. job.status \in JobStatus
    BY DEF TypeOK, Job
  <1>2. new = "VER" => job.status = "COMP"
    BY <1>1 DEF Transitions, JobStatus
  <1>3. QED
    BY <1>2 DEF StampsGood, Stamped, Stamps

(* Nothing else fetches or saves a maintenance request.                    *)
LEMMA JobsOnlyByRepairs ==
  ASSUME TypeOK, Next, ~\E w \in Workers : FetchJob(w) \/ SaveJob(w)
  PROVE  /\ job' = job
         /\ \A v \in Workers : request'[v].kind = "job" => request'[v] = request[v]
  <1> USE DEF TypeOK
  <1>1. ASSUME NEW w \in Workers,
               FetchEditLease(w) \/ FetchActivate(w) \/ FetchTerminate(w) \/ FetchRenew(w)
                 \/ FetchAccept(w) \/ FetchAgreement(w)
        PROVE  job' = job /\ \E q : q.kind # "job" /\ request' = [request EXCEPT ![w] = q]
    BY <1>1 DEF FetchEditLease, FetchActivate, FetchTerminate, FetchRenew, FetchAccept,
                FetchAgreement, Fetched
  <1>2. ASSUME NEW w \in Workers,
               EditLease(w) \/ Activate(w) \/ Terminate(w) \/ Renew(w) \/ Accept(w)
                 \/ CreateAgreement(w)
        PROVE  job' = job /\ request' = [request EXCEPT ![w] = Idle]
    BY <1>2 DEF EditLease, Activate, Terminate, Renew, Accept, CreateAgreement, Answered
  <1>3. ASSUME NEW w \in Workers, CheckActivate(w)
        PROVE  /\ job' = job
               /\ \E q : q.kind # "job" /\ request' = [request EXCEPT ![w] = q]
    <2>1. request[w] \in Request
      OBVIOUS
    <2>2. [request[w] EXCEPT !.checked = TRUE].kind # "job"
      BY <1>3, <2>1 DEF CheckActivate, Request, Idle
    <2>3. QED
      BY <1>3, <2>2 DEF CheckActivate, Answered, Idle
  <1>4. ASSUME CreateLease \/ Expire \/ MakeOffer \/ EnterAgreement \/ CompleteSale
        PROVE  job' = job /\ request' = request
    BY <1>4 DEF CreateLease, Expire, MakeOffer, EnterAgreement, CompleteSale
  <1>5. QED
    BY <1>1, <1>2, <1>3, <1>4 DEF Next, Idle

LEMMA JobsNext == TypeOK /\ JobsGood /\ [Next]_vars => JobsGood'
  <1> SUFFICES ASSUME TypeOK, JobsGood, [Next]_vars PROVE JobsGood'
    OBVIOUS
  <1>1. CASE UNCHANGED vars
    BY <1>1 DEF vars, JobsGood, StampsGood
  <1>2. ASSUME NEW w \in Workers, FetchJob(w)
        PROVE  JobsGood'
    <2>1. PICK new \in Transitions[job.status] \cup {"ACK", "COMP"} :
            /\ request' = [request EXCEPT ![w] = [kind |-> "job", row |-> Stamped(job, new)]]
            /\ job' = job
      BY <1>2 DEF FetchJob, Fetched
    <2>2. StampsGood(Stamped(job, new))
      BY StampedIsGood DEF JobsGood
    <2>3. QED
      BY <2>1, <2>2 DEF JobsGood, TypeOK, StampsGood
  <1>3. ASSUME NEW w \in Workers, SaveJob(w)
        PROVE  JobsGood'
    BY <1>3 DEF SaveJob, Answered, Idle, JobsGood, TypeOK, StampsGood
  <1>4. ASSUME Next, ~\E w \in Workers : FetchJob(w) \/ SaveJob(w)
        PROVE  JobsGood'
    BY <1>4, JobsOnlyByRepairs DEF JobsGood, StampsGood
  <1>5. QED
    BY <1>1, <1>2, <1>3, <1>4

(* However whole-row saves of a maintenance request overwrite each other,  *)
(* the row has the time stamps its status needs.                           *)
THEOREM StampsAreKept == Spec => []StampsFollowStatus
  <1>1. Init => JobsGood
    BY DEF Init, JobsGood, StampsGood, Stamps, Idle
  <1>2. JobsGood => StampsFollowStatus
    BY DEF JobsGood, StampsGood, StampsFollowStatus
  <1>3. QED
    BY <1>1, <1>2, JobsNext, OfficeTypes, PTL DEF Spec

-----------------------------------------------------------------------------
(* Sales.  Once an offer is accepted, it and every acceptance still in     *)
(* flight were at work at the same time.                                   *)

Accepted == {o \in Offers : offer[o] = "ACC"}
Accepting(v) == request[v].kind = "accept"

OffersGood ==
  /\ listing = "OFFER" => Accepted # {}
  /\ listing = "LIST" => Accepted = {}
  /\ \A v \in Workers : Accepting(v) /\ Accepted # {} =>
       Accepted \cup {request[v].offer} \subseteq raced
  /\ (\E o, p \in Accepted : o # p) => Accepted \subseteq raced

(* Two acceptances in flight mark each other's offers when one is written. *)
LEMMA AcceptsMeet ==
  ASSUME NEW w \in Workers, NEW v \in Workers, v # w, Accepting(w), Accepting(v)
  PROVE  {request[w].offer, request[v].offer} \subseteq Races(w)
  <1>1. Meet(request[w], request[v])
    BY DEF Meet, Accepting
  <1>2. v \in {x \in Workers \ {w} : Meet(request[w], request[x])}
    BY <1>1
  <1>3. /\ Subject(request[w]) = {request[w].offer}
        /\ Subject(request[v]) = {request[v].offer}
    BY DEF Subject, Accepting
  <1>4. QED
    BY <1>2, <1>3 DEF Races

LEMMA OffersFetch ==
  ASSUME TypeOK, OffersGood, NEW w \in Workers, FetchAccept(w)
  PROVE  OffersGood'
  BY DEF FetchAccept, Fetched, selling, OffersGood, Accepted, Accepting, TypeOK

LEMMA OffersAccept ==
  ASSUME TypeOK, OffersGood, NEW w \in Workers, Accept(w)
  PROVE  OffersGood'
  <1> DEFINE o == request[w].offer
  <1>1. /\ request[w].kind = "accept" /\ o \in Offers
        /\ request' = [request EXCEPT ![w] = Idle]
        /\ listing' = "OFFER" /\ raced' = raced \cup Races(w)
    BY RequestFields DEF Accept, Answered, TypeOK
  <1>2. Accepted' = Accepted \cup {o}
    BY <1>1 DEF Accept, Accepted, TypeOK
  <1>3. ASSUME Accepted # {}
        PROVE  Accepted \cup {o} \subseteq raced
    BY <1>1, <1>3 DEF OffersGood, Accepting
  <1>4. ASSUME NEW v \in Workers, Accepting(v)'
        PROVE  (Accepted \cup {request[v].offer})' \subseteq raced'
    <2>1. v # w /\ request'[v] = request[v] /\ Accepting(v)
      BY <1>1, <1>4 DEF Accepting, Idle, TypeOK
    <2>2. {o, request[v].offer} \subseteq raced'
      BY <1>1, <2>1, AcceptsMeet DEF Accepting
    <2>3. Accepted \subseteq raced'
      BY <1>1, <1>3
    <2>4. QED
      BY <1>2, <2>1, <2>2, <2>3
  <1>5. (\E p, q \in Accepted' : p # q) => Accepted' \subseteq raced'
    BY <1>1, <1>2, <1>3
  <1>6. Accepted' # {} /\ listing' # "LIST"
    BY <1>1, <1>2
  <1>7. QED
    BY <1>4, <1>5, <1>6 DEF OffersGood

LEMMA OffersElsewhere ==
  ASSUME TypeOK, OffersGood, Next, ~\E w \in Workers : FetchAccept(w) \/ Accept(w)
  PROVE  OffersGood'
  <1> USE DEF TypeOK
  <1>1. ASSUME Accepted' = Accepted,
               \/ listing' = listing
               \/ listing' = "COMP",
               raced \subseteq raced',
               \A v \in Workers : request'[v].kind = "accept" => request'[v] = request[v]
        PROVE  OffersGood'
    BY <1>1 DEF OffersGood, Accepting
  <1>2. ASSUME NEW w \in Workers,
               FetchEditLease(w) \/ FetchActivate(w) \/ FetchTerminate(w) \/ FetchRenew(w)
                 \/ FetchAgreement(w) \/ FetchJob(w)
        PROVE  /\ UNCHANGED <<selling, raced>>
               /\ \E q : q.kind # "accept" /\ request' = [request EXCEPT ![w] = q]
    BY <1>2 DEF FetchEditLease, FetchActivate, FetchTerminate, FetchRenew,
                FetchAgreement, FetchJob, Fetched
  <1>3. ASSUME NEW w \in Workers,
               EditLease(w) \/ Activate(w) \/ Terminate(w) \/ Renew(w)
                 \/ CreateAgreement(w) \/ SaveJob(w)
        PROVE  /\ UNCHANGED selling /\ raced \subseteq raced'
               /\ request' = [request EXCEPT ![w] = Idle]
    BY <1>3 DEF EditLease, Activate, Terminate, Renew, RenewTo, CreateAgreement, SaveJob,
                Answered
  <1>4. ASSUME NEW w \in Workers, CheckActivate(w)
        PROVE  /\ UNCHANGED <<selling, raced>>
               /\ \E q : q.kind # "accept" /\ request' = [request EXCEPT ![w] = q]
    <2>1. request[w] \in Request
      OBVIOUS
    <2>2. [request[w] EXCEPT !.checked = TRUE].kind # "accept"
      BY <1>4, <2>1 DEF CheckActivate, Request, Idle
    <2>3. QED
      BY <1>4, <2>2 DEF CheckActivate, Answered, Idle
  <1>5. ASSUME CreateLease \/ Expire \/ MakeOffer \/ EnterAgreement \/ CompleteSale
        PROVE  /\ Accepted' = Accepted /\ listing' \in {listing, "COMP"}
               /\ raced \subseteq raced' /\ request' = request
    BY <1>5 DEF CreateLease, Expire, MakeOffer, EnterAgreement, CompleteSale, selling,
                Accepted
  <1>6. ASSUME UNCHANGED selling
        PROVE  Accepted' = Accepted /\ listing' = listing
    BY <1>6 DEF selling, Accepted
  <1>7. QED
    BY <1>1, <1>2, <1>3, <1>4, <1>5, <1>6 DEF Next, Idle

LEMMA OffersNext == TypeOK /\ OffersGood /\ [Next]_vars => OffersGood'
  <1> SUFFICES ASSUME TypeOK, OffersGood, [Next]_vars PROVE OffersGood'
    OBVIOUS
  <1>1. CASE UNCHANGED vars
    BY <1>1 DEF vars, selling, OffersGood, Accepted, Accepting
  <1>2. CASE Next
    BY <1>2, OffersFetch, OffersAccept, OffersElsewhere
  <1>3. QED
    BY <1>1, <1>2

(* Several accepted offers have more than one member.                      *)
LEMMA OffersImply == TypeOK /\ OffersGood => OffersFitListing
  <1> SUFFICES ASSUME TypeOK, OffersGood PROVE OffersFitListing
    OBVIOUS
  <1>1. ASSUME Cardinality(Accepted) > 1, ~\E o, p \in Accepted : o # p
        PROVE  FALSE
    <2>1. CASE Accepted = {}
      BY <1>1, <2>1, FS_EmptySet
    <2>2. CASE Accepted # {}
      <3>1. PICK o \in Accepted : TRUE
        BY <2>2
      <3>2. Accepted = {o}
        BY <1>1, <3>1
      <3>3. Cardinality({o}) = 1
        BY FS_Singleton
      <3>4. QED
        BY <1>1, <3>2, <3>3
    <2>3. QED
      BY <2>1, <2>2
  <1>2. QED
    BY <1>1 DEF OffersGood, OffersFitListing, Accepted

(* The listing says what its offers say, and several offers are accepted   *)
(* only by acceptances that were under way at once.                        *)
THEOREM OffersAndListingAgree == Spec => []OffersFitListing
  <1>1. Init => OffersGood
    BY DEF Init, OffersGood, Accepted, Accepting, Idle
  <1>2. QED
    BY <1>1, OffersImply, OffersNext, OfficeTypes, PTL DEF Spec

-----------------------------------------------------------------------------
(* Lettings: how a step changes the requests and the leases.               *)

(* A request that has just read its lease.                                 *)
Fresh(q) ==
  LET l == lease[q.lease] IN
  \/ /\ q.kind = "activate" /\ l.status \in {"DRAFT", "PEND"}
     /\ q.unit = l.unit /\ ~q.checked
  \/ /\ q.kind = "edit" /\ l.status \in {"DRAFT", "PEND"}
     /\ q.row.status = l.status /\ q.row.start = l.start
  \/ q.kind = "terminate" /\ l.status = "ACT" /\ q.row = l
  \/ q.kind = "renew" /\ l.status \in {"ACT", "EXP"} /\ q.row = l

(* An activation that has just found no other active lease.                *)
Cleared(p, q) ==
  /\ p.kind = "activate" /\ q = [p EXCEPT !.checked = TRUE]
  /\ Active(p.unit) \ {p.lease} = {}

LEMMA RequestSteps ==
  ASSUME TypeOK, Next, NEW v \in Workers, NEW q, q = request'[v],
         q.kind \in OnLease, q # request[v]
  PROVE  /\ UNCHANGED <<letting, unitStatus, raced>>
         /\ Fresh(q) \/ Cleared(request[v], q)
  <1> USE DEF TypeOK
  <1>1. CASE FetchEditLease(v)
    BY <1>1 DEF FetchEditLease, Fetched, Fresh, Lease
  <1>2. CASE FetchActivate(v) \/ FetchTerminate(v) \/ FetchRenew(v)
    BY <1>2 DEF FetchActivate, FetchTerminate, FetchRenew, Fetched, Fresh
  <1>3. CASE CheckActivate(v)
    <2>1. ~Answered(v)
      BY DEF Answered, Idle, OnLease, OnRow
    <2>2. /\ request[v].kind = "activate"
          /\ Active(request[v].unit) \ {request[v].lease} = {}
          /\ request' = [request EXCEPT ![v].checked = TRUE]
      BY <1>3, <2>1 DEF CheckActivate
    <2>3. Cleared(request[v], q)
      BY <2>2 DEF Cleared
    <2>4. QED
      BY <1>3, <2>3 DEF CheckActivate
  <1>4. CASE FetchAccept(v) \/ FetchAgreement(v) \/ FetchJob(v)
    BY <1>4 DEF FetchAccept, FetchAgreement, FetchJob, Fetched, OnLease, OnRow
  <1>5. CASE EditLease(v) \/ Activate(v) \/ Terminate(v) \/ Renew(v) \/ Accept(v)
             \/ CreateAgreement(v) \/ SaveJob(v)
    BY <1>5 DEF EditLease, Activate, Terminate, Renew, Accept, CreateAgreement, SaveJob,
                Answered, Idle, OnLease, OnRow
  <1>6. ASSUME NEW w \in Workers, w # v,
               FetchEditLease(w) \/ FetchActivate(w) \/ FetchTerminate(w) \/ FetchRenew(w)
                 \/ FetchAccept(w) \/ FetchAgreement(w) \/ FetchJob(w)
        PROVE  request'[v] = request[v]
    BY <1>6 DEF FetchEditLease, FetchActivate, FetchTerminate, FetchRenew, FetchAccept,
                FetchAgreement, FetchJob, Fetched
  <1>7. ASSUME NEW w \in Workers, w # v,
               EditLease(w) \/ Activate(w) \/ Terminate(w) \/ Renew(w) \/ Accept(w)
                 \/ CreateAgreement(w) \/ SaveJob(w) \/ CheckActivate(w)
        PROVE  request'[v] = request[v]
    BY <1>7 DEF EditLease, Activate, Terminate, Renew, Accept, CreateAgreement, SaveJob,
                CheckActivate, Answered
  <1>8. ASSUME CreateLease \/ Expire \/ MakeOffer \/ EnterAgreement \/ CompleteSale
        PROVE  request'[v] = request[v]
    BY <1>8 DEF CreateLease, Expire, MakeOffer, EnterAgreement, CompleteSale
  <1>9. QED
    BY <1>1, <1>2, <1>3, <1>4, <1>5, <1>6, <1>7, <1>8 DEF Next

(* The renewal that goes through.                                          *)
RenewedTo(w, n) ==
  /\ request[w].kind = "renew" /\ n \in Spare /\ Answered(w)
  /\ \E end \in request[w].row.end + 1 .. LastDay : RenewTo(w, n, end)
  /\ UNCHANGED unitStatus

(* The steps that write leases.                                            *)
Rewrites ==
  \/ CreateLease \/ Expire
  \/ \E w \in Workers : \/ EditLease(w) \/ Activate(w) \/ Terminate(w)
                        \/ \E n \in Leases : RenewedTo(w, n)

Elsewhere ==
  /\ UNCHANGED letting /\ raced \subseteq raced'
  /\ \A u \in Units : unitStatus'[u] \in {unitStatus[u], "SOLD"}

LEMMA LeaseSteps ==
  ASSUME TypeOK, Next
  PROVE  Rewrites \/ Elsewhere
  <1> USE DEF TypeOK
  <1>1. ASSUME NEW w \in Workers,
               FetchEditLease(w) \/ FetchActivate(w) \/ FetchTerminate(w) \/ FetchRenew(w)
                 \/ FetchAccept(w) \/ FetchAgreement(w) \/ FetchJob(w)
        PROVE  Elsewhere
    BY <1>1 DEF FetchEditLease, FetchActivate, FetchTerminate, FetchRenew, FetchAccept,
                FetchAgreement, FetchJob, Fetched, Elsewhere
  <1>2. ASSUME NEW w \in Workers,
               Accept(w) \/ CreateAgreement(w) \/ SaveJob(w) \/ CheckActivate(w)
        PROVE  Elsewhere
    BY <1>2 DEF Accept, CreateAgreement, SaveJob, CheckActivate, Elsewhere
  <1>3. ASSUME NEW w \in Workers, Renew(w)
        PROVE  Rewrites \/ Elsewhere
    <2>1. CASE UNCHANGED <<letting, raced>>
      BY <1>3, <2>1 DEF Renew, Elsewhere
    <2>2. CASE \E n \in Spare, end \in request[w].row.end + 1 .. LastDay : RenewTo(w, n, end)
      BY <1>3, <2>2, SpareIsFree DEF Renew, RenewedTo, Rewrites
    <2>3. QED
      BY <1>3, <2>1, <2>2 DEF Renew
  <1>4. ASSUME MakeOffer \/ EnterAgreement \/ CompleteSale
        PROVE  Elsewhere
    BY <1>4 DEF MakeOffer, EnterAgreement, CompleteSale, Elsewhere
  <1>5. QED
    BY <1>1, <1>2, <1>3, <1>4 DEF Next, Rewrites

(* What a renewal of lease l, read as row, writes.                         *)
RenewalOf(w, n, l, row) ==
  /\ l = request[w].lease /\ row = request[w].row
  /\ l \in Leases /\ row \in Lease /\ lease[n].status = "none"
  /\ \A m \in Leases \ {l, n} : lease'[m] = lease[m]
  /\ n # l => /\ lease'[n].status = "ACT" /\ lease'[n].unit = row.unit
              /\ lease'[n].start = row.end /\ lease'[n].end \in Nat
              /\ lease'[l] = [lease[l] EXCEPT !.status = "REN"]
  /\ row.status = "EXP" \/ l \in revived => n \in revived'
  /\ revived' \in {revived, revived \cup {n}}
  /\ raced \cup Races(w) \subseteq raced'
  /\ l \in raced \cup Races(w) => {n, row.unit} \subseteq raced'

LEMMA Renewal ==
  ASSUME TypeOK, NEW w \in Workers, NEW n \in Leases, RenewedTo(w, n)
  PROVE  \E l \in Leases, row \in Lease : RenewalOf(w, n, l, row)
  <1> USE DEF TypeOK
  <1>1. PICK l, row : l = request[w].lease /\ row = request[w].row
    OBVIOUS
  <1>2. PICK end \in row.end + 1 .. LastDay : RenewTo(w, n, end)
    BY <1>1 DEF RenewedTo
  <1>3. lease[n].status = "none" /\ l \in Leases /\ row \in Lease
    BY <1>1, SpareIsFree, RequestFields DEF RenewedTo, OnLease, OnRow
  <1>4. end \in Nat
    BY <1>3, ConstantTypes DEF Lease
  <1>5. lease' = [lease EXCEPT ![n] = [status |-> "ACT", unit |-> row.unit,
                                       start |-> row.end, end |-> end],
                               ![l].status = "REN"]
    BY <1>1, <1>2 DEF RenewTo
  <1>6. /\ \A m \in Leases \ {l, n} : lease'[m] = lease[m]
        /\ n # l => /\ lease'[n] = [status |-> "ACT", unit |-> row.unit,
                                    start |-> row.end, end |-> end]
                    /\ lease'[l] = [lease[l] EXCEPT !.status = "REN"]
    BY <1>3, <1>5
  <1>7. /\ row.status = "EXP" \/ l \in revived => n \in revived'
        /\ revived' \in {revived, revived \cup {n}}
    BY <1>1, <1>2 DEF RenewTo
  <1>8. /\ raced \cup Races(w) \subseteq raced'
        /\ l \in raced \cup Races(w) => {n, row.unit} \subseteq raced'
    BY <1>1, <1>2 DEF RenewTo
  <1>9. QED
    BY <1>1, <1>3, <1>4, <1>6, <1>7, <1>8 DEF RenewalOf

-----------------------------------------------------------------------------
(* Rows.  Only drafts have no start of their own, so an edit never reaches *)
(* a lease that a renewal made; a row once made stays, with its start.     *)

RowGood(l) ==
  /\ lease[l].status \in {"none", "DRAFT", "PEND"} => lease[l].start = 0
  /\ l \in revived => lease[l].start # 0

CopyGood(q) ==
  /\ q.kind \in OnLease => lease[q.lease].status # "none"
  /\ q.kind = "edit" => /\ lease[q.lease].start = 0 /\ q.row.start = 0
                        /\ q.row.status \in {"DRAFT", "PEND"}
  /\ q.kind = "terminate" => q.row.status = "ACT"
  /\ q.kind = "renew" => q.row.status \in {"ACT", "EXP"}

RowsGood ==
  /\ \A l \in Leases : RowGood(l)
  /\ \A v \in Workers : CopyGood(request[v])

RowStays(l) ==
  lease[l].status # "none" => lease'[l].status # "none" /\ lease'[l].start = lease[l].start

LEMMA RowsStay ==
  ASSUME TypeOK, RowsGood, Rewrites \/ Elsewhere, NEW l \in Leases
  PROVE  RowStays(l) /\ RowGood(l)'
  <1> USE DEF TypeOK, RowsGood, RowGood, RowStays
  <1>1. CASE Elsewhere
    BY <1>1 DEF Elsewhere, letting
  <1>2. CASE CreateLease
    BY <1>2, SpareIsFree DEF CreateLease
  <1>3. CASE Expire
    BY <1>3 DEF Expire
  <1>4. ASSUME NEW w \in Workers, EditLease(w)
        PROVE  RowStays(l) /\ RowGood(l)'
    <2>1. /\ request[w].lease \in Leases /\ lease[request[w].lease].start = 0
          /\ request[w].row.start = 0 /\ request[w].row.status \in {"DRAFT", "PEND"}
      BY <1>4, RequestFields DEF EditLease, CopyGood, OnLease, OnRow
    <2>2. QED
      BY <1>4, <2>1 DEF EditLease
  <1>5. ASSUME NEW w \in Workers, Activate(w) \/ Terminate(w)
        PROVE  RowStays(l) /\ RowGood(l)'
    BY <1>5 DEF Activate, Terminate, Lease
  <1>6. ASSUME NEW w \in Workers, NEW n \in Leases, RenewedTo(w, n)
        PROVE  RowStays(l) /\ RowGood(l)'
    <2>1. PICK k \in Leases, row \in Lease : RenewalOf(w, n, k, row)
      BY <1>6, Renewal
    <2>2. lease[k].status # "none" /\ k # n
      BY <1>6, <2>1 DEF RenewedTo, RenewalOf, CopyGood, OnLease, OnRow
    <2>3. row.end # 0
      <3>1. row.end \in 1 .. LastDay
        BY DEF Lease
      <3>2. QED
        BY <3>1, ConstantTypes
    <2>4. CASE l = k
      BY <2>1, <2>2, <2>4 DEF RenewalOf, Lease
    <2>5. CASE l # k
      BY <2>1, <2>2, <2>3, <2>5 DEF RenewalOf
    <2>6. QED
      BY <2>4, <2>5
  <1>7. QED
    BY <1>1, <1>2, <1>3, <1>4, <1>5, <1>6 DEF Rewrites

LEMMA CopiesStay ==
  ASSUME TypeOK, RowsGood, Next, NEW v \in Workers
  PROVE  CopyGood(request[v])'
  <1>0. PICK q : q = request'[v]
    OBVIOUS
  <1>1. Rewrites \/ Elsewhere
    BY LeaseSteps
  <1>2. CASE q.kind \notin OnLease
    BY <1>0, <1>2 DEF CopyGood, OnLease, OnRow
  <1>3. CASE q.kind \in OnLease /\ q = request[v]
    <2>1. q \in Request /\ CopyGood(q)
      BY <1>3 DEF TypeOK, RowsGood
    <2>2. q.lease \in Leases
      BY <1>3, <2>1, RequestFields
    <2>3. RowStays(q.lease)
      BY <1>1, <2>2, RowsStay
    <2>4. QED
      BY <1>0, <1>3, <2>1, <2>3 DEF CopyGood, RowStays
  <1>4. CASE q.kind \in OnLease /\ q # request[v]
    <2>1. UNCHANGED letting /\ (Fresh(q) \/ Cleared(request[v], q))
      BY <1>0, <1>4, RequestSteps
    <2>2. request[v] \in Request /\ q \in Request
      BY <1>0, TypeNext DEF TypeOK
    <2>3. q.lease \in Leases
      BY <1>4, <2>2, RequestFields
    <2>4. CASE Fresh(q)
      BY <1>0, <2>1, <2>3, <2>4 DEF Fresh, CopyGood, RowsGood, RowGood, letting
    <2>5. CASE Cleared(request[v], q)
      <3>1. /\ q.kind = "activate" /\ q.lease = request[v].lease
            /\ request[v].kind = "activate"
        BY <2>2, <2>5 DEF Cleared, Request, Idle
      <3>2. QED
        BY <1>0, <2>1, <3>1 DEF CopyGood, RowsGood, letting, OnLease, OnRow
    <2>6. QED
      BY <2>1, <2>4, <2>5
  <1>5. QED
    BY <1>2, <1>3, <1>4

LEMMA RowsNext == TypeOK /\ RowsGood /\ [Next]_vars => RowsGood'
  <1> SUFFICES ASSUME TypeOK, RowsGood, [Next]_vars PROVE RowsGood'
    OBVIOUS
  <1>1. CASE UNCHANGED vars
    BY <1>1 DEF vars, letting, RowsGood, RowGood, CopyGood
  <1>2. CASE Next
    <2>1. \A l \in Leases : RowGood(l)'
      BY <1>2, LeaseSteps, RowsStay
    <2>2. \A v \in Workers : CopyGood(request[v])'
      BY <1>2, CopiesStay
    <2>3. QED
      BY <2>1, <2>2 DEF RowsGood
  <1>3. QED
    BY <1>1, <1>2

LEMMA RowsAlwaysGood == Spec => []RowsGood
  <1>1. Init => RowsGood
    BY DEF Init, RowsGood, RowGood, CopyGood, Idle, OnLease, OnRow
  <1>2. QED
    BY <1>1, RowsNext, OfficeTypes, PTL DEF Spec

-----------------------------------------------------------------------------
(* What a request has read stays true of its lease, or the lease and the   *)
(* units concerned are marked.                                             *)

SeenGood(q) ==
  /\ q.kind = "activate" =>
       \/ lease[q.lease].unit = q.unit
       \/ {q.lease, lease[q.lease].unit} \subseteq raced
  /\ q.kind \in {"terminate", "renew"} =>
       \/ lease[q.lease] = q.row
       \/ {q.lease, q.row.unit} \subseteq raced

AllSeenGood == \A v \in Workers : SeenGood(request[v])

LEMMA SubjectHas ==
  ASSUME NEW q \in Request
  PROVE  /\ q.kind \in OnLease => q.lease \in Subject(q)
         /\ q.kind = "activate" => q.unit \in Subject(q)
         /\ q.kind \in OnRow => {q.row.unit, lease[q.lease].unit} \subseteq Subject(q)
  BY DEF Subject, OnLease, OnRow

LEMMA Together ==
  ASSUME TypeOK, NEW w \in Workers, NEW v \in Workers \ {w},
         Meet(request[w], request[v])
  PROVE  Subject(request[w]) \cup Subject(request[v]) \subseteq Races(w)
  <1>1. v \in {x \in Workers \ {w} : Meet(request[w], request[x])}
    OBVIOUS
  <1>2. QED
    BY <1>1 DEF Races

LEMMA SameLeaseMeets ==
  ASSUME TypeOK, NEW w \in Workers, NEW v \in Workers,
         request[w].kind \in OnLease, request[v].kind \in OnLease,
         request[w].lease = request[v].lease
  PROVE  Meet(request[w], request[v])
  <1>1. request[w] \in Request /\ request[v] \in Request
    BY DEF TypeOK
  <1>2. LeaseOf(request[w]) \cap LeaseOf(request[v]) # {}
    BY <1>1, RequestFields
  <1>3. QED
    BY <1>2 DEF Meet

LEMMA RacedGrows ==
  ASSUME TypeOK, Rewrites \/ Elsewhere
  PROVE  raced \subseteq raced'
  <1>1. ASSUME NEW w \in Workers, NEW n \in Leases, RenewedTo(w, n)
        PROVE  raced \subseteq raced'
    BY <1>1, Renewal DEF RenewalOf
  <1>2. QED
    BY <1>1 DEF Rewrites, Elsewhere, CreateLease, Expire, EditLease, Activate, Terminate

(* Whoever writes a lease marks what the others on that lease are about.   *)
LEMMA WritesRace ==
  ASSUME TypeOK, RowsGood, Rewrites \/ Elsewhere, NEW v \in Workers,
         request[v].kind \in OnLease, request'[v] = request[v],
         NEW l, l = request[v].lease, lease'[l] # lease[l]
  PROVE  /\ Subject(request[v]) \subseteq raced'
         /\ lease'[l].unit = lease[l].unit \/ lease'[l].unit \in raced'
  <1> USE DEF TypeOK
  <1>0. l \in Leases /\ lease[l].status # "none" /\ lease[l] \in Lease
    BY RequestFields DEF RowsGood, CopyGood
  <1>1. CASE Elsewhere
    BY <1>1 DEF Elsewhere, letting
  <1>2. CASE CreateLease
    BY <1>0, <1>2, SpareIsFree DEF CreateLease
  <1>3. CASE Expire
    <2>1. PICK m \in Leases :
            /\ lease' = [lease EXCEPT ![m].status = "EXP"]
            /\ raced' = raced \cup
                 UNION {Subject(request[w]) : w \in {x \in Workers : m \in LeaseOf(request[x])}}
      BY <1>3 DEF Expire
    <2>2. m = l
      BY <2>1
    <2>3. LeaseOf(request[v]) = {l}
      BY RequestFields
    <2>4. v \in {x \in Workers : m \in LeaseOf(request[x])}
      BY <2>2, <2>3
    <2>5. Subject(request[v]) \subseteq raced'
      BY <2>1, <2>4
    <2>6. lease'[l].unit = lease[l].unit
      BY <1>0, <2>1, <2>2 DEF Lease
    <2>7. QED
      BY <2>5, <2>6
  <1>4. ASSUME NEW w \in Workers, EditLease(w) \/ Activate(w) \/ Terminate(w)
        PROVE  /\ Subject(request[v]) \subseteq raced'
               /\ lease'[l].unit = lease[l].unit \/ lease'[l].unit \in raced'
    <2>1. /\ request' = [request EXCEPT ![w] = Idle] /\ raced' = raced \cup Races(w)
          /\ request[w].kind \in OnLease
      BY <1>4 DEF EditLease, Activate, Terminate, Answered, OnLease, OnRow
    <2>2. w # v
      BY <2>1 DEF Idle, OnLease, OnRow
    <2>3. request[w].lease = l
      <3>1. ASSUME NEW k, k = request[w].lease, k # l
            PROVE  lease'[l] = lease[l]
        BY <1>0, <1>4, <3>1 DEF EditLease, Activate, Terminate
      <3>2. QED
        BY <3>1
    <2>4. Subject(request[w]) \cup Subject(request[v]) \subseteq raced'
      BY <2>1, <2>2, <2>3, SameLeaseMeets, Together
    <2>5. CASE EditLease(w)
      <3>1. lease'[l] = request[w].row
        BY <1>0, <2>3, <2>5 DEF EditLease
      <3>2. request[w].row.unit \in Subject(request[w])
        BY <2>5, SubjectHas DEF EditLease, OnRow
      <3>3. QED
        BY <2>4, <3>1, <3>2
    <2>6. CASE Activate(w) \/ Terminate(w)
      <3>1. lease'[l].unit = lease[l].unit
        BY <1>0, <2>3, <2>6 DEF Activate, Terminate, Lease
      <3>2. QED
        BY <2>4, <3>1
    <2>7. QED
      BY <1>4, <2>5, <2>6
  <1>5. ASSUME NEW w \in Workers, NEW n \in Leases, RenewedTo(w, n)
        PROVE  /\ Subject(request[v]) \subseteq raced'
               /\ lease'[l].unit = lease[l].unit \/ lease'[l].unit \in raced'
    <2>1. PICK k \in Leases, row \in Lease : RenewalOf(w, n, k, row)
      BY <1>5, Renewal
    <2>2. /\ request[w].kind \in OnLease /\ request' = [request EXCEPT ![w] = Idle]
          /\ raced \cup Races(w) \subseteq raced'
      BY <1>5, <2>1 DEF RenewedTo, RenewalOf, Answered, OnLease, OnRow
    <2>3. w # v
      BY <2>2 DEF Idle, OnLease, OnRow
    <2>4. l = k /\ l # n
      BY <1>0, <2>1 DEF RenewalOf
    <2>5. Subject(request[v]) \subseteq raced'
      BY <2>1, <2>2, <2>3, <2>4, SameLeaseMeets, Together DEF RenewalOf
    <2>6. lease'[l].unit = lease[l].unit
      BY <1>0, <2>1, <2>4 DEF RenewalOf, Lease
    <2>7. QED
      BY <2>5, <2>6
  <1>6. QED
    BY <1>1, <1>2, <1>3, <1>4, <1>5 DEF Rewrites

LEMMA SeenStays ==
  ASSUME TypeOK, RowsGood, AllSeenGood, Next, NEW v \in Workers
  PROVE  SeenGood(request[v])'
  <1>0. PICK q : q = request'[v]
    OBVIOUS
  <1>1. (Rewrites \/ Elsewhere) /\ raced \subseteq raced'
    BY LeaseSteps, RacedGrows
  <1>2. CASE q.kind \notin OnLease
    BY <1>0, <1>2 DEF SeenGood, OnLease, OnRow
  <1>3. CASE q.kind \in OnLease /\ q = request[v]
    <2>1. q \in Request /\ SeenGood(q)
      BY <1>3 DEF TypeOK, AllSeenGood
    <2>2. CASE lease'[q.lease] = lease[q.lease]
      BY <1>0, <1>1, <2>1, <2>2 DEF SeenGood
    <2>3. CASE lease'[q.lease] # lease[q.lease]
      <3>1. PICK l : l = q.lease
        OBVIOUS
      <3>2. /\ Subject(q) \subseteq raced'
            /\ lease'[l].unit = lease[l].unit \/ lease'[l].unit \in raced'
        BY <1>0, <1>1, <1>3, <2>3, <3>1, WritesRace
      <3>3. l \in raced' /\ (q.kind \in OnRow => q.row.unit \in raced')
        BY <1>3, <2>1, <3>1, <3>2, SubjectHas
      <3>4. QED
        BY <1>0, <1>1, <2>1, <3>1, <3>2, <3>3 DEF SeenGood, OnRow
    <2>4. QED
      BY <2>2, <2>3
  <1>4. CASE q.kind \in OnLease /\ q # request[v]
    <2>1. /\ UNCHANGED <<letting, unitStatus, raced>>
          /\ Fresh(q) \/ Cleared(request[v], q)
      BY <1>0, <1>4, RequestSteps
    <2>2. CASE Fresh(q)
      BY <1>0, <2>1, <2>2 DEF Fresh, SeenGood, letting
    <2>3. CASE Cleared(request[v], q)
      <3>1. request[v] \in Request
        BY DEF TypeOK
      <3>2. /\ q.kind = "activate" /\ q.lease = request[v].lease
            /\ q.unit = request[v].unit /\ request[v].kind = "activate"
        BY <2>3, <3>1 DEF Cleared, Request, Idle
      <3>3. QED
        BY <1>0, <2>1, <3>2 DEF SeenGood, AllSeenGood, letting
    <2>4. QED
      BY <2>1, <2>2, <2>3
  <1>5. QED
    BY <1>2, <1>3, <1>4

LEMMA SeenNext == TypeOK /\ RowsGood /\ AllSeenGood /\ [Next]_vars => AllSeenGood'
  <1> SUFFICES ASSUME TypeOK, RowsGood, AllSeenGood, [Next]_vars PROVE AllSeenGood'
    OBVIOUS
  <1>1. CASE UNCHANGED vars
    BY <1>1 DEF vars, letting, AllSeenGood, SeenGood
  <1>2. CASE Next
    BY <1>2, SeenStays DEF AllSeenGood
  <1>3. QED
    BY <1>1, <1>2

LEMMA AlwaysSeenGood == Spec => []AllSeenGood
  <1>1. Init => AllSeenGood
    BY DEF Init, AllSeenGood, SeenGood, Idle
  <1>2. QED
    BY <1>1, SeenNext, RowsAlwaysGood, OfficeTypes, PTL DEF Spec

-----------------------------------------------------------------------------
(* Two tenants in one unit.  An activation that found no other active      *)
(* lease only ever meets leases that an unguarded renewal or a race made   *)
(* active since.                                                           *)

Hit(l, m, u) ==
  \/ l \in revived \/ m \in revived
  \/ u \in raced /\ (l \in raced \/ m \in raced)

ClearGood(q) ==
  q.kind = "activate" /\ q.checked =>
    \A m \in Active(q.unit) \ {q.lease} : Hit(q.lease, m, q.unit)

UnitsApart == \A u \in Units : \A l, m \in Active(u) : l # m => Hit(l, m, u)
AllClearGood == \A v \in Workers : ClearGood(request[v])

LEMMA HitStays ==
  ASSUME raced \subseteq raced', revived \subseteq revived',
         NEW l, NEW m, NEW u, Hit(l, m, u)
  PROVE  Hit(l, m, u)'
  BY DEF Hit

LEMMA RevivedGrows ==
  ASSUME TypeOK, Rewrites \/ Elsewhere
  PROVE  revived \subseteq revived'
  <1>1. ASSUME NEW w \in Workers, NEW n \in Leases, RenewedTo(w, n)
        PROVE  revived \subseteq revived'
    <2>1. PICK k \in Leases, row \in Lease : RenewalOf(w, n, k, row)
      BY <1>1, Renewal
    <2>2. QED
      BY <2>1 DEF RenewalOf
  <1>2. CASE Elsewhere
    BY <1>2 DEF Elsewhere, letting
  <1>3. CASE CreateLease \/ Expire \/ \E w \in Workers : EditLease(w) \/ Activate(w)
                                                         \/ Terminate(w)
    BY <1>3 DEF CreateLease, Expire, EditLease, Activate, Terminate
  <1>4. QED
    BY <1>1, <1>2, <1>3 DEF Rewrites

(* All other steps only take leases out of the units.                      *)
LEMMA UnitsEmpty ==
  ASSUME TypeOK, RowsGood, NEW u \in Units,
         Elsewhere \/ CreateLease \/ Expire
           \/ \E w \in Workers : EditLease(w) \/ Terminate(w)
  PROVE  Active(u)' \subseteq Active(u)
  <1> USE DEF TypeOK, Active
  <1>1. CASE Elsewhere
    BY <1>1 DEF Elsewhere, letting
  <1>2. CASE CreateLease \/ Expire
    BY <1>2 DEF CreateLease, Expire, Lease
  <1>3. ASSUME NEW w \in Workers, EditLease(w)
        PROVE  Active(u)' \subseteq Active(u)
    <2>1. request[w].row.status \in {"DRAFT", "PEND"}
      BY <1>3 DEF EditLease, RowsGood, CopyGood
    <2>2. QED
      BY <1>3, <2>1 DEF EditLease
  <1>4. ASSUME NEW w \in Workers, Terminate(w)
        PROVE  Active(u)' \subseteq Active(u)
    BY <1>4 DEF Terminate, Lease
  <1>5. QED
    BY <1>1, <1>2, <1>3, <1>4

(* A request that is new or has just looked is right, whatever the step;   *)
(* the others are while the leases that enter their unit are hit.          *)
LEMMA ClearKept ==
  ASSUME TypeOK, Next, AllClearGood, NEW v \in Workers,
         raced \subseteq raced', revived \subseteq revived',
         ASSUME NEW q, q = request[v], q = request'[v], q.kind = "activate", q.checked,
                NEW m \in Active(q.unit)' \ {q.lease}, m \notin Active(q.unit)
         PROVE  Hit(q.lease, m, q.unit)'
  PROVE  ClearGood(request[v])'
  <1>0. PICK q : q = request'[v]
    OBVIOUS
  <1>1. CASE ~(q.kind = "activate" /\ q.checked)
    BY <1>0, <1>1 DEF ClearGood
  <1>2. CASE q.kind = "activate" /\ q.checked /\ q = request[v]
    <2>1. ASSUME NEW m \in Active(q.unit)' \ {q.lease}
          PROVE  Hit(q.lease, m, q.unit)'
      <3>1. CASE m \in Active(q.unit)
        <4>1. Hit(q.lease, m, q.unit)
          BY <1>2, <2>1, <3>1 DEF AllClearGood, ClearGood
        <4>2. QED
          BY <4>1, HitStays
      <3>2. CASE m \notin Active(q.unit)
        BY <1>0, <1>2, <2>1, <3>2
      <3>3. QED
        BY <3>1, <3>2
    <2>2. QED
      BY <1>0, <2>1 DEF ClearGood
  <1>3. CASE q.kind = "activate" /\ q.checked /\ q # request[v]
    <2>1. /\ UNCHANGED <<letting, unitStatus, raced>>
          /\ Fresh(q) \/ Cleared(request[v], q)
      BY <1>0, <1>3, RequestSteps DEF OnLease
    <2>2. Cleared(request[v], q)
      BY <1>3, <2>1 DEF Fresh
    <2>3. request[v] \in Request
      BY DEF TypeOK
    <2>4. Active(q.unit) \ {q.lease} = {}
      BY <2>2, <2>3 DEF Cleared, Request, Idle
    <2>5. Active(q.unit)' = Active(q.unit)
      BY <2>1 DEF Active, letting
    <2>6. QED
      BY <1>0, <2>4, <2>5 DEF ClearGood
  <1>4. QED
    BY <1>1, <1>2, <1>3

LEMMA ApartElsewhere ==
  ASSUME TypeOK, RowsGood, UnitsApart, AllClearGood, Next,
         Elsewhere \/ CreateLease \/ Expire
           \/ \E w \in Workers : EditLease(w) \/ Terminate(w)
  PROVE  UnitsApart' /\ AllClearGood'
  <1>1. /\ raced \subseteq raced' /\ revived \subseteq revived'
        /\ \A u \in Units : Active(u)' \subseteq Active(u)
    BY RacedGrows, RevivedGrows, UnitsEmpty DEF Rewrites
  <1>2. UnitsApart'
    BY <1>1, HitStays DEF UnitsApart
  <1>3. ASSUME NEW v \in Workers
        PROVE  ClearGood(request[v])'
    <2>1. ASSUME NEW q, q = request[v], q.kind = "activate"
          PROVE  q.unit \in Units
      BY <2>1, RequestFields DEF TypeOK
    <2>2. QED
      BY <1>1, <2>1, ClearKept
  <1>4. QED
    BY <1>2, <1>3 DEF AllClearGood

LEMMA ApartActivate ==
  ASSUME TypeOK, RowsGood, AllSeenGood, UnitsApart, AllClearGood, Next,
         NEW w \in Workers, Activate(w)
  PROVE  UnitsApart' /\ AllClearGood'
  <1>0. PICK p \in Request : p = request[w]
    BY DEF TypeOK
  <1>1. /\ p.kind = "activate" /\ p.checked /\ p.lease \in Leases /\ p.unit \in Units
        /\ request' = [request EXCEPT ![w] = Idle]
        /\ raced' = raced \cup Races(w) /\ revived' = revived
        /\ lease' = [lease EXCEPT ![p.lease].status = "ACT"]
    BY <1>0, RequestFields DEF Activate, Answered, OnLease
  <1>2. PICK k \in Leases : k = p.lease
    BY <1>1
  <1>3. \A u \in Units : Active(u)' \subseteq Active(u) \cup {k}
    BY <1>1, <1>2 DEF Active, TypeOK, Lease
  <1>4. \A u \in Units : k \in Active(u)' => u = lease[k].unit
    BY <1>1, <1>2 DEF Active, TypeOK, Lease
  <1>5. ASSUME NEW u \in Units, NEW m \in Active(u), k # m, k \in Active(u)'
        PROVE  Hit(k, m, u)
    <2>1. u = lease[k].unit
      BY <1>4, <1>5
    <2>2. u = p.unit \/ {k, u} \subseteq raced
      BY <1>0, <1>1, <1>2, <2>1 DEF AllSeenGood, SeenGood
    <2>3. CASE u = p.unit
      BY <1>0, <1>1, <1>2, <1>5, <2>3 DEF AllClearGood, ClearGood
    <2>4. CASE {k, u} \subseteq raced
      BY <2>4 DEF Hit
    <2>5. QED
      BY <2>2, <2>3, <2>4
  <1>6. UnitsApart'
    <2>1. ASSUME NEW u \in Units, NEW l \in Active(u)', NEW m \in Active(u)', l # m
          PROVE  Hit(l, m, u)
      <3>1. CASE l # k /\ m # k
        BY <1>3, <2>1, <3>1 DEF UnitsApart
      <3>2. CASE l = k
        BY <1>3, <1>5, <2>1, <3>2
      <3>3. CASE m = k
        <4>1. Hit(m, l, u)
          BY <1>3, <1>5, <2>1, <3>3
        <4>2. QED
          BY <4>1 DEF Hit
      <3>4. QED
        BY <3>1, <3>2, <3>3
    <2>2. \A u \in Units : \A l, m \in Active(u)' : l # m => Hit(l, m, u)'
      BY <1>1, <2>1, HitStays
    <2>3. QED
      BY <2>2 DEF UnitsApart
  <1>7. ASSUME NEW v \in Workers
        PROVE  ClearGood(request[v])'
    <2>1. ASSUME NEW q, q = request[v], q = request'[v], q.kind = "activate", q.checked
          PROVE  {q.lease, q.unit} \subseteq raced'
      <3>1. v # w
        BY <1>1, <2>1 DEF Idle, TypeOK
      <3>2. Meet(request[w], request[v])
        BY <1>0, <1>1, <2>1 DEF Meet
      <3>3. Subject(request[v]) \subseteq raced'
        BY <1>1, <3>1, <3>2, Together
      <3>4. request[v] \in Request
        BY DEF TypeOK
      <3>5. QED
        BY <2>1, <3>3, <3>4, SubjectHas DEF OnLease
    <2>2. raced \subseteq raced' /\ revived \subseteq revived'
      BY <1>1
    <2>3. ASSUME NEW q, q = request[v], q = request'[v], q.kind = "activate", q.checked,
                 NEW m
          PROVE  Hit(q.lease, m, q.unit)'
      BY <2>1, <2>3 DEF Hit
    <2>4. QED
      BY <2>2, <2>3, ClearKept
  <1>8. QED
    BY <1>6, <1>7 DEF AllClearGood

LEMMA ApartRenew ==
  ASSUME TypeOK, RowsGood, AllSeenGood, UnitsApart, AllClearGood, Next,
         NEW w \in Workers, NEW n \in Leases, RenewedTo(w, n)
  PROVE  UnitsApart' /\ AllClearGood'
  <1>0. PICK k \in Leases, row \in Lease : RenewalOf(w, n, k, row)
    BY Renewal
  <1>1. /\ k = request[w].lease /\ row = request[w].row /\ lease[n].status = "none"
        /\ request[w].kind = "renew" /\ request' = [request EXCEPT ![w] = Idle]
        /\ raced \cup Races(w) \subseteq raced'
    BY <1>0 DEF RenewalOf, RenewedTo, Answered
  <1>2. /\ lease[k].status # "none" /\ row.status \in {"ACT", "EXP"} /\ k # n
        /\ lease[k] = row \/ {k, row.unit} \subseteq raced
    BY <1>1 DEF RowsGood, CopyGood, AllSeenGood, SeenGood, OnLease, OnRow
  <1>3. revived \subseteq revived'
    BY <1>0 DEF RenewalOf
  <1>4. PICK u \in Units : u = row.unit
    BY DEF Lease
  <1>5. \A x \in Units : /\ Active(x)' \subseteq (Active(x) \ {k}) \cup {n}
                         /\ n \in Active(x)' => x = u
    BY <1>0, <1>2, <1>4 DEF Active, RenewalOf, TypeOK, Lease
  (* The new lease inherits what the old one shared its unit with.         *)
  <1>6. ASSUME NEW x, k \in Active(u) => k \in raced \cup Races(w) \/ Hit(k, x, u)
        PROVE  Hit(n, x, u)'
    <2>1. CASE k \in raced \cup Races(w)
      BY <1>0, <1>4, <2>1 DEF RenewalOf, Hit
    <2>2. CASE k \in revived \/ row.status = "EXP"
      BY <1>0, <2>2 DEF RenewalOf, Hit
    <2>3. CASE k \notin raced \cup Races(w) \cup revived /\ row.status = "ACT"
      <3>1. k \in Active(u)
        BY <1>2, <1>4, <2>3 DEF Active
      <3>2. Hit(k, x, u) /\ k \notin revived /\ k \notin raced
        BY <1>6, <2>3, <3>1
      <3>3. x \in revived \/ (u \in raced /\ x \in raced)
        BY <3>2 DEF Hit
      <3>4. QED
        BY <1>1, <1>3, <3>3 DEF Hit
    <2>4. QED
      BY <1>2, <2>1, <2>2, <2>3
  <1>7. UnitsApart'
    <2>1. ASSUME NEW m \in Active(u), m # k
          PROVE  Hit(n, m, u)'
      BY <1>6, <2>1 DEF UnitsApart
    <2>2. ASSUME NEW x \in Units, NEW l \in Active(x)', NEW m \in Active(x)', l # m
          PROVE  Hit(l, m, x)'
      <3>1. CASE l # n /\ m # n
        <4>1. Hit(l, m, x)
          BY <1>5, <2>2, <3>1 DEF UnitsApart
        <4>2. QED
          BY <1>1, <1>3, <4>1, HitStays
      <3>2. CASE l = n
        BY <1>5, <2>1, <2>2, <3>2
      <3>3. CASE m = n
        <4>1. Hit(m, l, x)'
          BY <1>5, <2>1, <2>2, <3>3
        <4>2. QED
          BY <4>1 DEF Hit
      <3>4. QED
        BY <3>1, <3>2, <3>3
    <2>3. QED
      BY <2>2 DEF UnitsApart
  <1>8. ASSUME NEW v \in Workers
        PROVE  ClearGood(request[v])'
    <2>1. ASSUME NEW q, q = request[v], q = request'[v], q.kind = "activate", q.checked,
                 NEW m \in Active(q.unit)' \ {q.lease}, m \notin Active(q.unit)
          PROVE  Hit(q.lease, m, q.unit)'
      <3>1. v # w
        BY <1>1, <2>1 DEF Idle, TypeOK
      <3>2. q \in Request /\ q.unit \in Units /\ q.lease \in Leases
        <4>1. q \in Request
          BY <2>1 DEF TypeOK
        <4>2. QED
          BY <2>1, <4>1, RequestFields DEF OnLease
      <3>3. m = n /\ q.unit = u
        BY <1>5, <2>1, <3>2
      <3>4. ASSUME q.lease = k
            PROVE  k \in Races(w)
        <4>1. Meet(request[w], request[v])
          BY <1>1, <2>1, <3>4, SameLeaseMeets DEF OnLease, OnRow
        <4>2. QED
          BY <2>1, <3>1, <3>2, <3>4, <4>1, Together, SubjectHas DEF OnLease
      <3>5. ASSUME q.lease # k, k \in Active(u)
            PROVE  Hit(k, q.lease, u)
        <4>1. Hit(q.lease, k, u)
          BY <2>1, <3>3, <3>5 DEF AllClearGood, ClearGood
        <4>2. QED
          BY <4>1 DEF Hit
      <3>6. Hit(n, q.lease, u)'
        BY <1>6, <3>4, <3>5
      <3>7. QED
        BY <3>3, <3>6 DEF Hit
    <2>2. raced \subseteq raced'
      BY <1>1
    <2>3. QED
      BY <1>3, <2>1, <2>2, ClearKept
  <1>9. QED
    BY <1>7, <1>8 DEF AllClearGood

LEMMA ApartNext ==
  TypeOK /\ RowsGood /\ AllSeenGood /\ UnitsApart /\ AllClearGood /\ [Next]_vars
    => UnitsApart' /\ AllClearGood'
  <1> SUFFICES ASSUME TypeOK, RowsGood, AllSeenGood, UnitsApart, AllClearGood, [Next]_vars
               PROVE  UnitsApart' /\ AllClearGood'
    OBVIOUS
  <1>1. CASE UNCHANGED vars
    <2>1. /\ UNCHANGED <<request, lease, revived, raced>>
          /\ \A u : Active(u)' = Active(u)
      BY <1>1 DEF vars, letting, Active
    <2>2. UnitsApart'
      BY <2>1 DEF UnitsApart, Hit
    <2>3. AllClearGood'
      BY <2>1 DEF AllClearGood, ClearGood, Hit
    <2>4. QED
      BY <2>2, <2>3
  <1>2. CASE Next
    BY <1>2, LeaseSteps, ApartElsewhere, ApartActivate, ApartRenew DEF Rewrites
  <1>3. QED
    BY <1>1, <1>2

LEMMA AlwaysApart == Spec => [](UnitsApart /\ AllClearGood)
  <1>1. Init => UnitsApart /\ AllClearGood
    BY DEF Init, UnitsApart, AllClearGood, ClearGood, Active, Idle
  <1>2. QED
    BY <1>1, ApartNext, AlwaysSeenGood, RowsAlwaysGood, OfficeTypes, PTL DEF Spec

(* Two active leases share a unit only through the unguarded renewal of an *)
(* expired lease or through requests that raced.                           *)
THEOREM DoubleLettingsComeFromRaces == Spec => []DoubleLettingNeedsRace
  <1>1. TypeOK /\ UnitsApart => DoubleLettingNeedsRace
    <2> SUFFICES ASSUME TypeOK, UnitsApart,
                        NEW l \in Leases, NEW m \in Leases, l # m, lease[l].status = "ACT",
                        m \in Active(lease[l].unit)
                 PROVE  {l, m} \cap (revived \cup raced) # {}
      BY DEF DoubleLettingNeedsRace
    <2>1. lease[l].unit \in Units /\ l \in Active(lease[l].unit)
      BY DEF TypeOK, Lease, Active
    <2>2. Hit(l, m, lease[l].unit)
      BY <2>1 DEF UnitsApart
    <2>3. QED
      BY <2>2 DEF Hit
  <1>2. QED
    BY <1>1, AlwaysApart, OfficeTypes, PTL

-----------------------------------------------------------------------------
(* The status of let units.                                                *)

LEMMA RevivedStay ==
  ASSUME TypeOK, RowsGood, Rewrites \/ Elsewhere, NEW l \in revived
  PROVE  lease'[l].unit = lease[l].unit
  <1> USE DEF TypeOK
  <1>0. l \in Leases /\ lease[l].start # 0 /\ lease[l].status # "none"
    BY DEF RowsGood, RowGood
  <1>1. CASE Elsewhere
    BY <1>1 DEF Elsewhere, letting
  <1>2. CASE CreateLease
    BY <1>0, <1>2, SpareIsFree DEF CreateLease
  <1>3. CASE Expire
    BY <1>0, <1>3 DEF Expire, Lease
  <1>4. ASSUME NEW w \in Workers, EditLease(w)
        PROVE  lease'[l] = lease[l]
    <2>1. lease[request[w].lease].start = 0
      BY <1>4 DEF EditLease, RowsGood, CopyGood
    <2>2. QED
      BY <1>0, <1>4, <2>1 DEF EditLease
  <1>5. ASSUME NEW w \in Workers, Activate(w) \/ Terminate(w)
        PROVE  lease'[l].unit = lease[l].unit
    BY <1>0, <1>5 DEF Activate, Terminate, Lease
  <1>6. ASSUME NEW w \in Workers, NEW n \in Leases, RenewedTo(w, n)
        PROVE  lease'[l].unit = lease[l].unit
    <2>1. PICK k \in Leases, row \in Lease : RenewalOf(w, n, k, row)
      BY <1>6, Renewal
    <2>2. n # l
      BY <1>0, <2>1 DEF RenewalOf
    <2>3. CASE l = k
      BY <1>0, <2>1, <2>2, <2>3 DEF RenewalOf, Lease
    <2>4. CASE l # k
      BY <1>0, <2>1, <2>2, <2>4 DEF RenewalOf
    <2>5. QED
      BY <2>3, <2>4
  <1>7. QED
    BY <1>1, <1>2, <1>3, <1>4, <1>5, <1>6 DEF Rewrites

Unrevived(u) == \A l \in revived : lease[l].unit # u
ShownLet(u) == u \notin raced /\ Active(u) # {} /\ Unrevived(u) => unitStatus[u] # "AVAIL"

LEMMA ShownTerminate ==
  ASSUME TypeOK, RowsGood, AllSeenGood, UnitsApart, NEW u \in Units, ShownLet(u),
         NEW w \in Workers, Terminate(w),
         u \notin raced', Active(u)' # {}, Unrevived(u), u \notin raced
  PROVE  unitStatus'[u] # "AVAIL"
  <1>1. PICK k, row : k = request[w].lease /\ row = request[w].row
    OBVIOUS
  <1>2. k \in Leases /\ row.status = "ACT" /\ request[w].kind = "terminate"
    BY <1>1, RequestFields DEF Terminate, TypeOK, RowsGood, CopyGood, OnLease, OnRow
  <1>3. lease' = [lease EXCEPT ![k].status = "TERM"]
        /\ unitStatus' = [unitStatus EXCEPT ![row.unit] = "AVAIL"]
    BY <1>1 DEF Terminate
  <1>4. Active(u)' \subseteq Active(u) \ {k}
    BY <1>2, <1>3 DEF Active, TypeOK, Lease
  <1>5. u # row.unit
    <2> SUFFICES ASSUME u = row.unit PROVE FALSE
      OBVIOUS
    <2>1. lease[k] = row
      BY <1>1, <1>2 DEF AllSeenGood, SeenGood
    <2>2. k \in Active(u)
      BY <1>2, <2>1 DEF Active
    <2>3. PICK m \in Active(u) : m # k
      BY <1>4
    <2>4. Hit(k, m, u)
      BY <2>2, <2>3 DEF UnitsApart
    <2>5. QED
      BY <2>2, <2>3, <2>4 DEF Hit, Unrevived, Active
  <1>6. QED
    BY <1>3, <1>4, <1>5 DEF ShownLet, TypeOK

LEMMA ShownActivate ==
  ASSUME TypeOK, AllSeenGood, NEW u \in Units, ShownLet(u),
         NEW w \in Workers, Activate(w),
         Active(u)' # {}, Unrevived(u), u \notin raced
  PROVE  unitStatus'[u] # "AVAIL"
  <1>1. PICK k, x : k = request[w].lease /\ x = request[w].unit
    OBVIOUS
  <1>2. k \in Leases /\ x \in Units /\ request[w].kind = "activate"
    BY <1>1, RequestFields DEF Activate, TypeOK, OnLease
  <1>3. lease' = [lease EXCEPT ![k].status = "ACT"]
        /\ unitStatus' = [unitStatus EXCEPT ![x] = "OCC"]
    BY <1>1 DEF Activate
  <1>4. CASE u = x
    BY <1>2, <1>3, <1>4 DEF TypeOK
  <1>5. CASE u # x
    <2>1. lease[k].unit # u
      BY <1>1, <1>2, <1>5 DEF AllSeenGood, SeenGood
    <2>2. Active(u)' \subseteq Active(u)
      BY <1>2, <1>3, <2>1 DEF Active, TypeOK, Lease
    <2>3. QED
      BY <1>3, <1>5, <2>2 DEF ShownLet, TypeOK
  <1>6. QED
    BY <1>4, <1>5

LEMMA ShownRenew ==
  ASSUME TypeOK, RowsGood, AllSeenGood, NEW u \in Units, ShownLet(u),
         NEW w \in Workers, NEW n \in Leases, RenewedTo(w, n),
         u \notin raced', Active(u)' # {}, Unrevived(u), Unrevived(u)', u \notin raced
  PROVE  unitStatus'[u] # "AVAIL"
  <1>1. PICK k \in Leases, row \in Lease : RenewalOf(w, n, k, row)
    BY Renewal
  <1>2. /\ k = request[w].lease /\ row = request[w].row /\ lease[n].status = "none"
        /\ request[w].kind = "renew" /\ unitStatus' = unitStatus
    BY <1>1 DEF RenewalOf, RenewedTo
  <1>3. lease[k].status # "none" /\ row.status \in {"ACT", "EXP"} /\ k # n
    BY <1>2 DEF RowsGood, CopyGood, OnLease, OnRow
  <1>4. CASE row.unit # u
    <2>1. Active(u)' \subseteq Active(u)
      BY <1>1, <1>3, <1>4 DEF RenewalOf, Active, TypeOK, Lease
    <2>2. QED
      BY <1>2, <2>1 DEF ShownLet
  <1>5. CASE row.unit = u
    <2>1. lease[k] = row
      BY <1>1, <1>2, <1>5 DEF AllSeenGood, SeenGood
    <2>2. n \notin revived'
      BY <1>1, <1>3, <1>5 DEF RenewalOf, Unrevived
    <2>3. row.status = "ACT"
      BY <1>1, <1>3, <2>2 DEF RenewalOf
    <2>4. k \in Active(u)
      BY <1>5, <2>1, <2>3 DEF Active
    <2>5. QED
      BY <1>2, <2>4 DEF ShownLet
  <1>6. QED
    BY <1>4, <1>5

LEMMA ShownNext ==
  TypeOK /\ RowsGood /\ AllSeenGood /\ UnitsApart /\ LetUnitsAreOccupied /\ [Next]_vars
    => LetUnitsAreOccupied'
  <1> SUFFICES ASSUME TypeOK, RowsGood, AllSeenGood, UnitsApart, LetUnitsAreOccupied,
                      [Next]_vars
               PROVE  LetUnitsAreOccupied'
    OBVIOUS
  <1>1. CASE UNCHANGED vars
    BY <1>1 DEF vars, letting, LetUnitsAreOccupied, Active
  <1>2. CASE Next
    <2>1. (Rewrites \/ Elsewhere) /\ raced \subseteq raced' /\ revived \subseteq revived'
      BY <1>2, LeaseSteps, RacedGrows, RevivedGrows
    <2>2. SUFFICES ASSUME NEW u \in Units, u \notin raced', Active(u)' # {}, Unrevived(u)'
                   PROVE  unitStatus'[u] # "AVAIL"
      BY DEF LetUnitsAreOccupied, Unrevived
    <2>3. ShownLet(u) /\ u \notin raced
      BY <2>1, <2>2 DEF LetUnitsAreOccupied, ShownLet, Unrevived
    <2>4. Unrevived(u)
      BY <2>1, <2>2, RevivedStay DEF Unrevived
    <2>5. CASE Elsewhere
      <3>1. Active(u)' \subseteq Active(u)
        BY <2>5, UnitsEmpty
      <3>2. QED
        BY <2>2, <2>3, <2>4, <2>5, <3>1 DEF ShownLet, Elsewhere
    <2>6. CASE CreateLease \/ Expire \/ \E w \in Workers : EditLease(w)
      <3>1. Active(u)' \subseteq Active(u)
        BY <2>6, UnitsEmpty
      <3>2. unitStatus' = unitStatus
        BY <2>6 DEF CreateLease, Expire, EditLease
      <3>3. QED
        BY <2>2, <2>3, <2>4, <3>1, <3>2 DEF ShownLet
    <2>7. QED
      BY <2>1, <2>2, <2>3, <2>4, <2>5, <2>6, ShownTerminate, ShownActivate, ShownRenew
         DEF Rewrites
  <1>3. QED
    BY <1>1, <1>2

(* A unit with an active lease is not shown as available, unless requests  *)
(* raced on its leases or one goes back to the renewal of an expired one.  *)
THEOREM LetUnitsShownOccupied == Spec => []LetUnitsAreOccupied
  <1>1. Init => LetUnitsAreOccupied
    BY DEF Init, LetUnitsAreOccupied, Active
  <1>2. QED
    BY <1>1, ShownNext, AlwaysApart, AlwaysSeenGood, RowsAlwaysGood, OfficeTypes, PTL
       DEF Spec

-----------------------------------------------------------------------------
(* The chain of renewals.                                                  *)

Follows(m, l) ==
  m # l /\ lease[m].status # "none" /\ lease[m].unit = lease[l].unit
        /\ lease[m].start = lease[l].end

ChainGood(l) ==
  lease[l].status = "REN" /\ l \notin raced => \E m \in Leases : Follows(m, l)

(* Leases that keep their unit, end and start keep following each other.   *)
LEMMA ChainStays ==
  ASSUME TypeOK, RowsGood, NEW l \in Leases, ChainGood(l),
         lease[l].status = "REN", l \notin raced, lease'[l].unit = lease[l].unit,
         lease'[l].end = lease[l].end,
         \A m \in Leases : lease[m].status # "none" /\ lease[m].start # 0 =>
           lease'[m].status # "none" /\ lease'[m].unit = lease[m].unit
             /\ lease'[m].start = lease[m].start
  PROVE  \E m \in Leases : Follows(m, l)'
  <1>1. PICK m \in Leases : Follows(m, l)
    BY DEF ChainGood
  <1>2. lease[l].end \in 1 .. LastDay
    BY DEF TypeOK, Lease
  <1>3. lease[l].end # 0
    BY <1>2, ConstantTypes
  <1>4. QED
    BY <1>1, <1>3 DEF Follows

LEMMA ChainOthers ==
  ASSUME TypeOK, RowsGood, NEW l \in Leases, ChainGood(l),
         raced \subseteq raced',
         \/ Elsewhere \/ CreateLease \/ Expire
         \/ \E w \in Workers : EditLease(w) \/ Activate(w) \/ Terminate(w)
  PROVE  ChainGood(l)'
  <1> USE DEF TypeOK
  <1>1. ASSUME lease'[l].status = "REN", l \notin raced'
        PROVE  \E m \in Leases : Follows(m, l)'
    <2>1. CASE Elsewhere
      BY <1>1, <2>1 DEF Elsewhere, letting, ChainGood, Follows
    <2>2. CASE CreateLease
      <3>1. PICK n \in Spare, u \in scope.units :
              lease' = [lease EXCEPT ![n] =
                          [status |-> "DRAFT", unit |-> u, start |-> 0, end |-> 1]]
        BY <2>2 DEF CreateLease
      <3>2. n \in Leases /\ lease[n].status = "none" /\ n # l
        BY <1>1, <3>1, SpareIsFree
      <3>3. QED
        BY <1>1, <3>1, <3>2, ChainStays
    <2>3. ASSUME NEW w \in Workers, EditLease(w)
          PROVE  \E m \in Leases : Follows(m, l)'
      <3>1. PICK k, row : k = request[w].lease /\ row = request[w].row
        OBVIOUS
      <3>2. /\ k \in Leases /\ lease[k].start = 0 /\ row.status \in {"DRAFT", "PEND"}
            /\ lease' = [lease EXCEPT ![k] = row]
        BY <2>3, <3>1, RequestFields DEF EditLease, RowsGood, CopyGood, OnLease, OnRow
      <3>3. k # l
        BY <1>1, <3>2
      <3>4. QED
        BY <1>1, <3>2, <3>3, ChainStays
    <2>4. ASSUME NEW k \in Leases, NEW s \in {"ACT", "EXP", "TERM"},
                 lease' = [lease EXCEPT ![k].status = s]
          PROVE  \E m \in Leases : Follows(m, l)'
      <3>1. k # l
        BY <1>1, <2>4 DEF Lease
      <3>2. \A m \in Leases : lease[m].status # "none" /\ lease[m].start # 0 =>
              lease'[m].status # "none" /\ lease'[m].unit = lease[m].unit
                /\ lease'[m].start = lease[m].start
        BY <2>4 DEF Lease
      <3>3. lease'[l] = lease[l] /\ l \notin raced
        BY <1>1, <2>4, <3>1
      <3>4. QED
        BY <1>1, <3>2, <3>3, ChainStays
    <2>5. CASE Expire
      BY <2>4, <2>5 DEF Expire
    <2>6. ASSUME NEW w \in Workers, Activate(w) \/ Terminate(w)
          PROVE  \E m \in Leases : Follows(m, l)'
      <3>1. request[w].lease \in Leases
        BY <2>6, RequestFields DEF Activate, Terminate, OnLease, OnRow
      <3>2. QED
        BY <2>4, <2>6, <3>1 DEF Activate, Terminate
    <2>7. QED
      BY <2>1, <2>2, <2>3, <2>5, <2>6
  <1>2. QED
    BY <1>1 DEF ChainGood

LEMMA ChainRenew ==
  ASSUME TypeOK, RowsGood, AllSeenGood, NEW l \in Leases, ChainGood(l),
         NEW w \in Workers, NEW n \in Leases, RenewedTo(w, n)
  PROVE  ChainGood(l)'
  <1> USE DEF TypeOK
  <1>1. PICK k \in Leases, row \in Lease : RenewalOf(w, n, k, row)
    BY Renewal
  <1>2. /\ k = request[w].lease /\ row = request[w].row /\ lease[n].status = "none"
        /\ request[w].kind = "renew" /\ raced \subseteq raced'
    BY <1>1 DEF RenewalOf, RenewedTo
  <1>3. lease[k].status # "none" /\ k # n
    BY <1>2 DEF RowsGood, CopyGood, OnLease, OnRow
  <1>4. /\ lease'[n].status = "ACT" /\ lease'[n].unit = row.unit
        /\ lease'[n].start = row.end
        /\ lease'[k] = [lease[k] EXCEPT !.status = "REN"]
        /\ \A m \in Leases \ {k, n} : lease'[m] = lease[m]
    BY <1>1, <1>3 DEF RenewalOf
  <1>5. ASSUME lease'[l].status = "REN", l \notin raced'
        PROVE  \E m \in Leases : Follows(m, l)'
    <2>1. l # n
      BY <1>4, <1>5
    <2>2. CASE l = k
      <3>1. lease[k] = row
        BY <1>2, <1>5, <2>2 DEF AllSeenGood, SeenGood
      <3>2. lease'[l].unit = row.unit /\ lease'[l].end = row.end
        BY <1>4, <2>2, <3>1 DEF Lease
      <3>3. Follows(n, l)'
        BY <1>4, <2>1, <3>2 DEF Follows
      <3>4. QED
        BY <3>3
    <2>3. CASE l # k
      <3>1. lease'[l] = lease[l] /\ l \notin raced
        BY <1>2, <1>4, <1>5, <2>1, <2>3
      <3>2. \A m \in Leases : lease[m].status # "none" =>
              lease'[m].status # "none" /\ lease'[m].unit = lease[m].unit
                /\ lease'[m].start = lease[m].start
        BY <1>2, <1>4 DEF Lease
      <3>3. QED
        BY <1>5, <3>1, <3>2, ChainStays
    <2>4. QED
      BY <2>2, <2>3
  <1>6. QED
    BY <1>5 DEF ChainGood

Chained == \A l \in Leases : ChainGood(l)

LEMMA ChainNext ==
  TypeOK /\ RowsGood /\ AllSeenGood /\ Chained /\ [Next]_vars => Chained'
  <1> SUFFICES ASSUME TypeOK, RowsGood, AllSeenGood, Chained, [Next]_vars
               PROVE  Chained'
    OBVIOUS
  <1>1. CASE UNCHANGED vars
    BY <1>1 DEF vars, letting, Chained, ChainGood, Follows
  <1>2. CASE Next
    <2>1. (Rewrites \/ Elsewhere) /\ raced \subseteq raced'
      BY <1>2, LeaseSteps, RacedGrows
    <2>2. QED
      BY <2>1, ChainOthers, ChainRenew DEF Rewrites, Chained
  <1>3. QED
    BY <1>1, <1>2

(* A renewed lease that no two requests worked on at once is continued by  *)
(* a lease of its unit that starts on its last day.                        *)
THEOREM RenewalsAreContinued == Spec => []RenewedHasSuccessor
  <1>1. Init => Chained
    BY DEF Init, Chained, ChainGood
  <1>2. Chained => RenewedHasSuccessor
    BY DEF Chained, ChainGood, Follows, RenewedHasSuccessor
  <1>3. QED
    BY <1>1, <1>2, ChainNext, AlwaysSeenGood, RowsAlwaysGood, OfficeTypes, PTL DEF Spec
=============================================================================
