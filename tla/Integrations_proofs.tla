------------------------- MODULE Integrations_proofs -------------------------
(***************************************************************************)
(* What every proof about the parts beside the front desk, the rent office *)
(* and billing starts from: a behaviour moves one part at a time, and each *)
(* part keeps the types of its variables, for any number of workers,       *)
(* messages, devices and people.  Then the promises of what the office     *)
(* keeps: PayChangu transactions, invoices submitted to the tax authority, *)
(* exchange rates and accounts.                                            *)
(***************************************************************************)
EXTENDS Integrations, FiniteSetTheorems, WellFoundedInduction, TLAPS

-----------------------------------------------------------------------------
(* One behaviour is about one part: every part makes steps of its own or   *)
(* none.                                                                   *)

LEMMA PartsStart ==
  Init => /\ Queue!Init /\ Ledger!Init /\ Eis!Init /\ Rates!Init /\ Whatsapp!Init
          /\ Portal!Init /\ Sites!Init /\ Live!Init /\ Batches!Init
          /\ Browser!Init
  BY DEF Init

LEMMA PartsMove ==
  [Next]_vars =>
    /\ [Queue!Next]_queue /\ [Ledger!Next]_ledger /\ [Eis!Next]_eis /\ [Rates!Next]_rates
    /\ [Whatsapp!Next]_whatsapp /\ [Portal!Next]_portal /\ [Sites!Next]_sites
    /\ [Live!Next]_live /\ [Batches!Next]_batches /\ [Browser!Next]_pages
  BY DEF Next, vars

(* A part counts as the whole does.                                        *)
LEMMA SameCardinality ==
  /\ \A S : Live!Cardinality(S) = Cardinality(S)
  /\ \A S : Rates!Cardinality(S) = Cardinality(S)
  /\ \A S : Sites!Cardinality(S) = Cardinality(S)
  BY DEF Live!Cardinality, Rates!Cardinality, Sites!Cardinality, Cardinality

LEMMA AtMostOne ==
  ASSUME NEW S, NEW x, S \subseteq {x}
  PROVE  Cardinality(S) \in 0 .. 1
  <1>1. IsFiniteSet({x}) /\ Cardinality({x}) = 1
    BY FS_Singleton
  <1>2. IsFiniteSet(S) /\ Cardinality(S) <= 1
    BY <1>1, FS_Subset
  <1>3. Cardinality(S) \in Nat
    BY <1>2, FS_CardinalityType
  <1>4. QED
    BY <1>2, <1>3

-----------------------------------------------------------------------------
(* The queue of the browser.  A sync that waits for an answer still has    *)
(* the operation it sent.                                                  *)

LEMMA SmallestCopy ==
  ASSUME NEW todo \in SUBSET Queue!Copy, todo # {}, {MaxOps, QueueRetries, MaxTries} \subseteq Nat
  PROVE  Queue!First(todo) \in todo
  <1> DEFINE N == {c.op : c \in todo}
  <1>1. N \subseteq Nat /\ N # {}
    BY DEF Queue!Copy, Queue!Ops
  <1>2. PICK n \in N : \A m \in N : ~ (<<m, n>> \in OpToRel(<, Nat))
    BY <1>1, NatLessThanWellFounded, WFMin
  <1>3. ASSUME NEW m \in N
        PROVE  n <= m
    <2>1. n \in Nat /\ m \in Nat
      BY <1>1
    <2>2. ~(m < n)
      BY <1>2, <2>1 DEF OpToRel
    <2>3. QED
      BY <2>1, <2>2
  <1>4. PICK c \in todo : c.op = n
    OBVIOUS
  <1>5. \A d \in todo : c.op <= d.op
    BY <1>3, <1>4
  <1>6. QED
    BY <1>5 DEF Queue!First

QueueInv ==
  /\ Queue!TypeOK
  /\ \A s \in Syncs : sync[s].stage = "wait" => sync[s].todo # {}

LEMMA QueueStart ==
  ASSUME Queue!QueueAssumption, Queue!Init
  PROVE  QueueInv
  BY DEF Queue!Init, QueueInv, Queue!TypeOK, Queue!Entry, Queue!Sync, Queue!Over

LEMMA QueueStep ==
  ASSUME Queue!QueueAssumption, QueueInv, [Queue!Next]_queue
  PROVE  QueueInv'
  <1> USE DEF QueueInv, Queue!TypeOK
  <1>1. CASE UNCHANGED queue
    BY <1>1 DEF queue
  <1>2. ASSUME NEW o \in Queue!Ops, Queue!Enqueue(o)
        PROVE  QueueInv'
    BY <1>2 DEF Queue!Enqueue, Queue!Entry
  <1>3. CASE Queue!GoOffline
    BY <1>3 DEF Queue!GoOffline
  <1>10. CASE Queue!GoOnline
    <2>1. PICK s \in Syncs, t \in Syncs :
            sync' = [sync EXCEPT ![s].stage = "read", ![t].stage = "read"]
      BY <1>10 DEF Queue!GoOnline
    <2>2. /\ sync' \in [Syncs -> Queue!Sync]
          /\ \A x \in Syncs : sync'[x].stage = "wait" => sync[x].stage = "wait"
          /\ \A x \in Syncs : sync'[x].todo = sync[x].todo
      BY <2>1 DEF Queue!Sync
    <2>3. QED
      BY <1>10, <2>2 DEF Queue!GoOnline
  <1>4. ASSUME NEW s \in Syncs, Queue!LoadPage(s)
        PROVE  QueueInv'
    BY <1>4 DEF Queue!LoadPage, Queue!Sync, Queue!Over
  <1>5. ASSUME NEW s \in Syncs, Queue!ReadQueue(s)
        PROVE  QueueInv'
    <2>1. \A o \in Queue!Ops : [op |-> o, retries |-> entry[o].retries] \in Queue!Copy
      BY DEF Queue!Copy, Queue!Entry
    <2>2. QED
      BY <1>5, <2>1 DEF Queue!ReadQueue, Queue!Sync
  <1>6. ASSUME NEW s \in Syncs, Queue!Send(s)
        PROVE  QueueInv'
    <2> DEFINE o == Queue!First(sync[s].todo).op
    <2>1. /\ sync' = [sync EXCEPT ![s].stage = "wait"] /\ sync[s].todo # {}
          /\ tries' = [tries EXCEPT ![o] = @ + 1]
          /\ UNCHANGED <<entry, online>>
      BY <1>6 DEF Queue!Send
    <2>2. o \in Queue!Ops
      BY <2>1, SmallestCopy DEF Queue!Sync, Queue!Copy, Queue!QueueAssumption
    <2> HIDE DEF o
    <2>3. tries' \in [Queue!Ops -> Nat] /\ sync' \in [Syncs -> Queue!Sync]
      BY <2>1, <2>2 DEF Queue!Sync
    <2>4. QED
      BY <2>1, <2>3 DEF Queue!Sync
  <1>7. ASSUME NEW s \in Syncs, Queue!Record(s)
        PROVE  QueueInv'
    <2> DEFINE c == Queue!First(sync[s].todo)
    <2>1. c \in Queue!Copy
      BY <1>7, SmallestCopy DEF Queue!Record, Queue!Sync, Queue!QueueAssumption
    <2>2. entry' \in [Queue!Ops -> Queue!Entry]
      BY <1>7, <2>1 DEF Queue!Record, Queue!Entry, Queue!Copy
    <2>3. /\ sync' = [sync EXCEPT ![s] = [stage |-> "send", todo |-> @.todo \ {c}]]
          /\ UNCHANGED <<online, tries>>
      BY <1>7 DEF Queue!Record
    <2>4. sync[s].todo \ {c} \in SUBSET Queue!Copy
      BY DEF Queue!Sync
    <2> HIDE DEF c
    <2>5. QED
      BY <2>2, <2>3, <2>4 DEF Queue!Sync
  <1>8. ASSUME NEW s \in Syncs, Queue!Finish(s)
        PROVE  QueueInv'
    BY <1>8 DEF Queue!Finish, Queue!Sync, Queue!Over
  <1>9. QED
    BY <1>1, <1>2, <1>3, <1>4, <1>5, <1>6, <1>7, <1>8, <1>10 DEF Queue!Next, Queue!Works

-----------------------------------------------------------------------------
(* The ledger of PayChangu transactions.                                   *)

(* The stages of a delivery that has looked at the transaction.            *)
AtRow == {"fail", "link", "save"}

LEMMA LedgerRequest ==
  ASSUME NEW q \in Ledger!Request
  PROVE  /\ q.kind \in {"idle", "sync", "verified"} \cup AtRow
         /\ q.kind = "verified" => q.ok \in BOOLEAN
         /\ q.kind \in AtRow => q.linked \in BOOLEAN
  BY DEF Ledger!Request, Ledger!Idle, AtRow

-----------------------------------------------------------------------------
(* Type correctness.                                                       *)

LEMMA LedgerStart ==
  ASSUME Ledger!LedgerAssumption, Ledger!Init
  PROVE  Ledger!TypeOK
  <1>1. request \in [Workers -> Ledger!Request]
    BY DEF Ledger!Init, Ledger!Request
  <1>2. txn \in Ledger!Txn
    BY DEF Ledger!Init, Ledger!Txn, Ledger!Status
  <1>3. payments \in 0 .. MaxPayments /\ raced \subseteq {"payment", "txn"}
    BY DEF Ledger!Init, Ledger!LedgerAssumption
  <1>4. QED
    BY <1>1, <1>2, <1>3 DEF Ledger!Init, Ledger!TypeOK

LEMMA LedgerContinues ==
  ASSUME Ledger!TypeOK, NEW w \in Workers, NEW q \in Ledger!Request, Ledger!Continues(w, q)
  PROVE  request' \in [Workers -> Ledger!Request]
  BY DEF Ledger!TypeOK, Ledger!Continues

LEMMA IdleDelivery == Ledger!Idle \in Ledger!Request
  BY DEF Ledger!Request

LEMMA LedgerPayments ==
  ASSUME Ledger!LedgerAssumption, Ledger!TypeOK,
         Ledger!TakePayment \/ \E w \in Workers : Ledger!FetchSync(w) \/ Ledger!SyncPayment(w)
  PROVE  Ledger!TypeOK'
  <1>1. CASE Ledger!TakePayment
    BY <1>1 DEF Ledger!TakePayment, Ledger!TypeOK, Ledger!LedgerAssumption
  <1>2. ASSUME NEW w \in Workers, Ledger!FetchSync(w)
        PROVE  Ledger!TypeOK'
    <2>1. [kind |-> "sync"] \in Ledger!Request
      BY DEF Ledger!Request
    <2>2. request' \in [Workers -> Ledger!Request]
      BY <1>2, <2>1, LedgerContinues DEF Ledger!FetchSync
    <2>3. QED
      BY <1>2, <2>2 DEF Ledger!FetchSync, Ledger!TypeOK, Ledger!past
  <1>3. ASSUME NEW w \in Workers, Ledger!SyncPayment(w)
        PROVE  Ledger!TypeOK'
    <2>1. request' \in [Workers -> Ledger!Request]
      BY <1>3, IdleDelivery, LedgerContinues DEF Ledger!SyncPayment
    <2>2. payments' \in 0 .. MaxPayments
      BY <1>3 DEF Ledger!SyncPayment, Ledger!TypeOK, Ledger!LedgerAssumption
    <2>3. raced' \subseteq {"payment", "txn"}
      BY <1>3 DEF Ledger!SyncPayment, Ledger!TypeOK
    <2>4. QED
      BY <1>3, <2>1, <2>2, <2>3 DEF Ledger!SyncPayment, Ledger!TypeOK
  <1>4. QED
    BY <1>1, <1>2, <1>3

LEMMA LedgerWebhook ==
  ASSUME Ledger!TypeOK, NEW w \in Workers,
         Ledger!Verify(w) \/ Ledger!Upsert(w) \/ Ledger!Fail(w) \/ Ledger!Link(w) \/ Ledger!Save(w)
  PROVE  Ledger!TypeOK'
  <1> USE DEF Ledger!TypeOK
  <1>0. request[w] \in Ledger!Request
    OBVIOUS
  <1>1. CASE Ledger!Verify(w)
    <2>1. PICK ok \in BOOLEAN : Ledger!Continues(w, [kind |-> "verified", ok |-> ok])
      BY <1>1 DEF Ledger!Verify
    <2>2. [kind |-> "verified", ok |-> ok] \in Ledger!Request
      BY DEF Ledger!Request
    <2>3. request' \in [Workers -> Ledger!Request]
      BY <2>1, <2>2, LedgerContinues
    <2>4. prompt' = (payments > 0) \/ prompt' = prompt
      BY <1>1 DEF Ledger!Verify
    <2>5. (payments > 0) \in BOOLEAN
      OBVIOUS
    <2>6. prompt' \in BOOLEAN
      BY <2>4, <2>5, Zenon
    <2>7. QED
      BY <1>1, <2>3, <2>6 DEF Ledger!Verify
  <1>2. CASE Ledger!Upsert(w)
    <2>1. txn.linked \in BOOLEAN /\ txn' \in Ledger!Txn
      BY <1>2 DEF Ledger!Upsert, Ledger!Txn, Ledger!Status
    <2>2. /\ [kind |-> "link", linked |-> txn.linked] \in Ledger!Request
          /\ [kind |-> "fail", linked |-> txn.linked] \in Ledger!Request
      BY <2>1 DEF Ledger!Request
    <2>3. PICK q \in Ledger!Request : Ledger!Continues(w, q)
      BY <1>2, <2>2, IdleDelivery DEF Ledger!Upsert
    <2>4. request' \in [Workers -> Ledger!Request]
      BY <2>3, LedgerContinues
    <2>5. QED
      BY <1>2, <2>1, <2>4 DEF Ledger!Upsert, Ledger!past
  <1>3. CASE Ledger!Fail(w)
    <2>1. request' \in [Workers -> Ledger!Request]
      BY <1>3, IdleDelivery, LedgerContinues DEF Ledger!Fail
    <2>2. txn' \in Ledger!Txn /\ raced' \subseteq {"payment", "txn"}
      BY <1>3 DEF Ledger!Fail, Ledger!Raced, Ledger!Txn, Ledger!Status
    <2>3. QED
      BY <1>3, <2>1, <2>2 DEF Ledger!Fail
  <1>4. CASE Ledger!Link(w)
    <2>1. (payments > 0 \/ request[w].linked) \in BOOLEAN
      OBVIOUS
    <2>2. [kind |-> "save", linked |-> payments > 0 \/ request[w].linked] \in Ledger!Request
      BY <2>1 DEF Ledger!Request
    <2>3. request' \in [Workers -> Ledger!Request]
      BY <1>4, <2>2, LedgerContinues DEF Ledger!Link
    <2>4. QED
      BY <1>4, <2>3 DEF Ledger!Link, Ledger!past
  <1>5. CASE Ledger!Save(w)
    <2>1. request' \in [Workers -> Ledger!Request]
      BY <1>5, IdleDelivery, LedgerContinues DEF Ledger!Save
    <2>2. request[w].linked \in BOOLEAN
      BY <1>0, <1>5, LedgerRequest DEF Ledger!Save, AtRow
    <2>3. txn' \in Ledger!Txn
      BY <1>5, <2>2 DEF Ledger!Save, Ledger!Txn, Ledger!Status
    <2>4. raced' \subseteq {"payment", "txn"}
      BY <1>5 DEF Ledger!Save, Ledger!Raced
    <2>5. succeeded' \in BOOLEAN
      BY <1>5 DEF Ledger!Save
    <2>6. QED
      BY <1>5, <2>1, <2>3, <2>4, <2>5 DEF Ledger!Save
  <1>6. QED
    BY <1>1, <1>2, <1>3, <1>4, <1>5

LEMMA LedgerStep ==
  ASSUME Ledger!LedgerAssumption, Ledger!TypeOK, [Ledger!Next]_ledger
  PROVE  Ledger!TypeOK'
  <1>1. CASE UNCHANGED ledger
    BY <1>1 DEF ledger, Ledger!past, Ledger!TypeOK
  <1>2. CASE Ledger!Next
    BY <1>2, LedgerPayments, LedgerWebhook DEF Ledger!Next
  <1>3. QED
    BY <1>1, <1>2

-----------------------------------------------------------------------------
(* The queue of the revenue authority.                                     *)

LEMMA EisStart ==
  ASSUME Eis!EisAssumption, Eis!Init
  PROVE  Eis!TypeOK
  <1>1. log \in [Logs -> Eis!Row] /\ run \in [Runs -> Eis!Run] /\ accepted \in [Logs -> Nat]
    BY DEF Eis!Init, Eis!Row, Eis!Run
  <1>2. QED
    BY <1>1 DEF Eis!Init, Eis!TypeOK, Eis!EisAssumption

LEMMA EisTypes ==
  ASSUME Eis!EisAssumption, Eis!TypeOK, [Eis!Next]_eis
  PROVE  Eis!TypeOK'
  <1> USE DEF Eis!TypeOK
  <1>1. CASE UNCHANGED eis
    BY <1>1 DEF eis
  <1>2. ASSUME NEW r \in Runs, Eis!Start(r)
        PROVE  Eis!TypeOK'
    <2>1. \A l \in Logs : [log |-> l, retries |-> log[l].retries] \in Eis!Todo
      BY DEF Eis!Row, Eis!Todo
    <2>2. run' \in [Runs -> Eis!Run]
      BY <1>2, <2>1 DEF Eis!Start, Eis!Run, Eis!Pending
    <2>3. troubled' \subseteq Logs
      BY <1>2 DEF Eis!Start, Eis!Pending
    <2>4. QED
      BY <1>2, <2>2, <2>3 DEF Eis!Start
  <1>3. ASSUME NEW r \in Runs, Eis!Submit(r)
        PROVE  Eis!TypeOK'
    <2>1. run[r].todo \in SUBSET Eis!Todo
      BY <1>3 DEF Eis!Submit, Eis!Run, Eis!Idle
    <2>2. PICK c \in run[r].todo, outcome \in {"accepted", "lost", "refused"} :
            /\ outcome # "accepted" => faults < MaxFaults
            /\ faults' = IF outcome = "accepted" THEN faults ELSE faults + 1
            /\ accepted' = IF outcome = "refused" THEN accepted
                           ELSE [accepted EXCEPT ![c.log] = @ + 1]
            /\ troubled' = IF outcome = "lost" THEN troubled \cup {c.log} ELSE troubled
            /\ run' = [run EXCEPT ![r] = [stage |-> "save", todo |-> @.todo \ {c}, copy |-> c,
                                          success |-> outcome = "accepted"]]
      BY <1>3 DEF Eis!Submit
    <2>3. c \in Eis!Todo /\ c.log \in Logs
      BY <2>1 DEF Eis!Todo
    <2>4. (outcome = "accepted") \in BOOLEAN
      OBVIOUS
    <2>5. [stage |-> "save", todo |-> run[r].todo \ {c}, copy |-> c,
           success |-> outcome = "accepted"] \in Eis!Run
      BY <2>1, <2>3, <2>4 DEF Eis!Run
    <2>6. run' \in [Runs -> Eis!Run]
      BY <2>2, <2>5
    <2>7. faults' \in 0 .. MaxFaults /\ accepted' \in [Logs -> Nat] /\ troubled' \subseteq Logs
      BY <2>2, <2>3 DEF Eis!EisAssumption
    <2>8. QED
      BY <1>3, <2>6, <2>7 DEF Eis!Submit
  <1>4. ASSUME NEW r \in Runs, Eis!Save(r)
        PROVE  Eis!TypeOK'
    <2>1. /\ run[r].todo \in SUBSET Eis!Todo /\ run[r].copy.log \in Logs
          /\ run[r].copy.retries \in Nat
      BY <1>4 DEF Eis!Save, Eis!Run, Eis!Idle, Eis!Todo
    <2>2. log' \in [Logs -> Eis!Row]
      BY <1>4, <2>1 DEF Eis!Save, Eis!Row
    <2>3. run' \in [Runs -> Eis!Run]
      BY <1>4, <2>1 DEF Eis!Save, Eis!Run
    <2>4. QED
      BY <1>4, <2>2, <2>3 DEF Eis!Save
  <1>5. ASSUME NEW r \in Runs, Eis!Dies(r)
        PROVE  Eis!TypeOK'
    <2>1. run[r].stage = "save" => run[r].copy.log \in Logs
      BY DEF Eis!Run, Eis!Idle, Eis!Todo
    <2>2. run' \in [Runs -> Eis!Run]
      BY <1>5 DEF Eis!Dies, Eis!Run
    <2>3. QED
      BY <1>5, <2>1, <2>2 DEF Eis!Dies, Eis!EisAssumption
  <1>6. ASSUME NEW l \in Logs, Eis!Requeue(l)
        PROVE  Eis!TypeOK'
    BY <1>6 DEF Eis!Requeue, Eis!Row
  <1>7. QED
    BY <1>1, <1>2, <1>3, <1>4, <1>5, <1>6 DEF Eis!Next

-----------------------------------------------------------------------------
(* Exchange rates.                                                         *)

LEMMA RatesStart ==
  ASSUME Rates!RatesAssumption, Rates!Init
  PROVE  Rates!TypeOK
  <1>1. refresh \in [Refreshes -> {"idle", "close", "create"}]
    BY DEF Rates!Init
  <1>2. rows \in 0 .. MaxRows /\ failures \in 0 .. MaxFailures
    BY DEF Rates!RatesAssumption, Rates!Init
  <1>3. QED
    BY <1>1, <1>2 DEF Rates!Init, Rates!TypeOK

LEMMA RatesTypes ==
  ASSUME Rates!RatesAssumption, Rates!TypeOK, [Rates!Next]_rates
  PROVE  Rates!TypeOK'
  <1> USE DEF Rates!TypeOK
  <1>1. CASE UNCHANGED rates
    BY <1>1 DEF rates
  <1>2. ASSUME NEW f \in Refreshes, Rates!Ask(f) \/ Rates!NoAnswer(f)
        PROVE  Rates!TypeOK'
    BY <1>2 DEF Rates!Ask, Rates!NoAnswer
  <1>3. ASSUME NEW f \in Refreshes, Rates!Close(f)
        PROVE  Rates!TypeOK'
    <2>1. (\E g \in Rates!InFlight(f) : refresh[g] = "create") \in BOOLEAN
      OBVIOUS
    <2>2. disturbed' \in BOOLEAN
      BY <1>3, <2>1, Zenon DEF Rates!Close
    <2>3. QED
      BY <1>3, <2>2 DEF Rates!Close
  <1>4. ASSUME NEW f \in Refreshes, Rates!Create(f)
        PROVE  Rates!TypeOK'
    BY <1>4 DEF Rates!Create, Rates!RatesAssumption
  <1>5. ASSUME NEW f \in Refreshes, Rates!Fails(f)
        PROVE  Rates!TypeOK'
    BY <1>5 DEF Rates!Fails, Rates!RatesAssumption
  <1>6. QED
    BY <1>1, <1>2, <1>3, <1>4, <1>5 DEF Rates!Next

-----------------------------------------------------------------------------
(* Messages.  What is queued has tries left, and a row that is not there   *)
(* was never sent.                                                         *)

MessagesInv ==
  /\ Whatsapp!TypeOK
  /\ \A n \in Notes : sender[n].at = "queued" => sender[n].tries <= SendRetries
  /\ \A n \in Notes : note[n].status = "none" => sender[n].at = "none" /\ sender[n].tries = 0

LEMMA MessagesStart ==
  ASSUME Whatsapp!MessagesAssumption, Whatsapp!Init
  PROVE  MessagesInv
  <1> USE DEF Whatsapp!Init, Whatsapp!MessagesAssumption
  <1>1. /\ note \in [Notes -> Whatsapp!Row] /\ sender \in [Notes -> Whatsapp!Sender]
        /\ hook \in [Hooks -> Whatsapp!Hook]
    BY DEF Whatsapp!Row, Whatsapp!Status, Whatsapp!Sender, Whatsapp!Hook
  <1>2. QED
    BY <1>1 DEF MessagesInv, Whatsapp!TypeOK

LEMMA MessagesStep ==
  ASSUME Whatsapp!MessagesAssumption, MessagesInv, [Whatsapp!Next]_whatsapp
  PROVE  MessagesInv'
  <1> USE DEF MessagesInv, Whatsapp!TypeOK, Whatsapp!history
  <1>1. CASE UNCHANGED whatsapp
    BY <1>1 DEF whatsapp
  <1>2. ASSUME NEW s \in Subjects,
               \/ Whatsapp!Insert(s) \/ Whatsapp!EndTransaction(s)
               \/ Whatsapp!Scan(s) \/ Whatsapp!Skip(s)
        PROVE  MessagesInv'
    BY <1>2 DEF Whatsapp!Insert, Whatsapp!EndTransaction, Whatsapp!Scan, Whatsapp!Skip
  <1>3. ASSUME NEW s \in Subjects, Whatsapp!Notify(s)
        PROVE  MessagesInv'
    <2>1. PICK n \in Notes : /\ note[n].status = "none"
                             /\ note' = [note EXCEPT ![n].status = "PEND"]
                             /\ sender' = [sender EXCEPT ![n].at = "queued"]
      BY <1>3 DEF Whatsapp!Notify
    <2>4. note' \in [Notes -> Whatsapp!Row]
      BY <2>1 DEF Whatsapp!Row, Whatsapp!Status
    <2>2. sender' \in [Notes -> Whatsapp!Sender]
      BY <2>1 DEF Whatsapp!Sender
    <2>3. QED
      BY <1>3, <2>1, <2>2, <2>4 DEF Whatsapp!Notify, Whatsapp!Sender, Whatsapp!Row,
                              Whatsapp!MessagesAssumption
  <1>4. ASSUME NEW n \in Notes, Whatsapp!Post(n)
        PROVE  MessagesInv'
    <2>1. PICK reply \in {"taken", "refused", "lost"} :
            /\ sender' = [sender EXCEPT ![n].at = IF reply = "taken" THEN reply ELSE "refused",
                                        ![n].tries = @ + 1]
            /\ reached' = IF reply = "taken" THEN [reached EXCEPT ![n] = "SENT"] ELSE reached
            /\ copies' = IF reply = "refused" THEN copies ELSE [copies EXCEPT ![n] = @ + 1]
            /\ muddled' = IF reply = "lost" THEN muddled \cup {n} ELSE muddled
      BY <1>4 DEF Whatsapp!Post
    <2>2. sender' \in [Notes -> Whatsapp!Sender]
      BY <1>4, <2>1 DEF Whatsapp!Post, Whatsapp!Sender, Whatsapp!MessagesAssumption
    <2>3. reached' \in [Notes -> Whatsapp!Stage \cup {"none"}]
      BY <2>1 DEF Whatsapp!Stage
    <2>4. copies' \in [Notes -> Nat] /\ muddled' \subseteq Notes
      BY <2>1
    <2>5. note[n].status # "none"
      BY <1>4 DEF Whatsapp!Post
    <2>6. QED
      BY <1>4, <2>1, <2>2, <2>3, <2>4, <2>5 DEF Whatsapp!Post, Whatsapp!Sender
  <1>5. ASSUME NEW n \in Notes, Whatsapp!SaveSent(n) \/ Whatsapp!SaveFailed(n)
        PROVE  MessagesInv'
    <2>2. PICK next \in {"over", "queued"} :
            /\ sender' = [sender EXCEPT ![n].at = next]
            /\ next = "queued" => ~(sender[n].tries > SendRetries)
      BY <1>5 DEF Whatsapp!SaveSent, Whatsapp!SaveFailed
    <2>3. note' \in [Notes -> Whatsapp!Row] /\ note'[n].status # "none"
      <3>1. CASE Whatsapp!SaveSent(n)
        <4>1. /\ note' = [note EXCEPT ![n].status = "SENT", ![n].id = TRUE]
              /\ note[n] \in Whatsapp!Row
          BY <3>1 DEF Whatsapp!SaveSent
        <4>2. [note[n] EXCEPT !.status = "SENT", !.id = TRUE] \in Whatsapp!Row
          BY <4>1 DEF Whatsapp!Row, Whatsapp!Status
        <4>3. note'[n] = [note[n] EXCEPT !.status = "SENT", !.id = TRUE]
          BY <4>1
        <4>4. QED
          BY <4>1, <4>2, <4>3 DEF Whatsapp!Row
      <3>2. CASE Whatsapp!SaveFailed(n)
        BY <3>2 DEF Whatsapp!SaveFailed, Whatsapp!Row, Whatsapp!Status
      <3>3. QED
        BY <1>5, <3>1, <3>2
    <2>4. sender' \in [Notes -> Whatsapp!Sender]
      BY <2>2 DEF Whatsapp!Sender
    <2>5. \A m \in Notes : sender'[m].at = "queued" => sender'[m].tries <= SendRetries
      <3>1. sender[n].tries \in Nat
        BY DEF Whatsapp!Sender, Whatsapp!MessagesAssumption
      <3>2. QED
        BY <2>2, <3>1 DEF Whatsapp!Sender, Whatsapp!MessagesAssumption
    <2>6. \A m \in Notes : note'[m].status = "none" => m # n /\ note[m].status = "none"
      <3>1. \A m \in Notes \ {n} : note'[m] = note[m]
        BY <1>5 DEF Whatsapp!SaveSent, Whatsapp!SaveFailed
      <3>2. QED
        BY <2>3, <3>1
    <2>7. \A m \in Notes \ {n} : sender'[m] = sender[m]
      BY <2>2
    <2>8. QED
      BY <1>5, <2>3, <2>4, <2>5, <2>6, <2>7 DEF Whatsapp!SaveSent, Whatsapp!SaveFailed
  <1>6. ASSUME NEW n \in Notes, Whatsapp!Progress(n)
        PROVE  MessagesInv'
    BY <1>6 DEF Whatsapp!Progress
  <1>7. ASSUME NEW w \in Hooks, NEW n \in Notes, NEW stage \in Whatsapp!Stage,
               Whatsapp!Receive(w, n, stage)
        PROVE  MessagesInv'
    <2>1. [kind |-> "receipt", note |-> n, stage |-> stage, delivered |-> note[n].delivered]
            \in Whatsapp!Hook
      BY DEF Whatsapp!Hook, Whatsapp!Row
    <2>2. hook' \in [Hooks -> Whatsapp!Hook]
      BY <1>7, <2>1 DEF Whatsapp!Receive
    <2>3. QED
      BY <1>7, <2>2 DEF Whatsapp!Receive
  <1>8. ASSUME NEW w \in Hooks, Whatsapp!Record(w)
        PROVE  MessagesInv'
    <2>1. /\ hook[w].note \in Notes /\ hook[w].stage \in Whatsapp!Stage
          /\ hook[w].delivered \in BOOLEAN
      BY <1>8 DEF Whatsapp!Record, Whatsapp!Hook, Whatsapp!Idle
    <2>2. (hook[w].delivered \/ hook[w].stage = "DELIV") \in BOOLEAN
      OBVIOUS
    <2>3. note' \in [Notes -> Whatsapp!Row]
      BY <1>8, <2>1, <2>2 DEF Whatsapp!Record, Whatsapp!Row, Whatsapp!Status, Whatsapp!Stage
    <2>4. hook' \in [Hooks -> Whatsapp!Hook]
      BY <1>8 DEF Whatsapp!Record, Whatsapp!Hook
    <2>5. \A m \in Notes : note'[m].status = "none" => note[m].status = "none"
      BY <1>8, <2>1 DEF Whatsapp!Record, Whatsapp!Row, Whatsapp!Stage
    <2>6. QED
      BY <1>8, <2>3, <2>4, <2>5 DEF Whatsapp!Record
  <1>9. CASE Whatsapp!StoreInbound
    BY <1>9 DEF Whatsapp!StoreInbound
  <1>10. ASSUME NEW w \in Hooks, NEW i \in Inbound, Whatsapp!SendReply(w, i)
         PROVE  MessagesInv'
    <2>1. [kind |-> "reply", mail |-> i] \in Whatsapp!Hook
      BY DEF Whatsapp!Hook
    <2>2. QED
      BY <1>10, <2>1 DEF Whatsapp!SendReply
  <1>11. ASSUME NEW w \in Hooks, Whatsapp!SaveReply(w)
         PROVE  MessagesInv'
    <2>1. hook' \in [Hooks -> Whatsapp!Hook]
      BY <1>11 DEF Whatsapp!SaveReply, Whatsapp!Hook
    <2>2. inbox' \in [Inbound -> {"none", "unread", "replied"}]
      BY <1>11 DEF Whatsapp!SaveReply
    <2>3. QED
      BY <1>11, <2>1, <2>2 DEF Whatsapp!SaveReply
  <1>12. QED
    BY <1>1, <1>2, <1>3, <1>4, <1>5, <1>6, <1>7, <1>8, <1>9, <1>10, <1>11 DEF Whatsapp!Next

-----------------------------------------------------------------------------
(* The portal link.                                                        *)

LEMMA LinkTypes ==
  ASSUME Portal!PortalAssumption, NEW link \in Portal!Link
  PROVE  /\ [link EXCEPT !.life = "fresh"] \in Portal!Link
         /\ Portal!Older(link) \in Portal!Link
  BY DEF Portal!Link, Portal!Life, Portal!Older

LEMMA RowTypes ==
  ASSUME NEW row \in Portal!Row, NEW link \in Portal!Link
  PROVE  row.link \in Portal!Link /\ [row EXCEPT !.link = link] \in Portal!Row
  BY DEF Portal!Row

LEMMA PortalStart ==
  ASSUME Portal!PortalAssumption, Portal!Init
  PROVE  Portal!TypeOK
  <1> USE DEF Portal!Init, Portal!PortalAssumption
  <1>1. last \in Portal!Link /\ res \in Portal!Row
    BY DEF Portal!Link, Portal!Life, Portal!Row, Portal!Status
  <1>2. clerk \in [Clerks -> Portal!Clerk]
    BY DEF Portal!Clerk
  <1>3. jobs \in 0 .. MaxJobs /\ made \in 0 .. MaxTokens
    OBVIOUS
  <1>4. QED
    BY <1>1, <1>2, <1>3 DEF Portal!TypeOK

LEMMA HoldsType ==
  ASSUME Portal!TypeOK, NEW c \in Clerks, NEW kind \in {"resend", "task", "write", "edit"},
         NEW row \in Portal!Row, Portal!Holds(c, kind, row)
  PROVE  clerk' \in [Clerks -> Portal!Clerk]
  BY DEF Portal!TypeOK, Portal!Holds, Portal!Clerk

LEMMA EndsType ==
  ASSUME Portal!TypeOK, NEW c \in Clerks, Portal!Ends(c)
  PROVE  clerk' \in [Clerks -> Portal!Clerk]
  BY DEF Portal!TypeOK, Portal!Ends, Portal!Clerk

LEMMA ClerkRow ==
  ASSUME Portal!TypeOK, NEW c \in Clerks, clerk[c].kind # "idle"
  PROVE  clerk[c].res \in Portal!Row
  BY DEF Portal!TypeOK, Portal!Clerk, Portal!Idle

LEMMA PortalTypes ==
  ASSUME Portal!PortalAssumption, Portal!TypeOK, [Portal!Next]_portal
  PROVE  Portal!TypeOK'
  <1>0. res.link \in Portal!Link /\ res \in Portal!Row
    BY DEF Portal!TypeOK, Portal!Row
  <1>1. CASE UNCHANGED portal
    BY <1>1 DEF portal, Portal!TypeOK
  <1>2. ASSUME NEW c \in Clerks, Portal!FetchTask(c)
        PROVE  Portal!TypeOK'
    <2>1. clerk' \in [Clerks -> Portal!Clerk]
      BY <1>0, <1>2, HoldsType DEF Portal!FetchTask
    <2>2. QED
      BY <1>2, <2>1 DEF Portal!FetchTask, Portal!TypeOK, Portal!PortalAssumption
  <1>3. ASSUME NEW c \in Clerks, Portal!WriteToken(c)
        PROVE  Portal!TypeOK'
    <2>1. Portal!NewLink \in Portal!Link /\ made' \in 0 .. MaxTokens
      BY <1>3 DEF Portal!WriteToken, Portal!NewLink, Portal!Link, Portal!Life, Portal!TypeOK,
                  Portal!PortalAssumption
    <2>2. res' \in Portal!Row
      BY <1>0, <1>3, <2>1, RowTypes DEF Portal!WriteToken
    <2>3. clerk' \in [Clerks -> Portal!Clerk]
      BY <1>3, <2>2, HoldsType DEF Portal!WriteToken
    <2>4. (astray \/ Portal!Others(c, {"task", "write"}) # {}) \in BOOLEAN
      OBVIOUS
    <2>5. QED
      BY <1>3, <2>1, <2>2, <2>3, <2>4 DEF Portal!WriteToken, Portal!TypeOK
  <1>4. ASSUME NEW c \in Clerks, Portal!Send(c)
        PROVE  Portal!TypeOK'
    <2>1. clerk[c].res.link \in Portal!Link
      BY <1>4, ClerkRow DEF Portal!Send, Portal!Row
    <2>2. last' \in Portal!Link
      BY <1>4, <2>1, LinkTypes DEF Portal!Send, Portal!TypeOK
    <2>3. clerk' \in [Clerks -> Portal!Clerk]
      BY <1>4, EndsType DEF Portal!Send
    <2>4. QED
      BY <1>4, <2>2, <2>3 DEF Portal!Send, Portal!TypeOK
  <1>5. ASSUME NEW c \in Clerks, Portal!FetchResend(c)
        PROVE  Portal!TypeOK'
    <2>1. clerk' \in [Clerks -> Portal!Clerk]
      BY <1>0, <1>5, HoldsType DEF Portal!FetchResend
    <2>2. QED
      BY <1>5, <2>1 DEF Portal!FetchResend, Portal!TypeOK
  <1>6. ASSUME NEW c \in Clerks, Portal!Renew(c) \/ Portal!Extend(c)
        PROVE  Portal!TypeOK'
    <2>1. made' \in 0 .. MaxTokens /\ res' \in Portal!Row
      <3>1. CASE Portal!Renew(c)
        <4>1. Portal!NewLink \in Portal!Link /\ made' \in 0 .. MaxTokens
          BY <3>1 DEF Portal!Renew, Portal!NewLink, Portal!Link, Portal!Life, Portal!TypeOK,
                      Portal!PortalAssumption
        <4>2. QED
          BY <1>0, <3>1, <4>1, RowTypes DEF Portal!Renew
      <3>2. CASE Portal!Extend(c)
        <4>1. res' = [res EXCEPT !.link = [res.link EXCEPT !.life = "fresh"]]
          BY <1>0, <3>2 DEF Portal!Extend
        <4>2. QED
          BY <1>0, <3>2, <4>1, RowTypes, LinkTypes DEF Portal!Extend, Portal!TypeOK
      <3>3. QED
        BY <1>6, <3>1, <3>2
    <2>2. jobs' \in 0 .. MaxJobs
      BY <1>6 DEF Portal!Renew, Portal!Extend, Portal!Delay, Portal!TypeOK,
                  Portal!PortalAssumption
    <2>3. clerk' \in [Clerks -> Portal!Clerk]
      BY <1>6, EndsType DEF Portal!Renew, Portal!Extend
    <2>4. (jobs' = jobs \/ Portal!Others(c, {"task", "write"}) # {}
             \/ (astray /\ ~Portal!Alone(c))) \in BOOLEAN
      OBVIOUS
    <2>5. astray' \in BOOLEAN
      BY <1>6, <2>4 DEF Portal!Renew, Portal!Extend
    <2>6. QED
      BY <1>6, <2>1, <2>2, <2>3, <2>5 DEF Portal!Renew, Portal!Extend, Portal!TypeOK
  <1>7. ASSUME NEW c \in Clerks, Portal!FetchEdit(c)
        PROVE  Portal!TypeOK'
    <2>1. clerk' \in [Clerks -> Portal!Clerk]
      BY <1>0, <1>7, HoldsType DEF Portal!FetchEdit
    <2>2. QED
      BY <1>7, <2>1 DEF Portal!FetchEdit, Portal!TypeOK
  <1>8. ASSUME NEW c \in Clerks, Portal!SaveEdit(c)
        PROVE  Portal!TypeOK'
    <2>1. res' \in Portal!Row
      BY <1>8, ClerkRow DEF Portal!SaveEdit
    <2>2. clerk' \in [Clerks -> Portal!Clerk]
      BY <1>8, EndsType DEF Portal!SaveEdit
    <2>3. (astray \/ res.link # clerk[c].res.link
             \/ Portal!Others(c, {"task", "write"}) # {}) \in BOOLEAN
      OBVIOUS
    <2>4. QED
      BY <1>8, <2>1, <2>2, <2>3 DEF Portal!SaveEdit, Portal!TypeOK
  <1>9. CASE Portal!ChangeStatus
    BY <1>0, <1>9 DEF Portal!ChangeStatus, Portal!TypeOK, Portal!Row
  <1>10. CASE Portal!TwoMinutes
    BY <1>10 DEF Portal!TwoMinutes, Portal!TypeOK
  <1>11. CASE Portal!Weeks
    <2>1. res' \in Portal!Row
      BY <1>0, <1>11, LinkTypes, RowTypes DEF Portal!Weeks
    <2>2. last' \in Portal!Link
      BY <1>11, LinkTypes DEF Portal!Weeks, Portal!TypeOK
    <2>3. QED
      BY <1>11, <2>1, <2>2 DEF Portal!Weeks, Portal!TypeOK
  <1>12. QED
    BY <1>1, <1>2, <1>3, <1>4, <1>5, <1>6, <1>7, <1>8, <1>9, <1>10, <1>11 DEF Portal!Next

-----------------------------------------------------------------------------
(* Workspaces and members.                                                 *)

LEMMA DeskFields ==
  ASSUME Sites!TypeOK, NEW d \in Desks
  PROVE  /\ desk[d].kind \in {"idle", "signup", "complete", "join", "create", "edit"}
         /\ desk[d].kind = "idle" => desk[d] = Sites!Idle
         /\ desk[d].kind # "idle" => desk[d].name \in Names
         /\ desk[d].kind \in {"signup", "complete", "join"} =>
              desk[d] = [kind |-> desk[d].kind, who |-> desk[d].who, name |-> desk[d].name]
         /\ desk[d].kind \in {"signup", "complete", "join"} => desk[d].who \in People
         /\ desk[d].kind = "edit" => desk[d].is_active \in {"active", "inactive"}
  BY DEF Sites!TypeOK, Sites!Desk, Sites!Idle

LEMMA SitesStart ==
  ASSUME Sites!Init
  PROVE  Sites!TypeOK
  BY DEF Sites!Init, Sites!TypeOK, Sites!TenantState, Sites!MemberState, Sites!Desk

LEMMA StartsType ==
  ASSUME Sites!TypeOK, NEW d \in Desks, NEW r \in Sites!Desk, Sites!Starts(d, r)
  PROVE  desk' \in [Desks -> Sites!Desk]
  BY DEF Sites!TypeOK, Sites!Starts

LEMMA SitesEndType ==
  ASSUME Sites!TypeOK, NEW d \in Desks, Sites!Ends(d)
  PROVE  desk' \in [Desks -> Sites!Desk]
  BY DEF Sites!TypeOK, Sites!Ends, Sites!Desk

LEMMA FetchesType ==
  ASSUME Sites!TypeOK, NEW d \in Desks, NEW n \in Names,
         \/ Sites!FetchCreate(d, n) \/ Sites!FetchEdit(d, n)
         \/ \E p \in People : Sites!FetchSignup(d, p, n) \/ Sites!FetchComplete(d, p, n)
  PROVE  Sites!TypeOK'
  <1>1. CASE Sites!FetchCreate(d, n)
    <2>1. [kind |-> "create", name |-> n] \in Sites!Desk
      BY DEF Sites!Desk
    <2>2. desk' \in [Desks -> Sites!Desk]
      BY <1>1, <2>1, StartsType DEF Sites!FetchCreate
    <2>3. QED
      BY <1>1, <2>2 DEF Sites!FetchCreate, Sites!TypeOK
  <1>2. CASE Sites!FetchEdit(d, n)
    <2>1. [kind |-> "edit", name |-> n, is_active |-> tenant[n]] \in Sites!Desk
      BY <1>2 DEF Sites!FetchEdit, Sites!Desk, Sites!TypeOK, Sites!TenantState
    <2>2. desk' \in [Desks -> Sites!Desk]
      BY <1>2, <2>1, StartsType DEF Sites!FetchEdit
    <2>3. QED
      BY <1>2, <2>2 DEF Sites!FetchEdit, Sites!TypeOK
  <1>3. ASSUME NEW p \in People, Sites!FetchSignup(d, p, n)
        PROVE  Sites!TypeOK'
    <2>1. [kind |-> "signup", who |-> p, name |-> n] \in Sites!Desk
      BY DEF Sites!Desk
    <2>2. desk' \in [Desks -> Sites!Desk]
      BY <1>3, <2>1, StartsType DEF Sites!FetchSignup
    <2>3. QED
      BY <1>3, <2>2 DEF Sites!FetchSignup, Sites!TypeOK
  <1>4. ASSUME NEW p \in People, Sites!FetchComplete(d, p, n)
        PROVE  Sites!TypeOK'
    <2>1. [kind |-> "complete", who |-> p, name |-> n] \in Sites!Desk
      BY DEF Sites!Desk
    <2>2. desk' \in [Desks -> Sites!Desk]
      BY <1>4, <2>1, StartsType DEF Sites!FetchComplete
    <2>3. QED
      BY <1>4, <2>2 DEF Sites!FetchComplete, Sites!TypeOK
  <1>5. QED
    BY <1>1, <1>2, <1>3, <1>4

LEMMA SubmitsType ==
  ASSUME Sites!TypeOK, NEW d \in Desks,
         \/ Sites!Refused(d) \/ Sites!Provision(d) \/ Sites!ProvisionBare(d)
         \/ Sites!Join(d) \/ Sites!Dies(d) \/ Sites!SaveEdit(d)
  PROVE  Sites!TypeOK'
  <1>0. /\ Sites!Ends(d) => desk' \in [Desks -> Sites!Desk]
        /\ \A state \in Sites!TenantState, n \in Names :
             [tenant EXCEPT ![n] = state] \in [Names -> Sites!TenantState]
        /\ \A p \in People, n \in Names :
             [member EXCEPT ![<<p, n>>] = "active"] \in [People \X Names -> Sites!MemberState]
        /\ "active" \in Sites!TenantState /\ "inactive" \in Sites!TenantState
    BY SitesEndType DEF Sites!TypeOK, Sites!MemberState, Sites!TenantState
  <1>1. CASE Sites!Refused(d)
    BY <1>0, <1>1 DEF Sites!Refused, Sites!TypeOK
  <1>2. CASE Sites!Provision(d)
    BY <1>0, <1>2, DeskFields DEF Sites!Provision, Sites!TypeOK
  <1>3. CASE Sites!ProvisionBare(d)
    <2>1. tenant' \in [Names -> Sites!TenantState]
      BY <1>0, <1>3, DeskFields DEF Sites!ProvisionBare
    <2>2. CASE desk[d].kind = "complete"
      <3>1. [desk[d] EXCEPT !.kind = "join"] \in Sites!Desk
        <4>1. desk[d] \in [kind : {"complete"}, who : People, name : Names]
          BY <2>2 DEF Sites!TypeOK, Sites!Desk, Sites!Idle
        <4>2. [desk[d] EXCEPT !.kind = "join"] \in [kind : {"join"}, who : People, name : Names]
          BY <4>1
        <4>3. QED
          BY <4>2 DEF Sites!Desk
      <3>2. desk' \in [Desks -> Sites!Desk]
        BY <1>3, <2>2, <3>1, StartsType DEF Sites!ProvisionBare
      <3>3. QED
        BY <1>3, <2>1, <2>2, <3>2 DEF Sites!ProvisionBare, Sites!TypeOK
    <2>3. CASE desk[d].kind # "complete"
      BY <1>0, <1>3, <2>1, <2>3, DeskFields DEF Sites!ProvisionBare, Sites!TypeOK
    <2>4. QED
      BY <2>2, <2>3
  <1>4. CASE Sites!Join(d)
    BY <1>0, <1>4, DeskFields DEF Sites!Join, Sites!TypeOK
  <1>5. CASE Sites!Dies(d)
    BY <1>0, <1>5, DeskFields DEF Sites!Dies, Sites!TypeOK
  <1>6. CASE Sites!SaveEdit(d)
    BY <1>0, <1>6, DeskFields DEF Sites!SaveEdit, Sites!TypeOK
  <1>7. QED
    BY <1>1, <1>2, <1>3, <1>4, <1>5, <1>6

LEMMA SitesTypes ==
  ASSUME Sites!TypeOK, [Sites!Next]_sites
  PROVE  Sites!TypeOK'
  <1>1. CASE UNCHANGED sites
    BY <1>1 DEF sites, Sites!TypeOK
  <1>2. ASSUME NEW n \in Names, Sites!Deprovision(n) \/ Sites!Reactivate(n)
        PROVE  Sites!TypeOK'
    BY <1>2 DEF Sites!Deprovision, Sites!Reactivate, Sites!TypeOK, Sites!TenantState
  <1>3. ASSUME NEW n \in Names, Sites!Delete(n)
        PROVE  Sites!TypeOK'
    <2>1. tenant' \in [Names -> Sites!TenantState]
      BY <1>3 DEF Sites!Delete, Sites!TypeOK, Sites!TenantState
    <2>2. member' \in [People \X Names -> Sites!MemberState]
      BY <1>3 DEF Sites!Delete, Sites!TypeOK, Sites!MemberState
    <2>3. at' \in [People -> {"out", "public"} \cup Names]
      BY <1>3 DEF Sites!Delete, Sites!TypeOK
    <2>4. desk' \in [Desks -> Sites!Desk]
      BY <1>3 DEF Sites!Delete, Sites!TypeOK, Sites!Desk
    <2>5. QED
      BY <1>3, <2>1, <2>2, <2>3, <2>4 DEF Sites!Delete, Sites!TypeOK
  <1>4. ASSUME NEW p \in People, Sites!SignIn(p) \/ Sites!Logout(p)
        PROVE  Sites!TypeOK'
    BY <1>4 DEF Sites!SignIn, Sites!Logout, Sites!TypeOK
  <1>5. ASSUME NEW p \in People, NEW n \in Names, Sites!Login(p, n) \/ Sites!SetMembership(p, n)
        PROVE  Sites!TypeOK'
    BY <1>5 DEF Sites!Login, Sites!SetMembership, Sites!TypeOK, Sites!MemberState
  <1>6. QED
    BY <1>1, <1>2, <1>3, <1>4, <1>5, FetchesType, SubmitsType DEF Sites!Next

-----------------------------------------------------------------------------
(* The success of a transaction.  A delivery at work on the row read it    *)
(* before it said SUCC; so once it does, such a delivery has a rival.      *)

SuccessInv ==
  /\ Ledger!SuccessLostNeedsRace
  /\ succeeded => \A w \in Workers : request[w].kind \in AtRow => "txn" \in raced

LEMMA SuccessStep ==
  ASSUME Ledger!TypeOK, SuccessInv, [Ledger!Next]_ledger
  PROVE  SuccessInv'
  <1> USE DEF SuccessInv, Ledger!SuccessLostNeedsRace, AtRow
  <1>1. CASE UNCHANGED ledger
    BY <1>1 DEF ledger, Ledger!past
  <1>2. CASE Ledger!TakePayment
    BY <1>2 DEF Ledger!TakePayment
  <1>3. ASSUME NEW w \in Workers, Ledger!FetchSync(w) \/ Ledger!SyncPayment(w) \/ Ledger!Verify(w) \/ Ledger!Link(w)
        PROVE  SuccessInv'
    <2>1. /\ txn' = txn /\ succeeded' = succeeded
          /\ raced \subseteq raced'
      BY <1>3 DEF Ledger!FetchSync, Ledger!SyncPayment, Ledger!Verify, Ledger!Link, Ledger!past
    <2>2. \A v \in Workers :
            request'[v].kind \in AtRow => request[v].kind \in AtRow
      BY <1>3 DEF Ledger!FetchSync, Ledger!SyncPayment, Ledger!Verify, Ledger!Link, Ledger!Continues, Ledger!TypeOK, Ledger!Idle
    <2>3. QED
      BY <2>1, <2>2
  <1>4. ASSUME NEW w \in Workers, Ledger!Upsert(w)
        PROVE  SuccessInv'
    <2>1. \A v \in Workers :
            request'[v].kind \in AtRow => request[v].kind \in AtRow \/ txn.status # "SUCC"
      BY <1>4 DEF Ledger!Upsert, Ledger!Continues, Ledger!TypeOK, Ledger!Idle
    <2>2. /\ txn'.status = "SUCC" <=> txn.status = "SUCC"
          /\ succeeded' = succeeded /\ raced' = raced
      BY <1>4 DEF Ledger!Upsert, Ledger!past, Ledger!TypeOK, Ledger!Txn
    <2>3. QED
      BY <2>1, <2>2
  <1>5. ASSUME NEW w \in Workers, Ledger!Fail(w)
        PROVE  SuccessInv'
    <2>1. succeeded => "txn" \in raced
      BY <1>5 DEF Ledger!Fail
    <2>2. succeeded' = succeeded /\ raced \subseteq raced'
      BY <1>5 DEF Ledger!Fail, Ledger!Raced
    <2>3. QED
      BY <2>1, <2>2
  <1>6. ASSUME NEW w \in Workers, Ledger!Save(w)
        PROVE  SuccessInv'
    <2>1. txn'.status = "SUCC"
      BY <1>6 DEF Ledger!Save
    <2>2. ASSUME NEW v \in Workers, request'[v].kind \in AtRow
          PROVE  "txn" \in raced'
      <3>1. v # w /\ request[v].kind \in AtRow
        BY <1>6, <2>2 DEF Ledger!Save, Ledger!Continues, Ledger!TypeOK, Ledger!Idle
      <3>2. v \in Ledger!Others(w, {"fail", "link", "save"})
        BY <3>1 DEF Ledger!Others
      <3>3. QED
        BY <1>6, <3>2 DEF Ledger!Save, Ledger!Raced
    <2>3. QED
      BY <2>1, <2>2
  <1>7. QED
    BY <1>1, <1>2, <1>3, <1>4, <1>5, <1>6 DEF Ledger!Next

(* A transaction that was successful says so for good, unless two          *)
(* deliveries were at work on its row at once.                             *)
THEOREM SuccessIsKept == Spec => []SuccessLostNeedsRace
  <1>1. Init => Ledger!TypeOK /\ SuccessInv
    <2>1. Init => Ledger!Init /\ Ledger!TypeOK
      BY PartsStart, LedgerStart, IntegrationsAssumption DEF IntegrationsAssumption
    <2>2. Ledger!Init => SuccessInv
      BY DEF Ledger!Init, SuccessInv, Ledger!SuccessLostNeedsRace
    <2>3. QED
      BY <2>1, <2>2
  <1>2. Ledger!TypeOK /\ SuccessInv /\ [Next]_vars => (Ledger!TypeOK /\ SuccessInv)'
    BY PartsMove, LedgerStep, SuccessStep, IntegrationsAssumption DEF IntegrationsAssumption
  <1>3. SuccessInv => SuccessLostNeedsRace
    BY DEF SuccessInv, SuccessLostNeedsRace
  <1>4. QED
    BY <1>1, <1>2, <1>3, PTL DEF Spec

-----------------------------------------------------------------------------
(* Payments with one reference.                                            *)

ReferenceInv ==
  /\ Ledger!OnePaymentPerReference
  /\ payments > 0 => \A w \in Workers : request[w].kind = "sync" => "payment" \in raced

LEMMA ReferenceStep ==
  ASSUME Ledger!TypeOK, ReferenceInv, [Ledger!Next]_ledger
  PROVE  ReferenceInv'
  <1> USE DEF ReferenceInv, Ledger!OnePaymentPerReference
  <1>0. payments \in Nat
    BY DEF Ledger!TypeOK
  <1>1. CASE UNCHANGED ledger
    BY <1>1 DEF ledger, Ledger!past
  <1>2. CASE Ledger!TakePayment
    BY <1>2 DEF Ledger!TakePayment
  <1>3. ASSUME NEW w \in Workers, Ledger!FetchSync(w)
        PROVE  ReferenceInv'
    BY <1>0, <1>3 DEF Ledger!FetchSync, Ledger!past
  <1>4. ASSUME NEW w \in Workers, Ledger!SyncPayment(w)
        PROVE  ReferenceInv'
    <2>1. payments > 0 => "payment" \in raced'
      BY <1>4 DEF Ledger!SyncPayment
    <2>2. payments' = payments + 1
      BY <1>4 DEF Ledger!SyncPayment
    <2>3. ASSUME NEW v \in Workers, request'[v].kind = "sync"
          PROVE  "payment" \in raced'
      <3>1. v # w /\ request[v].kind = "sync"
        BY <1>4, <2>3 DEF Ledger!SyncPayment, Ledger!Continues, Ledger!TypeOK, Ledger!Idle
      <3>2. v \in Ledger!Others(w, {"sync"})
        BY <3>1 DEF Ledger!Others
      <3>3. QED
        BY <1>4, <3>2 DEF Ledger!SyncPayment
    <2>4. QED
      BY <1>0, <2>1, <2>2, <2>3
  <1>5. ASSUME NEW w \in Workers, Ledger!Verify(w) \/ Ledger!Upsert(w) \/ Ledger!Fail(w) \/ Ledger!Link(w) \/ Ledger!Save(w)
        PROVE  ReferenceInv'
    <2>1. payments' = payments /\ raced \subseteq raced'
      BY <1>5 DEF Ledger!Verify, Ledger!Upsert, Ledger!Fail, Ledger!Link, Ledger!Save, Ledger!Raced, Ledger!past
    <2>2. \A v \in Workers : request'[v].kind = "sync" => request[v].kind = "sync"
      BY <1>5 DEF Ledger!Verify, Ledger!Upsert, Ledger!Fail, Ledger!Link, Ledger!Save, Ledger!Continues, Ledger!TypeOK, Ledger!Idle
    <2>3. QED
      BY <2>1, <2>2
  <1>6. QED
    BY <1>1, <1>2, <1>3, <1>4, <1>5 DEF Ledger!Next

(* A reference the devices send any number of times is one payment, unless *)
(* staff typed it in or two deliveries looked for it at once.              *)
THEOREM ReferencesAreUnique == Spec => []OnePaymentPerReference
  <1>1. Init => Ledger!TypeOK /\ ReferenceInv
    <2>1. Init => Ledger!Init /\ Ledger!TypeOK
      BY PartsStart, LedgerStart, IntegrationsAssumption DEF IntegrationsAssumption
    <2>2. Ledger!Init => ReferenceInv
      BY DEF Ledger!Init, ReferenceInv, Ledger!OnePaymentPerReference, Ledger!Idle
    <2>3. QED
      BY <2>1, <2>2
  <1>2. Ledger!TypeOK /\ ReferenceInv /\ [Next]_vars => (Ledger!TypeOK /\ ReferenceInv)'
    BY PartsMove, LedgerStep, ReferenceStep, IntegrationsAssumption DEF IntegrationsAssumption
  <1>3. ReferenceInv => OnePaymentPerReference
    BY DEF ReferenceInv, OnePaymentPerReference
  <1>4. QED
    BY <1>1, <1>2, <1>3, PTL DEF Spec

-----------------------------------------------------------------------------
(* Linking.  Payments are never removed, and before the first delivery has *)
(* created the row none can be at work on it.                              *)

LinkInv ==
  /\ Ledger!PromptPaymentsAreLinked
  /\ prompt => payments > 0
  /\ \A w \in Workers : request[w].kind \in AtRow => txn.status # "none"
  /\ prompt => \A w \in Workers : request[w].kind = "save" => request[w].linked

LEMMA LinkStep ==
  ASSUME Ledger!TypeOK, LinkInv, [Ledger!Next]_ledger
  PROVE  LinkInv'
  <1> USE DEF LinkInv, Ledger!PromptPaymentsAreLinked, AtRow
  <1>0. payments \in Nat
    BY DEF Ledger!TypeOK
  <1>1. CASE UNCHANGED ledger
    BY <1>1 DEF ledger, Ledger!past
  <1>2. CASE Ledger!TakePayment
    BY <1>0, <1>2 DEF Ledger!TakePayment
  <1>3. ASSUME NEW w \in Workers, Ledger!FetchSync(w) \/ Ledger!SyncPayment(w)
        PROVE  LinkInv'
    <2>1. txn' = txn /\ prompt' = prompt /\ (payments > 0 => payments' > 0)
      BY <1>0, <1>3 DEF Ledger!FetchSync, Ledger!SyncPayment, Ledger!past
    <2>2. \A v \in Workers :
            request'[v].kind \in AtRow => request'[v] = request[v]
      BY <1>3 DEF Ledger!FetchSync, Ledger!SyncPayment, Ledger!Continues, Ledger!TypeOK, Ledger!Idle
    <2>3. QED
      BY <2>1, <2>2
  <1>4. ASSUME NEW w \in Workers, Ledger!Verify(w)
        PROVE  LinkInv'
    <2>1. \A v \in Workers :
            request'[v].kind \in AtRow => request'[v] = request[v]
      BY <1>4 DEF Ledger!Verify, Ledger!Continues, Ledger!TypeOK
    <2>2. /\ txn' = txn /\ payments' = payments
          /\ prompt' => prompt \/ (txn.status = "none" /\ payments > 0)
      BY <1>4 DEF Ledger!Verify
    <2>3. QED
      BY <2>1, <2>2
  <1>5. ASSUME NEW w \in Workers, Ledger!Upsert(w)
        PROVE  LinkInv'
    <2>1. \A v \in Workers :
            request'[v].kind = "save" => request'[v] = request[v]
      BY <1>5 DEF Ledger!Upsert, Ledger!Continues, Ledger!TypeOK, Ledger!Idle
    <2>2. /\ txn'.status # "none" /\ txn'.linked = txn.linked
          /\ txn'.status = "SUCC" => txn.status = "SUCC"
          /\ payments' = payments /\ prompt' = prompt
      BY <1>5 DEF Ledger!Upsert, Ledger!TypeOK, Ledger!Txn, Ledger!past
    <2>3. QED
      BY <2>1, <2>2
  <1>6. ASSUME NEW w \in Workers, Ledger!Fail(w)
        PROVE  LinkInv'
    <2>1. txn'.status = "FAIL"
      BY <1>6 DEF Ledger!Fail, Ledger!TypeOK, Ledger!Txn
    <2>2. \A v \in Workers :
            request'[v].kind \in AtRow => request'[v] = request[v]
      BY <1>6 DEF Ledger!Fail, Ledger!Continues, Ledger!TypeOK, Ledger!Idle
    <2>3. payments' = payments /\ prompt' = prompt
      BY <1>6 DEF Ledger!Fail
    <2>4. QED
      BY <2>1, <2>2, <2>3
  <1>7. ASSUME NEW w \in Workers, Ledger!Link(w)
        PROVE  LinkInv'
    <2>1. /\ txn' = txn /\ payments' = payments /\ prompt' = prompt
          /\ txn.status # "none"
      BY <1>7 DEF Ledger!Link, Ledger!past
    <2>2. \A v \in Workers \ {w} : request'[v] = request[v]
      BY <1>7 DEF Ledger!Link, Ledger!Continues, Ledger!TypeOK
    <2>3. prompt => request'[w].linked
      BY <1>7 DEF Ledger!Link, Ledger!Continues, Ledger!TypeOK
    <2>4. QED
      BY <2>1, <2>2, <2>3
  <1>8. ASSUME NEW w \in Workers, Ledger!Save(w)
        PROVE  LinkInv'
    <2>1. prompt => request[w].linked
      BY <1>8 DEF Ledger!Save
    <2>2. /\ txn'.status = "SUCC" /\ txn'.linked = request[w].linked
          /\ payments' = payments /\ prompt' = prompt
      BY <1>8 DEF Ledger!Save
    <2>3. \A v \in Workers :
            request'[v].kind \in AtRow => request'[v] = request[v]
      BY <1>8 DEF Ledger!Save, Ledger!Continues, Ledger!TypeOK, Ledger!Idle
    <2>4. QED
      BY <2>1, <2>2, <2>3
  <1>9. QED
    BY <1>1, <1>2, <1>3, <1>4, <1>5, <1>6, <1>7, <1>8 DEF Ledger!Next

(* A payment that was there before the first report is linked by every     *)
(* successful one, also by reports that overwrite each other.              *)
THEOREM PromptPaymentsGetLinked == Spec => []PromptPaymentsAreLinked
  <1>1. Init => Ledger!TypeOK /\ LinkInv
    <2>1. Init => Ledger!Init /\ Ledger!TypeOK
      BY PartsStart, LedgerStart, IntegrationsAssumption DEF IntegrationsAssumption
    <2>2. Ledger!Init => LinkInv
      BY DEF Ledger!Init, LinkInv, Ledger!PromptPaymentsAreLinked, Ledger!Idle, AtRow
    <2>3. QED
      BY <2>1, <2>2
  <1>2. Ledger!TypeOK /\ LinkInv /\ [Next]_vars => (Ledger!TypeOK /\ LinkInv)'
    BY PartsMove, LedgerStep, LinkStep, IntegrationsAssumption DEF IntegrationsAssumption
  <1>3. LinkInv => PromptPaymentsAreLinked
    BY DEF LinkInv, PromptPaymentsAreLinked
  <1>4. QED
    BY <1>1, <1>2, <1>3, PTL DEF Spec

-----------------------------------------------------------------------------
(* The queue of the revenue authority.                                     *)

(* The run that has submitted a row and was told that it is accepted.      *)
Told(r, l) == run[r].stage = "save" /\ run[r].copy.log = l /\ run[r].success

(* What holds of a row that nothing has gone wrong with.                   *)
RowInv(l) ==
  /\ \A r, s \in Runs : l \in Eis!Held(r) /\ l \in Eis!Held(s) => r = s
  /\ \A r \in Runs : l \in Eis!Held(r) =>
       log[l].status = "OFFQ" /\ accepted[l] = IF Told(r, l) THEN 1 ELSE 0
  /\ accepted[l] <= 1
  /\ accepted[l] = 1 /\ (\A r \in Runs : l \notin Eis!Held(r)) => log[l].status = "VAL"

(* A run has each row once.                                                *)
OneCopy(r) ==
  /\ run[r].stage # "idle" => \A c, k \in run[r].todo : c.log = k.log => c = k
  /\ run[r].stage = "save" => \A c \in run[r].todo : c.log # run[r].copy.log

EisInv ==
  /\ Eis!TypeOK
  /\ \A r \in Runs : OneCopy(r)
  /\ \A l \in Logs \ troubled : RowInv(l)

LEMMA EisInvStart ==
  ASSUME Eis!EisAssumption, Eis!Init
  PROVE  EisInv
  <1>1. Eis!TypeOK
    BY EisStart
  <1>2. \A r \in Runs : run[r].stage = "idle" /\ Eis!Held(r) = {}
    BY DEF Eis!Init, Eis!Idle, Eis!Held
  <1>3. \A l \in Logs : accepted[l] = 0
    BY DEF Eis!Init
  <1>4. QED
    BY <1>1, <1>2, <1>3 DEF EisInv, OneCopy, RowInv

(* A step of one run leaves the others as they are.                        *)
LEMMA OtherRuns ==
  ASSUME Eis!TypeOK, NEW r \in Runs, NEW x, run' = [run EXCEPT ![r] = x]
  PROVE  /\ run'[r] = x
         /\ \A s \in Runs : s # r =>
              /\ run'[s] = run[s] /\ Eis!Held(s)' = Eis!Held(s)
              /\ \A l : Told(s, l)' <=> Told(s, l)
  <1>1. run'[r] = x /\ \A s \in Runs : s # r => run'[s] = run[s]
    BY DEF Eis!TypeOK
  <1>2. QED
    BY <1>1 DEF Eis!Held, Told

LEMMA EisInvStep ==
  ASSUME Eis!EisAssumption, EisInv, [Eis!Next]_eis
  PROVE  EisInv'
  <1>1. Eis!TypeOK /\ Eis!TypeOK'
    BY EisTypes DEF EisInv
  <1>2. CASE UNCHANGED eis
    BY <1>1, <1>2 DEF eis, EisInv, OneCopy, RowInv, Told, Eis!Held
  <1>3. ASSUME NEW r \in Runs, Eis!Start(r)
        PROVE  EisInv'
    <2> DEFINE todo == {[log |-> l, retries |-> log[l].retries] : l \in Eis!Pending}
               held == UNION {Eis!Held(x) : x \in Runs \ {r}}
    <2>1. /\ run[r] = Eis!Idle /\ run' = [run EXCEPT ![r] = [stage |-> "submit", todo |-> todo]]
          /\ troubled' = troubled \cup (Eis!Pending \cap held)
          /\ UNCHANGED <<log, faults, accepted>>
      BY <1>3 DEF Eis!Start
    <2>2. /\ run'[r] = [stage |-> "submit", todo |-> todo]
          /\ \A s \in Runs : s # r =>
               /\ run'[s] = run[s] /\ Eis!Held(s)' = Eis!Held(s)
               /\ \A l : Told(s, l)' <=> Told(s, l)
      BY <1>1, <2>1, OtherRuns
    <2>3. run'[r].stage = "submit" /\ run'[r].todo = todo
      BY <2>2
    <2>4. {c.log : c \in todo} = Eis!Pending
      <3>1. \A c \in todo : c.log \in Eis!Pending
        OBVIOUS
      <3>2. ASSUME NEW l \in Eis!Pending
            PROVE  \E c \in todo : c.log = l
        <4>1. [log |-> l, retries |-> log[l].retries] \in todo
          OBVIOUS
        <4>2. [log |-> l, retries |-> log[l].retries].log = l
          OBVIOUS
        <4>3. QED
          BY <4>1, <4>2, Zenon
      <3> HIDE DEF todo
      <3>3. QED
        BY <3>1, <3>2
    <2>5. Eis!Held(r)' = Eis!Pending /\ \A l : ~Told(r, l)'
      BY <2>3, <2>4 DEF Eis!Held, Told
    <2>6. Eis!Held(r) = {}
      BY <2>1 DEF Eis!Held, Eis!Idle
    <2>7. \A s \in Runs : OneCopy(s)'
      BY <2>2, <2>3 DEF EisInv, OneCopy
    <2>8. ASSUME NEW l \in Logs, l \notin troubled'
          PROVE  RowInv(l)'
      <3>1. RowInv(l)
        BY <2>1, <2>8 DEF EisInv
      <3>2. CASE l \in Eis!Pending
        <4>1. \A s \in Runs : l \notin Eis!Held(s)
          BY <2>1, <2>6, <2>8, <3>2
        <4>2. log[l].status = "OFFQ" /\ accepted[l] = 0
          BY <1>1, <3>1, <3>2, <4>1 DEF RowInv, Eis!Pending, Eis!TypeOK
        <4>3. QED
          BY <2>1, <2>2, <2>5, <4>1, <4>2 DEF RowInv
      <3>3. CASE l \notin Eis!Pending
        BY <2>1, <2>2, <2>5, <2>6, <3>1, <3>3 DEF RowInv
      <3>4. QED
        BY <3>2, <3>3
    <2>9. QED
      BY <1>1, <2>7, <2>8 DEF EisInv
  <1>4. ASSUME NEW r \in Runs, Eis!Submit(r)
        PROVE  EisInv'
    <2>1. PICK c \in run[r].todo, outcome \in {"accepted", "lost", "refused"} :
            /\ accepted' = IF outcome = "refused" THEN accepted
                           ELSE [accepted EXCEPT ![c.log] = @ + 1]
            /\ troubled' = IF outcome = "lost" THEN troubled \cup {c.log} ELSE troubled
            /\ run' = [run EXCEPT ![r] = [stage |-> "save", todo |-> run[r].todo \ {c},
                                          copy |-> c, success |-> outcome = "accepted"]]
      BY <1>4 DEF Eis!Submit
    <2>2. run[r].stage = "submit" /\ UNCHANGED log
      BY <1>4 DEF Eis!Submit
    <2> DEFINE todo == run[r].todo \ {c}
               yes == outcome = "accepted"
               x == [stage |-> "save", todo |-> todo, copy |-> c, success |-> yes]
    <2>12. run' = [run EXCEPT ![r] = x]
      BY <2>1
    <2> HIDE DEF x
    <2>3. /\ run'[r] = x
          /\ \A s \in Runs : s # r =>
               /\ run'[s] = run[s] /\ Eis!Held(s)' = Eis!Held(s)
               /\ \A l : Told(s, l)' <=> Told(s, l)
      BY <1>1, <2>12, OtherRuns
    <2>4. /\ run'[r].stage = "save" /\ run'[r].todo = todo /\ run'[r].copy = c
          /\ run'[r].success = yes
      BY <2>3 DEF x
    <2>5. /\ Eis!Held(r) = {k.log : k \in run[r].todo}
          /\ Eis!Held(r)' = {k.log : k \in todo} \cup {c.log}
      BY <2>2, <2>4 DEF Eis!Held
    <2>6. Eis!Held(r)' = Eis!Held(r)
      BY <2>5
    <2>7. \A s \in Runs : OneCopy(s)'
      BY <2>2, <2>3, <2>4 DEF EisInv, OneCopy
    <2>8. c.log \in Logs /\ c.log \in Eis!Held(r) /\ \A l : ~Told(r, l)
      BY <1>1, <2>2, <2>5 DEF Eis!TypeOK, Eis!Run, Eis!Idle, Eis!Todo, Told
    <2>9. \A l : Told(r, l)' <=> l = c.log /\ outcome = "accepted"
      BY <2>4, Zenon DEF Told
    <2>10. ASSUME NEW l \in Logs, l \notin troubled'
           PROVE  RowInv(l)'
      <3>1. RowInv(l) /\ (outcome = "lost" => l # c.log)
        BY <2>1, <2>10 DEF EisInv
      <3>2. CASE l = c.log
        <4>1. accepted[l] = 0 /\ log[l].status = "OFFQ"
          BY <2>8, <3>1, <3>2 DEF RowInv
        <4>2. accepted'[l] = IF outcome = "accepted" THEN 1 ELSE 0
          BY <1>1, <2>1, <3>1, <3>2, <4>1 DEF Eis!TypeOK
        <4>3. QED
          BY <2>2, <2>3, <2>6, <2>8, <2>9, <3>1, <3>2, <4>1, <4>2 DEF RowInv
      <3>3. CASE l # c.log
        <4>1. accepted'[l] = accepted[l]
          BY <1>1, <2>1, <2>8, <3>3 DEF Eis!TypeOK
        <4>2. \A s \in Runs : (Told(s, l)' <=> Told(s, l)) /\ Eis!Held(s)' = Eis!Held(s)
          BY <2>3, <2>6, <2>8, <2>9, <3>3
        <4>3. QED
          BY <2>2, <3>1, <4>1, <4>2 DEF RowInv
      <3>4. QED
        BY <3>2, <3>3
    <2>11. QED
      BY <1>1, <2>7, <2>10 DEF EisInv
  <1>5. ASSUME NEW r \in Runs, Eis!Save(r)
        PROVE  EisInv'
    <2> DEFINE c == run[r].copy
               x == IF run[r].todo = {} THEN Eis!Idle ELSE [stage |-> "submit", todo |-> run[r].todo]
               row == IF run[r].success THEN [status |-> "VAL", retries |-> c.retries]
                      ELSE [status |-> IF Eis!GivenUp(c.retries + 1) THEN "FAIL" ELSE "OFFQ",
                            retries |-> c.retries + 1]
    <2>1. /\ run[r].stage = "save" /\ log' = [log EXCEPT ![c.log] = row]
          /\ run' = [run EXCEPT ![r] = x] /\ UNCHANGED <<faults, accepted, troubled>>
      BY <1>5 DEF Eis!Save
    <2>2. run[r].success => row.status = "VAL"
      OBVIOUS
    <2> HIDE DEF x, row
    <2>3. /\ run'[r] = x
          /\ \A s \in Runs : s # r =>
               /\ run'[s] = run[s] /\ Eis!Held(s)' = Eis!Held(s)
               /\ \A l : Told(s, l)' <=> Told(s, l)
      BY <1>1, <2>1, OtherRuns
    <2>4. Eis!Held(r) = {k.log : k \in run[r].todo} \cup {c.log}
      BY <2>1 DEF Eis!Held
    <2>5. Eis!Held(r)' = {k.log : k \in run[r].todo} /\ \A l : ~Told(r, l)'
      <3>1. CASE run[r].todo = {}
        <4>1. run'[r].stage = "idle"
          BY <2>3, <3>1 DEF x, Eis!Idle
        <4>2. QED
          BY <3>1, <4>1 DEF Eis!Held, Told
      <3>2. CASE run[r].todo # {}
        <4>1. run'[r].stage = "submit" /\ run'[r].todo = run[r].todo
          BY <2>3, <3>2 DEF x
        <4>2. QED
          BY <4>1 DEF Eis!Held, Told
      <3>3. QED
        BY <3>1, <3>2
    <2>6. c.log \in Logs /\ c.log \notin Eis!Held(r)'
      <3>1. c.log \in Logs
        BY <1>1, <2>1 DEF Eis!TypeOK, Eis!Run, Eis!Idle, Eis!Todo
      <3>2. QED
        BY <2>1, <2>5, <3>1 DEF EisInv, OneCopy
    <2>7. OneCopy(r)'
      <3>1. CASE run[r].todo = {}
        BY <2>3, <3>1 DEF x, Eis!Idle, OneCopy
      <3>2. CASE run[r].todo # {}
        <4>1. run'[r].stage = "submit" /\ run'[r].todo = run[r].todo
          BY <2>3, <3>2 DEF x
        <4>2. QED
          BY <2>1, <4>1 DEF EisInv, OneCopy
      <3>3. QED
        BY <3>1, <3>2
    <2>8. \A s \in Runs : OneCopy(s)'
      BY <2>3, <2>7 DEF EisInv, OneCopy
    <2>9. ASSUME NEW l \in Logs, l \notin troubled'
          PROVE  RowInv(l)'
      <3>1. RowInv(l)
        BY <2>1, <2>9 DEF EisInv
      <3>2. CASE l = c.log
        <4>1. /\ l \in Eis!Held(r) /\ \A s \in Runs : s # r => l \notin Eis!Held(s)
          BY <2>4, <3>1, <3>2 DEF RowInv
        <4>2. \A s \in Runs : l \notin Eis!Held(s)'
          BY <2>3, <2>6, <3>2, <4>1
        <4>3. accepted[l] = 1 => run[r].success
          BY <2>1, <3>1, <4>1 DEF RowInv, Told
        <4>4. log'[l] = row
          BY <1>1, <2>1, <2>6, <3>2 DEF Eis!TypeOK
        <4>5. QED
          BY <2>1, <2>2, <3>1, <4>2, <4>3, <4>4 DEF RowInv
      <3>3. CASE l # c.log
        <4>1. log'[l] = log[l] /\ (l \in Eis!Held(r)' <=> l \in Eis!Held(r)) /\ ~Told(r, l)
          BY <1>1, <2>1, <2>4, <2>5, <3>3 DEF Eis!TypeOK, Told
        <4>2. QED
          BY <2>1, <2>3, <2>5, <3>1, <4>1 DEF RowInv
      <3>4. QED
        BY <3>2, <3>3
    <2>10. QED
      BY <1>1, <2>8, <2>9 DEF EisInv
  <1>6. ASSUME NEW r \in Runs, Eis!Dies(r)
        PROVE  EisInv'
    <2>1. /\ troubled' = troubled \cup (IF run[r].stage = "save" THEN {run[r].copy.log} ELSE {})
          /\ run' = [run EXCEPT ![r] = Eis!Idle] /\ UNCHANGED <<log, accepted>>
      BY <1>6 DEF Eis!Dies
    <2>2. /\ run'[r] = Eis!Idle
          /\ \A s \in Runs : s # r =>
               /\ run'[s] = run[s] /\ Eis!Held(s)' = Eis!Held(s)
               /\ \A l : Told(s, l)' <=> Told(s, l)
      BY <1>1, <2>1, OtherRuns
    <2>3. Eis!Held(r)' = {} /\ OneCopy(r)'
      BY <2>2 DEF Eis!Held, Eis!Idle, OneCopy
    <2>4. \A s \in Runs : OneCopy(s)'
      BY <2>2, <2>3 DEF EisInv, OneCopy
    <2>5. ASSUME NEW l \in Logs, l \notin troubled'
          PROVE  RowInv(l)'
      <3>1. RowInv(l) /\ ~Told(r, l)
        BY <2>1, <2>5 DEF EisInv, Told
      <3>2. l \in Eis!Held(r) => accepted[l] = 0
        BY <3>1 DEF RowInv
      <3>3. QED
        BY <2>1, <2>2, <2>3, <3>1, <3>2 DEF RowInv
    <2>6. QED
      BY <1>1, <2>4, <2>5 DEF EisInv
  <1>7. ASSUME NEW k \in Logs, Eis!Requeue(k)
        PROVE  EisInv'
    <2>1. /\ log[k].status = "FAIL" /\ UNCHANGED <<run, accepted, troubled>>
          /\ \A l \in Logs : l # k => log'[l] = log[l]
      BY <1>1, <1>7 DEF Eis!Requeue, Eis!TypeOK
    <2>2. \A r \in Runs : /\ OneCopy(r)' /\ Eis!Held(r)' = Eis!Held(r)
                          /\ \A l : Told(r, l)' <=> Told(r, l)
      BY <2>1 DEF EisInv, OneCopy, Eis!Held, Told
    <2>3. ASSUME NEW l \in Logs, l \notin troubled'
          PROVE  RowInv(l)'
      <3>1. RowInv(l)
        BY <2>1, <2>3 DEF EisInv
      <3>2. l = k => accepted[l] # 1 /\ \A r \in Runs : l \notin Eis!Held(r)
        BY <2>1, <3>1 DEF RowInv
      <3>3. QED
        BY <2>1, <2>2, <3>1, <3>2 DEF RowInv
    <2>4. QED
      BY <1>1, <2>2, <2>3 DEF EisInv
  <1>8. QED
    BY <1>2, <1>3, <1>4, <1>5, <1>6, <1>7 DEF Eis!Next

(* An invoice is submitted to the authority once, and its row says so,     *)
(* unless two runs had it, an answer was lost or a run died before saving. *)
THEOREM InvoicesGoOnce == Spec => []SubmittedOnce
  <1>1. Init => EisInv
    BY PartsStart, EisInvStart, IntegrationsAssumption DEF IntegrationsAssumption
  <1>2. EisInv /\ [Next]_vars => EisInv'
    BY PartsMove, EisInvStep, IntegrationsAssumption DEF IntegrationsAssumption
  <1>3. EisInv => SubmittedOnce
    BY DEF EisInv, RowInv, SubmittedOnce, Eis!SubmittedOnce
  <1>4. QED
    BY <1>1, <1>2, <1>3, PTL DEF Spec

-----------------------------------------------------------------------------
(* Exchange rates.                                                         *)

(* Unless something went wrong since the last good refresh, the one that   *)
(* is between its statements is alone and has left no row open, and        *)
(* otherwise the newest row is the open one.                               *)
RatesInv ==
  /\ Rates!TypeOK
  /\ ~disturbed =>
       /\ \A f \in Refreshes : refresh[f] = "create" =>
            /\ open = {}
            /\ \A g \in Refreshes : refresh[g] = "create" => g = f
       /\ rows > 0 /\ (\A f \in Refreshes : refresh[f] # "create") => open = {rows}

LEMMA RatesStep ==
  ASSUME Rates!RatesAssumption, RatesInv, [Rates!Next]_rates
  PROVE  RatesInv'
  <1>1. Rates!TypeOK'
    BY RatesTypes DEF RatesInv
  <1> USE DEF RatesInv, Rates!TypeOK
  <1>2. CASE UNCHANGED rates
    BY <1>2 DEF rates
  <1>3. ASSUME NEW f \in Refreshes, Rates!Ask(f)
        PROVE  RatesInv'
    BY <1>1, <1>3 DEF Rates!Ask
  <1>4. ASSUME NEW f \in Refreshes, Rates!NoAnswer(f)
        PROVE  RatesInv'
    BY <1>1, <1>4 DEF Rates!NoAnswer
  <1>5. ASSUME NEW f \in Refreshes, Rates!Close(f)
        PROVE  RatesInv'
    <2>1. ~disturbed' => \A g \in Refreshes : g # f => refresh[g] # "create"
      BY <1>5 DEF Rates!Close, Rates!InFlight
    <2>2. /\ open' = {} /\ refresh'[f] = "create"
          /\ \A g \in Refreshes : g # f => refresh'[g] = refresh[g]
      BY <1>5 DEF Rates!Close
    <2>3. QED
      BY <1>1, <2>1, <2>2
  <1>6. ASSUME NEW f \in Refreshes, Rates!Create(f)
        PROVE  RatesInv'
    <2>1. /\ refresh[f] = "create" /\ refresh'[f] = "idle"
          /\ \A g \in Refreshes : g # f => refresh'[g] = refresh[g]
      BY <1>6 DEF Rates!Create
    <2>2. rows' = rows + 1 /\ open' = open \cup {rows + 1} /\ disturbed' = disturbed
      BY <1>6 DEF Rates!Create
    <2>3. ~disturbed => open' = {rows'} /\ \A g \in Refreshes : refresh'[g] # "create"
      BY <2>1, <2>2
    <2>4. QED
      BY <1>1, <2>2, <2>3
  <1>7. ASSUME NEW f \in Refreshes, Rates!Fails(f)
        PROVE  RatesInv'
    BY <1>1, <1>7 DEF Rates!Fails
  <1>8. QED
    BY <1>2, <1>3, <1>4, <1>5, <1>6, <1>7 DEF Rates!Next

(* Between refreshes there is one current exchange rate, unless the last   *)
(* refreshes overlapped or failed half-way.                                *)
THEOREM OneRate == Spec => []OneCurrentRate
  <1>1. Init => RatesInv
    <2>1. Init => Rates!Init /\ Rates!TypeOK
      BY PartsStart, RatesStart, IntegrationsAssumption DEF IntegrationsAssumption
    <2>2. Rates!Init => rows = 0 /\ \A f \in Refreshes : refresh[f] = "idle"
      BY DEF Rates!Init
    <2>3. QED
      BY <2>1, <2>2 DEF RatesInv, Rates!TypeOK
  <1>2. RatesInv /\ [Next]_vars => RatesInv'
    BY PartsMove, RatesStep, IntegrationsAssumption DEF IntegrationsAssumption
  <1>3. RatesInv => OneCurrentRate
    BY SameCardinality, FS_Singleton DEF RatesInv, OneCurrentRate, Rates!OneCurrentRate
  <1>4. QED
    BY <1>1, <1>2, <1>3, PTL DEF Spec

-----------------------------------------------------------------------------
(* Workspaces and members.                                                 *)

(* A process that is completing the signup of a person, or about to make   *)
(* them a member.                                                          *)
Waits(d, p) == desk[d].kind \in {"complete", "join"} /\ desk[d].who = p

Joining(d, n) == desk[d].kind = "join" /\ desk[d].name = n

(* Who takes part has an account, and a tenant that is edited is there.    *)
KnownUsers ==
  /\ \A p \in People : at[p] = "public" => p \in users
  /\ \A p \in People, n \in Names : member[<<p, n>>] # "none" => p \in users
  /\ \A d \in Desks, p \in People : Waits(d, p) => p \in users
  /\ \A d \in Desks : desk[d].kind = "edit" => tenant[desk[d].name] # "none"

Manned(n) ==
  \/ tenant[n] = "none" \/ n \in unmanned
  \/ \E d \in Desks : Joining(d, n)
  \/ \E p \in users : member[<<p, n>>] # "none"

(* A person who did not complete two signups at once has one at most, and  *)
(* no tenant until it is completed.                                        *)
OneHome(p) ==
  /\ \A d, e \in Desks : Waits(d, p) /\ Waits(e, p) => d = e
  /\ \A d \in Desks, n \in Names : Waits(d, p) => member[<<p, n>>] = "none"
  /\ \A m, n \in Names : member[<<p, m>>] # "none" /\ member[<<p, n>>] # "none" => m = n

SitesInv ==
  /\ Sites!TypeOK /\ KnownUsers
  /\ \A n \in Names : Manned(n)
  /\ \A p \in People \ doubled : OneHome(p)

LEMMA SitesInvStart ==
  ASSUME Sites!Init
  PROVE  SitesInv
  <1>1. Sites!TypeOK
    BY SitesStart
  <1>2. \A d \in Desks : desk[d].kind = "idle"
    BY DEF Sites!Init, Sites!Idle
  <1>3. KnownUsers
    BY <1>2 DEF Sites!Init, KnownUsers, Waits
  <1>4. \A n \in Names : Manned(n)
    BY DEF Sites!Init, Manned
  <1>5. \A p \in People : OneHome(p)
    BY <1>2 DEF Sites!Init, OneHome, Waits
  <1>6. QED
    BY <1>1, <1>3, <1>4, <1>5 DEF SitesInv

(* One process moves.                                                      *)
LEMMA DeskMoves ==
  ASSUME Sites!TypeOK, NEW d \in Desks, NEW r, desk' = [desk EXCEPT ![d] = r]
  PROVE  /\ desk'[d] = r
         /\ \A e \in Desks : e # d => desk'[e] = desk[e]
         /\ \A e \in Desks : e # d => \A p : Waits(e, p)' <=> Waits(e, p)
         /\ \A e \in Desks : e # d => \A n : Joining(e, n)' <=> Joining(e, n)
  <1>1. desk'[d] = r /\ \A e \in Desks : e # d => desk'[e] = desk[e]
    BY DEF Sites!TypeOK
  <1>2. QED
    BY <1>1 DEF Waits, Joining

LEMMA DeskIdles ==
  ASSUME Sites!TypeOK, NEW d \in Desks, Sites!Ends(d)
  PROVE  /\ desk'[d].kind = "idle"
         /\ \A e \in Desks : e # d => desk'[e] = desk[e]
         /\ \A p : ~Waits(d, p)' /\ \A n : ~Joining(d, n)'
         /\ \A e \in Desks : e # d => \A p : Waits(e, p)' <=> Waits(e, p)
         /\ \A e \in Desks : e # d => \A n : Joining(e, n)' <=> Joining(e, n)
  <1>1. desk' = [desk EXCEPT ![d] = Sites!Idle]
    BY DEF Sites!Ends
  <1>2. desk'[d] = Sites!Idle /\ Sites!Idle.kind = "idle"
    BY <1>1, DeskMoves DEF Sites!Idle
  <1>3. QED
    BY <1>1, <1>2, DeskMoves DEF Waits, Joining

(* Whatever changes, a tenant that is edited stays.                        *)
LEMMA EditsStay ==
  ASSUME SitesInv, \A e \in Desks : desk'[e].kind = "edit" => desk'[e] = desk[e],
         \A e \in Desks : desk'[e].kind = "edit" /\ tenant[desk[e].name] # "none"
                           => tenant'[desk[e].name] # "none"
  PROVE  \A e \in Desks : desk'[e].kind = "edit" => tenant'[desk'[e].name] # "none"
  <1> SUFFICES ASSUME NEW e \in Desks, desk'[e].kind = "edit"
               PROVE  tenant'[desk'[e].name] # "none"
    OBVIOUS
  <1>1. desk'[e] = desk[e] /\ desk[e].kind = "edit"
    OBVIOUS
  <1>2. tenant[desk[e].name] # "none"
    BY <1>1 DEF SitesInv, KnownUsers
  <1>3. tenant'[desk[e].name] # "none"
    BY <1>2
  <1>4. QED
    BY <1>1, <1>3

(* A process begins something that makes nobody a member.                  *)
LEMMA FetchStep ==
  ASSUME SitesInv, NEW d \in Desks, NEW n \in Names,
         \/ Sites!FetchCreate(d, n) \/ Sites!FetchEdit(d, n)
         \/ \E p \in People : Sites!FetchSignup(d, p, n)
  PROVE  SitesInv'
  <1>1. Sites!TypeOK /\ Sites!TypeOK'
    BY FetchesType DEF SitesInv
  <1>2. desk[d] = Sites!Idle /\ UNCHANGED <<tenant, users, member, at, unmanned, doubled>>
    BY DEF Sites!FetchCreate, Sites!FetchEdit, Sites!FetchSignup
  <1>3. PICK r \in [kind : {"signup"}, who : People, name : Names]
                     \cup [kind : {"create"}, name : Names]
                     \cup [kind : {"edit"}, name : {n}, is_active : {"active", "inactive"}] :
          /\ desk' = [desk EXCEPT ![d] = r]
          /\ r.kind = "edit" => tenant[n] # "none" /\ r.name = n
    BY <1>1 DEF Sites!FetchCreate, Sites!FetchEdit, Sites!FetchSignup, Sites!Starts,
                Sites!TypeOK, Sites!TenantState
  <1>4. r.kind \in {"signup", "create", "edit"} /\ desk[d].kind = "idle"
    BY <1>2 DEF Sites!Idle
  <1>5. /\ desk'[d] = r
        /\ \A e \in Desks : e # d => desk'[e] = desk[e]
        /\ \A e \in Desks, p \in People : Waits(e, p)' <=> Waits(e, p)
        /\ \A e \in Desks, m \in Names : Joining(e, m)' <=> Joining(e, m)
    <2>1. /\ desk'[d] = r /\ \A e \in Desks : e # d => desk'[e] = desk[e]
          /\ \A e \in Desks : e # d => \A q : Waits(e, q)' <=> Waits(e, q)
          /\ \A e \in Desks : e # d => \A m : Joining(e, m)' <=> Joining(e, m)
      BY <1>1, <1>3, DeskMoves
    <2>2. /\ \A q : ~Waits(d, q)' /\ ~Waits(d, q)
          /\ \A m : ~Joining(d, m)' /\ ~Joining(d, m)
      BY <1>4, <2>1 DEF Waits, Joining
    <2>3. QED
      BY <2>1, <2>2
  <1>6. KnownUsers'
    BY <1>2, <1>3, <1>4, <1>5 DEF SitesInv, KnownUsers
  <1>7. \A m \in Names : Manned(m)'
    BY <1>2, <1>5 DEF SitesInv, Manned
  <1>8. \A p \in People \ doubled' : OneHome(p)'
    BY <1>2, <1>5 DEF SitesInv, OneHome
  <1>9. QED
    BY <1>1, <1>6, <1>7, <1>8 DEF SitesInv

LEMMA FetchCompleteStep ==
  ASSUME SitesInv, NEW d \in Desks, NEW n \in Names, NEW p \in People, Sites!FetchComplete(d, p, n)
  PROVE  SitesInv'
  <1> DEFINE r == [kind |-> "complete", who |-> p, name |-> n]
  <1>1. Sites!TypeOK /\ Sites!TypeOK'
    BY FetchesType DEF SitesInv
  <1>2. /\ desk[d] = Sites!Idle /\ UNCHANGED <<tenant, users, member, at, unmanned>>
        /\ at[p] = "public" /\ Sites!Memberships(p) = {}
        /\ doubled' = IF Sites!Completing(d, p) THEN doubled \cup {p} ELSE doubled
        /\ desk' = [desk EXCEPT ![d] = r]
    BY DEF Sites!FetchComplete, Sites!Starts
  <1>3. desk[d].kind = "idle" /\ r.kind = "complete" /\ r.who = p
    BY <1>2 DEF Sites!Idle
  <1> HIDE DEF r
  <1>4. /\ desk'[d] = r
        /\ \A e \in Desks : e # d => desk'[e] = desk[e]
        /\ \A e \in Desks, q \in People : Waits(e, q)' <=> Waits(e, q) \/ (e = d /\ q = p)
        /\ \A e \in Desks, m \in Names : Joining(e, m)' <=> Joining(e, m)
    <2>1. /\ desk'[d] = r /\ \A e \in Desks : e # d => desk'[e] = desk[e]
          /\ \A e \in Desks : e # d => \A q : Waits(e, q)' <=> Waits(e, q)
          /\ \A e \in Desks : e # d => \A m : Joining(e, m)' <=> Joining(e, m)
      BY <1>1, <1>2, DeskMoves
    <2>2. /\ \A q : (Waits(d, q)' <=> q = p) /\ ~Waits(d, q)
          /\ \A m : ~Joining(d, m)' /\ ~Joining(d, m)
      BY <1>3, <2>1 DEF Waits, Joining
    <2>3. QED
      BY <2>1, <2>2
  <1>5. KnownUsers'
    BY <1>2, <1>3, <1>4 DEF SitesInv, KnownUsers
  <1>6. \A m \in Names : Manned(m)'
    BY <1>2, <1>4 DEF SitesInv, Manned
  <1>7. p \notin doubled' => \A e \in Desks : ~Waits(e, p)
    BY <1>2, <1>3 DEF Sites!Completing, Waits
  <1>8. \A m \in Names : member[<<p, m>>] = "none"
    BY <1>2 DEF Sites!Memberships
  <1>9. ASSUME NEW q \in People \ doubled'
        PROVE  OneHome(q)'
    BY <1>2, <1>4, <1>7, <1>8 DEF SitesInv, OneHome
  <1>10. QED
    BY <1>1, <1>5, <1>6, <1>9 DEF SitesInv

LEMMA ProvisionStep ==
  ASSUME SitesInv, NEW d \in Desks, Sites!Provision(d)
  PROVE  SitesInv'
  <1> DEFINE w == desk[d].who
             n == desk[d].name
  <1>1. Sites!TypeOK /\ Sites!TypeOK'
    BY SubmitsType DEF SitesInv
  <1>2. w \in People /\ n \in Names /\ desk[d].kind = "signup" /\ w \notin users
    BY <1>1, DeskFields DEF Sites!Provision
  <1>3. /\ tenant' = [tenant EXCEPT ![n] = "active"] /\ users' = users \cup {w}
        /\ member' = [member EXCEPT ![<<w, n>>] = "active"]
        /\ UNCHANGED <<at, unmanned, doubled>> /\ Sites!Ends(d)
    BY DEF Sites!Provision
  <1> HIDE DEF w, n
  <1>4. /\ member'[<<w, n>>] = "active"
        /\ \A p \in People, m \in Names : p # w \/ m # n => member'[<<p, m>>] = member[<<p, m>>]
        /\ \A m \in Names : tenant'[m] = IF m = n THEN "active" ELSE tenant[m]
    BY <1>1, <1>2, <1>3 DEF Sites!TypeOK
  <1>5. /\ \A e \in Desks, q \in People : Waits(e, q)' <=> Waits(e, q)
        /\ \A e \in Desks, m \in Names : Joining(e, m)' <=> Joining(e, m)
        /\ desk'[d].kind = "idle" /\ \A e \in Desks : e # d => desk'[e] = desk[e]
    BY <1>1, <1>2, <1>3, DeskIdles DEF Waits, Joining
  <1>6. \A m \in Names : member[<<w, m>>] = "none"
    BY <1>2 DEF SitesInv, KnownUsers
  <1>7. KnownUsers'
    <2>1. \A e \in Desks : desk'[e].kind = "edit" => tenant'[desk'[e].name] # "none"
      <3>1. \A e \in Desks : desk'[e].kind = "edit" =>
              desk'[e] = desk[e] /\ desk[e].name \in Names
        BY <1>1, <1>5, DeskFields
      <3>2. QED
        BY <1>4, <3>1, EditsStay
    <2>2. QED
      BY <1>3, <1>4, <1>5, <2>1 DEF SitesInv, KnownUsers
  <1>8. \A m \in Names : Manned(m)'
    <2>1. ASSUME NEW m \in Names, m = n
          PROVE  Manned(m)'
      <3>1. w \in users' /\ member'[<<w, m>>] # "none"
        BY <1>3, <1>4, <2>1
      <3>2. QED
        BY <3>1, Zenon DEF Manned
    <2>2. ASSUME NEW m \in Names, m # n
          PROVE  Manned(m)'
      <3>1. Manned(m) /\ users \subseteq People
        BY <1>1 DEF SitesInv, Sites!TypeOK
      <3>2. QED
        BY <1>3, <1>4, <1>5, <2>2, <3>1 DEF Manned
    <2>3. QED
      BY <2>1, <2>2
  <1>9. ASSUME NEW p \in People \ doubled'
        PROVE  OneHome(p)'
    <2>1. OneHome(p) /\ p \in People
      BY <1>3 DEF SitesInv
    <2>2. CASE p = w
      <3>1. \A e \in Desks : ~Waits(e, p)
        BY <1>2, <2>2 DEF SitesInv, KnownUsers
      <3>2. QED
        BY <1>2, <1>4, <1>5, <1>6, <2>2, <3>1 DEF OneHome
    <2>3. CASE p # w
      BY <1>4, <1>5, <2>1, <2>3 DEF OneHome
    <2>4. QED
      BY <2>2, <2>3
  <1>10. QED
    BY <1>1, <1>7, <1>8, <1>9 DEF SitesInv

LEMMA ProvisionBareStep ==
  ASSUME SitesInv, NEW d \in Desks, Sites!ProvisionBare(d)
  PROVE  SitesInv'
  <1> DEFINE n == desk[d].name
             r == [desk[d] EXCEPT !.kind = "join"]
  <1>1. Sites!TypeOK /\ Sites!TypeOK'
    BY SubmitsType DEF SitesInv
  <1>2. n \in Names /\ desk[d].kind \in {"complete", "create"}
    BY <1>1, DeskFields DEF Sites!ProvisionBare
  <1>3. /\ tenant' = [tenant EXCEPT ![n] = "active"] /\ UNCHANGED <<users, member, at, doubled>>
        /\ \/ desk[d].kind = "complete" /\ desk' = [desk EXCEPT ![d] = r] /\ unmanned' = unmanned
           \/ desk[d].kind = "create" /\ Sites!Ends(d) /\ unmanned' = unmanned \cup {n}
    BY <1>2 DEF Sites!ProvisionBare, Sites!Starts
  <1>4. \A m \in Names : tenant'[m] = IF m = n THEN "active" ELSE tenant[m]
    BY <1>1, <1>2, <1>3 DEF Sites!TypeOK
  <1>5. /\ desk'[d].kind # "edit" /\ \A e \in Desks : e # d => desk'[e] = desk[e]
        /\ \A e \in Desks, q \in People : Waits(e, q)' <=> Waits(e, q)
        /\ \A e \in Desks, m \in Names : Joining(e, m) => Joining(e, m)'
        /\ \A m \in Names : m = n => Joining(d, m)' \/ m \in unmanned'
    <2>1. CASE desk[d].kind = "complete" /\ desk' = [desk EXCEPT ![d] = r]
      <3>1. r.kind = "join" /\ r.who = desk[d].who /\ r.name = n
        BY <1>1, <2>1, DeskFields
      <3> HIDE DEF r, n
      <3>2. QED
        <4>1. /\ desk'[d] = r /\ \A e \in Desks : e # d => desk'[e] = desk[e]
              /\ \A e \in Desks : e # d => \A q : Waits(e, q)' <=> Waits(e, q)
              /\ \A e \in Desks : e # d => \A m : Joining(e, m)' <=> Joining(e, m)
          BY <1>1, <2>1, DeskMoves
        <4>2. /\ \A q : Waits(d, q)' <=> Waits(d, q)
              /\ \A m : (Joining(d, m)' <=> m = n) /\ ~Joining(d, m)
          BY <2>1, <3>1, <4>1 DEF Waits, Joining
        <4>3. desk'[d].kind # "edit"
          BY <3>1, <4>1
        <4>4. QED
          BY <4>1, <4>2, <4>3
    <2>2. CASE desk[d].kind = "create" /\ Sites!Ends(d) /\ unmanned' = unmanned \cup {n}
      BY <1>1, <2>2, DeskIdles DEF Waits, Joining
    <2>3. QED
      BY <1>3, <2>1, <2>2
  <1>6. unmanned \subseteq unmanned'
    BY <1>3
  <1> HIDE DEF n, r
  <1>7. KnownUsers'
    <2>1. \A e \in Desks : desk'[e].kind = "edit" => tenant'[desk'[e].name] # "none"
      <3>1. \A e \in Desks : desk'[e].kind = "edit" =>
              desk'[e] = desk[e] /\ desk[e].name \in Names
        BY <1>1, <1>5, DeskFields
      <3>2. QED
        BY <1>4, <3>1, EditsStay
    <2>2. QED
      BY <1>3, <1>5, <2>1 DEF SitesInv, KnownUsers
  <1>8. ASSUME NEW m \in Names
        PROVE  Manned(m)'
    <2>1. CASE m = n
      <3>1. CASE Joining(d, m)'
        BY <3>1 DEF Manned
      <3>2. CASE m \in unmanned'
        BY <3>2 DEF Manned
      <3>3. QED
        BY <1>5, <2>1, <3>1, <3>2
    <2>2. CASE m # n
      BY <1>3, <1>4, <1>5, <1>6, <2>2 DEF SitesInv, Manned
    <2>3. QED
      BY <2>1, <2>2
  <1>9. \A p \in People \ doubled' : OneHome(p)'
    BY <1>3, <1>5 DEF SitesInv, OneHome
  <1>10. QED
    BY <1>1, <1>7, <1>8, <1>9 DEF SitesInv

LEMMA JoinStep ==
  ASSUME SitesInv, NEW d \in Desks, Sites!Join(d)
  PROVE  SitesInv'
  <1> DEFINE w == desk[d].who
             n == desk[d].name
  <1>1. Sites!TypeOK /\ Sites!TypeOK'
    BY SubmitsType DEF SitesInv
  <1>2. w \in People /\ n \in Names /\ Waits(d, w) /\ \A p \in People : Waits(d, p) => p = w
    BY <1>1, DeskFields DEF Sites!Join, Waits
  <1>3. /\ member' = [member EXCEPT ![<<w, n>>] = "active"] /\ Sites!Ends(d)
        /\ UNCHANGED <<tenant, users, at, unmanned, doubled>>
    BY DEF Sites!Join
  <1>4. \A m \in Names : Joining(d, m) => m = n
    BY DEF Joining
  <1>5. w \in users
    BY <1>2 DEF SitesInv, KnownUsers
  <1> HIDE DEF w, n
  <1>6. /\ member'[<<w, n>>] = "active"
        /\ \A p \in People, m \in Names : p # w \/ m # n => member'[<<p, m>>] = member[<<p, m>>]
    BY <1>1, <1>2, <1>3 DEF Sites!TypeOK
  <1>7. /\ \A e \in Desks, q \in People : Waits(e, q)' => Waits(e, q) /\ e # d
        /\ \A e \in Desks, m \in Names : Joining(e, m) => Joining(e, m)' \/ e = d
        /\ desk'[d].kind = "idle" /\ \A e \in Desks : e # d => desk'[e] = desk[e]
    BY <1>1, <1>3, DeskIdles
  <1>8. KnownUsers'
    BY <1>3, <1>5, <1>6, <1>7 DEF SitesInv, KnownUsers
  <1>9. ASSUME NEW m \in Names
        PROVE  Manned(m)'
    <2>1. Manned(m) /\ users \subseteq People
      BY <1>1 DEF SitesInv, Sites!TypeOK
    <2>2. QED
      BY <1>2, <1>3, <1>4, <1>5, <1>6, <1>7, <2>1 DEF Manned
  <1>10. ASSUME NEW p \in People \ doubled'
         PROVE  OneHome(p)'
    <2>1. OneHome(p) /\ p \in People
      BY <1>3 DEF SitesInv
    <2>2. QED
      BY <1>2, <1>6, <1>7, <2>1 DEF OneHome
  <1>11. QED
    BY <1>1, <1>8, <1>9, <1>10 DEF SitesInv

(* A process ends without making anybody a member.                         *)
LEMMA EndStep ==
  ASSUME SitesInv, NEW d \in Desks, Sites!Refused(d) \/ Sites!Dies(d) \/ Sites!SaveEdit(d)
  PROVE  SitesInv'
  <1>1. Sites!TypeOK /\ Sites!TypeOK'
    BY SubmitsType DEF SitesInv
  <1>2. Sites!Ends(d) /\ UNCHANGED <<users, member, at, doubled>> /\ unmanned \subseteq unmanned'
    BY DEF Sites!Refused, Sites!Dies, Sites!SaveEdit
  <1>3. \A n \in Names : Joining(d, n) => n \in unmanned'
    BY DEF Sites!Refused, Sites!Dies, Sites!SaveEdit, Joining
  <1>4. \A n \in Names : tenant'[n] = "none" <=> tenant[n] = "none"
    <2>1. CASE Sites!SaveEdit(d)
      BY <1>1, <2>1, DeskFields DEF Sites!SaveEdit, Sites!TypeOK, SitesInv, KnownUsers
    <2>2. CASE tenant' = tenant
      BY <2>2
    <2>3. QED
      BY <2>1, <2>2 DEF Sites!Refused, Sites!Dies
  <1>5. /\ \A e \in Desks, q \in People : Waits(e, q)' => Waits(e, q)
        /\ \A e \in Desks, m \in Names : Joining(e, m) => Joining(e, m)' \/ e = d
        /\ desk'[d].kind = "idle" /\ \A e \in Desks : e # d => desk'[e] = desk[e]
    BY <1>1, <1>2, DeskIdles
  <1>6. KnownUsers'
    <2>1. \A e \in Desks : desk'[e].kind = "edit" => tenant'[desk'[e].name] # "none"
      <3>1. \A e \in Desks : desk'[e].kind = "edit" =>
              desk'[e] = desk[e] /\ desk[e].name \in Names
        BY <1>1, <1>5, DeskFields
      <3>2. QED
        BY <1>4, <3>1, EditsStay
    <2>2. QED
      BY <1>2, <1>5, <2>1 DEF SitesInv, KnownUsers
  <1>7. \A m \in Names : Manned(m)'
    BY <1>2, <1>3, <1>4, <1>5 DEF SitesInv, Manned
  <1>8. \A p \in People \ doubled' : OneHome(p)'
    BY <1>2, <1>5 DEF SitesInv, OneHome
  <1>9. QED
    BY <1>1, <1>6, <1>7, <1>8 DEF SitesInv

LEMMA DeleteStep ==
  ASSUME SitesInv, NEW n \in Names, Sites!Delete(n)
  PROVE  SitesInv'
  <1>1. Sites!TypeOK /\ Sites!TypeOK'
    BY SitesTypes DEF SitesInv, Sites!Next
  <1>2. /\ \A m \in Names : tenant'[m] = IF m = n THEN "none" ELSE tenant[m]
        /\ \A p \in People, m \in Names :
             member'[<<p, m>>] = IF m = n THEN "none" ELSE member[<<p, m>>]
        /\ \A p \in People : at'[p] = "public" => at[p] = "public"
        /\ \A m \in Names : m # n /\ m \in unmanned => m \in unmanned'
        /\ UNCHANGED <<users, doubled>>
    BY <1>1 DEF Sites!Delete, Sites!TypeOK
  <1>3. \A d \in Desks :
          desk'[d] = IF desk[d].kind \in {"join", "edit"} /\ desk[d].name = n
                     THEN Sites!Idle ELSE desk[d]
    BY DEF Sites!Delete
  <1>4. Sites!Idle.kind = "idle"
    BY DEF Sites!Idle
  <1>5. /\ \A e \in Desks, q \in People : Waits(e, q)' => Waits(e, q)
        /\ \A e \in Desks, m \in Names : m # n /\ Joining(e, m) => Joining(e, m)'
        /\ \A e \in Desks : desk'[e].kind = "edit" => desk'[e] = desk[e] /\ desk[e].name # n
    BY <1>3, <1>4 DEF Waits, Joining
  <1>6. KnownUsers'
    <2>1. \A e \in Desks : desk'[e].kind = "edit" => tenant'[desk'[e].name] # "none"
      <3>1. \A e \in Desks : desk'[e].kind = "edit" =>
              desk'[e] = desk[e] /\ desk[e].name \in Names /\ desk[e].name # n
        BY <1>1, <1>5, DeskFields
      <3>2. QED
        BY <1>2, <3>1, EditsStay
    <2>2. QED
      BY <1>2, <1>5, <2>1 DEF SitesInv, KnownUsers
  <1>7. ASSUME NEW m \in Names
        PROVE  Manned(m)'
    <2>1. Manned(m) /\ users \subseteq People
      BY <1>1 DEF SitesInv, Sites!TypeOK
    <2>2. QED
      BY <1>2, <1>5, <2>1 DEF Manned
  <1>8. \A p \in People \ doubled' : OneHome(p)'
    BY <1>2, <1>5 DEF SitesInv, OneHome
  <1>9. QED
    BY <1>1, <1>6, <1>7, <1>8 DEF SitesInv

(* The members, and the platform's switch.                                 *)
LEMMA RowStep ==
  ASSUME SitesInv, [Sites!Next]_sites, UNCHANGED <<desk, unmanned, doubled>>,
         users \subseteq users',
         \A n \in Names : tenant'[n] = "none" <=> tenant[n] = "none",
         \A p \in People, n \in Names : member'[<<p, n>>] = "none" <=> member[<<p, n>>] = "none",
         \A p \in People : at'[p] = "public" => at[p] = "public" \/ p \in users'
  PROVE  SitesInv'
  <1>1. Sites!TypeOK /\ Sites!TypeOK'
    BY SitesTypes DEF SitesInv
  <1>2. /\ \A e \in Desks, q \in People : Waits(e, q)' <=> Waits(e, q)
        /\ \A e \in Desks, m \in Names : Joining(e, m)' <=> Joining(e, m)
    BY DEF Waits, Joining
  <1>3. KnownUsers'
    <2>1. \A e \in Desks : desk'[e].kind = "edit" => tenant'[desk'[e].name] # "none"
      BY <1>1, DeskFields DEF SitesInv, KnownUsers
    <2>2. QED
      BY <1>2, <2>1 DEF SitesInv, KnownUsers
  <1>4. ASSUME NEW m \in Names
        PROVE  Manned(m)'
    <2>1. Manned(m) /\ users \subseteq People
      BY <1>1 DEF SitesInv, Sites!TypeOK
    <2>2. QED
      BY <1>2, <2>1 DEF Manned
  <1>5. \A p \in People \ doubled' : OneHome(p)'
    BY <1>2 DEF SitesInv, OneHome
  <1>6. QED
    BY <1>1, <1>3, <1>4, <1>5 DEF SitesInv

LEMMA SitesInvStep ==
  ASSUME SitesInv, [Sites!Next]_sites
  PROVE  SitesInv'
  <1> USE DEF SitesInv, Sites!TypeOK
  <1>1. CASE UNCHANGED sites
    BY <1>1, RowStep DEF sites
  <1>2. ASSUME NEW n \in Names, Sites!Deprovision(n) \/ Sites!Reactivate(n)
        PROVE  SitesInv'
    BY <1>2, RowStep DEF Sites!Deprovision, Sites!Reactivate
  <1>3. ASSUME NEW p \in People, Sites!SignIn(p) \/ Sites!Logout(p)
        PROVE  SitesInv'
    BY <1>3, RowStep DEF Sites!SignIn, Sites!Logout
  <1>4. ASSUME NEW p \in People, NEW n \in Names, Sites!Login(p, n)
        PROVE  SitesInv'
    BY <1>4, RowStep DEF Sites!Login
  <1>5. ASSUME NEW p \in People, NEW n \in Names, Sites!SetMembership(p, n)
        PROVE  SitesInv'
    <2>1. \A q \in People, m \in Names : member'[<<q, m>>] = "none" <=> member[<<q, m>>] = "none"
      BY <1>5 DEF Sites!SetMembership
    <2>2. QED
      BY <1>5, <2>1, RowStep DEF Sites!SetMembership
  <1>6. QED
    BY <1>1, <1>2, <1>3, <1>4, <1>5, FetchStep, FetchCompleteStep, ProvisionStep,
       ProvisionBareStep, JoinStep, EndStep, DeleteStep DEF Sites!Next

(* A completed signup leaves one tenant, with its administrator.           *)
THEOREM SignupsAreWhole == Spec => []SignupsMakeOneTenant
  <1>1. Init => SitesInv
    BY PartsStart, SitesInvStart
  <1>2. SitesInv /\ [Next]_vars => SitesInv'
    BY PartsMove, SitesInvStep
  <1>3. SitesInv => SignupsMakeOneTenant
    <2> SUFFICES ASSUME SitesInv
                 PROVE  SignupsMakeOneTenant
      OBVIOUS
    <2>1. \A n \in Names :
            \/ tenant[n] = "none" \/ n \in unmanned
            \/ \E d \in Desks : desk[d].kind = "join" /\ desk[d].name = n
            \/ \E p \in users : member[p, n] # "none"
      BY Zenon DEF SitesInv, Manned, Joining
    <2>2. ASSUME NEW p \in People, p \notin doubled
          PROVE  ~(Cardinality(Sites!Memberships(p)) > 1)
      <3>1. \A m, n \in Sites!Memberships(p) : m = n
        BY <2>2 DEF SitesInv, OneHome, Sites!Memberships
      <3>2. \E x : Sites!Memberships(p) \subseteq {x}
        BY <3>1
      <3>3. Cardinality(Sites!Memberships(p)) \in 0 .. 1
        BY <3>2, AtMostOne
      <3>4. QED
        BY <3>3
    <2>3. \A p \in People : Sites!Cardinality(Sites!Memberships(p)) > 1 => p \in doubled
      BY <2>2, SameCardinality
    <2>4. QED
      BY <2>1, <2>3 DEF SignupsMakeOneTenant, Sites!SignupsMakeOneTenant
  <1>4. QED
    BY <1>1, <1>2, <1>3, PTL DEF Spec
=============================================================================
