----------------------------- MODULE PaymentLedger -----------------------------
(***************************************************************************)
(* One payment reference: the folio payments that carry it, recorded by    *)
(* staff or by the offline sync, and the PayChangu transaction that its    *)
(* webhook deliveries write.  Deliveries are repeated, may contradict each *)
(* other, and run side by side; nothing is locked.                         *)
(***************************************************************************)
EXTENDS Naturals, FiniteSets

CONSTANTS Workers,      \* server processes
          MaxPayments   \* bound: payments recorded under the reference

LedgerAssumption == MaxPayments \in Nat

VARIABLES request,      \* worker -> what it has read
          payments,     \* number of FolioPayment rows with the reference
          txn,          \* the row of PayChanguTransaction
          succeeded,    \* history: whether the row ever said SUCC
          prompt,       \* history: whether a payment was there before the
                        \* first delivery
          raced         \* history: what two requests worked on at once

past == <<succeeded, prompt, raced>>
vars == <<request, payments, txn, past>>

Status == {"none", "PEND", "FAIL", "SUCC"}
Txn == [status : Status, linked : BOOLEAN]
Idle == [kind |-> "idle"]
Request ==
  {Idle} \cup [kind : {"sync"}]
  \cup [kind : {"verified"}, ok : BOOLEAN]
  \cup [kind : {"fail", "link", "save"}, linked : BOOLEAN]

Init ==
  /\ request = [w \in Workers |-> Idle]
  /\ payments = 0
  /\ txn = [status |-> "none", linked |-> FALSE]
  /\ succeeded = FALSE
  /\ prompt = FALSE
  /\ raced = {}

Continues(w, q) == request' = [request EXCEPT ![w] = q]

Others(w, kinds) == {v \in Workers \ {w} : request[v].kind \in kinds}

-----------------------------------------------------------------------------
(* The form: no look at the reference.                                     *)
TakePayment ==
  /\ payments < MaxPayments
  /\ payments' = payments + 1
  /\ raced' = raced \cup {"payment"}
  /\ UNCHANGED <<request, txn, succeeded, prompt>>

FetchSyncBlind(w) ==
  /\ request[w] = Idle
  /\ Continues(w, [kind |-> "sync"])
  /\ UNCHANGED <<payments, txn, past>>

(* handle_folio_payment looks for the reference; a row it finds is the     *)
(* answer, and nothing is written.                                         *)
FetchSync(w) ==
  /\ request[w] = Idle
  /\ payments = 0
  /\ Continues(w, [kind |-> "sync"])
  /\ UNCHANGED <<payments, txn, past>>

SyncPayment(w) ==
  /\ request[w].kind = "sync"
  /\ payments < MaxPayments
  /\ payments' = payments + 1
  /\ raced' = IF Others(w, {"sync"}) = {} THEN raced ELSE raced \cup {"payment"}
  /\ Continues(w, Idle)
  /\ UNCHANGED <<txn, succeeded, prompt>>

-----------------------------------------------------------------------------
(* The webhook.  ok: the payload says successful and the verify call did   *)
(* not raise.                                                              *)

Verify(w) ==
  /\ request[w] = Idle
  /\ \E ok \in BOOLEAN : Continues(w, [kind |-> "verified", ok |-> ok])
  /\ prompt' = IF txn.status = "none" /\ Others(w, {"verified"}) = {}
                 THEN payments > 0 ELSE prompt
  /\ UNCHANGED <<payments, txn, succeeded, raced>>

UpsertAlways(w) ==
  /\ request[w].kind = "verified"
  /\ txn' = IF txn.status = "none" THEN [txn EXCEPT !.status = "PEND"] ELSE txn
  /\ Continues(w, [kind |-> IF request[w].ok THEN "link" ELSE "fail", linked |-> txn.linked])
  /\ UNCHANGED <<payments, past>>

(* get_or_create; a successful transaction is not processed again.         *)
Upsert(w) ==
  /\ request[w].kind = "verified"
  /\ txn' = IF txn.status = "none" THEN [txn EXCEPT !.status = "PEND"] ELSE txn
  /\ Continues(w, IF txn.status = "SUCC" THEN Idle
                  ELSE [kind |-> IF request[w].ok THEN "link" ELSE "fail",
                        linked |-> txn.linked])
  /\ UNCHANGED <<payments, past>>

Raced(w) == IF Others(w, {"fail", "link", "save"}) = {} THEN raced ELSE raced \cup {"txn"}

FailByName(w) ==
  /\ request[w].kind = "fail"
  /\ txn' = [txn EXCEPT !.status = "FAILED"]
  /\ Continues(w, Idle)
  /\ UNCHANGED <<payments, past>>

(* Only the status is written.                                             *)
Fail(w) ==
  /\ request[w].kind = "fail"
  /\ txn' = [txn EXCEPT !.status = "FAIL"]
  /\ raced' = Raced(w)
  /\ Continues(w, Idle)
  /\ UNCHANGED <<payments, succeeded, prompt>>

(* _try_link_to_business_object: without a match the link stays as read.   *)
Link(w) ==
  /\ request[w].kind = "link"
  /\ Continues(w, [kind |-> "save", linked |-> payments > 0 \/ request[w].linked])
  /\ UNCHANGED <<payments, txn, past>>

SaveStatusOnly(w) ==
  /\ request[w].kind = "save"
  /\ txn' = [txn EXCEPT !.status = "SUCC"]
  /\ succeeded' = TRUE
  /\ raced' = Raced(w)
  /\ Continues(w, Idle)
  /\ UNCHANGED <<payments, prompt>>

Save(w) ==
  /\ request[w].kind = "save"
  /\ txn' = [status |-> "SUCC", linked |-> request[w].linked]
  /\ succeeded' = TRUE
  /\ raced' = Raced(w)
  /\ Continues(w, Idle)
  /\ UNCHANGED <<payments, prompt>>

Next ==
  \/ TakePayment
  \/ \E w \in Workers :
       \/ FetchSync(w) \/ SyncPayment(w)
       \/ Verify(w) \/ Upsert(w) \/ Fail(w) \/ Link(w) \/ Save(w)

Spec == Init /\ [][Next]_vars

-----------------------------------------------------------------------------
TypeOK ==
  /\ request \in [Workers -> Request]
  /\ payments \in 0 .. MaxPayments
  /\ txn \in Txn
  /\ succeeded \in BOOLEAN /\ prompt \in BOOLEAN
  /\ raced \subseteq {"payment", "txn"}

(* "If we've already recorded this transaction as successful, the webhook  *)
(* is a re-delivery": a success is lost to a later failure only when two   *)
(* deliveries were at work on the row at once.                             *)
SuccessLostNeedsRace ==
  succeeded /\ txn.status # "SUCC" => "txn" \in raced

(* A payment that was recorded before PayChangu first reported it is       *)
(* linked by every report that succeeds, also by those that run side by    *)
(* side and write the link they read over each other.                      *)
PromptPaymentsAreLinked == prompt /\ txn.status = "SUCC" => txn.linked

(* handle_folio_payment: "A match means the operation was already applied".*)
(* A reference sent any number of times is one payment, unless staff typed *)
(* it in as well or two deliveries looked for it at once.                  *)
OnePaymentPerReference == payments > 1 => "payment" \in raced
=============================================================================
