------------------------------- MODULE Messages -------------------------------
(***************************************************************************)
(* Outbound WhatsApp messages.  Saving a reservation or a payment, or a    *)
(* daily scan, queues a task that writes a NotificationLog and queues the  *)
(* sender; the sender posts to Meta, saves the answer and retries; Meta's  *)
(* delivery receipts come back in any order, late and repeated, and are    *)
(* processed side by side.  Inbound messages are answered by staff.        *)
(***************************************************************************)
EXTENDS Naturals, FiniteSets

CONSTANTS Subjects,     \* reservations, payments, rent invoices
          Notes,        \* bound: rows of NotificationLog
          Hooks,        \* server processes
          Inbound,      \* bound: rows of InboundMessage
          SendRetries   \* max_retries

MessagesAssumption == SendRetries \in Nat

VARIABLES subject,      \* what the database says of each business object
          notify,       \* queued first tasks
          note,         \* the rows of NotificationLog
          sender,       \* note -> the send task
          reached,      \* note -> what Meta knows of the message
          hook,         \* process -> what it has read
          inbox,        \* the rows of InboundMessage
          copies,       \* history: messages that Meta took, per note
          seen,         \* history: the last receipt, per note
          muddled       \* history: notes with a lost answer, or with receipts
                        \* that were early, out of order or at once

history == <<copies, seen, muddled>>
vars == <<subject, notify, note, sender, reached, hook, inbox, history>>

Status == {"none", "PEND", "SENT", "DELIV", "READ", "FAIL"}
Stage == {"SENT", "DELIV", "READ", "FAIL"}
Row == [status : Status, id : BOOLEAN, delivered : BOOLEAN]
Sender == [at : {"none", "queued", "taken", "refused", "over"}, tries : 0 .. SendRetries + 1]
Idle == [kind |-> "idle"]
Hook == {Idle} \cup [kind : {"receipt"}, note : Notes, stage : Stage, delivered : BOOLEAN]
               \cup [kind : {"reply"}, mail : Inbound]

Rank == [none |-> 0, SENT |-> 1, DELIV |-> 2, READ |-> 3, FAIL |-> 3]

Init ==
  /\ subject = [s \in Subjects |-> "none"]
  /\ notify = [s \in Subjects |-> FALSE]
  /\ note = [n \in Notes |-> [status |-> "none", id |-> FALSE, delivered |-> FALSE]]
  /\ sender = [n \in Notes |-> [at |-> "none", tries |-> 0]]
  /\ reached = [n \in Notes |-> "none"]
  /\ hook = [w \in Hooks |-> Idle]
  /\ inbox = [i \in Inbound |-> "none"]
  /\ copies = [n \in Notes |-> 0]
  /\ seen = [n \in Notes |-> "none"]
  /\ muddled = {}

-----------------------------------------------------------------------------
(* What is worth a message.                                                *)

(* post_save queues the task at once, inside the transaction that is still *)
(* open.                                                                   *)
Insert(s) ==
  /\ subject[s] = "none"
  /\ subject' = [subject EXCEPT ![s] = "open"]
  /\ notify' = [notify EXCEPT ![s] = TRUE]
  /\ UNCHANGED <<note, sender, reached, hook, inbox, history>>

EndTransaction(s) ==
  /\ subject[s] = "open"
  /\ \E end \in {"there", "none"} : subject' = [subject EXCEPT ![s] = end]
  /\ UNCHANGED <<notify, note, sender, reached, hook, inbox, history>>

(* The daily scans queue a reminder; nothing records that one was sent.    *)
Scan(s) ==
  /\ subject[s] = "there"
  /\ notify' = [notify EXCEPT ![s] = TRUE]
  /\ UNCHANGED <<subject, note, sender, reached, hook, inbox, history>>

(* An object that is not committed is missing and a guest may have no      *)
(* phone number: the task is over and nothing is written.                  *)
Skip(s) ==
  /\ notify[s]
  /\ notify' = [notify EXCEPT ![s] = FALSE]
  /\ UNCHANGED <<subject, note, sender, reached, hook, inbox, history>>

Notify(s) ==
  /\ notify[s]
  /\ subject[s] = "there"
  /\ notify' = [notify EXCEPT ![s] = FALSE]
  /\ \E n \in {m \in Notes : note[m].status = "none"} :
       /\ note' = [note EXCEPT ![n].status = "PEND"]
       /\ sender' = [sender EXCEPT ![n].at = "queued"]
  /\ UNCHANGED <<subject, reached, hook, inbox, history>>

-----------------------------------------------------------------------------
(* The send task.                                                          *)

(* An answer that is lost is an error like one that refuses.               *)
Post(n) ==
  /\ sender[n].at = "queued"
  /\ \E answer \in {"taken", "refused", "lost"} :
       /\ sender' = [sender EXCEPT ![n].at = IF answer = "taken" THEN answer ELSE "refused",
                                   ![n].tries = @ + 1]
       /\ reached' = IF answer = "taken" THEN [reached EXCEPT ![n] = "SENT"] ELSE reached
       /\ copies' = IF answer = "refused" THEN copies ELSE [copies EXCEPT ![n] = @ + 1]
       /\ muddled' = IF answer = "lost" THEN muddled \cup {n} ELSE muddled
  /\ UNCHANGED <<subject, notify, note, hook, inbox, seen>>

SaveSentUnnamed(n) ==
  /\ sender[n].at = "taken"
  /\ note' = [note EXCEPT ![n].status = "SENT"]
  /\ sender' = [sender EXCEPT ![n].at = "over"]
  /\ UNCHANGED <<subject, notify, reached, hook, inbox, history>>

SaveSent(n) ==
  /\ sender[n].at = "taken"
  /\ note' = [note EXCEPT ![n].status = "SENT", ![n].id = TRUE]
  /\ sender' = [sender EXCEPT ![n].at = "over"]
  /\ UNCHANGED <<subject, notify, reached, hook, inbox, history>>

SaveFailed(n) ==
  /\ sender[n].at = "refused"
  /\ note' = [note EXCEPT ![n].status = "FAIL"]
  /\ sender' = [sender EXCEPT ![n].at = IF sender[n].tries > SendRetries THEN "over" ELSE "queued"]
  /\ UNCHANGED <<subject, notify, reached, hook, inbox, history>>

-----------------------------------------------------------------------------
(* The webhook.                                                            *)

Progress(n) ==
  /\ reached[n] \in {"SENT", "DELIV"}
  /\ \E stage \in Stage :
       /\ Rank[stage] = Rank[reached[n]] + 1 \/ stage = "FAIL"
       /\ reached' = [reached EXCEPT ![n] = stage]
  /\ UNCHANGED <<subject, notify, note, sender, hook, inbox, history>>

Reading(n) == {w \in Hooks : hook[w].kind = "receipt" /\ hook[w].note = n}

Orderly(n, stage) ==
  /\ sender[n].at = "over"
  /\ Reading(n) = {}
  /\ Rank[seen[n]] < Rank[stage]

(* _process_status finds the row by the provider's id; without one the     *)
(* receipt is gone.                                                        *)
Receive(w, n, stage) ==
  /\ hook[w] = Idle
  /\ Rank[stage] <= Rank[reached[n]]
  /\ stage = "FAIL" <=> reached[n] = "FAIL"
  /\ hook' = IF note[n].id
               THEN [hook EXCEPT ![w] = [kind |-> "receipt", note |-> n, stage |-> stage,
                                         delivered |-> note[n].delivered]]
               ELSE hook
  /\ seen' = [seen EXCEPT ![n] = stage]
  /\ muddled' = IF Orderly(n, stage) THEN muddled ELSE muddled \cup {n}
  /\ UNCHANGED <<subject, notify, note, sender, reached, inbox, copies>>

(* status and delivered_at are saved, the latter as it was read.           *)
Record(w) ==
  /\ hook[w].kind = "receipt"
  /\ LET r == hook[w] IN
       note' = [note EXCEPT ![r.note].status = r.stage,
                            ![r.note].delivered = r.delivered \/ r.stage = "DELIV"]
  /\ hook' = [hook EXCEPT ![w] = Idle]
  /\ UNCHANGED <<subject, notify, sender, reached, inbox, history>>

(* A message that Meta posts again is a row again.                         *)
StoreInbound ==
  /\ \E i \in {j \in Inbound : inbox[j] = "none"} : inbox' = [inbox EXCEPT ![i] = "unread"]
  /\ UNCHANGED <<subject, notify, note, sender, reached, hook, history>>

(* The reply form does not ask whether the message was answered.           *)
SendReply(w, i) ==
  /\ hook[w] = Idle
  /\ inbox[i] # "none"
  /\ hook' = [hook EXCEPT ![w] = [kind |-> "reply", mail |-> i]]
  /\ UNCHANGED <<subject, notify, note, sender, reached, inbox, history>>

(* An error leaves the message as it is.                                   *)
SaveReply(w) ==
  /\ hook[w].kind = "reply"
  /\ \E error \in BOOLEAN :
       inbox' = IF error THEN inbox ELSE [inbox EXCEPT ![hook[w].mail] = "replied"]
  /\ hook' = [hook EXCEPT ![w] = Idle]
  /\ UNCHANGED <<subject, notify, note, sender, reached, history>>

Next ==
  \/ \E s \in Subjects : Insert(s) \/ EndTransaction(s) \/ Scan(s) \/ Skip(s) \/ Notify(s)
  \/ \E n \in Notes : Post(n) \/ SaveSent(n) \/ SaveFailed(n) \/ Progress(n)
  \/ \E w \in Hooks, n \in Notes, stage \in Stage : Receive(w, n, stage)
  \/ \E w \in Hooks : Record(w) \/ SaveReply(w) \/ \E i \in Inbound : SendReply(w, i)
  \/ StoreInbound

Spec == Init /\ [][Next]_vars

-----------------------------------------------------------------------------
TypeOK ==
  /\ subject \in [Subjects -> {"none", "open", "there"}]
  /\ notify \in [Subjects -> BOOLEAN]
  /\ note \in [Notes -> Row]
  /\ sender \in [Notes -> Sender]
  /\ reached \in [Notes -> Stage \cup {"none"}]
  /\ hook \in [Hooks -> Hook]
  /\ inbox \in [Inbound -> {"none", "unread", "replied"}]
  /\ copies \in [Notes -> Nat]
  /\ seen \in [Notes -> Stage \cup {"none"}]
  /\ muddled \subseteq Notes

Settled(n) ==
  /\ sender[n].at = "over"
  /\ Reading(n) = {}
  /\ seen[n] = reached[n] \/ reached[n] \in {"none", "SENT"}
  /\ n \notin muddled

(* The log is the "audit trail of every outbound message": once sending is *)
(* over and the receipts are processed, it says FAIL for a message that    *)
(* nobody got, and otherwise the message went out once and the log says    *)
(* how far it came -- unless an answer of Meta's was lost or its receipts  *)
(* were early, repeated, out of order or processed at once.                *)
LogTellsDelivery ==
  \A n \in Notes : Settled(n) =>
    \/ /\ copies[n] = 0 /\ note[n].status = "FAIL"
    \/ /\ copies[n] = 1 /\ note[n].status = reached[n]
       /\ reached[n] = "DELIV" => note[n].delivered
=============================================================================
