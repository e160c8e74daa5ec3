------------------------------- MODULE SyncBatch -------------------------------
(***************************************************************************)
(* The sync endpoint: a device posts what its front desk did offline as    *)
(* one batch, and posts the batch again when it lost the answer.  Each     *)
(* operation is a transaction of its own; one that conflicts or fails does *)
(* not stop those after it.  A handler reads first (Read) and writes from  *)
(* what it read (Apply), so two deliveries, or a delivery and somebody     *)
(* online, may meet in between.                                            *)
(***************************************************************************)
EXTENDS Naturals, Sequences

CONSTANTS Deliveries,   \* the posts of the batch that arrive (bound)
          Cases,        \* a start state and the batch recorded from it
          MaxFailures   \* bound: operations that raise something else

Kinds == {"in", "out", "charge", "cash", "pay", "begin", "finish", "eis", "other"}
Stay == {"CONF", "CHIN", "CHOUT", "CANC"}
TaskStatus == {"PEND", "PROG", "COMP"}

SyncBatchAssumption ==
  /\ Cases \subseteq [stay : {"CONF", "CHIN"}, ops : Seq(Kinds)]
  /\ MaxFailures \in Nat

VARIABLES batch,      \* the operations, each kind at most once
          post,       \* delivery -> the operation it is at, and what it read
          stay,       \* Reservation.status
          folio,      \* Folio.status, "none" before there is a row
          task,       \* HousekeepingTask.status
          rows,       \* kind -> rows its handler inserted
          synced,     \* kind -> times it was answered "synced"
          failures,
          overlapped  \* history: something was written after a read

vars == <<batch, post, stay, folio, task, rows, synced, failures, overlapped>>

Seen == [stay : Stay, paid : BOOLEAN, task : TaskStatus]
Nothing == [stay |-> "CANC", paid |-> FALSE, task |-> "PEND"]

Init ==
  /\ \E c \in Cases :
       /\ batch = c.ops
       /\ stay = c.stay
       /\ folio = IF c.stay = "CHIN" THEN "OPEN" ELSE "none"
  /\ post = [d \in Deliveries |-> [at |-> 1, read |-> FALSE, seen |-> Nothing]]
  /\ task = "PEND"
  /\ rows = [k \in Kinds |-> 0]
  /\ synced = [k \in Kinds |-> 0]
  /\ failures = 0
  /\ overlapped = FALSE

Settled == rows["charge"] = rows["cash"] + rows["pay"]

Read(d) ==
  /\ ~post[d].read /\ post[d].at <= Len(batch)
  /\ post' = [post EXCEPT ![d] = [at |-> @.at, read |-> TRUE, seen |->
                                    [stay |-> stay, paid |-> rows["pay"] > 0, task |-> task]]]
  /\ UNCHANGED <<batch, stay, folio, task, rows, synced, failures, overlapped>>

(* Per operation: nothing to do, as it was done before.                    *)
NeverDone(op, seen) == FALSE

Done(op, seen) ==
  CASE op = "in" -> seen.stay = "CHIN"
    [] op = "out" -> seen.stay = "CHOUT"
    [] op = "pay" -> seen.paid
    [] op = "begin" -> seen.task = "PROG"
    [] op = "finish" -> seen.task = "COMP"
    [] op = "eis" -> rows["eis"] > 0      \* get_or_create, a unique number
    [] OTHER -> FALSE

(* The state the operation asks for can be reached from what was read; the *)
(* balance is that of the rows there are now.                              *)
Allowed(op, seen) ==
  CASE op = "in" -> seen.stay = "CONF"
    [] op = "out" -> seen.stay = "CHIN" /\ Settled
    [] op = "begin" -> seen.task = "PEND"
    [] op = "finish" -> seen.task = "PROG"
    [] OTHER -> TRUE

(* check_in_reservation, check_out_reservation, the task's save and the    *)
(* inserts.  A payment with a reference, a payment without one and a charge*)
(* are rows of a folio.                                                    *)
Perform(op) ==
  /\ stay' = CASE op = "in" -> "CHIN" [] op = "out" -> "CHOUT" [] OTHER -> stay
  /\ folio' = CASE op = "in" /\ folio = "none" -> "OPEN"
                [] op = "out" -> "SETT"
                [] OTHER -> folio
  /\ task' = CASE op = "begin" -> "PROG" [] op = "finish" -> "COMP" [] OTHER -> task
  /\ rows' = IF op \in {"charge", "cash", "pay", "eis"}
               THEN [rows EXCEPT ![op] = @ + 1] ELSE rows
  /\ overlapped' = (overlapped \/ \E d \in Deliveries : post'[d].read)

Nowhere == UNCHANGED <<stay, folio, task, rows, overlapped>>

(* An endpoint without a handler is rejected; anything that raises leaves  *)
(* its transaction undone.  Another reservation may hold the room that a   *)
(* check-in asks for.                                                      *)
Apply(d) ==
  LET op == batch[post[d].at]
      seen == post[d].seen IN
  /\ post[d].read
  /\ post' = [post EXCEPT ![d] = [at |-> @.at + 1, read |-> FALSE, seen |-> Nothing]]
  /\ \/ /\ op # "other" /\ Done(op, seen)
        /\ synced' = [synced EXCEPT ![op] = @ + 1]
        /\ Nowhere
        /\ UNCHANGED failures
     \/ /\ op # "other" /\ ~Done(op, seen) /\ Allowed(op, seen)
        /\ synced' = [synced EXCEPT ![op] = @ + 1]
        /\ Perform(op)
        /\ UNCHANGED failures
     \/ /\ op \in {"other", "in"} \/ ~Allowed(op, seen)
        /\ ~Done(op, seen)
        /\ Nowhere
        /\ UNCHANGED <<synced, failures>>
     \/ /\ failures < MaxFailures
        /\ failures' = failures + 1
        /\ Nowhere
        /\ UNCHANGED synced
  /\ UNCHANGED batch

(* Somebody online cancels or checks the guest out, or goes on with the    *)
(* cleaning.                                                               *)
Online ==
  /\ \/ /\ stay = "CONF"
        /\ stay' = "CANC"
        /\ UNCHANGED <<folio, task>>
     \/ /\ stay = "CHIN" /\ Settled
        /\ stay' = "CHOUT" /\ folio' = "SETT"
        /\ UNCHANGED task
     \/ /\ task = "PEND"
        /\ task' = "PROG"
        /\ UNCHANGED <<stay, folio>>
     \/ /\ task = "PROG"
        /\ task' = "COMP"
        /\ UNCHANGED <<stay, folio>>
  /\ overlapped' = (overlapped \/ \E d \in Deliveries : post[d].read)
  /\ UNCHANGED <<batch, post, rows, synced, failures>>

Next == Online \/ \E d \in Deliveries : Read(d) \/ Apply(d)

Spec == Init /\ [][Next]_vars

-----------------------------------------------------------------------------
TypeOK ==
  /\ \E c \in Cases : batch = c.ops
  /\ post \in [Deliveries -> [at : Nat \ {0}, read : BOOLEAN, seen : Seen]]
  /\ stay \in Stay
  /\ folio \in {"none", "OPEN", "SETT"}
  /\ task \in TaskStatus
  /\ rows \in [Kinds -> Nat]
  /\ synced \in [Kinds -> Nat]
  /\ failures \in 0 .. MaxFailures
  /\ overlapped \in BOOLEAN

AtMostOnce(n) == IF n = 0 THEN 0 ELSE 1

(* "Handlers must be idempotent — the same operation may be replayed".     *)
(* Unless writes met reads, however often the batch arrives and whichever  *)
(* of its operations fail or conflict on the way: what was answered as     *)
(* synced is so, and stays so; a payment with a reference and an EIS       *)
(* invoice are there once if they were synced and otherwise not at all; and *)
(* a charge and a cash payment, which have no key, are there as often as   *)
(* they were answered.                                                     *)
SyncedIsDone ==
  ~overlapped =>
    /\ synced["in"] > 0 => stay \in {"CHIN", "CHOUT"} /\ folio # "none"
    /\ synced["out"] > 0 => stay = "CHOUT" /\ folio = "SETT"
    /\ synced["begin"] > 0 => task # "PEND"
    /\ synced["finish"] > 0 => task = "COMP"
    /\ \A k \in {"pay", "eis"} : rows[k] = AtMostOnce(synced[k])
    /\ \A k \in {"charge", "cash"} : rows[k] = synced[k]
=============================================================================
