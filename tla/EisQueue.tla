-------------------------------- MODULE EisQueue --------------------------------
(***************************************************************************)
(* Invoices queued for the revenue authority (MRA) and the task that       *)
(* submits them.  A run reads the queued rows once, submits one after the  *)
(* other, and saves each whole row as it was read, with the outcome.       *)
(* Runs overlap: celery beat, the button and the task's own retry start    *)
(* them.  The authority may accept an invoice and its answer be lost.      *)
(***************************************************************************)
EXTENDS Naturals, FiniteSets

CONSTANTS Logs,         \* the rows of EISInvoiceLog
          Runs,         \* the runs of the task at one time (bound)
          MaxRetries,   \* failures after which a row is FAILED
          MaxFaults     \* bound: lost answers, refusals and dead runs

EisAssumption == {MaxRetries, MaxFaults} \subseteq Nat

VARIABLES log,          \* row -> its status and retry_count
          run,          \* run -> the rows it read, and the one it submits
          faults,
          accepted,     \* history: how often the authority accepted a row
          troubled      \* history: rows that two runs had read at once, whose
                        \* answer was lost or whose run died

vars == <<log, run, faults, accepted, troubled>>

Row == [status : {"OFFQ", "VAL", "FAIL"}, retries : Nat]
Todo == [log : Logs, retries : Nat]
Idle == [stage |-> "idle"]
Run == {Idle} \cup [stage : {"submit"}, todo : SUBSET Todo]
              \cup [stage : {"save"}, todo : SUBSET Todo, copy : Todo, success : BOOLEAN]

Init ==
  /\ log = [l \in Logs |-> [status |-> "OFFQ", retries |-> 0]]
  /\ run = [r \in Runs |-> Idle]
  /\ faults = 0
  /\ accepted = [l \in Logs |-> 0]
  /\ troubled = {}

Held(r) ==
  CASE run[r].stage = "idle" -> {}
    [] run[r].stage = "submit" -> {c.log : c \in run[r].todo}
    [] OTHER -> {c.log : c \in run[r].todo} \cup {run[r].copy.log}

PendingAlways == {l \in Logs : log[l].status \in {"OFFQ", "VAL"}}

Pending == {l \in Logs : log[l].status = "OFFQ"}

Start(r) ==
  /\ run[r] = Idle
  /\ Pending # {}
  /\ run' = [run EXCEPT ![r] =
       [stage |-> "submit", todo |-> {[log |-> l, retries |-> log[l].retries] : l \in Pending}]]
  /\ troubled' = troubled \cup (Pending \cap UNION {Held(x) : x \in Runs \ {r}})
  /\ UNCHANGED <<log, faults, accepted>>

(* The POST: accepted and answered; accepted but the answer lost; refused  *)
(* or unreachable.                                                         *)
Submit(r) ==
  /\ run[r].stage = "submit"
  /\ \E c \in run[r].todo, outcome \in {"accepted", "lost", "refused"} :
       /\ outcome # "accepted" => faults < MaxFaults
       /\ faults' = IF outcome = "accepted" THEN faults ELSE faults + 1
       /\ accepted' = IF outcome = "refused" THEN accepted
                      ELSE [accepted EXCEPT ![c.log] = @ + 1]
       /\ troubled' = IF outcome = "lost" THEN troubled \cup {c.log} ELSE troubled
       /\ run' = [run EXCEPT ![r] = [stage |-> "save", todo |-> @.todo \ {c}, copy |-> c,
                                     success |-> outcome = "accepted"]]
  /\ UNCHANGED log

GivenUp(retries) == retries >= MaxRetries

Save(r) ==
  /\ run[r].stage = "save"
  /\ LET c == run[r].copy IN
     log' = [log EXCEPT ![c.log] =
       IF run[r].success THEN [status |-> "VAL", retries |-> c.retries]
       ELSE [status |-> IF GivenUp(c.retries + 1) THEN "FAIL" ELSE "OFFQ",
             retries |-> c.retries + 1]]
  /\ run' = [run EXCEPT ![r] = IF @.todo = {} THEN Idle
                               ELSE [stage |-> "submit", todo |-> @.todo]]
  /\ UNCHANGED <<faults, accepted, troubled>>

(* The worker dies, or the answer is not JSON: the run ends where it is.   *)
Dies(r) ==
  /\ run[r] # Idle
  /\ faults < MaxFaults
  /\ faults' = faults + 1
  /\ troubled' = troubled \cup (IF run[r].stage = "save" THEN {run[r].copy.log} ELSE {})
  /\ run' = [run EXCEPT ![r] = Idle]
  /\ UNCHANGED <<log, accepted>>

(* A failed row is queued again in the admin, its count as it is.          *)
Requeue(l) ==
  /\ log[l].status = "FAIL"
  /\ faults < MaxFaults
  /\ log' = [log EXCEPT ![l].status = "OFFQ"]
  /\ UNCHANGED <<run, faults, accepted, troubled>>

Next ==
  \/ \E r \in Runs : Start(r) \/ Submit(r) \/ Save(r) \/ Dies(r)
  \/ \E l \in Logs : Requeue(l)

Spec == Init /\ [][Next]_vars

-----------------------------------------------------------------------------
TypeOK ==
  /\ log \in [Logs -> Row]
  /\ run \in [Runs -> Run]
  /\ faults \in 0 .. MaxFaults
  /\ accepted \in [Logs -> Nat]
  /\ troubled \subseteq Logs

(* An invoice reaches the authority once, and its row says so: it is sent  *)
(* twice, or accepted and still queued or failed, only if two runs had it  *)
(* at once, an answer was lost or a run died before saving.                *)
SubmittedOnce ==
  \A l \in Logs \ troubled :
    /\ accepted[l] <= 1
    /\ accepted[l] = 1 /\ (\A r \in Runs : l \notin Held(r)) => log[l].status = "VAL"
=============================================================================
