---------------------------- MODULE Housekeeping ----------------------------
(***************************************************************************)
(* Housekeeping tasks and what saving one does to its unit.  tasks[u] is   *)
(* the list of the statuses of the tasks ever raised for unit u, oldest    *)
(* first.                                                                  *)
(***************************************************************************)
EXTENDS Naturals, Sequences, Inventory

VARIABLE tasks

TaskStatus == {"PEND", "PROG", "COMP", "INSP", "SKIP"}

NextTaskStatusTypo ==
  [PEND |-> {"PROGRESS", "SKIP"}, PROGRESS |-> {"COMP"}, COMP |-> {"INSP"},
   INSP |-> {}, SKIP |-> {}]

(* The transitions the task list, and the offline handler, let staff make. *)
NextTaskStatus ==
  [PEND |-> {"PROG", "SKIP"}, PROG |-> {"COMP"}, COMP |-> {"INSP"},
   INSP |-> {}, SKIP |-> {}]

(* post_save of a task: a finished cleaning or an inspection makes the     *)
(* unit available.                                                         *)
UnitAfterTask(s, new) ==
  IF \/ new = "COMP" /\ s = "CLEAN"
     \/ new = "INSP" /\ s \in {"CLEAN", "AVAIL"}
    THEN "AVAIL"
    ELSE s

(* The i-th task of u is saved with status new. *)
SaveTask(u, i, new) ==
  /\ tasks' = [tasks EXCEPT ![u] = [@ EXCEPT ![i] = new]]
  /\ unitStatus' = [unitStatus EXCEPT ![u] = UnitAfterTask(@, new)]

(* A check-out cleaning is raised for each unit of us. *)
RaiseCleaning(us) ==
  tasks' = [u \in Units |-> IF u \in us THEN Append(tasks[u], "PEND") ELSE tasks[u]]

(* Work that housekeeping still has on its list, or has skipped. *)
HasCleaning(u) == \E i \in DOMAIN tasks[u] : tasks[u][i] \in {"PEND", "PROG", "SKIP"}
=============================================================================
