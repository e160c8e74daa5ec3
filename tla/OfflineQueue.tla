------------------------------ MODULE OfflineQueue ------------------------------
(***************************************************************************)
(* The queue a browser keeps in IndexedDB for forms submitted offline, and *)
(* syncPendingOperations, which sends it.  One page is open.  Two scripts  *)
(* of the page listen for the browser's online event and each starts a     *)
(* sync, so two of them always run side by side; loading a page ends them  *)
(* and starts another.  A sync reads the pending operations once, then     *)
(* awaits one answer after the other, and writes what follows from the     *)
(* copy it read.                                                           *)
(***************************************************************************)
EXTENDS Naturals, FiniteSets

CONSTANTS MaxOps,       \* bound: operations queued, numbered as created
          Syncs,        \* the calls of syncPendingOperations at one time (bound)
          MaxRetries,   \* the retries after which an operation is given up
          MaxTries      \* bound: how often one operation is sent

QueueAssumption == {MaxOps, MaxRetries, MaxTries} \subseteq Nat

VARIABLES entry,        \* operation -> its row of syncQueue
          sync,         \* call -> what it has read and is waiting for
          online,       \* navigator.onLine
          tries         \* history: how often an operation was sent

vars == <<entry, sync, online, tries>>

Ops == 1 .. MaxOps
Entry == [status : {"none", "pending", "synced", "conflict", "failed"}, retries : Nat]
Copy == [op : Ops, retries : Nat]
Sync == [stage : {"idle", "read", "send", "wait"}, todo : SUBSET Copy]
Over == [stage |-> "idle", todo |-> {}]

Init ==
  /\ entry = [o \in Ops |-> [status |-> "none", retries |-> 0]]
  /\ sync = [s \in Syncs |-> Over]
  /\ online = FALSE
  /\ tries = [o \in Ops |-> 0]

Queued == {o \in Ops : entry[o].status # "none"}

(* The URLs the server has under /api/, and those the forms send to.       *)
Served == {"sync"}
Endpoint(o) == "sync/reservations/status"

(* What fetch gives.  The sync view answers 200 with the conflicts inside. *)
Answers(o) == {"network error", IF Endpoint(o) \in Served THEN "ok" ELSE "not found"}

(* A form submitted while the browser is offline.                          *)
Enqueue(o) ==
  /\ ~online
  /\ Queued = 1 .. o - 1
  /\ entry' = [entry EXCEPT ![o].status = "pending"]
  /\ UNCHANGED <<sync, online, tries>>

GoOffline ==
  /\ online
  /\ online' = FALSE
  /\ UNCHANGED <<entry, sync, tries>>

(* Both listeners start a sync.                                            *)
GoOnline ==
  /\ ~online
  /\ online' = TRUE
  /\ \E s, t \in {x \in Syncs : sync[x] = Over} :
       /\ s # t
       /\ sync' = [sync EXCEPT ![s].stage = "read", ![t].stage = "read"]
  /\ UNCHANGED <<entry, tries>>

LoadPage(s) ==
  /\ sync' = [t \in Syncs |-> IF t = s /\ online THEN [Over EXCEPT !.stage = "read"] ELSE Over]
  /\ UNCHANGED <<entry, online, tries>>

ReadQueue(s) ==
  /\ sync[s].stage = "read"
  /\ sync' = [sync EXCEPT ![s] =
       [stage |-> "send",
        todo |-> {[op |-> o, retries |-> entry[o].retries] :
                    o \in {x \in Ops : entry[x].status = "pending"}}]]
  /\ UNCHANGED <<entry, online, tries>>

First(todo) == CHOOSE c \in todo : \A d \in todo : c.op <= d.op

Send(s) ==
  /\ sync[s].stage = "send" /\ sync[s].todo # {}
  /\ LET o == First(sync[s].todo).op IN
     /\ tries[o] < MaxTries
     /\ tries' = [tries EXCEPT ![o] = @ + 1]
  /\ sync' = [sync EXCEPT ![s].stage = "wait"]
  /\ UNCHANGED <<entry, online>>

GivesUp(c) == c.retries >= MaxRetries

(* The answer, and the row it leads to, computed from the copy.            *)
Record(s) ==
  /\ sync[s].stage = "wait"
  /\ LET c == First(sync[s].todo) IN
     /\ \E answer \in Answers(c.op) :
          entry' = [entry EXCEPT ![c.op] =
            IF answer = "ok" THEN [@ EXCEPT !.status = "synced"]
            ELSE [status |-> IF GivesUp(c) THEN "failed" ELSE "pending",
                  retries |-> c.retries + 1]]
     /\ sync' = [sync EXCEPT ![s] = [stage |-> "send", todo |-> @.todo \ {c}]]
  /\ UNCHANGED <<online, tries>>

Finish(s) ==
  /\ sync[s].stage = "send" /\ sync[s].todo = {}
  /\ sync' = [sync EXCEPT ![s] = Over]
  /\ UNCHANGED <<entry, online, tries>>

Works(s) == ReadQueue(s) \/ Send(s) \/ Record(s) \/ Finish(s)

Next ==
  \/ \E o \in Ops : Enqueue(o)
  \/ GoOffline \/ GoOnline
  \/ \E s \in Syncs : LoadPage(s) \/ Works(s)

Spec == Init /\ [][Next]_vars

(* Forms filled in offline; then the browser is online for good, and the   *)
(* page is loaded again whenever it has done syncing.                      *)
Reload == (\A s \in Syncs : sync[s] = Over) /\ \E s \in Syncs : LoadPage(s)

Offline ==
  \/ \E o \in Ops : Enqueue(o)
  \/ GoOnline \/ Reload
  \/ \E s \in Syncs : Works(s)

ReconnectSpec ==
  /\ Init /\ [][Offline]_vars
  /\ WF_vars(GoOnline) /\ WF_vars(Reload)
  /\ \A s \in Syncs : WF_vars(Works(s))

-----------------------------------------------------------------------------
TypeOK ==
  /\ entry \in [Ops -> Entry]
  /\ sync \in [Syncs -> Sync]
  /\ online \in BOOLEAN
  /\ tries \in [Ops -> Nat]

(* "Saved offline. Will sync when online."                                 *)
SyncsWhenOnline ==
  \A o \in Ops : (entry[o].status = "pending" /\ online) ~> (entry[o].status = "synced")
=============================================================================
