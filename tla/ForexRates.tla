------------------------------ MODULE ForexRates ------------------------------
(***************************************************************************)
(* The cached rate of one foreign currency.  A refresh closes the open row *)
(* and creates a new one, in two statements and no transaction; celery     *)
(* beat and the refresh button start refreshes that may overlap.           *)
(***************************************************************************)
EXTENDS Naturals, FiniteSets

CONSTANTS Refreshes,    \* the refreshes at one time (bound)
          MaxRows,      \* bound: rows ever created
          MaxFailures   \* bound: refreshes that fail half-way

RatesAssumption == {MaxRows, MaxFailures} \subseteq Nat

VARIABLES refresh,      \* refresh -> its next statement
          rows,         \* number of rows ever created
          open,         \* the rows with no effective_to
          failures,
          disturbed     \* history: two refreshes overlapped, or one failed
                        \* between its statements, since the last good one

vars == <<refresh, rows, open, failures, disturbed>>

Init ==
  /\ refresh = [f \in Refreshes |-> "idle"]
  /\ rows = 0
  /\ open = {}
  /\ failures = 0
  /\ disturbed = FALSE

InFlight(f) == {g \in Refreshes \ {f} : refresh[g] # "idle"}

(* The rate is asked for over the network; without one nothing is written. *)
Ask(f) ==
  /\ refresh[f] = "idle"
  /\ refresh' = [refresh EXCEPT ![f] = "close"]
  /\ UNCHANGED <<rows, open, failures, disturbed>>

NoAnswer(f) ==
  /\ refresh[f] = "close"
  /\ refresh' = [refresh EXCEPT ![f] = "idle"]
  /\ UNCHANGED <<rows, open, failures, disturbed>>

CloseNewest(f) ==
  /\ refresh[f] = "close"
  /\ open' = open \ {r \in open : \A s \in open : s <= r}
  /\ refresh' = [refresh EXCEPT ![f] = "create"]
  /\ disturbed' = (\E g \in InFlight(f) : refresh[g] = "create")
  /\ UNCHANGED <<rows, failures>>

(* One UPDATE: every open row, so whatever went wrong before is mended.    *)
Close(f) ==
  /\ refresh[f] = "close"
  /\ open' = {}
  /\ refresh' = [refresh EXCEPT ![f] = "create"]
  /\ disturbed' = (\E g \in InFlight(f) : refresh[g] = "create")
  /\ UNCHANGED <<rows, failures>>

Create(f) ==
  /\ refresh[f] = "create"
  /\ rows < MaxRows
  /\ rows' = rows + 1
  /\ open' = open \cup {rows + 1}
  /\ refresh' = [refresh EXCEPT ![f] = "idle"]
  /\ UNCHANGED <<failures, disturbed>>

(* An exception is logged, a killed worker is not: the row stays closed.   *)
Fails(f) ==
  /\ refresh[f] = "create"
  /\ failures < MaxFailures
  /\ failures' = failures + 1
  /\ refresh' = [refresh EXCEPT ![f] = "idle"]
  /\ disturbed' = TRUE
  /\ UNCHANGED <<rows, open>>

Next ==
  \E f \in Refreshes : Ask(f) \/ NoAnswer(f) \/ Close(f) \/ Create(f) \/ Fails(f)

Spec == Init /\ [][Next]_vars

-----------------------------------------------------------------------------
TypeOK ==
  /\ refresh \in [Refreshes -> {"idle", "close", "create"}]
  /\ rows \in 0 .. MaxRows
  /\ open \subseteq 1 .. rows
  /\ failures \in 0 .. MaxFailures
  /\ disturbed \in BOOLEAN

(* get_current_rate takes the first row without an end.  Between refreshes *)
(* there is exactly one, as soon as any was fetched, unless the last ones  *)
(* overlapped or failed half-way: the next one that runs alone mends it.   *)
OneCurrentRate ==
  rows > 0 /\ ~disturbed /\ (\A f \in Refreshes : refresh[f] # "create")
    => Cardinality(open) = 1
=============================================================================
