------------------------------- MODULE Realtime -------------------------------
(***************************************************************************)
(* One page's notification stream: the browser keeps a WebSocket open and  *)
(* reconnects it after a delay, or at once when the browser comes back     *)
(* online; the server joins each socket to the user's group and sends the  *)
(* group a message when the save of a payment is signalled, which is       *)
(* before the transaction ends.                                            *)
(***************************************************************************)
EXTENDS Naturals, FiniteSets

CONSTANTS MaxSockets,   \* bound: sockets the page ever opens
          MaxTimers,    \* bound: reconnections that wait for their delay
          MaxPayments   \* bound: payments that staff member takes

RealtimeAssumption == MaxSockets \in Nat \ {0} /\ {MaxTimers, MaxPayments} \subseteq Nat

VARIABLES sock,         \* the sockets, by age
          current,      \* sockets['notifications'], 0 for none
          timers,       \* deaf or not -> scheduled calls of connect
          stopped,      \* the page is being left
          joined,       \* sockets in the user's group
          payment,      \* number -> the payment's row
          casts,        \* history: messages sent to the group
          toasts        \* history: toasts the page showed

page == <<sock, current, timers, stopped>>
vars == <<page, joined, payment, casts, toasts>>

Sockets == 1 .. MaxSockets
Socket == [state : {"none", "connecting", "open", "closing", "closed"}, deaf : BOOLEAN]
Payments == 1 .. MaxPayments

Init ==
  /\ sock = [s \in Sockets |-> [state |-> IF s = 1 THEN "connecting" ELSE "none", deaf |-> FALSE]]
  /\ current = 1
  /\ timers = [deaf \in BOOLEAN |-> 0]
  /\ stopped = FALSE
  /\ joined = {}
  /\ payment = [p \in Payments |-> "none"]
  /\ casts = 0
  /\ toasts = 0

Live == {s \in Sockets : sock[s].state \in {"connecting", "open"}}
Pending == timers[TRUE] + timers[FALSE]

Schedule(deaf) == timers' = [timers EXCEPT ![deaf] = @ + 1]

-----------------------------------------------------------------------------
(* connect().  deaf: it was given a callback that does nothing.            *)

Opened(deaf) ==
  /\ current < MaxSockets
  /\ current' = current + 1
  /\ sock' = [sock EXCEPT ![current + 1] = [state |-> "connecting", deaf |-> deaf]]

TimerAlways(deaf) ==
  /\ timers[deaf] > 0
  /\ Opened(deaf)
  /\ timers' = [timers EXCEPT ![deaf] = @ - 1]
  /\ UNCHANGED <<stopped, joined, payment, casts, toasts>>

(* A scheduled call does nothing on a page that is left or has a socket    *)
(* that is connecting or open.                                             *)
Timer(deaf) ==
  /\ timers[deaf] > 0
  /\ IF stopped \/ current \in Live THEN UNCHANGED <<sock, current>> ELSE Opened(deaf)
  /\ timers' = [timers EXCEPT ![deaf] = @ - 1]
  /\ UNCHANGED <<stopped, joined, payment, casts, toasts>>

(* A socket that is closed is connected at once, with another callback.    *)
Online ==
  /\ stopped' = FALSE
  /\ IF sock[current].state = "closed" THEN Opened(TRUE) ELSE UNCHANGED <<sock, current>>
  /\ UNCHANGED <<timers, joined, payment, casts, toasts>>

Closed(s) ==
  /\ sock[s].state \in {"connecting", "open", "closing"}
  /\ sock' = [sock EXCEPT ![s].state = "closed"]
  /\ IF stopped THEN UNCHANGED timers ELSE Pending < MaxTimers /\ Schedule(sock[s].deaf)
  /\ UNCHANGED <<current, stopped, joined, payment, casts, toasts>>

(* beforeunload; the user may still stay on the page.                      *)
DisconnectAll ==
  /\ stopped' = TRUE
  /\ sock' = [sock EXCEPT ![current].state = IF current \in Live THEN "closing" ELSE @]
  /\ UNCHANGED <<current, timers, joined, payment, casts, toasts>>

-----------------------------------------------------------------------------
(* The consumer: a user who is logged in to a tenant is added to the group *)
(* and accepted, any other socket is closed.                               *)
Accept(s) ==
  /\ sock[s].state = "connecting"
  /\ sock' = [sock EXCEPT ![s].state = "open"]
  /\ joined' = joined \cup {s}
  /\ UNCHANGED <<current, timers, stopped, payment, casts, toasts>>

(* The server learns of a socket that is gone after the browser does.      *)
Teardown(s) ==
  /\ s \in joined
  /\ sock[s].state \in {"closing", "closed"}
  /\ joined' = joined \ {s}
  /\ UNCHANGED <<page, payment, casts, toasts>>

(* post_save of a payment: the message goes out while the transaction is   *)
(* still open; only a socket that is open hears it.                        *)
SavePayment(p) ==
  /\ payment[p] = "none"
  /\ payment' = [payment EXCEPT ![p] = "open"]
  /\ casts' = casts + 1
  /\ toasts' = toasts + Cardinality({s \in joined : sock[s].state = "open" /\ ~sock[s].deaf})
  /\ UNCHANGED <<page, joined>>

EndPayment(p) ==
  /\ payment[p] = "open"
  /\ \E end \in {"there", "undone"} : payment' = [payment EXCEPT ![p] = end]
  /\ UNCHANGED <<page, joined, casts, toasts>>

Next ==
  \/ \E deaf \in BOOLEAN : Timer(deaf)
  \/ \E s \in Sockets : Closed(s) \/ Accept(s) \/ Teardown(s)
  \/ \E p \in Payments : SavePayment(p) \/ EndPayment(p)
  \/ Online \/ DisconnectAll

Spec == Init /\ [][Next]_vars

-----------------------------------------------------------------------------
TypeOK ==
  /\ sock \in [Sockets -> Socket]
  /\ current \in Sockets
  /\ timers \in [BOOLEAN -> 0 .. MaxTimers]
  /\ stopped \in BOOLEAN
  /\ joined \subseteq Sockets
  /\ payment \in [Payments -> {"none", "open", "there", "undone"}]
  /\ casts \in 0 .. MaxPayments
  /\ toasts \in Nat

(* However timers, network events and closing sockets interleave, the page *)
(* has one live socket: a payment is announced once.                       *)
ToastedOnce == Cardinality(Live) <= 1 /\ toasts <= casts
=============================================================================
