------------------------------ MODULE PortalLink ------------------------------
(***************************************************************************)
(* The guest portal link of one reservation: a token with an expiry, made  *)
(* by the task that first sends it, extended or replaced when staff resend *)
(* it, and written back by the edit form as it was when the form read the  *)
(* reservation.                                                            *)
(***************************************************************************)
EXTENDS Naturals, FiniteSets

CONSTANTS Clerks,       \* server processes and task workers
          MaxTokens,    \* bound: tokens that are ever generated
          MaxJobs       \* bound: queued send tasks

PortalAssumption == MaxTokens \in Nat /\ MaxJobs \in Nat \ {0}

VARIABLES res,          \* the reservation's row
          made,         \* tokens generated so far
          jobs,         \* queued send_guest_portal_link tasks
          clerk,        \* process -> what it has read
          recent,       \* a link was logged in the last two minutes
          last,         \* history: the link in the guest's last message
          astray        \* history: since the last undisturbed resend, a send
                        \* failed or a save came between a read and a write

vars == <<res, made, jobs, clerk, recent, last, astray>>

Life == {"fresh", "late", "over"}
Link == [token : 0 .. MaxTokens, life : Life]
Status == {"CONF", "CHIN", "NOSH", "over"}   \* over: CANC or CHOUT
Row == [link : Link, status : Status]
Idle == [kind |-> "idle"]
Clerk == {Idle} \cup [kind : {"resend", "task", "write", "edit"}, res : Row]

Init ==
  /\ res = [link |-> [token |-> 0, life |-> "over"], status |-> "CONF"]
  /\ made = 0
  /\ jobs \in {0, 1}           \* on_commit queues one, if the broker is up
  /\ clerk = [c \in Clerks |-> Idle]
  /\ recent = FALSE
  /\ last = [token |-> 0, life |-> "over"]
  /\ astray = FALSE

Holds(c, kind, row) == clerk' = [clerk EXCEPT ![c] = [kind |-> kind, res |-> row]]
Ends(c) == clerk' = [clerk EXCEPT ![c] = Idle]
Others(c, kinds) == {d \in Clerks \ {c} : clerk[d].kind \in kinds}

IsValid(row) ==
  row.link.token # 0 /\ row.link.life # "over" /\ row.status \in {"CONF", "CHIN"}

NewLink == [token |-> made + 1, life |-> "fresh"]

-----------------------------------------------------------------------------
(* The task.                                                               *)

FetchTask(c) ==
  /\ clerk[c] = Idle
  /\ jobs > 0
  /\ jobs' = jobs - 1
  /\ Holds(c, IF res.link.token = 0 THEN "write" ELSE "task", res)
  /\ UNCHANGED <<res, made, recent, last, astray>>

(* A reservation without a token gets one, for thirty days.                *)
WriteToken(c) ==
  /\ clerk[c].kind = "write"
  /\ made < MaxTokens
  /\ made' = made + 1
  /\ res' = [res EXCEPT !.link = NewLink]
  /\ Holds(c, "task", res')
  /\ astray' = (astray \/ Others(c, {"task", "write"}) # {})
  /\ UNCHANGED <<jobs, recent, last>>

(* The message is logged and queued with the token that the task holds.    *)
(* Without a phone number the task is over; when the message cannot be     *)
(* queued, it has been logged already.                                     *)
Send(c) ==
  /\ clerk[c].kind = "task"
  /\ \/ /\ recent' = TRUE
        /\ last' = [clerk[c].res.link EXCEPT !.life = "fresh"]
        /\ UNCHANGED astray
     \/ /\ astray' = TRUE
        /\ recent' \in {recent, TRUE}
        /\ UNCHANGED last
  /\ Ends(c)
  /\ UNCHANGED <<res, made, jobs>>

-----------------------------------------------------------------------------
(* ResendPortalLinkView.                                                   *)

FetchResend(c) ==
  /\ clerk[c] = Idle
  /\ ~recent
  /\ Holds(c, "resend", res)
  /\ UNCHANGED <<res, made, jobs, recent, last, astray>>

(* .delay raises when the broker is down; the row is saved already.        *)
Delay ==
  \/ jobs < MaxJobs /\ jobs' = jobs + 1
  \/ UNCHANGED jobs

Alone(c) == jobs = 0 /\ \A d \in Clerks \ {c} : clerk[d] = Idle

(* A new token when staff ask for one, and for a link that is not valid.   *)
Renew(c) ==
  /\ clerk[c].kind = "resend"
  /\ made < MaxTokens
  /\ made' = made + 1
  /\ res' = [res EXCEPT !.link = NewLink]
  /\ Delay
  /\ astray' = (jobs' = jobs \/ Others(c, {"task", "write"}) # {} \/ (astray /\ ~Alone(c)))
  /\ Ends(c)
  /\ UNCHANGED <<recent, last>>

ExtendNothing(c) ==
  /\ clerk[c].kind = "resend"
  /\ IsValid(clerk[c].res)
  /\ Delay
  /\ astray' = (jobs' = jobs \/ Others(c, {"task", "write"}) # {} \/ (astray /\ ~Alone(c)))
  /\ Ends(c)
  /\ UNCHANGED <<res, made, recent, last>>

(* A valid link is resent as it is, for thirty days more: only the expiry  *)
(* is saved.                                                               *)
Extend(c) ==
  /\ clerk[c].kind = "resend"
  /\ IsValid(clerk[c].res)
  /\ res' = [res EXCEPT !.link.life = "fresh"]
  /\ Delay
  /\ astray' = (jobs' = jobs \/ Others(c, {"task", "write"}) # {} \/ (astray /\ ~Alone(c)))
  /\ Ends(c)
  /\ UNCHANGED <<made, recent, last>>

-----------------------------------------------------------------------------
(* The edit form saves every column as it read it.                         *)
FetchEdit(c) ==
  /\ clerk[c] = Idle
  /\ res.status \in {"CONF", "NOSH"}
  /\ Holds(c, "edit", res)
  /\ UNCHANGED <<res, made, jobs, recent, last, astray>>

SaveEdit(c) ==
  /\ clerk[c].kind = "edit"
  /\ res' = clerk[c].res
  /\ astray' = (astray \/ res.link # clerk[c].res.link \/ Others(c, {"task", "write"}) # {})
  /\ Ends(c)
  /\ UNCHANGED <<made, jobs, recent, last>>

(* Check-in, check-out, cancellation and no-show.                          *)
ChangeStatus ==
  /\ \E status \in Status :
       /\ <<res.status, status>> \in {<<"CONF", "CHIN">>, <<"CONF", "NOSH">>, <<"CONF", "over">>,
                                    <<"CHIN", "over">>}
       /\ res' = [res EXCEPT !.status = status]
  /\ UNCHANGED <<made, jobs, clerk, recent, last, astray>>

TwoMinutes ==
  /\ recent
  /\ recent' = FALSE
  /\ UNCHANGED <<res, made, jobs, clerk, last, astray>>

Older(link) == [link EXCEPT !.life = IF @ = "fresh" THEN "late" ELSE "over"]

(* Weeks pass, requests and tasks do not take that long.                   *)
Weeks ==
  /\ jobs = 0
  /\ \A c \in Clerks : clerk[c] = Idle
  /\ res' = [res EXCEPT !.link = Older(@)]
  /\ last' = Older(last)
  /\ recent' = FALSE
  /\ UNCHANGED <<made, jobs, clerk, astray>>

Next ==
  \/ \E c \in Clerks :
       \/ FetchTask(c) \/ WriteToken(c) \/ Send(c)
       \/ FetchResend(c) \/ Renew(c) \/ Extend(c)
       \/ FetchEdit(c) \/ SaveEdit(c)
  \/ ChangeStatus \/ TwoMinutes \/ Weeks

Spec == Init /\ [][Next]_vars

-----------------------------------------------------------------------------
TypeOK ==
  /\ res \in Row
  /\ made \in 0 .. MaxTokens
  /\ jobs \in 0 .. MaxJobs
  /\ clerk \in [Clerks -> Clerk]
  /\ recent \in BOOLEAN
  /\ last \in Link
  /\ astray \in BOOLEAN

Quiet == jobs = 0 /\ \A c \in Clerks : clerk[c] = Idle

(* The link in the guest's last message is the one the portal accepts, and *)
(* it works for thirty days from that message, also after two staff asked  *)
(* for a new link at once -- unless a send failed or the row was written   *)
(* while the task or an edit form held an older one, and then only until   *)
(* the next resend that nothing disturbs.                                  *)
LastLinkWorks == Quiet /\ ~astray => res.link = last
=============================================================================
