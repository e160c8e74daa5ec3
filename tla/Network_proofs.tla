---------------------------- MODULE Network_proofs ----------------------------
(***************************************************************************)
(* The promises of what travels: portal links, messages and their          *)
(* receipts, the notification stream, batches of devices that were         *)
(* offline, and redirects between pages.                                   *)
(***************************************************************************)
EXTENDS Integrations_proofs

-----------------------------------------------------------------------------
(* The guest portal.                                                       *)

(* As long as nothing went astray, a task that is about to send holds the  *)
(* row's link, which is fresh, and a task that is about to make a link     *)
(* finds none; a queued task will find a fresh link or none; and with no   *)
(* task on its way the row's link is the one the guest got last.           *)
PortalInv ==
  /\ Portal!TypeOK
  /\ ~astray =>
       /\ \A c \in Clerks : clerk[c].kind = "task" =>
            clerk[c].res.link = res.link /\ res.link.life = "fresh"
       /\ \A c \in Clerks : clerk[c].kind = "write" => res.link.token = 0
       /\ jobs > 0 => res.link.token = 0 \/ res.link.life = "fresh"
       /\ jobs = 0 /\ (\A c \in Clerks : clerk[c].kind \notin {"task", "write"}) =>
            res.link = last

(* A clerk that takes something up or puts it down leaves the others be.   *)
LEMMA OneClerkMoves ==
  ASSUME Portal!TypeOK, NEW c \in Clerks
  PROVE  /\ Portal!Ends(c) =>
              /\ clerk'[c].kind = "idle"
              /\ \A d \in Clerks \ {c} : clerk'[d] = clerk[d]
         /\ \A kind, row : Portal!Holds(c, kind, row) =>
              /\ clerk'[c].kind = kind /\ clerk'[c].res = row
              /\ \A d \in Clerks \ {c} : clerk'[d] = clerk[d]
         /\ clerk[c] = Portal!Idle => clerk[c].kind = "idle"
  BY DEF Portal!TypeOK, Portal!Ends, Portal!Holds, Portal!Idle

LEMMA RowLink ==
  ASSUME NEW row \in Portal!Row, NEW link
  PROVE  [row EXCEPT !.link = link].link = link
  BY DEF Portal!Row

LEMMA PortalStep ==
  ASSUME Portal!PortalAssumption, PortalInv, [Portal!Next]_portal
  PROVE  PortalInv'
  <1>0. Portal!TypeOK'
    BY PortalTypes DEF PortalInv
  <1>a. /\ res \in Portal!Row /\ res.link \in Portal!Link /\ last \in Portal!Link
        /\ jobs \in Nat /\ jobs' \in Nat /\ made \in Nat
    BY <1>0 DEF PortalInv, Portal!TypeOK, Portal!Row, Portal!PortalAssumption
  <1> USE DEF PortalInv
  <1>1. CASE UNCHANGED portal
    BY <1>0, <1>1 DEF portal
  <1>2. ASSUME NEW c \in Clerks, Portal!FetchTask(c)
        PROVE  PortalInv'
    <2>1. /\ clerk'[c].kind = IF res.link.token = 0 THEN "write" ELSE "task"
          /\ clerk'[c].res = res
          /\ \A d \in Clerks \ {c} : clerk'[d] = clerk[d]
      BY <1>2, OneClerkMoves DEF Portal!FetchTask
    <2>2. /\ jobs > 0 /\ jobs' = jobs - 1
          /\ res' = res /\ last' = last /\ astray' = astray
      BY <1>2 DEF Portal!FetchTask
    <2>3. clerk'[c].kind \in {"task", "write"}
      BY <2>1
    <2>4. QED
      BY <1>0, <1>a, <2>1, <2>2, <2>3
  <1>3. ASSUME NEW c \in Clerks, Portal!WriteToken(c)
        PROVE  PortalInv'
    <2>1. /\ clerk'[c].kind = "task" /\ clerk'[c].res = res'
          /\ \A d \in Clerks \ {c} : clerk'[d] = clerk[d]
      BY <1>3, OneClerkMoves DEF Portal!WriteToken
    <2>2. res'.link.life = "fresh"
      BY <1>3, <1>a, RowLink DEF Portal!WriteToken, Portal!NewLink
    <2>3. ~astray' => \A d \in Clerks \ {c} : clerk[d].kind \notin {"task", "write"}
      BY <1>3 DEF Portal!WriteToken, Portal!Others
    <2>4. QED
      BY <1>0, <2>1, <2>2, <2>3
  <1>4. ASSUME NEW c \in Clerks, Portal!Send(c)
        PROVE  PortalInv'
    <2>1. /\ clerk[c].kind = "task" /\ clerk'[c].kind = "idle"
          /\ \A d \in Clerks \ {c} : clerk'[d] = clerk[d]
      BY <1>4, OneClerkMoves DEF Portal!Send
    <2>2. res' = res /\ jobs' = jobs
      BY <1>4 DEF Portal!Send
    <2>3. ~astray' => ~astray /\ last' = [clerk[c].res.link EXCEPT !.life = "fresh"]
      BY <1>4 DEF Portal!Send
    <2>4. ~astray' => last' = res.link
      <3>1. ~astray => clerk[c].res.link = res.link /\ res.link.life = "fresh"
        BY <2>1
      <3>2. res.link.life = "fresh" => [res.link EXCEPT !.life = "fresh"] = res.link
        BY <1>a DEF Portal!Link
      <3>3. QED
        BY <2>3, <3>1, <3>2
    <2>5. QED
      BY <1>0, <2>1, <2>2, <2>3, <2>4
  <1>5. ASSUME NEW c \in Clerks, Portal!FetchResend(c) \/ Portal!FetchEdit(c)
        PROVE  PortalInv'
    <2>1. PICK kind \in {"resend", "edit"} : Portal!Holds(c, kind, res)
      BY <1>5 DEF Portal!FetchResend, Portal!FetchEdit
    <2>2. /\ clerk[c].kind = "idle" /\ clerk'[c].kind = kind
          /\ \A d \in Clerks \ {c} : clerk'[d] = clerk[d]
      BY <1>5, <2>1, OneClerkMoves DEF Portal!FetchResend, Portal!FetchEdit
    <2>3. res' = res /\ jobs' = jobs /\ last' = last /\ astray' = astray
      BY <1>5 DEF Portal!FetchResend, Portal!FetchEdit
    <2>4. QED
      BY <1>0, <2>2, <2>3
  <1>6. ASSUME NEW c \in Clerks, Portal!Renew(c) \/ Portal!Extend(c)
        PROVE  PortalInv'
    <2>1. /\ clerk'[c].kind = "idle"
          /\ \A d \in Clerks \ {c} : clerk'[d] = clerk[d]
      BY <1>6, OneClerkMoves DEF Portal!Renew, Portal!Extend
    <2>2. res'.link.life = "fresh"
      <3>1. CASE Portal!Renew(c)
        BY <1>a, <3>1, RowLink DEF Portal!Renew, Portal!NewLink
      <3>2. CASE Portal!Extend(c)
        BY <1>a, <3>2 DEF Portal!Extend, Portal!Row, Portal!Link
      <3>3. QED
        BY <1>6, <3>1, <3>2
    <2>3. ~astray' => /\ jobs' # jobs
                      /\ \A d \in Clerks \ {c} : clerk[d].kind \notin {"task", "write"}
      BY <1>6 DEF Portal!Renew, Portal!Extend, Portal!Others
    <2>4. jobs' # jobs => jobs' = jobs + 1
      BY <1>6 DEF Portal!Renew, Portal!Extend, Portal!Delay
    <2>5. ~astray' => jobs' # 0
      BY <1>a, <2>3, <2>4
    <2>6. QED
      BY <1>0, <2>1, <2>2, <2>3, <2>5
  <1>7. ASSUME NEW c \in Clerks, Portal!SaveEdit(c)
        PROVE  PortalInv'
    <2>1. /\ clerk[c].kind = "edit" /\ clerk'[c].kind = "idle"
          /\ \A d \in Clerks \ {c} : clerk'[d] = clerk[d]
      BY <1>7, OneClerkMoves DEF Portal!SaveEdit
    <2>2. jobs' = jobs /\ last' = last
      BY <1>7 DEF Portal!SaveEdit
    <2>3. ~astray' => ~astray /\ res'.link = res.link
      BY <1>7 DEF Portal!SaveEdit
    <2>4. QED
      BY <1>0, <2>1, <2>2, <2>3
  <1>8. CASE Portal!ChangeStatus
    <2>1. res'.link = res.link
      BY <1>a, <1>8 DEF Portal!ChangeStatus, Portal!Row
    <2>2. jobs' = jobs /\ clerk' = clerk /\ last' = last /\ astray' = astray
      BY <1>8 DEF Portal!ChangeStatus
    <2>3. QED
      BY <1>0, <2>1, <2>2
  <1>9. CASE Portal!TwoMinutes
    BY <1>0, <1>9 DEF Portal!TwoMinutes
  <1>10. CASE Portal!Weeks
    <2>1. /\ jobs = 0 /\ jobs' = jobs /\ clerk' = clerk /\ astray' = astray
          /\ \A c \in Clerks : clerk[c].kind = "idle"
      BY <1>10, OneClerkMoves DEF Portal!Weeks
    <2>2. res'.link = Portal!Older(res.link) /\ last' = Portal!Older(last)
      BY <1>a, <1>10, RowLink DEF Portal!Weeks
    <2>3. QED
      BY <1>0, <2>1, <2>2
  <1>11. QED
    BY <1>1, <1>2, <1>3, <1>4, <1>5, <1>6, <1>7, <1>8, <1>9, <1>10 DEF Portal!Next

(* The link in the guest's last message is the one the portal accepts when *)
(* no clerk and no task is busy, unless a send or a stale save went wrong  *)
(* since the last undisturbed resend.                                      *)
THEOREM GuestsHoldTheLink == Spec => []LastLinkWorks
  <1>1. Init => PortalInv
    <2>1. Init => Portal!Init /\ Portal!TypeOK
      BY PartsStart, PortalStart, IntegrationsAssumption DEF IntegrationsAssumption
    <2>2. Portal!Init =>
            /\ res.link = last /\ res.link.token = 0
            /\ \A c \in Clerks : clerk[c].kind = "idle"
      BY DEF Portal!Init, Portal!Idle
    <2>3. QED
      BY <2>1, <2>2 DEF PortalInv
  <1>2. PortalInv /\ [Next]_vars => PortalInv'
    BY PartsMove, PortalStep, IntegrationsAssumption DEF IntegrationsAssumption
  <1>3. PortalInv => LastLinkWorks
    BY DEF PortalInv, LastLinkWorks, Portal!LastLinkWorks, Portal!Quiet, Portal!Idle
  <1>4. QED
    BY <1>1, <1>2, <1>3, PTL DEF Spec
-----------------------------------------------------------------------------
(* Messages.                                                               *)

(* What is known of a message whose receipts came one after the other.     *)
Unsent(n) == copies[n] = 0 /\ reached[n] = "none" /\ seen[n] = "none"

Sent(n) ==
  /\ copies[n] = 1 /\ reached[n] # "none"
  /\ reached[n] = "SENT" => seen[n] \in {"none", "SENT"}

Said(n) ==
  /\ note[n].status = IF seen[n] = "none" THEN "SENT" ELSE seen[n]
  /\ seen[n] = "DELIV" => note[n].delivered

Reads(w, n) == hook[w].kind = "receipt" /\ hook[w].note = n

(* The log is behind by the receipt that is being processed, if any.       *)
MessageInv(n) ==
  /\ sender[n].at \in {"none", "queued", "refused"} =>
       Unsent(n) /\ \A w \in Hooks : ~Reads(w, n)
  /\ sender[n].at = "taken" =>
       Sent(n) /\ seen[n] = "none" /\ \A w \in Hooks : ~Reads(w, n)
  /\ sender[n].at = "over" =>
       \/ Unsent(n) /\ note[n].status = "FAIL" /\ \A w \in Hooks : ~Reads(w, n)
       \/ /\ Sent(n) /\ note[n].id
          /\ (\A w \in Hooks : ~Reads(w, n)) => Said(n)
          /\ \A w \in Hooks : Reads(w, n) =>
               hook[w].stage = seen[n] /\ \A v \in Hooks : Reads(v, n) => v = w

LogInv == MessagesInv /\ \A n \in Notes \ muddled : MessageInv(n)

LEMMA Ranks ==
  ASSUME NEW stage \in Whatsapp!Stage
  PROVE  /\ ~(Whatsapp!Rank[stage] <= Whatsapp!Rank["none"])
         /\ Whatsapp!Rank[stage] <= Whatsapp!Rank["SENT"] => stage = "SENT"
  BY DEF Whatsapp!Stage, Whatsapp!Rank

(* A step that leaves a message and its receipts alone.                    *)
LEMMA MessageKept ==
  ASSUME NEW n, n \in Notes \ muddled => MessageInv(n),
         muddled \subseteq muddled',
         note'[n] = note[n], sender'[n].at = sender[n].at, reached'[n] = reached[n],
         copies'[n] = copies[n], seen'[n] = seen[n],
         \A w \in Hooks : Reads(w, n) => hook'[w] = hook[w],
         \A w \in Hooks : Reads(w, n)' => hook'[w] = hook[w]
  PROVE  (n \in Notes \ muddled => MessageInv(n))'
  <1> SUFFICES ASSUME n \in Notes, n \notin muddled'
               PROVE  MessageInv(n)'
    OBVIOUS
  <1>1. MessageInv(n)
    OBVIOUS
  <1>2. \A w \in Hooks : Reads(w, n)' <=> Reads(w, n)
    BY DEF Reads
  <1>3. /\ Unsent(n)' <=> Unsent(n)
        /\ Sent(n)' <=> Sent(n)
        /\ Said(n)' <=> Said(n)
    BY DEF Unsent, Sent, Said
  <1>4. \A w \in Hooks : Reads(w, n) => hook'[w].stage = hook[w].stage
    OBVIOUS
  <1>5. QED
    BY <1>1, <1>2, <1>3, <1>4 DEF MessageInv

LEMMA LogStep ==
  ASSUME Whatsapp!MessagesAssumption, LogInv, [Whatsapp!Next]_whatsapp
  PROVE  LogInv'
  <1>0. MessagesInv'
    BY MessagesStep DEF LogInv
  <1>a. /\ note \in [Notes -> Whatsapp!Row] /\ sender \in [Notes -> Whatsapp!Sender]
        /\ hook \in [Hooks -> Whatsapp!Hook] /\ copies \in [Notes -> Nat]
        /\ reached \in [Notes -> Whatsapp!Stage \cup {"none"}]
        /\ seen \in [Notes -> Whatsapp!Stage \cup {"none"}]
    BY DEF LogInv, MessagesInv, Whatsapp!TypeOK
  <1> SUFFICES ASSUME NEW m \in Notes
               PROVE  (m \in Notes \ muddled => MessageInv(m))'
    BY <1>0 DEF LogInv
  <1>b. m \in Notes \ muddled => MessageInv(m)
    BY DEF LogInv
  <1> USE DEF Whatsapp!history
  <1>1. CASE UNCHANGED whatsapp
    BY <1>1, <1>b, MessageKept DEF whatsapp
  <1>2. ASSUME NEW s \in Subjects,
               \/ Whatsapp!Insert(s) \/ Whatsapp!EndTransaction(s)
               \/ Whatsapp!Scan(s) \/ Whatsapp!Skip(s)
        PROVE  (m \in Notes \ muddled => MessageInv(m))'
    BY <1>2, <1>b, MessageKept
    DEF Whatsapp!Insert, Whatsapp!EndTransaction, Whatsapp!Scan, Whatsapp!Skip
  <1>3. ASSUME NEW s \in Subjects, Whatsapp!Notify(s)
        PROVE  (m \in Notes \ muddled => MessageInv(m))'
    <2>1. PICK n \in Notes : /\ note[n].status = "none"
                             /\ note' = [note EXCEPT ![n].status = "PEND"]
                             /\ sender' = [sender EXCEPT ![n].at = "queued"]
      BY <1>3 DEF Whatsapp!Notify
    <2>2. /\ reached' = reached /\ hook' = hook /\ copies' = copies /\ seen' = seen
          /\ muddled' = muddled
      BY <1>3 DEF Whatsapp!Notify
    <2>3. CASE m # n
      BY <1>b, <2>1, <2>2, <2>3, MessageKept
    <2>4. CASE m = n
      <3>1. sender[n].at = "none" /\ sender'[n].at = "queued"
        BY <1>a, <2>1 DEF LogInv, MessagesInv, Whatsapp!Sender
      <3>2. QED
        BY <1>b, <2>2, <2>4, <3>1 DEF MessageInv, Unsent, Reads
    <2>5. QED
      BY <2>3, <2>4
  <1>4. ASSUME NEW n \in Notes, Whatsapp!Post(n)
        PROVE  (m \in Notes \ muddled => MessageInv(m))'
    <2>1. PICK reply \in {"taken", "refused", "lost"} :
            /\ sender' = [sender EXCEPT ![n].at = IF reply = "taken" THEN reply ELSE "refused",
                                        ![n].tries = @ + 1]
            /\ reached' = IF reply = "taken" THEN [reached EXCEPT ![n] = "SENT"] ELSE reached
            /\ copies' = IF reply = "refused" THEN copies ELSE [copies EXCEPT ![n] = @ + 1]
            /\ muddled' = IF reply = "lost" THEN muddled \cup {n} ELSE muddled
      BY <1>4 DEF Whatsapp!Post
    <2>2. note' = note /\ hook' = hook /\ seen' = seen /\ sender[n].at = "queued"
      BY <1>4 DEF Whatsapp!Post
    <2>3. CASE m # n
      <3>1. sender'[m] = sender[m] /\ reached'[m] = reached[m] /\ copies'[m] = copies[m]
        BY <1>a, <2>1, <2>3
      <3>2. QED
        BY <1>b, <2>1, <2>2, <3>1, MessageKept
    <2>4. CASE m = n
      <3>1. sender'[n].at = IF reply = "taken" THEN "taken" ELSE "refused"
        BY <1>a, <2>1 DEF Whatsapp!Sender
      <3>2. CASE reply = "taken"
        <4>1. /\ reached'[n] = "SENT" /\ copies'[n] = copies[n] + 1 /\ muddled' = muddled
              /\ sender'[n].at = "taken"
          BY <1>a, <2>1, <3>1, <3>2
        <4>2. QED
          BY <1>b, <2>2, <2>4, <4>1 DEF MessageInv, Unsent, Sent, Reads
      <3>3. CASE reply = "refused"
        <4>1. /\ reached' = reached /\ copies' = copies /\ muddled' = muddled
              /\ sender'[n].at = "refused"
          BY <2>1, <3>1, <3>3
        <4>2. QED
          BY <1>b, <2>2, <2>4, <4>1 DEF MessageInv, Unsent, Reads
      <3>4. CASE reply = "lost"
        BY <2>1, <2>4, <3>4
      <3>5. QED
        BY <3>2, <3>3, <3>4
    <2>5. QED
      BY <2>3, <2>4
  <1>5. ASSUME NEW n \in Notes, Whatsapp!SaveSent(n)
        PROVE  (m \in Notes \ muddled => MessageInv(m))'
    <2>1. /\ sender[n].at = "taken"
          /\ note' = [note EXCEPT ![n].status = "SENT", ![n].id = TRUE]
          /\ sender' = [sender EXCEPT ![n].at = "over"]
          /\ reached' = reached /\ hook' = hook /\ copies' = copies /\ seen' = seen
          /\ muddled' = muddled
      BY <1>5 DEF Whatsapp!SaveSent
    <2>2. CASE m # n
      <3>1. note'[m] = note[m] /\ sender'[m] = sender[m]
        BY <1>a, <2>1, <2>2
      <3>2. QED
        BY <1>b, <2>1, <3>1, MessageKept
    <2>3. CASE m = n
      <3>1. note'[n].status = "SENT"
        BY <1>a, <2>1 DEF Whatsapp!Row
      <3>2. note'[n].id
        BY <1>a, <2>1 DEF Whatsapp!Row
      <3>3. sender'[n].at = "over"
        BY <1>a, <2>1 DEF Whatsapp!Sender
      <3>4. SUFFICES ASSUME MessageInv(n)
                     PROVE  MessageInv(n)'
        BY <1>b, <2>1, <2>3
      <3>5. /\ Sent(n)' /\ seen'[n] = "none"
            /\ \A w \in Hooks : ~Reads(w, n)'
        BY <2>1, <3>4 DEF MessageInv, Sent, Reads
      <3>6. Said(n)'
        BY <3>1, <3>5 DEF Said
      <3>7. QED
        BY <3>2, <3>3, <3>5, <3>6 DEF MessageInv
    <2>4. QED
      BY <2>2, <2>3
  <1>6. ASSUME NEW n \in Notes, Whatsapp!SaveFailed(n)
        PROVE  (m \in Notes \ muddled => MessageInv(m))'
    <2>1. PICK next \in {"over", "queued"} : sender' = [sender EXCEPT ![n].at = next]
      BY <1>6 DEF Whatsapp!SaveFailed
    <2>2. /\ sender[n].at = "refused"
          /\ note' = [note EXCEPT ![n].status = "FAIL"]
          /\ reached' = reached /\ hook' = hook /\ copies' = copies /\ seen' = seen
          /\ muddled' = muddled
      BY <1>6 DEF Whatsapp!SaveFailed
    <2>3. CASE m # n
      <3>1. note'[m] = note[m] /\ sender'[m] = sender[m]
        BY <1>a, <2>1, <2>2, <2>3
      <3>2. QED
        BY <1>b, <2>2, <3>1, MessageKept
    <2>4. CASE m = n
      <3>1. note'[n].status = "FAIL"
        BY <1>a, <2>2 DEF Whatsapp!Row
      <3>2. sender'[n].at = next
        BY <1>a, <2>1 DEF Whatsapp!Sender
      <3>3. QED
        BY <1>b, <2>2, <2>4, <3>1, <3>2 DEF MessageInv, Unsent, Reads
    <2>5. QED
      BY <2>3, <2>4
  <1>7. ASSUME NEW n \in Notes, Whatsapp!Progress(n)
        PROVE  (m \in Notes \ muddled => MessageInv(m))'
    <2>1. PICK stage \in Whatsapp!Stage :
            /\ \/ Whatsapp!Rank[stage] = Whatsapp!Rank[reached[n]] + 1
               \/ stage = "FAIL"
            /\ reached' = [reached EXCEPT ![n] = stage]
      BY <1>7 DEF Whatsapp!Progress
    <2>2. /\ reached[n] \in {"SENT", "DELIV"}
          /\ note' = note /\ sender' = sender /\ hook' = hook /\ copies' = copies
          /\ seen' = seen /\ muddled' = muddled
      BY <1>7 DEF Whatsapp!Progress
    <2>3. CASE m # n
      <3>1. reached'[m] = reached[m]
        BY <1>a, <2>1, <2>3
      <3>2. QED
        BY <1>b, <2>2, <3>1, MessageKept
    <2>4. CASE m = n
      <3>1. reached'[n] = stage
        BY <1>a, <2>1
      <3>2. stage \in {"DELIV", "READ", "FAIL"}
        BY <2>1, <2>2 DEF Whatsapp!Stage, Whatsapp!Rank
      <3>3. Sent(n) => Sent(n)'
        BY <2>2, <3>1, <3>2 DEF Sent
      <3>4. ~Unsent(n)
        BY <2>2 DEF Unsent
      <3>5. SUFFICES ASSUME MessageInv(n)
                     PROVE  MessageInv(n)'
        BY <1>b, <2>2, <2>4
      <3>6. \A w \in Hooks : Reads(w, n)' <=> Reads(w, n)
        BY <2>2 DEF Reads
      <3>7. Said(n)' <=> Said(n)
        BY <2>2 DEF Said
      <3>8. QED
        BY <2>2, <3>3, <3>4, <3>5, <3>6, <3>7 DEF MessageInv
    <2>5. QED
      BY <2>3, <2>4
  <1>8. ASSUME NEW w \in Hooks, NEW n \in Notes, NEW stage \in Whatsapp!Stage,
               Whatsapp!Receive(w, n, stage)
        PROVE  (m \in Notes \ muddled => MessageInv(m))'
    <2> DEFINE receipt == [kind |-> "receipt", note |-> n, stage |-> stage,
                           delivered |-> note[n].delivered]
    <2>1. /\ hook[w] = Whatsapp!Idle
          /\ Whatsapp!Rank[stage] <= Whatsapp!Rank[reached[n]]
          /\ hook' = IF note[n].id THEN [hook EXCEPT ![w] = receipt] ELSE hook
          /\ seen' = [seen EXCEPT ![n] = stage]
          /\ note' = note /\ sender' = sender /\ reached' = reached /\ copies' = copies
      BY <1>8 DEF Whatsapp!Receive
    <2>2. muddled' = IF Whatsapp!Orderly(n, stage) THEN muddled ELSE muddled \cup {n}
      BY <1>8 DEF Whatsapp!Receive
    <2>3. hook[w].kind = "idle" /\ receipt.kind = "receipt" /\ receipt.note = n
          /\ receipt.stage = stage
      BY <2>1 DEF Whatsapp!Idle
    <2>4. \A v \in Hooks : v # w => hook'[v] = hook[v]
      BY <1>a, <2>1
    <2>4a. hook'[w] \in {receipt, hook[w]}
      BY <1>a, <2>1
    <2>4b. note[n].id => hook'[w] = receipt
      BY <1>a, <2>1
    <2> HIDE DEF receipt
    <2>5. CASE m # n
      <3>1. seen'[m] = seen[m] /\ muddled \subseteq muddled'
        BY <1>a, <2>1, <2>2, <2>5
      <3>2. \A v \in Hooks : Reads(v, m)' => v # w
        BY <2>3, <2>4a, <2>5 DEF Reads
      <3>3. \A v \in Hooks : Reads(v, m) => v # w
        BY <2>3 DEF Reads
      <3>4. QED
        BY <1>b, <2>1, <2>4, <3>1, <3>2, <3>3, MessageKept
    <2>6. CASE m = n
      <3> SUFFICES ASSUME n \notin muddled'
                   PROVE  MessageInv(n)'
        BY <2>6
      <3>1. Whatsapp!Orderly(n, stage) /\ n \notin muddled
        BY <2>2
      <3>2. /\ sender[n].at = "over" /\ \A v \in Hooks : ~Reads(v, n)
        BY <3>1 DEF Whatsapp!Orderly, Whatsapp!Reading, Reads
      <3>3. reached[n] # "none" /\ (reached[n] = "SENT" => stage = "SENT")
        BY <2>1, Ranks
      <3>4. Sent(n) /\ note[n].id
        BY <1>b, <2>6, <3>1, <3>2, <3>3 DEF MessageInv, Unsent
      <3>5. seen'[n] = stage
        BY <1>a, <2>1
      <3>6. Sent(n)'
        BY <2>1, <3>3, <3>4, <3>5 DEF Sent
      <3>7. Reads(w, n)' /\ hook'[w].stage = stage
        BY <2>3, <2>4b, <3>4 DEF Reads
      <3>8. \A v \in Hooks : Reads(v, n)' => v = w
        BY <2>4, <3>2 DEF Reads
      <3>9. QED
        BY <2>1, <3>2, <3>4, <3>5, <3>6, <3>7, <3>8 DEF MessageInv
    <2>7. QED
      BY <2>5, <2>6
  <1>9. ASSUME NEW w \in Hooks, Whatsapp!Record(w)
        PROVE  (m \in Notes \ muddled => MessageInv(m))'
    <2>1. /\ hook[w].kind = "receipt"
          /\ hook[w].note \in Notes /\ hook[w].stage \in Whatsapp!Stage
          /\ hook[w].delivered \in BOOLEAN
      BY <1>9, <1>a DEF Whatsapp!Record, Whatsapp!Hook, Whatsapp!Idle
    <2>2. PICK n \in Notes : n = hook[w].note
      BY <2>1
    <2>3. PICK stage \in Whatsapp!Stage : stage = hook[w].stage
      BY <2>1
    <2> DEFINE arrived == hook[w].delivered \/ hook[w].stage = "DELIV"
               row == [note[n] EXCEPT !.status = stage, !.delivered = arrived]
    <2>4. /\ sender' = sender /\ reached' = reached /\ copies' = copies /\ seen' = seen
          /\ muddled' = muddled
          /\ hook' = [hook EXCEPT ![w] = Whatsapp!Idle]
      BY <1>9 DEF Whatsapp!Record
    <2>5. note'[n] = row /\ \A k \in Notes \ {n} : note'[k] = note[k]
      BY <1>9, <1>a, <2>2, <2>3 DEF Whatsapp!Record
    <2>6. /\ row.status = stage /\ row.id = note[n].id
          /\ row.delivered = arrived
      BY <1>a DEF Whatsapp!Row
    <2>7. stage = "DELIV" => arrived
      BY <2>3
    <2> HIDE DEF row, arrived
    <2>8. /\ hook'[w].kind = "idle"
          /\ \A v \in Hooks : v # w => hook'[v] = hook[v]
      BY <1>a, <2>4 DEF Whatsapp!Idle
    <2>9. CASE m # n
      <3>1. \A v \in Hooks : Reads(v, m) => v # w
        BY <2>2, <2>9 DEF Reads
      <3>2. \A v \in Hooks : Reads(v, m)' => v # w
        BY <2>8 DEF Reads
      <3>3. note'[m] = note[m]
        BY <2>5, <2>9
      <3>4. QED
        BY <1>b, <2>4, <2>8, <3>1, <3>2, <3>3, MessageKept
    <2>10. CASE m = n
      <3> SUFFICES ASSUME n \notin muddled
                   PROVE  MessageInv(n)'
        BY <2>4, <2>10
      <3>1. MessageInv(n)
        BY <1>b, <2>10
      <3>2. Reads(w, n)
        BY <2>1, <2>2 DEF Reads
      <3>3. /\ sender[n].at = "over" /\ Sent(n) /\ note[n].id
            /\ stage = seen[n] /\ \A v \in Hooks : Reads(v, n) => v = w
        BY <1>a, <2>3, <3>1, <3>2 DEF MessageInv, Whatsapp!Sender
      <3>4. \A v \in Hooks : ~Reads(v, n)'
        BY <2>8, <3>3 DEF Reads
      <3>5. note'[n].status = seen'[n]
        BY <2>4, <2>5, <2>6, <3>3
      <3>6. seen'[n] = "DELIV" => note'[n].delivered
        BY <2>4, <2>5, <2>6, <2>7, <3>3
      <3>7. Said(n)'
        BY <2>4, <3>3, <3>5, <3>6 DEF Said, Whatsapp!Stage
      <3>8. note'[n].id
        BY <2>5, <2>6, <3>3
      <3>9. Sent(n)'
        BY <2>4, <3>3 DEF Sent
      <3>10. QED
        BY <2>4, <3>3, <3>4, <3>7, <3>8, <3>9 DEF MessageInv
    <2>11. QED
      BY <2>9, <2>10
  <1>10. CASE Whatsapp!StoreInbound
    BY <1>10, <1>b, MessageKept DEF Whatsapp!StoreInbound
  <1>11. ASSUME NEW w \in Hooks, NEW i \in Inbound, Whatsapp!SendReply(w, i)
         PROVE  (m \in Notes \ muddled => MessageInv(m))'
    <2>1. /\ hook[w].kind = "idle" /\ hook'[w].kind = "reply"
          /\ \A v \in Hooks : v # w => hook'[v] = hook[v]
      BY <1>11, <1>a DEF Whatsapp!SendReply, Whatsapp!Idle
    <2>2. \A v \in Hooks : Reads(v, m) \/ Reads(v, m)' => v # w
      BY <2>1 DEF Reads
    <2>3. /\ note' = note /\ sender' = sender /\ reached' = reached /\ copies' = copies
          /\ seen' = seen /\ muddled' = muddled
      BY <1>11 DEF Whatsapp!SendReply
    <2>4. QED
      BY <1>b, <2>1, <2>2, <2>3, MessageKept
  <1>12. ASSUME NEW w \in Hooks, Whatsapp!SaveReply(w)
         PROVE  (m \in Notes \ muddled => MessageInv(m))'
    <2>1. /\ hook[w].kind = "reply" /\ hook'[w].kind = "idle"
          /\ \A v \in Hooks : v # w => hook'[v] = hook[v]
      BY <1>12, <1>a DEF Whatsapp!SaveReply, Whatsapp!Idle
    <2>2. \A v \in Hooks : Reads(v, m) \/ Reads(v, m)' => v # w
      BY <2>1 DEF Reads
    <2>3. /\ note' = note /\ sender' = sender /\ reached' = reached /\ copies' = copies
          /\ seen' = seen /\ muddled' = muddled
      BY <1>12 DEF Whatsapp!SaveReply
    <2>4. QED
      BY <1>b, <2>1, <2>2, <2>3, MessageKept
  <1>13. QED
    BY <1>1, <1>2, <1>3, <1>4, <1>5, <1>6, <1>7, <1>8, <1>9, <1>10, <1>11, <1>12
    DEF Whatsapp!Next

(* Once sending is over and the receipts are processed, the notification   *)
(* log says FAIL for a message nobody got and otherwise how far it came,   *)
(* unless an answer was lost or receipts were early, repeated or at once.  *)
THEOREM LogsAreRight == Spec => []LogTellsDelivery
  <1>1. Init => LogInv
    <2>1. Init => Whatsapp!Init /\ MessagesInv
      BY PartsStart, MessagesStart, IntegrationsAssumption DEF IntegrationsAssumption
    <2>2. Whatsapp!Init => \A n \in Notes : MessageInv(n)
      BY DEF Whatsapp!Init, Whatsapp!Idle, MessageInv, Unsent, Reads
    <2>3. QED
      BY <2>1, <2>2 DEF LogInv
  <1>2. LogInv /\ [Next]_vars => LogInv'
    BY PartsMove, LogStep, IntegrationsAssumption DEF IntegrationsAssumption
  <1>3. LogInv => LogTellsDelivery
    <2> SUFFICES ASSUME LogInv, NEW n \in Notes, Whatsapp!Settled(n)
                 PROVE  \/ /\ copies[n] = 0 /\ note[n].status = "FAIL"
                        \/ /\ copies[n] = 1 /\ note[n].status = reached[n]
                           /\ reached[n] = "DELIV" => note[n].delivered
      BY DEF LogTellsDelivery, Whatsapp!LogTellsDelivery
    <2>1. /\ sender[n].at = "over" /\ n \notin muddled
          /\ seen[n] = reached[n] \/ reached[n] \in {"none", "SENT"}
          /\ \A w \in Hooks : ~Reads(w, n)
      BY DEF Whatsapp!Settled, Whatsapp!Reading, Reads
    <2>2. MessageInv(n)
      BY <2>1 DEF LogInv
    <2>3. \/ Unsent(n) /\ note[n].status = "FAIL"
          \/ Sent(n) /\ Said(n)
      BY <2>1, <2>2 DEF MessageInv
    <2>4. QED
      BY <2>1, <2>3 DEF Unsent, Sent, Said
  <1>4. QED
    BY <1>1, <1>2, <1>3, PTL DEF Spec

-----------------------------------------------------------------------------
(* The notification stream.                                                *)

(* A payment whose save was signalled is no longer "none": the messages    *)
(* are counted by the rows.                                                *)
Signalled == {p \in Live!Payments : payment[p] # "none"}

(* With the types, what a page relies on: every socket that is connecting  *)
(* or open is the one the page holds, and a message makes one toast.       *)
LiveInv ==
  /\ Live!TypeOK
  /\ casts = Cardinality(Signalled)
  /\ Live!Live \subseteq {current}
  /\ toasts <= casts

LEMMA CastBound ==
  ASSUME Live!RealtimeAssumption
  PROVE  /\ IsFiniteSet(Signalled) /\ Cardinality(Signalled) \in 0 .. MaxCasts
         /\ IsFiniteSet(Signalled') /\ Cardinality(Signalled') \in 0 .. MaxCasts
  <1>1. MaxCasts \in Nat
    BY DEF Live!RealtimeAssumption
  <1>2. IsFiniteSet(1 .. MaxCasts) /\ Cardinality(1 .. MaxCasts) = MaxCasts
    BY <1>1, FS_Interval
  <1>3. ASSUME NEW S \in SUBSET (1 .. MaxCasts)
        PROVE  IsFiniteSet(S) /\ Cardinality(S) \in 0 .. MaxCasts
    <2>1. IsFiniteSet(S) /\ Cardinality(S) <= MaxCasts
      BY <1>2, FS_Subset
    <2>2. Cardinality(S) \in Nat
      BY <2>1, FS_CardinalityType
    <2>3. QED
      BY <1>1, <2>1, <2>2
  <1>4. Signalled \subseteq 1 .. MaxCasts /\ Signalled' \subseteq 1 .. MaxCasts
    BY DEF Signalled, Live!Payments
  <1>5. QED
    BY <1>3, <1>4

LEMMA LiveStart ==
  ASSUME Live!RealtimeAssumption, Live!Init
  PROVE  LiveInv
  <1>1. Signalled = {}
    BY DEF Signalled, Live!Init, Live!Payments
  <1>2. casts = Cardinality(Signalled)
    BY <1>1, FS_EmptySet DEF Live!Init
  <1>3. sock \in [Live!Sockets -> Live!Socket]
    BY DEF Live!Init, Live!Socket
  <1>4. timers \in [BOOLEAN -> 0 .. MaxTimers]
    BY DEF Live!Init, Live!RealtimeAssumption
  <1>5. /\ current \in Live!Sockets /\ casts \in 0 .. MaxCasts /\ toasts \in Nat
        /\ payment \in [Live!Payments -> {"none", "open", "there", "undone"}]
        /\ stopped \in BOOLEAN /\ joined \subseteq Live!Sockets /\ toasts <= casts
    <2>1. 1 \in 1 .. MaxSockets /\ 0 \in 0 .. MaxCasts
      BY DEF Live!RealtimeAssumption
    <2>2. current = 1 /\ casts = 0 /\ toasts = 0 /\ stopped = FALSE /\ joined = {}
      BY DEF Live!Init
    <2>3. payment \in [Live!Payments -> {"none", "open", "there", "undone"}]
      BY DEF Live!Init
    <2>4. current \in Live!Sockets /\ casts \in 0 .. MaxCasts /\ toasts \in Nat
      BY <2>1, <2>2 DEF Live!Sockets
    <2>5. toasts <= casts
      BY <2>2
    <2>6. stopped \in BOOLEAN /\ joined \subseteq Live!Sockets
      BY <2>2, Zenon
    <2>7. QED
      BY <2>3, <2>4, <2>5, <2>6
  <1>6. Live!Live \subseteq {current}
    BY DEF Live!Init, Live!Live
  <1>7. QED
    BY <1>2, <1>3, <1>4, <1>5, <1>6 DEF LiveInv, Live!TypeOK

LEMMA OpenedTypes ==
  ASSUME Live!RealtimeAssumption, LiveInv, NEW deaf \in BOOLEAN, Live!Opened(deaf),
         current \notin Live!Live
  PROVE  /\ sock' \in [Live!Sockets -> Live!Socket] /\ current' \in Live!Sockets
         /\ Live!Live' \subseteq {current'}
  <1>1. current + 1 \in Live!Sockets /\ current' = current + 1
    BY DEF Live!Opened, LiveInv, Live!TypeOK, Live!Sockets, Live!RealtimeAssumption
  <1>2. [state |-> "connecting", deaf |-> deaf] \in Live!Socket
    BY DEF Live!Socket
  <1>3. sock' \in [Live!Sockets -> Live!Socket]
    BY <1>1, <1>2 DEF Live!Opened, LiveInv, Live!TypeOK
  <1>4. \A s \in Live!Sockets : s # current + 1 => sock'[s] = sock[s]
    BY <1>1 DEF Live!Opened, LiveInv, Live!TypeOK
  <1>5. QED
    BY <1>1, <1>3, <1>4 DEF Live!Live, LiveInv, Live!Sockets

LEMMA LiveStep ==
  ASSUME Live!RealtimeAssumption, LiveInv, [Live!Next]_live
  PROVE  LiveInv'
  <1> USE DEF LiveInv, Live!TypeOK
  <1>1. CASE UNCHANGED live
    BY <1>1 DEF live, Signalled, Live!Live
  <1>2. ASSUME NEW deaf \in BOOLEAN, Live!Timer(deaf)
        PROVE  LiveInv'
    <2>1. timers' \in [BOOLEAN -> 0 .. MaxTimers]
      BY <1>2 DEF Live!Timer, Live!RealtimeAssumption
    <2>2. CASE UNCHANGED <<sock, current>>
      BY <1>2, <2>1, <2>2 DEF Live!Timer, Signalled, Live!Live
    <2>3. CASE current \notin Live!Live /\ Live!Opened(deaf)
      BY <1>2, <2>1, <2>3, OpenedTypes DEF Live!Timer, Signalled
    <2>4. QED
      BY <1>2, <2>2, <2>3 DEF Live!Timer
  <1>3. CASE Live!Online
    <2>1. CASE UNCHANGED <<sock, current>>
      BY <1>3, <2>1 DEF Live!Online, Signalled, Live!Live
    <2>2. CASE sock[current].state = "closed" /\ Live!Opened(TRUE)
      <3>1. current \notin Live!Live
        BY <2>2 DEF Live!Live
      <3>2. QED
        BY <1>3, <2>2, <3>1, OpenedTypes DEF Live!Online, Signalled
    <2>3. QED
      BY <1>3, <2>1, <2>2 DEF Live!Online
  <1>4. ASSUME NEW s \in Live!Sockets, Live!Closed(s)
        PROVE  LiveInv'
    <2>1. sock' \in [Live!Sockets -> Live!Socket]
      BY <1>4 DEF Live!Closed, Live!Socket
    <2>2. Live!Live' \subseteq Live!Live
      BY <1>4 DEF Live!Closed, Live!Live
    <2>3. sock[s].deaf \in BOOLEAN
      BY DEF Live!Socket
    <2>4. ASSUME NEW deaf \in BOOLEAN, Live!Pending < MaxTimers, Live!Schedule(deaf)
          PROVE  timers' \in [BOOLEAN -> 0 .. MaxTimers]
      <3>1. timers[TRUE] \in 0 .. MaxTimers /\ timers[FALSE] \in 0 .. MaxTimers
        OBVIOUS
      <3>2. deaf = TRUE \/ deaf = FALSE
        OBVIOUS
      <3>4. timers[deaf] \in {timers[TRUE], timers[FALSE]}
        BY <3>2, Zenon
      <3>5. timers[TRUE] + timers[FALSE] < MaxTimers /\ MaxTimers \in Nat
        BY <2>4 DEF Live!Pending, Live!RealtimeAssumption
      <3>3. timers[deaf] + 1 \in 0 .. MaxTimers
        <4>1. ASSUME NEW a \in 0 .. MaxTimers, NEW b \in 0 .. MaxTimers, a + b < MaxTimers
              PROVE  \A n \in {a, b} : n + 1 \in 0 .. MaxTimers
          BY <3>5, <4>1
        <4>2. \A n \in {timers[TRUE], timers[FALSE]} : n + 1 \in 0 .. MaxTimers
          BY <3>1, <3>5, <4>1
        <4>3. QED
          BY <3>4, <4>2, Zenon
      <3>6. QED
        BY <2>4, <3>3 DEF Live!Schedule
    <2>5. timers' \in [BOOLEAN -> 0 .. MaxTimers]
      BY <1>4, <2>3, <2>4 DEF Live!Closed
    <2>6. QED
      BY <1>4, <2>1, <2>2, <2>5 DEF Live!Closed, Signalled
  <1>5. CASE Live!DisconnectAll
    <2>1. sock' \in [Live!Sockets -> Live!Socket]
      BY <1>5 DEF Live!DisconnectAll, Live!Socket
    <2>2. Live!Live' \subseteq Live!Live
      BY <1>5 DEF Live!DisconnectAll, Live!Live
    <2>3. QED
      BY <1>5, <2>1, <2>2 DEF Live!DisconnectAll, Signalled
  <1>6. ASSUME NEW s \in Live!Sockets, Live!Accept(s)
        PROVE  LiveInv'
    <2>1. sock' \in [Live!Sockets -> Live!Socket]
      BY <1>6 DEF Live!Accept, Live!Socket
    <2>2. Live!Live' \subseteq Live!Live
      BY <1>6 DEF Live!Accept, Live!Live
    <2>3. QED
      BY <1>6, <2>1, <2>2 DEF Live!Accept, Signalled
  <1>7. ASSUME NEW s \in Live!Sockets, Live!Teardown(s)
        PROVE  LiveInv'
    BY <1>7 DEF Live!Teardown, Live!page, Signalled, Live!Live
  <1>8. ASSUME NEW p \in Live!Payments, Live!SavePayment(p)
        PROVE  LiveInv'
    <2>1. /\ Signalled' = Signalled \cup {p} /\ p \notin Signalled
          /\ payment' \in [Live!Payments -> {"none", "open", "there", "undone"}]
      BY <1>8 DEF Live!SavePayment, Signalled
    <2>2. casts' = Cardinality(Signalled')
      BY <1>8, <2>1, CastBound, FS_AddElement DEF Live!SavePayment
    <2>3. casts' \in 0 .. MaxCasts
      BY <2>2, CastBound
    <2> DEFINE heard == {s \in joined : sock[s].state = "open" /\ ~sock[s].deaf}
    <2>4. heard \subseteq {current}
      BY DEF Live!Live
    <2>5. Cardinality(heard) \in 0 .. 1
      BY <2>4, AtMostOne
    <2>6. toasts' = toasts + Cardinality(heard) /\ casts' = casts + 1
      BY <1>8, SameCardinality, Zenon DEF Live!SavePayment
    <2> HIDE DEF heard
    <2>8. toasts' \in Nat /\ toasts' <= casts'
      BY <2>5, <2>6
    <2>7. QED
      BY <1>8, <2>1, <2>2, <2>3, <2>8 DEF Live!SavePayment, Live!page, Live!Live
  <1>9. ASSUME NEW p \in Live!Payments, Live!EndPayment(p)
        PROVE  LiveInv'
    <2>1. /\ Signalled' = Signalled
          /\ payment' \in [Live!Payments -> {"none", "open", "there", "undone"}]
      BY <1>9 DEF Live!EndPayment, Signalled
    <2>2. QED
      BY <1>9, <2>1 DEF Live!EndPayment, Live!page, Live!Live
  <1>10. QED
    BY <1>1, <1>2, <1>3, <1>4, <1>5, <1>6, <1>7, <1>8, <1>9 DEF Live!Next

LEMMA OneSocket ==
  ASSUME LiveInv
  PROVE  Live!ToastedOnce
  <1>1. Cardinality(Live!Live) \in 0 .. 1
    BY AtMostOne DEF LiveInv
  <1>2. QED
    <2>1. Cardinality(Live!Live) <= 1
      BY <1>1
    <2>2. QED
      BY <2>1, SameCardinality, Zenon DEF LiveInv, Live!ToastedOnce

(* The page has one live socket at most, however often it is navigated and *)
(* reconnected, and announces a payment no more than once.                 *)
THEOREM AnnouncedOnce == Spec => []ToastedOnce
  <1>1. Init => LiveInv
    BY PartsStart, LiveStart, IntegrationsAssumption DEF IntegrationsAssumption
  <1>2. LiveInv /\ [Next]_vars => LiveInv'
    BY PartsMove, LiveStep, IntegrationsAssumption DEF IntegrationsAssumption
  <1>3. LiveInv => ToastedOnce
    BY OneSocket DEF ToastedOnce
  <1>4. QED
    BY <1>1, <1>2, <1>3, PTL DEF Spec

-----------------------------------------------------------------------------
(* The sync endpoint.                                                      *)

(* A delivery that has read is at an operation of the batch; unless writes *)
(* met reads, what it read is still so; and a guest who is in, or was, has *)
(* a folio.                                                                *)
BatchesInv ==
  /\ Batches!TypeOK
  /\ \A d \in Deliveries : post[d].read => post[d].at <= Len(batch)
  /\ ~overlapped =>
       /\ \A d \in Deliveries : post[d].read =>
            post[d].seen = [stay |-> stay, paid |-> inserted["pay"] > 0, task |-> task]
       /\ stay \in {"CHIN", "CHOUT"} => folio # "none"
       /\ stay = "CHOUT" => folio = "SETT"
  /\ Batches!SyncedIsDone

LEMMA BatchesStart ==
  ASSUME Batches!SyncBatchAssumption, Batches!Init
  PROVE  BatchesInv
  <1>1. PICK c \in Cases :
          /\ batch = c.ops /\ stay = c.stay
          /\ folio = IF c.stay = "CHIN" THEN "OPEN" ELSE "none"
    BY DEF Batches!Init
  <1>2. stay \in {"CONF", "CHIN"}
    BY <1>1 DEF Batches!SyncBatchAssumption
  <1>3. folio \in {"none", "OPEN"} /\ (stay = "CHIN" => folio = "OPEN")
    BY <1>1
  <1>4. Batches!Nothing \in Batches!Seen
    BY DEF Batches!Nothing, Batches!Seen, Batches!Stay, Batches!TaskStatus
  <1>5. post \in [Deliveries -> [at : Nat \ {0}, read : BOOLEAN, seen : Batches!Seen]]
    BY <1>4 DEF Batches!Init
  <1>6. /\ inserted = [k \in Batches!Kinds |-> 0] /\ synced = [k \in Batches!Kinds |-> 0]
        /\ raised = 0 /\ overlapped = FALSE /\ task = "PEND"
    BY DEF Batches!Init
  <1>7. Batches!TypeOK
    <2>1. inserted \in [Batches!Kinds -> Nat] /\ synced \in [Batches!Kinds -> Nat]
      BY <1>6
    <2>2. raised \in 0 .. MaxRaised
      BY <1>6 DEF Batches!SyncBatchAssumption
    <2>3. QED
      BY <1>1, <1>2, <1>3, <1>5, <1>6, <2>1, <2>2
         DEF Batches!TypeOK, Batches!Stay, Batches!TaskStatus
  <1>8. \A d \in Deliveries : ~post[d].read
    BY DEF Batches!Init
  <1>9. Batches!SyncedIsDone
    BY <1>6 DEF Batches!SyncedIsDone, Batches!AtMostOnce, Batches!Kinds
  <1>10. QED
    BY <1>2, <1>3, <1>7, <1>8, <1>9 DEF BatchesInv

(* What a delivery reads.                                                  *)
LEMMA ReadFields ==
  ASSUME BatchesInv
  PROVE  [stay |-> stay, paid |-> inserted["pay"] > 0, task |-> task] \in Batches!Seen
  <1>1. (inserted["pay"] > 0) \in BOOLEAN
    OBVIOUS
  <1>2. QED
    BY <1>1 DEF BatchesInv, Batches!TypeOK, Batches!Seen

(* The operation that a delivery is about to write.                        *)
LEMMA OperationType ==
  ASSUME Batches!SyncBatchAssumption, BatchesInv, NEW d \in Deliveries, post[d].read
  PROVE  batch[post[d].at] \in Batches!Kinds
  <1>1. PICK c \in Cases : batch = c.ops
    BY DEF BatchesInv, Batches!TypeOK
  <1>2. batch \in Seq(Batches!Kinds)
    BY <1>1 DEF Batches!SyncBatchAssumption
  <1>3. post[d].at \in 1 .. Len(batch)
    BY <1>2 DEF BatchesInv, Batches!TypeOK
  <1>4. QED
    BY <1>2, <1>3

LEMMA ReadStep ==
  ASSUME Batches!SyncBatchAssumption, BatchesInv, NEW d \in Deliveries, Batches!Read(d)
  PROVE  BatchesInv'
  <1> DEFINE s == [stay |-> stay, paid |-> inserted["pay"] > 0, task |-> task]
  <1>1. s \in Batches!Seen
    BY ReadFields
  <1> HIDE DEF s
  <1>2. post[d] \in [at : Nat \ {0}, read : BOOLEAN, seen : Batches!Seen]
    BY DEF BatchesInv, Batches!TypeOK
  <1>3. post' = [post EXCEPT ![d] = [at |-> post[d].at, read |-> TRUE, seen |-> s]]
    BY DEF Batches!Read, s, BatchesInv, Batches!TypeOK
  <1>4. [at |-> post[d].at, read |-> TRUE, seen |-> s]
          \in [at : Nat \ {0}, read : BOOLEAN, seen : Batches!Seen]
    BY <1>1, <1>2
  <1>5. post' \in [Deliveries -> [at : Nat \ {0}, read : BOOLEAN, seen : Batches!Seen]]
    BY <1>3, <1>4 DEF BatchesInv, Batches!TypeOK
  <1>6. \A e \in Deliveries : post'[e] = IF e = d THEN [at |-> post[d].at, read |-> TRUE, seen |-> s]
                                         ELSE post[e]
    BY <1>3 DEF BatchesInv, Batches!TypeOK
  <1>7. UNCHANGED <<batch, stay, folio, task, inserted, synced, raised, overlapped>>
    BY DEF Batches!Read
  <1>8. Batches!TypeOK'
    BY <1>5, <1>7 DEF BatchesInv, Batches!TypeOK
  <1>9. \A e \in Deliveries : post'[e].read => post'[e].at <= Len(batch')
    <2>1. post[d].at <= Len(batch)
      BY DEF Batches!Read
    <2>2. QED
      BY <1>6, <1>7, <2>1 DEF BatchesInv
  <1>10. ASSUME ~overlapped, NEW e \in Deliveries, post'[e].read
         PROVE  post'[e].seen = s
    BY <1>6, <1>10 DEF BatchesInv, s
  <1>11. Batches!SyncedIsDone'
    BY <1>7 DEF BatchesInv, Batches!SyncedIsDone
  <1>12. QED
    BY <1>7, <1>8, <1>9, <1>10, <1>11 DEF BatchesInv, s

LEMMA OnlineStep ==
  ASSUME Batches!SyncBatchAssumption, BatchesInv, Batches!Online
  PROVE  BatchesInv'
  <1>1. UNCHANGED <<batch, post, inserted, synced, raised>>
    BY DEF Batches!Online
  <1>2. \/ stay = "CONF" /\ stay' = "CANC" /\ folio' = folio /\ task' = task
        \/ stay = "CHIN" /\ stay' = "CHOUT" /\ folio' = "SETT" /\ task' = task
        \/ task = "PEND" /\ task' = "PROG" /\ stay' = stay /\ folio' = folio
        \/ task = "PROG" /\ task' = "COMP" /\ stay' = stay /\ folio' = folio
    BY DEF Batches!Online
  <1>3. /\ overlapped' \in BOOLEAN
        /\ ~overlapped' => ~overlapped /\ \A d \in Deliveries : ~post[d].read
    BY DEF Batches!Online, BatchesInv, Batches!TypeOK
  <1>4. Batches!TypeOK'
    BY <1>1, <1>2, <1>3 DEF BatchesInv, Batches!TypeOK, Batches!Stay, Batches!TaskStatus
  <1>5. Batches!SyncedIsDone'
    BY <1>1, <1>2, <1>3 DEF BatchesInv, Batches!SyncedIsDone
  <1>6. QED
    BY <1>1, <1>2, <1>3, <1>4, <1>5 DEF BatchesInv

LEMMA ApplyStep ==
  ASSUME Batches!SyncBatchAssumption, BatchesInv, NEW d \in Deliveries, Batches!Apply(d)
  PROVE  BatchesInv'
  <1> DEFINE op == batch[post[d].at]
             s == post[d].seen
  <1>1. post[d].read /\ op \in Batches!Kinds
    BY OperationType DEF Batches!Apply
  <1>2. post' = [post EXCEPT ![d] = [at |-> post[d].at + 1, read |-> FALSE,
                                     seen |-> Batches!Nothing]]
    BY DEF Batches!Apply, BatchesInv, Batches!TypeOK
  <1>3. post' \in [Deliveries -> [at : Nat \ {0}, read : BOOLEAN, seen : Batches!Seen]]
    <2>1. Batches!Nothing \in Batches!Seen
      BY DEF Batches!Nothing, Batches!Seen, Batches!Stay, Batches!TaskStatus
    <2>2. post[d].at + 1 \in Nat \ {0}
      BY DEF BatchesInv, Batches!TypeOK
    <2>3. QED
      BY <1>2, <2>1, <2>2 DEF BatchesInv, Batches!TypeOK
  <1>4. /\ ~post'[d].read
        /\ \A e \in Deliveries : e # d => post'[e] = post[e]
    BY <1>2 DEF BatchesInv, Batches!TypeOK
  <1>5. UNCHANGED batch
    BY DEF Batches!Apply
  <1>6. \A e \in Deliveries : post'[e].read => post'[e].at <= Len(batch')
    BY <1>4, <1>5 DEF BatchesInv
  <1>7. ASSUME ~overlapped
        PROVE  s = [stay |-> stay, paid |-> inserted["pay"] > 0, task |-> task]
    BY <1>1, <1>7 DEF BatchesInv
  <1>8. ASSUME ~overlapped
        PROVE  /\ s.stay = stay /\ s.task = task
               /\ s.paid => inserted["pay"] > 0
               /\ inserted["pay"] > 0 => s.paid
    <2>1. /\ s.stay = stay /\ s.task = task
          /\ s.paid = (inserted["pay"] > 0)
      <3>1. ASSUME NEW x
            PROVE  LET read == [stay |-> stay, paid |-> x, task |-> task]
                   IN  read.stay = stay /\ read.paid = x /\ read.task = task
        OBVIOUS
      <3>2. QED
        BY <1>7, <1>8, <3>1, Zenon
    <2> HIDE DEF s
    <2>2. QED
      BY <2>1, Zenon
  <1> DEFINE Quiet == UNCHANGED <<stay, folio, task, inserted, overlapped>>
  <1>10. ASSUME Quiet, raised' \in 0 .. MaxRaised, synced' \in [Batches!Kinds -> Nat],
                Batches!SyncedIsDone'
         PROVE  BatchesInv'
    <2>1. Batches!TypeOK'
      BY <1>3, <1>5, <1>10 DEF BatchesInv, Batches!TypeOK
    <2>2. \A e \in Deliveries : post'[e].read => post'[e] = post[e]
      BY <1>4
    <2>3. QED
      BY <1>5, <1>6, <1>10, <2>1, <2>2 DEF BatchesInv
  <1>11. CASE /\ op # "other" /\ Batches!Done(op, s)
              /\ synced' = [synced EXCEPT ![op] = @ + 1]
              /\ Batches!Nowhere /\ UNCHANGED raised
    <2>1. Quiet
      BY <1>11 DEF Batches!Nowhere
    <2>2. synced' \in [Batches!Kinds -> Nat] /\ raised' \in 0 .. MaxRaised
      BY <1>1, <1>11 DEF BatchesInv, Batches!TypeOK
    <2>3. \A k \in Batches!Kinds : synced'[k] = IF k = op THEN synced[k] + 1 ELSE synced[k]
      BY <1>11 DEF BatchesInv, Batches!TypeOK
    <2>4. ASSUME ~overlapped
          PROVE  \/ op = "in" /\ stay = "CHIN"
                 \/ op = "out" /\ stay = "CHOUT"
                 \/ op = "pay" /\ inserted["pay"] > 0
                 \/ op = "begin" /\ task = "PROG"
                 \/ op = "finish" /\ task = "COMP"
                 \/ op = "eis" /\ inserted["eis"] > 0
      BY <1>8, <1>11, <2>4 DEF Batches!Done
    <2> HIDE DEF op, s
    <2>5. ASSUME ~overlapped
          PROVE  /\ synced'["in"] > 0 => stay' \in {"CHIN", "CHOUT"} /\ folio' # "none"
                 /\ synced'["out"] > 0 => stay' = "CHOUT" /\ folio' = "SETT"
                 /\ synced'["begin"] > 0 => task' # "PEND"
                 /\ synced'["finish"] > 0 => task' = "COMP"
      BY <2>1, <2>3, <2>4, <2>5 DEF BatchesInv, Batches!SyncedIsDone, Batches!Kinds
    <2>7. ASSUME ~overlapped, NEW k \in {"pay", "eis"}
          PROVE  inserted'[k] = Batches!AtMostOnce(synced'[k])
      <3>1. inserted[k] = (IF synced[k] = 0 THEN 0 ELSE 1) /\ synced[k] \in Nat
        BY <2>7 DEF BatchesInv, Batches!TypeOK, Batches!SyncedIsDone, Batches!Kinds,
                    Batches!AtMostOnce
      <3>2. k \in Batches!Kinds
        BY DEF Batches!Kinds
      <3>3. inserted'[k] = (IF synced'[k] = 0 THEN 0 ELSE 1)
        BY <2>1, <2>3, <2>4, <2>7, <3>1, <3>2
      <3>4. QED
        BY <3>3 DEF Batches!AtMostOnce
    <2>8. ASSUME ~overlapped, NEW k \in {"charge", "cash"}
          PROVE  inserted'[k] = synced'[k]
      BY <2>1, <2>3, <2>4, <2>8 DEF BatchesInv, Batches!SyncedIsDone, Batches!Kinds
    <2>9. Batches!SyncedIsDone'
      BY <2>1, <2>5, <2>7, <2>8 DEF Batches!SyncedIsDone
    <2>6. QED
      BY <1>10, <2>1, <2>2, <2>9
  <1>12. CASE /\ op # "other" /\ ~Batches!Done(op, s) /\ Batches!Allowed(op, s)
              /\ synced' = [synced EXCEPT ![op] = @ + 1]
              /\ Batches!Perform(op) /\ UNCHANGED raised
    <2>1. synced' \in [Batches!Kinds -> Nat] /\ raised' \in 0 .. MaxRaised
      BY <1>1, <1>12 DEF BatchesInv, Batches!TypeOK
    <2>2. \A k \in Batches!Kinds : synced'[k] = IF k = op THEN synced[k] + 1 ELSE synced[k]
      BY <1>12 DEF BatchesInv, Batches!TypeOK
    <2> HIDE DEF op
    <2>3. /\ inserted' \in [Batches!Kinds -> Nat]
          /\ \A k \in Batches!Kinds :
               inserted'[k] = IF k = op /\ op \in {"charge", "cash", "pay", "eis"}
                              THEN inserted[k] + 1 ELSE inserted[k]
      <3>1. inserted \in [Batches!Kinds -> Nat]
        BY DEF BatchesInv, Batches!TypeOK
      <3>2. CASE op \in {"charge", "cash", "pay", "eis"}
        <4>1. inserted' = [inserted EXCEPT ![op] = @ + 1]
          BY <1>12, <3>2 DEF Batches!Perform
        <4>2. QED
          BY <1>1, <3>1, <3>2, <4>1
      <3>3. CASE op \notin {"charge", "cash", "pay", "eis"}
        <4>1. inserted' = inserted
          BY <1>12, <3>3 DEF Batches!Perform
        <4>2. QED
          BY <3>1, <3>3, <4>1
      <3>4. QED
        BY <3>2, <3>3
    <2>4. /\ overlapped' \in BOOLEAN
          /\ ~overlapped' => ~overlapped /\ \A e \in Deliveries : ~post'[e].read
      BY <1>12 DEF Batches!Perform, BatchesInv, Batches!TypeOK
    <2>5. /\ stay' = IF op = "in" THEN "CHIN" ELSE IF op = "out" THEN "CHOUT" ELSE stay
          /\ folio' = IF op = "in" /\ folio = "none" THEN "OPEN"
                      ELSE IF op = "out" THEN "SETT" ELSE folio
          /\ task' = IF op = "begin" THEN "PROG" ELSE IF op = "finish" THEN "COMP" ELSE task
      BY <1>12 DEF Batches!Perform
    <2>6. ASSUME ~overlapped
          PROVE  /\ op = "in" => stay = "CONF"
                 /\ op = "out" => stay = "CHIN"
                 /\ op = "begin" => task = "PEND"
                 /\ op = "finish" => task = "PROG"
                 /\ op \in {"pay", "eis"} => ~(inserted[op] > 0)
      BY <1>8, <1>12, <2>6 DEF Batches!Done, Batches!Allowed
    <2> HIDE DEF op, s
    <2>7. Batches!TypeOK'
      BY <1>3, <1>5, <2>1, <2>3, <2>4, <2>5
         DEF BatchesInv, Batches!TypeOK, Batches!Stay, Batches!TaskStatus
    <2>8. ASSUME ~overlapped'
          PROVE  /\ stay' \in {"CHIN", "CHOUT"} => folio' # "none"
                 /\ stay' = "CHOUT" => folio' = "SETT"
      BY <2>4, <2>5, <2>6, <2>8 DEF BatchesInv
    <2>11. ASSUME ~overlapped'
           PROVE  /\ synced'["in"] > 0 => stay' \in {"CHIN", "CHOUT"} /\ folio' # "none"
                  /\ synced'["out"] > 0 => stay' = "CHOUT" /\ folio' = "SETT"
      BY <2>2, <2>4, <2>5, <2>6, <2>8, <2>11 DEF BatchesInv, Batches!SyncedIsDone, Batches!Kinds
    <2>12. ASSUME ~overlapped'
           PROVE  /\ synced'["begin"] > 0 => task' # "PEND"
                  /\ synced'["finish"] > 0 => task' = "COMP"
      BY <2>2, <2>4, <2>5, <2>6, <2>12 DEF BatchesInv, Batches!SyncedIsDone, Batches!Kinds
    <2>13. ASSUME ~overlapped', NEW k \in {"pay", "eis"}
           PROVE  inserted'[k] = Batches!AtMostOnce(synced'[k])
      <3>1. inserted[k] = (IF synced[k] = 0 THEN 0 ELSE 1) /\ synced[k] \in Nat
        BY <2>4, <2>13 DEF BatchesInv, Batches!TypeOK, Batches!SyncedIsDone, Batches!Kinds,
                           Batches!AtMostOnce
      <3>2. k \in Batches!Kinds
        BY DEF Batches!Kinds
      <3>3. inserted'[k] = (IF synced'[k] = 0 THEN 0 ELSE 1)
        BY <2>2, <2>3, <2>4, <2>6, <2>13, <3>1, <3>2
      <3>4. QED
        BY <3>3 DEF Batches!AtMostOnce
    <2>14. ASSUME ~overlapped', NEW k \in {"charge", "cash"}
           PROVE  inserted'[k] = synced'[k]
      BY <2>2, <2>3, <2>4, <2>14 DEF BatchesInv, Batches!SyncedIsDone, Batches!Kinds
    <2>9. Batches!SyncedIsDone'
      BY <2>11, <2>12, <2>13, <2>14 DEF Batches!SyncedIsDone
    <2>10. QED
      BY <1>6, <2>4, <2>7, <2>8, <2>9 DEF BatchesInv
  <1>13. CASE Batches!Nowhere /\ UNCHANGED synced /\ raised' \in 0 .. MaxRaised
    <2>1. Quiet
      BY <1>13 DEF Batches!Nowhere
    <2>2. synced' \in [Batches!Kinds -> Nat] /\ Batches!SyncedIsDone'
      BY <1>13, <2>1 DEF BatchesInv, Batches!TypeOK, Batches!SyncedIsDone
    <2>3. QED
      BY <1>10, <1>13, <2>1, <2>2
  <1>9. raised < MaxRaised => raised + 1 \in 0 .. MaxRaised
    BY DEF BatchesInv, Batches!TypeOK, Batches!SyncBatchAssumption
  <1>15. raised \in 0 .. MaxRaised
    BY DEF BatchesInv, Batches!TypeOK
  <1>14. QED
    BY <1>9, <1>11, <1>12, <1>13, <1>15, Zenon DEF Batches!Apply

LEMMA BatchesStep ==
  ASSUME Batches!SyncBatchAssumption, BatchesInv, [Batches!Next]_batches
  PROVE  BatchesInv'
  <1>1. CASE UNCHANGED batches
    BY <1>1 DEF batches, BatchesInv, Batches!TypeOK, Batches!SyncedIsDone
  <1>2. QED
    BY <1>1, ReadStep, ApplyStep, OnlineStep DEF Batches!Next

(* What a device was told is synced has happened, also when a delivery     *)
(* fails in part and the batch is sent again, unless a write came between  *)
(* what another delivery read and what it wrote.                           *)
THEOREM SyncsAreDone == Spec => []SyncedIsDone
  <1>1. Init => BatchesInv
    BY PartsStart, BatchesStart, IntegrationsAssumption DEF IntegrationsAssumption
  <1>2. BatchesInv /\ [Next]_vars => BatchesInv'
    BY PartsMove, BatchesStep, IntegrationsAssumption DEF IntegrationsAssumption
  <1>3. BatchesInv => SyncedIsDone
    BY DEF BatchesInv, SyncedIsDone
  <1>4. QED
    BY <1>1, <1>2, <1>3, PTL DEF Spec

-----------------------------------------------------------------------------
(* The pages.                                                              *)

(* How many redirects a page is at most away from an answer, as long as    *)
(* nobody changes the account.                                             *)
Rank(site, p) ==
  CASE site = "tenant" /\ p \in {"dashboard", "admin"} -> 0
    [] site = "tenant" /\ p = "home" -> 1
    [] site = "tenant" /\ p = "login" -> 2
    [] site = "tenant" /\ p = "staff" -> 4
    [] site = "public" /\ "public" \in signedIn /\ p = "mfa" -> 0
    [] site = "public" /\ "public" \in signedIn /\ p \in {"complete", "admin"} -> 1
    [] site = "public" /\ "public" \in signedIn /\ p = "public_home" -> 2
    [] site = "public" /\ "public" \in signedIn /\ p \notin {"mfa", "complete", "admin", "public_home", "login"} -> 4
    [] site = "public" /\ "public" \notin signedIn /\ p = "login" -> 0
    [] site = "public" /\ "public" \notin signedIn /\ p # "login" -> 1
    [] OTHER -> 3

PageTypes == account \in Browser!Account /\ signedIn \subseteq Browser!Sites

(* An answer is final, or a redirect to a page that is nearer to one.      *)
Nearer(a, site, p) ==
  \/ a \in {Browser!Show, Browser!Refuse, Browser!Fail}
  \/ \E s, q : /\ a = Browser!Redirect(<<s, q>>)
               /\ <<s, q>> \in Browser!Page
               /\ Browser!Orphan \/ Rank(s, q) < Rank(site, p)

LEMMA RedirectNearer ==
  ASSUME NEW site, NEW p, NEW s, NEW q, <<s, q>> \in Browser!Page,
         Browser!Orphan \/ Rank(s, q) < Rank(site, p)
  PROVE  Nearer(Browser!Redirect(<<s, q>>), site, p)
  BY DEF Nearer

LEMMA ViewNearer ==
  ASSUME PageTypes, NEW site, NEW p, <<site, p>> \in Browser!Page,
         ~Browser!NeedsSetup(site, p), ~Browser!NeedsMfa(site, p)
  PROVE  Nearer(Browser!View(site, p), site, p)
  <1> USE DEF PageTypes, Browser!Page, Browser!Everywhere, Browser!TenantOnly, Browser!Sites,
              Browser!Account
  <1> DEFINE v == Browser!View(site, p)
  <1>1. CASE p = "login"
    <2>1. v = IF site \in signedIn THEN Browser!Redirect(Browser!Home(site)) ELSE Browser!Show
      BY <1>1 DEF Browser!View, Browser!Login
    <2>2. CASE site = "public" /\ site \in signedIn
      <3>1. v = Browser!Redirect(<<"public", "public_home">>)
        BY <2>1, <2>2 DEF Browser!Home
      <3>2. Rank("public", "public_home") < Rank(site, p)
        BY <1>1, <2>2 DEF Rank
      <3>3. QED
        BY <3>1, <3>2, RedirectNearer
    <2>3. CASE site = "tenant" /\ site \in signedIn
      BY <1>1, <2>1, <2>3 DEF Nearer, Rank, Browser!Home
    <2>4. QED
      BY <2>1, <2>2, <2>3 DEF Nearer
  <1>2. CASE p = "mfa"
    <2>1. v = IF site \in signedIn THEN Browser!Show ELSE Browser!Redirect(<<site, "login">>)
      BY <1>2 DEF Browser!View, Browser!SecondFactor
    <2>2. site \notin signedIn => Rank(site, "login") < Rank(site, p)
      BY <1>2 DEF Rank
    <2>3. <<site, "login">> \in Browser!Page
      OBVIOUS
    <2>4. QED
      BY <2>1, <2>2, <2>3 DEF Nearer
  <1>3. ASSUME site = "tenant", p \in {"signup", "success", "complete", "platform"}
        PROVE  Nearer(Browser!TurnedAway(site), site, p)
    <2>1. Rank(site, "home") < Rank(site, p) /\ Rank(site, "login") < Rank(site, p)
      BY <1>3 DEF Rank
    <2>2. <<site, "home">> \in Browser!Page /\ <<site, "login">> \in Browser!Page
      BY <1>3
    <2>3. QED
      BY <2>1, <2>2, RedirectNearer DEF Browser!TurnedAway
  <1>4. CASE p \in {"signup", "success"}
    <2>1. v = IF site = "public" THEN Browser!Show ELSE Browser!TurnedAway(site)
      BY <1>4 DEF Browser!View, Browser!Signup
    <2>2. QED
      BY <1>3, <1>4, <2>1 DEF Nearer
  <1>5. CASE p = "complete"
    <2>1. v = Browser!Complete(site)
      BY <1>5 DEF Browser!View
    <2>2. CASE site \in signedIn /\ account.member # "none"
      <3>1. v = IF site = "public" THEN Browser!Fail ELSE Browser!Redirect(<<site, "home">>)
        BY <2>1, <2>2 DEF Browser!Complete
      <3>2. CASE site = "public"
        BY <3>1, <3>2 DEF Nearer
      <3>3. CASE site = "tenant"
        <4>1. Rank(site, "home") < Rank(site, p)
          BY <1>5, <3>3 DEF Rank
        <4>2. QED
          BY <3>1, <3>3, <4>1, RedirectNearer
      <3>4. QED
        BY <3>2, <3>3
    <2>3. CASE ~(site \in signedIn /\ account.member # "none") /\ site = "tenant"
      BY <1>3, <1>5, <2>1, <2>3 DEF Browser!Complete
    <2>4. CASE ~(site \in signedIn /\ account.member # "none") /\ site = "public"
      BY <1>5, <2>1, <2>4 DEF Nearer, Rank, Browser!Complete
    <2>5. QED
      BY <2>2, <2>3, <2>4
  <1>6. CASE p = "platform"
    <2>1. v = Browser!Platform(site)
      BY <1>6 DEF Browser!View
    <2>2. CASE site = "tenant"
      BY <1>3, <1>6, <2>1, <2>2 DEF Browser!Platform
    <2>3. CASE site = "public"
      BY <1>6, <2>1, <2>3 DEF Nearer, Rank, Browser!Platform
    <2>4. QED
      BY <2>2, <2>3
  <1>7. CASE p = "public_home"
    <2>1. v = Browser!PublicHome /\ site = "public"
      BY <1>7 DEF Browser!View
    <2>2. QED
      <3>1. "public" \in signedIn => Rank("public", "admin") < Rank(site, p)
        BY <1>7, <2>1 DEF Rank
      <3>2. "public" \in signedIn => Rank("tenant", "home") < Rank(site, p)
        BY <1>7, <2>1 DEF Rank
      <3>3. \/ v = Browser!Show
            \/ "public" \in signedIn /\ v = Browser!Redirect(<<"public", "admin">>)
            \/ "public" \in signedIn /\ v = Browser!Redirect(<<"tenant", "home">>)
        BY <2>1 DEF Browser!PublicHome
      <3>4. <<"public", "admin">> \in Browser!Page /\ <<"tenant", "home">> \in Browser!Page
        OBVIOUS
      <3>5. v = Browser!Show => Nearer(v, site, p)
        BY DEF Nearer
      <3>6. QED
        BY <3>1, <3>2, <3>3, <3>4, <3>5, RedirectNearer
  <1>8. CASE p = "home"
    <2>1. v = Browser!TenantHome /\ site = "tenant"
      BY <1>8 DEF Browser!View
    <2>2. QED
      <3>1. Rank("tenant", "dashboard") < Rank(site, p)
        BY <1>8, <2>1 DEF Rank
      <3>2. v \in {Browser!Show, Browser!Redirect(<<"tenant", "dashboard">>)}
        BY <2>1 DEF Browser!TenantHome
      <3>3. v = Browser!Show => Nearer(v, site, p)
        BY DEF Nearer
      <3>4. <<"tenant", "dashboard">> \in Browser!Page
        OBVIOUS
      <3>5. QED
        BY <3>1, <3>2, <3>3, <3>4, RedirectNearer
  <1>9. CASE p = "billing"
    <2>1. v = Browser!BillingPage /\ site = "tenant"
      BY <1>9 DEF Browser!View
    <2>2. QED
      BY <1>9, <2>1 DEF Nearer, Rank, Browser!BillingPage
  <1>10. CASE p = "staff"
    <2>1. v = Browser!StaffPage /\ site = "tenant"
      BY <1>10 DEF Browser!View
    <2>2. QED
      <3>1. Rank("tenant", "billing") < Rank(site, p) /\ Rank("tenant", "login") < Rank(site, p)
        BY <1>10, <2>1 DEF Rank
      <3>2. v \in {Browser!Show, Browser!Refuse, Browser!Redirect(<<"tenant", "billing">>),
                   Browser!Redirect(<<"tenant", "login">>)}
        BY <2>1 DEF Browser!StaffPage
      <3>3. v \in {Browser!Show, Browser!Refuse} => Nearer(v, site, p)
        BY DEF Nearer
      <3>4. <<"tenant", "billing">> \in Browser!Page /\ <<"tenant", "login">> \in Browser!Page
        OBVIOUS
      <3>5. QED
        BY <3>1, <3>2, <3>3, <3>4, RedirectNearer
  <1>11. CASE p \in {"admin", "dashboard"}
    BY <1>11 DEF Nearer, Browser!View
  <1>12. QED
    BY <1>1, <1>2, <1>4, <1>5, <1>6, <1>7, <1>8, <1>9, <1>10, <1>11

LEMMA AnswerNearer ==
  ASSUME PageTypes, NEW site, NEW p, <<site, p>> \in Browser!Page
  PROVE  Nearer(Browser!Answer(site, p), site, p)
  <1> USE DEF Browser!Page, Browser!Everywhere, Browser!TenantOnly, Browser!Sites
  <1> DEFINE a == Browser!Answer(site, p)
  <1>1. CASE Browser!NeedsSetup(site, p)
    <2>1. a = Browser!Redirect(<<site, "complete">>)
      BY <1>1 DEF Browser!Answer
    <2>2. site = "tenant" => Browser!Orphan
      BY <1>1 DEF Browser!NeedsSetup, Browser!Orphan
    <2>3. site = "public" => Rank(site, "complete") < Rank(site, p)
      BY <1>1 DEF Browser!NeedsSetup, Browser!SetupExempt, Rank
    <2>4. <<site, "complete">> \in Browser!Page
      OBVIOUS
    <2>5. QED
      BY <2>1, <2>2, <2>3, <2>4 DEF Nearer
  <1>2. CASE ~Browser!NeedsSetup(site, p) /\ Browser!NeedsMfa(site, p)
    <2>1. a = Browser!Redirect(<<site, "mfa">>)
      BY <1>2 DEF Browser!Answer
    <2>2. site = "public" /\ Rank(site, "mfa") < Rank(site, p)
      BY <1>2 DEF Browser!NeedsMfa, Rank
    <2>3. QED
      BY <2>1, <2>2 DEF Nearer
  <1>3. CASE ~Browser!NeedsSetup(site, p) /\ ~Browser!NeedsMfa(site, p)
    <2>1. a = Browser!View(site, p)
      BY <1>3 DEF Browser!Answer
    <2>2. QED
      BY <1>3, <2>1, ViewNearer
  <1>4. QED
    BY <1>1, <1>2, <1>3

(* Along a trail of redirects, unless the account changed on the way, every *)
(* page redirects, and is farther from an answer than where they led.      *)
PagesInv ==
  /\ Browser!TypeOK
  /\ answer = "asked" /\ ~changed =>
       \A t \in trail : /\ Browser!Answer(t[1], t[2]).kind = "redirect"
                        /\ Browser!Orphan \/ Rank(page[1], page[2]) < Rank(t[1], t[2])
  /\ answer # "asked" /\ ~changed => page \notin trail

LEMMA PageFields ==
  ASSUME NEW p \in Browser!Page
  PROVE  /\ p = <<p[1], p[2]>> /\ p[1] \in Browser!Sites
         /\ p[1] = "public" \/ p[1] = "tenant"
  BY DEF Browser!Page, Browser!Sites

LEMMA RanksAreNumbers ==
  ASSUME NEW site, NEW p
  PROVE  Rank(site, p) \in 0 .. 4
  BY DEF Rank

LEMMA PagesStart ==
  ASSUME Browser!PagesAssumption, Browser!Init
  PROVE  PagesInv
  <1>1. changes \in 0 .. MaxChanges
    BY DEF Browser!PagesAssumption, Browser!Init
  <1>2. trail = {} /\ signedIn = {} /\ answer = "asked" /\ changed = FALSE
    BY DEF Browser!Init
  <1>3. signedIn \subseteq Browser!Sites /\ trail \subseteq Browser!Page
    BY <1>2
  <1>4. Browser!TypeOK
    BY <1>1, <1>2, <1>3 DEF Browser!Init, Browser!TypeOK
  <1>5. QED
    BY <1>2, <1>4 DEF PagesInv

LEMMA SameAnswers ==
  ASSUME UNCHANGED <<account, signedIn>>, NEW site, NEW p
  PROVE  /\ Rank(site, p)' = Rank(site, p)
         /\ Browser!Answer(site, p)' = Browser!Answer(site, p)
  BY DEF Rank, Browser!Answer, Browser!NeedsSetup, Browser!NeedsMfa, Browser!View,
         Browser!Login, Browser!SecondFactor, Browser!Signup, Browser!Complete,
         Browser!Platform, Browser!PublicHome, Browser!TenantHome,
         Browser!BillingPage, Browser!StaffPage, Browser!TurnedAway

LEMMA FollowStep ==
  ASSUME PagesInv, Browser!Follow
  PROVE  PagesInv'
  <1> DEFINE a == Browser!Answer(page[1], page[2])
  <1>1. page \in Browser!Page /\ <<page[1], page[2]>> = page
    BY PageFields DEF PagesInv, Browser!TypeOK
  <1>2. Nearer(a, page[1], page[2])
    BY <1>1, AnswerNearer DEF PagesInv, Browser!TypeOK, PageTypes
  <1>3. /\ answer = "asked"
        /\ IF a.kind = "redirect"
           THEN page' = a.to /\ trail' = trail \cup {page} /\ UNCHANGED answer
           ELSE answer' = a.kind /\ UNCHANGED <<page, trail>>
        /\ UNCHANGED <<account, signedIn, changes, changed>>
    BY DEF Browser!Follow
  <1>4. CASE a \in {Browser!Show, Browser!Refuse, Browser!Fail}
    <2>1. a.kind \in {"shown", "refused", "failed"}
      BY <1>4 DEF Browser!Show, Browser!Refuse, Browser!Fail
    <2> HIDE DEF a
    <2>2. answer' = a.kind /\ UNCHANGED <<page, trail>>
      BY <1>3, <2>1
    <2>3. Browser!TypeOK'
      BY <1>3, <2>1, <2>2 DEF PagesInv, Browser!TypeOK
    <2>4. ASSUME page \in trail, ~changed
          PROVE  FALSE
      BY <1>3, <2>1, <2>4 DEF PagesInv, a
    <2>5. answer' # "asked"
      BY <2>1, <2>2
    <2>6. QED
      BY <1>3, <2>2, <2>3, <2>4, <2>5 DEF PagesInv
  <1>5. ASSUME NEW s, NEW q, a = Browser!Redirect(<<s, q>>), <<s, q>> \in Browser!Page,
               Browser!Orphan \/ Rank(s, q) < Rank(page[1], page[2])
        PROVE  PagesInv'
    <2>1. a.kind = "redirect" /\ a.to = <<s, q>>
      BY <1>5 DEF Browser!Redirect
    <2> HIDE DEF a
    <2>2. page' = <<s, q>> /\ trail' = trail \cup {page} /\ answer' = "asked"
      BY <1>3, <2>1
    <2>3. page'[1] = s /\ page'[2] = q
      BY <2>2
    <2>4. Browser!TypeOK'
      BY <1>1, <1>3, <1>5, <2>2 DEF PagesInv, Browser!TypeOK
    <2>5. Browser!Orphan' <=> Browser!Orphan
      BY <1>3 DEF Browser!Orphan
    <2>6. ASSUME NEW site, NEW p
          PROVE  /\ Rank(site, p)' = Rank(site, p)
                 /\ Browser!Answer(site, p)' = Browser!Answer(site, p)
      BY <1>3, SameAnswers
    <2>7. ASSUME ~changed, NEW t \in trail \cup {page}
          PROVE  /\ Browser!Answer(t[1], t[2]).kind = "redirect"
                 /\ Browser!Orphan \/ Rank(s, q) < Rank(t[1], t[2])
      <3>1. CASE t = page
        BY <1>5, <2>1, <3>1 DEF a
      <3>2. CASE t \in trail
        <4>1. /\ Browser!Answer(t[1], t[2]).kind = "redirect"
              /\ Browser!Orphan \/ Rank(page[1], page[2]) < Rank(t[1], t[2])
          BY <1>3, <2>7, <3>2 DEF PagesInv
        <4>2. QED
          BY <1>5, <4>1, RanksAreNumbers
      <3>3. QED
        BY <2>7, <3>1, <3>2
    <2>8. ASSUME ~changed', NEW t \in trail'
          PROVE  /\ (Browser!Answer(t[1], t[2]).kind = "redirect")'
                 /\ (Browser!Orphan \/ Rank(page[1], page[2]) < Rank(t[1], t[2]))'
      BY <1>3, <2>2, <2>3, <2>5, <2>6, <2>7, <2>8
    <2>9. QED
      BY <2>2, <2>4, <2>8 DEF PagesInv
  <1>6. QED
    BY <1>2, <1>4, <1>5 DEF Nearer

LEMMA PagesStep ==
  ASSUME Browser!PagesAssumption, PagesInv, [Browser!Next]_pages
  PROVE  PagesInv'
  <1> DEFINE fresh == /\ trail' = {} /\ answer' = "asked" /\ changed' = FALSE
                      /\ account' \in Browser!Account /\ signedIn' \subseteq Browser!Sites
                      /\ page' \in Browser!Page /\ changes' = changes
  <1>1. CASE fresh
    <2>1. trail' \subseteq Browser!Page
      BY <1>1
    <2>2. QED
      BY <1>1, <2>1 DEF PagesInv, Browser!TypeOK
  <1>2. CASE UNCHANGED pages
    <2>1. UNCHANGED <<account, signedIn, page, trail, answer, changes, changed>>
      BY <1>2 DEF pages
    <2>2. Browser!TypeOK' /\ (Browser!Orphan' <=> Browser!Orphan)
      BY <2>1 DEF PagesInv, Browser!TypeOK, Browser!Orphan
    <2>3. \A site, p : /\ Rank(site, p)' = Rank(site, p)
                       /\ Browser!Answer(site, p)' = Browser!Answer(site, p)
      BY <2>1, SameAnswers
    <2>4. Rank(page[1], page[2])' = Rank(page[1], page[2])
      BY <2>1 DEF Rank
    <2>5. QED
      BY <2>1, <2>2, <2>3, <2>4 DEF PagesInv
  <1>3. ASSUME NEW p \in Browser!Page, Browser!Open(p)
        PROVE  PagesInv'
    <2>1. fresh
      BY <1>3 DEF Browser!Open, PagesInv, Browser!TypeOK
    <2>2. QED
      BY <1>1, <2>1
  <1>4. CASE Browser!SignIn
    <2>1. page[1] \in Browser!Sites
      BY PageFields DEF PagesInv, Browser!TypeOK
    <2>2. page' \in Browser!Page
      BY <1>4, <2>1
         DEF Browser!SignIn, Browser!Home, Browser!Page, Browser!Everywhere, Browser!TenantOnly,
             Browser!Sites
    <2>3. fresh
      BY <1>4, <2>1, <2>2 DEF Browser!SignIn, PagesInv, Browser!TypeOK
    <2>4. QED
      BY <1>1, <2>3
  <1>5. CASE Browser!SignOut
    <2>1. signedIn' \subseteq Browser!Sites
      BY <1>5 DEF Browser!SignOut, PagesInv, Browser!TypeOK
    <2>2. answer' # "asked" /\ UNCHANGED <<account, page, trail, answer, changes, changed>>
      BY <1>5 DEF Browser!SignOut
    <2>3. QED
      BY <2>1, <2>2 DEF PagesInv, Browser!TypeOK
  <1>6. CASE Browser!Finish
    <2>1. account' \in Browser!Account
      <3>1. /\ [account EXCEPT !.member = "active"] \in Browser!Account
            /\ [account EXCEPT !.mfa = TRUE] \in Browser!Account
        BY DEF PagesInv, Browser!TypeOK, Browser!Account
      <3>2. QED
        BY <1>6, <3>1 DEF Browser!Finish
    <2>2. page' \in Browser!Page
      <3>1. <<"public", "success">> \in Browser!Page
        BY DEF Browser!Page, Browser!Everywhere
      <3>2. QED
        BY <1>6, <3>1 DEF Browser!Finish, PagesInv, Browser!TypeOK
    <2>3. fresh
      BY <1>6, <2>1, <2>2 DEF Browser!Finish, PagesInv, Browser!TypeOK
    <2>4. QED
      BY <1>1, <2>3
  <1>7. CASE Browser!Change
    <2>1. changes' \in 0 .. MaxChanges
      BY <1>7 DEF Browser!Change, PagesInv, Browser!TypeOK, Browser!PagesAssumption
    <2>2. /\ UNCHANGED <<signedIn, page, trail, answer>> /\ account' \in Browser!Account
          /\ changed' = (changed \/ answer = "asked")
      BY <1>7 DEF Browser!Change
    <2>3. changed' \in BOOLEAN
      BY <2>2
    <2>4. Browser!TypeOK'
      BY <2>1, <2>2, <2>3 DEF PagesInv, Browser!TypeOK
    <2>5. ~changed' => ~changed /\ answer # "asked"
      BY <2>2
    <2>6. QED
      BY <2>2, <2>4, <2>5 DEF PagesInv
  <1>8. QED
    BY <1>2, <1>3, <1>4, <1>5, <1>6, <1>7, FollowStep DEF Browser!Next

LEMMA TrailsEnd ==
  ASSUME PagesInv
  PROVE  Browser!RedirectsEnd
  <1>1. ASSUME page \in trail, ~changed, ~Browser!Orphan
        PROVE  FALSE
    <2>1. Rank(page[1], page[2]) < Rank(page[1], page[2])
      BY <1>1 DEF PagesInv, Browser!TypeOK
    <2>2. QED
      BY <2>1, RanksAreNumbers
  <1>2. QED
    BY <1>1 DEF Browser!RedirectsEnd

(* Redirects come to an end whatever page a person asks for, unless the    *)
(* account was changed under way or has no tenant.                         *)
THEOREM TrailsAreFinite == Spec => []RedirectsEnd
  <1>1. Init => PagesInv
    BY PartsStart, PagesStart, IntegrationsAssumption DEF IntegrationsAssumption
  <1>2. PagesInv /\ [Next]_vars => PagesInv'
    BY PartsMove, PagesStep, IntegrationsAssumption DEF IntegrationsAssumption
  <1>3. PagesInv => RedirectsEnd
    BY TrailsEnd DEF RedirectsEnd
  <1>4. QED
    BY <1>1, <1>2, <1>3, PTL DEF Spec

-----------------------------------------------------------------------------
(* All parts.                                                              *)

PartsInv ==
  /\ QueueInv /\ Ledger!TypeOK /\ Eis!TypeOK /\ Rates!TypeOK /\ MessagesInv
  /\ Portal!TypeOK /\ Sites!TypeOK /\ LiveInv /\ BatchesInv
  /\ PagesInv

(* Every variable of every part keeps its type, for any number of copies,  *)
(* processes, rows, devices and people.                                    *)
THEOREM IntegrationTypes == Spec => []TypeOK
  <1> USE IntegrationsAssumption DEF IntegrationsAssumption, PartsInv
  <1>1. Init => PartsInv
    BY PartsStart, QueueStart, LedgerStart, EisStart, RatesStart, MessagesStart, PortalStart,
       SitesStart, LiveStart, BatchesStart, PagesStart
  <1>2. PartsInv /\ [Next]_vars => PartsInv'
    BY PartsMove, QueueStep, LedgerStep, EisTypes, RatesTypes, MessagesStep, PortalTypes,
       SitesTypes, LiveStep, BatchesStep, PagesStep
  <1>3. PartsInv => TypeOK
    BY DEF TypeOK, QueueInv, MessagesInv, LiveInv, BatchesInv, PagesInv
  <1>4. QED
    BY <1>1, <1>2, <1>3, PTL DEF Spec
=============================================================================
