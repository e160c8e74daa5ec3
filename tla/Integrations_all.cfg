SPECIFICATION Spec
CONSTANTS
  MaxOps = 2
  Syncs = {s1, s2}
  MaxTries = 4
  QueueRetries = 1
  Workers = {w1, w2, w3}
  MaxPayments = 2
  Logs = {l1, l2}
  Runs = {r1, r2}
  EisRetries = 2
  MaxFaults = 2
  Refreshes = {f1, f2, f3}
  MaxRows = 4
  MaxFailures = 2
  Subjects = {b1}
  Notes = {n1}
  Hooks = {h1, h2}
  Inbound = {i1}
  SendRetries = 2
  Clerks = {c1, c2}
  MaxTokens = 2
  MaxJobs = 2
  People = {p1, p2}
  Names = {t1, t2}
  Desks = {d1, d2}
  MaxSockets = 3
  MaxTimers = 2
  MaxCasts = 2
  Deliveries = {e1, e2}
  Cases <- Recorded
  MaxRaised = 1
  MaxChanges = 1
SYMMETRY Symmetry
CHECK_DEADLOCK FALSE
INVARIANTS
  TypeOK
  SuccessLostNeedsRace
  PromptPaymentsAreLinked
  OnePaymentPerReference
  SubmittedOnce
  OneCurrentRate
  LogTellsDelivery
  LastLinkWorks
  SignupsMakeOneTenant
  ToastedOnce
  SyncedIsDone
  RedirectsEnd
