SPECIFICATION Spec
CONSTANTS
  A = A
  B = B
  Logs = {A, B}
  Pane = Pane
  NoText = NoText
  NoTime = NoTime
  Settle = 2
  RequestTimeout = 0
  MaxEntries = 4
  Kinds = {"anchor", "user", "said", "final", "done", "doneMsg", "aborted", "failedMsg"}
  MaxTorn = 1
  MaxRotations = 1
  MaxRestarts = 1
SYMMETRY AnyLog
INVARIANTS
  TypeOK
  AnswerMatchesLog
  DeliveredStaysDelivered
CHECK_DEADLOCK FALSE
