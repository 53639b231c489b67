CONSTANTS
  NoText = NoText
  NoTime = NoTime
  NoTracker = NoTracker
  Replies <- RepliesOf
  Kinds <- KindsOf
  Outcomes = {"completed", "failed"}
  Settle = 2
  RequestTimeout = 3
  TrackedFamilies <- AllFamilies
  MaxSessions = 2
  MaxClock = 4
  MaxRestarts = 1
SPECIFICATION Spec
INVARIANTS
  TypeOK
  CompletedTurnHasReply
  AnswerIsOfThisSession
PROPERTIES
  SettledMeansStable
CHECK_DEADLOCK FALSE
