SPECIFICATION CrashSpec
CONSTANTS
  Jobs = {1, 2}
  Agents = {"a", "b"}
  AgentOf <- MutualAgent
  CallerOf <- MutualCaller
  Verdicts = {"completed"}
  MaxReplies = 1
  MaxCrashes = 2
  NoEvent = none
  Events <- InboundEvents
  Replies <- ReplyEvents
INVARIANTS
  TypeOK
  RepliesWaitForReader
CHECK_DEADLOCK FALSE
