SPECIFICATION LiveSpec
CONSTANTS
  Jobs = {1, 2}
  Agents = {"a", "b"}
  AgentOf <- SelfAgent
  CallerOf <- SelfCaller
  Verdicts = {"completed", "incomplete"}
  MaxReplies = 2
  MaxCrashes = 0
  NoEvent = none
  Events <- InboundEvents
  Replies <- ReplyEvents
INVARIANTS
  MessageTellsTheEnd
  EndedRequestLeavesQueue
  AckNeverPanics
PROPERTIES
  EveryReplyIsRead
