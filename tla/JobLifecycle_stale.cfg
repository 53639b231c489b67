SPECIFICATION CrashSpec
CONSTANTS
  Jobs = {1, 2}
  Agents = {"a"}
  AgentOf <- OneAgent
  Adapted = {"a"}
  MaxBatches = 1
  MaxReplies = 2
PROPERTIES
  RestoresOnlyUnfinished
