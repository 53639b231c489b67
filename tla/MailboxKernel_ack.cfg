SPECIFICATION CrashSpec
CONSTANTS
  Events = {q1, r1, r2}
  Replies = {r1, r2}
  NoEvent = none
  MaxLeases = 2
CONSTRAINT LeaseBound
INVARIANTS
  HeadReplyCanBeAcked
