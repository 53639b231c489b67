SPECIFICATION Spec
CONSTANTS
  Events = {q1, q2, r1, r2}
  Replies = {r1, r2}
  NoEvent = none
  MaxLeases = 5
CONSTRAINT LeaseBound
SYMMETRY Symmetry
INVARIANTS
  TypeOK
  OnlyHeadDelivers
  SummaryMatchesLog
  LeaseMatchesDelivery
  HeadReplyCanBeAcked
PROPERTIES
  LeaseVersionsGrow
  ImplementsFifoDelivery
