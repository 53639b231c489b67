CONSTANTS
  Daemons = {d1}
  Agents = {a1, a2}
  Nobody = Nobody
SPECIFICATION Spec
INVARIANT
  SilentNestedAskIsServed
CHECK_DEADLOCK FALSE
