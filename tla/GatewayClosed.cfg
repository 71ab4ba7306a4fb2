SPECIFICATION Spec
CONSTANTS
  Server = {s1, s2}
  Request = {r1, r2}
  Method = {"GET", "POST"}
  Path = {"current", "almanac/planets"}
  MayRaise = {"wind", "scene"}
  None = None
INVARIANT ClosedAfterDrained
CHECK_DEADLOCK FALSE
