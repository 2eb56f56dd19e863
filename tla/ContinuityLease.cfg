SPECIFICATION BootSpec
CONSTANTS
  Process = {p1, p2, p3}
  NoOwner = NoOwner
  Work = {w1}
  Ttl = 2
  MaxClock = 6
SYMMETRY Symmetry
INVARIANT BootTypeOK
INVARIANT OneWriter
INVARIANT OneOpenBoot
INVARIANT SupersededWorkUncertain
PROPERTY UnexpiredLeaseKept
CHECK_DEADLOCK FALSE
