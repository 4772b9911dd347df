\* A peer closes its connection, and the thread never notices.
SPECIFICATION Spec
CONSTANTS
  Conns = {c1, c2}
  Tids = {t1}
  InitialSize = 1
  MaxCount = 1
  NULL = NULL
  Junk = Junk
PROPERTY DisconnectNoticed
CHECK_DEADLOCK FALSE
