\* Two connections and two threads, used again and again, and a registry that must grow.
SPECIFICATION Spec
CONSTANTS
  Conns = {c1, c2}
  Tids = {t1, t2}
  InitialSize = 1
  MaxCount = 2
  NULL = NULL
  Junk = Junk
INVARIANTS TypeOK ThreadsOwnClients RegistryExact FaultHasCause
PROPERTIES  ShutdownEnds
CHECK_DEADLOCK FALSE
