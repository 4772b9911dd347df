\* GET and DEL of one key by two threads.
SPECIFICATION Spec
CONSTANTS
  Keys <- MCKeys
  Slots <- MCSlots
  Hash <- MCHash
  t1 = t1
  t2 = t2
  Threads = {t1, t2}
  May <- Deleters
  Preset <- ZeroPreset
  Cells = {p1, p2}
  Blocks = {v1, v2}
  MaxNumber = 2
  MaxDrift = 0
  Word = Word
  NULL = NULL
  NoArg = NoArg
  Bad = Bad
  Junk = Junk
INVARIANT NoFault
