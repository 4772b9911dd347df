\* Two threads ADD one key.
SPECIFICATION Spec
CONSTANTS
  Keys <- MCKeys
  Slots <- MCSlots
  Hash <- MCHash
  t1 = t1
  t2 = t2
  Threads = {t1, t2}
  May <- Adders
  Preset <- NoPreset
  Cells = {p1, p2, p3}
  Blocks = {v1, v2, v3}
  MaxNumber = 2
  MaxDrift = 0
  Word = Word
  NULL = NULL
  NoArg = NoArg
  Bad = Bad
  Junk = Junk
INVARIANT OneAddWins
CHECK_DEADLOCK FALSE
