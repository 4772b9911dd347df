\* Two threads on slots of their own: neither disturbs the other.
SPECIFICATION Spec
CONSTANTS
  Keys <- MCKeys
  Slots <- MCSlots
  Hash <- MCHash
  t1 = t1
  t2 = t2
  Threads = {t1, t2}
  May <- Owners
  Preset <- NoPreset
  Cells = {p1, p2}
  Blocks = {v1, v2}
  MaxNumber = 2
  MaxDrift = 0
  Word = Word
  NULL = NULL
  NoArg = NoArg
  Bad = Bad
  Junk = Junk
SYMMETRY Memory
INVARIANTS NoFault NoLeak 
PROPERTY ImplementsStore
