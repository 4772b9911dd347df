\* Two clients, every kind of request, three keys on two slots.
SPECIFICATION Spec
CONSTANTS
  Keys <- MCKeys
  Slots <- MCSlots
  Hash <- MCHash
  Clients = {c1, c2}
  Requests <- Everything
  MaxNumber = 1
  Word = Word
  NULL = NULL
  NoArg = NoArg
  Bad = Bad
INVARIANTS TypeOK CountIsOccupancy DecimalsAreWhole
PROPERTIES ImplementsSlotStore ImplementsLiveSlotStore FailureLeavesTable
