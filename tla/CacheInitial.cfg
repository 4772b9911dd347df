\* An INITIAL whose point is not its second character.
SPECIFICATION Spec
CONSTANTS
  Keys <- MCKeys
  Slots <- MCSlots
  Hash <- MCHash
  Clients = {c1}
  Requests <- Counting
  MaxNumber = 2
  Word = Word
  NULL = NULL
  NoArg = NoArg
  Bad = Bad
PROPERTY InitialIsInserted
