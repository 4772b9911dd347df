\* Two keys that share a slot: one is found under the other's name.
SPECIFICATION Spec
CONSTANTS
  Keys <- MCKeys
  Slots <- MCSlots
  Hash <- MCHash
  Clients = {c1}
  Requests <- Counting
  MaxNumber = 2
  Word = Word
  NULL = NULL
  NoArg = NoArg
  Bad = Bad
INVARIANT GetFindsOwnKey
