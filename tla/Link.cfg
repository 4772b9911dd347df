\* One program, one connection.  CHECK_DEADLOCK FALSE: the connection ends,
\* and undefined behaviour stops the model.
SPECIFICATION Spec
CONSTANTS
  RecvLength = 3
  InitialBuffer = 4
  WelcomeRoom = 3
  NoCall = NoCall
  Calls <- MCCalls
  LateCalls <- MCLateCalls
  ArgLists <- MCArgLists
  MaxNumber = 1
  Word = Word
  NoArg = NoArg
  Bad = Bad
  NULL = NULL
CHECK_DEADLOCK FALSE
INVARIANT TypeOK
INVARIANT ChunksFit
INVARIANT ReplyFits
INVARIANT InStep
INVARIANT SameReply
INVARIANT PayloadIntact
INVARIANT FaultHasCause
PROPERTY TornDoesNothing
 
PROPERTY CallReturns
