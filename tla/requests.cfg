\* A batch and the requests of two chats over one parser.
CONSTANTS
  alice = alice
  bob = bob
  private = private
  group = group
  batcher = batcher
  Callers <- MCCallers
  Batcher = batcher
  MaxAttempt = 3
  Size = 3
  LineUser <- MCLineUser
  Answers <- MCAnswers
  MaxTicks = 2
  Chats <- MCChats
  Groups <- MCGroups
  SenderOf <- MCSenderOf
  Words <- MCWords
  MaxMessages = 2
SPECIFICATION MCSpec
INVARIANTS TypeOK LinesIndependent RowsAsTold OneQuipPerUser RegisterFirst ErrorChangesNothing RepliesReach
PROPERTY RequestsEnd
CHECK_DEADLOCK FALSE
