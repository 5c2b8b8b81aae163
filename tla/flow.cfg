\* A message through both queues, with panics, failed sends and cancellation.
CONSTANTS
  chatA = chatA
  chatB = chatB
  m1 = m1
  m2 = m2
  Chats <- MCChats
  Messages <- MCMessages
  ChatOf <- MCChatOf
  Items <- MCItems
  CanPanic = TRUE
  NoJob = NoJob
  NoMessage = NoMessage
SPECIFICATION FairSpec
INVARIANTS TypeOK HourglassNeverLast FinalsInOrder
PROPERTY AnswersAreDelivered
CHECK_DEADLOCK FALSE
