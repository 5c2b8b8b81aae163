\* A full chat blocks the others.
CONSTANTS
  chatA = chatA
  chatB = chatB
  a1 = a1
  a2 = a2
  a3 = a3
  b1 = b1
  b2 = b2
  NoJob = NoJob
  NoWorker = NoWorker
  Chats <- MCChats
  Jobs <- MCThreeAndOne
  ChatOf <- MCChatOf
  Workers = {w1, w2}
  Capacity = 1
  Hanging <- MCNone
SPECIFICATION Spec
INVARIANT OnlyFullChatBlocks
CHECK_DEADLOCK FALSE
