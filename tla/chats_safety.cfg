\* One worker per chat, in order, no job lost.
CONSTANTS
  chatA = chatA
  chatB = chatB
  a1 = a1
  a2 = a2
  a3 = a3
  b1 = b1
  b2 = b2
  NoJob = NoJob
  NoWorker = NoWorker
  Chats <- MCChats
  Jobs <- MCJobs
  ChatOf <- MCChatOf
  Workers = {w1, w2, w3}
  Capacity = 1
  Hanging <- MCNone
SPECIFICATION Spec
INVARIANTS TypeOK OneWorkerPerChat HandedToLiveWorker
PROPERTY ImplementsLanes
CHECK_DEADLOCK FALSE
