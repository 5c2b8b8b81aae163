\* Every job runs while no channel fills up, though a job of the other chat hangs.
CONSTANTS
  chatA = chatA
  chatB = chatB
  a1 = a1
  a2 = a2
  a3 = a3
  b1 = b1
  b2 = b2
  NoJob = NoJob
  NoWorker = NoWorker
  Chats <- MCChats
  Jobs <- MCTwoEach
  ChatOf <- MCChatOf
  Workers = {w1, w2}
  Capacity = 2
  Hanging <- MCFirstHangs
SPECIFICATION FairSpec
PROPERTY EveryJobRuns
CHECK_DEADLOCK FALSE
