---------------------------- MODULE MCChatQueue ----------------------------
(* Instances of ChatQueue for TLC: jobs of two chats, and spare identities
   for workers that come and go. *)
EXTENDS ChatQueue

CONSTANTS chatA, chatB, a1, a2, a3, b1, b2

MCChats == {chatA, chatB}
MCJobs == {a1, a2, a3, b1, b2}
MCThreeAndOne == {a1, a2, a3, b1}
MCChatOf == [j \in Jobs |-> IF j \in {b1, b2} THEN chatB ELSE chatA]
MCTwoEach == {a1, a2, b1, b2}
MCNone == {}
MCFirstHangs == {a1}
=============================================================================
