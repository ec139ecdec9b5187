------------------------ MODULE MCLockFreeQueueMain ------------------------
(* Small numbers of threads; nodes are interchangeable, so the safety run  *)
(* treats permutations of their addresses alike.                           *)
EXTENDS LockFreeQueueMain, TLC

MCThreads == Producers \cup Consumers \cup {main}
MCValues == (Producers \X (1 .. kOps)) \cup ({main} \X Consumers)
MCSymmetry == Permutations(Addr)
=============================================================================
