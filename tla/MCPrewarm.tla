----------------------------- MODULE MCPrewarm -----------------------------
(* An instance of Prewarm for TLC, small enough for its liveness: the first  *)
(* reader reads and saves one notebook; the second reads that notebook as    *)
(* well, and saves the other, which competes for the room in the queue.      *)
EXTENDS Prewarm

CONSTANTS r1, r2, n1, n2

MCNext ==
    \/ \E c \in Readers : ReaderStep(c) \/ GiveUp(c) \/ LeaveFlight(c)
    \/ \E c \in Readers : Read(c, n1)
    \/ StartSave(r1, n1) \/ StartSave(r2, n2)
    \/ \E n \in Notebooks : Evict(n)
    \/ StartWorker \/ WarmerStep \/ WarmTimeout
    \/ CancelMount \/ Close \/ CloseJoin \/ CloseTimeout

MCSpec == PrewarmInit /\ [][MCNext]_prewarmVars /\ PrewarmFairness
=============================================================================
