-------------------------- MODULE MCPortableMount ---------------------------
(* An instance of PortableMount for TLC.  Handles are opened in the first    *)
(* process, while mount serves or before it gives up on a mount that is slow  *)
(* to come up, and only while the control files are not in use; the commands *)
(* run against processes that open none.                                     *)
EXTENDS PortableMount, TLC

Working == \E t \in Threads : thread'[t] # None

MCNext ==
    /\ Next
    /\ next' # 1 \/ Working => run = 1 /\ cli'.at = "idle" /\ starter' = "idle" /\ main # "down"
    /\ next' # next => main \in {"mounting", "serving"} /\ ~canceled
    /\ next' # 1 => main' # "visible" /\ (main' # "down" \/ main = "closed")

MCSpec == Init /\ [][MCNext]_vars
Symmetry == Permutations(Threads)
=============================================================================
