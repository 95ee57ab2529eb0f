---------------------------- MODULE MCInvalidator ---------------------------
(* An instance of Invalidator for TLC, small enough for its liveness: one    *)
(* process renames between two names and creates, writes and closes the      *)
(* second; another looks that one up and changes its mode.                   *)
EXTENDS Invalidator

CONSTANTS r1, r2, n1, n2

Sends(r, kind, N) ==
    \/ r = r1 /\ kind = "rename"
    \/ r = r1 /\ kind \in {"create", "write", "release"} /\ N = {n2}
    \/ r = r2 /\ kind \in {"lookup", "setattr"} /\ N = {n2}

MCNext ==
    \/ \E r \in Requests :
         \/ Callback(r)
         \/ \E kind \in Kinds, N \in SUBSET Names, j \in Jobs \cup {None} :
              Sends(r, kind, N) /\ Send(r, kind, N, j)
    \/ Coordinator
    \/ Close \/ Ended

MCSpec == Init /\ [][MCNext]_vars /\ Fairness
=============================================================================
