---------------------------- MODULE MCResources -----------------------------
(* An instance of Resources for TLC: a file in the root and a directory with *)
(* one file.  One client changes them, the other one reads.                  *)
EXTENDS Resources, TLC

CONSTANTS d, df, g, changer, reader, v0, v1, MaxChanges, MaxReads

MCParent == d :> Root @@ df :> d @@ g :> Root
MCSize == v0 :> 0 @@ v1 :> 1

Readings == {"stat", "list", "open"}

\* How many operations each client has begun.
VARIABLE begun

\* Directories are made and removed at d, and files are at df and g.
Sensible(c, o) ==
    /\ (c = reader) = (o.kind \in Readings)
    /\ begun[c] > 0 => o.kind \in {"save"} \cup Readings
    /\ o.src = d => o.kind \in {"stat", "list", "mkdir", "rmdir"}
    /\ o.src # d => o.kind \notin {"mkdir", "rmdir"}
    /\ o.dst # o.src => o.dst # d

MCInit ==
    /\ Init /\ begun = [c \in Clients |-> 0]
    /\ remote[d] = Dir

MCNext ==
    /\ Next
    /\ \A c \in Clients : op[c] = None /\ op'[c] # None => Sensible(c, op'[c])
    /\ begun' = [c \in Clients |-> begun[c] + IF op[c] = None /\ op'[c] # None THEN 1 ELSE 0]
    /\ edits' = 0 \/ now' = 0
    /\ begun'[changer] <= MaxChanges /\ begun'[reader] <= MaxReads

MCSpec == MCInit /\ [][MCNext]_<<vars, begun>>
=============================================================================
