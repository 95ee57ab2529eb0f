---------------------------- MODULE MCRequests ------------------------------
(* Instances of Operation and of Credentials for TLC.  A request of the      *)
(* Fabric client needs nothing of the other but a token, whose failure is    *)
(* one of those that Operation has; so the two run apart, as "part" says.    *)
EXTENDS Operation, Credentials, TLC

CONSTANTS a1, k1

VARIABLE part

MCInit ==
    /\ Init /\ CredentialsInit
    /\ part \in {"operations", "credentials"}
    /\ part = "credentials" => kind = [c \in Calls |-> CHOOSE k \in Kinds : TRUE]
    /\ account = a1 /\ capacity = k1

\* One sign-in or one move of the workspace.
MCNext ==
    /\ UNCHANGED part
    /\ \/ part = "operations" /\ Next /\ UNCHANGED credentials
       \/ /\ part = "credentials" /\ CredentialsNext /\ UNCHANGED vars
          /\ <<account', capacity'>> # <<account, capacity>>
                => (<<account, capacity>> = <<a1, k1>>)

Symmetry == Permutations(Calls) \cup Permutations(Callers)

MCSpec == MCInit /\ [][MCNext]_<<vars, credentials, part>>
=============================================================================
