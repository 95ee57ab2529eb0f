------------------------------ MODULE MCCaches -------------------------------
(* An instance for TLC of Cache and of Namespace, whose tree is kept by such  *)
(* a cache; in a behaviour only one of them does something.  Of Cache there   *)
(* are two kinds: two callers of one key race with changes of the source,     *)
(* invalidations and cancellations while time stands still; or callers, one   *)
(* at a time, fill the cache with three keys of different sizes while time    *)
(* passes.  In Namespace there are two folders, a Lakehouse and an item of    *)
(* another type, and the label Data2 reads like the second alias of Data.     *)
EXTENDS Cache, Namespace, TLC

VARIABLES
    kind,    \* "races", "budgets" or "names"
    begun    \* how many operations of Namespace have begun, by kind

-----------------------------------------------------------------------------
(* Cache *)

\* Any set of keys can be what a prefix matches.
AllSubsets == SUBSET Keys

\* The Size callback may report an error as a negative size; 4 exceeds the
\* byte budget.
SignedSizes == {-1, 1, 2, 4}

FirstKey == CHOOSE k \in Keys : TRUE

\* What callers ask for and the environment does in each kind of behaviour.
Races ==
    /\ clock' = clock
    /\ \A k \in Keys \ {FirstKey} : source'[k] = 0
    /\ \A c \in Callers :
          /\ pc'[c] # "idle" => req'[c].key = FirstKey
          /\ got'[c].size \in {0, 1}

Budgets ==
    /\ source' = source
    /\ ctxErr' = ctxErr
    /\ \A c, d \in Callers : pc'[c] # "idle" /\ pc'[d] # "idle" => c = d

\* Every caller in the repository retains for at least the age it accepts.
CacheNext ==
    /\ Next
    /\ \A c \in Callers : req'[c].maxAge <= req'[c].retain
    /\ (IF kind = "races" THEN Races ELSE Budgets)
    /\ UNCHANGED <<namespaceVars, begun>>

-----------------------------------------------------------------------------
(* Namespace *)

CONSTANTS Data, Data2, Lake, MaxLists, MaxMkdirs, MaxRmdirs, MaxOps

MCAlias(l, n) ==
    IF n = 1 THEN l ELSE IF l = Data /\ n = 2 THEN Data2 ELSE <<l, n>>

Counts == [list |-> 0, mkdir |-> 0, rmdir |-> 0]

\* At mount there is nothing, or an item in the root or in a folder Data.
Start ==
    /\ remote[2] = Unborn
    /\ remote[3] = Unborn \/ remote[4] = Unborn
    /\ remote[1] # Unborn <=> \E id \in {3, 4} : remote[id] # Unborn /\ remote[id].parent = 1
    /\ remote[1] # Unborn => remote[1].label = Data
    /\ remote[4] # Unborn => remote[4].parent = 1
    /\ data[3] \subseteq {Files} /\ (remote[1] # Unborn \/ remote[3] = Unborn => data[3] = {})

NamesNext ==
    /\ NamespaceNext
    /\ begun' = [k \in DOMAIN begun |-> begun[k] +
                   IF \E c \in Clients : c \notin DOMAIN op /\ c \in DOMAIN op' /\ op'[c].kind = k
                   THEN 1 ELSE 0]
    /\ remote[4] = Unborn => remote'[4] = Unborn
    /\ begun'.list <= MaxLists /\ begun'.mkdir <= MaxMkdirs /\ begun'.rmdir <= MaxRmdirs
    /\ begun'.list + begun'.mkdir + begun'.rmdir <= MaxOps
    /\ UNCHANGED vars

-----------------------------------------------------------------------------
MCInit ==
    /\ Init /\ NamespaceInit
    /\ begun = Counts
    /\ kind \in {"races", "budgets", "names"}
    /\ IF kind = "names" THEN Start
       ELSE (\A id \in Ids : remote[id] = Unborn) /\ (\A id \in Lakes : data[id] = {})

MCNext ==
    /\ (IF kind = "names" THEN NamesNext ELSE CacheNext)
    /\ UNCHANGED kind

Symmetry == Permutations(Callers) \cup Permutations(Clients)

MCSpec == MCInit /\ [][MCNext]_<<vars, namespaceVars, kind, begun>>
=============================================================================
