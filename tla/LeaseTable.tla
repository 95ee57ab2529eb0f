----------------------------- MODULE LeaseTable -----------------------------
(***************************************************************************)
(* What the lease table of internal/workspacefs promises, without counts,  *)
(* channels or spools: at any time each client holds at most one lease,    *)
(* and a lease is granted only when it is compatible with all the others.  *)
(***************************************************************************)
EXTENDS Integers, FiniteSets

CONSTANTS
    Clients,
    Keys,
    Below,           \* [Keys -> SUBSET Keys]: the key itself and its subtree
    Scopes,          \* the key sets that mutations ask for
    MaxOpenHandles,
    MaxWriters

VARIABLE lease  \* what each client holds

Free == [kind |-> "none", keys |-> {}]

\* A handle has one key, a mutation the roots of the trees it changes.
Lease == [kind : {"read", "write"}, keys : {{k} : k \in Keys}]
           \cup [kind : {"mutation"}, keys : Scopes]

Handles  == {c \in Clients : lease[c].kind \in {"read", "write"}}
Writers  == {c \in Clients : lease[c].kind = "write"}
Mutators == {c \in Clients : lease[c].kind = "mutation"}

\* Readers share a file with one writer; a mutation has its subtrees to
\* itself, and while it runs nobody is granted anything.
Compatible(l) ==
    /\ Mutators = {}
    /\ l.kind = "mutation" =>
          \A h \in Handles, k \in l.keys : lease[h].keys \cap Below[k] = {}
    /\ l.kind # "mutation" => Cardinality(Handles) < MaxOpenHandles
    /\ l.kind = "write" =>
          /\ Cardinality(Writers) < MaxWriters
          /\ \A w \in Writers : lease[w].keys \cap l.keys = {}

Init == lease = [c \in Clients |-> Free]

Grant(c, l) ==
    /\ lease[c] = Free
    /\ Compatible(l)
    /\ lease' = [lease EXCEPT ![c] = l]

Drop(c) ==
    /\ lease[c] # Free
    /\ lease' = [lease EXCEPT ![c] = Free]

Next == \E c \in Clients : Drop(c) \/ \E l \in Lease : Grant(c, l)

Spec == Init /\ [][Next]_lease
=============================================================================
