------------------------------- MODULE Leases -------------------------------
(***************************************************************************)
(* The lease table of internal/workspacefs/types.go: begin, mutation,      *)
(* acquire and notify, with the spool registration of open writers         *)
(* (registerSpool, closeSpool).                                            *)
(*                                                                         *)
(* Each client is one goroutine: a FUSE open/create that wants a read or   *)
(* write lease until its handle is closed, or a namespace mutation (mkdir, *)
(* remove, rename) that wants the tree of its keys free of handles.        *)
(* One action is one critical section of FS.mu.                            *)
(*                                                                         *)
(* The channel FS.changed is closed and replaced by notify.  A waiter      *)
(* holds the channel it read in the critical section of its failed try, so *)
(* it is "parked" while that channel is current and "signaled" once it has *)
(* been closed.                                                            *)
(***************************************************************************)
EXTENDS Integers, FiniteSets, Functions

CONSTANTS
    Clients,         \* goroutines
    Files,           \* remote files
    Keys,            \* lease keys (Entry.Key)
    KeysOf,          \* [Files -> SUBSET Keys]: the keys a file can have
    Below,           \* [Keys -> SUBSET Keys]: the key itself and its subtree
    Scopes,          \* the key sets given to mutation
    MaxOpenHandles,
    MaxWriters

ASSUME LeasesAssumption ==
    /\ IsFiniteSet(Clients)
    /\ Files # {}
    /\ KeysOf \in [Files -> SUBSET Keys]
    /\ Below \in [Keys -> SUBSET Keys]
    /\ \A k \in Keys : k \in Below[k]
    /\ Scopes \subseteq SUBSET Keys
    /\ MaxOpenHandles \in Nat \ {0}
    /\ MaxWriters \in 1..MaxOpenHandles

VARIABLES
    active,    \* FS.active: lease counts of the keys that have a handle
    handles,   \* FS.handles
    writers,   \* FS.writers
    mutating,  \* FS.mutating
    spools,    \* FS.spools: the writer whose local file serves a key
    keyOf,     \* the key each file currently has: the content file of a
               \* notebook is named after its display name (external)
    pc,        \* where each client is
    op         \* what each client asked for

vars == <<active, handles, writers, mutating, spools, keyOf, pc, op>>

-----------------------------------------------------------------------------
Kinds == {"read", "write", "mutation"}
Op == [kind : Kinds, file : Files, keys : SUBSET Keys]
PCs == {"idle", "try", "parked", "signaled", "held", "open", "closing",
        "released"}

NoOp == [kind |-> "mutation", file |-> CHOOSE f \in Files : TRUE, keys |-> {}]
NoLease == [readers |-> 0, writers |-> 0]

Waiting(c)   == pc[c] \in {"parked", "signaled"}
Holding(c)   == pc[c] \in {"held", "open", "closing"}
IsHandle(c)  == op[c].kind # "mutation"
Handle(c)    == Holding(c) /\ IsHandle(c)
Writer(c)    == Holding(c) /\ op[c].kind = "write"
Mutator(c)   == Holding(c) /\ ~IsHandle(c)

HandleSet    == {c \in Clients : Handle(c)}
WriterSet    == {c \in Clients : Writer(c)}
ReadersOf(k) == {c \in Clients : Handle(c) /\ ~Writer(c) /\ k \in op[c].keys}
WritersOf(k) == {c \in Clients : Writer(c) /\ k \in op[c].keys}

\* The keys in the subtrees that a mutation of the keys K changes.
Subtree(K) == UNION {Below[k] : k \in K}

LeaseOf(k) == IF k \in DOMAIN active THEN active[k] ELSE NoLease

-----------------------------------------------------------------------------
Init ==
    /\ active = << >>
    /\ handles = 0
    /\ writers = 0
    /\ mutating = FALSE
    /\ spools = << >>
    /\ keyOf \in {f \in [Files -> Keys] : \A x \in Files : f[x] \in KeysOf[x]}
    /\ pc = [c \in Clients |-> "idle"]
    /\ op = [c \in Clients |-> NoOp]

\* An open or create through begin(e, write); the entry fixes the key.
CallBegin(c, f, kind) ==
    /\ pc[c] = "idle"
    /\ pc' = [pc EXCEPT ![c] = "try"]
    /\ op' = [op EXCEPT ![c] = [kind |-> kind, file |-> f, keys |-> {keyOf[f]}]]
    /\ UNCHANGED <<active, handles, writers, mutating, spools, keyOf>>

CallMutation(c, K) ==
    /\ pc[c] = "idle"
    /\ pc' = [pc EXCEPT ![c] = "try"]
    /\ op' = [op EXCEPT ![c] = [kind |-> "mutation", file |-> NoOp.file,
                                keys |-> K]]
    /\ UNCHANGED <<active, handles, writers, mutating, spools, keyOf>>

\* (mutant) A second writer of the same key is let in.
BeginAllowedShared(o) ==
    /\ ~mutating
    /\ handles < MaxOpenHandles
    /\ o.kind = "write" => writers < MaxWriters

\* (mutant) Handles outside the changing subtree do not wait for a mutation.
BeginAllowedOutside(o) ==
    /\ \A c \in Clients : Mutator(c) => o.keys \cap Subtree(op[c].keys) = {}
    /\ handles < MaxOpenHandles
    /\ o.kind = "write" => /\ \A k \in o.keys : LeaseOf(k).writers = 0
                           /\ writers < MaxWriters

\* The conditions under which try hands out the lease.
BeginAllowed(o) ==
    /\ ~mutating
    /\ handles < MaxOpenHandles
    /\ o.kind = "write" => /\ \A k \in o.keys : LeaseOf(k).writers = 0
                           /\ writers < MaxWriters

MutationAllowed(o) ==
    /\ ~mutating
    /\ DOMAIN active \cap Subtree(o.keys) = {}

Allowed(o) == IF o.kind = "mutation" THEN MutationAllowed(o) ELSE BeginAllowed(o)

\* The lease table with the counts of one key set to l.
WithLease(k, l) ==
    IF l = NoLease
    THEN Restrict(active, DOMAIN active \ {k})
    ELSE [j \in DOMAIN active \cup {k} |-> IF j = k THEN l ELSE active[j]]

Bumped(l, kind, n) ==
    IF kind = "write" THEN [readers |-> l.readers, writers |-> l.writers + n]
                      ELSE [readers |-> l.readers + n, writers |-> l.writers]

\* Add n (1 or -1) to every count that a handle contributes to.
Count(o, n) ==
    /\ \E k \in o.keys : active' = WithLease(k, Bumped(LeaseOf(k), o.kind, n))
    /\ handles' = handles + n
    /\ writers' = IF o.kind = "write" THEN writers + n ELSE writers
    /\ UNCHANGED mutating

\* (mutant) Nobody is notified.
NotifiedNobody(p) == p

\* notify: close the current channel and install a new one.
Notified(p) == [c \in Clients |-> IF p[c] = "parked" THEN "signaled" ELSE p[c]]

\* One round of acquire: try, and read s.changed if that failed.
Try(c) ==
    /\ pc[c] = "try"
    /\ IF Allowed(op[c])
       THEN /\ pc' = [pc EXCEPT ![c] = "held"]
            /\ IF IsHandle(c)
               THEN Count(op[c], 1)
               ELSE mutating' = TRUE /\ UNCHANGED <<active, handles, writers>>
       ELSE /\ pc' = [pc EXCEPT ![c] = "parked"]
            /\ UNCHANGED <<active, handles, writers, mutating>>
    /\ UNCHANGED <<spools, keyOf, op>>

\* case <-changed.
Wake(c) ==
    /\ pc[c] = "signaled"
    /\ pc' = [pc EXCEPT ![c] = "try"]
    /\ UNCHANGED <<active, handles, writers, mutating, spools, keyOf, op>>

\* case <-ctx.Done or <-timer.C (ErrBusy), or ctx.Err at the top of the loop.
GiveUp(c) ==
    /\ pc[c] = "try" \/ Waiting(c)
    /\ pc' = [pc EXCEPT ![c] = "idle"]
    /\ op' = [op EXCEPT ![c] = NoOp]
    /\ UNCHANGED <<active, handles, writers, mutating, spools, keyOf>>

\* registerSpool, once the remote content has been loaded into the spool.
RegisterSpool(c) ==
    /\ pc[c] = "held" /\ Writer(c)
    /\ \E k \in op[c].keys :
          spools' = [j \in DOMAIN spools \cup {k} |->
                        IF j = k THEN c ELSE spools[j]]
    /\ pc' = [pc EXCEPT ![c] = "open"]
    /\ UNCHANGED <<active, handles, writers, mutating, keyOf, op>>

\* The first half of closeSpool; the lease is released after it.  A create
\* that fails after opening its spool runs it without having registered.
CloseSpool(c) ==
    /\ pc[c] \in {"held", "open"} /\ Writer(c)
    /\ spools' = Restrict(spools, DOMAIN spools \ op[c].keys)
    /\ pc' = [pc EXCEPT ![c] = "closing"]
    /\ UNCHANGED <<active, handles, writers, mutating, keyOf, op>>

\* The release function of begin or mutation, on its first call.
GiveBack(o) ==
    IF o.kind = "mutation"
    THEN mutating' = FALSE /\ UNCHANGED <<active, handles, writers>>
    ELSE Count(o, -1)

\* Readers and mutations release when they are done; a writer whose open fails
\* before the spool exists releases directly.
Release(c) ==
    /\ pc[c] \in {"held", "closing"}
    /\ GiveBack(op[c])
    /\ pc' = Notified([pc EXCEPT ![c] = "released"])
    /\ UNCHANGED <<spools, keyOf, op>>

\* (mutant) Without sync.Once the second release counts again.
ReleaseTwice(c) ==
    /\ pc[c] = "released"
    /\ GiveBack(op[c])
    /\ UNCHANGED <<spools, keyOf, pc, op>>

\* A failed create closes its file, which releases, and releases once more in
\* its deferred function; sync.Once makes that a no-op.
ReleaseAgain(c) ==
    /\ pc[c] = "released"
    /\ UNCHANGED vars

Forget(c) ==
    /\ pc[c] = "released"
    /\ pc' = [pc EXCEPT ![c] = "idle"]
    /\ op' = [op EXCEPT ![c] = NoOp]
    /\ UNCHANGED <<active, handles, writers, mutating, spools, keyOf>>

\* A notebook is renamed in the Fabric portal and the catalog is refreshed
\* (external): lookups now yield another name, hence another key.
RemoteRename(f) ==
    /\ \E k \in KeysOf[f] \ {keyOf[f]} : keyOf' = [keyOf EXCEPT ![f] = k]
    /\ UNCHANGED <<active, handles, writers, mutating, spools, pc, op>>

-----------------------------------------------------------------------------
Step(c) == Try(c) \/ Wake(c)

Next ==
    \/ \E c \in Clients, f \in Files, kind \in {"read", "write"} :
           CallBegin(c, f, kind)
    \/ \E c \in Clients, K \in Scopes : CallMutation(c, K)
    \/ \E c \in Clients :
           \/ Step(c) \/ GiveUp(c) \/ RegisterSpool(c) \/ CloseSpool(c)
           \/ Release(c) \/ ReleaseAgain(c) \/ Forget(c)
    \/ \E f \in Files : RemoteRename(f)

Spec == Init /\ [][Next]_vars

-----------------------------------------------------------------------------
(* Properties *)

\* Every variable keeps the shape of the Go field it stands for.
TypeOK ==
    /\ DOMAIN active \subseteq Keys
    /\ \A k \in DOMAIN active : active[k] \in [readers : Nat, writers : Nat]
    /\ handles \in Nat
    /\ writers \in Nat
    /\ mutating \in BOOLEAN
    /\ DOMAIN spools \subseteq Keys
    /\ \A k \in DOMAIN spools : spools[k] \in Clients
    /\ keyOf \in [Files -> Keys]
    /\ pc \in [Clients -> PCs]
    /\ op \in [Clients -> Op]

\* FS.active, FS.handles and FS.writers count exactly the live leases (so a
\* key disappears with its last lease) and stay within their limits, whatever
\* order opens, failed opens and double releases come in.
CountsExact ==
    /\ handles = Cardinality(HandleSet)
    /\ writers = Cardinality(WriterSet)
    /\ handles <= MaxOpenHandles /\ writers <= MaxWriters
    /\ \A k \in Keys :
          /\ LeaseOf(k).readers = Cardinality(ReadersOf(k))
          /\ LeaseOf(k).writers = Cardinality(WritersOf(k))
          /\ k \in DOMAIN active <=> ReadersOf(k) \cup WritersOf(k) # {}

\* At most one writer per key, and its spool, if any, is what localSize reads
\* for that key: a late closeSpool of a former writer cannot remove it.
WriterOwnsKey ==
    /\ \A c, d \in Clients :
          Writer(c) /\ Writer(d) /\ op[c].keys \cap op[d].keys # {} => c = d
    /\ \A k \in DOMAIN spools :
          pc[spools[k]] = "open" /\ k \in op[spools[k]].keys
    /\ \A c \in Clients : pc[c] = "open" =>
          \A k \in op[c].keys : k \in DOMAIN spools /\ spools[k] = c

\* "Namespace mutations cannot race open handles in the affected subtree": a
\* mutation in progress has its subtree to itself and is the only one.  (Part
\* of what ImplementsLeaseTable says.)
MutationIsolated ==
    \A c \in Clients : Mutator(c) =>
        /\ mutating
        /\ \A d \in Clients \ {c} :
              /\ ~Mutator(d)
              /\ Handle(d) => op[d].keys \cap Subtree(op[c].keys) = {}

\* No wakeup is lost: while a client waits on a channel that nobody has
\* closed, its try would still fail.
NoLostWakeup == \A c \in Clients : pc[c] = "parked" => ~Allowed(op[c])

\* What each client holds, as the abstract lease table sees it.
HeldLease ==
    [c \in Clients |->
        IF Holding(c) THEN [kind |-> op[c].kind, keys |-> op[c].keys]
                      ELSE [kind |-> "none", keys |-> {}]]

Table == INSTANCE LeaseTable WITH lease <- HeldLease

\* Counting leases per key, testing those counts under FS.mu and releasing
\* through sync.Once implements the lease table as LeaseTable states it.
ImplementsLeaseTable == Table!Spec

\* What the documentation says of writers: "Only one writable handle per
\* remote file is permitted in a mount".
OneWriterPerRemoteFile ==
    \A c, d \in Clients : Writer(c) /\ Writer(d) /\ op[c].file = op[d].file => c = d

=============================================================================
