------------------------------- MODULE Cache -------------------------------
(***************************************************************************)
(* The generic single-flight TTL/LRU cache of internal/cache/cache.go.     *)
(*                                                                         *)
(* Callers run GetWithin concurrently with invalidations, peeks and the    *)
(* passing of time.  Every cached value comes from a remote source whose   *)
(* content another client may change at any moment; a value is abstracted  *)
(* to the version of the source it was read from.                          *)
(*                                                                         *)
(* One action is one critical section of c.mu, or one step outside it that *)
(* another goroutine can observe: reading the clock, reading the source,   *)
(* returning.  A flight is named by its leader, who runs the load          *)
(* synchronously and therefore owns at most one flight at a time.          *)
(***************************************************************************)
EXTENDS Integers, FiniteSets, Sequences, FiniteSetsExt, Functions, Lists

CONSTANTS
    Keys,        \* cache keys
    Callers,     \* goroutines that call GetWithin
    Prefixes,    \* the sets of keys that InvalidatePrefix can match
    MaxAges,     \* values of maxAge
    Retains,     \* values of retainTTL
    Sizes,       \* results of the Size callback, possibly negative
    MaxEntries,  \* Options.MaxEntries
    ByteLimit,   \* Options.MaxBytes, or the largest int64 when that is zero
    MaxClock,    \* bound on the clock
    MaxVersion   \* bound on the source's versions

ASSUME CacheAssumption ==
    /\ Keys # {}
    /\ Prefixes \subseteq SUBSET Keys
    /\ MaxAges \subseteq Nat
    /\ Retains \subseteq Nat
    /\ Sizes \subseteq Int
    /\ MaxEntries \in Nat \ {0}
    /\ ByteLimit \in Nat
    /\ MaxClock \in Nat
    /\ MaxVersion \in Nat

VARIABLES
    clock,    \* c.now()
    source,   \* [Keys -> version]: the remote content (external)
    store,    \* c.entries, c.lru (front first), c.bytes
    flights,  \* c.flights: the attached load of a key, named by its leader
    pc,       \* where each caller is in GetWithin
    ctxErr,   \* whether the caller's context has been canceled
    req,      \* the arguments of the caller's GetWithin and its clock reading
    got,      \* what the caller's hit, load or join produced
    leader,   \* the flight a waiting caller has joined
    floor,    \* history: source version when the key was last invalidated
    latest,   \* history: version of the last load of the key that completed
              \* with a value while it was attached
    detached  \* history: leaders whose flight was cut by an invalidation

vars == <<clock, source, store, flights, pc, ctxErr, req, got, leader, floor,
          latest, detached>>

-----------------------------------------------------------------------------
(* Types *)

Version == 0..MaxVersion
Time    == 0..MaxClock
PCs     == {"idle", "lookup", "wait", "load", "loaded", "complete", "result"}

Entry   == [ver : Version, size : Nat, observed : Time, expires : Nat]
\* "floor" and "latest" are history: floor[key] and latest[key] when the call
\* began.
Request == [key : Keys, maxAge : Nat, retain : Nat, now : Time,
            floor : Version, latest : Version]
Outcome == [ver : Version, size : Nat, observed : Time, now : Time,
            err : BOOLEAN]

NoRequest == [key |-> CHOOSE k \in Keys : TRUE, maxAge |-> 0, retain |-> 0,
              now |-> 0, floor |-> 0, latest |-> 0]
NoOutcome == [ver |-> 0, size |-> 0, observed |-> 0, now |-> 0, err |-> TRUE]
Value(ver, observed) ==
    [ver |-> ver, size |-> 0, observed |-> observed, now |-> 0, err |-> FALSE]

\* Between installing a flight and closing its done channel.
Leading(c) == pc[c] \in {"load", "loaded", "complete"}

-----------------------------------------------------------------------------
(* The retained entries: operations on one store value.  The expiry heap   *)
(* holds exactly the retained entries, so it is derived from them.         *)

\* The bytes of the keys K, one by one, and how many there are.
Bytes(s, K)   == UNION {{k} \X (1..s.entries[k].size) : k \in K}
SizeSum(s, K) == Cardinality(Bytes(s, K))

\* (mutant) The byte count is not reduced.
RemoveKeepsBytes(s, K) ==
    [entries |-> Restrict(s.entries, DOMAIN s.entries \ K),
     lru     |-> Keeping(s.lru, Keys \ K),
     bytes   |-> s.bytes]

\* removeLocked on every key of K: map, list, heap and byte count together.
Remove(s, K) ==
    [entries |-> Restrict(s.entries, DOMAIN s.entries \ K),
     lru     |-> Keeping(s.lru, Keys \ K),
     bytes   |-> s.bytes - SizeSum(s, DOMAIN s.entries \cap K)]

\* expireLocked(now).
Expire(s, now) ==
    Remove(s, {k \in DOMAIN s.entries : s.entries[k].expires <= now})

\* MoveToFront of a hit.
Touch(s, k) ==
    [s EXCEPT !.lru = <<k>> \o Keeping(s.lru, Keys \ {k})]

\* The keys behind the first n of the LRU list.
Behind(s, n) == {s.lru[i] : i \in (n + 1)..Len(s.lru)}

\* insertLocked: entries leave from the back of the list until the new one
\* fits both budgets; a value larger than the byte budget is not retained.
Insert(s, k, e) ==
    LET Fits(n) == /\ n < MaxEntries
                   /\ s.bytes - SizeSum(s, Behind(s, n)) <= ByteLimit - e.size
        kept == Remove(s, Behind(s, Max({n \in 0..Len(s.lru) : Fits(n)})))
    IN  IF e.size > ByteLimit
        THEN s
        ELSE [entries |-> [j \in DOMAIN kept.entries \cup {k} |->
                              IF j = k THEN e ELSE kept.entries[j]],
              lru     |-> <<k>> \o kept.lru,
              bytes   |-> kept.bytes + e.size]

EmptyStore == [entries |-> << >>, lru |-> << >>, bytes |-> 0]

-----------------------------------------------------------------------------
Init ==
    /\ clock = 0
    /\ source = [k \in Keys |-> 0]
    /\ store = EmptyStore
    /\ flights = << >>
    /\ pc = [c \in Callers |-> "idle"]
    /\ ctxErr = [c \in Callers |-> FALSE]
    /\ req = [c \in Callers |-> NoRequest]
    /\ got = [c \in Callers |-> NoOutcome]
    /\ leader = [c \in Callers |-> c]
    /\ floor = [k \in Keys |-> 0]
    /\ latest = [k \in Keys |-> 0]
    /\ detached = {}

Goto(c, label) == pc' = [pc EXCEPT ![c] = label]

\* Back to the caller, whatever the result.
Finish(c) ==
    /\ Goto(c, "idle")
    /\ ctxErr' = [ctxErr EXCEPT ![c] = FALSE]
    /\ req' = [req EXCEPT ![c] = NoRequest]
    /\ got' = [got EXCEPT ![c] = NoOutcome]
    /\ leader' = [leader EXCEPT ![c] = c]

(* GetWithin, up to and including now := c.now(). *)
Begin(c, k, maxAge, retain) ==
    /\ pc[c] = "idle"
    /\ Goto(c, "lookup")
    /\ req' = [req EXCEPT ![c] = [key |-> k, maxAge |-> maxAge,
                                  retain |-> retain, now |-> clock,
                                  floor |-> floor[k], latest |-> latest[k]]]
    /\ UNCHANGED <<clock, source, store, flights, ctxErr, got, leader, floor,
                   latest, detached>>

\* The context was canceled while the caller waited for the mutex.
LookupCanceled(c) ==
    /\ pc[c] = "lookup" /\ ctxErr[c]
    /\ Finish(c)
    /\ UNCHANGED <<clock, source, store, flights, floor, latest, detached>>

\* The retained value is young enough for this request.
Usable(s, r) ==
    /\ r.key \in DOMAIN s.entries
    /\ r.maxAge > 0
    /\ r.now < s.entries[r.key].observed + r.maxAge

LookupHit(c) ==
    LET swept == Expire(store, req[c].now)
        k == req[c].key
    IN  /\ pc[c] = "lookup" /\ ~ctxErr[c]
        /\ Usable(swept, req[c])
        /\ store' = Touch(swept, k)
        /\ got' = [got EXCEPT ![c] =
                      Value(swept.entries[k].ver, swept.entries[k].observed)]
        /\ Goto(c, "result")
        /\ UNCHANGED <<clock, source, flights, ctxErr, req, leader, floor,
                       latest, detached>>

\* flight, ok := c.flights[key].
Pending(k) == k \in DOMAIN flights

LookupMiss(c) ==
    LET swept == Expire(store, req[c].now)
        k == req[c].key
    IN  /\ pc[c] = "lookup" /\ ~ctxErr[c]
        /\ ~Usable(swept, req[c])
        /\ store' = swept
        /\ \/ /\ Pending(k)                 \* join the pending load
              /\ leader' = [leader EXCEPT ![c] = flights[k]]
              /\ Goto(c, "wait")
              /\ UNCHANGED flights
           \/ /\ ~Pending(k)                \* become the leader
              /\ flights' = [j \in DOMAIN flights \cup {k} |->
                                IF j = k THEN c ELSE flights[j]]
              /\ Goto(c, "load")
              /\ UNCHANGED leader
        /\ UNCHANGED <<clock, source, ctxErr, req, got, floor, latest, detached>>

\* A waiting caller whose context is canceled leaves; the load goes on.
WaitCanceled(c) ==
    /\ pc[c] = "wait" /\ ctxErr[c]
    /\ Finish(c)
    /\ UNCHANGED <<clock, source, store, flights, floor, latest, detached>>

\* The loader's request reaches the source.
LoadRead(c) ==
    /\ pc[c] = "load"
    /\ got' = [got EXCEPT ![c] = Value(source[req[c].key], 0)]
    /\ Goto(c, "loaded")
    /\ UNCHANGED <<clock, source, store, flights, ctxErr, req, leader, floor,
                   latest, detached>>

\* The reasons for which runLoad turns a returned value into an error.
Rejected(c, observed, size) ==
    ctxErr[c] \/ observed > clock \/ (req[c].retain > 0 /\ size < 0)

\* The loader returns a value: runLoad checks the context, reads the clock,
\* and asks ObservedAt (0 stands for the zero time, that is "now") and Size.
LoadReturn(c, observed, size) ==
    /\ pc[c] = "loaded"
    /\ got' = [got EXCEPT ![c] =
          IF Rejected(c, observed, size)
          THEN NoOutcome
          ELSE [ver      |-> got[c].ver,
                size     |-> IF req[c].retain > 0 THEN size ELSE 0,
                observed |-> IF observed = 0 THEN clock ELSE observed,
                now      |-> clock,
                err      |-> FALSE]]
    /\ Goto(c, "complete")
    /\ UNCHANGED <<clock, source, store, flights, ctxErr, req, leader, floor,
                   latest, detached>>

\* The loader returns an error, panics or exits its goroutine.
LoadFail(c) ==
    /\ pc[c] \in {"load", "loaded"}
    /\ got' = [got EXCEPT ![c] = NoOutcome]
    /\ Goto(c, "complete")
    /\ UNCHANGED <<clock, source, store, flights, ctxErr, req, leader, floor,
                   latest, detached>>

\* (mutant) What is retained leaves only for a value that is retained itself.
PublishKeepsOld(r, o) ==
    LET swept == Expire(store, o.now)
    IN  IF r.retain > 0 /\ o.now < o.observed + r.retain
        THEN Insert(Remove(swept, {r.key}), r.key,
                    [ver |-> o.ver, size |-> o.size, observed |-> o.observed,
                     expires |-> o.observed + r.retain])
        ELSE swept

\* The store after a successful, still attached load: what was retained of the
\* key leaves, whether or not the new value may stay.
Publish(r, o) ==
    LET emptied == Remove(Expire(store, o.now), {r.key})
    IN  IF r.retain > 0 /\ o.now < o.observed + r.retain
        THEN Insert(emptied, r.key,
                    [ver |-> o.ver, size |-> o.size, observed |-> o.observed,
                     expires |-> o.observed + r.retain])
        ELSE emptied

\* (mutant) Any pending load of the key counts as this one.
AttachedByKey(c) == req[c].key \in DOMAIN flights

\* c.flights[key] == f: no invalidation has detached this load.
Attached(c) ==
    /\ req[c].key \in DOMAIN flights
    /\ flights[req[c].key] = c

\* (mutant) done is closed only for a load that is still attached.
JoinedAttached(c) ==
    {w \in Callers : pc[w] = "wait" /\ leader[w] = c /\ Attached(c)}

\* The callers that closing f.done wakes.
Joined(c) == {w \in Callers : pc[w] = "wait" /\ leader[w] = c}

(* complete: publish if still attached, then close f.done, which hands     *)
(* f.value and f.err to every joined caller.                               *)
Complete(c) ==
    LET o == IF ctxErr[c] THEN NoOutcome ELSE got[c]
    IN  /\ pc[c] = "complete"
        /\ IF Attached(c)
           THEN /\ flights' = Restrict(flights, DOMAIN flights \ {req[c].key})
                /\ store' = IF o.err THEN store ELSE Publish(req[c], o)
                /\ latest' = IF o.err THEN latest
                             ELSE [latest EXCEPT ![req[c].key] = o.ver]
           ELSE UNCHANGED <<flights, store, latest>>
        /\ got' = [w \in Callers |->
                      IF w \in Joined(c) \cup {c}
                      THEN IF o.err THEN NoOutcome ELSE Value(o.ver, o.observed)
                      ELSE got[w]]
        /\ pc' = [w \in Callers |->
                     IF w \in Joined(c) \cup {c} THEN "result" ELSE pc[w]]
        /\ leader' = [w \in Callers |-> IF w \in Joined(c) THEN w ELSE leader[w]]
        /\ detached' = detached \ {c}
        /\ UNCHANGED <<clock, source, ctxErr, req, floor>>

\* result: a context error, the load's error or the cloned value.
Return(c) ==
    /\ pc[c] = "result"
    /\ Finish(c)
    /\ UNCHANGED <<clock, source, store, flights, floor, latest, detached>>

\* A cancellation during result only chooses between two ways to return.
Cancel(c) ==
    /\ pc[c] \notin {"idle", "result"} /\ ~ctxErr[c]
    /\ ctxErr' = [ctxErr EXCEPT ![c] = TRUE]
    /\ UNCHANGED <<clock, source, store, flights, pc, req, got, leader, floor,
                   latest, detached>>

-----------------------------------------------------------------------------
(* History of an invalidation of the keys K. *)
Mark(K) ==
    /\ floor' = [k \in Keys |-> IF k \in K THEN source[k] ELSE floor[k]]
    /\ detached' = detached \cup {c \in Callers : Leading(c) /\ req[c].key \in K}

(* Invalidate and InvalidatePrefix: drop the entries, detach the loads. *)
InvalidateKeys(K) ==
    /\ store' = Remove(store, K)
    /\ flights' = Restrict(flights, DOMAIN flights \ K)
    /\ Mark(K)
    /\ UNCHANGED <<clock, source, pc, ctxErr, req, got, leader, latest>>

Invalidate(k) == InvalidateKeys({k})

InvalidatePrefix(K) == InvalidateKeys(K)

Clear ==
    /\ store' = EmptyStore
    /\ flights' = << >>
    /\ Mark(Keys)
    /\ UNCHANGED <<clock, source, pc, ctxErr, req, got, leader, latest>>

\* PeekWithin and Stats only sweep; their clock reading may be old by the time
\* they hold the mutex.
Peek(now) ==
    /\ store' = Expire(store, now)
    /\ UNCHANGED <<clock, source, flights, pc, ctxErr, req, got, leader, floor,
                   latest, detached>>

-----------------------------------------------------------------------------
(* The environment (external). *)

SourceChange(k) ==
    /\ source[k] < MaxVersion
    /\ source' = [source EXCEPT ![k] = @ + 1]
    /\ UNCHANGED <<clock, store, flights, pc, ctxErr, req, got, leader, floor,
                   latest, detached>>

Tick ==
    /\ clock < MaxClock
    /\ clock' = clock + 1
    /\ UNCHANGED <<source, store, flights, pc, ctxErr, req, got, leader, floor,
                   latest, detached>>

-----------------------------------------------------------------------------
\* The steps a caller takes by itself once it has called GetWithin.
Step(c) ==
    \/ LookupCanceled(c) \/ LookupHit(c) \/ LookupMiss(c) \/ WaitCanceled(c)
    \/ LoadRead(c) \/ LoadFail(c)
    \/ \E observed \in 0..(MaxClock + 1), size \in Sizes :
           LoadReturn(c, observed, size)
    \/ Complete(c) \/ Return(c)

Next ==
    \/ \E c \in Callers, k \in Keys, maxAge \in MaxAges, retain \in Retains :
           Begin(c, k, maxAge, retain)
    \/ \E c \in Callers : Step(c) \/ Cancel(c)
    \/ \E k \in Keys : Invalidate(k) \/ SourceChange(k)
    \/ \E K \in Prefixes : InvalidatePrefix(K)
    \/ Clear
    \/ \E now \in 0..clock : Peek(now)
    \/ Tick

Spec == Init /\ [][Next]_vars

-----------------------------------------------------------------------------
(* Properties *)

\* Every variable keeps the shape of the Go field it stands for.
TypeOK ==
    /\ clock \in Time
    /\ source \in [Keys -> Version]
    /\ DOMAIN store = {"entries", "lru", "bytes"}
    /\ DOMAIN store.entries \subseteq Keys
    /\ \A k \in DOMAIN store.entries : store.entries[k] \in Entry
    /\ DOMAIN flights \subseteq Keys
    /\ \A k \in DOMAIN flights : flights[k] \in Callers
    /\ pc \in [Callers -> PCs]
    /\ ctxErr \in [Callers -> BOOLEAN]
    /\ req \in [Callers -> Request]
    /\ got \in [Callers -> Outcome]
    /\ leader \in [Callers -> Callers]
    /\ floor \in [Keys -> Version]
    /\ latest \in [Keys -> Version]
    /\ detached \subseteq Callers

\* c.bytes is the sum of the retained sizes, the list holds each retained key
\* exactly once, and both budgets are respected (insertLocked, removeLocked,
\* expireLocked and Clear update map, list and counter consistently).
BudgetsRespected ==
    /\ store.bytes = SizeSum(store, DOMAIN store.entries)
    /\ Range(store.lru) = DOMAIN store.entries
    /\ Len(store.lru) = Cardinality(DOMAIN store.entries)
    /\ Cardinality(DOMAIN store.entries) <= MaxEntries
    /\ store.bytes <= ByteLimit

\* A call that begins after an invalidation of its key never gets a value that
\* was read from the source before that invalidation, and no such value stays
\* in the cache: a detached flight neither publishes nor gains new joiners.
NoStaleAfterInvalidate ==
    /\ \A k \in DOMAIN store.entries : store.entries[k].ver >= floor[k]
    /\ \A c \in Callers :
          pc[c] = "result" /\ ~got[c].err => got[c].ver >= req[c].floor

\* Loads are shared: a leader whose flight is not the attached one of its key
\* lost it to an invalidation, never to a second leader; so without an
\* invalidation a key has at most one load in progress.
LoadsShared ==
    \A c \in Callers : Leading(c) /\ c \notin detached => Attached(c)

\* Reads of a key do not go back: a call that begins after a load has completed
\* never gets an older value than that load's, whatever ages and retentions the
\* calls ask for.  So an older value leaves the cache also when the newer one
\* is too large, too old or not meant to stay (complete removes the old entry
\* before it decides).  The snapshot of a detached load, which only the
\* callers that had joined it may still receive, does not count.
ReadsDoNotGoBack ==
    /\ \A k \in DOMAIN store.entries : store.entries[k].ver >= latest[k]
    /\ \A c \in Callers :
          pc[c] = "result" /\ ~got[c].err => got[c].ver >= req[c].latest

\* Canceling the leader, a failing loader or an invalidation never strands a
\* joined caller: it waits only for a flight whose leader is still going to
\* complete it (runLoad defers complete), and for its own key.
WaitersHaveLeader ==
    \A c \in Callers : pc[c] = "wait" =>
        Leading(leader[c]) /\ req[leader[c]].key = req[c].key

=============================================================================
