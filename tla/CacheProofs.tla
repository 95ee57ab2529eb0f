---------------------------- MODULE CacheProofs ----------------------------
(***************************************************************************)
(* Proofs about Cache for every set of keys and callers and every budget:  *)
(* an invalidation is never undone by a load that started before it, loads *)
(* are shared, a waiting caller always has a leader, and what is retained  *)
(* fits both budgets.  Then about Namespace, which keeps a tree of the     *)
(* workspace as such a cache does, for any clients, objects and names.     *)
(***************************************************************************)
EXTENDS Cache, Namespace, ListTheorems, WellFoundedInduction, TLAPS

\* Every attached flight is being led, for the key it is attached to.
FlightsLed ==
    \A k \in DOMAIN flights : Leading(flights[k]) /\ req[flights[k]].key = k

\* Versions only grow: what an invalidation, a completed load or a call has
\* noted is never above what a later read of the source returns.
FloorsBelow ==
    /\ \A k \in Keys : floor[k] <= source[k] /\ latest[k] <= source[k]
    /\ \A c \in Callers :
          pc[c] # "idle" => /\ req[c].floor <= floor[req[c].key]
                            /\ req[c].latest <= latest[req[c].key]

\* A value a leader has read but not yet handed out.
Holds(c) == pc[c] = "loaded" \/ (pc[c] = "complete" /\ ~got[c].err)

\* A held value is new enough for its leader, for every joined caller and,
\* while the flight is attached, for the cache.
HeldFresh ==
    \A c \in Callers : Holds(c) =>
        /\ got[c].ver <= source[req[c].key]
        /\ got[c].ver >= req[c].floor /\ got[c].ver >= req[c].latest
        /\ Attached(c) => /\ got[c].ver >= floor[req[c].key]
                          /\ got[c].ver >= latest[req[c].key]
        /\ \A w \in Callers : pc[w] = "wait" /\ leader[w] = c =>
              got[c].ver >= req[w].floor /\ got[c].ver >= req[w].latest

IInv ==
    /\ TypeOK
    /\ FlightsLed
    /\ FloorsBelow
    /\ HeldFresh
    /\ NoStaleAfterInvalidate
    /\ ReadsDoNotGoBack
    /\ LoadsShared
    /\ WaitersHaveLeader

-----------------------------------------------------------------------------
(* What the store operations do to the entries. *)

\* removeLocked drops exactly the keys it is given.
LEMMA RemoveEntries ==
    ASSUME NEW s, NEW K
    PROVE  /\ DOMAIN Remove(s, K) = {"entries", "lru", "bytes"}
           /\ DOMAIN Remove(s, K).entries = DOMAIN s.entries \ K
           /\ \A k \in DOMAIN s.entries \ K :
                 Remove(s, K).entries[k] = s.entries[k]
  BY DEF Remove, Restrict

\* A store whose entries are all entries of s.
Within(t, s) ==
    /\ DOMAIN t = {"entries", "lru", "bytes"}
    /\ DOMAIN t.entries \subseteq DOMAIN s.entries
    /\ \A k \in DOMAIN t.entries : t.entries[k] = s.entries[k]

\* removeLocked adds and changes no entry.
LEMMA RemoveWithin ==
    ASSUME NEW s, NEW K
    PROVE  Within(Remove(s, K), s)
  BY RemoveEntries DEF Within

\* expireLocked adds and changes no entry.
LEMMA ExpireWithin ==
    ASSUME NEW s, NEW now
    PROVE  Within(Expire(s, now), s)
  BY RemoveWithin DEF Expire

\* Moving a hit to the front of the list leaves the entries alone.
LEMMA TouchWithin ==
    ASSUME NEW s, NEW k, DOMAIN s = {"entries", "lru", "bytes"}
    PROVE  Within(Touch(s, k), s)
  BY DEF Touch, Within

\* Being within a store is transitive.
LEMMA WithinTrans ==
    ASSUME NEW r, NEW s, NEW t, Within(r, s), Within(s, t)
    PROVE  Within(r, t)
  BY DEF Within

\* insertLocked adds at most the new entry and changes no other.
LEMMA InsertEntries ==
    ASSUME NEW s, NEW k, NEW e, DOMAIN s = {"entries", "lru", "bytes"}
    PROVE  LET t == Insert(s, k, e)
           IN  /\ DOMAIN t = {"entries", "lru", "bytes"}
               /\ DOMAIN t.entries \subseteq DOMAIN s.entries \cup {k}
               /\ \A j \in DOMAIN t.entries :
                     \/ j = k /\ t.entries[j] = e
                     \/ j \in DOMAIN s.entries /\ t.entries[j] = s.entries[j]
<1>1. CASE e.size > ByteLimit
  BY <1>1 DEF Insert
<1>2. CASE ~(e.size > ByteLimit)
  <2>1. PICK K : Insert(s, k, e) =
                   [entries |-> [j \in DOMAIN Remove(s, K).entries \cup {k} |->
                                   IF j = k THEN e ELSE Remove(s, K).entries[j]],
                    lru     |-> <<k>> \o Remove(s, K).lru,
                    bytes   |-> Remove(s, K).bytes + e.size]
    BY <1>2 DEF Insert
  <2>2. Within(Remove(s, K), s)
    BY RemoveWithin
  <2>3. QED
    BY <2>1, <2>2 DEF Within
<1>3. QED
  BY <1>1, <1>2

\* A completed load adds at most its own entry to the store.
LEMMA PublishEntries ==
    ASSUME NEW r, NEW o
    PROVE  LET t == Publish(r, o)
           IN  /\ DOMAIN t = {"entries", "lru", "bytes"}
               /\ DOMAIN t.entries \subseteq DOMAIN store.entries \cup {r.key}
               /\ \A j \in DOMAIN t.entries :
                     \/ /\ j = r.key
                        /\ t.entries[j] = [ver |-> o.ver, size |-> o.size,
                                           observed |-> o.observed,
                                           expires |-> o.observed + r.retain]
                     \/ /\ j \in DOMAIN store.entries \ {r.key}
                        /\ t.entries[j] = store.entries[j]
<1> DEFINE emptied == Remove(Expire(store, o.now), {r.key})
           e == [ver |-> o.ver, size |-> o.size, observed |-> o.observed,
                 expires |-> o.observed + r.retain]
<1>1. Within(emptied, store)
  BY RemoveWithin, ExpireWithin, WithinTrans
<1>2. Publish(r, o) = Insert(emptied, r.key, e) \/ Publish(r, o) = emptied
  BY DEF Publish
<1> HIDE DEF emptied, e
<1>3. DOMAIN emptied = {"entries", "lru", "bytes"} /\ r.key \notin DOMAIN emptied.entries
  BY <1>1, RemoveEntries DEF Within, emptied
<1>4. CASE Publish(r, o) = emptied
  BY <1>1, <1>3, <1>4 DEF Within
<1>5. CASE Publish(r, o) = Insert(emptied, r.key, e)
  <2>1. LET t == Insert(emptied, r.key, e)
        IN  /\ DOMAIN t = {"entries", "lru", "bytes"}
            /\ DOMAIN t.entries \subseteq DOMAIN emptied.entries \cup {r.key}
            /\ \A j \in DOMAIN t.entries :
                  \/ j = r.key /\ t.entries[j] = e
                  \/ j \in DOMAIN emptied.entries /\ t.entries[j] = emptied.entries[j]
    BY <1>3, InsertEntries
  <2>2. QED
    BY <1>1, <1>3, <1>5, <2>1 DEF Within, e
<1>6. QED
  BY <1>2, <1>4, <1>5

-----------------------------------------------------------------------------
(* The parts of the invariant that only speak of the store. *)

StoreTyped(s) ==
    /\ DOMAIN s = {"entries", "lru", "bytes"}
    /\ DOMAIN s.entries \subseteq Keys
    /\ \A k \in DOMAIN s.entries : s.entries[k] \in Entry

StoreFresh(s, f) == \A k \in DOMAIN s.entries : s.entries[k].ver >= f[k]

\* Dropping entries keeps a store typed and fresh.
LEMMA WithinKeeps ==
    ASSUME NEW s, NEW t, NEW f, Within(t, s), StoreTyped(s), StoreFresh(s, f)
    PROVE  StoreTyped(t) /\ StoreFresh(t, f)
  BY DEF Within, StoreTyped, StoreFresh

\* The record of a caller outside GetWithin has the shape of a request.
LEMMA NoRequestTyped == NoRequest \in Request
<1>1. (CHOOSE k \in Keys : TRUE) \in Keys
  BY CacheAssumption
<1>2. QED
  BY <1>1, CacheAssumption DEF NoRequest, Request, Time, Version

\* A failed outcome has the shape of an outcome.
LEMMA NoOutcomeTyped == NoOutcome \in Outcome
  BY CacheAssumption DEF NoOutcome, Outcome, Time, Version

\* A new cache satisfies the invariant.
LEMMA InitIInv == Init => IInv
<1> SUFFICES ASSUME Init PROVE IInv
  OBVIOUS
<1>1. TypeOK
  BY NoRequestTyped, NoOutcomeTyped, CacheAssumption
     DEF Init, TypeOK, EmptyStore, Time, Version, PCs
<1>2. QED
  BY <1>1, CacheAssumption
     DEF Init, IInv, FlightsLed, FloorsBelow, HeldFresh, Holds, Leading,
         NoStaleAfterInvalidate, ReadsDoNotGoBack, LoadsShared, WaitersHaveLeader, EmptyStore

-----------------------------------------------------------------------------
(* Preservation, one lemma per group of actions. *)

\* GetWithin begins: the caller notes the current floor of its key.
LEMMA BeginIInv ==
    ASSUME IInv, NEW c \in Callers, NEW k \in Keys, NEW maxAge \in MaxAges,
           NEW retain \in Retains, Begin(c, k, maxAge, retain)
    PROVE  IInv'
<1> USE CacheAssumption
<1>1. TypeOK'
  BY DEF IInv, TypeOK, Begin, Goto, Request, PCs
<1>2. FlightsLed' /\ FloorsBelow' /\ LoadsShared' /\ WaitersHaveLeader'
  BY DEF IInv, TypeOK, Begin, Goto, FlightsLed, FloorsBelow, Leading, Attached,
         LoadsShared, WaitersHaveLeader, Request, Version
<1>3. HeldFresh'
  BY DEF IInv, TypeOK, Begin, Goto, HeldFresh, Holds, Attached
<1>4. NoStaleAfterInvalidate' /\ ReadsDoNotGoBack'
  BY DEF IInv, TypeOK, Begin, Goto, NoStaleAfterInvalidate, ReadsDoNotGoBack
<1>5. QED
  BY <1>1, <1>2, <1>3, <1>4 DEF IInv

\* LookupCanceled, WaitCanceled and Return: the caller leaves.
LEMMA FinishIInv ==
    ASSUME IInv, NEW c \in Callers, ~Leading(c), Finish(c),
           UNCHANGED <<clock, source, store, flights, floor, latest, detached>>
    PROVE  IInv'
<1>1. TypeOK'
  BY NoRequestTyped, NoOutcomeTyped DEF IInv, TypeOK, Finish, Goto, PCs
<1>2. FlightsLed' /\ LoadsShared'
  BY DEF IInv, TypeOK, Finish, Goto, FlightsLed, Leading, Attached, LoadsShared
<1>3. FloorsBelow'
  BY DEF IInv, TypeOK, Finish, Goto, FloorsBelow
<1>4. WaitersHaveLeader'
  BY DEF IInv, TypeOK, Finish, Goto, WaitersHaveLeader, Leading
<1>5. HeldFresh'
  BY DEF IInv, TypeOK, Finish, Goto, HeldFresh, Holds, Attached
<1>6. NoStaleAfterInvalidate' /\ ReadsDoNotGoBack'
  BY DEF IInv, TypeOK, Finish, Goto, NoStaleAfterInvalidate, ReadsDoNotGoBack
<1>7. QED
  BY <1>1, <1>2, <1>3, <1>4, <1>5, <1>6 DEF IInv

\* A sweep by Peek or Stats.
LEMMA PeekIInv ==
    ASSUME IInv, NEW now, Peek(now)
    PROVE  IInv'
<1>1. StoreTyped(store') /\ StoreFresh(store', floor) /\ StoreFresh(store', latest)
  BY ExpireWithin, WithinKeeps
     DEF IInv, TypeOK, NoStaleAfterInvalidate, ReadsDoNotGoBack, Peek, StoreTyped, StoreFresh
<1>2. TypeOK'
  BY <1>1 DEF IInv, TypeOK, Peek, StoreTyped
<1>3. NoStaleAfterInvalidate' /\ ReadsDoNotGoBack'
  BY <1>1 DEF IInv, NoStaleAfterInvalidate, ReadsDoNotGoBack, Peek, StoreFresh
<1>4. QED
  BY <1>2, <1>3
     DEF IInv, Peek, FlightsLed, FloorsBelow, HeldFresh, Holds, Leading,
         Attached, LoadsShared, WaitersHaveLeader

\* A hit hands out a retained value, which is fresh.
LEMMA LookupHitIInv ==
    ASSUME IInv, NEW c \in Callers, LookupHit(c)
    PROVE  IInv'
<1> DEFINE swept == Expire(store, req[c].now)
           k == req[c].key
<1>1. Within(swept, store) /\ Within(store', store)
  BY ExpireWithin, TouchWithin, WithinTrans DEF LookupHit, Within
<1>2. StoreTyped(store') /\ StoreFresh(store', floor) /\ StoreFresh(store', latest)
  BY <1>1, WithinKeeps
     DEF IInv, TypeOK, NoStaleAfterInvalidate, ReadsDoNotGoBack, StoreTyped, StoreFresh
<1>3. k \in DOMAIN store.entries /\ swept.entries[k] = store.entries[k]
  BY <1>1 DEF LookupHit, Usable, Within
<1> HIDE DEF swept
<1>4. /\ pc[c] = "lookup"
      /\ pc' = [pc EXCEPT ![c] = "result"]
      /\ got' = [got EXCEPT ![c] =
                    [ver |-> store.entries[k].ver, size |-> 0,
                     observed |-> store.entries[k].observed,
                     now |-> 0, err |-> FALSE]]
      /\ UNCHANGED <<clock, source, flights, ctxErr, req, leader, floor, latest, detached>>
  BY <1>3 DEF LookupHit, swept, Goto, Value
<1>5. store.entries[k] \in Entry /\ store.entries[k].ver >= floor[k]
      /\ store.entries[k].ver >= latest[k]
  BY <1>3 DEF IInv, TypeOK, NoStaleAfterInvalidate, ReadsDoNotGoBack
<1>6. TypeOK'
  BY <1>2, <1>4, <1>5, CacheAssumption
     DEF IInv, TypeOK, StoreTyped, PCs, Outcome, Entry, Time
<1>7. FlightsLed' /\ FloorsBelow' /\ LoadsShared' /\ WaitersHaveLeader'
  BY <1>4
     DEF IInv, TypeOK, FlightsLed, FloorsBelow, LoadsShared, WaitersHaveLeader,
         Leading, Attached
<1>8. HeldFresh'
  BY <1>4 DEF IInv, TypeOK, HeldFresh, Holds, Attached
<1>9. NoStaleAfterInvalidate' /\ ReadsDoNotGoBack'
  <2>1. req[c].floor <= floor[k] /\ req[c].latest <= latest[k]
    BY <1>4 DEF IInv, FloorsBelow
  <2>2. store.entries[k].ver >= req[c].floor /\ store.entries[k].ver >= req[c].latest
    BY <1>5, <2>1 DEF IInv, TypeOK, Entry, Request, Version
  <2>3. QED
    BY <1>2, <1>4, <2>2 DEF IInv, TypeOK, NoStaleAfterInvalidate, ReadsDoNotGoBack, StoreFresh
<1>10. QED
  BY <1>6, <1>7, <1>8, <1>9 DEF IInv

\* Joining the attached flight, or becoming the leader of a new one.
LEMMA LookupMissIInv ==
    ASSUME IInv, NEW c \in Callers, LookupMiss(c)
    PROVE  IInv'
<1> DEFINE k == req[c].key
<1>1. StoreTyped(store') /\ StoreFresh(store', floor) /\ StoreFresh(store', latest)
  BY ExpireWithin, WithinKeeps
     DEF IInv, TypeOK, NoStaleAfterInvalidate, ReadsDoNotGoBack, LookupMiss, StoreTyped, StoreFresh
<1>2. /\ pc[c] = "lookup" /\ k \in Keys
      /\ UNCHANGED <<clock, source, ctxErr, req, got, floor, latest, detached>>
  BY DEF LookupMiss, IInv, TypeOK, Request
<1>3. CASE /\ Pending(k)
           /\ leader' = [leader EXCEPT ![c] = flights[k]]
           /\ Goto(c, "wait")
           /\ UNCHANGED flights
  <2>1. Leading(flights[k]) /\ req[flights[k]].key = k /\ flights[k] \in Callers
    BY <1>3 DEF Pending, IInv, TypeOK, FlightsLed
  <2>2. TypeOK'
    BY <1>1, <1>2, <1>3, <2>1 DEF IInv, TypeOK, StoreTyped, Goto, PCs
  <2>3. FlightsLed' /\ FloorsBelow' /\ LoadsShared' /\ WaitersHaveLeader'
    BY <1>2, <1>3, <2>1
       DEF IInv, TypeOK, FlightsLed, FloorsBelow, LoadsShared,
           WaitersHaveLeader, Leading, Attached, Goto
  <2>4. HeldFresh'
    <3>1. req[c].floor <= floor[k] /\ req[c].latest <= latest[k]
      BY <1>2 DEF IInv, FloorsBelow
    <3>2. Holds(flights[k]) => /\ got[flights[k]].ver >= req[c].floor
                               /\ got[flights[k]].ver >= req[c].latest
      BY <1>3, <2>1, <3>1
         DEF Pending, IInv, TypeOK, HeldFresh, Attached, Request, Outcome, Version
    <3>3. QED
      BY <1>2, <1>3, <2>1, <3>2
         DEF IInv, TypeOK, HeldFresh, Holds, Attached, Goto
  <2>5. NoStaleAfterInvalidate' /\ ReadsDoNotGoBack'
    BY <1>1, <1>2, <1>3
       DEF IInv, TypeOK, NoStaleAfterInvalidate, ReadsDoNotGoBack, StoreFresh, Goto
  <2>6. QED
    BY <2>2, <2>3, <2>4, <2>5 DEF IInv
<1>4. CASE /\ ~Pending(k)
           /\ flights' = [j \in DOMAIN flights \cup {k} |->
                             IF j = k THEN c ELSE flights[j]]
           /\ Goto(c, "load")
           /\ UNCHANGED leader
  <2>1. TypeOK'
    BY <1>1, <1>2, <1>4 DEF IInv, TypeOK, StoreTyped, Goto, PCs
  <2>2. FlightsLed' /\ FloorsBelow' /\ LoadsShared' /\ WaitersHaveLeader'
    BY <1>2, <1>4
       DEF Pending, IInv, TypeOK, FlightsLed, FloorsBelow, LoadsShared,
           WaitersHaveLeader, Leading, Attached, Goto
  <2>3. HeldFresh'
    BY <1>2, <1>4 DEF IInv, TypeOK, HeldFresh, Holds, Attached, Goto
  <2>4. NoStaleAfterInvalidate' /\ ReadsDoNotGoBack'
    BY <1>1, <1>2, <1>4
       DEF IInv, TypeOK, NoStaleAfterInvalidate, ReadsDoNotGoBack, StoreFresh, Goto
  <2>5. QED
    BY <2>1, <2>2, <2>3, <2>4 DEF IInv
<1>5. QED
  BY <1>3, <1>4 DEF LookupMiss

\* The source is read: its version is at least every floor noted so far.
LEMMA LoadReadIInv ==
    ASSUME IInv, NEW c \in Callers, LoadRead(c)
    PROVE  IInv'
<1> DEFINE k == req[c].key
<1>1. /\ pc[c] = "load" /\ k \in Keys
      /\ pc' = [pc EXCEPT ![c] = "loaded"]
      /\ got' = [got EXCEPT ![c] = [ver |-> source[k], size |-> 0,
                                    observed |-> 0, now |-> 0, err |-> FALSE]]
      /\ UNCHANGED <<clock, source, store, flights, ctxErr, req, leader, floor,
                     latest, detached>>
  BY DEF LoadRead, Goto, Value, IInv, TypeOK, Request
<1>2. TypeOK'
  BY <1>1, CacheAssumption DEF IInv, TypeOK, PCs, Outcome, Time
<1>3. FlightsLed' /\ FloorsBelow' /\ LoadsShared' /\ WaitersHaveLeader'
  BY <1>1
     DEF IInv, TypeOK, FlightsLed, FloorsBelow, LoadsShared, WaitersHaveLeader,
         Leading, Attached
<1>4. /\ source[k] >= floor[k] /\ source[k] >= req[c].floor
      /\ source[k] >= latest[k] /\ source[k] >= req[c].latest /\ source[k] <= source[k]
  BY <1>1 DEF IInv, TypeOK, FloorsBelow, Request, Version
<1>5. \A w \in Callers : pc[w] = "wait" /\ leader[w] = c =>
         source[k] >= req[w].floor /\ source[k] >= req[w].latest
  BY <1>1
     DEF IInv, TypeOK, FloorsBelow, WaitersHaveLeader, Request, Version
<1>6. HeldFresh'
  BY <1>1, <1>4, <1>5 DEF IInv, TypeOK, HeldFresh, Holds, Attached
<1>7. NoStaleAfterInvalidate' /\ ReadsDoNotGoBack'
  BY <1>1 DEF IInv, TypeOK, NoStaleAfterInvalidate, ReadsDoNotGoBack
<1>8. QED
  BY <1>2, <1>3, <1>6, <1>7 DEF IInv

\* LoadReturn and LoadFail: the version read stays, or becomes an error.
LEMMA LoadEndIInv ==
    ASSUME IInv, NEW c \in Callers, pc[c] \in {"load", "loaded"},
           NEW o \in Outcome,
           o.err \/ (pc[c] = "loaded" /\ o.ver = got[c].ver),
           got' = [got EXCEPT ![c] = o], Goto(c, "complete"),
           UNCHANGED <<clock, source, store, flights, ctxErr, req, leader,
                       floor, latest, detached>>
    PROVE  IInv'
<1>1. TypeOK'
  BY DEF IInv, TypeOK, Goto, PCs
<1>2. FlightsLed' /\ FloorsBelow' /\ LoadsShared' /\ WaitersHaveLeader'
  BY DEF IInv, TypeOK, FlightsLed, FloorsBelow, LoadsShared, WaitersHaveLeader,
         Leading, Attached, Goto
<1>3. HeldFresh'
  BY DEF IInv, TypeOK, HeldFresh, Holds, Attached, Goto
<1>4. NoStaleAfterInvalidate' /\ ReadsDoNotGoBack'
  BY DEF IInv, TypeOK, NoStaleAfterInvalidate, ReadsDoNotGoBack, Goto
<1>5. QED
  BY <1>1, <1>2, <1>3, <1>4 DEF IInv

\* The loader returns a value of the version it read, or runLoad rejects it.
LEMMA LoadReturnIInv ==
    ASSUME IInv, NEW c \in Callers, NEW observed \in 0..(MaxClock + 1),
           NEW size \in Sizes, LoadReturn(c, observed, size)
    PROVE  IInv'
<1> DEFINE o == got'[c]
<1>1. got' = [got EXCEPT ![c] = o]
  BY DEF LoadReturn, IInv, TypeOK
<1>2. pc[c] = "loaded" /\ Goto(c, "complete")
      /\ UNCHANGED <<clock, source, store, flights, ctxErr, req, leader, floor,
                     latest, detached>>
  BY DEF LoadReturn
<1>3. o \in Outcome
  BY NoOutcomeTyped, CacheAssumption
     DEF LoadReturn, Rejected, IInv, TypeOK, Outcome, Request, Time, Version
<1>4. o.err \/ (o.ver = got[c].ver)
  BY DEF LoadReturn, IInv, TypeOK, NoOutcome
<1>5. QED
  BY <1>1, <1>2, <1>3, <1>4, LoadEndIInv

\* The loader fails, panics or exits.
LEMMA LoadFailIInv ==
    ASSUME IInv, NEW c \in Callers, LoadFail(c)
    PROVE  IInv'
  BY NoOutcomeTyped, LoadEndIInv DEF LoadFail, NoOutcome

(* Complete: the held value reaches the store only while attached, and the *)
(* joined callers only as the value HeldFresh speaks of.                   *)
LEMMA CompleteIInv ==
    ASSUME IInv, NEW c \in Callers, Complete(c)
    PROVE  IInv'
<1> DEFINE o == IF ctxErr[c] THEN NoOutcome ELSE got[c]
           k == req[c].key
           joined == {w \in Callers : pc[w] = "wait" /\ leader[w] = c}
           end == IF o.err THEN NoOutcome ELSE Value(o.ver, o.observed)
<1>1. /\ pc[c] = "complete" /\ k \in Keys
      /\ got' = [w \in Callers |-> IF w \in joined \cup {c} THEN end ELSE got[w]]
      /\ pc' = [w \in Callers |->
                   IF w \in joined \cup {c} THEN "result" ELSE pc[w]]
      /\ leader' = [w \in Callers |-> IF w \in joined THEN w ELSE leader[w]]
      /\ detached' = detached \ {c}
      /\ UNCHANGED <<clock, source, ctxErr, req, floor>>
  BY DEF Joined, Complete, IInv, TypeOK, Request
<1>2. o \in Outcome /\ end \in Outcome
  BY NoOutcomeTyped, CacheAssumption
     DEF IInv, TypeOK, Value, Outcome, Time
<1>3. ~o.err => Holds(c) /\ o = got[c] /\ end.ver = got[c].ver
  BY <1>1 DEF Holds, NoOutcome, Value
<1>4. end.err <=> o.err
  BY <1>2 DEF NoOutcome, Value, Outcome
<1>5. /\ DOMAIN flights' \subseteq DOMAIN flights
      /\ \A j \in DOMAIN flights' : flights'[j] = flights[j] /\ flights[j] # c
      /\ \A j \in DOMAIN flights \ DOMAIN flights' : flights[j] = c
  BY DEF Complete, Attached, Restrict, IInv, FlightsLed
<1>6. \/ UNCHANGED <<store, latest>>
      \/ /\ Attached(c) /\ ~o.err /\ store' = Publish(req[c], o)
         /\ latest' = [latest EXCEPT ![k] = o.ver]
  BY DEF Complete
<1>7. /\ latest' \in [Keys -> Version]
      /\ \A j \in Keys : latest[j] <= latest'[j] /\ latest'[j] <= source[j]
      /\ \A j \in Keys : latest'[j] # latest[j] => j \in DOMAIN flights /\ flights[j] = c
  <2>1. latest \in [Keys -> Version] /\ \A j \in Keys : latest[j] <= source[j]
    BY DEF IInv, TypeOK, FloorsBelow
  <2>2. CASE UNCHANGED latest
    BY <2>1, <2>2, CacheAssumption DEF Version
  <2>3. CASE Attached(c) /\ ~o.err /\ latest' = [latest EXCEPT ![k] = o.ver]
    <3> DEFINE v == o.ver
    <3>1. v \in Version /\ latest[k] <= v /\ v <= source[k]
      BY <1>2, <1>3, <2>3 DEF IInv, HeldFresh, Outcome
    <3>2. k \in DOMAIN flights /\ flights[k] = c
      BY <2>3 DEF Attached
    <3>3. latest' = [latest EXCEPT ![k] = v] /\ k \in Keys
      BY <1>1, <2>3
    <3> HIDE DEF o, k, v
    <3> QED
      BY <2>1, <3>1, <3>2, <3>3, CacheAssumption DEF Version
  <2> QED
    BY <1>6, <2>2, <2>3
<1>8. StoreTyped(store') /\ StoreFresh(store', floor) /\ StoreFresh(store', latest')
  <2>1. StoreTyped(store) /\ StoreFresh(store, floor) /\ StoreFresh(store, latest)
    BY DEF IInv, TypeOK, NoStaleAfterInvalidate, ReadsDoNotGoBack, StoreTyped, StoreFresh
  <2>2. CASE UNCHANGED <<store, latest>>
    BY <2>1, <2>2
  <2>3. CASE /\ Attached(c) /\ ~o.err /\ store' = Publish(req[c], o)
             /\ latest' = [latest EXCEPT ![k] = o.ver]
    <3>1. o.ver >= floor[k]
      BY <1>3, <2>3 DEF IInv, HeldFresh
    <3>0. latest \in [Keys -> Version] /\ o.ver \in Int
      BY <1>2 DEF IInv, TypeOK, Outcome, Version
    <3>2. [ver |-> o.ver, size |-> o.size, observed |-> o.observed,
           expires |-> o.observed + req[c].retain] \in Entry
      BY <1>2, CacheAssumption
         DEF Entry, Outcome, Time, IInv, TypeOK, Request
    <3> HIDE DEF o, k, end, joined
    <3>3. /\ DOMAIN store' = {"entries", "lru", "bytes"}
          /\ DOMAIN store'.entries \subseteq DOMAIN store.entries \cup {k}
          /\ \A j \in DOMAIN store'.entries :
                \/ /\ j = k
                   /\ store'.entries[j] = [ver |-> o.ver, size |-> o.size,
                                           observed |-> o.observed,
                                           expires |-> o.observed + req[c].retain]
                \/ /\ j \in DOMAIN store.entries \ {k}
                   /\ store'.entries[j] = store.entries[j]
      BY <2>3, PublishEntries DEF k
    <3>4. QED
      BY <1>1, <2>1, <2>3, <3>0, <3>1, <3>2, <3>3 DEF StoreTyped, StoreFresh
  <2>4. QED
    BY <1>6, <2>2, <2>3
<1> HIDE DEF o, k, end
<1>9. TypeOK'
  BY <1>1, <1>2, <1>5, <1>8, <1>7 DEF IInv, TypeOK, StoreTyped, PCs
<1>10. FlightsLed' /\ FloorsBelow'
  <2>1. FlightsLed'
    BY <1>1, <1>5 DEF IInv, TypeOK, FlightsLed, Leading
  <2>2. ASSUME NEW w \in Callers, pc'[w] # "idle"
        PROVE  /\ req'[w].floor <= floor'[req'[w].key]
               /\ req'[w].latest <= latest'[req'[w].key]
    <3>1. /\ req' = req /\ floor' = floor /\ req[w] \in Request
          /\ req[w].floor <= floor[req[w].key] /\ req[w].latest <= latest[req[w].key]
      BY <1>1, <2>2 DEF IInv, TypeOK, FloorsBelow
    <3>2. /\ req[w].latest \in Int /\ latest[req[w].key] \in Int /\ latest'[req[w].key] \in Int
          /\ latest[req[w].key] <= latest'[req[w].key]
      BY <1>7, <3>1 DEF IInv, TypeOK, Request, Version
    <3> QED
      BY <3>1, <3>2
  <2>3. \A j \in Keys : floor'[j] <= source'[j] /\ latest'[j] <= source'[j]
    BY <1>1, <1>7 DEF IInv, FloorsBelow
  <2> QED
    BY <2>1, <2>2, <2>3 DEF FloorsBelow
<1>11. LoadsShared'
  BY <1>1, <1>5 DEF IInv, TypeOK, LoadsShared, Leading, Attached
<1>12. WaitersHaveLeader'
  BY <1>1 DEF IInv, TypeOK, WaitersHaveLeader, Leading
<1>13. HeldFresh'
  <2>1. ASSUME NEW w \in Callers, Holds(w)'
        PROVE  Holds(w) /\ w \notin joined \cup {c} /\ got'[w] = got[w] /\ req'[w] = req[w]
    BY <1>1, <2>1 DEF Holds, IInv, TypeOK
  <2>2. ASSUME NEW w \in Callers, Holds(w)', Attached(w)'
        PROVE  /\ got'[w].ver >= floor'[req'[w].key]
               /\ got'[w].ver >= latest'[req'[w].key]
    <3>1. Attached(w) /\ flights[req[w].key] = w /\ w # c
      BY <1>1, <1>5, <2>1, <2>2 DEF Attached
    <3>2. req[w].key \in Keys
      BY DEF IInv, TypeOK, Request
    <3> QED
      BY <1>1, <1>7, <2>1, <2>2, <3>1, <3>2 DEF IInv, HeldFresh
  <2>3. ASSUME NEW w \in Callers, Holds(w)', NEW v \in Callers, pc'[v] = "wait", leader'[v] = w
        PROVE  got'[w].ver >= req'[v].floor /\ got'[w].ver >= req'[v].latest
    <3>1. pc[v] = "wait" /\ leader[v] = w /\ req'[v] = req[v]
      BY <1>1, <2>3 DEF IInv, TypeOK
    <3> QED
      BY <2>1, <2>3, <3>1 DEF IInv, HeldFresh
  <2> QED
    BY <1>1, <2>1, <2>2, <2>3 DEF IInv, HeldFresh
<1>14. NoStaleAfterInvalidate' /\ ReadsDoNotGoBack'
  <2>1. \A w \in joined \cup {c} :
           ~end.err => end.ver >= req[w].floor /\ end.ver >= req[w].latest
    BY <1>3, <1>4 DEF IInv, HeldFresh
  <2>2. QED
    BY <1>1, <1>8, <2>1
       DEF IInv, TypeOK, NoStaleAfterInvalidate, ReadsDoNotGoBack, StoreFresh
<1>15. QED
  BY <1>9, <1>10, <1>11, <1>12, <1>13, <1>14 DEF IInv

(* An invalidation of K: nothing of K stays, every leader of K is detached. *)
LEMMA InvalidationIInv ==
    ASSUME IInv, NEW K \in SUBSET Keys, Mark(K), Within(store', store),
           DOMAIN store'.entries \cap K = {},
           flights' = Restrict(flights, DOMAIN flights \ K),
           UNCHANGED <<clock, source, pc, ctxErr, req, got, leader, latest>>
    PROVE  IInv'
<1>1. /\ DOMAIN flights' = DOMAIN flights \ K
      /\ \A k \in DOMAIN flights' : flights'[k] = flights[k]
  BY DEF Restrict
<1>2. StoreTyped(store') /\ StoreFresh(store', floor) /\ StoreFresh(store', latest)
  BY WithinKeeps
     DEF IInv, TypeOK, NoStaleAfterInvalidate, ReadsDoNotGoBack, StoreTyped, StoreFresh
<1>3. TypeOK'
  BY <1>1, <1>2 DEF IInv, TypeOK, StoreTyped, Mark
<1>4. \A k \in Keys : /\ floor'[k] >= floor[k] /\ floor'[k] <= source[k]
                       /\ latest[k] <= source[k]
  BY DEF IInv, TypeOK, FloorsBelow, Mark, Version
<1>5. FlightsLed'
  BY <1>1 DEF IInv, FlightsLed, Leading
<1>6. FloorsBelow'
  <2>1. \A c \in Callers : pc[c] # "idle" => /\ req[c].floor <= floor'[req[c].key]
                                               /\ req[c].latest <= latest[req[c].key]
    BY <1>3, <1>4 DEF IInv, TypeOK, FloorsBelow, Request, Version
  <2>2. QED
    BY <1>4, <2>1 DEF FloorsBelow
<1>7. LoadsShared'
  BY <1>1, <1>3 DEF IInv, TypeOK, LoadsShared, Leading, Attached, Mark, Request
<1>8. WaitersHaveLeader'
  BY DEF IInv, WaitersHaveLeader, Leading
<1>9. HeldFresh'
  BY <1>1, <1>3 DEF IInv, TypeOK, HeldFresh, Holds, Attached, Mark, Request
<1>10. NoStaleAfterInvalidate' /\ ReadsDoNotGoBack'
  <2>1. \A k \in DOMAIN store'.entries : floor'[k] = floor[k]
    BY <1>2 DEF Mark, StoreTyped
  <2>2. QED
    BY <1>2, <2>1 DEF IInv, NoStaleAfterInvalidate, ReadsDoNotGoBack, StoreFresh
<1>11. QED
  BY <1>3, <1>5, <1>6, <1>7, <1>8, <1>9, <1>10 DEF IInv

\* Invalidate and InvalidatePrefix are such invalidations.
LEMMA InvalidateKeysIInv ==
    ASSUME IInv, NEW K \in SUBSET Keys, InvalidateKeys(K)
    PROVE  IInv'
<1>1. Within(store', store) /\ DOMAIN store'.entries \cap K = {}
  BY RemoveWithin, RemoveEntries DEF InvalidateKeys
<1>2. QED
  BY <1>1, InvalidationIInv DEF InvalidateKeys

\* Clear is an invalidation of every key.
LEMMA ClearIInv ==
    ASSUME IInv, Clear
    PROVE  IInv'
<1>1. Within(store', store) /\ DOMAIN store'.entries \cap Keys = {}
  BY DEF Clear, EmptyStore, Within
<1>2. DOMAIN flights \ Keys = {}
  BY DEF IInv, TypeOK
<1>3. flights' = Restrict(flights, DOMAIN flights \ Keys)
  BY <1>2 DEF Clear, Restrict
<1>4. QED
  BY <1>1, <1>3, InvalidationIInv DEF Clear

\* Cancellations, time and remote changes.
LEMMA EnvironmentIInv ==
    ASSUME IInv, (\E c \in Callers : Cancel(c)) \/ Tick
                 \/ (\E k \in Keys : SourceChange(k))
    PROVE  IInv'
<1>1. ASSUME NEW c \in Callers, Cancel(c) PROVE IInv'
  BY <1>1
     DEF Cancel, IInv, TypeOK, FlightsLed, FloorsBelow, HeldFresh, Holds,
         Leading, Attached, NoStaleAfterInvalidate, ReadsDoNotGoBack, LoadsShared,
         WaitersHaveLeader
<1>2. CASE Tick
  BY <1>2, CacheAssumption
     DEF Tick, IInv, TypeOK, Time, FlightsLed, FloorsBelow, HeldFresh, Holds,
         Leading, Attached, NoStaleAfterInvalidate, ReadsDoNotGoBack, LoadsShared,
         WaitersHaveLeader
<1>3. ASSUME NEW k \in Keys, SourceChange(k) PROVE IInv'
  <2>1. TypeOK' /\ FloorsBelow'
    BY <1>3, CacheAssumption
       DEF SourceChange, IInv, TypeOK, Version, FloorsBelow
  <2>2. \A j \in Keys : source[j] \in Int /\ source[j] <= source'[j] /\ source'[j] \in Int
    BY <1>3, CacheAssumption DEF SourceChange, IInv, TypeOK, Version
  <2>3. \A c \in Callers : Holds(c)' => got'[c].ver <= source'[req'[c].key]
    <3>1. \A c \in Callers : Holds(c)' => /\ Holds(c) /\ got'[c] = got[c] /\ req'[c] = req[c]
                                          /\ req[c].key \in Keys /\ got[c].ver \in Int
      BY <1>3 DEF SourceChange, Holds, IInv, TypeOK, Request, Outcome, Version
    <3> QED
      BY <2>2, <3>1 DEF IInv, HeldFresh
  <2>4. HeldFresh'
    BY <1>3, <2>3 DEF SourceChange, IInv, HeldFresh, Holds, Attached
  <2>5. QED
    BY <1>3, <2>1, <2>4
       DEF SourceChange, IInv, FlightsLed, Leading, Attached,
           NoStaleAfterInvalidate, ReadsDoNotGoBack, LoadsShared, WaitersHaveLeader
<1>4. QED
  BY <1>1, <1>2, <1>3

\* Every step of a caller inside GetWithin.
LEMMA StepIInv ==
    ASSUME IInv, NEW c \in Callers, Step(c)
    PROVE  IInv'
<1>1. CASE LookupCanceled(c) \/ WaitCanceled(c) \/ Return(c)
  BY <1>1, FinishIInv DEF LookupCanceled, WaitCanceled, Return, Leading
<1>2. CASE LookupHit(c)
  BY <1>2, LookupHitIInv
<1>3. CASE LookupMiss(c)
  BY <1>3, LookupMissIInv
<1>4. CASE LoadRead(c)
  BY <1>4, LoadReadIInv
<1>5. CASE LoadFail(c)
  BY <1>5, LoadFailIInv
<1>6. CASE \E observed \in 0..(MaxClock + 1), size \in Sizes :
              LoadReturn(c, observed, size)
  BY <1>6, LoadReturnIInv
<1>7. CASE Complete(c)
  BY <1>7, CompleteIInv
<1>8. QED
  BY <1>1, <1>2, <1>3, <1>4, <1>5, <1>6, <1>7 DEF Step

\* The invariant is inductive.
LEMMA NextIInv == IInv /\ [Next]_vars => IInv'
<1> SUFFICES ASSUME IInv, [Next]_vars PROVE IInv'
  OBVIOUS
<1>1. CASE \E c \in Callers, k \in Keys, maxAge \in MaxAges, retain \in Retains :
              Begin(c, k, maxAge, retain)
  BY <1>1, BeginIInv
<1>2. CASE \E c \in Callers : Step(c)
  BY <1>2, StepIInv
<1>3. CASE (\E c \in Callers : Cancel(c)) \/ Tick
           \/ (\E k \in Keys : SourceChange(k))
  BY <1>3, EnvironmentIInv
<1>4. CASE \E k \in Keys : Invalidate(k)
  BY <1>4, InvalidateKeysIInv DEF Invalidate
<1>5. CASE \E K \in Prefixes : InvalidatePrefix(K)
  BY <1>5, InvalidateKeysIInv, CacheAssumption DEF InvalidatePrefix
<1>6. CASE Clear
  BY <1>6, ClearIInv
<1>7. CASE \E now \in 0..clock : Peek(now)
  BY <1>7, PeekIInv
<1>8. CASE UNCHANGED vars
  BY <1>8
     DEF vars, IInv, TypeOK, FlightsLed, FloorsBelow, HeldFresh, Holds, Leading,
         Attached, NoStaleAfterInvalidate, ReadsDoNotGoBack, LoadsShared, WaitersHaveLeader
<1>9. QED
  BY <1>1, <1>2, <1>3, <1>4, <1>5, <1>6, <1>7, <1>8 DEF Next

\* The inductive invariant holds in every reachable state of the cache.
THEOREM IInvInvariant == Spec => []IInv
  BY InitIInv, NextIInv, PTL DEF Spec

(* The variables of the cache keep their types. *)
THEOREM TypeCorrect == Spec => []TypeOK
<1>1. IInv => TypeOK
  BY DEF IInv
<1>2. QED
  BY <1>1, IInvInvariant, PTL

(* For any number of keys, callers and versions: after an invalidation no  *)
(* caller gets, and the cache does not hold, an older value.               *)
THEOREM InvalidationIsFinal == Spec => []NoStaleAfterInvalidate
<1>1. IInv => NoStaleAfterInvalidate
  BY DEF IInv
<1>2. QED
  BY <1>1, IInvInvariant, PTL

(* A load loses its place only to an invalidation, and whoever waits for a *)
(* load waits for one that is still in progress.                           *)
THEOREM LoadSharing == Spec => [](LoadsShared /\ WaitersHaveLeader)
<1>1. IInv => LoadsShared /\ WaitersHaveLeader
  BY DEF IInv
<1>2. QED
  BY <1>1, IInvInvariant, PTL

(* Whatever ages and retentions the calls ask for: once a load of a key has *)
(* completed with a value, no later call gets an older one.                 *)
THEOREM ReadsAdvance == Spec => []ReadsDoNotGoBack
<1>1. IInv => ReadsDoNotGoBack
  BY DEF IInv
<1>2. QED
  BY <1>1, IInvInvariant, PTL

-----------------------------------------------------------------------------
(* The budgets.  A sum of sizes is a number of bytes, so facts about finite *)
(* sets stand for an induction over the entries.                           *)

\* A set of numbers with a bound has a greatest one.
LEMMA Greatest ==
    ASSUME NEW m \in Nat, NEW S, S \subseteq 0..m, S # {}
    PROVE  Max(S) \in S
<1> DEFINE T == {n \in 0..m : m - n \in S}
<1>0. T \subseteq Nat
  OBVIOUS
<1>1. T \subseteq Nat /\ T # {}
  <2>1. PICK x \in S : TRUE
    OBVIOUS
  <2>2. m - x \in 0..m /\ m - (m - x) = x
    BY <2>1
  <2>3. m - x \in T
    BY <2>1, <2>2
  <2> HIDE DEF T
  <2> QED
    BY <1>0, <2>3
<1>2. PICK n \in T : \A i \in T : ~(<<i, n>> \in OpToRel(<, Nat))
  <2> HIDE DEF T
  <2> QED
    BY <1>1, NatLessThanWellFounded, WFMin
<1>3. \A i \in T : ~(i < n)
  <2> SUFFICES ASSUME NEW i \in T, i < n
               PROVE  FALSE
    OBVIOUS
  <2>1. i \in Nat /\ n \in Nat
    BY <1>1
  <2>2. <<i, n>> \in OpToRel(<, Nat)
    BY <2>1 DEF OpToRel
  <2> QED
    BY <1>2, <2>2
<1>4. m - n \in S /\ \A x \in S : m - n >= x
  <2>1. m - n \in S /\ n \in Int
    OBVIOUS
  <2>2. ASSUME NEW x \in S
        PROVE  m - n >= x
    <3>1. x \in Int /\ m - x \in T
      OBVIOUS
    <3> QED
      BY <1>3, <2>1, <3>1
  <2> QED
    BY <2>1, <2>2
<1> HIDE DEF T
<1> QED
  BY <1>4 DEF Max

-----------------------------------------------------------------------------
(* What is retained fits its budgets *)

\* How many numbers there are up to n.
LEMMA UpTo ==
    ASSUME NEW n \in Nat
    PROVE  IsFiniteSet(1..n) /\ Cardinality(1..n) = n
<1>1. IsFiniteSet(1..n) /\ Cardinality(1..n) = IF 1 > n THEN 0 ELSE n - 1 + 1
  BY FS_Interval
<1> QED
  BY <1>1

\* The bytes of finitely many keys are finitely many.
LEMMA BytesFinite ==
    ASSUME NEW s, NEW K, IsFiniteSet(K), \A k \in K : s.entries[k].size \in Nat
    PROVE  IsFiniteSet(Bytes(s, K)) /\ SizeSum(s, K) \in Nat
<1> DEFINE f == [k \in K |-> {k} \X (1..s.entries[k].size)]
           F == {{k} \X (1..s.entries[k].size) : k \in K}
<1>1. f \in Surjection(K, F)
  BY DEF Surjection
<1>2. IsFiniteSet(F)
  BY <1>1, FS_Surjection
<1>3. ASSUME NEW k \in K
      PROVE  IsFiniteSet({k} \X (1..s.entries[k].size))
  <2>1. IsFiniteSet({k}) /\ IsFiniteSet(1..s.entries[k].size)
    BY FS_Singleton, UpTo
  <2> QED
    BY <2>1, FS_Product
<1>4. IsFiniteSet(UNION F)
  BY <1>2, <1>3, FS_UNION
<1> QED
  BY <1>4, FS_CardinalityType DEF Bytes, SizeSum

LEMMA SumOfNone ==
    ASSUME NEW s
    PROVE  SizeSum(s, {}) = 0
  BY FS_EmptySet DEF SizeSum, Bytes

LEMMA SumOfOne ==
    ASSUME NEW s, NEW k, s.entries[k].size \in Nat
    PROVE  SizeSum(s, {k}) = s.entries[k].size
<1>1. Bytes(s, {k}) = {k} \X (1..s.entries[k].size)
  BY DEF Bytes
<1>2. IsFiniteSet({k}) /\ Cardinality({k}) = 1
  BY FS_Singleton
<1>3. IsFiniteSet(1..s.entries[k].size) /\ Cardinality(1..s.entries[k].size) = s.entries[k].size
  BY UpTo
<1>4. Cardinality({k} \X (1..s.entries[k].size)) = Cardinality({k}) * Cardinality(1..s.entries[k].size)
  BY <1>2, <1>3, FS_Product
<1>5. Cardinality({k} \X (1..s.entries[k].size)) = s.entries[k].size
  BY <1>2, <1>3, <1>4
<1> QED
  BY <1>1, <1>5 DEF SizeSum

\* Disjoint sets of keys have no bytes in common.
LEMMA SumOfParts ==
    ASSUME NEW s, NEW K, NEW L, IsFiniteSet(K), IsFiniteSet(L), K \cap L = {},
           \A k \in K \cup L : s.entries[k].size \in Nat
    PROVE  SizeSum(s, K \cup L) = SizeSum(s, K) + SizeSum(s, L)
<1>1. Bytes(s, K \cup L) = Bytes(s, K) \cup Bytes(s, L)
  BY DEF Bytes
<1>2. Bytes(s, K) \cap Bytes(s, L) = {}
  BY DEF Bytes
<1>3. /\ IsFiniteSet(Bytes(s, K)) /\ SizeSum(s, K) \in Nat
      /\ IsFiniteSet(Bytes(s, L)) /\ SizeSum(s, L) \in Nat
  BY BytesFinite
<1>4. /\ Cardinality(Bytes(s, K) \cup Bytes(s, L)) =
            Cardinality(Bytes(s, K)) + Cardinality(Bytes(s, L))
               - Cardinality(Bytes(s, K) \cap Bytes(s, L))
  BY <1>3, FS_Union
<1>5. Cardinality(Bytes(s, K) \cap Bytes(s, L)) = 0
  BY <1>2, FS_EmptySet
<1>6. SizeSum(s, K \cup L) = SizeSum(s, K) + SizeSum(s, L) - 0
  BY <1>1, <1>4, <1>5 DEF SizeSum
<1> QED
  BY <1>3, <1>6

LEMMA SumOfSame ==
    ASSUME NEW s, NEW t, NEW K, \A k \in K : t.entries[k].size = s.entries[k].size
    PROVE  SizeSum(t, K) = SizeSum(s, K)
<1>1. Bytes(t, K) = Bytes(s, K)
  BY DEF Bytes
<1> QED
  BY <1>1 DEF SizeSum

\* Map, list and counter of a store belong together, and it is within limits.
StoreSound(s) ==
    /\ DOMAIN s.entries \subseteq Keys
    /\ \A k \in DOMAIN s.entries : s.entries[k].size \in Nat
    /\ s.lru \in Seq(Keys) /\ IsInjective(s.lru)
    /\ Range(s.lru) = DOMAIN s.entries
    /\ Len(s.lru) <= MaxEntries
    /\ s.bytes = SizeSum(s, DOMAIN s.entries)
    /\ s.bytes <= ByteLimit

LEMMA SoundFinite ==
    ASSUME NEW s, StoreSound(s)
    PROVE  /\ IsFiniteSet(DOMAIN s.entries) /\ Cardinality(DOMAIN s.entries) = Len(s.lru)
           /\ s.bytes \in Nat /\ Len(s.lru) \in Nat
  BY Distinct, BytesFinite, LenProperties DEF StoreSound

LEMMA SoundBudgets == StoreSound(store) => BudgetsRespected
  BY SoundFinite DEF StoreSound, BudgetsRespected

LEMMA RemoveSound ==
    ASSUME NEW s, StoreSound(s), NEW K
    PROVE  /\ StoreSound(Remove(s, K))
           /\ Remove(s, K).bytes = s.bytes - SizeSum(s, DOMAIN s.entries \cap K)
<1> DEFINE t == Remove(s, K)
           D == DOMAIN s.entries
<1>1. /\ DOMAIN t.entries = D \ K
      /\ \A k \in D \ K : t.entries[k] = s.entries[k]
  BY RemoveEntries
<1>2. t.lru = Keeping(s.lru, Keys \ K) /\ t.bytes = s.bytes - SizeSum(s, D \cap K)
  BY DEF Remove
<1> HIDE DEF t
<1>3. /\ D \subseteq Keys /\ \A k \in D : s.entries[k].size \in Nat
      /\ s.lru \in Seq(Keys) /\ IsInjective(s.lru) /\ Range(s.lru) = D
      /\ Len(s.lru) <= MaxEntries /\ s.bytes = SizeSum(s, D) /\ s.bytes <= ByteLimit
  BY DEF StoreSound
<1>4. IsFiniteSet(D) /\ s.bytes \in Nat /\ Len(s.lru) \in Nat
  BY SoundFinite
<1> HIDE DEF D
<1>5. /\ t.lru \in Seq(Keys) /\ IsInjective(t.lru) /\ Range(t.lru) = D \ K
      /\ Len(t.lru) <= Len(s.lru)
  <2>1. Range(s.lru) \cap (Keys \ K) = D \ K
    BY <1>3
  <2> QED
    BY <1>2, <1>3, <2>1, Keeps
<1>6. Len(t.lru) <= MaxEntries
  <2>1. Len(t.lru) \in Nat /\ MaxEntries \in Nat
    BY <1>5, LenProperties, CacheAssumption
  <2> QED
    BY <1>3, <1>4, <1>5, <2>1
<1>7. t.bytes = SizeSum(t, D \ K) /\ t.bytes <= ByteLimit
  <2>1. IsFiniteSet(D \ K) /\ IsFiniteSet(D \cap K)
    BY <1>4, FS_Subset
  <2>2. SizeSum(s, D \ K) \in Nat /\ SizeSum(s, D \cap K) \in Nat
    BY <1>3, <2>1, BytesFinite
  <2>3. SizeSum(s, D) = SizeSum(s, D \ K) + SizeSum(s, D \cap K)
    <3>1. D = (D \ K) \cup (D \cap K) /\ (D \ K) \cap (D \cap K) = {}
      OBVIOUS
    <3> QED
      BY <1>3, <2>1, <3>1, SumOfParts
  <2>4. SizeSum(t, D \ K) = SizeSum(s, D \ K)
    BY <1>1, SumOfSame
  <2>5. ByteLimit \in Nat
    BY CacheAssumption
  <2> QED
    BY <1>2, <1>3, <1>4, <2>2, <2>3, <2>4, <2>5
<1>8. DOMAIN t.entries \subseteq Keys /\ \A k \in DOMAIN t.entries : t.entries[k].size \in Nat
  BY <1>1, <1>3
<1>9. StoreSound(t)
  BY <1>1, <1>5, <1>6, <1>7, <1>8 DEF StoreSound
<1> QED
  BY <1>2, <1>9 DEF t, D

\* Moving a hit to the front changes neither what is retained nor how many.
LEMMA TouchSound ==
    ASSUME NEW s, StoreSound(s), NEW k \in DOMAIN s.entries
    PROVE  StoreSound(Touch(s, k))
<1> DEFINE t == Touch(s, k)
           rest == Keeping(s.lru, Keys \ {k})
<1>1. t.entries = s.entries /\ t.bytes = s.bytes /\ t.lru = <<k>> \o rest
  BY DEF Touch
<1>2. /\ DOMAIN s.entries \subseteq Keys
      /\ s.lru \in Seq(Keys) /\ IsInjective(s.lru) /\ Range(s.lru) = DOMAIN s.entries
      /\ Len(s.lru) <= MaxEntries
  BY DEF StoreSound
<1>3. /\ rest \in Seq(Keys) /\ IsInjective(rest)
      /\ Range(rest) = Range(s.lru) \cap (Keys \ {k})
      /\ \A i \in DOMAIN s.lru : s.lru[i] \notin Keys \ {k} => Len(rest) < Len(s.lru)
  BY <1>2, Keeps
<1> HIDE DEF rest, t
<1>4. Len(rest) < Len(s.lru)
  <2>1. PICK i \in DOMAIN s.lru : s.lru[i] = k
    BY <1>2 DEF Range
  <2> QED
    BY <1>3, <2>1
<1>5. k \in Keys /\ k \notin Range(rest)
  BY <1>2, <1>3
<1>6. /\ t.lru \in Seq(Keys) /\ Len(t.lru) = Len(rest) + 1
      /\ IsInjective(t.lru) /\ Range(t.lru) = {k} \cup Range(rest)
  BY <1>1, <1>3, <1>5, InFront
<1>7. Range(t.lru) = DOMAIN s.entries
  BY <1>2, <1>3, <1>6
<1>8. Len(t.lru) <= MaxEntries
  <2>1. Len(rest) \in Nat /\ Len(s.lru) \in Nat /\ MaxEntries \in Nat
    BY <1>2, <1>3, LenProperties, CacheAssumption
  <2>2. Len(rest) < Len(s.lru) /\ Len(s.lru) <= MaxEntries /\ Len(t.lru) = Len(rest) + 1
    BY <1>2, <1>4, <1>6
  <2> QED
    BY <2>1, <2>2
<1>9. SizeSum(t, DOMAIN t.entries) = SizeSum(s, DOMAIN s.entries)
  BY <1>1, SumOfSame
<1>10. StoreSound(t)
  BY <1>1, <1>6, <1>7, <1>8, <1>9 DEF StoreSound
<1> QED
  BY <1>10 DEF t

\* What is in front of the part that is dropped is no longer than it should be.
LEMMA BehindCount ==
    ASSUME NEW s, StoreSound(s), NEW n \in 0..Len(s.lru)
    PROVE  /\ Behind(s, n) \subseteq DOMAIN s.entries
           /\ Cardinality(DOMAIN s.entries \ Behind(s, n)) <= n
           /\ n = 0 => Behind(s, n) = DOMAIN s.entries
<1>1. /\ s.lru \in Seq(Keys) /\ Range(s.lru) = DOMAIN s.entries
  BY DEF StoreSound
<1>2. Len(s.lru) \in Nat /\ DOMAIN s.lru = 1..Len(s.lru)
  BY <1>1, LenProperties
<1> DEFINE front == {s.lru[i] : i \in 1..n}
           f == [i \in 1..n |-> s.lru[i]]
<1>3. n \in Nat /\ 1..n \subseteq DOMAIN s.lru /\ (n + 1)..Len(s.lru) \subseteq DOMAIN s.lru
  BY <1>2
<1>4. Behind(s, n) \subseteq DOMAIN s.entries
  BY <1>1, <1>3 DEF Behind, Range
<1>5. DOMAIN s.entries \ Behind(s, n) \subseteq front
  <2>1. SUFFICES ASSUME NEW x \in DOMAIN s.entries, x \notin Behind(s, n)
                 PROVE  x \in front
    OBVIOUS
  <2>2. PICK i \in DOMAIN s.lru : s.lru[i] = x
    BY <1>1, <2>1 DEF Range
  <2>3. i \notin (n + 1)..Len(s.lru)
    BY <2>1, <2>2 DEF Behind
  <2>4. i \in 1..n
    BY <1>2, <1>3, <2>3
  <2> QED
    BY <2>2, <2>4
<1>6. IsFiniteSet(front) /\ Cardinality(front) <= n
  <2>1. f \in Surjection(1..n, front)
    BY DEF Surjection
  <2>2. IsFiniteSet(1..n) /\ Cardinality(1..n) = n
    BY <1>3, UpTo
  <2> HIDE DEF f, front
  <2> QED
    BY <2>1, <2>2, FS_Surjection
<1>7. Cardinality(DOMAIN s.entries \ Behind(s, n)) <= n
  <2> DEFINE left == DOMAIN s.entries \ Behind(s, n)
  <2>1. left \in SUBSET front
    BY <1>5
  <2> HIDE DEF left, front
  <2>2. /\ IsFiniteSet(left) /\ Cardinality(left) <= Cardinality(front)
    BY <1>6, <2>1, FS_Subset
  <2>3. Cardinality(left) \in Nat /\ Cardinality(front) \in Nat
    BY <1>6, <2>2, FS_CardinalityType
  <2>4. Cardinality(left) <= n
    BY <1>3, <1>6, <2>2, <2>3
  <2> QED
    BY <2>4 DEF left
<1>8. n = 0 => Behind(s, n) = DOMAIN s.entries
  <2> SUFFICES ASSUME n = 0 PROVE DOMAIN s.entries \subseteq Behind(s, n)
    BY <1>4
  <2>1. \A i \in DOMAIN s.lru : i \in (n + 1)..Len(s.lru)
    BY <1>2
  <2> QED
    BY <1>1, <2>1 DEF Behind, Range
<1> QED
  BY <1>4, <1>7, <1>8

\* insertLocked makes room in both budgets before it adds the entry.
LEMMA InsertSound ==
    ASSUME NEW s, StoreSound(s), NEW k \in Keys, k \notin DOMAIN s.entries,
           NEW e, e.size \in Nat
    PROVE  StoreSound(Insert(s, k, e))
<1> DEFINE N == {n \in 0..Len(s.lru) :
                    /\ n < MaxEntries
                    /\ s.bytes - SizeSum(s, Behind(s, n)) <= ByteLimit - e.size}
           D == DOMAIN s.entries
<1>1. CASE e.size > ByteLimit
  BY <1>1 DEF Insert
<1>2. CASE ~(e.size > ByteLimit)
  <2>1. ByteLimit \in Nat /\ MaxEntries \in Nat \ {0} /\ e.size <= ByteLimit
    BY <1>2, CacheAssumption
  <2>2. IsFiniteSet(D) /\ s.bytes \in Nat /\ s.bytes = SizeSum(s, D) /\ Len(s.lru) \in Nat
    BY SoundFinite DEF StoreSound
  <2>3. Max(N) \in N
    <3>1. 0 \in N
      <4>1. Behind(s, 0) = D
        <5>1. 0 \in 0..Len(s.lru)
          BY <2>2
        <5> QED
          BY <5>1, BehindCount
      <4>2. s.bytes - SizeSum(s, Behind(s, 0)) = 0
        BY <2>2, <4>1
      <4>3. 0 <= ByteLimit - e.size
        BY <2>1
      <4>4. s.bytes - SizeSum(s, Behind(s, 0)) <= ByteLimit - e.size
        BY <4>2, <4>3
      <4> QED
        BY <2>1, <2>2, <4>4
    <3>2. N \subseteq 0..Len(s.lru)
      OBVIOUS
    <3> HIDE DEF N
    <3> QED
      BY <2>2, <3>1, <3>2, Greatest
  <2> DEFINE n == Max(N)
             B == Behind(s, n)
             t == Remove(s, B)
             u == [entries |-> [j \in DOMAIN t.entries \cup {k} |->
                                   IF j = k THEN e ELSE t.entries[j]],
                   lru     |-> <<k>> \o t.lru,
                   bytes   |-> t.bytes + e.size]
  <2>4. Insert(s, k, e) = u
    BY <1>2 DEF Insert
  <2>5. /\ n \in 0..Len(s.lru) /\ n < MaxEntries
        /\ s.bytes - SizeSum(s, B) <= ByteLimit - e.size
    BY <2>3
  <2> HIDE DEF N, n
  <2>6. B \subseteq D /\ Cardinality(D \ B) <= n
    BY <2>5, BehindCount
  <2>7. /\ StoreSound(t) /\ DOMAIN t.entries = D \ B
        /\ t.bytes = s.bytes - SizeSum(s, B)
    <3>1. D \cap B = B
      BY <2>6
    <3> HIDE DEF B, D
    <3>2. StoreSound(t) /\ t.bytes = s.bytes - SizeSum(s, D \cap B)
      BY RemoveSound DEF D
    <3> QED
      BY <3>1, <3>2, RemoveEntries DEF D
  <2> DEFINE R == DOMAIN t.entries
  <2>8. /\ R \subseteq Keys /\ \A j \in R : t.entries[j].size \in Nat
        /\ t.lru \in Seq(Keys) /\ IsInjective(t.lru) /\ Range(t.lru) = R
        /\ t.bytes = SizeSum(t, R)
        /\ IsFiniteSet(R) /\ Cardinality(R) = Len(t.lru)
        /\ t.bytes \in Nat /\ Len(t.lru) \in Nat /\ k \notin R
    <3> HIDE DEF t
    <3> QED
      BY <2>7, SoundFinite DEF StoreSound
  <2>9. /\ u.lru = <<k>> \o t.lru /\ u.bytes = t.bytes + e.size
        /\ DOMAIN u.entries = R \cup {k} /\ u.entries[k] = e
        /\ \A j \in R : u.entries[j] = t.entries[j]
    BY <2>8
  <2> HIDE DEF u, B, D
  <2>10. Len(t.lru) + 1 <= MaxEntries
    <3>1. Len(t.lru) <= n
      BY <2>6, <2>7, <2>8
    <3>2. n \in Nat /\ Len(t.lru) \in Nat /\ MaxEntries \in Nat /\ n < MaxEntries
      BY <2>1, <2>5, <2>8
    <3> QED
      BY <3>1, <3>2
  <2>11. t.bytes + e.size <= ByteLimit
    <3>1. t.bytes <= ByteLimit - e.size
      BY <2>5, <2>7
    <3> QED
      BY <2>1, <2>8, <3>1
  <2> HIDE DEF t, R
  <2>12. /\ u.lru \in Seq(Keys) /\ Len(u.lru) <= MaxEntries
         /\ IsInjective(u.lru) /\ Range(u.lru) = R \cup {k}
    <3>1. /\ u.lru \in Seq(Keys) /\ Len(u.lru) = Len(t.lru) + 1
          /\ IsInjective(u.lru) /\ Range(u.lru) = {k} \cup R
      BY <2>8, <2>9, InFront
    <3> QED
      BY <2>10, <3>1
  <2>13. u.bytes = SizeSum(u, R \cup {k})
    <3>1. SizeSum(u, R) = SizeSum(t, R)
      BY <2>9, SumOfSame
    <3>2. SizeSum(u, {k}) = e.size
      BY <2>9, SumOfOne
    <3>3. SizeSum(u, R \cup {k}) = SizeSum(u, R) + SizeSum(u, {k})
      <4>1. IsFiniteSet({k}) /\ R \cap {k} = {}
        BY <2>8, FS_Singleton
      <4>2. \A j \in R \cup {k} : u.entries[j].size \in Nat
        BY <2>8, <2>9
      <4> QED
        BY <2>8, <4>1, <4>2, SumOfParts
    <3> QED
      BY <2>8, <2>9, <3>1, <3>2, <3>3
  <2>14. /\ DOMAIN u.entries \subseteq Keys
         /\ \A j \in DOMAIN u.entries : u.entries[j].size \in Nat
    BY <2>8, <2>9
  <2>15. StoreSound(u)
    BY <2>9, <2>11, <2>12, <2>13, <2>14 DEF StoreSound
  <2> QED
    BY <2>4, <2>15
<1> QED
  BY <1>1, <1>2

\* A sweep leaves the store sound.
LEMMA ExpireSound ==
    ASSUME NEW s, StoreSound(s), NEW now
    PROVE  StoreSound(Expire(s, now))
  BY RemoveSound DEF Expire

\* The completion of a load replaces the entry of its key.
LEMMA PublishSound ==
    ASSUME StoreSound(store), NEW r, r.key \in Keys, NEW o, o.size \in Nat
    PROVE  StoreSound(Publish(r, o))
<1> DEFINE swept == Expire(store, o.now)
           emptied == Remove(swept, {r.key})
           e == [ver |-> o.ver, size |-> o.size, observed |-> o.observed,
                 expires |-> o.observed + r.retain]
<1>1. Publish(r, o) = Insert(emptied, r.key, e) \/ Publish(r, o) = emptied
  BY DEF Publish
<1>2. StoreSound(swept)
  BY ExpireSound
<1>3. e.size = o.size
  OBVIOUS
<1> HIDE DEF swept, e
<1>4. StoreSound(emptied) /\ r.key \notin DOMAIN emptied.entries
  <2>1. StoreSound(emptied)
    BY <1>2, RemoveSound
  <2>2. DOMAIN emptied.entries = DOMAIN swept.entries \ {r.key}
    BY RemoveEntries
  <2> QED
    BY <2>1, <2>2
<1> HIDE DEF emptied
<1>5. StoreSound(Insert(emptied, r.key, e))
  BY <1>3, <1>4, InsertSound
<1> QED
  BY <1>1, <1>4, <1>5

\* A cleared cache retains nothing.
LEMMA EmptySound == StoreSound(EmptyStore)
<1>1. Range(<< >>) = {} /\ IsInjective(<< >>) /\ << >> \in Seq(Keys) /\ Len(<< >>) = 0
  BY DEF Range, IsInjective
<1>2. SizeSum(EmptyStore, {}) = 0
  BY SumOfNone
<1>3. DOMAIN EmptyStore.entries = {}
  BY DEF EmptyStore
<1> QED
  BY <1>1, <1>2, <1>3, CacheAssumption DEF StoreSound, EmptyStore

\* Every step leaves a sound store.
LEMMA NextSound ==
    ASSUME IInv, StoreSound(store), [Next]_vars
    PROVE  StoreSound(store')
<1>1. CASE UNCHANGED store
  BY <1>1
<1>2. ASSUME NEW c \in Callers, Step(c)
      PROVE  StoreSound(store')
  <2>1. CASE LookupHit(c)
    <3> DEFINE swept == Expire(store, req[c].now)
    <3>1. StoreSound(swept) /\ req[c].key \in DOMAIN swept.entries
          /\ store' = Touch(swept, req[c].key)
      BY <2>1, ExpireSound DEF LookupHit, Usable
    <3> HIDE DEF swept
    <3> QED
      BY <3>1, TouchSound
  <2>2. CASE LookupMiss(c)
    BY <2>2, ExpireSound DEF LookupMiss
  <2>3. CASE Complete(c)
    <3> DEFINE o == IF ctxErr[c] THEN NoOutcome ELSE got[c]
    <3>1. o \in Outcome /\ req[c] \in Request
      BY NoOutcomeTyped DEF IInv, TypeOK
    <3>2. store' = store \/ store' = Publish(req[c], o)
      BY <2>3 DEF Complete
    <3> HIDE DEF o
    <3>3. o.size \in Nat /\ req[c].key \in Keys
      BY <3>1 DEF Outcome, Request
    <3> QED
      BY <3>2, <3>3, PublishSound
  <2> QED
    BY <1>1, <1>2, <2>1, <2>2, <2>3
       DEF Step, LookupCanceled, WaitCanceled, LoadRead, LoadFail, LoadReturn, Return
<1>3. ASSUME NEW K, InvalidateKeys(K)
      PROVE  StoreSound(store')
  BY <1>3, RemoveSound DEF InvalidateKeys
<1>4. CASE Clear
  BY <1>4, EmptySound DEF Clear
<1>5. ASSUME NEW now, Peek(now)
      PROVE  StoreSound(store')
  BY <1>5, ExpireSound DEF Peek
<1> QED
  BY <1>1, <1>2, <1>3, <1>4, <1>5
     DEF Next, vars, Begin, Cancel, Invalidate, InvalidatePrefix, SourceChange, Tick

(* For every number of keys and every budget: the byte count is the sum of *)
(* the retained sizes, the list has each retained key once, and the cache  *)
(* exceeds neither budget, whatever insertLocked, removeLocked,            *)
(* expireLocked, a hit and Clear have done to it.                          *)
THEOREM BudgetsKept == Spec => []BudgetsRespected
<1>1. Init => StoreSound(store)
  BY EmptySound DEF Init
<1>2. IInv /\ StoreSound(store) /\ [Next]_vars => StoreSound(store)'
  <2>1. IInv /\ StoreSound(store) /\ [Next]_vars => StoreSound(store')
    BY NextSound
  <2>2. StoreSound(store') <=> StoreSound(store)'
    BY DEF StoreSound, SizeSum, Bytes
  <2> QED
    BY <2>1, <2>2
<1>3. StoreSound(store) => BudgetsRespected
  BY SoundBudgets
<1> QED
  BY <1>1, <1>2, <1>3, IInvInvariant, PTL DEF Spec

-----------------------------------------------------------------------------
(* Namespace: the inductive invariant *)

Directories == {Root} \cup Folders
Steps == {"look", "verify", "send", "wait", Files, Tables}

\* Names that may be given.
NameSet == {None} \cup Labels \cup {Alias(l, n) : l \in Labels, n \in Nat}

Ops ==
    [kind : {"list", "mkdir", "rmdir"}, dir : Directories, name : NameSet,
     step : Steps, tree : {None} \cup Trees, id : {None} \cup Ids,
     inside : SUBSET ((Ids \cup {Files, Tables}) \X (Directories \cup Lakes))]

Requests ==
    [kind : {"mkdir", "rmdir"}, dir : Directories, label : NameSet,
     id : {None} \cup Ids, applied : BOOLEAN, late : BOOLEAN]

\* Types.
Typed ==
    /\ remote \in [Ids -> {Unborn, Gone} \cup Places]
    /\ data \in [Lakes -> SUBSET {Files, Tables}]
    /\ cached \in {None} \cup Trees
    /\ load \in {None} \cup Loads
    /\ DOMAIN op \subseteq Clients /\ op \in [DOMAIN op -> Ops]
    /\ DOMAIN request \subseteq Clients /\ request \in [DOMAIN request -> Requests]
    /\ made \subseteq Ids /\ removed \subseteq Ids

\* What a request of a client has come to.
StageOf(o) ==
    /\ o.kind = "list" => o.step = "look"
    /\ o.kind = "mkdir" => o.step \in {"look", "send", "wait"} /\ o.name \in Labels
    /\ o.kind = "rmdir" /\ o.step # "look" => o.id \in Ids
    /\ o.step \in {Files, Tables} => o.id \in Lakes

Staged == \A c \in DOMAIN op : StageOf(op[c])

\* The lock of the adapter, and who waits for a load.
Locked ==
    /\ \A c, e \in DOMAIN op : Mutating(c) => c = e
    /\ load # None =>
         /\ load.leader \in load.joined /\ load.joined \subseteq DOMAIN op
         /\ \A c \in load.joined : op[c].tree = None /\ op[c].step \in {"look", "verify"}

\* Keys of a catalog with their names: a name is that of one key.
Catalogued(a) ==
    /\ \A k \in DOMAIN a : k \in Directories \X Ids \X Labels /\ a[k] \in NameSet
    /\ \A k, l \in DOMAIN a : k[1] = l[1] /\ a[k] = a[l] => k = l

\* Names are bound for good, each in its directory to one object and label.
Bound ==
    /\ Catalogued(assigned)
    /\ \A k \in DOMAIN assigned : remote[k[2]] # Unborn
    /\ \A s \in shown : /\ s \in Directories \X Ids \X Labels \X NameSet
                        /\ <<s[1], s[2], s[3]>> \in DOMAIN assigned
                        /\ assigned[<<s[1], s[2], s[3]>>] = s[4]

\* A request at the service, and what has become of it.
Asked(c) ==
    LET r == request[c] IN
    /\ ~r.late => /\ At(c, "wait") /\ r.kind = op[c].kind /\ r.dir = op[c].dir
                  /\ r.label = op[c].name /\ (r.kind = "rmdir" => r.id = op[c].id)
    /\ r.kind = "mkdir" => r.label \in Labels
    /\ r.kind = "rmdir" => r.id \in Ids
    /\ r.applied => ~r.late /\ r.id \in Ids

\* What it has done; an object that it has made has no name yet.
Done(c) ==
    LET r == request[c] IN
    /\ r.applied /\ r.kind = "rmdir" => remote[r.id] = Gone
    /\ r.applied /\ r.kind = "mkdir" =>
          remote[r.id] # Unborn /\ \A k \in DOMAIN assigned : k[2] # r.id

Sent ==
    /\ \A c \in DOMAIN op : op[c].step = "wait" => c \in DOMAIN request /\ ~request[c].late
    /\ \A c \in DOMAIN request : Asked(c) /\ Done(c)
    /\ \A c \in DOMAIN op : op[c].kind = "mkdir" /\ op[c].step \in {"send", "wait"} =>
         op[c].name \notin Used(assigned, op[c].dir)

\* A tree that has what this mount has made, as far as it has been listed, and
\* nothing that it has removed.
Sees(t, todo) ==
    /\ \A id \in DOMAIN t : remote[id] # Unborn /\ id \notin removed
    /\ \A id \in made \ todo : Exists(id) => id \in DOMAIN t

Seen ==
    /\ \A id \in removed : remote[id] = Gone
    /\ \A id \in made : remote[id] # Unborn
    /\ cached # None => Sees(cached, {})
    /\ load # None => Sees(load.tree, load.todo)
    /\ \A c \in DOMAIN op : op[c].tree # None => Sees(op[c].tree, {})

\* A tree that has, as far as it has been listed, what stays in its directory.
Shows(t, todo, inside) ==
    \A p \in inside : p[2] \in Directories /\ p[1] \notin todo =>
        p[1] \in DOMAIN t /\ t[p[1]].parent = p[2]

LookedFor(o) ==
    /\ o.inside \subseteq Contained(remote, data)
    /\ o.kind = "rmdir" =>
         /\ load # None => Shows(load.tree, load.todo, o.inside)
         /\ o.step = "verify" /\ cached # None => Shows(cached, {}, o.inside)
         /\ o.step = "verify" /\ o.tree # None => Shows(o.tree, {}, o.inside)
         /\ o.step = Tables => <<Files, o.id>> \notin o.inside
         /\ o.step \in {"send", "wait"} => \A p \in o.inside : p[2] # o.id

Looked == \A c \in DOMAIN op : LookedFor(op[c])

-----------------------------------------------------------------------------
(* Kinds of steps *)

OpsTyped == DOMAIN op \subseteq Clients /\ op \in [DOMAIN op -> Ops]

\* Who is served, and what an operation keeps as long as it runs.
Continues(o, q) == /\ q.kind = o.kind /\ q.dir = o.dir /\ q.name = o.name
               /\ q.inside \subseteq o.inside

LEMMA Moved ==
    ASSUME OpsTyped, NEW c \in DOMAIN op, NEW s \in Steps, Advance(c, s)
    PROVE  /\ OpsTyped' /\ DOMAIN op' = DOMAIN op
           /\ \A e \in DOMAIN op : e # c => op'[e] = op[e]
           /\ op'[c].step = s /\ Continues(op[c], op'[c])
           /\ op'[c].tree = op[c].tree /\ op'[c].id = op[c].id
<1>1. op'[c] = [op[c] EXCEPT !.step = s] /\ DOMAIN op' = DOMAIN op
  BY DEF Advance, OpsTyped
<1>2. op[c] \in Ops
  BY DEF OpsTyped
<1>3. op'[c] \in Ops
  BY <1>1, <1>2 DEF Ops
<1>4. \A e \in DOMAIN op : e # c => op'[e] = op[e]
  BY DEF Advance, OpsTyped
<1>5. OpsTyped'
  BY <1>1, <1>3, <1>4 DEF OpsTyped, Advance
<1> QED
  BY <1>1, <1>2, <1>4, <1>5 DEF Ops, Continues

LEMMA Over ==
    ASSUME OpsTyped, NEW S, op' = Without(op, S)
    PROVE  /\ OpsTyped' /\ DOMAIN op' = DOMAIN op \ S
           /\ \A e \in DOMAIN op \ S : op'[e] = op[e]
  BY DEF OpsTyped, Without, Restrict

LEMMA Started ==
    ASSUME OpsTyped, NEW c \in Clients, NEW o \in Ops, op' = With(op, c, o)
    PROVE  /\ OpsTyped' /\ DOMAIN op' = DOMAIN op \cup {c}
           /\ op'[c] = o /\ \A e \in DOMAIN op : e # c => op'[e] = op[e]
  BY DEF OpsTyped, With

LEMMA Given ==
    ASSUME OpsTyped, NEW S, NEW t \in Trees,
           op' = [c \in DOMAIN op |-> IF c \in S THEN [op[c] EXCEPT !.tree = t] ELSE op[c]]
    PROVE  /\ OpsTyped' /\ DOMAIN op' = DOMAIN op
           /\ \A e \in DOMAIN op : /\ e \notin S => op'[e] = op[e]
                                   /\ e \in S => op'[e].tree = t
                                   /\ Continues(op[e], op'[e])
                                   /\ op'[e].step = op[e].step /\ op'[e].id = op[e].id
<1>1. \A e \in DOMAIN op : op[e] \in Ops
  BY DEF OpsTyped
<1>2. \A o \in Ops : /\ [o EXCEPT !.tree = t] \in Ops
                     /\ [o EXCEPT !.tree = t].tree = t
                     /\ Continues(o, [o EXCEPT !.tree = t])
                     /\ [o EXCEPT !.tree = t].step = o.step
                     /\ [o EXCEPT !.tree = t].id = o.id
  BY DEF Ops, Continues
<1>3. \A e \in DOMAIN op : op'[e] = IF e \in S THEN [op[e] EXCEPT !.tree = t] ELSE op[e]
  OBVIOUS
<1>4. DOMAIN op' = DOMAIN op /\ \A e \in DOMAIN op : op'[e] \in Ops
  BY <1>1, <1>2, <1>3
<1>5. OpsTyped'
  BY <1>4 DEF OpsTyped
<1>6. \A o \in Ops : Continues(o, o)
  BY DEF Ops, Continues
<1> QED
  BY <1>1, <1>2, <1>3, <1>4, <1>5, <1>6

LEMMA Found ==
    ASSUME OpsTyped, NEW c \in DOMAIN op, NEW i \in Ids,
           op' = [op EXCEPT ![c].id = i, ![c].step = "verify", ![c].tree = None]
    PROVE  /\ OpsTyped' /\ DOMAIN op' = DOMAIN op
           /\ \A e \in DOMAIN op : e # c => op'[e] = op[e]
           /\ op'[c].step = "verify" /\ op'[c].id = i /\ op'[c].tree = None
           /\ Continues(op[c], op'[c])
<1> DEFINE q == [op[c] EXCEPT !.id = i, !.step = "verify", !.tree = None]
<1>1. op' = [op EXCEPT ![c] = q]
  BY DEF OpsTyped
<1>2. op[c] \in Ops
  BY DEF OpsTyped
<1>3. /\ q \in Ops /\ q.step = "verify" /\ q.id = i /\ q.tree = None /\ Continues(op[c], q)
  BY <1>2 DEF Ops, Steps, Continues
<1> HIDE DEF q
<1> QED
  BY <1>1, <1>3 DEF OpsTyped

\* What a change of the service leaves of what is being done.
LEMMA Thinned ==
    ASSUME OpsTyped, NEW V, 
           op' = [c \in DOMAIN op |-> [op[c] EXCEPT !.inside = @ \cap V]]
    PROVE  /\ OpsTyped' /\ DOMAIN op' = DOMAIN op
           /\ \A e \in DOMAIN op : /\ Continues(op[e], op'[e])
                                   /\ op'[e].inside \subseteq V
                                   /\ op'[e].step = op[e].step /\ op'[e].id = op[e].id
                                   /\ op'[e].tree = op[e].tree
<1>1. \A e \in DOMAIN op : op[e] \in Ops
  BY DEF OpsTyped
<1>2. \A o \in Ops : LET q == [o EXCEPT !.inside = @ \cap V]
                     IN  /\ q \in Ops /\ Continues(o, q) /\ q.inside \subseteq V
                         /\ q.step = o.step /\ q.id = o.id /\ q.tree = o.tree
  BY DEF Ops, Continues
<1>3. \A e \in DOMAIN op : op'[e] = [op[e] EXCEPT !.inside = @ \cap V]
  OBVIOUS
<1> QED
  BY <1>1, <1>2, <1>3 DEF OpsTyped
-----------------------------------------------------------------------------
(* What the service does *)

\* Nobody is born twice, and what is gone stays away.
Lives ==
    \A id \in Ids : /\ remote[id] # Unborn => remote'[id] # Unborn
                    /\ remote[id] = Gone => remote'[id] = Gone

Thins ==
    /\ OpsTyped' /\ DOMAIN op' = DOMAIN op
    /\ \A e \in DOMAIN op : /\ Continues(op[e], op'[e])
                            /\ op'[e].inside \subseteq Contained(remote', data')
                            /\ op'[e].step = op[e].step /\ op'[e].id = op[e].id
                            /\ op'[e].tree = op[e].tree

LEMMA Changed ==
    ASSUME Typed, NEW r, NEW m, Change(r, m)
    PROVE  Thins
<1>1. OpsTyped
  BY DEF Typed, OpsTyped
<1>2. op' = [c \in DOMAIN op |-> [op[c] EXCEPT !.inside = @ \cap Contained(r, m)]]
      /\ r = remote' /\ m = data'
  BY DEF Change
<1> DEFINE V == Contained(r, m)
<1> HIDE DEF V
<1>3. op' = [c \in DOMAIN op |-> [op[c] EXCEPT !.inside = @ \cap V]] /\ V = Contained(remote', data')
  BY <1>2 DEF V
<1> QED
  BY <1>1, <1>3, Thinned DEF Thins

LEMMA Creates ==
    ASSUME Typed, NEW id \in Ids, NEW d \in Directories, NEW l \in Labels, Create(id, d, l)
    PROVE  /\ remote' \in [Ids -> {Unborn, Gone} \cup Places] /\ data' = data /\ Lives
           /\ remote[id] = Unborn /\ remote'[id] # Unborn
  BY NamespaceAssumption DEF Create, Change, Typed, Places, Lives, Directories

LEMMA Deletes ==
    ASSUME Typed, NEW id \in Ids, Delete(id)
    PROVE  /\ remote' \in [Ids -> {Unborn, Gone} \cup Places] /\ data' = data /\ Lives
           /\ remote'[id] = Gone
  BY NamespaceAssumption DEF Delete, Change, Typed, Lives

LEMMA Renames ==
    ASSUME Typed, NEW id \in Ids, NEW d \in Directories, NEW l \in Labels, RenameOrMove(id, d, l)
    PROVE  remote' \in [Ids -> {Unborn, Gone} \cup Places] /\ data' = data /\ Lives
<1>1. Exists(id) /\ remote' = [remote EXCEPT ![id] = [parent |-> d, label |-> l]] /\ data' = data
  BY DEF RenameOrMove, Change
<1>2. remote[id] # Gone
  BY <1>1, NamespaceAssumption DEF Exists
<1>3. [parent |-> d, label |-> l] \in Places
  BY DEF Places, Directories
<1> QED
  BY <1>1, <1>2, <1>3, NamespaceAssumption DEF Typed, Lives

LEMMA Writes ==
    ASSUME Typed, NEW l \in Lakes, NEW root \in {Files, Tables}, Write(l, root)
    PROVE  data' \in [Lakes -> SUBSET {Files, Tables}] /\ remote' = remote
  BY DEF Write, Change, Typed

\* What was sent is applied: something is made, or something is gone.
Applied(c, id) ==
    /\ c \in DOMAIN request /\ ~request[c].applied
    /\ request[c].kind = "mkdir" => remote[id] = Unborn /\ remote'[id] # Unborn
    /\ request[c].kind # "mkdir" => id = request[c].id /\ remote'[id] = Gone

LEMMA Applies ==
    ASSUME Typed, Sent, NEW c \in Clients, NEW id \in Ids, Apply(c, id)
    PROVE  /\ remote' \in [Ids -> {Unborn, Gone} \cup Places] /\ data' = data /\ Lives
           /\ Thins /\ Applied(c, id)
           /\ UNCHANGED <<edits, cached, load, assigned, shown, made, removed>>
<1>1. request[c] \in Requests /\ c \in DOMAIN request
  BY DEF Apply, Typed
<1>2. CASE request[c].kind = "mkdir"
  <2>1. Create(id, request[c].dir, request[c].label) /\ request[c].label \in Labels
    BY <1>1, <1>2 DEF Apply, Sent, Asked
  <2>2. request[c].dir \in Directories
    BY <1>1 DEF Requests
  <2>3. Thins
    BY <2>1, Changed DEF Create
  <2>4. UNCHANGED <<edits, cached, load, assigned, shown, made, removed>>
    BY <2>1 DEF Create, Change, Apply
  <2> QED
    BY <1>1, <1>2, <2>1, <2>2, <2>3, <2>4, Creates DEF Applied, Apply
<1>3. CASE request[c].kind # "mkdir"
  <2>1. Delete(id) /\ id = request[c].id
    BY <1>1, <1>3 DEF Apply
  <2>3. Thins
    BY <2>1, Changed DEF Delete
  <2>4. UNCHANGED <<edits, cached, load, assigned, shown, made, removed>>
    BY <2>1 DEF Delete, Change, Apply
  <2> QED
    BY <1>1, <1>3, <2>1, <2>3, <2>4, Deletes DEF Applied, Apply
<1> QED
  BY <1>2, <1>3

LEMMA Edits ==
    ASSUME Typed, Edit
    PROVE  /\ remote' \in [Ids -> {Unborn, Gone} \cup Places]
           /\ data' \in [Lakes -> SUBSET {Files, Tables}] /\ Lives /\ Thins
           /\ UNCHANGED <<request, cached, load, assigned, shown, made, removed>>
<1>1. data \in [Lakes -> SUBSET {Files, Tables}] /\ remote \in [Ids -> {Unborn, Gone} \cup Places]
  BY DEF Typed
<1>2. UNCHANGED request
  BY DEF Edit
<1>3. ASSUME NEW id \in Ids, NEW d \in Folders \cup {Root}, NEW l \in Labels, Create(id, d, l)
      PROVE  /\ Lives /\ Thins /\ data' = data /\ remote' \in [Ids -> {Unborn, Gone} \cup Places]
             /\ UNCHANGED <<cached, load, assigned, shown, made, removed>>
  <2>1. d \in Directories
    BY DEF Directories
  <2>2. Thins /\ UNCHANGED <<cached, load, assigned, shown, made, removed>>
    BY <1>3, Changed DEF Create, Change
  <2> QED
    BY <1>3, <2>1, <2>2, Creates
<1>4. ASSUME NEW id \in Ids, NEW d \in Folders \cup {Root}, NEW l \in Labels, RenameOrMove(id, d, l)
      PROVE  /\ Lives /\ Thins /\ data' = data /\ remote' \in [Ids -> {Unborn, Gone} \cup Places]
             /\ UNCHANGED <<cached, load, assigned, shown, made, removed>>
  <2>1. d \in Directories
    BY DEF Directories
  <2>2. PICK r : Change(r, data)
    BY <1>4 DEF RenameOrMove
  <2>3. Thins /\ UNCHANGED <<cached, load, assigned, shown, made, removed>>
    BY <2>2, Changed DEF Change
  <2> QED
    BY <1>4, <2>1, <2>3, Renames
<1>5. ASSUME NEW id \in Ids, Delete(id)
      PROVE  /\ Lives /\ Thins /\ data' = data /\ remote' \in [Ids -> {Unborn, Gone} \cup Places]
             /\ UNCHANGED <<cached, load, assigned, shown, made, removed>>
  <2>2. Thins /\ UNCHANGED <<cached, load, assigned, shown, made, removed>>
    BY <1>5, Changed DEF Delete, Change
  <2> QED
    BY <1>5, <2>2, Deletes
<1>6. ASSUME NEW l \in Lakes, NEW root \in {Files, Tables}, Write(l, root)
      PROVE  /\ Thins /\ remote' = remote /\ data' \in [Lakes -> SUBSET {Files, Tables}]
             /\ UNCHANGED <<cached, load, assigned, shown, made, removed>>
  <2>2. Thins /\ UNCHANGED <<cached, load, assigned, shown, made, removed>>
    BY <1>6, Changed DEF Write, Change
  <2> QED
    BY <1>6, <2>2, Writes
<1>7. remote' = remote => Lives
  BY DEF Lives
<1> QED
  BY <1>1, <1>2, <1>3, <1>4, <1>5, <1>6, <1>7 DEF Edit
-----------------------------------------------------------------------------
(* The catalog *)

\* What is listed: an object has one label at a time.
Listing(X) ==
    /\ X \subseteq Ids \X Labels
    /\ \A x, y \in X : x[1] = y[1] => x = y

\* Whatever names are chosen, those that were given stay, no two objects of a
\* directory get one, and a label that nobody else has, or had, is the name.
LEMMA Naming ==
    ASSUME NEW a, Catalogued(a), NEW d \in Directories, NEW X, Listing(X),
           NEW b \in Names(a, d, X)
    PROVE  /\ Catalogued(b)
           /\ DOMAIN b = DOMAIN a \cup {<<d, x[1], x[2]>> : x \in X}
           /\ \A k \in DOMAIN a : b[k] = a[k]
           /\ \A k \in DOMAIN b : k \notin DOMAIN a => k[1] = d /\ <<k[2], k[3]>> \in X
           /\ \A x \in X : <<d, x[1], x[2]>> \notin DOMAIN a /\ x[2] \notin Used(a, d)
                           /\ (\A y \in X : y[2] = x[2] => y = x)
                           => b[<<d, x[1], x[2]>>] = x[2]
<1> DEFINE new == Unbound(a, d, X)
           genuine == {x \in new : /\ x[2] \notin Used(a, d)
                                   /\ \A y \in new : y[2] = x[2] => x[1] <= y[1]}
           others == new \ genuine
           Taken(x, n) == Used(a, d) \cup {y[2] : y \in genuine} \cup
                           {Alias(y[2], n[y]) : y \in {y \in others : y[1] < x[1]}}
           Lowest(x, n) == /\ Alias(x[2], n[x]) \notin Taken(x, n)
                           /\ \A m \in 2..(n[x] - 1) : Alias(x[2], m) \in Taken(x, n)
           New(n) == [k \in {<<d, x[1], x[2]>> : x \in new} |->
                        IF <<k[2], k[3]>> \in genuine THEN k[3]
                        ELSE Alias(k[3], n[<<k[2], k[3]>>])]
           top == Cardinality(Used(a, d)) + Cardinality(new) + 1
<1>1. PICK n \in [others -> 2..top] :
         /\ \A x \in others : Lowest(x, n)
         /\ b = [k \in DOMAIN a \cup DOMAIN New(n) |-> IF k \in DOMAIN a THEN a[k] ELSE New(n)[k]]
  BY DEF Names, Bindings
<1>2. new \subseteq X /\ X \subseteq Ids \X Labels
      /\ \A x \in X : x \in new <=> <<d, x[1], x[2]>> \notin DOMAIN a
  BY DEF Unbound, Listing
<1>3. \A x \in X : x[1] \in Nat /\ x[2] \in Labels /\ x[1] \in Ids /\ x = <<x[1], x[2]>>
  <2>1. \A x \in Ids \X Labels : x[2] \in Labels /\ x[1] \in Ids /\ x = <<x[1], x[2]>>
    OBVIOUS
  <2>2. Ids \subseteq Nat
    BY NamespaceAssumption
  <2>3. \A x \in X : x \in Ids \X Labels
    BY <1>2
  <2> QED
    BY <2>1, <2>2, <2>3
<1>4. \A x \in others : n[x] \in Int
  BY <1>1
<1> DEFINE key(x) == <<d, x[1], x[2]>>
<1>5. DOMAIN New(n) = {key(x) : x \in new}
  OBVIOUS
<1>6. \A x \in new : New(n)[key(x)] = IF x \in genuine THEN x[2] ELSE Alias(x[2], n[x])
  BY <1>2, <1>3
<1> HIDE DEF New
<1>7. DOMAIN b = DOMAIN a \cup {key(x) : x \in new}
  BY <1>1, <1>5
<1>8. \A k \in DOMAIN a : b[k] = a[k]
  BY <1>1
<1>9. \A x \in new : b[key(x)] = IF x \in genuine THEN x[2] ELSE Alias(x[2], n[x])
  BY <1>1, <1>2, <1>5, <1>6
<1>10. DOMAIN b = DOMAIN a \cup {key(x) : x \in X}
  BY <1>2, <1>7
<1>11. \A x \in genuine : x[2] \notin Used(a, d) /\ \A y \in genuine : y[2] = x[2] => y = x
  <2>1. ASSUME NEW x \in genuine, NEW y \in genuine, y[2] = x[2]
        PROVE  y = x
    <3>1. x[1] <= y[1] /\ y[1] <= x[1] /\ x \in X /\ y \in X
      BY <2>1, <1>2
    <3>2. x[1] = y[1]
      BY <3>1, <1>3
    <3> QED
      BY <3>1, <3>2 DEF Listing
  <2> QED
    BY <2>1
<1>12. \A x \in others : /\ Alias(x[2], n[x]) \notin Used(a, d)
                         /\ \A y \in genuine : Alias(x[2], n[x]) # y[2]
                         /\ \A y \in others : y[1] < x[1] => Alias(x[2], n[x]) # Alias(y[2], n[y])
  BY <1>1
<1>13. \A x, y \in others : Alias(x[2], n[x]) = Alias(y[2], n[y]) => x = y
  <2>1. ASSUME NEW x \in others, NEW y \in others, Alias(x[2], n[x]) = Alias(y[2], n[y])
        PROVE  x = y
    <3>1. ~(x[1] < y[1]) /\ ~(y[1] < x[1])
      BY <1>12, <2>1
    <3>2. x \in X /\ y \in X
      BY <1>2
    <3>3. x[1] = y[1]
      BY <3>1, <3>2, <1>3
    <3> QED
      BY <3>2, <3>3 DEF Listing
  <2> QED
    BY <2>1
<1>14. \A x \in new : b[key(x)] \notin Used(a, d)
  BY <1>9, <1>11, <1>12
<1>15. \A x, y \in new : b[key(x)] = b[key(y)] => x = y
  <2>1. ASSUME NEW x \in new, NEW y \in new, b[key(x)] = b[key(y)]
        PROVE  x = y
    <3> HIDE DEF new
    <3>1. CASE x \in genuine /\ y \in genuine
      BY <3>1, <2>1, <1>9, <1>11
    <3>2. CASE x \in others /\ y \in others
      BY <3>2, <2>1, <1>9, <1>13
    <3>3. CASE (x \in genuine /\ y \in others) \/ (x \in others /\ y \in genuine)
      BY <3>3, <2>1, <1>9, <1>12
    <3> QED
      BY <3>1, <3>2, <3>3
  <2> QED
    BY <2>1
<1>16. \A k \in DOMAIN b : k \notin DOMAIN a => \E x \in new : k = key(x)
  BY <1>7
<1>17. ASSUME NEW k \in DOMAIN b
       PROVE  k \in Directories \X Ids \X Labels /\ b[k] \in NameSet
  <2>1. CASE k \in DOMAIN a
    BY <2>1, <1>8 DEF Catalogued
  <2>2. CASE k \notin DOMAIN a
    <3>1. PICK x \in new : k = key(x)
      BY <2>2, <1>16
    <3>2. x \in X /\ x[1] \in Ids /\ x[2] \in Labels
      BY <1>2, <1>3
    <3>3. CASE x \in genuine
      BY <3>1, <3>2, <3>3, <1>9 DEF NameSet
    <3>4. CASE x \in others
      BY <3>1, <3>2, <3>4, <1>4, <1>9 DEF NameSet
    <3> QED
      BY <3>3, <3>4
  <2> QED
    BY <2>1, <2>2
<1>18. ASSUME NEW k \in DOMAIN b, NEW l \in DOMAIN b, k[1] = l[1], b[k] = b[l]
       PROVE  k = l
  <2>1. CASE k \in DOMAIN a /\ l \in DOMAIN a
    BY <2>1, <1>8, <1>18 DEF Catalogued
  <2>2. ASSUME NEW i \in DOMAIN a, NEW x \in new, i[1] = d
        PROVE  b[i] # b[key(x)]
    <3>1. b[i] \in Used(a, d)
      BY <1>8, <2>2 DEF Used
    <3> QED
      BY <3>1, <1>14
  <2>3. CASE k \in DOMAIN a /\ l \notin DOMAIN a
    BY <2>3, <2>2, <1>16, <1>18
  <2>4. CASE k \notin DOMAIN a /\ l \in DOMAIN a
    BY <2>4, <2>2, <1>16, <1>18
  <2>5. CASE k \notin DOMAIN a /\ l \notin DOMAIN a
    BY <2>5, <1>15, <1>16, <1>18
  <2> QED
    BY <2>1, <2>3, <2>4, <2>5
<1>19. ASSUME NEW x \in X, key(x) \notin DOMAIN a, x[2] \notin Used(a, d),
              \A y \in X : y[2] = x[2] => y = x
       PROVE  b[key(x)] = x[2]
  <2>1. x \in new /\ x \in genuine
    BY <1>19, <1>2, <1>3
  <2> QED
    BY <2>1, <1>9
<1>20. \A k \in DOMAIN b : k \notin DOMAIN a => k[1] = d /\ <<k[2], k[3]>> \in X
  BY <1>2, <1>3, <1>16
<1>21. Catalogued(b)
  BY <1>17, <1>18 DEF Catalogued
<1> QED
  BY <1>8, <1>10, <1>19, <1>20, <1>21

-----------------------------------------------------------------------------
(* Types *)

LEMMA TreeType ==
    \A t : t \in Trees <=> DOMAIN t \subseteq Ids /\ t \in [DOMAIN t -> Places]
  BY DEF Trees

LEMMA Grown ==
    ASSUME NEW t \in Trees, NEW id \in Ids, NEW p \in Places
    PROVE  /\ With(t, id, p) \in Trees /\ DOMAIN With(t, id, p) = DOMAIN t \cup {id}
           /\ With(t, id, p)[id] = p
           /\ \A i \in DOMAIN t : i # id => With(t, id, p)[i] = t[i]
<1>1. DOMAIN t \subseteq Ids /\ t \in [DOMAIN t -> Places]
  BY TreeType
<1>2. /\ DOMAIN With(t, id, p) = DOMAIN t \cup {id} /\ With(t, id, p)[id] = p
      /\ \A i \in DOMAIN t : i # id => With(t, id, p)[i] = t[i]
  BY DEF With
<1>3. With(t, id, p) \in [DOMAIN t \cup {id} -> Places]
  BY <1>1 DEF With
<1>4. DOMAIN t \cup {id} \in SUBSET Ids
  BY <1>1
<1>5. With(t, id, p) \in Trees
  BY <1>3, <1>4 DEF Trees
<1> QED
  BY <1>2, <1>5

\* What is in something is in it at the service.
LEMMA Insides ==
    ASSUME Typed
    PROVE  /\ Contained(remote, data) \subseteq (Ids \cup {Files, Tables}) \X (Directories \cup Lakes)
           /\ \A p \in Contained(remote, data) :
                 /\ p[2] \in Directories => /\ p[1] \in Ids /\ remote[p[1]] \notin {Unborn, Gone}
                                           /\ remote[p[1]].parent = p[2]
                 /\ p[2] \in Lakes => p[1] \in data[p[2]]
<1>1. ASSUME NEW p \in Contained(remote, data)
      PROVE  /\ p \in (Ids \cup {Files, Tables}) \X (Directories \cup Lakes)
             /\ p[2] \in Directories => /\ p[1] \in Ids /\ remote[p[1]] \notin {Unborn, Gone}
                                       /\ remote[p[1]].parent = p[2]
             /\ p[2] \in Lakes => p[1] \in data[p[2]]
  <2>1. CASE \E id \in Ids : remote[id] \notin {Unborn, Gone} /\ p = <<id, remote[id].parent>>
    <3>1. PICK id \in Ids : remote[id] \notin {Unborn, Gone} /\ p = <<id, remote[id].parent>>
      BY <2>1
    <3>2. remote[id] \in Places
      BY <3>1 DEF Typed
    <3>3. remote[id].parent \in Directories
      BY <3>2 DEF Places, Directories
    <3>4. Directories \cap Lakes = {}
      BY NamespaceAssumption DEF Directories, Ids
    <3> QED
      BY <3>1, <3>3, <3>4
  <2>2. CASE \E l \in Lakes : p \in data[l] \X {l}
    <3>1. PICK l \in Lakes : p \in data[l] \X {l}
      BY <2>2
    <3>2. p[1] \in data[l] /\ p[2] = l /\ p = <<p[1], p[2]>>
      BY <3>1
    <3>3. data[l] \subseteq {Files, Tables}
      BY DEF Typed
    <3>4. Directories \cap Lakes = {}
      BY NamespaceAssumption DEF Directories, Ids
    <3> QED
      BY <3>2, <3>3, <3>4
  <2> QED
    BY <1>1, <2>1, <2>2 DEF Contained
<1> QED
  BY <1>1

LEMMA Ends ==
    ASSUME OpsTyped, NEW c, End(c)
    PROVE  /\ OpsTyped' /\ DOMAIN op' = DOMAIN op \ {c}
           /\ \A e \in DOMAIN op \ {c} : op'[e] = op[e]
           /\ cached' \in {cached, None}
<1>1. op' = Without(op, {c})
  BY DEF End
<1>2. cached' \in {cached, None}
  BY DEF End, ForgetAfter
<1> QED
  BY <1>1, <1>2, Over

-----------------------------------------------------------------------------
(* What the actions make of the requests *)

NInv == Typed /\ Staged /\ Locked /\ Bound /\ Sent /\ Seen /\ Looked

Enters(c) ==
    \E kind \in {"list", "mkdir", "rmdir"}, d \in Known,
       n \in {None} \cup Labels \cup {s[4] : s \in shown} : Enter(c, kind, d, n)

LEMMA Entered ==
    ASSUME NInv, NEW c \in Clients, Enters(c)
    PROVE  /\ c \notin DOMAIN op /\ DOMAIN op' = DOMAIN op \cup {c} /\ OpsTyped'
           /\ \A e \in DOMAIN op : op'[e] = op[e]
           /\ op'[c].step = "look" /\ op'[c].tree = None
           /\ op'[c].inside = Contained(remote, data)
           /\ op'[c].kind = "mkdir" => op'[c].name \in Labels
           /\ op'[c].kind # "list" => DOMAIN op = {}
           /\ \A e \in DOMAIN op : op[e].kind = "list"
           /\ UNCHANGED <<remote, data, edits, cached, load, assigned, request, shown, made, removed>>
<1>0. PICK kind \in {"list", "mkdir", "rmdir"}, d \in Known,
           n \in {None} \cup Labels \cup {s[4] : s \in shown} : Enter(c, kind, d, n)
  BY DEF Enters
<1> DEFINE o == [kind |-> kind, dir |-> d, name |-> n, step |-> "look",
                 tree |-> None, id |-> None, inside |-> Contained(remote, data)]
<1>1. op' = With(op, c, o) /\ c \notin DOMAIN op
  BY <1>0 DEF Enter, Doing
<1>2. OpsTyped
  BY DEF NInv, Typed, OpsTyped
<1>3. d \in Directories
  BY DEF Known, Directories
<1>4. n \in NameSet
  <2>1. \A s \in shown : s \in Directories \X Ids \X Labels \X NameSet
    BY DEF NInv, Bound
  <2>2. \A s \in Directories \X Ids \X Labels \X NameSet : s[4] \in NameSet
    OBVIOUS
  <2>3. {s[4] : s \in shown} \subseteq NameSet
    BY <2>1, <2>2
  <2>4. None \in NameSet /\ Labels \subseteq NameSet
    BY DEF NameSet
  <2> QED
    BY <2>3, <2>4
<1>5. Contained(remote, data) \in SUBSET ((Ids \cup {Files, Tables}) \X (Directories \cup Lakes))
  BY Insides DEF NInv
<1>6. o \in Ops
  BY <1>3, <1>4, <1>5 DEF Ops, Steps
<1>7. o.kind = kind /\ o.dir = d /\ o.name = n /\ o.step = "look" /\ o.tree = None
      /\ o.inside = Contained(remote, data)
  OBVIOUS
<1>8. /\ kind = "mkdir" => n \in Labels
      /\ kind # "list" => DOMAIN op = {}
  BY <1>0 DEF Enter
<1>9. \A e \in DOMAIN op : op[e].kind = "list"
  BY <1>0, <1>2 DEF OpsTyped, Ops, Enter, Mutating, Doing
<1> HIDE DEF o
<1>10. OpsTyped' /\ DOMAIN op' = DOMAIN op \cup {c} /\ op'[c] = o
       /\ \A e \in DOMAIN op : e # c => op'[e] = op[e]
  BY <1>1, <1>2, <1>6, Started
<1>11. UNCHANGED <<remote, data, edits, cached, load, assigned, request, shown, made, removed>>
  BY <1>0 DEF Enter
<1> QED
  BY <1>1, <1>7, <1>8, <1>9, <1>10, <1>11

LEMMA Hits ==
    ASSUME NInv, NEW c \in Clients, Hit(c)
    PROVE  /\ c \in DOMAIN op /\ DOMAIN op' = DOMAIN op /\ OpsTyped'
           /\ \A e \in DOMAIN op : e # c => op'[e] = op[e]
           /\ cached \in Trees /\ cached # None /\ op'[c].tree = cached
           /\ Continues(op[c], op'[c]) /\ op'[c].step = op[c].step /\ op'[c].id = op[c].id
           /\ op[c].tree = None /\ op[c].step \in {"look", "verify"}
           /\ load # None => c \notin load.joined
<1>1. OpsTyped /\ c \in DOMAIN op /\ cached \in Trees
  BY DEF NInv, Typed, OpsTyped, Hit, NeedsTree, Doing
<1>2. op' = [op EXCEPT ![c].tree = cached]
  BY DEF Hit
<1>3. op' = [e \in DOMAIN op |-> IF e \in {c} THEN [op[e] EXCEPT !.tree = cached] ELSE op[e]]
  BY <1>1, <1>2 DEF OpsTyped
<1>4. /\ DOMAIN op' = DOMAIN op /\ OpsTyped'
      /\ \A e \in DOMAIN op : e # c => op'[e] = op[e]
      /\ op'[c].tree = cached
      /\ Continues(op[c], op'[c]) /\ op'[c].step = op[c].step /\ op'[c].id = op[c].id
  BY <1>1, <1>3, Given
<1> QED
  BY <1>1, <1>4 DEF Hit, NeedsTree

LEMMA TreesLoaded ==
    ASSUME NInv, LoadTree
    PROVE  /\ DOMAIN op' = DOMAIN op /\ OpsTyped'
           /\ load # None /\ load \in Loads /\ load.tree \in Trees /\ load.tree # None
           /\ load.todo = {} /\ cached' = load.tree /\ load' = None
           /\ \A e \in DOMAIN op : /\ e \notin load.joined => op'[e] = op[e]
                                   /\ e \in load.joined => op'[e].tree = load.tree
                                   /\ Continues(op[e], op'[e])
                                   /\ op'[e].step = op[e].step /\ op'[e].id = op[e].id
<1>1. OpsTyped /\ load \in Loads
  BY DEF NInv, Typed, OpsTyped, LoadTree
<1>2. load.tree \in Trees
  BY <1>1 DEF Loads
<1>3. load.tree # None
  BY <1>2, NamespaceAssumption
<1>4. op' = [c \in DOMAIN op |-> IF c \in load.joined
                                  THEN [op[c] EXCEPT !.tree = load.tree] ELSE op[c]]
  BY DEF LoadTree
<1>5. /\ DOMAIN op' = DOMAIN op /\ OpsTyped'
      /\ \A e \in DOMAIN op : /\ e \notin load.joined => op'[e] = op[e]
                              /\ e \in load.joined => op'[e].tree = load.tree
                              /\ Continues(op[e], op'[e])
                              /\ op'[e].step = op[e].step /\ op'[e].id = op[e].id
  BY <1>1, <1>2, <1>4, Given
<1> QED
  BY <1>1, <1>2, <1>3, <1>5 DEF LoadTree

\* Any other move of a request c: it gets to a step, or is over.
Stepped(c, S) ==
    /\ c \in DOMAIN op /\ OpsTyped'
    /\ \A e \in DOMAIN op : e # c => e \in DOMAIN op' /\ op'[e] = op[e]
    /\ DOMAIN op' \subseteq DOMAIN op
    /\ c \in DOMAIN op' => Continues(op[c], op'[c]) /\ op'[c].step \in S
    /\ cached' \in {cached, None}

LEMMA Advances ==
    ASSUME NInv, NEW c, c \in DOMAIN op, NEW s \in Steps, Advance(c, s), UNCHANGED cached
    PROVE  /\ Stepped(c, {s}) /\ c \in DOMAIN op'
           /\ op'[c].tree = op[c].tree /\ op'[c].id = op[c].id
<1>1. OpsTyped
  BY DEF NInv, Typed, OpsTyped
<1>2. /\ OpsTyped' /\ DOMAIN op' = DOMAIN op
      /\ \A e \in DOMAIN op : e # c => op'[e] = op[e]
      /\ op'[c].step = s /\ Continues(op[c], op'[c])
      /\ op'[c].tree = op[c].tree /\ op'[c].id = op[c].id
  BY <1>1, Moved
<1> QED
  BY <1>2 DEF Stepped

LEMMA Finishes ==
    ASSUME NInv, NEW c, c \in DOMAIN op, End(c)
    PROVE  Stepped(c, {}) /\ c \notin DOMAIN op'
<1>1. OpsTyped
  BY DEF NInv, Typed, OpsTyped
<1> QED
  BY <1>1, Ends DEF Stepped

\* A request goes on, or is over, having looked at its tree.
Resolved(c) ==
    /\ c \in DOMAIN op' /\ op'[c].step = "verify" /\ op'[c].id \in Ids /\ op'[c].tree = None
    /\ cached' = None

LEMMA Resolves ==
    ASSUME NInv, NEW c \in Clients, Resolve(c)
    PROVE  /\ Stepped(c, {"verify"})
           /\ c \in DOMAIN op' => Resolved(c)
           /\ op[c].step = "look" /\ op[c].kind = "rmdir" /\ op[c].tree \in Trees /\ op[c].tree # None
<1>1. OpsTyped /\ c \in DOMAIN op /\ op[c].step = "look" /\ op[c].kind = "rmdir" /\ op[c].tree # None
  BY DEF NInv, Typed, OpsTyped, Resolve, At, Doing
<1>2. op[c].tree \in Trees
  BY <1>1 DEF OpsTyped, Ops
<1>3. CASE End(c)
  BY <1>1, <1>2, <1>3, Finishes DEF Stepped
<1>4. CASE ~End(c)
  <2> DEFINE d == op[c].dir
             X == Listed(op[c].tree, d)
  <2>1. PICK x \in X : /\ op' = [op EXCEPT ![c].id = x[1], ![c].step = "verify", ![c].tree = None]
                       /\ Forget
    BY <1>4 DEF Resolve
  <2>2. x[1] \in Ids
    BY <1>2, TreeType DEF Listed, Children
  <2>3. /\ OpsTyped' /\ DOMAIN op' = DOMAIN op
        /\ \A e \in DOMAIN op : e # c => op'[e] = op[e]
        /\ op'[c].step = "verify" /\ op'[c].id = x[1] /\ op'[c].tree = None
        /\ Continues(op[c], op'[c])
    BY <1>1, <2>1, <2>2, Found
  <2>4. cached' = None
    BY <2>1 DEF Forget
  <2> QED
    BY <1>1, <1>2, <2>2, <2>3, <2>4 DEF Stepped, Resolved
<1> QED
  BY <1>3, <1>4

LEMMA Answers ==
    ASSUME NInv, NEW c \in Clients, Answer(c)
    PROVE  /\ Stepped(c, {}) /\ c \notin DOMAIN op'
           /\ op[c].step = "look" /\ op[c].kind = "list" /\ op[c].tree \in Trees /\ op[c].tree # None
<1>1. OpsTyped /\ c \in DOMAIN op /\ op[c].step = "look" /\ op[c].kind = "list" /\ op[c].tree # None
      /\ End(c)
  BY DEF NInv, Typed, OpsTyped, Answer, At, Doing
<1>2. op[c].tree \in Trees
  BY <1>1 DEF OpsTyped, Ops
<1> QED
  BY <1>1, <1>2, Finishes

LEMMA Checks ==
    ASSUME NInv, NEW c \in Clients, CheckName(c)
    PROVE  /\ Stepped(c, {"send"})
           /\ op[c].step = "look" /\ op[c].kind = "mkdir" /\ op[c].tree \in Trees /\ op[c].tree # None
           /\ c \in DOMAIN op' => /\ op[c].name \notin Used(assigned', op[c].dir)
                                  /\ op'[c].tree = op[c].tree /\ op'[c].id = op[c].id
<1>1. OpsTyped /\ c \in DOMAIN op /\ op[c].step = "look" /\ op[c].kind = "mkdir" /\ op[c].tree # None
  BY DEF NInv, Typed, OpsTyped, CheckName, At, Doing
<1>2. op[c].tree \in Trees
  BY <1>1 DEF OpsTyped, Ops
<1>3. CASE End(c)
  BY <1>1, <1>2, <1>3, Finishes DEF Stepped
<1>4. CASE ~End(c)
  <2>1. Advance(c, "send") /\ UNCHANGED cached /\ ~Reserved(assigned', op[c].dir, op[c].name)
    BY <1>4 DEF CheckName
  <2>2. Stepped(c, {"send"}) /\ op'[c].tree = op[c].tree /\ op'[c].id = op[c].id
    BY <1>1, <2>1, Advances DEF Steps
  <2> QED
    BY <1>1, <1>2, <2>1, <2>2 DEF Reserved
<1> QED
  BY <1>3, <1>4

LEMMA Verifies ==
    ASSUME NInv, NEW c \in Clients, Verify(c)
    PROVE  /\ Stepped(c, {"send", Files}) /\ c \in DOMAIN op'
           /\ op'[c].tree = op[c].tree /\ op'[c].id = op[c].id
           /\ op[c].step = "verify" /\ op[c].tree # None
           /\ \/ op'[c].step = "send" /\ op[c].id \in Folders /\ Children(op[c].tree, op[c].id) = {}
              \/ op'[c].step = Files /\ op[c].id \in Lakes
<1>1. c \in DOMAIN op /\ op[c].step = "verify" /\ op[c].tree # None /\ UNCHANGED cached
  BY DEF Verify, At, Doing
<1>2. CASE op[c].id \in Folders /\ Children(op[c].tree, op[c].id) = {} /\ Advance(c, "send")
  BY <1>1, <1>2, Advances DEF Steps, Stepped
<1>3. CASE op[c].id \in Lakes /\ Advance(c, Files)
  BY <1>1, <1>3, Advances DEF Steps, Stepped
<1> QED
  BY <1>2, <1>3 DEF Verify

LEMMA RootsListed ==
    ASSUME NInv, NEW c \in Clients, NEW root \in {Files, Tables}, ListRoot(c, root)
    PROVE  /\ Stepped(c, {IF root = Files THEN Tables ELSE "send"}) /\ c \in DOMAIN op'
           /\ op'[c].tree = op[c].tree /\ op'[c].id = op[c].id
           /\ op[c].step = root /\ root \notin data[op[c].id]
<1>1. c \in DOMAIN op /\ op[c].step = root /\ UNCHANGED cached /\ root \notin data[op[c].id]
      /\ Advance(c, IF root = Files THEN Tables ELSE "send")
  BY DEF ListRoot, At, Doing
<1>2. (IF root = Files THEN Tables ELSE "send") \in Steps
  BY DEF Steps
<1> QED
  BY <1>1, <1>2, Advances

LEMMA Sends ==
    ASSUME NInv, NEW c \in Clients, Send(c)
    PROVE  /\ Stepped(c, {"wait"}) /\ c \in DOMAIN op'
           /\ op'[c].tree = op[c].tree /\ op'[c].id = op[c].id
           /\ op[c].step = "send" /\ c \notin DOMAIN request
           /\ DOMAIN request' = DOMAIN request \cup {c}
           /\ request'[c] \in Requests /\ ~request'[c].applied /\ ~request'[c].late
           /\ request'[c].kind = op[c].kind /\ request'[c].dir = op[c].dir
           /\ request'[c].label = op[c].name /\ request'[c].id = op[c].id
           /\ request' = [e \in DOMAIN request' |-> request'[e]]
           /\ \A e \in DOMAIN request : request'[e] = request[e]
<1>1. c \in DOMAIN op /\ op[c].step = "send" /\ UNCHANGED cached /\ c \notin DOMAIN request
      /\ Advance(c, "wait")
  BY DEF Send, At, Doing
<1>2. /\ Stepped(c, {"wait"}) /\ c \in DOMAIN op'
      /\ op'[c].tree = op[c].tree /\ op'[c].id = op[c].id
  BY <1>1, Advances DEF Steps
<1> DEFINE r == [kind |-> op[c].kind, dir |-> op[c].dir, label |-> op[c].name,
                 id |-> op[c].id, applied |-> FALSE, late |-> FALSE]
<1>3. op[c] \in Ops
  BY <1>1 DEF NInv, Typed
<1>4. op[c].kind # "list"
  BY <1>1 DEF NInv, Staged, StageOf
<1>5. r \in Requests /\ ~r.applied /\ ~r.late /\ r.kind = op[c].kind /\ r.dir = op[c].dir
      /\ r.label = op[c].name /\ r.id = op[c].id
  BY <1>3, <1>4 DEF Ops, Requests
<1>6. request' = With(request, c, r)
  BY DEF Send
<1> HIDE DEF r
<1>7. /\ DOMAIN request' = DOMAIN request \cup {c} /\ request'[c] = r
      /\ request' = [e \in DOMAIN request' |-> request'[e]]
      /\ \A e \in DOMAIN request : request'[e] = request[e]
  BY <1>1, <1>6 DEF With
<1> QED
  BY <1>1, <1>2, <1>5, <1>7

LEMMA Fails ==
    ASSUME NInv, NEW c \in Clients, Fail(c)
    PROVE  /\ Stepped(c, {}) /\ c \notin DOMAIN op' /\ op[c].step # "wait"
           /\ load # None => /\ load.leader # c /\ load' = [load EXCEPT !.joined = @ \ {c}]
           /\ load = None => load' = None
<1>1. c \in DOMAIN op /\ End(c) /\ op[c].step # "wait"
  BY DEF Fail, At, Doing
<1> QED
  BY <1>1, Finishes DEF Fail

LEMMA Confirms ==
    ASSUME NInv, NEW c \in Clients, Confirmed(c)
    PROVE  /\ Stepped(c, {}) /\ c \notin DOMAIN op' /\ op[c].step = "wait" /\ cached' = None
           /\ c \in DOMAIN request /\ request[c].applied
<1>1. c \in DOMAIN op /\ End(c) /\ op[c].step = "wait" /\ request[c].applied
  BY DEF Confirmed, At, Doing
<1>2. cached' = None
  BY <1>1 DEF End, ForgetAfter
<1>3. c \in DOMAIN request
  BY <1>1 DEF NInv, Sent, Asked, Done
<1> QED
  BY <1>1, <1>2, <1>3, Finishes

LEMMA Refuses ==
    ASSUME NInv, NEW c \in Clients, NEW late \in BOOLEAN, Refused(c, late)
    PROVE  /\ Stepped(c, {}) /\ c \notin DOMAIN op' /\ op[c].step = "wait" /\ cached' = None
           /\ c \in DOMAIN request /\ (late => ~request[c].applied)
<1>1. c \in DOMAIN op /\ End(c) /\ op[c].step = "wait" /\ (late => ~request[c].applied)
  BY DEF Refused, At, Doing
<1>2. cached' = None
  BY <1>1 DEF End, ForgetAfter
<1>3. c \in DOMAIN request
  BY <1>1 DEF NInv, Sent, Asked, Done
<1> QED
  BY <1>1, <1>2, <1>3, Finishes

LEMMA LoadsFail ==
    ASSUME NInv, LoadFails
    PROVE  /\ OpsTyped' /\ DOMAIN op' = DOMAIN op \ load.joined
           /\ \A e \in DOMAIN op' : op'[e] = op[e]
           /\ load # None /\ load' = None /\ UNCHANGED cached
  BY Over DEF NInv, Typed, OpsTyped, LoadFails
-----------------------------------------------------------------------------
(* Types are kept *)

LEMMA TypesKept ==
    ASSUME NInv, NamespaceNext
    PROVE  Typed'
<1> DEFINE STyped == remote \in [Ids -> {Unborn, Gone} \cup Places] /\ data \in [Lakes -> SUBSET {Files, Tables}]
           CTyped == cached \in {None} \cup Trees
           LTyped == load \in {None} \cup Loads
           RTyped == DOMAIN request \subseteq Clients /\ request \in [DOMAIN request -> Requests]
           HTyped == made \subseteq Ids /\ removed \subseteq Ids
<1>1. Typed <=> STyped /\ CTyped /\ LTyped /\ OpsTyped /\ RTyped /\ HTyped
  BY DEF Typed, OpsTyped
<1>2. Typed' <=> STyped' /\ CTyped' /\ LTyped' /\ OpsTyped' /\ RTyped' /\ HTyped'
  BY DEF Typed, OpsTyped
<1>3. STyped /\ CTyped /\ LTyped /\ OpsTyped /\ RTyped /\ HTyped
  BY <1>1 DEF NInv
<1>4. /\ UNCHANGED <<remote, data>> => STyped'
      /\ cached' \in {cached, None} => CTyped'
      /\ load' = load => LTyped'
      /\ op' = op => OpsTyped'
      /\ request' = request => RTyped'
      /\ UNCHANGED <<made, removed>> => HTyped'
  BY <1>3 DEF OpsTyped
<1>5. \A c : request' = Without(request, {c}) => RTyped'
  BY <1>3 DEF Without, Restrict
<1> HIDE DEF STyped, CTyped, LTyped, RTyped, HTyped
<1>6. ASSUME NEW c \in Clients, Enters(c)
      PROVE  Typed'
  <2>1. UNCHANGED <<remote, data, cached, load, request, made, removed>>
    BY <1>6, Entered
  <2>2. OpsTyped'
    BY <1>6, Entered
  <2> QED
    BY <2>1, <2>2, <1>2, <1>4
<1>7. ASSUME NEW c \in Clients, Hit(c)
      PROVE  Typed'
  <2>1. UNCHANGED <<remote, data, cached, load, request, made, removed>>
    BY <1>7 DEF Hit
  <2>2. OpsTyped'
    BY <1>7, Hits
  <2> QED
    BY <2>1, <2>2, <1>2, <1>4
<1>8. ASSUME NEW c \in Clients, Miss(c)
      PROVE  Typed'
  <2>1. UNCHANGED <<remote, data, cached, op, request, made, removed>>
    BY <1>8 DEF Miss
  <2>2. << >> \in Trees
    <3>1. DOMAIN << >> = {} /\ << >> \in [{} -> Places]
      OBVIOUS
    <3> QED
      BY <3>1 DEF Trees
  <2>3. [leader |-> c, joined |-> {c}, todo |-> Ids, tree |-> << >>] \in Loads
    BY <2>2 DEF Loads
  <2>4. load # None => [load EXCEPT !.joined = @ \cup {c}] \in Loads
    BY <1>3 DEF LTyped, Loads
  <2>5. LTyped'
    BY <1>8, <2>3, <2>4 DEF Miss, LTyped
  <2> QED
    BY <2>1, <2>5, <1>2, <1>4
<1>9. ASSUME NEW c \in Clients, Fail(c)
      PROVE  Typed'
  <2>1. UNCHANGED <<remote, data, request, made, removed>> /\ OpsTyped' /\ cached' \in {cached, None}
    BY <1>9, Fails DEF Fail, Stepped
  <2>2. load # None => [load EXCEPT !.joined = @ \ {c}] \in Loads
    BY <1>3 DEF LTyped, Loads
  <2>3. LTyped'
    BY <1>9, <2>2, Fails DEF LTyped
  <2> QED
    BY <2>1, <2>3, <1>2, <1>4
<1>10. ASSUME NEW c \in Clients, Answer(c)
       PROVE  Typed'
  <2>1. UNCHANGED <<remote, data, load, request, made, removed>> /\ OpsTyped' /\ cached' \in {cached, None}
    BY <1>10, Answers DEF Answer, Stepped
  <2> QED
    BY <2>1, <1>2, <1>4
<1>11. ASSUME NEW c \in Clients, CheckName(c)
       PROVE  Typed'
  <2>1. UNCHANGED <<remote, data, load, request, made, removed>> /\ OpsTyped' /\ cached' \in {cached, None}
    BY <1>11, Checks DEF CheckName, Stepped
  <2> QED
    BY <2>1, <1>2, <1>4
<1>12. ASSUME NEW c \in Clients, Resolve(c)
       PROVE  Typed'
  <2>1. UNCHANGED <<remote, data, load, request, made, removed>> /\ OpsTyped' /\ cached' \in {cached, None}
    BY <1>12, Resolves DEF Resolve, Stepped
  <2> QED
    BY <2>1, <1>2, <1>4
<1>13. ASSUME NEW c \in Clients, Verify(c)
       PROVE  Typed'
  <2>1. UNCHANGED <<remote, data, load, request, made, removed>> /\ OpsTyped' /\ cached' \in {cached, None}
    BY <1>13, Verifies DEF Verify, Stepped
  <2> QED
    BY <2>1, <1>2, <1>4
<1>14. ASSUME NEW c \in Clients, NEW root \in {Files, Tables}, ListRoot(c, root)
       PROVE  Typed'
  <2>1. UNCHANGED <<remote, data, load, request, made, removed>> /\ OpsTyped' /\ cached' \in {cached, None}
    BY <1>14, RootsListed DEF ListRoot, Stepped
  <2> QED
    BY <2>1, <1>2, <1>4
<1>15. ASSUME NEW c \in Clients, Send(c)
       PROVE  Typed'
  <2>1. UNCHANGED <<remote, data, load, made, removed>> /\ OpsTyped' /\ cached' \in {cached, None}
    BY <1>15, Sends DEF Send, Stepped
  <2>2. RTyped'
    BY <1>3, <1>15, Sends DEF RTyped
  <2> QED
    BY <2>1, <2>2, <1>2, <1>4
<1>16. ASSUME NEW c \in Clients, Confirmed(c)
       PROVE  Typed'
  <2>1. /\ UNCHANGED <<remote, data, load>> /\ OpsTyped' /\ cached' \in {cached, None}
        /\ request' = Without(request, {c})
    BY <1>16, Confirms DEF Confirmed, Stepped
  <2>2. request[c].id \in Ids
    BY <1>16, Confirms DEF NInv, Sent, Asked, Done
  <2>3. HTyped'
    BY <1>3, <1>16, <2>2 DEF HTyped, Confirmed
  <2> QED
    BY <2>1, <2>3, <1>2, <1>4, <1>5
<1>17. ASSUME NEW c \in Clients, Lost(c)
       PROVE  Typed'
  <2>1. UNCHANGED <<remote, data, cached, load, op, made, removed>> /\ request' = Without(request, {c})
    BY <1>17 DEF Lost
  <2> QED
    BY <2>1, <1>2, <1>4, <1>5
<1>18. ASSUME NEW c \in Clients, NEW id \in Ids, Apply(c, id)
       PROVE  Typed'
  <2>1. /\ UNCHANGED <<load, made, removed, cached, data>> /\ OpsTyped'
        /\ remote' \in [Ids -> {Unborn, Gone} \cup Places]
    BY <1>18, Applies DEF NInv, Thins
  <2>2. request' = Without(request, {c}) \/ request' = [request EXCEPT ![c].applied = TRUE, ![c].id = id]
    BY <1>18 DEF Apply
  <2>3. request[c] \in Requests /\ c \in DOMAIN request
    BY <1>3, <1>18 DEF Apply, RTyped
  <2>4. [request[c] EXCEPT !.applied = TRUE, !.id = id] \in Requests
    BY <2>3 DEF Requests
  <2>5. [request EXCEPT ![c].applied = TRUE, ![c].id = id] =
            [request EXCEPT ![c] = [request[c] EXCEPT !.applied = TRUE, !.id = id]]
    BY <1>3, <2>3 DEF RTyped
  <2>6. RTyped'
    BY <1>3, <1>5, <2>2, <2>3, <2>4, <2>5 DEF RTyped
  <2>7. STyped'
    BY <1>3, <2>1 DEF STyped
  <2> QED
    BY <2>1, <2>6, <2>7, <1>2, <1>4
<1>19. ASSUME NEW c \in Clients, NEW late \in BOOLEAN, Refused(c, late)
       PROVE  Typed'
  <2>1. /\ UNCHANGED <<remote, data, load, made, removed>> /\ OpsTyped' /\ cached' \in {cached, None}
        /\ c \in DOMAIN request
    BY <1>19, Refuses DEF Refused, Stepped
  <2>2. request' = Without(request, {c}) \/ request' = [request EXCEPT ![c].late = TRUE]
    BY <1>19 DEF Refused
  <2>3. request[c] \in Requests
    BY <1>3, <2>1 DEF RTyped
  <2>4. [request[c] EXCEPT !.late = TRUE] \in Requests
    BY <2>3 DEF Requests
  <2>6. RTyped'
    BY <1>3, <1>5, <2>1, <2>2, <2>3, <2>4 DEF RTyped
  <2> QED
    BY <2>1, <2>6, <1>2, <1>4
<1>20. ASSUME NEW id \in Ids, ListPage(id)
       PROVE  Typed'
  <2>1. UNCHANGED <<remote, data, cached, op, request, made, removed>>
    BY <1>20 DEF ListPage
  <2>2. load \in Loads /\ load.tree \in Trees
    BY <1>3, <1>20 DEF LTyped, ListPage, Loads
  <2>3. remote[id] \notin {Unborn, Gone} => remote[id] \in Places
    BY <1>3 DEF STyped
  <2> DEFINE t == IF remote[id] \in {Unborn, Gone} THEN load.tree
                  ELSE With(load.tree, id, remote[id])
  <2>4. t \in Trees
    BY <2>2, <2>3, Grown
  <2>5. load' = [load EXCEPT !.todo = load.todo \ {id}, !.tree = t]
    BY <1>20 DEF ListPage
  <2> HIDE DEF t
  <2>6. LTyped'
    BY <2>2, <2>4, <2>5 DEF LTyped, Loads
  <2> QED
    BY <2>1, <2>6, <1>2, <1>4
<1>21. CASE LoadTree
  <2>1. UNCHANGED <<remote, data, request, made, removed>>
    BY <1>21 DEF LoadTree
  <2>2. OpsTyped' /\ CTyped' /\ LTyped'
    BY <1>21, TreesLoaded DEF CTyped, LTyped
  <2> QED
    BY <2>1, <2>2, <1>2, <1>4
<1>22. CASE LoadFails
  <2>1. UNCHANGED <<remote, data, cached, request, made, removed>>
    BY <1>22 DEF LoadFails
  <2>2. OpsTyped' /\ LTyped'
    BY <1>22, LoadsFail DEF LTyped
  <2> QED
    BY <2>1, <2>2, <1>2, <1>4
<1>23. CASE ExpireTree
  <2>1. UNCHANGED <<remote, data, load, op, request, made, removed>> /\ cached' = None
    BY <1>23 DEF ExpireTree
  <2> QED
    BY <2>1, <1>2, <1>4
<1>24. CASE Edit
  <2>1. /\ UNCHANGED <<request, cached, load, made, removed>> /\ OpsTyped'
        /\ remote' \in [Ids -> {Unborn, Gone} \cup Places] /\ data' \in [Lakes -> SUBSET {Files, Tables}]
    BY <1>24, Edits DEF NInv, Thins
  <2>2. STyped'
    BY <2>1 DEF STyped
  <2> QED
    BY <2>1, <2>2, <1>2, <1>4
<1> QED
  BY <1>6, <1>7, <1>8, <1>9, <1>10, <1>11, <1>12, <1>13, <1>14, <1>15, <1>16, <1>17, <1>18,
     <1>19, <1>20, <1>21, <1>22, <1>23, <1>24 DEF NamespaceNext, Enters

-----------------------------------------------------------------------------
(* Requests get on as they should *)

LEMMA StagesKept ==
    ASSUME NInv, NamespaceNext
    PROVE  Staged'
<1>1. \A e \in DOMAIN op : StageOf(op[e]) /\ op[e] \in Ops
  BY DEF NInv, Staged, Typed
<1>2. /\ \A e \in DOMAIN op : Continues(op[e], op[e])
      /\ op' = op => Staged'
  BY <1>1 DEF Continues, Staged
<1>3. \A o, q : StageOf(o) /\ Continues(o, q) /\ q.step = o.step /\ q.id = o.id => StageOf(q)
  BY DEF StageOf, Continues
<1>4. ASSUME NEW c, NEW S, Stepped(c, S), c \in DOMAIN op' => StageOf(op'[c])
      PROVE  Staged'
  BY <1>1, <1>4 DEF Staged, Stepped
<1>5. ASSUME DOMAIN op' = DOMAIN op, \A e \in DOMAIN op : Continues(op[e], op'[e])
                  /\ op'[e].step = op[e].step /\ op'[e].id = op[e].id
      PROVE  Staged'
  BY <1>1, <1>3, <1>5 DEF Staged
<1>6. ASSUME NEW c \in Clients, Enters(c)
      PROVE  Staged'
  <2>0. /\ DOMAIN op' = DOMAIN op \cup {c} /\ \A e \in DOMAIN op : op'[e] = op[e]
        /\ op'[c].step = "look"
        /\ op'[c].kind = "mkdir" => op'[c].name \in Labels
    BY <1>6, Entered
  <2>1. StageOf(op'[c])
    BY <2>0, NamespaceAssumption DEF StageOf
  <2> QED
    BY <1>1, <2>0, <2>1 DEF Staged
<1>7. ASSUME NEW c \in Clients, Hit(c)
      PROVE  Staged'
  BY <1>2, <1>5, <1>7, Hits
<1>8. ASSUME NEW c \in Clients, Answer(c) \/ Fail(c) \/ Confirmed(c) \/ \E late \in BOOLEAN : Refused(c, late)
      PROVE  Staged'
  <2>1. c \notin DOMAIN op' /\ Stepped(c, {})
    BY <1>8, Answers, Fails, Confirms, Refuses
  <2> QED
    BY <1>4, <2>1
<1>9. ASSUME NEW c \in Clients, CheckName(c)
      PROVE  Staged'
  <2>1. Stepped(c, {"send"}) /\ c \in DOMAIN op /\ op[c].kind = "mkdir"
    BY <1>9, Checks DEF Stepped
  <2>2. c \in DOMAIN op' => op'[c].kind = "mkdir" /\ op'[c].name = op[c].name /\ op'[c].step = "send"
    BY <2>1 DEF Stepped, Continues
  <2>3. op[c].name \in Labels
    BY <1>1, <2>1 DEF StageOf
  <2>4. c \in DOMAIN op' => StageOf(op'[c])
    BY <2>2, <2>3, NamespaceAssumption DEF StageOf
  <2> QED
    BY <1>4, <2>1, <2>4
<1>10. ASSUME NEW c \in Clients, Resolve(c)
       PROVE  Staged'
  <2>1. Stepped(c, {"verify"}) /\ op[c].kind = "rmdir" /\ (c \in DOMAIN op' => Resolved(c))
    BY <1>10, Resolves
  <2>2. c \in DOMAIN op' => op'[c].kind = "rmdir" /\ op'[c].id \in Ids /\ op'[c].step = "verify"
    BY <2>1 DEF Stepped, Continues, Resolved
  <2>3. c \in DOMAIN op' => StageOf(op'[c])
    BY <2>2, NamespaceAssumption DEF StageOf
  <2> QED
    BY <1>4, <2>1, <2>3
<1>11. ASSUME NEW c \in Clients, Verify(c)
       PROVE  Staged'
  <2>1. /\ c \in DOMAIN op /\ Stepped(c, {"send", Files}) /\ c \in DOMAIN op'
        /\ op'[c].id = op[c].id /\ op'[c].kind = op[c].kind
        /\ op[c].step = "verify"
        /\ op'[c].step = "send" \/ (op'[c].step = Files /\ op[c].id \in Lakes)
    <3>1. /\ Stepped(c, {"send", Files}) /\ c \in DOMAIN op'
          /\ op'[c].id = op[c].id /\ op[c].step = "verify"
          /\ op'[c].step = "send" \/ (op'[c].step = Files /\ op[c].id \in Lakes)
      BY <1>11, Verifies
    <3> QED
      BY <3>1 DEF Stepped, Continues
  <2>2. op[c].kind \in {"list", "mkdir", "rmdir"} /\ op[c].kind # "list" /\ op[c].kind # "mkdir"
    BY <1>1, <2>1 DEF StageOf, Ops
  <2>3. op[c].id \in Ids
    BY <1>1, <2>1, <2>2 DEF StageOf
  <2>4. StageOf(op'[c])
    BY <2>1, <2>2, <2>3, NamespaceAssumption DEF StageOf
  <2> QED
    BY <1>4, <2>1, <2>4
<1>12. ASSUME NEW c \in Clients, NEW root \in {Files, Tables}, ListRoot(c, root)
       PROVE  Staged'
  <2>1. /\ c \in DOMAIN op /\ Stepped(c, {IF root = Files THEN Tables ELSE "send"})
        /\ c \in DOMAIN op' /\ op'[c].id = op[c].id /\ op'[c].kind = op[c].kind
        /\ op[c].step = root
    BY <1>12, RootsListed DEF Stepped, Continues
  <2>2. op[c].step \notin {"look", "verify", "send", "wait"}
    BY <2>1, NamespaceAssumption
  <2>3. op[c].kind \in {"list", "mkdir", "rmdir"} /\ op[c].kind # "list" /\ op[c].kind # "mkdir"
    BY <1>1, <2>1, <2>2 DEF StageOf, Ops
  <2>4. op[c].id \in Ids /\ op[c].id \in Lakes
    BY <1>1, <2>1, <2>2, <2>3 DEF StageOf
  <2>5. StageOf(op'[c])
    BY <2>1, <2>3, <2>4 DEF StageOf
  <2> QED
    BY <1>4, <2>1, <2>5
<1>13. ASSUME NEW c \in Clients, Send(c)
       PROVE  Staged'
  <2>1. /\ c \in DOMAIN op /\ Stepped(c, {"wait"}) /\ c \in DOMAIN op'
        /\ op'[c].id = op[c].id /\ op'[c].kind = op[c].kind /\ op'[c].name = op[c].name
        /\ op[c].step = "send" /\ op'[c].step = "wait"
    BY <1>13, Sends DEF Stepped, Continues
  <2>2. StageOf(op'[c])
    BY <1>1, <2>1, NamespaceAssumption DEF StageOf
  <2> QED
    BY <1>4, <2>1, <2>2
<1>14. ASSUME NEW c \in Clients, NEW id \in Ids, Apply(c, id)
       PROVE  Staged'
  <2>1. Thins
    BY <1>14, Applies DEF NInv
  <2> QED
    BY <1>5, <2>1 DEF Thins
<1>15. CASE LoadTree
  BY <1>5, <1>15, TreesLoaded
<1>16. CASE LoadFails
  <2>1. \A e \in DOMAIN op' : e \in DOMAIN op /\ op'[e] = op[e]
    BY <1>16, LoadsFail
  <2> QED
    BY <1>1, <2>1 DEF Staged
<1>17. CASE Edit
  <2>1. Thins
    BY <1>17, Edits DEF NInv
  <2> QED
    BY <1>5, <2>1 DEF Thins
<1>18. (\E c \in Clients : Miss(c) \/ Lost(c)) \/ (\E id \in Ids : ListPage(id)) \/ ExpireTree => op' = op
  BY DEF Miss, Lost, ListPage, ExpireTree
<1> QED
  BY <1>2, <1>6, <1>7, <1>8, <1>9, <1>10, <1>11, <1>12, <1>13, <1>14, <1>15, <1>16, <1>17, <1>18
     DEF NamespaceNext, Enters

-----------------------------------------------------------------------------
(* A change of names has its tree to itself, and a load its callers *)

\* A request that a load does not serve.
Apart(c) == load # None => c \notin load.joined

LEMMA Looks ==
    ASSUME NInv, NEW c \in DOMAIN op,
           op[c].tree # None \/ op[c].step \notin {"look", "verify"}
    PROVE  Apart(c)
  BY DEF NInv, Locked, Apart

LEMMA LocksKept ==
    ASSUME NInv, NamespaceNext
    PROVE  Locked'
<1> DEFINE Alone == \A c, e \in DOMAIN op : op[c].kind \in {"mkdir", "rmdir"} => c = e
           Gathered == load # None =>
                         /\ load.leader \in load.joined /\ load.joined \subseteq DOMAIN op
                         /\ \A c \in load.joined : op[c].tree = None /\ op[c].step \in {"look", "verify"}
<1>1. Locked <=> Alone /\ Gathered
  BY DEF Locked, Mutating, Doing
<1>2. Locked' <=> Alone' /\ Gathered'
  BY DEF Locked, Mutating, Doing
<1>3. Alone /\ Gathered
  BY <1>1 DEF NInv
<1>4. ASSUME DOMAIN op' \subseteq DOMAIN op, \A e \in DOMAIN op' : op'[e].kind = op[e].kind
      PROVE  Alone'
  BY <1>3, <1>4
<1>5. ASSUME NEW c, NEW S, Stepped(c, S), Apart(c), load' = load
      PROVE  Alone' /\ Gathered'
  <2>1. \A e \in DOMAIN op' : op'[e].kind = op[e].kind
    BY <1>5 DEF Stepped, Continues
  <2>2. Alone'
    BY <1>4, <1>5, <2>1 DEF Stepped
  <2>3. Gathered'
    BY <1>3, <1>5 DEF Stepped, Apart
  <2> QED
    BY <2>2, <2>3
<1>6. ASSUME NEW c \in Clients, Enters(c)
      PROVE  Alone' /\ Gathered'
  <2>1. /\ DOMAIN op' = DOMAIN op \cup {c} /\ c \notin DOMAIN op
        /\ \A e \in DOMAIN op : op'[e] = op[e] /\ op[e].kind = "list"
        /\ op'[c].kind # "list" => DOMAIN op = {}
        /\ load' = load
    BY <1>6, Entered
  <2>2. Alone'
    <3>1. CASE op'[c].kind = "list"
      BY <2>1, <3>1
    <3>2. CASE op'[c].kind # "list"
      BY <2>1, <3>2
    <3> QED
      BY <3>1, <3>2
  <2>3. Gathered'
    BY <1>3, <2>1
  <2> QED
    BY <2>2, <2>3
<1>7. ASSUME NEW c \in Clients, Hit(c)
      PROVE  Alone' /\ Gathered'
  <2>1. /\ DOMAIN op' = DOMAIN op /\ \A e \in DOMAIN op : e # c => op'[e] = op[e]
        /\ op'[c].kind = op[c].kind /\ Apart(c) /\ c \in DOMAIN op
    BY <1>7, Hits DEF Continues, Apart
  <2>2. load' = load
    BY <1>7 DEF Hit
  <2>3. Alone'
    BY <1>4, <2>1
  <2>4. Gathered'
    BY <1>3, <2>1, <2>2 DEF Apart
  <2> QED
    BY <2>3, <2>4
<1>8. ASSUME NEW c \in Clients, Miss(c)
      PROVE  Alone' /\ Gathered'
  <2>1. op' = op /\ c \in DOMAIN op /\ op[c].tree = None /\ op[c].step \in {"look", "verify"}
    BY <1>8 DEF Miss, NeedsTree, Doing
  <2>2. CASE load = None
    <3>1. load'.leader = c /\ load'.joined = {c}
      BY <1>8, <2>2 DEF Miss
    <3> QED
      BY <1>3, <2>1, <3>1
  <2>3. CASE load # None
    <3>1. load' = [load EXCEPT !.joined = load.joined \cup {c}] /\ load \in Loads
      BY <1>8, <2>3 DEF Miss, NInv, Typed
    <3>2. load'.leader = load.leader /\ load'.joined = load.joined \cup {c}
      BY <3>1 DEF Loads
    <3> QED
      BY <1>3, <2>1, <2>3, <3>2
  <2> QED
    BY <2>2, <2>3
<1>9. ASSUME NEW c \in Clients, Fail(c)
      PROVE  Alone' /\ Gathered'
  <2>1. /\ Stepped(c, {}) /\ c \notin DOMAIN op'
        /\ load # None => load.leader # c /\ load' = [load EXCEPT !.joined = @ \ {c}]
        /\ load = None => load' = None
    BY <1>9, Fails
  <2>2. Alone'
    BY <1>4, <2>1 DEF Stepped
  <2>3. CASE load # None
    <3>1. load \in Loads
      BY <2>3 DEF NInv, Typed
    <3>2. load'.leader = load.leader /\ load'.joined = load.joined \ {c}
      BY <2>1, <2>3, <3>1 DEF Loads
    <3> QED
      BY <1>3, <2>1, <2>2, <2>3, <3>2 DEF Stepped
  <2> QED
    BY <2>1, <2>2, <2>3
<1>10. ASSUME NEW c \in Clients, Answer(c)
       PROVE  Alone' /\ Gathered'
  <2>1. Stepped(c, {}) /\ Apart(c) /\ load' = load
    BY <1>10, Answers, Looks DEF Stepped, Answer
  <2> QED
    BY <1>5, <2>1
<1>11. ASSUME NEW c \in Clients, CheckName(c)
       PROVE  Alone' /\ Gathered'
  <2>1. Stepped(c, {"send"}) /\ Apart(c) /\ load' = load
    BY <1>11, Checks, Looks DEF Stepped, CheckName
  <2> QED
    BY <1>5, <2>1
<1>12. ASSUME NEW c \in Clients, Resolve(c)
       PROVE  Alone' /\ Gathered'
  <2>1. Stepped(c, {"verify"}) /\ Apart(c) /\ load' = load
    BY <1>12, Resolves, Looks DEF Stepped, Resolve
  <2> QED
    BY <1>5, <2>1
<1>13. ASSUME NEW c \in Clients, Verify(c)
       PROVE  Alone' /\ Gathered'
  <2>1. Stepped(c, {"send", Files}) /\ Apart(c) /\ load' = load
    BY <1>13, Verifies, Looks DEF Stepped, Verify
  <2> QED
    BY <1>5, <2>1
<1>14. ASSUME NEW c \in Clients, NEW root \in {Files, Tables}, ListRoot(c, root)
       PROVE  Alone' /\ Gathered'
  <2>1. Stepped(c, {IF root = Files THEN Tables ELSE "send"}) /\ op[c].step = root
    BY <1>14, RootsListed
  <2>2. op[c].step \notin {"look", "verify"} /\ c \in DOMAIN op /\ load' = load
    BY <1>14, <2>1, NamespaceAssumption DEF ListRoot, Stepped
  <2> QED
    BY <1>5, <2>1, <2>2, Looks
<1>15. ASSUME NEW c \in Clients, Send(c)
       PROVE  Alone' /\ Gathered'
  <2>1. Stepped(c, {"wait"}) /\ Apart(c) /\ load' = load
    BY <1>15, Sends, Looks DEF Stepped, Send
  <2> QED
    BY <1>5, <2>1
<1>16. ASSUME NEW c \in Clients, Confirmed(c) \/ \E late \in BOOLEAN : Refused(c, late)
       PROVE  Alone' /\ Gathered'
  <2>1. Stepped(c, {}) /\ op[c].step = "wait"
    BY <1>16, Confirms, Refuses
  <2>2. Apart(c) /\ load' = load
    BY <1>16, <2>1, Looks DEF Stepped, Confirmed, Refused
  <2> QED
    BY <1>5, <2>1, <2>2
<1>17. ASSUME Thins, load' = load
       PROVE  Alone' /\ Gathered'
  <2>1. Alone'
    BY <1>4, <1>17 DEF Thins, Continues
  <2>2. Gathered'
    BY <1>3, <1>17 DEF Thins
  <2> QED
    BY <2>1, <2>2
<1>18. ASSUME NEW c \in Clients, NEW id \in Ids, Apply(c, id)
       PROVE  Alone' /\ Gathered'
  <2>1. Thins /\ load' = load
    BY <1>18, Applies DEF NInv
  <2> QED
    BY <1>17, <2>1
<1>19. CASE Edit
  <2>1. Thins /\ load' = load
    BY <1>19, Edits DEF NInv
  <2> QED
    BY <1>2, <1>17, <2>1
<1>20. ASSUME NEW id \in Ids, ListPage(id)
       PROVE  Alone' /\ Gathered'
  <2>1. op' = op /\ load \in Loads
    BY <1>20 DEF ListPage, NInv, Typed
  <2>2. load'.leader = load.leader /\ load'.joined = load.joined
    BY <1>20, <2>1 DEF ListPage, Loads
  <2>3. load # None
    BY <1>20 DEF ListPage
  <2> QED
    BY <1>3, <2>1, <2>2, <2>3
<1>21. CASE LoadTree
  <2>1. load' = None /\ DOMAIN op' = DOMAIN op /\ \A e \in DOMAIN op' : op'[e].kind = op[e].kind
    BY <1>21, TreesLoaded DEF Continues
  <2> QED
    BY <1>2, <1>4, <2>1
<1>22. CASE LoadFails
  <2>1. load' = None /\ DOMAIN op' \subseteq DOMAIN op /\ \A e \in DOMAIN op' : op'[e] = op[e]
    BY <1>22, LoadsFail
  <2> QED
    BY <1>2, <1>4, <2>1
<1>23. (\E c \in Clients : Lost(c)) \/ ExpireTree => op' = op /\ load' = load
  BY DEF Lost, ExpireTree
<1>24. op' = op /\ load' = load => Alone' /\ Gathered'
  BY <1>3
<1> HIDE DEF Alone, Gathered
<1> QED
  BY <1>2, <1>6, <1>7, <1>8, <1>9, <1>10, <1>11, <1>12, <1>13, <1>14, <1>15, <1>16, <1>18,
     <1>19, <1>20, <1>21, <1>22, <1>23, <1>24 DEF NamespaceNext, Enters

-----------------------------------------------------------------------------
(* Names stay *)

\* A catalog that has all that the present one has, of objects that exist or
\* have existed.
Extends(b) ==
    /\ Catalogued(b)
    /\ \A k \in DOMAIN assigned : k \in DOMAIN b /\ b[k] = assigned[k]
    /\ \A k \in DOMAIN b : remote[k[2]] # Unborn

LEMMA TreeNamed ==
    ASSUME NInv, NEW c \in DOMAIN op, op[c].tree \in Trees, op[c].tree # None,
           NEW b \in Names(assigned, op[c].dir, Listed(op[c].tree, op[c].dir))
    PROVE  /\ Extends(b) /\ op[c].dir \in Directories
           /\ \A x \in Listed(op[c].tree, op[c].dir) :
                 x \in Ids \X Labels /\ <<op[c].dir, x[1], x[2]>> \in DOMAIN b
<1> DEFINE t == op[c].tree
           d == op[c].dir
           X == Listed(t, d)
<1>1. d \in Directories
  BY DEF NInv, Typed, Ops
<1>2. \A id \in DOMAIN t : id \in Ids /\ t[id] \in Places /\ t[id].label \in Labels
  BY TreeType DEF Places
<1>3. \A x \in X : \E id \in DOMAIN t : x = <<id, t[id].label>>
  BY DEF Listed, Children
<1>4. Listing(X)
  BY <1>2, <1>3 DEF Listing
<1>5. \A id \in DOMAIN t : remote[id] # Unborn
  BY DEF NInv, Seen, Sees
<1>6. \A x \in X : x \in Ids \X Labels /\ remote[x[1]] # Unborn
  BY <1>2, <1>3, <1>5
<1>7. Catalogued(assigned) /\ \A k \in DOMAIN assigned : remote[k[2]] # Unborn
  BY DEF NInv, Bound
<1> HIDE DEF t, d, X
<1>8. b \in Names(assigned, d, X)
  BY DEF t, d, X
<1>9. /\ Catalogued(b)
      /\ DOMAIN b = DOMAIN assigned \cup {<<d, x[1], x[2]>> : x \in X}
      /\ \A k \in DOMAIN assigned : b[k] = assigned[k]
  BY <1>1, <1>4, <1>7, <1>8, Naming
<1>10. \A k \in DOMAIN b : remote[k[2]] # Unborn
  BY <1>6, <1>7, <1>9
<1>11. Extends(b)
  BY <1>9, <1>10 DEF Extends
<1>12. \A x \in X : <<d, x[1], x[2]>> \in DOMAIN b
  BY <1>9
<1> QED
  BY <1>1, <1>6, <1>11, <1>12 DEF t, d, X

\* What an answer to mkdir does to the names.
LEMMA MadeNamed ==
    ASSUME NInv, NEW c \in Clients, Confirmed(c), op[c].kind = "mkdir"
    PROVE  /\ Extends(assigned') /\ op[c].name \in Labels /\ request[c].id \in Ids
           /\ request[c].dir = op[c].dir /\ request[c].label = op[c].name /\ op[c].dir \in Directories
           /\ <<op[c].dir, request[c].id, op[c].name>> \in DOMAIN assigned'
           /\ assigned'[<<op[c].dir, request[c].id, op[c].name>>] = op[c].name
<1>1. /\ c \in DOMAIN op /\ op[c].step = "wait" /\ c \in DOMAIN request /\ request[c].applied
  BY Confirms DEF Stepped
<1>2. /\ request[c].kind = "mkdir" /\ request[c].dir = op[c].dir /\ request[c].label = op[c].name
      /\ request[c].label \in Labels /\ request[c].id \in Ids
      /\ remote[request[c].id] # Unborn /\ \A k \in DOMAIN assigned : k[2] # request[c].id
      /\ op[c].name \notin Used(assigned, op[c].dir)
  BY <1>1 DEF NInv, Sent, Asked, Done
<1> DEFINE d == op[c].dir
           l == op[c].name
           id == request[c].id
           X == {<<id, l>>}
<1>3. d \in Directories
  BY <1>1 DEF NInv, Typed, Ops
<1>4. Catalogued(assigned) /\ \A k \in DOMAIN assigned : remote[k[2]] # Unborn
  BY DEF NInv, Bound
<1>5. assigned' \in Names(assigned, d, X)
  BY <1>2 DEF Confirmed
<1>6. id \in Ids /\ l \in Labels /\ remote[id] # Unborn /\ l \notin Used(assigned, d)
  BY <1>2
<1>6a. <<d, id, l>> \notin DOMAIN assigned
  BY <1>2
<1> HIDE DEF d, l, id
<1>7. Listing(X)
  BY <1>6 DEF Listing
<1>8. /\ Catalogued(assigned')
      /\ DOMAIN assigned' = DOMAIN assigned \cup {<<d, x[1], x[2]>> : x \in X}
      /\ \A k \in DOMAIN assigned : assigned'[k] = assigned[k]
      /\ \A x \in X : <<d, x[1], x[2]>> \notin DOMAIN assigned /\ x[2] \notin Used(assigned, d)
                      /\ (\A y \in X : y[2] = x[2] => y = x)
                      => assigned'[<<d, x[1], x[2]>>] = x[2]
  <2> HIDE DEF X
  <2> QED
    BY <1>3, <1>4, <1>5, <1>7, Naming
<1>9. <<d, id, l>> \in DOMAIN assigned' /\ assigned'[<<d, id, l>>] = l
  BY <1>6, <1>6a, <1>8
<1>10. \A k \in DOMAIN assigned' : k \notin DOMAIN assigned => k[2] = id
  BY <1>8
<1>11. \A k \in DOMAIN assigned' : remote[k[2]] # Unborn
  BY <1>4, <1>6, <1>10
<1>12. Extends(assigned')
  BY <1>8, <1>11 DEF Extends
<1> QED
  BY <1>2, <1>3, <1>9, <1>12 DEF d, l, id

LEMMA NamesKept ==
    ASSUME NInv, NamespaceNext
    PROVE  Bound'
<1> DEFINE Quads == Directories \X Ids \X Labels \X NameSet
           Fits(s, a) == /\ s \in Quads
                         /\ <<s[1], s[2], s[3]>> \in DOMAIN a /\ a[<<s[1], s[2], s[3]>>] = s[4]
<1>1. /\ Catalogued(assigned) /\ \A k \in DOMAIN assigned : remote[k[2]] # Unborn
      /\ \A s \in shown : Fits(s, assigned)
  BY DEF NInv, Bound
<1>2. Extends(assigned)
  BY <1>1 DEF Extends
<1>3. ASSUME Lives \/ remote' = remote, Extends(assigned'),
             \A s \in shown' : s \in shown \/ Fits(s, assigned')
      PROVE  Bound'
  <2>1. \A s \in shown' : Fits(s, assigned')
    BY <1>1, <1>3 DEF Extends
  <2>2. \A k \in DOMAIN assigned' : k[2] \in Ids
    BY <1>3 DEF Extends, Catalogued
  <2>3. \A k \in DOMAIN assigned' : remote'[k[2]] # Unborn
    BY <1>3, <2>2 DEF Extends, Lives
  <2> QED
    BY <1>3, <2>1, <2>3 DEF Bound, Extends
<1> HIDE DEF Fits
<1>4. ASSUME UNCHANGED <<remote, assigned, shown>>
      PROVE  Bound'
  BY <1>2, <1>3, <1>4
<1>5. ASSUME NEW c \in Clients, Answer(c)
      PROVE  Bound'
  <2> DEFINE d == op[c].dir
             X == Listed(op[c].tree, d)
  <2>1. /\ remote' = remote /\ assigned' \in Names(assigned, d, X)
        /\ shown' = shown \cup {<<d, x[1], x[2], assigned'[<<d, x[1], x[2]>>]>> : x \in X}
    BY <1>5 DEF Answer
  <2>2. c \in DOMAIN op /\ op[c].tree \in Trees /\ op[c].tree # None
    BY <1>5, Answers DEF Stepped
  <2>3. /\ Extends(assigned') /\ d \in Directories
        /\ \A x \in X : x \in Ids \X Labels /\ <<d, x[1], x[2]>> \in DOMAIN assigned'
    BY <2>1, <2>2, TreeNamed
  <2> HIDE DEF d, X
  <2>4. ASSUME NEW x \in X
        PROVE  Fits(<<d, x[1], x[2], assigned'[<<d, x[1], x[2]>>]>>, assigned')
    <3>1. assigned'[<<d, x[1], x[2]>>] \in NameSet
      BY <2>3 DEF Extends, Catalogued
    <3>2. x[1] \in Ids /\ x[2] \in Labels
      BY <2>3
    <3> QED
      BY <2>3, <3>1, <3>2 DEF Fits
  <2> QED
    BY <1>3, <2>1, <2>3, <2>4
<1>6. ASSUME NEW c \in Clients, CheckName(c)
      PROVE  Bound'
  <2>1. c \in DOMAIN op /\ op[c].tree \in Trees /\ op[c].tree # None
    BY <1>6, Checks DEF Stepped
  <2>2. UNCHANGED <<remote, shown>> /\ assigned' \in Names(assigned, op[c].dir, Listed(op[c].tree, op[c].dir))
    BY <1>6 DEF CheckName
  <2> QED
    BY <1>3, <2>1, <2>2, TreeNamed
<1>7. ASSUME NEW c \in Clients, Resolve(c)
      PROVE  Bound'
  <2>1. c \in DOMAIN op /\ op[c].tree \in Trees /\ op[c].tree # None
    BY <1>7, Resolves DEF Stepped
  <2>2. UNCHANGED <<remote, shown>> /\ assigned' \in Names(assigned, op[c].dir, Listed(op[c].tree, op[c].dir))
    BY <1>7 DEF Resolve
  <2> QED
    BY <1>3, <2>1, <2>2, TreeNamed
<1>8. ASSUME NEW c \in Clients, Confirmed(c)
      PROVE  Bound'
  <2>1. remote' = remote /\ c \in DOMAIN op /\ c \in DOMAIN request /\ op[c].step = "wait"
    BY <1>8, Confirms DEF Confirmed, Stepped
  <2>2. request[c].kind = op[c].kind
    BY <2>1 DEF NInv, Sent, Asked, Done
  <2>3. CASE op[c].kind = "mkdir"
    <3> DEFINE k == <<op[c].dir, request[c].id, op[c].name>>
    <3>1. /\ Extends(assigned') /\ k \in DOMAIN assigned' /\ op[c].dir \in Directories
          /\ op[c].name \in Labels /\ request[c].id \in Ids
          /\ request[c].dir = op[c].dir /\ request[c].label = op[c].name
      BY <1>8, <2>3, MadeNamed
    <3>2. shown' = shown \cup {<<op[c].dir, request[c].id, op[c].name, assigned'[k]>>}
      BY <1>8, <2>2, <2>3, <3>1 DEF Confirmed
    <3>3. assigned'[k] \in NameSet
      BY <3>1 DEF Extends, Catalogued
    <3>4. Fits(<<op[c].dir, request[c].id, op[c].name, assigned'[k]>>, assigned')
      BY <3>1, <3>3 DEF Fits
    <3> QED
      BY <1>3, <2>1, <3>1, <3>2, <3>4
  <2>4. CASE op[c].kind # "mkdir"
    BY <1>4, <1>8, <2>1, <2>2, <2>4 DEF Confirmed
  <2> QED
    BY <2>3, <2>4
<1>9. ASSUME NEW c \in Clients, NEW id \in Ids, Apply(c, id)
      PROVE  Bound'
  <2>1. Lives /\ UNCHANGED <<assigned, shown>>
    BY <1>9, Applies DEF NInv
  <2> QED
    BY <1>2, <1>3, <2>1
<1>10. CASE Edit
  <2>1. Lives /\ UNCHANGED <<assigned, shown>>
    BY <1>10, Edits DEF NInv
  <2> QED
    BY <1>2, <1>3, <2>1
<1>11. ASSUME NEW c \in Clients,
              \/ Enters(c) \/ Hit(c) \/ Miss(c) \/ Fail(c) \/ Verify(c) \/ Send(c) \/ Lost(c)
              \/ \E root \in {Files, Tables} : ListRoot(c, root)
              \/ \E late \in BOOLEAN : Refused(c, late)
       PROVE  Bound'
  BY <1>4, <1>11 DEF Enters, Enter, Hit, Miss, Fail, Verify, Send, Lost, ListRoot, Refused
<1>12. ASSUME LoadTree \/ LoadFails \/ ExpireTree \/ \E id \in Ids : ListPage(id)
       PROVE  Bound'
  BY <1>4, <1>12 DEF LoadTree, LoadFails, ExpireTree, ListPage
<1> QED
  BY <1>5, <1>6, <1>7, <1>8, <1>9, <1>10, <1>11, <1>12 DEF NamespaceNext, Enters

-----------------------------------------------------------------------------
(* What is asked of the service *)

Waits == \A c \in DOMAIN op : op[c].step = "wait" => c \in DOMAIN request /\ ~request[c].late
Free  == \A c \in DOMAIN op : op[c].kind = "mkdir" /\ op[c].step \in {"send", "wait"} =>
             op[c].name \notin Used(assigned, op[c].dir)

LEMMA SentParts == Sent <=> Waits /\ Free /\ \A c \in DOMAIN request : Asked(c) /\ Done(c)
  BY DEF Sent, Waits, Free

\* Names are found when nothing else is being made.
LEMMA NoneMade ==
    ASSUME NInv, NEW c \in DOMAIN op, NEW e \in DOMAIN request, e # c,
           request[e].applied, request[e].kind = "mkdir"
    PROVE  FALSE
  BY DEF NInv, Sent, Asked, Locked, Mutating, Doing, At

LEMMA OnlyMaker ==
    ASSUME NInv, NEW c \in DOMAIN op, NEW e \in DOMAIN op, e # c
    PROVE  op[e].kind # "mkdir" \/ ~Mutating(e)
  BY DEF NInv, Locked, Mutating, Doing

\* Steps that leave the service, the catalog and the requests to it alone.
LEMMA NothingAsked ==
    ASSUME NInv, UNCHANGED <<remote, assigned, request>>,
           \A e \in DOMAIN op' : \/ e \in DOMAIN op /\ op'[e].step = op[e].step /\ Continues(op[e], op'[e])
                                 \/ op'[e].step \notin {"send", "wait"}
                                 \/ e \in DOMAIN op /\ Continues(op[e], op'[e]) /\ op'[e].step = "send" /\ op[e].kind # "mkdir",
           \A e \in DOMAIN op : op[e].step = "wait" => /\ e \in DOMAIN op' /\ op'[e].step = "wait"
                                                       /\ Continues(op[e], op'[e]) /\ op'[e].id = op[e].id
    PROVE  Sent'
<1>1. Waits /\ Free /\ \A c \in DOMAIN request : Asked(c) /\ Done(c)
  BY SentParts DEF NInv
<1>2. Waits'
  BY <1>1 DEF Waits
<1>3. Free'
  <2>1. ASSUME NEW e \in DOMAIN op', op'[e].kind = "mkdir", op'[e].step \in {"send", "wait"}
        PROVE  op'[e].name \notin Used(assigned', op'[e].dir)
    <3>1. e \in DOMAIN op /\ op[e].kind = "mkdir" /\ op[e].step \in {"send", "wait"}
          /\ op'[e].name = op[e].name /\ op'[e].dir = op[e].dir
      BY <2>1 DEF Continues
    <3> QED
      BY <1>1, <3>1 DEF Free
  <2> QED
    BY <2>1 DEF Free
<1>4. ASSUME NEW c \in DOMAIN request
      PROVE  Asked(c)' /\ Done(c)'
  <2>1. Asked(c) /\ Done(c) /\ request' = request
    BY <1>1
  <2>2. At(c, "wait") => /\ At(c, "wait")' /\ op'[c].kind = op[c].kind /\ op'[c].dir = op[c].dir
                         /\ op'[c].name = op[c].name /\ op'[c].id = op[c].id
    BY DEF At, Doing, Continues
  <2>3. Asked(c)'
    BY <2>1, <2>2 DEF Asked
  <2>4. Done(c)'
    BY <2>1 DEF Done
  <2> QED
    BY <2>3, <2>4
<1>5. \A c \in DOMAIN request' : (Asked(c) /\ Done(c))'
  BY <1>4
<1> QED
  BY <1>2, <1>3, <1>5 DEF Sent, Waits, Free

\* A request looks at its tree, and then at the names.
LEMMA NamedAsked ==
    ASSUME NInv, NEW c \in DOMAIN op, op[c].step = "look", NEW S, Stepped(c, S), "wait" \notin S,
           UNCHANGED <<remote, request>>,
           c \in DOMAIN op' /\ op'[c].kind = "mkdir" /\ op'[c].step = "send" =>
               op[c].name \notin Used(assigned', op[c].dir)
    PROVE  Sent'
<1>1. Waits /\ Free /\ \A e \in DOMAIN request : Asked(e) /\ Done(e)
  BY SentParts DEF NInv
<1>2. /\ \A e \in DOMAIN op' : e \in DOMAIN op /\ (e # c => op'[e] = op[e])
      /\ \A e \in DOMAIN op : e # c => e \in DOMAIN op'
      /\ c \in DOMAIN op' => Continues(op[c], op'[c]) /\ op'[c].step # "wait"
  BY DEF Stepped
<1>3. Waits'
  BY <1>1, <1>2 DEF Waits
<1>4. Free'
  <2>1. ASSUME NEW e \in DOMAIN op', op'[e].kind = "mkdir", op'[e].step \in {"send", "wait"}
        PROVE  op'[e].name \notin Used(assigned', op'[e].dir)
    <3>1. e = c
      BY <1>2, <2>1, OnlyMaker DEF Mutating, Doing
    <3> QED
      BY <1>2, <2>1, <3>1 DEF Continues
  <2> QED
    BY <2>1 DEF Free
<1>5. ASSUME NEW e \in DOMAIN request
      PROVE  Asked(e)' /\ Done(e)'
  <2>1. Asked(e) /\ Done(e)
    BY <1>1
  <2>2. At(e, "wait") => At(e, "wait")' /\ op'[e] = op[e]
    BY <1>2 DEF At, Doing
  <2>3. Asked(e)'
    BY <2>1, <2>2 DEF Asked
  <2>4. ~(request[e].applied /\ request[e].kind = "mkdir")
    BY <2>1, NoneMade DEF Asked, At
  <2>5. Done(e)'
    BY <2>1, <2>4 DEF Done
  <2> QED
    BY <2>3, <2>5
<1>6. \A e \in DOMAIN request' : (Asked(e) /\ Done(e))'
  BY <1>5
<1> QED
  BY <1>3, <1>4, <1>6 DEF Sent, Waits, Free

\* A request is over, and the service is told no more, or may be late.
LEMMA EndAsked ==
    ASSUME NInv, NEW c \in DOMAIN op, Stepped(c, {}), c \notin DOMAIN op', UNCHANGED remote,
           DOMAIN request' \subseteq DOMAIN request,
           \A e \in DOMAIN request : e # c => e \in DOMAIN request' /\ request'[e] = request[e],
           c \in DOMAIN request' => /\ request'[c].late /\ ~request'[c].applied
                                    /\ request'[c].kind = request[c].kind
                                    /\ request'[c].label = request[c].label
                                    /\ request'[c].id = request[c].id,
           assigned' = assigned \/ op[c].kind = "mkdir"
    PROVE  Sent'
<1>1. Waits /\ Free /\ \A e \in DOMAIN request : Asked(e) /\ Done(e)
  BY SentParts DEF NInv
<1>2. /\ \A e \in DOMAIN op' : e \in DOMAIN op /\ e # c /\ op'[e] = op[e]
      /\ \A e \in DOMAIN op : e # c => e \in DOMAIN op'
  BY DEF Stepped
<1>3. Waits'
  BY <1>1, <1>2 DEF Waits
<1>4. Free'
  <2>1. ASSUME NEW e \in DOMAIN op', op'[e].kind = "mkdir", op'[e].step \in {"send", "wait"}
        PROVE  op'[e].name \notin Used(assigned', op'[e].dir)
    <3>1. FALSE
      BY <1>2, <2>1, OnlyMaker DEF Mutating, Doing
    <3> QED
      BY <3>1
  <2> QED
    BY <2>1 DEF Free
<1>5. ASSUME NEW e \in DOMAIN request', e # c
      PROVE  Asked(e)' /\ Done(e)'
  <2>1. e \in DOMAIN request /\ Asked(e) /\ Done(e) /\ request'[e] = request[e]
    BY <1>1, <1>5
  <2>2. At(e, "wait") => At(e, "wait")' /\ op'[e] = op[e]
    BY <1>2, <1>5 DEF At, Doing
  <2>3. Asked(e)'
    BY <2>1, <2>2 DEF Asked
  <2>4. ~(request[e].applied /\ request[e].kind = "mkdir")
    BY <1>5, <2>1, NoneMade
  <2>5. Done(e)'
    BY <2>1, <2>4 DEF Done
  <2> QED
    BY <2>3, <2>5
<1>6. ASSUME c \in DOMAIN request'
      PROVE  Asked(c)' /\ Done(c)'
  <2>1. c \in DOMAIN request /\ Asked(c)
    BY <1>1, <1>6
  <2> QED
    BY <1>6, <2>1 DEF Asked, Done
<1>7. \A e \in DOMAIN request' : (Asked(e) /\ Done(e))'
  BY <1>5, <1>6
<1> QED
  BY <1>3, <1>4, <1>7 DEF Sent, Waits, Free

\* The service does something.
LEMMA ServiceAsked ==
    ASSUME NInv, Lives, Thins, UNCHANGED assigned,
           \A e \in DOMAIN op : op[e].step = "wait" => e \in DOMAIN request' /\ ~request'[e].late,
           DOMAIN request' \subseteq DOMAIN request,
           \A e \in DOMAIN request' : request'[e] = request[e] \/ (Asked(e)' /\ Done(e)')
    PROVE  Sent'
<1>1. Waits /\ Free /\ \A e \in DOMAIN request : Asked(e) /\ Done(e)
  BY SentParts DEF NInv
<1>2. DOMAIN op' = DOMAIN op /\ \A e \in DOMAIN op : Continues(op[e], op'[e])
        /\ op'[e].step = op[e].step /\ op'[e].id = op[e].id
  BY DEF Thins
<1>3. Waits'
  BY <1>2 DEF Waits
<1>4. Free'
  BY <1>1, <1>2 DEF Free, Continues
<1>5. ASSUME NEW e \in DOMAIN request', request'[e] = request[e]
      PROVE  Asked(e)' /\ Done(e)'
  <2>0. e \in DOMAIN request
    OBVIOUS
  <2>1. Asked(e) /\ Done(e)
    BY <1>1, <2>0
  <2>2. At(e, "wait") => /\ At(e, "wait")' /\ op'[e].kind = op[e].kind /\ op'[e].dir = op[e].dir
                         /\ op'[e].name = op[e].name /\ op'[e].id = op[e].id
    BY <1>2 DEF At, Doing, Continues
  <2>3. Asked(e)'
    BY <1>5, <2>1, <2>2 DEF Asked
  <2>4. Done(e)'
    BY <1>5, <2>1 DEF Done, Asked, Lives
  <2> QED
    BY <2>3, <2>4
<1>6. \A e \in DOMAIN request' : (Asked(e) /\ Done(e))'
  BY <1>5
<1> QED
  BY <1>3, <1>4, <1>6 DEF Sent, Waits, Free

LEMMA AskedKept ==
    ASSUME NInv, NamespaceNext
    PROVE  Sent'
<1>0. Waits /\ Free /\ \A e \in DOMAIN request : Asked(e) /\ Done(e)
  BY SentParts DEF NInv
<1>1. ASSUME NEW c \in Clients, Enters(c)
      PROVE  Sent'
  <2>1. /\ \A e \in DOMAIN op' : (e \in DOMAIN op /\ op'[e] = op[e]) \/ op'[e].step = "look"
        /\ \A e \in DOMAIN op : e \in DOMAIN op' /\ op'[e] = op[e]
        /\ UNCHANGED <<remote, assigned, request>>
    BY <1>1, Entered
  <2> QED
    BY <2>1, NothingAsked DEF Continues
<1>2. ASSUME NEW c \in Clients, Hit(c)
      PROVE  Sent'
  <2>1. /\ DOMAIN op' = DOMAIN op /\ c \in DOMAIN op
        /\ \A e \in DOMAIN op : e # c => op'[e] = op[e]
        /\ Continues(op[c], op'[c]) /\ op'[c].step = op[c].step /\ op'[c].id = op[c].id
    BY <1>2, Hits
  <2>2. \A e \in DOMAIN op : Continues(op[e], op'[e]) /\ op'[e].step = op[e].step /\ op'[e].id = op[e].id
    BY <2>1 DEF Continues
  <2>3. UNCHANGED <<remote, assigned, request>>
    BY <1>2 DEF Hit
  <2> QED
    BY <2>1, <2>2, <2>3, NothingAsked
<1>3. ASSUME NEW c \in Clients, NEW S, Stepped(c, S), op[c].step # "wait", "wait" \notin S,
             UNCHANGED <<remote, assigned, request>>,
             c \in DOMAIN op' => op'[c].step # "send" \/ op[c].kind # "mkdir"
      PROVE  Sent'
  <2>1. /\ \A e \in DOMAIN op : e # c => e \in DOMAIN op' /\ op'[e] = op[e]
        /\ \A e \in DOMAIN op' : e \in DOMAIN op
        /\ c \in DOMAIN op' => Continues(op[c], op'[c]) /\ op'[c].step # "wait"
    BY <1>3 DEF Stepped
  <2>2. \A e \in DOMAIN op : Continues(op[e], op[e])
    BY DEF Continues
  <2> QED
    BY <1>3, <2>1, <2>2, NothingAsked
<1>4. ASSUME NEW c \in Clients, Fail(c)
      PROVE  Sent'
  <2>1. UNCHANGED <<remote, assigned, request>>
    BY <1>4 DEF Fail
  <2> QED
    BY <1>3, <1>4, <2>1, Fails
<1>5. ASSUME NEW c \in Clients, Answer(c)
      PROVE  Sent'
  <2>1. UNCHANGED <<remote, request>>
    BY <1>5 DEF Answer
  <2>2. c \in DOMAIN op /\ Stepped(c, {}) /\ c \notin DOMAIN op' /\ op[c].step = "look"
    BY <1>5, Answers DEF Stepped
  <2> QED
    BY <2>1, <2>2, NamedAsked
<1>6. ASSUME NEW c \in Clients, CheckName(c)
      PROVE  Sent'
  <2>1. UNCHANGED <<remote, request>>
    BY <1>6 DEF CheckName
  <2>2. /\ c \in DOMAIN op /\ Stepped(c, {"send"}) /\ op[c].step = "look"
        /\ c \in DOMAIN op' => op[c].name \notin Used(assigned', op[c].dir)
    BY <1>6, Checks DEF Stepped
  <2> QED
    BY <2>1, <2>2, NamedAsked
<1>7. ASSUME NEW c \in Clients, Resolve(c)
      PROVE  Sent'
  <2>1. UNCHANGED <<remote, request>>
    BY <1>7 DEF Resolve
  <2>2. c \in DOMAIN op /\ Stepped(c, {"verify"}) /\ op[c].step = "look"
        /\ (c \in DOMAIN op' => op'[c].step = "verify")
    BY <1>7, Resolves DEF Stepped, Resolved
  <2> QED
    BY <2>1, <2>2, NamedAsked
<1>8. ASSUME NEW c \in Clients, Verify(c)
      PROVE  Sent'
  <2>1. UNCHANGED <<remote, assigned, request>>
    BY <1>8 DEF Verify
  <2>2. /\ c \in DOMAIN op /\ Stepped(c, {"send", Files}) /\ op[c].step = "verify"
    BY <1>8, Verifies DEF Stepped
  <2>3. op[c].kind # "mkdir" /\ "wait" \notin {"send", Files}
    BY <2>2, NamespaceAssumption DEF NInv, Staged, StageOf
  <2> QED
    BY <1>3, <2>1, <2>2, <2>3
<1>9. ASSUME NEW c \in Clients, NEW root \in {Files, Tables}, ListRoot(c, root)
      PROVE  Sent'
  <2>1. UNCHANGED <<remote, assigned, request>>
    BY <1>9 DEF ListRoot
  <2> DEFINE S == {IF root = Files THEN Tables ELSE "send"}
  <2>2. /\ c \in DOMAIN op /\ Stepped(c, S) /\ op[c].step = root
    BY <1>9, RootsListed DEF Stepped
  <2>3. op[c].step \notin {"look", "send", "wait"} /\ "wait" \notin S
    BY <2>2, NamespaceAssumption
  <2>4. op[c].kind # "mkdir"
    BY <2>2, <2>3 DEF NInv, Staged, StageOf
  <2> HIDE DEF S
  <2> QED
    BY <1>3, <2>1, <2>2, <2>3, <2>4
<1>10. ASSUME NEW c \in Clients, Send(c)
       PROVE  Sent'
  <2>1. /\ Stepped(c, {"wait"}) /\ c \in DOMAIN op' /\ op'[c].id = op[c].id
        /\ op[c].step = "send" /\ c \notin DOMAIN request
        /\ DOMAIN request' = DOMAIN request \cup {c}
        /\ ~request'[c].applied /\ ~request'[c].late
        /\ request'[c].kind = op[c].kind /\ request'[c].dir = op[c].dir
        /\ request'[c].label = op[c].name /\ request'[c].id = op[c].id
        /\ \A e \in DOMAIN request : request'[e] = request[e]
    BY <1>10, Sends
  <2>2. /\ c \in DOMAIN op /\ DOMAIN op' = DOMAIN op
        /\ \A e \in DOMAIN op : e # c => op'[e] = op[e]
        /\ op'[c].kind = op[c].kind /\ op'[c].dir = op[c].dir /\ op'[c].name = op[c].name
        /\ op'[c].step = "wait"
    BY <2>1 DEF Stepped, Continues
  <2>3. UNCHANGED <<remote, assigned>>
    BY <1>10 DEF Send
  <2>4. Waits'
    BY <1>0, <2>1, <2>2 DEF Waits
  <2>5. Free'
    BY <1>0, <2>1, <2>2, <2>3 DEF Free
  <2>6. ASSUME NEW e \in DOMAIN request
        PROVE  Asked(e)' /\ Done(e)'
    <3>1. e # c /\ Asked(e) /\ Done(e) /\ request'[e] = request[e]
      BY <1>0, <2>1
    <3>2. At(e, "wait") => At(e, "wait")' /\ op'[e] = op[e]
      BY <2>2, <3>1 DEF At, Doing
    <3>3. Asked(e)'
      BY <3>1, <3>2 DEF Asked
    <3>4. Done(e)'
      BY <2>3, <3>1 DEF Done
    <3> QED
      BY <3>3, <3>4
  <2>7. op[c].kind = "mkdir" => op[c].name \in Labels
    BY <2>2 DEF NInv, Staged, StageOf
  <2>8. op[c].kind = "rmdir" => op[c].id \in Ids
    BY <2>1, <2>2 DEF NInv, Staged, StageOf
  <2>9. At(c, "wait")'
    BY <2>2 DEF At, Doing
  <2>10. Asked(c)' /\ Done(c)'
    BY <2>1, <2>2, <2>7, <2>8, <2>9 DEF Asked, Done
  <2>11. \A e \in DOMAIN request' : (Asked(e) /\ Done(e))'
    BY <2>1, <2>6, <2>10
  <2> QED
    BY <2>4, <2>5, <2>11 DEF Sent, Waits, Free
<1>11. ASSUME NEW c \in Clients, Confirmed(c)
       PROVE  Sent'
  <2>1. c \in DOMAIN op /\ Stepped(c, {}) /\ c \notin DOMAIN op' /\ c \in DOMAIN request
        /\ op[c].step = "wait"
    BY <1>11, Confirms DEF Stepped
  <2>2. remote' = remote /\ request' = Without(request, {c})
    BY <1>11 DEF Confirmed
  <2>3. DOMAIN request' = DOMAIN request \ {c} /\ \A e \in DOMAIN request' : request'[e] = request[e]
    BY <2>2 DEF Without, Restrict
  <2>4. request[c].kind = op[c].kind
    BY <1>0, <2>1 DEF Waits, Asked
  <2>5. assigned' = assigned \/ op[c].kind = "mkdir"
    BY <1>11, <2>4 DEF Confirmed
  <2> QED
    BY <2>1, <2>2, <2>3, <2>5, EndAsked
<1>12. ASSUME NEW c \in Clients, NEW late \in BOOLEAN, Refused(c, late)
       PROVE  Sent'
  <2>1. c \in DOMAIN op /\ Stepped(c, {}) /\ c \notin DOMAIN op' /\ c \in DOMAIN request
        /\ (late => ~request[c].applied)
    BY <1>12, Refuses DEF Stepped
  <2>2. UNCHANGED <<remote, assigned>>
    BY <1>12 DEF Refused
  <2>3. CASE ~late
    <3>1. DOMAIN request' = DOMAIN request \ {c} /\ \A e \in DOMAIN request' : request'[e] = request[e]
      BY <1>12, <2>3 DEF Refused, Without, Restrict
    <3> QED
      BY <2>1, <2>2, <3>1, EndAsked
  <2>4. CASE late
    <3>0. request[c] \in Requests /\ request \in [DOMAIN request -> Requests]
      BY <2>1 DEF NInv, Typed
    <3>1. request' = [request EXCEPT ![c].late = TRUE]
      BY <1>12, <2>4 DEF Refused
    <3>2. DOMAIN request' = DOMAIN request /\ \A e \in DOMAIN request : e # c => request'[e] = request[e]
      BY <3>0, <3>1
    <3>3. request'[c].late /\ request'[c].applied = request[c].applied
          /\ request'[c].kind = request[c].kind /\ request'[c].label = request[c].label
          /\ request'[c].id = request[c].id
      BY <2>1, <3>0, <3>1 DEF Requests
    <3> QED
      BY <2>1, <2>2, <2>4, <3>2, <3>3, EndAsked
  <2> QED
    BY <2>3, <2>4
<1>13. ASSUME NEW c \in Clients, Lost(c)
       PROVE  Sent'
  <2>1. UNCHANGED <<remote, assigned, op>> /\ c \in DOMAIN request /\ request[c].late
        /\ request' = Without(request, {c})
    BY <1>13 DEF Lost
  <2>2. DOMAIN request' = DOMAIN request \ {c} /\ \A e \in DOMAIN request' : request'[e] = request[e]
    BY <2>1 DEF Without, Restrict
  <2>3. Waits' /\ Free'
    BY <1>0, <2>1, <2>2 DEF Waits, Free
  <2>4. \A e \in DOMAIN request' : (Asked(e) /\ Done(e))'
    BY <1>0, <2>1, <2>2 DEF Asked, Done, At, Doing
  <2> QED
    BY <2>3, <2>4 DEF Sent, Waits, Free
<1>14. ASSUME NEW c \in Clients, NEW id \in Ids, Apply(c, id)
       PROVE  Sent'
  <2>1. Lives /\ Thins /\ Applied(c, id) /\ assigned' = assigned
    BY <1>14, Applies DEF NInv
  <2>2. c \in DOMAIN request /\ ~request[c].applied
    BY <2>1 DEF Applied
  <2>3. request[c] \in Requests /\ request \in [DOMAIN request -> Requests]
    BY <2>2 DEF NInv, Typed
  <2>4. CASE request[c].late
    <3>1. request' = Without(request, {c})
      BY <1>14, <2>4 DEF Apply
    <3>2. DOMAIN request' = DOMAIN request \ {c} /\ \A e \in DOMAIN request' : request'[e] = request[e]
      BY <3>1 DEF Without, Restrict
    <3> QED
      BY <1>0, <2>1, <2>4, <3>2, ServiceAsked DEF Waits
  <2>5. CASE ~request[c].late
    <3>1. request' = [request EXCEPT ![c].applied = TRUE, ![c].id = id]
      BY <1>14, <2>5 DEF Apply
    <3>2. DOMAIN request' = DOMAIN request /\ \A e \in DOMAIN request : e # c => request'[e] = request[e]
      BY <2>3, <3>1
    <3>3. /\ request'[c].applied /\ request'[c].id = id /\ ~request'[c].late
          /\ request'[c].kind = request[c].kind /\ request'[c].label = request[c].label
          /\ request'[c].dir = request[c].dir
      BY <2>2, <2>3, <2>5, <3>1 DEF Requests
    <3>4. At(c, "wait") => /\ At(c, "wait")' /\ op'[c].kind = op[c].kind /\ op'[c].dir = op[c].dir
                         /\ op'[c].name = op[c].name /\ op'[c].id = op[c].id
      BY <2>1 DEF At, Doing, Continues, Thins
    <3>5. Asked(c)
      BY <1>0, <2>2
    <3>6. request[c].kind \in {"mkdir", "rmdir"}
      BY <2>3 DEF Requests
    <3>7. request[c].kind = "rmdir" => id = request[c].id
      BY <2>1 DEF Applied
    <3>8. Asked(c)'
      BY <2>5, <3>3, <3>4, <3>5, <3>7 DEF Asked
    <3>9. \A k \in DOMAIN assigned : remote[k[2]] # Unborn
      BY DEF NInv, Bound
    <3>10. request[c].kind = "mkdir" => remote[id] = Unborn /\ remote'[id] # Unborn
      BY <2>1 DEF Applied
    <3>11. request[c].kind = "rmdir" => remote'[id] = Gone
      BY <2>1 DEF Applied
    <3>12. Done(c)'
      BY <2>1, <3>3, <3>9, <3>10, <3>11 DEF Done
    <3>13. \A e \in DOMAIN op : op[e].step = "wait" => e \in DOMAIN request' /\ ~request'[e].late
      BY <1>0, <3>2, <3>3 DEF Waits
    <3> QED
      BY <2>1, <3>2, <3>8, <3>12, <3>13, ServiceAsked
  <2> QED
    BY <2>4, <2>5
<1>15. CASE Edit
  <2>1. Lives /\ Thins /\ UNCHANGED <<assigned, request>>
    BY <1>15, Edits DEF NInv
  <2> QED
    BY <1>0, <2>1, ServiceAsked DEF Waits
<1>16. CASE LoadTree
  <2>1. \A e \in DOMAIN op : Continues(op[e], op'[e]) /\ op'[e].step = op[e].step /\ op'[e].id = op[e].id
    BY <1>16, TreesLoaded
  <2>2. DOMAIN op' = DOMAIN op
    BY <1>16, TreesLoaded
  <2>3. UNCHANGED <<remote, assigned, request>>
    BY <1>16 DEF LoadTree
  <2> QED
    BY <2>1, <2>2, <2>3, NothingAsked
<1>17. CASE LoadFails
  <2>1. /\ DOMAIN op' = DOMAIN op \ load.joined /\ load # None
        /\ \A e \in DOMAIN op' : op'[e] = op[e]
    BY <1>17, LoadsFail
  <2>2. UNCHANGED <<remote, assigned, request>>
    BY <1>17 DEF LoadFails
  <2>3. \A e \in DOMAIN op : op[e].step = "wait" => e \notin load.joined
    BY <2>1 DEF NInv, Locked
  <2>4. \A e \in DOMAIN op : Continues(op[e], op[e])
    BY DEF Continues
  <2> QED
    BY <2>1, <2>2, <2>3, <2>4, NothingAsked
<1>18. ASSUME (\E c \in Clients : Miss(c)) \/ ExpireTree \/ \E id \in Ids : ListPage(id)
       PROVE  Sent'
  <2>1. UNCHANGED <<remote, assigned, request, op>>
    BY <1>18 DEF Miss, ExpireTree, ListPage
  <2>2. \A e \in DOMAIN op : Continues(op[e], op[e])
    BY DEF Continues
  <2> QED
    BY <2>1, <2>2, NothingAsked
<1> QED
  BY <1>1, <1>2, <1>4, <1>5, <1>6, <1>7, <1>8, <1>9, <1>10, <1>11, <1>12, <1>13, <1>14,
     <1>15, <1>16, <1>17, <1>18 DEF NamespaceNext, Enters

-----------------------------------------------------------------------------
(* Trees have what this mount has made, and nothing that it has removed *)

LEMMA SeesOn ==
    ASSUME NInv, Lives \/ remote' = remote, UNCHANGED <<made, removed>>,
           NEW t, NEW todo, Sees(t, todo), DOMAIN t \subseteq Ids
    PROVE  /\ \A id \in DOMAIN t : remote'[id] # Unborn /\ id \notin removed'
           /\ \A id \in made' \ todo : Exists(id)' => id \in DOMAIN t
<1>1. made \subseteq Ids /\ \A id \in made : remote[id] # Unborn
  BY DEF NInv, Typed, Seen
<1>2. \A id \in made : Exists(id)' => Exists(id)
  BY <1>1, NamespaceAssumption DEF Exists, Lives
<1>3. \A id \in DOMAIN t : remote'[id] # Unborn /\ id \notin removed'
  BY DEF Sees, Lives
<1>4. \A id \in made' \ todo : Exists(id)' => id \in DOMAIN t
  BY <1>2 DEF Sees
<1> QED
  BY <1>3, <1>4

LEMMA SeenOn ==
    ASSUME NInv, Lives \/ remote' = remote, UNCHANGED <<made, removed>>
    PROVE  /\ \A id \in removed' : remote'[id] = Gone
           /\ \A id \in made' : remote'[id] # Unborn
           /\ cached # None => Sees(cached, {})
           /\ load # None => Sees(load.tree, load.todo)
           /\ \A c \in DOMAIN op : op[c].tree # None => Sees(op[c].tree, {})
  BY DEF NInv, Seen, Typed, Lives

\* Steps that only pass trees on.
LEMMA SeenPassed ==
    ASSUME NInv, Typed', Lives \/ remote' = remote, UNCHANGED <<made, removed>>,
           cached' \in {cached, None} \/ (load # None /\ load.todo = {} /\ cached' = load.tree),
           load' # None => load # None /\ load'.tree = load.tree /\ load'.todo = load.todo,
           \A c \in DOMAIN op' : \/ op'[c].tree = None
                                 \/ c \in DOMAIN op /\ op'[c].tree = op[c].tree
                                 \/ cached # None /\ op'[c].tree = cached
                                 \/ load # None /\ load.todo = {} /\ op'[c].tree = load.tree
    PROVE  Seen'
<1>1. /\ \A id \in removed' : remote'[id] = Gone
      /\ \A id \in made' : remote'[id] # Unborn
      /\ cached # None => Sees(cached, {})
      /\ load # None => Sees(load.tree, load.todo)
      /\ \A c \in DOMAIN op : op[c].tree # None => Sees(op[c].tree, {})
  BY SeenOn
<1>2. /\ cached # None => cached \in Trees
      /\ load # None => load.tree \in Trees
      /\ \A c \in DOMAIN op : op[c].tree # None => op[c].tree \in Trees
  BY DEF NInv, Typed, Ops, Loads
<1>3. \A t \in Trees : DOMAIN t \subseteq Ids
  BY TreeType
<1>4. \A t \in Trees : \A todo : Sees(t, todo) => Sees(t, todo)'
  <2>1. ASSUME NEW t \in Trees, NEW todo, Sees(t, todo)
        PROVE  /\ \A id \in DOMAIN t : remote'[id] # Unborn /\ id \notin removed'
               /\ \A id \in made' \ todo : Exists(id)' => id \in DOMAIN t
    BY <1>3, <2>1, SeesOn
  <2> QED
    BY <2>1 DEF Sees
<1>5. cached' # None => Sees(cached, {})'
  BY <1>1, <1>2, <1>4
<1>6. load' # None => Sees(load.tree, load.todo)'
  BY <1>1, <1>2, <1>4
<1>7. ASSUME NEW c \in DOMAIN op', op'[c].tree # None
      PROVE  Sees(op[c].tree, {})'
  BY <1>1, <1>2, <1>4, <1>7
<1>8. \A c \in DOMAIN op' : op'[c].tree # None => Sees(op[c].tree, {})'
  BY <1>7
<1> QED
  BY <1>1, <1>5, <1>6, <1>8 DEF Seen

LEMMA TreesKept ==
    ASSUME NInv, Typed', NamespaceNext
    PROVE  Seen'
<1>1. ASSUME NEW c \in Clients, Enters(c)
      PROVE  Seen'
  <2>1. /\ DOMAIN op' = DOMAIN op \cup {c}
        /\ \A e \in DOMAIN op : op'[e] = op[e]
        /\ op'[c].tree = None
        /\ UNCHANGED <<remote, cached, load, made, removed>>
    BY <1>1, Entered
  <2> QED
    BY <2>1, SeenPassed
<1>2. ASSUME NEW c \in Clients, Hit(c)
      PROVE  Seen'
  <2>1. /\ DOMAIN op' = DOMAIN op /\ \A e \in DOMAIN op : e # c => op'[e] = op[e]
        /\ cached # None /\ op'[c].tree = cached
    BY <1>2, Hits
  <2>2. UNCHANGED <<remote, cached, load, made, removed>>
    BY <1>2 DEF Hit
  <2> QED
    BY <2>1, <2>2, SeenPassed
<1>3. ASSUME NEW c \in Clients, Miss(c)
      PROVE  Seen'
  <2>1. UNCHANGED <<remote, cached, op, made, removed>>
    BY <1>3 DEF Miss
  <2>2. CASE load # None
    <3>1. load' = [load EXCEPT !.joined = load.joined \cup {c}] /\ load \in Loads
      BY <1>3, <2>2 DEF Miss, NInv, Typed
    <3>2. load'.tree = load.tree /\ load'.todo = load.todo
      BY <3>1 DEF Loads
    <3> QED
      BY <2>1, <2>2, <3>2, SeenPassed
  <2>3. CASE load = None
    <3>1. load'.tree = << >> /\ load'.todo = Ids
      BY <1>3, <2>3 DEF Miss
    <3>2. made \subseteq Ids
      BY DEF NInv, Typed
    <3>3. Sees(<< >>, Ids)'
      BY <2>1, <3>2 DEF Sees
    <3>4. Sees(load.tree, load.todo)'
      BY <3>1, <3>3
    <3> QED
      BY <2>1, <3>4, SeenOn DEF Seen, Sees, Exists
  <2> QED
    BY <2>2, <2>3
<1>4. ASSUME NEW c \in Clients, NEW S, Stepped(c, S), UNCHANGED <<remote, made, removed>>,
             load' # None => load # None /\ load'.tree = load.tree /\ load'.todo = load.todo,
             c \in DOMAIN op' => op'[c].tree \in {None, op[c].tree}
      PROVE  Seen'
  BY <1>4, SeenPassed DEF Stepped
<1>5. ASSUME NEW c \in Clients, Fail(c)
      PROVE  Seen'
  <2>1. /\ Stepped(c, {}) /\ c \notin DOMAIN op'
        /\ load # None => load' = [load EXCEPT !.joined = load.joined \ {c}]
        /\ load = None => load' = None
    BY <1>5, Fails
  <2>2. load # None => load \in Loads
    BY DEF NInv, Typed
  <2>3. load' # None => load # None /\ load'.tree = load.tree /\ load'.todo = load.todo
    BY <2>1, <2>2 DEF Loads
  <2>4. UNCHANGED <<remote, made, removed>>
    BY <1>5 DEF Fail
  <2> QED
    BY <1>4, <2>1, <2>3, <2>4
<1>6. ASSUME NEW c \in Clients, Answer(c)
      PROVE  Seen'
  <2>1. UNCHANGED <<remote, load, made, removed>>
    BY <1>6 DEF Answer
  <2> QED
    BY <1>4, <1>6, <2>1, Answers
<1>7. ASSUME NEW c \in Clients, CheckName(c)
      PROVE  Seen'
  <2>1. UNCHANGED <<remote, load, made, removed>>
    BY <1>7 DEF CheckName
  <2> QED
    BY <1>4, <1>7, <2>1, Checks
<1>8. ASSUME NEW c \in Clients, Resolve(c)
      PROVE  Seen'
  <2>1. UNCHANGED <<remote, load, made, removed>>
    BY <1>8 DEF Resolve
  <2> QED
    BY <1>4, <1>8, <2>1, Resolves DEF Resolved
<1>9. ASSUME NEW c \in Clients, Verify(c)
      PROVE  Seen'
  <2>1. UNCHANGED <<remote, load, made, removed>>
    BY <1>9 DEF Verify
  <2> QED
    BY <1>4, <1>9, <2>1, Verifies
<1>10. ASSUME NEW c \in Clients, NEW root \in {Files, Tables}, ListRoot(c, root)
       PROVE  Seen'
  <2>1. UNCHANGED <<remote, load, made, removed>>
    BY <1>10 DEF ListRoot
  <2> QED
    BY <1>4, <1>10, <2>1, RootsListed
<1>11. ASSUME NEW c \in Clients, Send(c)
       PROVE  Seen'
  <2>1. UNCHANGED <<remote, load, made, removed>>
    BY <1>11 DEF Send
  <2> QED
    BY <1>4, <1>11, <2>1, Sends
<1>12. ASSUME NEW c \in Clients, NEW late \in BOOLEAN, Refused(c, late)
       PROVE  Seen'
  <2>1. UNCHANGED <<remote, load, made, removed>>
    BY <1>12 DEF Refused
  <2>2. Stepped(c, {}) /\ c \notin DOMAIN op'
    BY <1>12, Refuses
  <2> QED
    BY <1>4, <2>1, <2>2
<1>13. ASSUME NEW c \in Clients, Confirmed(c)
       PROVE  Seen'
  <2>1. /\ Stepped(c, {}) /\ c \notin DOMAIN op' /\ op[c].step = "wait" /\ cached' = None
        /\ c \in DOMAIN request /\ request[c].applied
    BY <1>13, Confirms
  <2>2. c \in DOMAIN op
    BY <2>1 DEF Stepped
  <2>3. Asked(c) /\ Done(c) /\ request[c] \in Requests
    BY <2>1 DEF NInv, Sent, Typed
  <2>4. request[c].kind \in {"mkdir", "rmdir"} /\ request[c].kind = op[c].kind
    BY <2>1, <2>3 DEF Asked, Requests
  <2>5. DOMAIN op = {c}
    BY <2>2, <2>4 DEF NInv, Locked, Mutating, Doing
  <2>6. load = None
    BY <2>1, <2>5 DEF NInv, Locked
  <2>7. remote' = remote /\ load' = load
    BY <1>13 DEF Confirmed
  <2>8. DOMAIN op' = {}
    BY <2>1, <2>5 DEF Stepped
  <2>9. /\ \A id \in removed : remote[id] = Gone
        /\ \A id \in made : remote[id] # Unborn
    BY DEF NInv, Seen
  <2>10. CASE request[c].kind = "mkdir"
    <3>1. made' = made \cup {request[c].id} /\ removed' = removed
      BY <1>13, <2>10 DEF Confirmed
    <3>2. remote[request[c].id] # Unborn
      BY <2>1, <2>3, <2>10 DEF Done
    <3> QED
      BY <2>1, <2>6, <2>7, <2>8, <2>9, <3>1, <3>2 DEF Seen
  <2>11. CASE request[c].kind = "rmdir"
    <3>1. removed' = removed \cup {request[c].id} /\ made' = made
      BY <1>13, <2>11 DEF Confirmed
    <3>2. remote[request[c].id] = Gone
      BY <2>1, <2>3, <2>11 DEF Done
    <3> QED
      BY <2>1, <2>6, <2>7, <2>8, <2>9, <3>1, <3>2 DEF Seen
  <2> QED
    BY <2>4, <2>10, <2>11
<1>14. ASSUME NEW c \in Clients, NEW id \in Ids, Apply(c, id)
       PROVE  Seen'
  <2>1. Lives /\ Thins /\ UNCHANGED <<cached, load, made, removed>>
    BY <1>14, Applies DEF NInv
  <2>2. DOMAIN op' = DOMAIN op /\ \A e \in DOMAIN op : op'[e].tree = op[e].tree
    BY <2>1 DEF Thins
  <2> QED
    BY <2>1, <2>2, SeenPassed
<1>15. CASE Edit
  <2>1. Lives /\ Thins /\ UNCHANGED <<cached, load, made, removed>>
    BY <1>15, Edits DEF NInv
  <2>2. DOMAIN op' = DOMAIN op /\ \A e \in DOMAIN op : op'[e].tree = op[e].tree
    BY <2>1 DEF Thins
  <2> QED
    BY <2>1, <2>2, SeenPassed
<1>16. ASSUME NEW id \in Ids, ListPage(id)
       PROVE  Seen'
  <2>1. UNCHANGED <<remote, cached, op, made, removed>> /\ load # None /\ load \in Loads
    BY <1>16 DEF ListPage, NInv, Typed
  <2> DEFINE t == IF remote[id] \in {Unborn, Gone} THEN load.tree
                  ELSE With(load.tree, id, remote[id])
  <2>2. load' = [load EXCEPT !.todo = load.todo \ {id}, !.tree = t]
    BY <1>16 DEF ListPage
  <2>3. load.tree \in Trees
    BY <2>1 DEF Loads
  <2>4. Sees(load.tree, load.todo) /\ \A i \in removed : remote[i] = Gone
    BY <2>1 DEF NInv, Seen
  <2>7. Sees(t, load.todo \ {id})
    <3>1. CASE remote[id] \in {Unborn, Gone}
      <4>1. ~Exists(id)
        BY <3>1, NamespaceAssumption DEF Exists
      <4> QED
        BY <2>4, <3>1, <4>1 DEF Sees
    <3>2. CASE remote[id] \notin {Unborn, Gone}
      <4>1. remote[id] \in Places
        BY <3>2 DEF NInv, Typed
      <4>2. DOMAIN With(load.tree, id, remote[id]) = DOMAIN load.tree \cup {id}
        BY <2>3, <4>1, Grown
      <4>3. Sees(With(load.tree, id, remote[id]), load.todo \ {id})
        BY <2>4, <3>2, <4>2 DEF Sees
      <4> QED
        BY <3>2, <4>3
    <3> QED
      BY <3>1, <3>2
  <2> HIDE DEF t
  <2>8. load'.tree = t /\ load'.todo = load.todo \ {id}
    BY <2>1, <2>2 DEF Loads
  <2>9. Sees(load.tree, load.todo)'
    BY <2>1, <2>7, <2>8 DEF Sees, Exists
  <2> QED
    BY <2>1, <2>9, SeenOn DEF Seen, Sees, Exists
<1>17. CASE LoadTree
  <2>1. /\ DOMAIN op' = DOMAIN op
        /\ load # None /\ load.todo = {} /\ cached' = load.tree /\ load' = None
        /\ \A e \in DOMAIN op : op'[e] = op[e] \/ op'[e].tree = load.tree
    BY <1>17, TreesLoaded
  <2>2. UNCHANGED <<remote, made, removed>>
    BY <1>17 DEF LoadTree
  <2> QED
    BY <2>1, <2>2, SeenPassed
<1>18. CASE LoadFails
  <2>1. load' = None /\ UNCHANGED cached /\ \A e \in DOMAIN op' : e \in DOMAIN op /\ op'[e] = op[e]
    BY <1>18, LoadsFail
  <2>2. UNCHANGED <<remote, made, removed>>
    BY <1>18 DEF LoadFails
  <2> QED
    BY <2>1, <2>2, SeenPassed
<1>19. ASSUME (\E c \in Clients : Lost(c)) \/ ExpireTree
       PROVE  Seen'
  <2>1. UNCHANGED <<remote, load, op, made, removed>> /\ cached' \in {cached, None}
    BY <1>19 DEF Lost, ExpireTree
  <2> QED
    BY <2>1, SeenPassed
<1> QED
  BY <1>1, <1>2, <1>3, <1>5, <1>6, <1>7, <1>8, <1>9, <1>10, <1>11, <1>12, <1>13, <1>14,
     <1>15, <1>16, <1>17, <1>18, <1>19 DEF NamespaceNext, Enters

-----------------------------------------------------------------------------
(* A delete has seen its directory lose what was in it *)

\* A request that goes on unchanged, or with less in it.
LEMMA LookedOn ==
    ASSUME NEW o, NEW q, Continues(o, q), LookedFor(o),
           q.inside \subseteq Contained(remote', data'),
           q.step = o.step, q.id = o.id, q.tree = o.tree \/ q.tree = None,
           cached' \in {cached, None},
           load' # None => load # None /\ load'.tree = load.tree /\ load'.todo = load.todo
    PROVE  /\ q.inside \subseteq Contained(remote', data')
           /\ q.kind = "rmdir" =>
                 /\ load' # None => Shows(load'.tree, load'.todo, q.inside)
                 /\ q.step = "verify" /\ cached' # None => Shows(cached', {}, q.inside)
                 /\ q.step = "verify" /\ q.tree # None => Shows(q.tree, {}, q.inside)
                 /\ q.step = Tables => <<Files, q.id>> \notin q.inside
                 /\ q.step \in {"send", "wait"} => \A p \in q.inside : p[2] # q.id
<1>1. q.inside \subseteq o.inside /\ q.kind = o.kind
  BY DEF Continues
<1>2. \A t, todo : Shows(t, todo, o.inside) => Shows(t, todo, q.inside)
  BY <1>1 DEF Shows
<1> QED
  BY <1>1, <1>2 DEF LookedFor

LEMMA LookedPassed ==
    ASSUME NInv, NEW c, NEW S, Stepped(c, S), UNCHANGED <<remote, data>>,
           load' # None => load # None /\ load'.tree = load.tree /\ load'.todo = load.todo,
           c \in DOMAIN op' /\ op[c].kind = "rmdir" =>
               LET q == op'[c] IN
               /\ q.step = "verify" => q.tree = None /\ cached' = None
               /\ q.step = Tables => <<Files, q.id>> \notin q.inside
               /\ q.step \in {"send", "wait"} => \A p \in q.inside : p[2] # q.id
    PROVE  Looked'
<1>1. \A e \in DOMAIN op : LookedFor(op[e])
  BY DEF NInv, Looked
<1>2. ASSUME NEW e \in DOMAIN op', e # c
      PROVE  LookedFor(op[e])'
  <2>1. e \in DOMAIN op /\ op'[e] = op[e] /\ LookedFor(op[e]) /\ cached' \in {cached, None}
    BY <1>1, <1>2 DEF Stepped
  <2>2. op[e].inside \subseteq Contained(remote', data')
    BY <2>1 DEF LookedFor
  <2>3. Continues(op[e], op'[e])
    BY <2>1 DEF Continues
  <2> QED
    BY <2>1, <2>2, <2>3, LookedOn DEF LookedFor
<1>3. ASSUME c \in DOMAIN op'
      PROVE  LookedFor(op[c])'
  <2>1. c \in DOMAIN op /\ Continues(op[c], op'[c]) /\ LookedFor(op[c])
    BY <1>1, <1>3 DEF Stepped
  <2>2. op'[c].inside \subseteq op[c].inside /\ op'[c].kind = op[c].kind
    BY <2>1 DEF Continues
  <2>3. op'[c].inside \subseteq Contained(remote', data')
    BY <2>1, <2>2 DEF LookedFor
  <2>4. op[c].kind = "rmdir" /\ load' # None => Shows(load'.tree, load'.todo, op'[c].inside)
    BY <2>1, <2>2 DEF LookedFor, Shows
  <2> QED
    BY <1>3, <2>2, <2>3, <2>4 DEF LookedFor
<1> QED
  BY <1>2, <1>3 DEF Looked

LEMMA LooksKept ==
    ASSUME NInv, Typed', NamespaceNext
    PROVE  Looked'
<1>0. \A e \in DOMAIN op : LookedFor(op[e])
  BY DEF NInv, Looked
<1>1. \A o : Continues(o, o)
  BY DEF Continues
<1>2. ASSUME NEW c \in Clients, Enters(c)
      PROVE  Looked'
  <2>1. /\ c \notin DOMAIN op /\ DOMAIN op' = DOMAIN op \cup {c}
        /\ \A e \in DOMAIN op : op'[e] = op[e] /\ op[e].kind = "list"
        /\ op'[c].step = "look" /\ op'[c].inside = Contained(remote, data)
        /\ op'[c].kind # "list" => DOMAIN op = {}
        /\ UNCHANGED <<remote, data, cached, load>>
    BY <1>2, Entered
  <2>2. op'[c].kind = "rmdir" => load = None
    BY <2>1 DEF NInv, Locked
  <2>3. "look" \notin {"verify", Tables, "send", "wait"}
    BY NamespaceAssumption
  <2>4. LookedFor(op[c])'
    BY <2>1, <2>2, <2>3 DEF LookedFor
  <2>5. ASSUME NEW e \in DOMAIN op
        PROVE  LookedFor(op[e])'
    BY <1>0, <2>1 DEF LookedFor
  <2> QED
    BY <2>1, <2>4, <2>5 DEF Looked
<1>3. ASSUME NEW c \in Clients, Hit(c)
      PROVE  Looked'
  <2>1. /\ c \in DOMAIN op /\ DOMAIN op' = DOMAIN op
        /\ \A e \in DOMAIN op : e # c => op'[e] = op[e]
        /\ cached # None /\ op'[c].tree = cached
        /\ Continues(op[c], op'[c]) /\ op'[c].step = op[c].step /\ op'[c].id = op[c].id
    BY <1>3, Hits
  <2>2. UNCHANGED <<remote, data, cached, load>>
    BY <1>3 DEF Hit
  <2>3. op'[c].inside \subseteq op[c].inside /\ op'[c].kind = op[c].kind
    BY <2>1 DEF Continues
  <2>4. \A t, todo : Shows(t, todo, op[c].inside) => Shows(t, todo, op'[c].inside)
    BY <2>3 DEF Shows
  <2>5. LookedFor(op[c])
    BY <1>0, <2>1
  <2>6. LookedFor(op[c])'
    BY <2>1, <2>2, <2>3, <2>4, <2>5 DEF LookedFor
  <2>7. \A e \in DOMAIN op : e # c => LookedFor(op[e])'
    BY <1>0, <2>1, <2>2 DEF LookedFor
  <2> QED
    BY <2>1, <2>6, <2>7 DEF Looked
<1>4. ASSUME UNCHANGED <<remote, data, cached, op>>,
             load' # None => \A e \in DOMAIN op : op[e].kind = "rmdir" =>
                                 Shows(load'.tree, load'.todo, op[e].inside)
      PROVE  Looked'
  BY <1>0, <1>4 DEF Looked, LookedFor
<1>5. ASSUME NEW c \in Clients, Miss(c)
      PROVE  Looked'
  <2>1. UNCHANGED <<remote, data, cached, op>>
    BY <1>5 DEF Miss
  <2>2. CASE load # None
    <3>1. load' = [load EXCEPT !.joined = load.joined \cup {c}] /\ load \in Loads
      BY <1>5, <2>2 DEF Miss, NInv, Typed
    <3>2. load'.tree = load.tree /\ load'.todo = load.todo
      BY <3>1 DEF Loads
    <3> QED
      BY <1>0, <1>4, <2>1, <2>2, <3>2 DEF LookedFor
  <2>3. CASE load = None
    <3>1. load'.tree = << >> /\ load'.todo = Ids
      BY <1>5, <2>3 DEF Miss
    <3>2. \A e \in DOMAIN op : Shows(<< >>, Ids, op[e].inside)
      BY <1>0, Insides DEF LookedFor, Shows, NInv
    <3> QED
      BY <1>4, <2>1, <3>1, <3>2
  <2> QED
    BY <2>2, <2>3
<1>6. ASSUME NEW id \in Ids, ListPage(id)
      PROVE  Looked'
  <2>1. UNCHANGED <<remote, data, cached, op>> /\ load # None /\ load \in Loads
    BY <1>6 DEF ListPage, NInv, Typed
  <2> DEFINE t == IF remote[id] \in {Unborn, Gone} THEN load.tree
                  ELSE With(load.tree, id, remote[id])
  <2>2. load' = [load EXCEPT !.todo = load.todo \ {id}, !.tree = t]
    BY <1>6 DEF ListPage
  <2>3. load.tree \in Trees
    BY <2>1 DEF Loads
  <2>4. ASSUME NEW e \in DOMAIN op, op[e].kind = "rmdir"
        PROVE  Shows(t, load.todo \ {id}, op[e].inside)
    <3>1. Shows(load.tree, load.todo, op[e].inside) /\ op[e].inside \subseteq Contained(remote, data)
      BY <1>0, <2>1, <2>4 DEF LookedFor
    <3>2. \A p \in op[e].inside : p[2] \in Directories =>
              remote[p[1]] \notin {Unborn, Gone} /\ remote[p[1]].parent = p[2]
      BY <3>1, Insides DEF NInv
    <3>3. CASE remote[id] \in {Unborn, Gone}
      BY <3>1, <3>2, <3>3 DEF Shows
    <3>4. CASE remote[id] \notin {Unborn, Gone}
      <4>1. remote[id] \in Places
        BY <3>4 DEF NInv, Typed
      <4> DEFINE u == With(load.tree, id, remote[id])
      <4>2. DOMAIN u = DOMAIN load.tree \cup {id} /\ u[id] = remote[id]
            /\ \A i \in DOMAIN load.tree : i # id => u[i] = load.tree[i]
        BY <2>3, <4>1, Grown
      <4>3. t = u
        BY <3>4
      <4> HIDE DEF u, t
      <4>4. Shows(u, load.todo \ {id}, op[e].inside)
        BY <3>1, <3>2, <4>2 DEF Shows
      <4> QED
        BY <4>3, <4>4
    <3> QED
      BY <3>3, <3>4
  <2> HIDE DEF t
  <2>5. load'.tree = t /\ load'.todo = load.todo \ {id}
    BY <2>1, <2>2 DEF Loads
  <2> QED
    BY <1>4, <2>1, <2>4, <2>5
<1>7. CASE LoadTree
  <2>1. /\ DOMAIN op' = DOMAIN op
        /\ load # None /\ load.todo = {} /\ cached' = load.tree /\ load' = None
        /\ \A e \in DOMAIN op : /\ op'[e] = op[e] \/ op'[e].tree = load.tree
                                /\ Continues(op[e], op'[e])
                                /\ op'[e].step = op[e].step /\ op'[e].id = op[e].id
    BY <1>7, TreesLoaded
  <2>2. UNCHANGED <<remote, data>>
    BY <1>7 DEF LoadTree
  <2>3. ASSUME NEW e \in DOMAIN op
        PROVE  LookedFor(op[e])'
    <3>1. op'[e].inside \subseteq op[e].inside /\ op'[e].kind = op[e].kind
      BY <2>1 DEF Continues
    <3>2. \A t, todo : Shows(t, todo, op[e].inside) => Shows(t, todo, op'[e].inside)
      BY <3>1 DEF Shows
    <3>3. LookedFor(op[e])
      BY <1>0
    <3>4. op[e].kind = "rmdir" => Shows(load.tree, {}, op'[e].inside)
      BY <2>1, <3>2, <3>3 DEF LookedFor
    <3> QED
      BY <2>1, <2>2, <3>1, <3>2, <3>3, <3>4 DEF LookedFor
  <2> QED
    BY <2>1, <2>3 DEF Looked
<1>8. CASE LoadFails
  <2>1. load' = None /\ UNCHANGED cached /\ \A e \in DOMAIN op' : e \in DOMAIN op /\ op'[e] = op[e]
    BY <1>8, LoadsFail
  <2>2. UNCHANGED <<remote, data>>
    BY <1>8 DEF LoadFails
  <2> QED
    BY <1>0, <2>1, <2>2 DEF Looked, LookedFor
<1>9. ASSUME (\E c \in Clients : Lost(c)) \/ ExpireTree
      PROVE  Looked'
  <2>1. UNCHANGED <<remote, data, load, op>> /\ cached' \in {cached, None}
    BY <1>9 DEF Lost, ExpireTree
  <2> QED
    BY <1>0, <2>1 DEF Looked, LookedFor
<1>10. ASSUME Thins, UNCHANGED <<cached, load>>
       PROVE  Looked'
  <2>1. ASSUME NEW e \in DOMAIN op
        PROVE  LookedFor(op[e])'
    <3>1. /\ Continues(op[e], op'[e]) /\ op'[e].inside \subseteq Contained(remote', data')
          /\ op'[e].step = op[e].step /\ op'[e].id = op[e].id /\ op'[e].tree = op[e].tree
      BY <1>10 DEF Thins
    <3> QED
      BY <1>0, <1>10, <3>1, LookedOn DEF LookedFor
  <2> QED
    BY <1>10, <2>1 DEF Looked, Thins
<1>11. ASSUME NEW c \in Clients, NEW id \in Ids, Apply(c, id)
       PROVE  Looked'
  <2>1. Thins /\ UNCHANGED <<cached, load>>
    BY <1>11, Applies DEF NInv
  <2> QED
    BY <1>10, <2>1
<1>12. ASSUME Edit
       PROVE  Looked'
  <2>1. Thins /\ UNCHANGED <<cached, load>>
    BY <1>12, Edits DEF NInv
  <2> QED
    BY <1>10, <2>1
<1>13. ASSUME NEW c \in Clients, Fail(c)
       PROVE  Looked'
  <2>1. /\ Stepped(c, {}) /\ c \notin DOMAIN op'
        /\ load # None => load' = [load EXCEPT !.joined = load.joined \ {c}]
        /\ load = None => load' = None
    BY <1>13, Fails
  <2>2. load # None => load \in Loads
    BY DEF NInv, Typed
  <2>3. load' # None => load # None /\ load'.tree = load.tree /\ load'.todo = load.todo
    BY <2>1, <2>2 DEF Loads
  <2>4. UNCHANGED <<remote, data>>
    BY <1>13 DEF Fail
  <2> QED
    BY <2>1, <2>3, <2>4, LookedPassed
<1>14. ASSUME NEW c \in Clients,
              Answer(c) \/ Confirmed(c) \/ \E late \in BOOLEAN : Refused(c, late)
       PROVE  Looked'
  <2>1. Stepped(c, {}) /\ c \notin DOMAIN op'
    BY <1>14, Answers, Confirms, Refuses
  <2>2. UNCHANGED <<remote, data, load>>
    BY <1>14 DEF Answer, Confirmed, Refused
  <2> QED
    BY <2>1, <2>2, LookedPassed
<1>15. ASSUME NEW c \in Clients, CheckName(c)
       PROVE  Looked'
  <2>1. Stepped(c, {"send"}) /\ op[c].kind # "rmdir"
    BY <1>15, Checks
  <2>2. UNCHANGED <<remote, data, load>>
    BY <1>15 DEF CheckName
  <2> QED
    BY <2>1, <2>2, LookedPassed
<1>16. ASSUME NEW c \in Clients, Resolve(c)
       PROVE  Looked'
  <2>1. Stepped(c, {"verify"}) /\ (c \in DOMAIN op' => Resolved(c))
    BY <1>16, Resolves
  <2>2. UNCHANGED <<remote, data, load>>
    BY <1>16 DEF Resolve
  <2>3. "verify" \notin {Tables, "send", "wait"}
    BY NamespaceAssumption
  <2> QED
    BY <2>1, <2>2, <2>3, LookedPassed DEF Resolved
<1>17. ASSUME NEW c \in Clients, Verify(c)
       PROVE  Looked'
  <2>1. /\ Stepped(c, {"send", Files}) /\ c \in DOMAIN op' /\ op'[c].id = op[c].id
        /\ op[c].step = "verify" /\ op[c].tree # None
        /\ \/ op'[c].step = "send" /\ op[c].id \in Folders /\ Children(op[c].tree, op[c].id) = {}
           \/ op'[c].step = Files /\ op[c].id \in Lakes
    BY <1>17, Verifies
  <2>2. UNCHANGED <<remote, data, load>>
    BY <1>17 DEF Verify
  <2>3. c \in DOMAIN op /\ op'[c].inside \subseteq op[c].inside
    BY <2>1 DEF Stepped, Continues
  <2>4. Files \notin {"verify", Tables, "send", "wait"} /\ "send" \notin {"verify", Tables}
    BY NamespaceAssumption
  <2>5. op'[c].step = "send" /\ op[c].kind = "rmdir" => \A p \in op'[c].inside : p[2] # op'[c].id
    <3>1. ASSUME op'[c].step = "send", op[c].kind = "rmdir", NEW p \in op'[c].inside, p[2] = op'[c].id
          PROVE  FALSE
      <4>1. op[c].id \in Folders /\ Children(op[c].tree, op[c].id) = {} /\ p \in op[c].inside
            /\ p[2] = op[c].id
        BY <2>1, <2>3, <2>4, <3>1
      <4>2. Shows(op[c].tree, {}, op[c].inside)
        BY <1>0, <2>1, <2>3, <3>1 DEF LookedFor
      <4>3. p[1] \in DOMAIN op[c].tree /\ op[c].tree[p[1]].parent = op[c].id
        BY <4>1, <4>2 DEF Shows, Directories
      <4> QED
        BY <4>1, <4>3 DEF Children
    <3> QED
      BY <3>1
  <2> QED
    BY <2>1, <2>2, <2>4, <2>5, LookedPassed
<1>18. ASSUME NEW c \in Clients, NEW root \in {Files, Tables}, ListRoot(c, root)
       PROVE  Looked'
  <2> DEFINE s == IF root = Files THEN Tables ELSE "send"
  <2>1. /\ Stepped(c, {s}) /\ c \in DOMAIN op' /\ op'[c].id = op[c].id
        /\ op[c].step = root /\ root \notin data[op[c].id]
    BY <1>18, RootsListed
  <2>2. UNCHANGED <<remote, data, load>>
    BY <1>18 DEF ListRoot
  <2>3. c \in DOMAIN op /\ op'[c].inside \subseteq op[c].inside /\ op'[c].step = s
    BY <2>1 DEF Stepped, Continues
  <2>4. op[c].id \in Lakes
    BY <2>1, <2>3 DEF NInv, Staged, StageOf
  <2>5. \A p \in op[c].inside : p[2] = op[c].id => p[1] \in data[op[c].id] /\ p \in (Ids \cup {Files, Tables}) \X (Directories \cup Lakes)
    BY <1>0, <2>3, <2>4, Insides DEF LookedFor, NInv
  <2>6. data[op[c].id] \subseteq {Files, Tables}
    BY <2>4 DEF NInv, Typed
  <2>7. Tables \notin {"verify", "send", "wait"} /\ "send" \notin {"verify", Tables} /\ Files # Tables
    BY NamespaceAssumption
  <2>8. CASE root = Files
    <3>1. s = Tables /\ <<Files, op[c].id>> \notin op[c].inside
      BY <2>1, <2>5, <2>8
    <3> HIDE DEF s
    <3> QED
      BY <2>1, <2>2, <2>3, <2>7, <3>1, LookedPassed
  <2>9. CASE root = Tables
    <3>1. s = "send"
      BY <2>7, <2>9
    <3>2. ASSUME op[c].kind = "rmdir", NEW p \in op[c].inside, p[2] = op[c].id
          PROVE  FALSE
      <4>1. <<Files, op[c].id>> \notin op[c].inside
        BY <1>0, <2>1, <2>3, <2>9, <3>2 DEF LookedFor
      <4>2. p[1] = Files
        BY <2>1, <2>5, <2>6, <2>9, <3>2
      <4>3. p = <<p[1], p[2]>>
        BY <2>5, <3>2
      <4> QED
        BY <3>2, <4>1, <4>2, <4>3
    <3> HIDE DEF s
    <3>3. op[c].kind = "rmdir" => \A p \in op'[c].inside : p[2] # op'[c].id
      BY <2>1, <2>3, <3>2
    <3> QED
      BY <2>1, <2>2, <2>3, <2>7, <3>1, <3>3, LookedPassed
  <2> QED
    BY <2>8, <2>9
<1>19. ASSUME NEW c \in Clients, Send(c)
       PROVE  Looked'
  <2>1. /\ Stepped(c, {"wait"}) /\ c \in DOMAIN op' /\ op'[c].id = op[c].id /\ op[c].step = "send"
    BY <1>19, Sends
  <2>2. UNCHANGED <<remote, data, load>>
    BY <1>19 DEF Send
  <2>3. c \in DOMAIN op /\ op'[c].inside \subseteq op[c].inside /\ op'[c].step = "wait"
    BY <2>1 DEF Stepped, Continues
  <2>4. "wait" \notin {"verify", Tables}
    BY NamespaceAssumption
  <2>5. op[c].kind = "rmdir" => \A p \in op'[c].inside : p[2] # op'[c].id
    BY <1>0, <2>1, <2>3 DEF LookedFor
  <2> QED
    BY <2>1, <2>2, <2>3, <2>4, <2>5, LookedPassed
<1> QED
  BY <1>2, <1>3, <1>5, <1>6, <1>7, <1>8, <1>9, <1>11, <1>12, <1>13, <1>14, <1>15, <1>16,
     <1>17, <1>18, <1>19 DEF NamespaceNext, Enters

-----------------------------------------------------------------------------
(* Theorems about Namespace *)

LEMMA NothingYet ==
    ASSUME NamespaceInit
    PROVE  NInv
<1>1. DOMAIN op = {} /\ DOMAIN request = {} /\ DOMAIN assigned = {}
  BY DEF NamespaceInit
<1>2. op \in [DOMAIN op -> Ops] /\ request \in [DOMAIN request -> Requests]
  BY <1>1 DEF NamespaceInit
<1>3. Typed
  BY <1>1, <1>2 DEF NamespaceInit, Typed
<1>4. Catalogued(assigned)
  BY <1>1 DEF Catalogued
<1> QED
  BY <1>1, <1>3, <1>4
     DEF NInv, NamespaceInit, Staged, Locked, Bound, Sent, Seen, Looked

LEMMA InvariantKept ==
    ASSUME NInv, [NamespaceNext]_namespaceVars
    PROVE  NInv'
<1>1. CASE NamespaceNext
  BY <1>1, TypesKept, StagesKept, LocksKept, NamesKept, AskedKept, TreesKept, LooksKept DEF NInv
<1>2. CASE UNCHANGED namespaceVars
  BY <1>2 DEF namespaceVars, NInv, Typed, Staged, Locked, Bound, Sent, Seen, Looked, Mutating,
     Doing, Asked, Done, At, Sees, Exists, LookedFor
<1> QED
  BY <1>1, <1>2

\* Everything has its type and is where the invariant says, however the
\* requests, the loads and the other clients interleave.
THEOREM NamespaceInvariant == NamespaceSpec => []NInv
  BY NothingYet, InvariantKept, PTL DEF NamespaceSpec

\* In the whole life of a mount a name of a directory stands for one object,
\* and an object keeps its name for a display name (Catalog.Names and
\* assignNames), whatever other clients delete, rename or make anew.
THEOREM AliasesKept == NamespaceSpec => []AliasesStay
<1>1. NInv => AliasesStay
  <2>1. ASSUME Bound, NEW s \in shown, NEW t \in shown, s[1] = t[1]
        PROVE  /\ s[4] = t[4] => s[2] = t[2]
               /\ s[2] = t[2] /\ s[3] = t[3] => s[4] = t[4]
    <3> DEFINE k == <<s[1], s[2], s[3]>>
               l == <<t[1], t[2], t[3]>>
    <3>1. /\ k \in DOMAIN assigned /\ l \in DOMAIN assigned
          /\ assigned[k] = s[4] /\ assigned[l] = t[4]
      BY <2>1 DEF Bound
    <3>2. s[4] = t[4] => k = l
      BY <2>1, <3>1 DEF Bound, Catalogued
    <3> QED
      BY <2>1, <3>1, <3>2
  <2> QED
    BY <2>1 DEF NInv, AliasesStay
<1> QED
  BY <1>1, NamespaceInvariant, PTL

\* The trees that lookups and listings work with show what this mount has
\* made and removed (the invalidations in mkdirManaged and removeManaged and
\* the lock that the adapters hold around them).
THEOREM OwnChangesShown == NamespaceSpec => []OwnChangesSeen
<1>1. NInv => OwnChangesSeen
  BY DEF NInv, Seen, Sees, OwnChangesSeen, Doing
<1> QED
  BY <1>1, NamespaceInvariant, PTL

\* A directory that mkdir reports as made has the very name it was asked for
\* (mkdirManaged asks Reserved before, and Names after, the service).
THEOREM DirectoriesAsAsked == NamespaceSpec => CreatedAsAsked
<1>1. ASSUME NInv, [NamespaceNext]_namespaceVars
      PROVE  [\A c \in Clients : Doing(c) /\ made' # made =>
                 assigned'[<<op[c].dir, request[c].id, op[c].name>>] = op[c].name]_namespaceVars
  <2>1. ASSUME NamespaceNext, NEW c \in Clients, Doing(c), made' # made
        PROVE  assigned'[<<op[c].dir, request[c].id, op[c].name>>] = op[c].name
    <3>1. \E e \in Clients : Confirmed(e)
      <4>1. \A e \in Clients : Enters(e) => made' = made
        BY <1>1, Entered
      <4>2. \A e \in Clients, id \in Ids : Apply(e, id) => made' = made
        BY <1>1, Applies DEF NInv
      <4>3. Edit => made' = made
        BY <1>1, Edits DEF NInv
      <4>4. \A e \in Clients : Hit(e) \/ Miss(e) \/ Fail(e) \/ Verify(e) \/ Send(e) \/ Lost(e) => made' = made
        BY DEF Hit, Miss, Fail, Verify, Send, Lost
      <4>5. \A e \in Clients : Answer(e) \/ CheckName(e) \/ Resolve(e) => made' = made
        BY DEF Answer, CheckName, Resolve
      <4>6. \A e \in Clients : /\ \A root \in {Files, Tables} : ListRoot(e, root) => made' = made
                               /\ \A late \in BOOLEAN : Refused(e, late) => made' = made
        BY DEF ListRoot, Refused
      <4>7. LoadTree \/ LoadFails \/ ExpireTree \/ (\E id \in Ids : ListPage(id)) => made' = made
        BY DEF LoadTree, LoadFails, ExpireTree, ListPage
      <4> QED
        BY <2>1, <4>1, <4>2, <4>3, <4>4, <4>5, <4>6, <4>7 DEF NamespaceNext, Enters
    <3>2. PICK e \in Clients : Confirmed(e)
      BY <3>1
    <3>3. e \in DOMAIN op /\ e \in DOMAIN request /\ op[e].step = "wait"
      BY <1>1, <3>2, Confirms DEF Stepped
    <3>4. request[e].kind = op[e].kind
      BY <1>1, <3>3 DEF NInv, Sent, Asked
    <3>5. op[e].kind = "mkdir"
      BY <2>1, <3>2, <3>4 DEF Confirmed
    <3>6. e = c
      BY <1>1, <2>1, <3>3, <3>5 DEF NInv, Locked, Mutating, Doing
    <3> QED
      BY <1>1, <3>2, <3>5, <3>6, MadeNamed
  <2> QED
    BY <1>1, <2>1
<1> QED
  BY <1>1, NamespaceInvariant, PTL DEF NamespaceSpec, CreatedAsAsked

\* When rmdir asks the service to delete something, all that was in it when
\* rmdir began has gone from it (removeManaged looks at a fresh tree, and for
\* a Lakehouse at its roots, and whoever fills it again is not missed before).
THEOREM DeletesLookFirst == NamespaceSpec => DeletesEmptied
<1>1. ASSUME NInv, [NamespaceNext]_namespaceVars
      PROVE  [\A c \in Clients : c \notin DOMAIN request /\ c \in DOMAIN request' /\ op[c].kind = "rmdir" =>
                 \A p \in op[c].inside : p[2] # op[c].id]_namespaceVars
  <2>1. ASSUME NamespaceNext, NEW c \in Clients, c \notin DOMAIN request, c \in DOMAIN request',
               op[c].kind = "rmdir", NEW p \in op[c].inside
        PROVE  p[2] # op[c].id
    <3>0. \A e : request' = Without(request, {e}) => DOMAIN request' \subseteq DOMAIN request
      BY DEF Without, Restrict
    <3>1. Send(c)
      <4>1. \A e \in Clients : Enters(e) => request' = request
        BY <1>1, Entered
      <4>2. \A e \in Clients, id \in Ids : Apply(e, id) => DOMAIN request' \subseteq DOMAIN request
        BY <3>0 DEF Apply
      <4>3. Edit => request' = request
        BY DEF Edit
      <4>4. \A e \in Clients : Hit(e) \/ Miss(e) \/ Fail(e) \/ Verify(e) => request' = request
        BY DEF Hit, Miss, Fail, Verify
      <4>5. \A e \in Clients : Answer(e) \/ CheckName(e) \/ Resolve(e) => request' = request
        BY DEF Answer, CheckName, Resolve
      <4>6. \A e \in Clients :
               /\ \A root \in {Files, Tables} : ListRoot(e, root) => request' = request
               /\ \A late \in BOOLEAN : Refused(e, late) => DOMAIN request' \subseteq DOMAIN request
        BY <3>0 DEF ListRoot, Refused
      <4>7. LoadTree \/ LoadFails \/ ExpireTree \/ (\E id \in Ids : ListPage(id)) => request' = request
        BY DEF LoadTree, LoadFails, ExpireTree, ListPage
      <4>8. \A e \in Clients : Confirmed(e) \/ Lost(e) => DOMAIN request' \subseteq DOMAIN request
        BY <3>0 DEF Confirmed, Lost
      <4>9. \A e \in Clients : Send(e) => DOMAIN request' = DOMAIN request \cup {e}
        BY <1>1, Sends
      <4> QED
        BY <2>1, <4>1, <4>2, <4>3, <4>4, <4>5, <4>6, <4>7, <4>8, <4>9 DEF NamespaceNext, Enters
    <3>2. c \in DOMAIN op /\ op[c].step = "send"
      BY <1>1, <3>1, Sends DEF Stepped
    <3> QED
      BY <1>1, <2>1, <3>2 DEF NInv, Looked, LookedFor
  <2> QED
    BY <1>1, <2>1
<1> QED
  BY <1>1, NamespaceInvariant, PTL DEF NamespaceSpec, DeletesEmptied
=============================================================================
