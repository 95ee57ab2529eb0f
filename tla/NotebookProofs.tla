--------------------------- MODULE NotebookProofs ---------------------------
(***************************************************************************)
(* Proofs about what a mounted notebook relies on.                         *)
(*                                                                         *)
(* NotebookSave, for any contents and definitions and any number of edits, *)
(* requests, crashes and concurrent readers: what was written is saved or  *)
(* kept, and an update follows from what its writer has seen.              *)
(*                                                                         *)
(* Leases, for any number of clients, files and keys and every limit: the  *)
(* counts are exact, writers and mutations exclude what they must, no      *)
(* wakeup is lost, and the table implements LeaseTable.                    *)
(***************************************************************************)
EXTENDS NotebookSave, Leases, FiniteSetTheorems, TLAPS

-----------------------------------------------------------------------------
(* NotebookSave *)


\* A remote part equal to what the local file stands for has been noticed.
ReachedNoticed ==
    written /\ remote.part = Prepared[local] => reached

\* The commit works for the content that is in the spool, and every stage of
\* it that can only be passed with the content at the remote implies that.
CommitExact ==
    /\ stage \in Flushing => dirty
    /\ stage # "closed" => spool /\ base \in Definition /\ base \in known
    /\ dirty => written
    /\ stage \in {"preflight", "compare", "sent"} =>
          /\ want = [part |-> Prepared[local], other |-> base.other]
          /\ want \in Definition /\ want \in known
    /\ stage = "compare" /\ saw = want => reached
    /\ stage = "sent" /\ acked => reached
    /\ stage = "succeeded" => reached

\* Requests are numbered in the order they are sent, and the last one carries
\* the content in the spool as long as the commit waits for its answer.
RequestsExact ==
    \A r \in network :
        /\ r.id <= sent
        /\ stage = "sent" /\ r.id = sent => r.def.part = Prepared[local]

\* No load that is still attached, and no retained snapshot, is older than
\* the last successful save.
SnapshotsNewer ==
    /\ saved <= ver /\ at <= ver
    /\ \A s \in cached \cup flight : s.ver >= saved

SInv ==
    /\ SaveTypeOK
    /\ ReachedNoticed
    /\ CommitExact
    /\ RequestsExact
    /\ SnapshotsNewer
    /\ SavedOrKept

-----------------------------------------------------------------------------
(* What a writer wants to store is a definition. *)

\* The prepared notebook is valid, so desired is a definition.
LEMMA DesiredTyped ==
    ASSUME SaveTypeOK, base \in Definition, Prepared[local] # Invalid
    PROVE  Desired(base) \in Definition
  BY NotebookSaveAssumption DEF SaveTypeOK, Desired, Definition

\* A mount without open notebooks satisfies the invariant.
LEMMA InitSInv == SaveInit => SInv
<1> SUFFICES ASSUME SaveInit PROVE SInv
  OBVIOUS
<1> USE NotebookSaveAssumption
<1>1. setup \in Setups /\ remote \in Definition /\ ver = 0 /\ at = 0 /\ saved = 0 /\ sent = 0
  BY DEF SaveInit
<1>2. network = {} /\ cached = {} /\ flight = {} /\ known = {}
  BY DEF SaveInit
<1>3. /\ acked = FALSE /\ dirty = FALSE /\ spool = FALSE
      /\ written = FALSE /\ reached = FALSE
  BY DEF SaveInit
<1>4. /\ stage = "closed" /\ local = Empty
      /\ base = NoDefinition /\ want = NoDefinition /\ saw = NoDefinition
  BY DEF SaveInit
<1>5. SaveTypeOK
  <2>1. /\ setup \in Setups
        /\ remote \in Definition /\ ver \in Nat /\ at \in Nat /\ saved \in Nat
    BY <1>1
  <2>2. sent \in 0..MaxSends
    BY <1>1
  <2>3. /\ network \subseteq Request /\ known \subseteq Definition
        /\ cached \subseteq Snapshot /\ flight \subseteq Snapshot
    BY <1>2
  <2>4. /\ acked \in BOOLEAN /\ dirty \in BOOLEAN /\ spool \in BOOLEAN
        /\ written \in BOOLEAN /\ reached \in BOOLEAN
    BY <1>3
  <2>5. stage \in Stages /\ local \in Contents
    BY <1>4 DEF Stages
  <2>6. /\ base \in Definition \cup {NoDefinition}
        /\ want \in Definition \cup {NoDefinition}
        /\ saw \in Definition \cup {NoDefinition}
    BY <1>4
  <2>7. QED
    BY <2>1, <2>2, <2>3, <2>4, <2>5, <2>6 DEF SaveTypeOK
<1>6. ReachedNoticed /\ CommitExact /\ SavedOrKept
  BY <1>3, <1>4 DEF ReachedNoticed, CommitExact, SavedOrKept, Flushing
<1>7. RequestsExact /\ SnapshotsNewer
  BY <1>1, <1>2 DEF RequestsExact, SnapshotsNewer
<1>8. QED
  BY <1>5, <1>6, <1>7 DEF SInv

\* Opening.
LEMMA OpenSInv ==
    ASSUME SInv, NEW truncate \in BOOLEAN, Open(truncate),
           UNCHANGED setup
    PROVE  SInv'
<1> USE NotebookSaveAssumption DEF SInv
<1>1. PICK s \in cached \cup {Current} :
          /\ base' = s.def /\ known' = {s.def}
          /\ local' = IF truncate THEN Empty ELSE s.def.part
          /\ dirty' = (truncate /\ s.def.part # Empty)
          /\ written' = (truncate /\ s.def.part # Empty)
  BY DEF Open
<1>2. s \in Snapshot
  BY DEF SaveTypeOK, Snapshot, Current
<1>3. /\ stage' = "open" /\ spool' = TRUE /\ reached' = FALSE
      /\ UNCHANGED <<remote, ver, network, sent, acked, cached, flight, want, saw,
                     at, saved>>
  BY DEF Open
<1>4. SaveTypeOK'
  BY <1>1, <1>2, <1>3 DEF SaveTypeOK, Snapshot, Definition, Stages, Flushing
<1>5. ReachedNoticed'
  BY <1>1, <1>3 DEF ReachedNoticed, SaveTypeOK, Definition
<1>6. CommitExact'
  BY <1>1, <1>2, <1>3 DEF CommitExact, Flushing, Snapshot
<1>7. RequestsExact' /\ SnapshotsNewer'
  BY <1>3 DEF RequestsExact, SnapshotsNewer
<1>8. SavedOrKept'
  BY <1>1, <1>3 DEF SavedOrKept
<1>9. QED
  BY <1>4, <1>5, <1>6, <1>7, <1>8

\* Writing: the new content is dirty until a later flush.
LEMMA WriteSInv ==
    ASSUME SInv, NEW c \in Contents, Write(c),
           UNCHANGED setup
    PROVE  SInv'
<1> USE NotebookSaveAssumption DEF SInv
<1>1. SaveTypeOK' /\ ReachedNoticed'
  BY DEF Write, SaveTypeOK, ReachedNoticed
<1>2. CommitExact' /\ SavedOrKept'
  BY DEF Write, CommitExact, Flushing, SavedOrKept
<1>3. RequestsExact' /\ SnapshotsNewer'
  BY DEF Write, RequestsExact, SnapshotsNewer
<1>4. QED
  BY <1>1, <1>2, <1>3

\* The commit up to the comparison; nothing is sent.
LEMMA CommitSInv ==
    ASSUME SInv,
           FlushStart \/ Prepare \/ Preflight \/ Reconcile \/ Confirm \/ Fail,
           UNCHANGED setup
    PROVE  SInv'
<1> USE NotebookSaveAssumption DEF SInv
<1>1. CASE FlushStart
  BY <1>1
     DEF FlushStart, Invalidate, handle, history, SaveTypeOK, ReachedNoticed,
         CommitExact, RequestsExact, SnapshotsNewer, SavedOrKept, Stages, Flushing
<1>2. CASE Prepare
  <2>1. Desired(base) \in Definition
    BY <1>2, DesiredTyped DEF Prepare, Valid, CommitExact
  <2>2. SaveTypeOK' /\ ReachedNoticed' /\ SavedOrKept'
    BY <1>2, <2>1
       DEF Prepare, SaveTypeOK, ReachedNoticed, SavedOrKept, Stages, Flushing
  <2>3. CommitExact'
    BY <1>2, <2>1 DEF Prepare, Desired, CommitExact, Flushing
  <2>4. RequestsExact' /\ SnapshotsNewer'
    BY <1>2 DEF Prepare, RequestsExact, SnapshotsNewer
  <2>5. QED
    BY <2>2, <2>3, <2>4
<1>3. CASE Preflight
  <2>1. SaveTypeOK' /\ ReachedNoticed' /\ SavedOrKept'
    BY <1>3 DEF Preflight, SaveTypeOK, ReachedNoticed, SavedOrKept, Stages, Flushing
  <2>2. CommitExact'
    BY <1>3 DEF Preflight, CommitExact, ReachedNoticed, Flushing
  <2>3. RequestsExact' /\ SnapshotsNewer'
    BY <1>3 DEF Preflight, RequestsExact, SnapshotsNewer, SaveTypeOK
  <2>4. QED
    BY <2>1, <2>2, <2>3
<1>4. CASE Reconcile \/ Confirm
  <2>1. SaveTypeOK' /\ ReachedNoticed' /\ SavedOrKept'
    BY <1>4
       DEF Reconcile, Confirm, SaveTypeOK, ReachedNoticed, SavedOrKept, Stages, Flushing,
           history
  <2>2. CommitExact'
    BY <1>4 DEF Reconcile, Confirm, CommitExact, Flushing, history
  <2>3. RequestsExact' /\ SnapshotsNewer'
    BY <1>4 DEF Reconcile, Confirm, RequestsExact, SnapshotsNewer, history
  <2>4. QED
    BY <2>1, <2>2, <2>3
<1>5. CASE Fail
  BY <1>5
     DEF Fail, handle, history, SaveTypeOK, ReachedNoticed, CommitExact,
         RequestsExact, SnapshotsNewer, SavedOrKept, Stages, Flushing
<1>6. QED
  BY <1>1, <1>2, <1>3, <1>4, <1>5

\* Sending: the new request is the last one, and it carries the content in the
\* spool.
LEMMA SendSInv ==
    ASSUME SInv, PutContent \/ Retry \/ Update,
           UNCHANGED setup
    PROVE  SInv'
<1> USE NotebookSaveAssumption DEF SInv
<1> DEFINE d == [part |-> Prepared[local], other |-> base.other]
<1>1. /\ sent' = sent + 1 /\ sent < MaxSends /\ acked' = FALSE
      /\ network' = network \cup {[id |-> sent + 1, def |-> d]}
      /\ stage' = "sent" /\ stage \in Flushing
      /\ UNCHANGED <<remote, ver, cached, flight, spool>>
      /\ want' = d /\ d \in Definition
  <2>1. CASE PutContent
    BY <2>1, DesiredTyped DEF PutContent, Valid, Send, Desired, CommitExact, Flushing
  <2>2. CASE Retry \/ Update
    BY <2>2 DEF Retry, Update, Send, handle, CommitExact, Flushing
  <2>3. QED
    BY <2>1, <2>2
<1>2. /\ UNCHANGED <<local, dirty, base, saw, written, reached, at, saved>>
      /\ known' = known \cup {d}
  BY DEF PutContent, Retry, Update, handle, history, Desired, CommitExact
<1>3. [id |-> sent + 1, def |-> d] \in Request
  BY <1>1 DEF SaveTypeOK, Request
<1>4. SaveTypeOK'
  <2> HIDE DEF d
  <2>1. network' \subseteq Request /\ known' \subseteq Definition
    BY <1>1, <1>2, <1>3 DEF SaveTypeOK
  <2>2. sent' \in 0..MaxSends
    BY <1>1 DEF SaveTypeOK
  <2>3. want' \in Definition \cup {NoDefinition} /\ stage' \in Stages /\ acked' \in BOOLEAN
    BY <1>1 DEF Stages, Flushing
  <2>4. QED
    BY <1>1, <1>2, <2>1, <2>2, <2>3 DEF SaveTypeOK
<1>5. ReachedNoticed' /\ SavedOrKept' /\ SnapshotsNewer'
  BY <1>1, <1>2 DEF ReachedNoticed, SavedOrKept, SnapshotsNewer
<1>6. CommitExact'
  BY <1>1, <1>2 DEF CommitExact, Flushing
<1>7. RequestsExact'
  <2>1. ASSUME NEW r \in network'
        PROVE  r.id <= sent' /\ (r.id = sent' => r.def.part = Prepared[local'])
    <3>1. CASE r \in network
      BY <1>1, <3>1 DEF RequestsExact, SaveTypeOK, Request
    <3>2. CASE r = [id |-> sent + 1, def |-> d]
      BY <1>1, <1>2, <3>2 DEF SaveTypeOK
    <3>3. QED
      BY <1>1, <3>1, <3>2
  <2>2. QED
    BY <2>1 DEF RequestsExact
<1>8. QED
  BY <1>4, <1>5, <1>6, <1>7

\* The end of a flush: only a save that reached the remote cleans the file, and
\* no load from before it stays attached.
LEMMA FlushEndSInv ==
    ASSUME SInv, FlushEnd,
           UNCHANGED setup
    PROVE  SInv'
<1> USE NotebookSaveAssumption DEF SInv
<1>1. SaveTypeOK'
  BY DEF FlushEnd, InvalidateAgain, Invalidate, StillDirty, SaveTypeOK, Stages
<1>2. ReachedNoticed' /\ SavedOrKept'
  BY DEF FlushEnd, ReachedNoticed, SavedOrKept, CommitExact, StillDirty, Flushing
<1>3. CommitExact'
  BY DEF FlushEnd, CommitExact, StillDirty, Flushing
<1>4. RequestsExact' /\ SnapshotsNewer'
  BY DEF FlushEnd, InvalidateAgain, Invalidate, RequestsExact, SnapshotsNewer
<1>5. QED
  BY <1>1, <1>2, <1>3, <1>4

\* The handle goes away, orderly or not.
LEMMA GoneSInv ==
    ASSUME SInv, Close \/ Crash,
           UNCHANGED setup
    PROVE  SInv'
<1> USE NotebookSaveAssumption DEF SInv
<1>1. SaveTypeOK'
  BY DEF Close, Crash, Unpin, Invalidate, RetainSpool, SaveTypeOK, Stages
<1>2. ReachedNoticed' /\ SavedOrKept'
  BY DEF Close, Crash, ReachedNoticed, SavedOrKept, RetainSpool
<1>3. CommitExact' /\ RequestsExact'
  BY DEF Close, Crash, CommitExact, RequestsExact, Flushing
<1>4. SnapshotsNewer'
  BY DEF Close, Crash, Invalidate, SnapshotsNewer
<1>5. QED
  BY <1>1, <1>2, <1>3, <1>4

\* Readers load what the remote has now.
LEMMA ReaderSInv ==
    ASSUME SInv, LoadRead \/ LoadPublish \/ Expire,
           UNCHANGED setup
    PROVE  SInv'
<1> USE NotebookSaveAssumption DEF SInv
<1>1. UNCHANGED <<remote, ver, network, sent, acked, stage, local, dirty, base, want,
                  saw, spool, written, reached, at, saved, known>>
  BY DEF LoadRead, LoadPublish, Expire, handle, history
<1>2. cached' \cup flight' \subseteq cached \cup flight \cup {Current}
  BY DEF LoadRead, LoadPublish, Expire
<1>3. Current \in Snapshot /\ Current.ver = ver
  BY DEF SaveTypeOK, Current, Snapshot
<1>4. SaveTypeOK'
  BY <1>1, <1>2, <1>3 DEF SaveTypeOK
<1>5. ReachedNoticed' /\ CommitExact' /\ RequestsExact' /\ SavedOrKept'
  BY <1>1 DEF ReachedNoticed, CommitExact, RequestsExact, SavedOrKept
<1>6. SnapshotsNewer'
  BY <1>1, <1>2, <1>3 DEF SnapshotsNewer
<1>7. QED
  BY <1>4, <1>5, <1>6

\* Another client edits the notebook.
LEMMA EditSInv ==
    ASSUME SInv, NEW d \in Definition, Edit(d),
           UNCHANGED setup
    PROVE  SInv'
<1> USE NotebookSaveAssumption DEF SInv
<1>1. SaveTypeOK'
  BY DEF Edit, Store, handle, SaveTypeOK
<1>2. ReachedNoticed' /\ SavedOrKept'
  BY DEF Edit, Store, handle, ReachedNoticed, SavedOrKept
<1>3. CommitExact' /\ RequestsExact'
  BY DEF Edit, Store, handle, CommitExact, RequestsExact
<1>4. SnapshotsNewer'
  BY DEF Edit, Store, SnapshotsNewer, SaveTypeOK, Snapshot
<1>5. QED
  BY <1>1, <1>2, <1>3, <1>4

\* A request takes effect, now or long after its answer was given up on.
LEMMA ApplySInv ==
    ASSUME SInv, NEW r \in network, Apply(r),
           UNCHANGED setup
    PROVE  SInv'
<1> USE NotebookSaveAssumption DEF SInv
<1> DEFINE d == [part  |-> r.def.part,
                 other |-> IF ContentAPI THEN remote.other ELSE r.def.other]
<1>1. /\ remote' = d /\ ver' = ver + 1
      /\ reached' = (reached \/ d.part = Prepared[local])
      /\ network' = network \ {r}
      /\ acked' = (acked \/ r.id = sent)
      /\ at' = IF r.id = sent THEN ver + 1 ELSE at
      /\ UNCHANGED <<sent, cached, flight, stage, local, dirty, base, want, saw,
                     spool, written, saved, known>>
  BY DEF Apply, Store, handle
<1>2. d \in Definition
  BY DEF SaveTypeOK, Request, Definition
<1> HIDE DEF d
<1>3. SaveTypeOK'
  <2>1. remote' \in Definition /\ ver' \in Nat /\ at' \in Nat /\ saved' \in Nat
    BY <1>1, <1>2 DEF SaveTypeOK
  <2>2. acked' \in BOOLEAN /\ reached' \in BOOLEAN
    BY <1>1
  <2>3. QED
    BY <1>1, <2>1, <2>2 DEF SaveTypeOK
<1>4. ReachedNoticed' /\ SavedOrKept'
  BY <1>1 DEF ReachedNoticed, SavedOrKept
<1>5. CommitExact'
  <2>1. stage = "sent" /\ r.id = sent => reached'
    BY <1>1 DEF RequestsExact, d
  <2>2. QED
    BY <1>1, <2>1 DEF CommitExact
<1>6. RequestsExact'
  BY <1>1 DEF RequestsExact
<1>7. SnapshotsNewer'
  BY <1>1 DEF SnapshotsNewer, SaveTypeOK, Snapshot
<1>8. QED
  BY <1>3, <1>4, <1>5, <1>6, <1>7

\* A request is lost, or nothing happens.
LEMMA IdleSInv ==
    ASSUME SInv, (\E r \in network : Drop(r)) \/ UNCHANGED saveVars,
           UNCHANGED setup
    PROVE  SInv'
<1> USE DEF SInv
<1>1. /\ network' \subseteq network
      /\ UNCHANGED <<remote, ver, sent, acked, cached, flight, stage, local, dirty,
                     base, want, saw, spool, written, reached, at, saved, known>>
  BY DEF Drop, saveVars, handle, history
<1>2. SaveTypeOK'
  BY <1>1 DEF SaveTypeOK
<1>3. ReachedNoticed' /\ CommitExact' /\ SavedOrKept'
  BY <1>1 DEF ReachedNoticed, CommitExact, SavedOrKept
<1>4. RequestsExact' /\ SnapshotsNewer'
  BY <1>1 DEF RequestsExact, SnapshotsNewer
<1>5. QED
  BY <1>2, <1>3, <1>4

\* A process keeps its setup.
LEMMA SetupKept == [SaveNext]_saveVars => UNCHANGED setup
  BY DEF SaveNext, saveVars, Open, Write, FlushStart, Prepare, PutContent, Retry, Preflight,
         Reconcile, Update, Send, Confirm, Fail, FlushEnd, Close, Crash, LoadRead,
         LoadPublish, Expire, Edit, Apply, Drop

\* Every step keeps the invariant.
LEMMA NextSInv == SInv /\ [SaveNext]_saveVars => SInv'
  BY OpenSInv, WriteSInv, CommitSInv, SendSInv, FlushEndSInv, GoneSInv, ReaderSInv,
     EditSInv, ApplySInv, IdleSInv, SetupKept
     DEF SaveNext, saveVars

-----------------------------------------------------------------------------
(* The theorems *)

\* SInv holds in every reachable state.
THEOREM SInvInvariant == SaveSpec => []SInv
  BY InitSInv, NextSInv, PTL DEF SaveSpec

\* Type correctness of the save path.
THEOREM SavesTyped == SaveSpec => []SaveTypeOK
  BY SInvInvariant, PTL DEF SInv

\* Nothing written is silently lost: it reached the notebook, or it is dirty
\* and its spool file is on the disk, whatever fails and whoever else writes.
THEOREM SavesAreKept == SaveSpec => []SavedOrKept
  BY SInvInvariant, PTL DEF SInv

\* After a successful flush no snapshot from before it is served.
THEOREM ReadsFollowSaves == SaveSpec => []ReadYourSave
<1>1. SInv => ReadYourSave
  BY DEF SInv, SnapshotsNewer, ReadYourSave
<1>2. QED
  BY <1>1, SInvInvariant, PTL

\* With the definition API, an update only follows a preflight that has seen
\* a definition the writer opened or produced, and keeps its other parts.
THEOREM UpdatesAreBased == SaveSpec => UpdatesFollowSeen
<1>1. SInv /\ [SaveNext]_saveVars =>
        [\A r \in network' \ network :
            ~ContentAPI => saw \in known /\ r.def.other = saw.other]_saveVars
  <2> SUFFICES ASSUME SInv, SaveNext, NEW r \in network' \ network, ~ContentAPI
               PROVE  saw \in known /\ r.def.other = saw.other
    OBVIOUS
  <2>1. Update
    BY DEF SaveNext, Open, Write, FlushStart, Prepare, PutContent, Retry, Preflight,
           Reconcile, Confirm, Fail, FlushEnd, Close, Crash, LoadRead, LoadPublish,
           Expire, Edit, Apply, Drop
  <2>2. r = [id |-> sent + 1, def |-> want] /\ saw = base /\ stage = "compare"
    BY <2>1 DEF Update, Send, UnchangedSince
  <2>3. want.other = base.other /\ base \in known
    BY <2>2 DEF SInv, CommitExact
  <2>4. QED
    BY <2>2, <2>3
<1>2. QED
  BY <1>1, SInvInvariant, PTL DEF SaveSpec, UpdatesFollowSeen

-----------------------------------------------------------------------------
(* Leases *)


\* What a client's operation looks like while it is under way.
OpsShaped ==
    \A c \in Clients : pc[c] # "idle" =>
        /\ IsHandle(c) => \E k \in Keys : op[c].keys = {k}
        /\ ~IsHandle(c) => op[c].keys \in Scopes
        /\ pc[c] \in {"open", "closing"} => op[c].kind = "write"

\* The flag is set exactly while a mutation holds it.
FlagExact == mutating <=> \E c \in Clients : Mutator(c)

LInv ==
    /\ TypeOK
    /\ OpsShaped
    /\ CountsExact
    /\ FlagExact
    /\ WriterOwnsKey
    /\ MutationIsolated
    /\ NoLostWakeup

USE DEF Holding, IsHandle, Handle, Writer, Mutator, Kinds

-----------------------------------------------------------------------------
(* The lease table as a function of keys. *)

\* Storing l for k changes the lease of k only; no key is kept for no lease.
LEMMA WithLeaseOf ==
    ASSUME NEW k \in Keys, NEW l, active' = WithLease(k, l)
    PROVE  /\ \A j \in Keys : LeaseOf(j)' = IF j = k THEN l ELSE LeaseOf(j)
           /\ \A j \in Keys \ {k} : j \in DOMAIN active' <=> j \in DOMAIN active
           /\ k \in DOMAIN active' <=> l # NoLease
           /\ DOMAIN active' \subseteq DOMAIN active \cup {k}
<1>1. CASE l = NoLease
  BY <1>1 DEF WithLease, LeaseOf, Restrict
<1>2. CASE l # NoLease
  BY <1>2 DEF WithLease, LeaseOf
<1>3. QED
  BY <1>1, <1>2

\* Sets of clients are finite, so their cardinality is a number that is zero
\* exactly for the empty set and changes by one with one client.
LEMMA ClientSets ==
    ASSUME NEW S \in SUBSET Clients
    PROVE  /\ IsFiniteSet(S)
           /\ Cardinality(S) \in Nat
           /\ Cardinality(S) = 0 <=> S = {}
           /\ \A c \in Clients \ S : Cardinality(S \cup {c}) = Cardinality(S) + 1
           /\ \A c \in S : Cardinality(S \ {c}) = Cardinality(S) - 1
<1>1. IsFiniteSet(S)
  BY LeasesAssumption, FS_Subset
<1>2. QED
  BY <1>1, FS_CardinalityType, FS_EmptySet, FS_AddElement, FS_RemoveElement

\* The conjuncts of CountsExact about one key.
KeyExact(k) ==
    /\ LeaseOf(k).readers = Cardinality(ReadersOf(k))
    /\ LeaseOf(k).writers = Cardinality(WritersOf(k))
    /\ k \in DOMAIN active <=> ReadersOf(k) \cup WritersOf(k) # {}

\* The type of a lease, and that no count is negative.
LEMMA LeaseCounts ==
    ASSUME TypeOK, CountsExact, NEW k \in Keys
    PROVE  /\ LeaseOf(k) = [readers |-> LeaseOf(k).readers,
                            writers |-> LeaseOf(k).writers]
           /\ LeaseOf(k).readers \in Nat /\ LeaseOf(k).writers \in Nat
           /\ handles \in Nat /\ writers \in Nat
<1>1. /\ LeaseOf(k).readers \in Nat /\ LeaseOf(k).writers \in Nat
      /\ handles \in Nat /\ writers \in Nat
  <2>1. \A S \in SUBSET Clients : Cardinality(S) \in Nat
    BY ClientSets
  <2>2. QED
    BY <2>1 DEF CountsExact, HandleSet, WriterSet, ReadersOf, WritersOf
<1>2. LeaseOf(k) \in [readers : Nat, writers : Nat]
  BY DEF TypeOK, LeaseOf, NoLease
<1>3. QED
  BY <1>1, <1>2

-----------------------------------------------------------------------------
(* The counts. *)

\* Steps that change neither a count nor who holds what.
LEMMA SameHoldersCounts ==
    ASSUME CountsExact, UNCHANGED <<active, handles, writers>>,
           \A c \in Clients : Holding(c)' = Holding(c),
           \A c \in Clients : Holding(c) => op'[c] = op[c]
    PROVE  CountsExact'
<1>1. \A c \in Clients : /\ Handle(c)' = Handle(c)
                         /\ Writer(c)' = Writer(c)
                         /\ Handle(c) => op'[c] = op[c]
  OBVIOUS
<1>2. /\ HandleSet' = HandleSet
      /\ WriterSet' = WriterSet
  BY <1>1 DEF HandleSet, WriterSet
<1>3. \A k \in Keys : ReadersOf(k)' = ReadersOf(k) /\ WritersOf(k)' = WritersOf(k)
  BY <1>1 DEF ReadersOf, WritersOf
<1>4. QED
  BY <1>2, <1>3 DEF CountsExact, LeaseOf

\* A granted handle is counted once, in every count it belongs to.
LEMMA GrantCounts ==
    ASSUME LInv, NEW c \in Clients, IsHandle(c), ~Holding(c), pc[c] # "idle",
           BeginAllowed(op[c]), Count(op[c], 1), UNCHANGED op,
           Holding(c)', \A d \in Clients \ {c} : Holding(d)' = Holding(d)
    PROVE  CountsExact'
<1> USE DEF LInv
<1>1. PICK k \in Keys : op[c].keys = {k}
  BY DEF OpsShaped
<1> DEFINE l == Bumped(LeaseOf(k), op[c].kind, 1)
<1>2. active' = WithLease(k, l)
  BY <1>1 DEF Count
<1>3. op[c].kind \in {"read", "write"}
  BY DEF TypeOK, Op
<1>4. /\ HandleSet' = HandleSet \cup {c}
      /\ WriterSet' = IF op[c].kind = "write"
                                        THEN WriterSet \cup {c}
                                        ELSE WriterSet
  BY DEF HandleSet, WriterSet
<1>5. handles' = Cardinality(HandleSet') /\ handles' <= MaxOpenHandles
  <2>1. handles' = handles + 1 /\ handles < MaxOpenHandles /\ handles \in Int
    BY DEF Count, BeginAllowed, TypeOK
  <2>2. c \in Clients \ HandleSet /\ HandleSet \in SUBSET Clients
    BY DEF HandleSet
  <2>3. Cardinality(HandleSet \cup {c}) = handles + 1
    BY <2>2, ClientSets DEF CountsExact
  <2>4. QED
    BY <1>4, <2>1, <2>3, LeasesAssumption
<1>6. writers' = Cardinality(WriterSet') /\ writers' <= MaxWriters
  <2>1. CASE op[c].kind = "write"
    <3>1. writers' = writers + 1 /\ writers < MaxWriters /\ writers \in Int
      BY <2>1 DEF Count, BeginAllowed, TypeOK
    <3>2. c \in Clients \ WriterSet /\ WriterSet \in SUBSET Clients
      BY DEF WriterSet
    <3>3. Cardinality(WriterSet \cup {c}) = writers + 1
      BY <3>2, ClientSets DEF CountsExact
    <3>4. QED
      BY <1>4, <2>1, <3>1, <3>3, LeasesAssumption
  <2>2. CASE op[c].kind # "write"
    BY <1>4, <2>2 DEF Count, CountsExact
  <2>3. QED
    BY <2>1, <2>2
<1>7. \A j \in Keys : KeyExact(j)'
  <2>1. /\ LeaseOf(k).readers \in Nat /\ LeaseOf(k).writers \in Nat
    BY LeaseCounts
  <2>2. /\ \A j \in Keys : LeaseOf(j)' = IF j = k THEN l ELSE LeaseOf(j)
        /\ \A j \in Keys \ {k} : j \in DOMAIN active' <=> j \in DOMAIN active
        /\ k \in DOMAIN active' <=> l # NoLease
    BY <1>2, WithLeaseOf
  <2>3. \A j \in Keys \ {k} : KeyExact(j)'
    <3>1. \A j \in Keys \ {k} : /\ ReadersOf(j)' = ReadersOf(j)
                                /\ WritersOf(j)' = WritersOf(j)
      BY <1>1 DEF ReadersOf, WritersOf
    <3>2. QED
      BY <2>2, <3>1 DEF KeyExact, CountsExact
  <2>4. KeyExact(k)'
    <3>1. /\ ReadersOf(k)' = IF op[c].kind = "write" THEN ReadersOf(k)
                                                     ELSE ReadersOf(k) \cup {c}
          /\ WritersOf(k)' = IF op[c].kind = "write" THEN WritersOf(k) \cup {c}
                                                     ELSE WritersOf(k)
      BY <1>1, <1>3 DEF ReadersOf, WritersOf
    <3>2. /\ Cardinality(ReadersOf(k) \cup {c}) = LeaseOf(k).readers + 1
          /\ Cardinality(WritersOf(k) \cup {c}) = LeaseOf(k).writers + 1
      <4>1. /\ ReadersOf(k) \in SUBSET Clients /\ c \in Clients \ ReadersOf(k)
            /\ WritersOf(k) \in SUBSET Clients /\ c \in Clients \ WritersOf(k)
        BY DEF ReadersOf, WritersOf
      <4>2. QED
        BY <4>1, ClientSets DEF CountsExact
    <3>3. l # NoLease
      BY <1>3, <2>1 DEF Bumped, NoLease
    <3>4. QED
      BY <1>3, <2>2, <3>1, <3>2, <3>3 DEF KeyExact, Bumped, CountsExact
  <2>5. QED
    BY <2>3, <2>4
<1>8. QED
  BY <1>5, <1>6, <1>7 DEF CountsExact, KeyExact

\* A released handle leaves every count it was in.
LEMMA DropCounts ==
    ASSUME LInv, NEW c \in Clients, IsHandle(c), Holding(c),
           Count(op[c], -1), UNCHANGED op,
           ~Holding(c)', \A d \in Clients \ {c} : Holding(d)' = Holding(d)
    PROVE  CountsExact'
<1> USE DEF LInv
<1>1. PICK k \in Keys : op[c].keys = {k}
  BY DEF OpsShaped
<1> DEFINE l == Bumped(LeaseOf(k), op[c].kind, -1)
<1>2. active' = WithLease(k, l)
  BY <1>1 DEF Count
<1>3. op[c].kind \in {"read", "write"}
  BY DEF TypeOK, Op
<1>4. /\ HandleSet' = HandleSet \ {c}
      /\ WriterSet' = WriterSet \ {c}
  BY DEF HandleSet, WriterSet
<1>5. handles' = Cardinality(HandleSet') /\ handles' <= MaxOpenHandles
  <2>1. handles' = handles - 1 /\ handles \in Int /\ handles <= MaxOpenHandles
    BY DEF Count, TypeOK, CountsExact
  <2>2. Cardinality(HandleSet \ {c}) = handles - 1
    BY ClientSets DEF CountsExact, HandleSet
  <2>3. QED
    BY <1>4, <2>1, <2>2, LeasesAssumption
<1>6. writers' = Cardinality(WriterSet') /\ writers' <= MaxWriters
  <2>1. CASE op[c].kind = "write"
    <3>1. writers' = writers - 1 /\ writers \in Int /\ writers <= MaxWriters
      BY <2>1 DEF Count, TypeOK, CountsExact
    <3>2. Cardinality(WriterSet \ {c}) = writers - 1
      BY <2>1, ClientSets DEF CountsExact, WriterSet
    <3>3. QED
      BY <1>4, <3>1, <3>2, LeasesAssumption
  <2>2. CASE op[c].kind # "write"
    <3>1. WriterSet \ {c} = WriterSet
      BY <2>2 DEF WriterSet
    <3>2. QED
      BY <1>4, <2>2, <3>1 DEF Count, CountsExact
  <2>3. QED
    BY <2>1, <2>2
<1>7. \A j \in Keys : KeyExact(j)'
  <2>1. /\ LeaseOf(k).readers \in Nat /\ LeaseOf(k).writers \in Nat
    BY LeaseCounts
  <2>2. /\ \A j \in Keys : LeaseOf(j)' = IF j = k THEN l ELSE LeaseOf(j)
        /\ \A j \in Keys \ {k} : j \in DOMAIN active' <=> j \in DOMAIN active
        /\ k \in DOMAIN active' <=> l # NoLease
    BY <1>2, WithLeaseOf
  <2>3. \A j \in Keys \ {k} : KeyExact(j)'
    <3>1. \A j \in Keys \ {k} : /\ ReadersOf(j)' = ReadersOf(j)
                                /\ WritersOf(j)' = WritersOf(j)
      BY <1>1 DEF ReadersOf, WritersOf
    <3>2. QED
      BY <2>2, <3>1 DEF KeyExact, CountsExact
  <2>4. KeyExact(k)'
    <3>1. /\ ReadersOf(k)' = ReadersOf(k) \ {c}
          /\ WritersOf(k)' = WritersOf(k) \ {c}
          /\ IF op[c].kind = "write"
             THEN c \in WritersOf(k) /\ ReadersOf(k) \ {c} = ReadersOf(k)
             ELSE c \in ReadersOf(k) /\ WritersOf(k) \ {c} = WritersOf(k)
      BY <1>1, <1>3 DEF ReadersOf, WritersOf
    <3>2. /\ ReadersOf(k) \in SUBSET Clients /\ WritersOf(k) \in SUBSET Clients
          /\ ReadersOf(k)' \in SUBSET Clients /\ WritersOf(k)' \in SUBSET Clients
      BY DEF ReadersOf, WritersOf
    <3>3. /\ l.readers = Cardinality(ReadersOf(k)')
          /\ l.writers = Cardinality(WritersOf(k)')
      <4>1. /\ LeaseOf(k).readers = Cardinality(ReadersOf(k))
            /\ LeaseOf(k).writers = Cardinality(WritersOf(k))
        BY DEF CountsExact
      <4>2. CASE op[c].kind = "write"
        <5>1. Cardinality(WritersOf(k) \ {c}) = Cardinality(WritersOf(k)) - 1
          BY <3>1, <3>2, <4>2, ClientSets
        <5>2. QED
          BY <2>1, <3>1, <4>1, <4>2, <5>1 DEF Bumped
      <4>3. CASE op[c].kind # "write"
        <5>1. Cardinality(ReadersOf(k) \ {c}) = Cardinality(ReadersOf(k)) - 1
          BY <3>1, <3>2, <4>3, ClientSets
        <5>2. QED
          BY <2>1, <3>1, <4>1, <4>3, <5>1 DEF Bumped
      <4>4. QED
        BY <4>2, <4>3
    <3>4. l # NoLease <=> ReadersOf(k)' \cup WritersOf(k)' # {}
      <4>1. l = NoLease <=> l.readers = 0 /\ l.writers = 0
        BY <1>3 DEF Bumped, NoLease
      <4>2. QED
        BY <3>2, <3>3, <4>1, ClientSets
    <3>5. QED
      BY <2>2, <3>3, <3>4 DEF KeyExact
  <2>5. QED
    BY <2>3, <2>4
<1>8. QED
  BY <1>5, <1>6, <1>7 DEF CountsExact, KeyExact
-----------------------------------------------------------------------------
(* Preservation of the invariant. *)

\* The operation of an idle client has the shape of an operation.
LEMMA NoOpTyped == NoOp \in Op
<1>1. (CHOOSE f \in Files : TRUE) \in Files
  BY LeasesAssumption
<1>2. QED
  BY <1>1 DEF NoOp, Op

\* A new table satisfies the invariant.
LEMMA InitLInv == Init => LInv
<1> SUFFICES ASSUME Init PROVE LInv
  OBVIOUS
<1>1. TypeOK
  <2>1. DOMAIN active = {} /\ DOMAIN spools = {} /\ handles \in Nat /\ writers \in Nat
    BY DEF Init
  <2>2. mutating \in BOOLEAN /\ keyOf \in [Files -> Keys]
    BY DEF Init
  <2>3. pc \in [Clients -> PCs] /\ op \in [Clients -> Op]
    BY NoOpTyped DEF Init, PCs
  <2>4. QED
    BY <2>1, <2>2, <2>3 DEF TypeOK
<1>2. CountsExact
  <2>1. HandleSet = {} /\ WriterSet = {} /\ handles = 0 /\ writers = 0
    BY DEF Init, HandleSet, WriterSet
  <2>2. \A k \in Keys : /\ ReadersOf(k) = {} /\ WritersOf(k) = {}
                        /\ k \notin DOMAIN active /\ LeaseOf(k) = NoLease
    BY DEF Init, ReadersOf, WritersOf, LeaseOf
  <2>3. 0 <= MaxOpenHandles /\ 0 <= MaxWriters
    BY LeasesAssumption
  <2>4. Cardinality({}) = 0
    BY FS_EmptySet
  <2>5. QED
    BY <2>1, <2>2, <2>3, <2>4 DEF CountsExact, NoLease
<1>3. QED
  BY <1>1, <1>2
     DEF Init, LInv, OpsShaped, FlagExact, WriterOwnsKey, MutationIsolated,
         NoLostWakeup

\* A client that holds nothing starts, retries or ends an operation.
LEMMA QuietLInv ==
    ASSUME LInv, NEW c \in Clients, NEW label \in {"try", "idle"}, NEW o \in Op,
           ~Holding(c),
           label = "try" => IF o.kind = "mutation"
                            THEN o.keys \in Scopes
                            ELSE \E k \in Keys : o.keys = {k},
           pc' = [pc EXCEPT ![c] = label], op' = [op EXCEPT ![c] = o],
           UNCHANGED <<active, handles, writers, mutating, spools, keyOf>>
    PROVE  LInv'
<1> USE DEF LInv
<1>1. TypeOK'
  BY DEF TypeOK, PCs
<1>2. OpsShaped'
  BY DEF TypeOK, OpsShaped
<1>3. \A d \in Clients : /\ Holding(d)' = Holding(d)
                         /\ Holding(d) => op'[d] = op[d] /\ pc'[d] = pc[d]
  BY DEF TypeOK
<1>4. CountsExact'
  BY <1>3, SameHoldersCounts
<1>5. FlagExact' /\ MutationIsolated'
  BY <1>3 DEF FlagExact, MutationIsolated, Subtree
<1>6. WriterOwnsKey'
  <2>1. \A d \in Clients : pc[d] = "open" <=> pc'[d] = "open"
    BY DEF TypeOK
  <2>2. QED
    BY <1>3, <2>1 DEF WriterOwnsKey, TypeOK
<1>7. NoLostWakeup'
  BY DEF TypeOK, NoLostWakeup, Allowed, BeginAllowed, MutationAllowed, LeaseOf
<1>8. QED
  BY <1>1, <1>2, <1>4, <1>5, <1>6, <1>7

\* A granted write lease has no other writer on its key, and any handle's
\* key is in the table.
LEMMA HandlesListed ==
    ASSUME LInv
    PROVE  /\ \A c \in Clients, k \in Keys :
                 Handle(c) /\ k \in op[c].keys => k \in DOMAIN active
           /\ \A c \in Clients, k \in Keys :
                 Writer(c) /\ k \in op[c].keys => LeaseOf(k).writers # 0
<1>1. \A c \in Clients, k \in Keys :
          Handle(c) /\ k \in op[c].keys => k \in DOMAIN active
  BY DEF LInv, CountsExact, ReadersOf, WritersOf
<1>2. ASSUME NEW c \in Clients, NEW k \in Keys, Writer(c), k \in op[c].keys
      PROVE  LeaseOf(k).writers # 0
  <2>1. WritersOf(k) \in SUBSET Clients /\ WritersOf(k) # {}
    BY <1>2 DEF WritersOf
  <2>2. QED
    BY <2>1, ClientSets DEF LInv, CountsExact
<1>3. QED
  BY <1>1, <1>2

\* A try that hands out a read or write lease.
LEMMA GrantHandleLInv ==
    ASSUME LInv, NEW c \in Clients, Try(c), Allowed(op[c]), IsHandle(c)
    PROVE  LInv'
<1> USE DEF LInv
<1>1. /\ pc[c] = "try" /\ pc' = [pc EXCEPT ![c] = "held"]
      /\ BeginAllowed(op[c]) /\ Count(op[c], 1)
      /\ UNCHANGED <<spools, keyOf, op, mutating>>
  BY DEF Try, Allowed, Count
<1>2. PICK k \in Keys : op[c].keys = {k}
  BY <1>1 DEF OpsShaped
<1> DEFINE l == Bumped(LeaseOf(k), op[c].kind, 1)
<1>3. /\ active' = WithLease(k, l)
      /\ handles' = handles + 1
      /\ writers' = IF op[c].kind = "write" THEN writers + 1 ELSE writers
  BY <1>1, <1>2 DEF Count
<1>4. /\ \A j \in Keys : LeaseOf(j)' = IF j = k THEN l ELSE LeaseOf(j)
      /\ \A j \in Keys \ {k} : j \in DOMAIN active' <=> j \in DOMAIN active
      /\ k \in DOMAIN active' <=> l # NoLease
      /\ DOMAIN active' \subseteq DOMAIN active \cup {k}
  BY <1>3, WithLeaseOf
<1>5. /\ LeaseOf(k).readers \in Nat /\ LeaseOf(k).writers \in Nat
      /\ handles \in Nat /\ writers \in Nat
  BY LeaseCounts
<1>6. op[c].kind \in {"read", "write"} /\ ~mutating
  BY <1>1 DEF TypeOK, Op, BeginAllowed
<1>7. l \in [readers : Nat, writers : Nat] /\ l # NoLease
  BY <1>5, <1>6 DEF Bumped, NoLease
<1>8. TypeOK'
  <2>1. \A j \in DOMAIN active' : active'[j] \in [readers : Nat, writers : Nat]
    BY <1>3, <1>7 DEF WithLease, TypeOK
  <2>2. handles' \in Nat /\ writers' \in Nat
    BY <1>3, <1>5
  <2>3. DOMAIN active' \subseteq Keys
    BY <1>4 DEF TypeOK
  <2>4. QED
    BY <1>1, <2>1, <2>2, <2>3 DEF TypeOK, PCs
<1>9. OpsShaped'
  BY <1>1 DEF TypeOK, OpsShaped
<1>10. Holding(c)' /\ ~Holding(c)
       /\ \A d \in Clients \ {c} : Holding(d)' = Holding(d) /\ pc'[d] = pc[d]
  BY <1>1 DEF TypeOK
<1>11. CountsExact'
  BY <1>1, <1>10, GrantCounts
<1>12. FlagExact' /\ MutationIsolated'
  BY <1>1, <1>6, <1>10 DEF FlagExact, MutationIsolated
<1>13. WriterOwnsKey'
  <2>1. \A d \in Clients : Writer(d) /\ op[c].kind = "write" => k \notin op[d].keys
    BY <1>1, <1>2, HandlesListed DEF BeginAllowed
  <2>2. QED
    BY <1>1, <1>2, <1>10, <2>1 DEF WriterOwnsKey, TypeOK
<1>14. NoLostWakeup'
  <2> SUFFICES ASSUME NEW d \in Clients, pc'[d] = "parked", Allowed(op[d])'
               PROVE  FALSE
    BY <1>1 DEF NoLostWakeup
  <2>1. pc[d] = "parked" /\ ~Allowed(op[d]) /\ op[d].keys \subseteq Keys
    BY <1>1 DEF NoLostWakeup, TypeOK, Op
  <2>2. DOMAIN active \subseteq DOMAIN active'
    BY <1>4, <1>7 DEF TypeOK
  <2>3. \A j \in Keys : LeaseOf(j)'.writers = 0 => LeaseOf(j).writers = 0
    BY <1>4, <1>5, <1>6 DEF Bumped
  <2>4. /\ handles' < MaxOpenHandles => handles < MaxOpenHandles
        /\ writers' < MaxWriters => writers < MaxWriters
    BY <1>3, <1>5, LeasesAssumption
  <2>5. Allowed(op[d])
    BY <1>1, <1>6, <2>1, <2>2, <2>3, <2>4
       DEF Allowed, BeginAllowed, MutationAllowed, Subtree
  <2>6. QED
    BY <2>1, <2>5
<1>15. QED
  BY <1>8, <1>9, <1>11, <1>12, <1>13, <1>14

\* A try that starts a mutation: the subtree is free, and stays free because
\* the flag now blocks every other try.
LEMMA GrantMutationLInv ==
    ASSUME LInv, NEW c \in Clients, Try(c), Allowed(op[c]), ~IsHandle(c)
    PROVE  LInv'
<1> USE DEF LInv
<1>1. /\ pc[c] = "try" /\ pc' = [pc EXCEPT ![c] = "held"]
      /\ MutationAllowed(op[c]) /\ mutating'
      /\ UNCHANGED <<active, handles, writers, spools, keyOf, op>>
  BY DEF Try, Allowed
<1>2. TypeOK' /\ OpsShaped'
  <2>1. mutating' \in BOOLEAN
    BY DEF Try
  <2>2. QED
    BY <1>1, <2>1 DEF TypeOK, PCs, OpsShaped
<1>3. /\ Mutator(c)' /\ ~Holding(c)
      /\ \A d \in Clients \ {c} : Holding(d)' = Holding(d) /\ pc'[d] = pc[d]
  BY <1>1 DEF TypeOK
<1>4. \A d \in Clients : /\ Handle(d)' = Handle(d) /\ Writer(d)' = Writer(d)
                         /\ ~Mutator(d)
  BY <1>1, <1>3 DEF FlagExact, MutationAllowed
<1>5. CountsExact'
  <2>1. HandleSet' = HandleSet /\ WriterSet' = WriterSet
    BY <1>4 DEF HandleSet, WriterSet
  <2>2. \A k \in Keys : ReadersOf(k)' = ReadersOf(k) /\ WritersOf(k)' = WritersOf(k)
    BY <1>1, <1>4 DEF ReadersOf, WritersOf
  <2>3. QED
    BY <1>1, <2>1, <2>2 DEF CountsExact, LeaseOf
<1>6. FlagExact'
  BY <1>1, <1>3 DEF FlagExact
<1>7. WriterOwnsKey'
  BY <1>1, <1>3, <1>4 DEF WriterOwnsKey, TypeOK
<1>8. MutationIsolated'
  <2>1. \A d \in Clients : Handle(d) => op[d].keys \cap Subtree(op[c].keys) = {}
    BY <1>1, HandlesListed DEF MutationAllowed, TypeOK, Op
  <2>2. QED
    BY <1>1, <1>3, <1>4, <2>1 DEF MutationIsolated, Subtree
<1>9. NoLostWakeup'
  BY <1>1 DEF NoLostWakeup, Allowed, BeginAllowed, MutationAllowed
<1>10. QED
  BY <1>2, <1>5, <1>6, <1>7, <1>8, <1>9

\* A try that fails parks the client on the channel of this very moment.
LEMMA ParkLInv ==
    ASSUME LInv, NEW c \in Clients, Try(c), ~Allowed(op[c])
    PROVE  LInv'
<1> USE DEF LInv
<1>1. /\ pc[c] = "try" /\ pc' = [pc EXCEPT ![c] = "parked"]
      /\ UNCHANGED <<active, handles, writers, mutating, spools, keyOf, op>>
  BY DEF Try
<1>2. TypeOK' /\ OpsShaped'
  BY <1>1 DEF TypeOK, PCs, OpsShaped
<1>3. \A d \in Clients : /\ Holding(d)' = Holding(d)
                         /\ Holding(d) => pc'[d] = pc[d]
                         /\ pc'[d] = "open" <=> pc[d] = "open"
  BY <1>1 DEF TypeOK
<1>4. CountsExact'
  BY <1>1, <1>3, SameHoldersCounts
<1>5. FlagExact' /\ MutationIsolated' /\ WriterOwnsKey'
  BY <1>1, <1>3 DEF FlagExact, MutationIsolated, Subtree, WriterOwnsKey, TypeOK
<1>6. NoLostWakeup'
  BY <1>1
     DEF TypeOK, NoLostWakeup, Allowed, BeginAllowed, MutationAllowed, LeaseOf
<1>7. QED
  BY <1>2, <1>4, <1>5, <1>6
\* registerSpool and the first half of closeSpool: the only writer of the key
\* adds or removes the only spool of the key.
LEMMA SpoolLInv ==
    ASSUME LInv, NEW c \in Clients, RegisterSpool(c) \/ CloseSpool(c)
    PROVE  LInv'
<1> USE DEF LInv
<1>1. /\ pc[c] \in {"held", "open"} /\ Writer(c)
      /\ pc' \in {[pc EXCEPT ![c] = "open"], [pc EXCEPT ![c] = "closing"]}
      /\ UNCHANGED <<active, handles, writers, mutating, keyOf, op>>
  BY DEF RegisterSpool, CloseSpool
<1>2. PICK k \in Keys : op[c].keys = {k}
  BY <1>1 DEF OpsShaped
<1>3. \A d \in Clients : Holding(d)' = Holding(d) /\ (d # c => pc'[d] = pc[d])
  BY <1>1 DEF TypeOK
<1>4. OpsShaped' /\ CountsExact'
  BY <1>1, <1>3, SameHoldersCounts DEF OpsShaped
<1>5. FlagExact' /\ MutationIsolated'
  BY <1>1, <1>3 DEF FlagExact, MutationIsolated, Subtree
<1>6. NoLostWakeup'
  BY <1>1, <1>3
     DEF TypeOK, NoLostWakeup, Allowed, BeginAllowed, MutationAllowed, LeaseOf
<1>7. \A d \in Clients : Writer(d) /\ k \in op[d].keys => d = c
  BY <1>1, <1>2 DEF WriterOwnsKey
<1>8. CASE RegisterSpool(c)
  <2>1. /\ pc' = [pc EXCEPT ![c] = "open"]
        /\ spools' = [j \in DOMAIN spools \cup {k} |->
                         IF j = k THEN c ELSE spools[j]]
    BY <1>2, <1>8 DEF RegisterSpool
  <2>2. TypeOK'
    BY <1>1, <2>1 DEF TypeOK, PCs
  <2>3. WriterOwnsKey'
    <3>1. pc[c] = "held" /\ \A j \in DOMAIN spools : spools[j] # c
      BY <1>8 DEF RegisterSpool, WriterOwnsKey
    <3>2. \A d \in Clients \ {c} : pc[d] = "open" => k \notin op[d].keys
      BY <1>7 DEF OpsShaped
    <3>3. \A d, e \in Clients : Writer(d)' /\ Writer(e)'
              /\ op'[d].keys \cap op'[e].keys # {} => d = e
      BY <1>1, <1>3 DEF WriterOwnsKey
    <3>4. \A j \in DOMAIN spools' :
              pc'[spools'[j]] = "open" /\ j \in op'[spools'[j]].keys
      BY <1>1, <1>2, <1>3, <2>1, <3>1 DEF WriterOwnsKey, TypeOK
    <3>5. \A d \in Clients : pc'[d] = "open" =>
              \A j \in op'[d].keys : j \in DOMAIN spools' /\ spools'[j] = d
      BY <1>1, <1>2, <1>3, <2>1, <3>2 DEF WriterOwnsKey, TypeOK
    <3>6. QED
      BY <3>3, <3>4, <3>5 DEF WriterOwnsKey
  <2>4. QED
    BY <1>4, <1>5, <1>6, <2>2, <2>3
<1>9. CASE CloseSpool(c)
  <2>1. /\ pc' = [pc EXCEPT ![c] = "closing"]
        /\ DOMAIN spools' = DOMAIN spools \ {k}
        /\ \A j \in DOMAIN spools' : spools'[j] = spools[j]
    BY <1>2, <1>9 DEF CloseSpool, Restrict
  <2>2. TypeOK'
    BY <1>1, <2>1 DEF TypeOK, PCs
  <2>3. WriterOwnsKey'
    <3>1. \A j \in DOMAIN spools \ {k} : spools[j] # c
      BY <1>2 DEF WriterOwnsKey
    <3>2. \A d \in Clients \ {c} : pc[d] = "open" => k \notin op[d].keys
      BY <1>7 DEF OpsShaped
    <3>3. QED
      BY <1>1, <1>2, <1>3, <2>1, <3>1, <3>2 DEF WriterOwnsKey, TypeOK
  <2>4. QED
    BY <1>4, <1>5, <1>6, <2>2, <2>3
<1>10. QED
  BY <1>8, <1>9

\* A release gives back the lease and signals every parked client.
LEMMA ReleaseLInv ==
    ASSUME LInv, NEW c \in Clients, Release(c)
    PROVE  LInv'
<1> USE DEF LInv
<1>1. /\ pc[c] \in {"held", "closing"} /\ GiveBack(op[c])
      /\ pc' = Notified([pc EXCEPT ![c] = "released"])
      /\ UNCHANGED <<spools, keyOf, op>>
  BY DEF Release
<1>2. /\ pc' \in [Clients -> PCs] /\ pc'[c] = "released"
      /\ \A d \in Clients : pc'[d] # "parked"
      /\ \A d \in Clients \ {c} : /\ Holding(d)' = Holding(d)
                                  /\ pc[d] # "parked" => pc'[d] = pc[d]
                                  /\ pc[d] = "parked" => pc'[d] = "signaled"
  BY <1>1 DEF Notified, TypeOK, PCs
<1>3. NoLostWakeup'
  BY <1>2 DEF NoLostWakeup
<1>4. OpsShaped'
  BY <1>1, <1>2 DEF OpsShaped
<1>5. WriterOwnsKey'
  <2>1. pc[c] # "open" /\ \A d \in Clients : pc'[d] = "open" <=> pc[d] = "open"
    BY <1>1, <1>2
  <2>2. \A d \in Clients : Writer(d)' => Writer(d)
    BY <1>1, <1>2
  <2>3. QED
    BY <1>1, <2>1, <2>2 DEF WriterOwnsKey, TypeOK
<1>6. CASE ~IsHandle(c)
  <2>1. ~mutating' /\ mutating' \in BOOLEAN /\ UNCHANGED <<active, handles, writers>>
    BY <1>1, <1>6 DEF GiveBack
  <2>2. TypeOK'
    BY <1>1, <1>2, <2>1 DEF TypeOK
  <2>3. CountsExact'
    <3>1. \A d \in Clients : Handle(d)' = Handle(d) /\ Writer(d)' = Writer(d)
      BY <1>1, <1>2, <1>6
    <3>2. HandleSet' = HandleSet /\ WriterSet' = WriterSet
      BY <3>1 DEF HandleSet, WriterSet
    <3>3. \A k \in Keys : ReadersOf(k)' = ReadersOf(k) /\ WritersOf(k)' = WritersOf(k)
      BY <1>1, <3>1 DEF ReadersOf, WritersOf
    <3>4. QED
      BY <2>1, <3>2, <3>3 DEF CountsExact, LeaseOf
  <2>4. \A d \in Clients : ~Mutator(d)'
    BY <1>1, <1>2, <1>6 DEF MutationIsolated
  <2>5. FlagExact' /\ MutationIsolated'
    BY <2>1, <2>4 DEF FlagExact, MutationIsolated
  <2>6. QED
    BY <1>3, <1>4, <1>5, <2>2, <2>3, <2>5
<1>7. CASE IsHandle(c)
  <2>1. Count(op[c], -1) /\ UNCHANGED mutating
    BY <1>1, <1>7 DEF GiveBack, Count
  <2>2. PICK k \in Keys : op[c].keys = {k}
    BY <1>1, <1>7 DEF OpsShaped
  <2> DEFINE l == Bumped(LeaseOf(k), op[c].kind, -1)
  <2>3. active' = WithLease(k, l)
    BY <2>1, <2>2 DEF Count
  <2>4. CountsExact'
    BY <1>1, <1>2, <1>7, <2>1, DropCounts
  <2>5. TypeOK'
    <3>0. \A S \in SUBSET Clients : Cardinality(S) \in Nat
      BY ClientSets
    <3>1. l \in [readers : Nat, writers : Nat]
      <4>1. l = [readers |-> l.readers, writers |-> l.writers] /\ LeaseOf(k)' = l
        BY <2>3, WithLeaseOf DEF Bumped
      <4>2. LeaseOf(k)'.readers \in Nat /\ LeaseOf(k)'.writers \in Nat
        BY <2>4, <3>0 DEF CountsExact, ReadersOf, WritersOf
      <4>3. QED
        BY <4>1, <4>2
    <3>2. \A j \in DOMAIN active' : active'[j] \in [readers : Nat, writers : Nat]
      BY <2>3, <3>1 DEF WithLease, Restrict, TypeOK
    <3>3. DOMAIN active' \subseteq Keys
      BY <2>3, WithLeaseOf DEF TypeOK
    <3>4. handles' \in Nat /\ writers' \in Nat
      BY <2>4, <3>0 DEF CountsExact, HandleSet, WriterSet
    <3>5. QED
      BY <1>1, <1>2, <2>1, <3>2, <3>3, <3>4 DEF TypeOK
  <2>6. \A d \in Clients : Mutator(d)' = Mutator(d) /\ (Handle(d)' => Handle(d))
    BY <1>1, <1>2, <1>7
  <2>7. FlagExact' /\ MutationIsolated'
    BY <1>1, <2>1, <2>6 DEF FlagExact, MutationIsolated, Subtree
  <2>8. QED
    BY <1>3, <1>4, <1>5, <2>4, <2>5, <2>7
<1>8. QED
  BY <1>6, <1>7

\* A remote rename changes what later opens ask for and nothing else.
LEMMA RemoteRenameLInv ==
    ASSUME LInv, NEW f \in Files, RemoteRename(f)
    PROVE  LInv'
<1> USE DEF LInv
<1>1. keyOf' \in [Files -> Keys]
  <2>1. PICK k \in KeysOf[f] : keyOf' = [keyOf EXCEPT ![f] = k]
    BY DEF RemoteRename
  <2>2. k \in Keys
    BY LeasesAssumption
  <2>3. QED
    BY <2>1, <2>2 DEF TypeOK
<1>2. CountsExact'
  BY SameHoldersCounts DEF RemoteRename
<1>3. QED
  BY <1>1, <1>2
     DEF RemoteRename, TypeOK, OpsShaped, FlagExact, WriterOwnsKey,
         MutationIsolated, Subtree, NoLostWakeup, Allowed, BeginAllowed,
         MutationAllowed, LeaseOf

\* The invariant is inductive.
LEMMA NextLInv == LInv /\ [Next]_vars => LInv'
<1> SUFFICES ASSUME LInv, [Next]_vars PROVE LInv'
  OBVIOUS
<1>0. \A c \in Clients : op[c] \in Op /\ op = [op EXCEPT ![c] = op[c]]
  BY DEF LInv, TypeOK
<1>1. ASSUME NEW c \in Clients, NEW f \in Files, NEW kind \in {"read", "write"},
             CallBegin(c, f, kind)
      PROVE  LInv'
  <2>1. keyOf[f] \in Keys
    BY DEF LInv, TypeOK
  <2>2. [kind |-> kind, file |-> f, keys |-> {keyOf[f]}] \in Op
    BY <2>1 DEF Op
  <2>3. QED
    BY <1>1, <2>1, <2>2, QuietLInv DEF CallBegin
<1>2. ASSUME NEW c \in Clients, NEW K \in Scopes, CallMutation(c, K) PROVE LInv'
  <2>1. [kind |-> "mutation", file |-> NoOp.file, keys |-> K] \in Op
    BY NoOpTyped, LeasesAssumption DEF Op
  <2>2. QED
    BY <1>2, <2>1, QuietLInv DEF CallMutation
<1>3. ASSUME NEW c \in Clients, Step(c) PROVE LInv'
  <2>1. CASE Try(c)
    BY <2>1, GrantHandleLInv, GrantMutationLInv, ParkLInv
  <2>2. CASE Wake(c)
    <3>1. IF op[c].kind = "mutation" THEN op[c].keys \in Scopes
                                     ELSE \E k \in Keys : op[c].keys = {k}
      BY <2>2 DEF Wake, LInv, OpsShaped
    <3>2. QED
      BY <1>0, <2>2, <3>1, QuietLInv DEF Wake
  <2>3. QED
    BY <1>3, <2>1, <2>2 DEF Step
<1>4. ASSUME NEW c \in Clients, GiveUp(c) \/ Forget(c) PROVE LInv'
  BY <1>4, NoOpTyped, QuietLInv DEF GiveUp, Forget, Waiting
<1>5. ASSUME NEW c \in Clients, RegisterSpool(c) \/ CloseSpool(c) PROVE LInv'
  BY <1>5, SpoolLInv
<1>6. ASSUME NEW c \in Clients, Release(c) PROVE LInv'
  BY <1>6, ReleaseLInv
<1>7. ASSUME NEW f \in Files, RemoteRename(f) PROVE LInv'
  BY <1>7, RemoteRenameLInv
<1>8. CASE UNCHANGED vars
  <2>1. CountsExact'
    BY <1>8, SameHoldersCounts DEF vars, LInv
  <2>2. QED
    BY <1>8, <2>1
       DEF vars, LInv, TypeOK, OpsShaped, FlagExact, WriterOwnsKey,
           MutationIsolated, Subtree, NoLostWakeup, Allowed, BeginAllowed,
           MutationAllowed, LeaseOf
<1>9. ASSUME NEW c \in Clients, ReleaseAgain(c) PROVE LInv'
  BY <1>8, <1>9 DEF ReleaseAgain
<1>10. QED
  BY <1>1, <1>2, <1>3, <1>4, <1>5, <1>6, <1>7, <1>8, <1>9 DEF Next
\* The inductive invariant holds in every reachable state.
THEOREM LInvInvariant == Spec => []LInv
  BY InitLInv, NextLInv, PTL DEF Spec

(* The lease table keeps its types. *)
THEOREM TypeCorrect == Spec => []TypeOK
<1>1. LInv => TypeOK
  BY DEF LInv
<1>2. QED
  BY <1>1, LInvInvariant, PTL

(* FS.active, FS.handles and FS.writers never drift from the live leases.  *)
THEOREM CountsAreExact == Spec => []CountsExact
<1>1. LInv => CountsExact
  BY DEF LInv
<1>2. QED
  BY <1>1, LInvInvariant, PTL

(* No release is missed by a client that is waiting for it.                *)
THEOREM WakeupsAreKept == Spec => []NoLostWakeup
<1>1. LInv => NoLostWakeup
  BY DEF LInv
<1>2. QED
  BY <1>1, LInvInvariant, PTL

(* One writer per key, whose spool serves the key; a mutation alone in its *)
(* subtree.                                                                *)
THEOREM Exclusion == Spec => [](WriterOwnsKey /\ MutationIsolated)
<1>1. LInv => WriterOwnsKey /\ MutationIsolated
  BY DEF LInv
<1>2. QED
  BY <1>1, LInvInvariant, PTL
-----------------------------------------------------------------------------
(* The refinement. *)

\* Steps that change nobody's lease stutter.
LEMMA SameHoldersStutter ==
    ASSUME \A c \in Clients : Holding(c)' = Holding(c),
           \A c \in Clients : Holding(c) => op'[c] = op[c]
    PROVE  HeldLease' = HeldLease
  BY DEF HeldLease

\* LeaseTable counts as Leases does.
LEMMA SameCardinality ==
    ASSUME NEW S
    PROVE  Table!Cardinality(S) = Cardinality(S)
  BY DEF Table!Cardinality, Cardinality

\* A granted lease is compatible with every lease that is held.
LEMMA TryGrants ==
    ASSUME LInv, NEW c \in Clients, Try(c), Allowed(op[c])
    PROVE  Table!Next
<1> USE DEF LInv
<1> DEFINE l == [kind |-> op[c].kind, keys |-> op[c].keys]
<1>1. /\ pc[c] = "try" /\ pc' = [pc EXCEPT ![c] = "held"] /\ UNCHANGED op
  BY DEF Try
<1>2. HeldLease[c] = Table!Free /\ HeldLease' = [HeldLease EXCEPT ![c] = l]
  BY <1>1 DEF HeldLease, Table!Free, TypeOK
<1>3. l \in Table!Lease
  <2>1. op[c].kind \in {"read", "write", "mutation"}
    BY DEF TypeOK, Op
  <2>2. QED
    BY <1>1, <2>1 DEF OpsShaped, Table!Lease
<1>4. /\ \A d \in Clients : /\ HeldLease[d].kind \in {"read", "write"} <=> Handle(d)
                            /\ HeldLease[d].kind = "write" <=> Writer(d)
                            /\ HeldLease[d].kind = "mutation" <=> Mutator(d)
                            /\ Holding(d) => HeldLease[d].keys = op[d].keys
  BY DEF HeldLease, TypeOK, Op
<1>5. /\ Table!Handles = HandleSet /\ Table!Writers = WriterSet
      /\ Table!Mutators = {d \in Clients : Mutator(d)}
  BY <1>4 DEF Table!Handles, Table!Writers, Table!Mutators, HandleSet, WriterSet
<1>6. Table!Mutators = {}
  BY <1>5 DEF Allowed, BeginAllowed, MutationAllowed, FlagExact
<1>7. Table!Compatible(l)
  <2>1. l.kind = "mutation" =>
          \A h \in Table!Handles, k \in l.keys : HeldLease[h].keys \cap Below[k] = {}
    <3> SUFFICES ASSUME l.kind = "mutation", NEW h \in Table!Handles, NEW k \in l.keys
                 PROVE  HeldLease[h].keys \cap Below[k] = {}
      OBVIOUS
    <3>1. Handle(h) /\ h \in Clients /\ HeldLease[h].keys = op[h].keys
      BY <1>4, <1>5 DEF HandleSet
    <3>2. op[h].keys \subseteq DOMAIN active
      BY <3>1, HandlesListed DEF TypeOK, Op
    <3>3. QED
      BY <3>1, <3>2 DEF Allowed, MutationAllowed, Subtree
  <2>2. l.kind # "mutation" => Cardinality(Table!Handles) < MaxOpenHandles
    BY <1>5 DEF Allowed, BeginAllowed, CountsExact
  <2>3. l.kind = "write" => Cardinality(Table!Writers) < MaxWriters
    BY <1>5 DEF Allowed, BeginAllowed, CountsExact
  <2>4. l.kind = "write" =>
          \A w \in Table!Writers : HeldLease[w].keys \cap l.keys = {}
    <3> SUFFICES ASSUME l.kind = "write", NEW w \in Table!Writers
                 PROVE  HeldLease[w].keys \cap l.keys = {}
      OBVIOUS
    <3>1. Writer(w) /\ w \in Clients /\ HeldLease[w].keys = op[w].keys
      BY <1>4, <1>5 DEF WriterSet
    <3>2. \A k \in op[c].keys : k \in Keys /\ LeaseOf(k).writers = 0
      BY DEF Allowed, BeginAllowed, TypeOK, Op
    <3>3. QED
      BY <3>1, <3>2, HandlesListed
  <2> HIDE DEF l
  <2>5. QED
    BY <1>6, <2>1, <2>2, <2>3, <2>4, SameCardinality DEF Table!Compatible
<1>8. Table!Grant(c, l)
  BY <1>2, <1>7 DEF Table!Grant
<1>9. QED
  BY <1>3, <1>8 DEF Table!Next

\* Every step of the lease table in the code is a step of LeaseTable or a
\* stutter.
LEMMA StepRefines == LInv /\ [Next]_vars => [Table!Next]_HeldLease
<1> SUFFICES ASSUME LInv, [Next]_vars, HeldLease' # HeldLease PROVE Table!Next
  BY DEF LInv
<1> USE DEF LInv
<1>1. PICK c \in Clients : Try(c) \/ Release(c)
  <2>1. ASSUME NEW c \in Clients, NEW f \in Files, NEW kind \in {"read", "write"},
               CallBegin(c, f, kind)
        PROVE  FALSE
    BY <2>1, SameHoldersStutter DEF CallBegin, TypeOK
  <2>2. ASSUME NEW c \in Clients, NEW K \in Scopes, CallMutation(c, K) PROVE FALSE
    <3>1. /\ pc[c] = "idle" /\ pc' = [pc EXCEPT ![c] = "try"]
          /\ \A d \in Clients \ {c} : op'[d] = op[d]
      BY <2>2 DEF CallMutation, TypeOK
    <3>2. QED
      BY <3>1, SameHoldersStutter DEF TypeOK
  <2>3. ASSUME NEW c \in Clients,
               Wake(c) \/ GiveUp(c) \/ Forget(c) \/ RegisterSpool(c) \/ CloseSpool(c)
        PROVE  FALSE
    BY <2>3, SameHoldersStutter
       DEF Wake, GiveUp, Waiting, Forget, RegisterSpool, CloseSpool, TypeOK
  <2>4. ASSUME NEW f \in Files, RemoteRename(f) PROVE FALSE
    BY <2>4, SameHoldersStutter DEF RemoteRename
  <2>5. ASSUME UNCHANGED vars PROVE FALSE
    BY <2>5, SameHoldersStutter DEF vars
  <2>6. ASSUME NEW c \in Clients, ReleaseAgain(c) PROVE FALSE
    BY <2>5, <2>6 DEF ReleaseAgain
  <2>7. QED
    BY <2>1, <2>2, <2>3, <2>4, <2>5, <2>6 DEF Next, Step
<1>2. CASE Try(c)
  <2>1. Allowed(op[c])
    <3>1. ASSUME ~Allowed(op[c]) PROVE FALSE
      BY <1>2, <3>1, SameHoldersStutter DEF Try, TypeOK
    <3>2. QED
      BY <3>1
  <2>2. QED
    BY <1>2, <2>1, TryGrants
<1>3. CASE Release(c)
  <2>1. /\ pc[c] \in {"held", "closing"} /\ UNCHANGED op
        /\ pc' = Notified([pc EXCEPT ![c] = "released"])
    BY <1>3 DEF Release
  <2>2. HeldLease[c] # Table!Free
    BY <2>1 DEF HeldLease, Table!Free, TypeOK, Op
  <2>3. HeldLease' = [HeldLease EXCEPT ![c] = Table!Free]
    BY <2>1 DEF HeldLease, Table!Free, Notified, TypeOK
  <2>4. QED
    BY <2>2, <2>3 DEF Table!Next, Table!Drop
<1>4. QED
  BY <1>1, <1>2, <1>3

(* begin, mutation, acquire and release implement the abstract lease table *)
(* for any number of clients, keys and limits.                             *)
THEOREM Refinement == Spec => ImplementsLeaseTable
<1>1. Init => Table!Init
  BY DEF Init, Table!Init, Table!Free, HeldLease
<1>2. QED
  BY <1>1, StepRefines, LInvInvariant, PTL DEF Spec, ImplementsLeaseTable, Table!Spec
=============================================================================
