---------------------------- MODULE NotebookSave ----------------------------
(***************************************************************************)
(* Saving a notebook: the write-back spool of internal/writeback/file.go   *)
(* under the commit of internal/workspacefs/definitions.go.                *)
(*                                                                         *)
(* One writer at a time has the notebook open (the lease table sees to     *)
(* that, module Leases) and its calls are serialized by File.mu, so the    *)
(* concurrency is with the rest of the world: other clients edit the       *)
(* notebook, requests are applied late or answers are lost, readers of     *)
(* this mount load the definition into the snapshot cache, and the process *)
(* may die at any step.                                                    *)
(***************************************************************************)
EXTENDS Integers, FiniteSets

CONSTANTS
    Contents,    \* contents of the local file and of the notebook part
    Empty,       \* the content of size zero
    Prepared,    \* [Contents -> Contents \cup {Invalid}]: the document sent for
    Invalid,     \*   a local content, if it is a valid notebook within limits
    Others,      \* everything else in a definition: other parts, metadata
    Setups,      \* the mounts: with the content endpoint (mwc) or without,
                 \*   with a prewarmer or without
    MaxEdits,    \* bound: external edits stop at this version
    MaxSends     \* bound on the number of update requests

ASSUME NotebookSaveAssumption ==
    /\ Empty \in Contents
    /\ Invalid \notin Contents
    /\ Prepared \in [Contents -> Contents \cup {Invalid}]
    /\ Prepared[Empty] = Invalid
    /\ Others # {}
    /\ Setups \subseteq [contentAPI : BOOLEAN, prewarming : BOOLEAN]
    /\ MaxEdits \in Nat
    /\ MaxSends \in Nat

VARIABLES
    setup,     \* how this process has mounted the workspace
    remote,    \* the definition at the service (external)
    ver,       \* history: how often the remote definition was written
    network,   \* update requests that the service may still apply (external)
    sent,      \* the number of requests sent so far
    acked,     \* whether the last request has been applied (external)
    cached,    \* the spool snapshot of the notebook, if any
    flight,    \* what the attached load of the snapshot has read, if anything
    stage,     \* where the writer is; "closed" when there is none
    local,     \* the content of the spool (File.file, File.size)
    dirty,     \* File.dirty
    base,      \* base and before of the commit closure
    want,      \* desired
    saw,       \* current, the result of the preflight
    spool,     \* whether the spool file of this writer is on the disk
    written,   \* history: the writer has changed its file
    reached,   \* history: since then, the remote has had the content of it
    at,        \* history: version at which the remote had the wanted content
    saved,     \* history: that version for the last successful save
    known      \* history: definitions the writer has opened or produced

handle  == <<local, dirty, base, want, saw>>
history == <<written, reached, at, saved, known>>
saveVars == <<setup, remote, ver, network, sent, acked, cached, flight, stage, handle,
              spool, history>>

\* Snapshots and saves go through the content endpoint.
ContentAPI == setup.contentAPI
\* The mount has a prewarmer.
Prewarming == setup.prewarming

-----------------------------------------------------------------------------
Definition == [part : Contents, other : Others]
Snapshot   == [def : Definition, ver : Nat]
Request    == [id : 1..MaxSends, def : Definition]
Flushing   == {"prepare", "preflight", "compare", "sent", "succeeded", "failed"}
Stages        == {"closed", "open"} \cup Flushing

\* Outside the commit, and when Close has dropped the commit closure.
NoDefinition == [part |-> Empty, other |-> Empty]

Current == [def |-> remote, ver |-> ver]

SaveInit ==
    /\ setup \in Setups
    /\ remote \in {d \in Definition : Prepared[d.part] # Invalid}
    /\ ver = 0
    /\ network = {} /\ sent = 0 /\ acked = FALSE
    /\ cached = {} /\ flight = {}
    /\ stage = "closed"
    /\ local = Empty /\ dirty = FALSE
    /\ base = NoDefinition /\ want = NoDefinition /\ saw = NoDefinition
    /\ spool = FALSE
    /\ written = FALSE /\ reached = FALSE /\ at = 0 /\ saved = 0 /\ known = {}

\* The snapshot cache, as module Cache shows it to behave: an invalidation
\* drops the spool value and detaches the pending load.
Invalidate == cached' = {} /\ flight' = {}

-----------------------------------------------------------------------------
(* The writer *)

\* openNotebook and writeback.Open: the snapshot is a spool one or one that
\* this call loads; O_TRUNC makes a non-empty file dirty at once.
Open(truncate) ==
    /\ stage = "closed"
    /\ \E s \in cached \cup {Current} :
          /\ base' = s.def /\ known' = {s.def}
          /\ local' = IF truncate THEN Empty ELSE s.def.part
          /\ dirty' = (truncate /\ s.def.part # Empty)
          /\ written' = (truncate /\ s.def.part # Empty)
    /\ reached' = FALSE
    /\ spool' = TRUE
    /\ stage' = "open"
    /\ UNCHANGED <<setup, remote, ver, network, sent, acked, cached, flight, want, saw,
                   at, saved>>

\* WriteAt or Truncate, complete or partial.
Write(c) ==
    /\ stage = "open"
    /\ local' = c /\ dirty' = TRUE
    /\ written' = TRUE /\ reached' = (remote.part = Prepared[c])
    /\ UNCHANGED <<setup, remote, ver, network, sent, acked, cached, flight, stage, base,
                   want, saw, spool, at, saved, known>>

\* Flush of a dirty file enters the commit; startNotebookCommit.
FlushStart ==
    /\ stage = "open" /\ dirty
    /\ stage' = "prepare"
    /\ IF Prewarming THEN Invalidate ELSE UNCHANGED <<cached, flight>>
    /\ UNCHANGED <<setup, remote, ver, network, sent, acked, handle, spool, history>>

Send(d) ==
    /\ sent < MaxSends
    /\ sent' = sent + 1
    /\ acked' = FALSE
    /\ network' = network \cup {[id |-> sent + 1, def |-> d]}
    /\ stage' = "sent"
    /\ UNCHANGED <<setup, remote, ver, cached, flight, spool>>

\* desired: the open-time definition with its notebook part replaced.
Desired(d) == [part |-> Prepared[local], other |-> d.other]

\* prepareNotebookForFabric succeeds on the content of the spool.
Valid == Prepared[local] # Invalid

\* The notebook is read from the spool, converted and validated.
Prepare ==
    /\ stage = "prepare" /\ ~ContentAPI
    /\ Valid
    /\ want' = Desired(base)
    /\ known' = known \cup {Desired(base)}
    /\ stage' = "preflight"
    /\ UNCHANGED <<setup, remote, ver, network, sent, acked, cached, flight, local,
                   dirty, base, saw, spool, written, reached, at, saved>>

\* PutNotebookContent replaces the notebook part without any condition.
PutContent ==
    /\ stage = "prepare" /\ ContentAPI
    /\ Valid
    /\ Send(Desired(base))
    /\ want' = Desired(base)
    /\ known' = known \cup {Desired(base)}
    /\ UNCHANGED <<setup, local, dirty, base, saw, written, reached, at, saved>>

\* The content endpoint's PUT is retried by the transport.
Retry ==
    /\ stage = "sent" /\ ContentAPI
    /\ Send(want)
    /\ UNCHANGED <<setup, handle, history>>

\* fetchDefinition for the comparison.
Preflight ==
    /\ stage = "preflight"
    /\ saw' = remote /\ at' = ver
    /\ stage' = "compare"
    /\ UNCHANGED <<setup, remote, ver, network, sent, acked, cached, flight, local,
                   dirty, base, want, spool, written, reached, saved, known>>

\* actual == after: an earlier attempt with an ambiguous answer was applied.
Reconcile ==
    /\ stage = "compare" /\ saw = want
    /\ base' = saw
    /\ stage' = "succeeded"
    /\ UNCHANGED <<setup, remote, ver, network, sent, acked, cached, flight, local,
                   dirty, want, saw, spool, history>>

\* (mutant) Only the notebook part is compared.
UnchangedPart(d) == saw.part = d.part

\* actual == before.
UnchangedSince(d) == saw = d

\* UpdateNotebook: neither conditional nor retried.
Update ==
    /\ stage = "compare" /\ saw # want /\ UnchangedSince(base)
    /\ Send(want)
    /\ UNCHANGED <<setup, handle, history>>

\* The last request has been answered positively.
Confirm ==
    /\ stage = "sent" /\ acked
    /\ base' = want
    /\ stage' = "succeeded"
    /\ UNCHANGED <<setup, remote, ver, network, sent, acked, cached, flight, local,
                   dirty, want, saw, spool, history>>

\* An invalid notebook, ErrConflict, a failed read, an error answer, a lost
\* answer, a cancellation or a deadline; a request already sent stays out.
Fail ==
    /\ \/ stage \in {"prepare", "preflight", "sent"}
       \/ stage = "compare" /\ saw # want /\ ~UnchangedSince(base)
    /\ stage' = "failed"
    /\ UNCHANGED <<setup, remote, ver, network, sent, acked, cached, flight, handle,
                   spool, history>>

\* (mutant) The snapshot is only invalidated before the save.
InvalidateNothing == UNCHANGED <<cached, flight>>

\* finish invalidates again, whatever the result.
InvalidateAgain == Invalidate

\* (mutant) A failed commit leaves the file clean.
DirtyAfter(outcome) == FALSE

\* f.dirty, f.lastSave = false, nil only when the commit succeeded.
StillDirty(outcome) == outcome = "failed"

\* finish of the commit and the end of Flush.
FlushEnd ==
    /\ stage \in {"succeeded", "failed"}
    /\ InvalidateAgain
    /\ dirty' = StillDirty(stage)
    /\ saved' = IF stage = "succeeded" THEN at ELSE saved
    /\ stage' = "open"
    /\ want' = NoDefinition /\ saw' = NoDefinition
    /\ UNCHANGED <<setup, remote, ver, network, sent, acked, local, base, spool, written,
                   reached, at, known>>

\* The spool of a dirty file stays, a clean one is removed.
RetainSpool == dirty

\* The commit closure and its definitions are gone with the handle.
Unpin ==
    /\ base' = NoDefinition /\ want' = NoDefinition /\ saw' = NoDefinition
    /\ known' = {}

\* File.Close.
Close ==
    /\ stage = "open"
    /\ spool' = RetainSpool
    /\ stage' = "closed"
    /\ Unpin
    /\ UNCHANGED <<setup, remote, ver, network, sent, acked, cached, flight, local,
                   dirty, written, reached, at, saved>>

\* The process dies: memory is lost, the spool file is not.
Crash ==
    /\ stage # "closed"
    /\ stage' = "closed"
    /\ Invalidate
    /\ Unpin
    /\ UNCHANGED <<setup, remote, ver, network, sent, acked, local, dirty, spool,
                   written, reached, at, saved>>

-----------------------------------------------------------------------------
(* Readers of this mount: sourceSnapshot through the cache. *)

LoadRead ==
    /\ flight = {}
    /\ flight' = {Current}
    /\ UNCHANGED <<setup, remote, ver, network, sent, acked, cached, stage, handle,
                   spool, history>>

LoadPublish ==
    /\ flight # {}
    /\ cached' = flight /\ flight' = {}
    /\ UNCHANGED <<setup, remote, ver, network, sent, acked, stage, handle, spool,
                   history>>

Expire ==
    /\ cached # {}
    /\ cached' = {}
    /\ UNCHANGED <<setup, remote, ver, network, sent, acked, flight, stage, handle,
                   spool, history>>

-----------------------------------------------------------------------------
(* The service and other clients (external). *)

Store(d) ==
    /\ remote' = d /\ ver' = ver + 1
    /\ reached' = (reached \/ d.part = Prepared[local])

Edit(d) ==
    /\ ver < MaxEdits
    /\ d # remote /\ Prepared[d.part] # Invalid
    /\ Store(d)
    /\ UNCHANGED <<setup, network, sent, acked, cached, flight, stage, handle, spool,
                   written, at, saved, known>>

\* A request is applied, possibly long after its answer was given up on.  The
\* content endpoint only replaces the notebook part.
Apply(r) ==
    /\ Store([part  |-> r.def.part,
              other |-> IF ContentAPI THEN remote.other ELSE r.def.other])
    /\ network' = network \ {r}
    /\ acked' = (acked \/ r.id = sent)
    /\ at' = IF r.id = sent THEN ver + 1 ELSE at
    /\ UNCHANGED <<setup, sent, cached, flight, stage, handle, spool, written, saved,
                   known>>

\* A request is lost or refused.
Drop(r) ==
    /\ network' = network \ {r}
    /\ UNCHANGED <<setup, remote, ver, sent, acked, cached, flight, stage, handle,
                   spool, history>>

-----------------------------------------------------------------------------
SaveNext ==
    \/ \E truncate \in BOOLEAN : Open(truncate)
    \/ \E c \in Contents : Write(c)
    \/ FlushStart \/ Prepare \/ PutContent \/ Retry \/ Preflight \/ Reconcile
    \/ Update \/ Confirm \/ Fail \/ FlushEnd \/ Close \/ Crash
    \/ LoadRead \/ LoadPublish \/ Expire
    \/ \E d \in Definition : Edit(d)
    \/ \E r \in network : Apply(r) \/ Drop(r)

SaveSpec == SaveInit /\ [][SaveNext]_saveVars

-----------------------------------------------------------------------------
(* Properties *)

\* Every variable keeps the shape of the field or request it stands for.
SaveTypeOK ==
    /\ setup \in Setups
    /\ remote \in Definition
    /\ ver \in Nat /\ at \in Nat /\ saved \in Nat
    /\ network \subseteq Request
    /\ sent \in 0..MaxSends
    /\ acked \in BOOLEAN /\ dirty \in BOOLEAN /\ spool \in BOOLEAN
    /\ written \in BOOLEAN /\ reached \in BOOLEAN
    /\ cached \subseteq Snapshot /\ flight \subseteq Snapshot
    /\ stage \in Stages
    /\ local \in Contents
    /\ base \in Definition \cup {NoDefinition}
    /\ want \in Definition \cup {NoDefinition}
    /\ saw \in Definition \cup {NoDefinition}
    /\ known \subseteq Definition

\* "No silent discard": what the writer last wrote is either still dirty (and
\* after the handle is gone, in a recovery file), or the remote notebook really
\* had it at some moment after it was written - with lost answers, late
\* requests, other clients' edits and crashes in between.
SavedOrKept ==
    written => reached \/ (dirty /\ spool)

\* With the definition API, an update request never replaces a definition that
\* the writer neither opened nor produced itself, as far as its preflight could
\* see, and it never reverts another part: an intervening content or metadata
\* change visible to the preflight is a conflict, also after reconciled and repeated saves.
UpdatesFollowSeen ==
    [][\A r \in network' \ network :
          ~ContentAPI => saw \in known /\ r.def.other = saw.other]_saveVars

\* Read your own save: after a successful flush the snapshot cache never again
\* serves a definition from before it, although readers load concurrently.
ReadYourSave == \A s \in cached : s.ver >= saved
=============================================================================
