----------------------------- MODULE LakeSave -----------------------------
(***************************************************************************)
(* Files in OneLake: the staged upload, the conditional delete and the     *)
(* conditional rename of internal/onelake/write.go, under openLake,        *)
(* Remove and Rename of internal/workspacefs and the write-back spool.     *)
(*                                                                         *)
(* The mount runs one operation on these paths at a time (the lease table  *)
(* sees to that, module Leases).  The concurrency is with the service: an  *)
(* answer may be lost, a request may be applied long after the client has  *)
(* given up on it, also after the process has died, and other clients      *)
(* write and delete the same files, private stages included.               *)
(*                                                                         *)
(* A request is asked for and answered in one step: between the moments it *)
(* is applied and answered the client does nothing.                        *)
(***************************************************************************)
EXTENDS Integers

CONSTANTS
    Paths,      \* files of the lakehouse
    Contents,   \* what files hold
    Empty,      \* the content of size zero
    Chunks,     \* [Contents -> Nat]: the append requests an upload needs
    MaxPuts,    \* bound on the number of uploads
    MaxEdits,   \* bound on the writes of other clients
    MaxTags     \* bound: no rename begins beyond this ETag

ASSUME LakeSaveAssumption ==
    /\ Empty \in Contents
    /\ Chunks \in [Contents -> Nat]
    /\ Chunks[Empty] = 0
    /\ MaxPuts \in Nat
    /\ MaxEdits \in Nat
    /\ MaxTags \in Nat
    /\ Paths \cap (1..MaxPuts) = {}

Puts  == 1..MaxPuts       \* an upload, which also names its stage
Names == Paths \cup Puts

VARIABLES
    files,    \* [Names -> File]: the service's files (external)
    tags,     \* the last ETag given out (external)
    late,     \* requests given up on that may still be applied (external)
    edits,    \* the number of writes by other clients (external)
    pc,       \* the step of the current operation
    job,      \* what the current operation is
    from,     \* the stage, or the source of a rename
    to,       \* the path of the handle, or the target of the operation
    stag,     \* createTag, flushedTag, the source's or the committed ETag
    base,     \* etag of openLake; the expected ETag of the target, or NoTag
    puts,     \* uploads so far
    pos,      \* position, in chunks
    local,    \* the content of the spool
    dirty,    \* File.dirty
    spool,    \* whether the spool file is on the disk
    content,  \* [Puts -> Contents]: the spool that an upload reads
    known,    \* history: the paths whose current version the mount has read
    excused,  \* history: uploads whose stage may stay, as far as the user
              \*   has been told
    written,  \* history: the handle has changed its file
    reached   \* history: since then, the path has held what was written

service   == <<files, tags, edits>>
operation == <<job, from, to>>
handle    == <<local, dirty, spool>>
history   == <<content, known, excused, written, reached>>
vars == <<service, late, pc, operation, stag, base, puts, pos, handle, history>>

NoTag  == 0    \* no such file; as an expectation, If-None-Match: *
AnyTag == -1   \* a request without a condition

File == [tag : Nat, data : Contents, len : Nat, owner : 0..MaxPuts,
         put : 0..MaxPuts]

Absent == [tag |-> NoTag, data |-> Empty, len |-> 0, owner |-> 0, put |-> 0]

\* The steps of Put; the others are between operations or those of Remove and
\* Rename only.
PutPCs == {"create", "append", "flush", "stat", "cleanstat", "cleandelete"}
PCs == PutPCs \cup {"idle", "open", "target", "rename", "verify", "delete",
                    "target stat", "source stat"}
Jobs == {"none", "create", "save", "move", "remove"}

Request == [op : {"create", "flush", "rename", "delete"}, from : Names,
            to : Names, stag : Int, dtag : Int]

Exists(n) == files[n].tag # NoTag
Putting   == job \in {"create", "save"}

Init ==
    /\ files \in [Names -> {Absent}
                     \cup {[tag |-> 1, data |-> c, len |-> Chunks[c],
                            owner |-> 0, put |-> 0] : c \in Contents}]
    /\ \A i \in Puts : files[i] = Absent
    /\ \A p, q \in Paths : p # q => files[p] = Absent \/ files[q] = Absent
    /\ tags = 1 /\ late = {} /\ edits = 0
    /\ pc = "idle" /\ job = "none"
    /\ from \in Paths /\ to = from
    /\ stag = NoTag /\ base = NoTag
    /\ puts = 0 /\ pos = 0
    /\ local = Empty /\ dirty = FALSE /\ spool = FALSE
    /\ content = [i \in Puts |-> Empty]
    /\ known = {} /\ excused = {}
    /\ written = FALSE /\ reached = FALSE

Goto(label) == pc' = label

-----------------------------------------------------------------------------
(* The service (external) *)

Met(condition, n) == condition = AnyTag \/ files[n].tag = condition

Holds(r) ==
    /\ Met(r.dtag, r.to)
    /\ r.op = "flush" => Exists(r.to)
    /\ r.op = "delete" => Exists(r.to)
    /\ r.op = "rename" => Met(r.stag, r.from) /\ Exists(r.from)

\* What r.to becomes.  A rename clears the properties of the stage.
Result(r) ==
    CASE r.op = "create" ->
            [tag |-> tags + 1, data |-> Empty, len |-> 0, owner |-> r.to, put |-> 0]
      [] r.op = "flush" ->
            [tag |-> tags + 1, data |-> content[r.to],
             len |-> Chunks[content[r.to]], owner |-> files[r.to].owner, put |-> 0]
      [] r.op = "rename" ->
            [tag |-> tags + 1, data |-> files[r.from].data,
             len |-> files[r.from].len, owner |-> 0,
             put |-> IF r.from \in Puts THEN r.from ELSE 0]
      [] r.op = "delete" -> Absent

Applied(r) ==
    [n \in Names |->
        IF n = r.to THEN Result(r)
        ELSE IF r.op = "rename" /\ n = r.from THEN Absent
        ELSE files[n]]

\* The path of the handle may have got what was written; versions that are
\* gone need not be remembered.
Noticed ==
    /\ reached' = (reached \/ /\ written
                              /\ files'[to].tag # NoTag /\ files'[to].data = local)
    /\ known' = {p \in known : files'[p] = files[p]}

\* An ETag is never given out again: a request for a version that is gone is
\* refused whenever it arrives, and need not be remembered.
MayHold(r) ==
    /\ r.dtag # NoTag => Met(r.dtag, r.to)
    /\ r.op = "rename" => Met(r.stag, r.from)

Pending(R) == {r \in R : MayHold(r)'}

\* The service applies r; the history it changes is that of the path.
Apply(r) ==
    /\ Holds(r)
    /\ files' = Applied(r)
    /\ tags' = IF r.op = "delete" THEN tags ELSE tags + 1
    /\ late' = Pending(late \ {r})
    /\ Noticed
    /\ UNCHANGED edits

\* A request that was given up on arrives, and is not refused.
Deliver(r) ==
    /\ Apply(r)
    /\ UNCHANGED <<pc, operation, stag, base, puts, pos, handle, content,
                   excused, written>>

\* Another client writes or deletes a path, or an existing stage, whose
\* properties a write may keep or lose.
Edit(n, c, owner) ==
    /\ edits < MaxEdits
    /\ edits' = edits + 1
    /\ \/ /\ files' = [files EXCEPT ![n] =
                         [tag |-> tags + 1, data |-> c, len |-> Chunks[c],
                          owner |-> owner, put |-> 0]]
          /\ tags' = tags + 1
       \/ /\ Exists(n) /\ files' = [files EXCEPT ![n] = Absent]
          /\ UNCHANGED tags
    /\ n \in Puts => Exists(n) /\ owner \in {0, files[n].owner}
    /\ n \in Paths => owner = 0
    /\ late' = Pending(late)
    /\ Noticed
    /\ UNCHANGED <<pc, operation, stag, base, puts, pos, handle, content,
                   excused, written>>

-----------------------------------------------------------------------------
(* Operations and their ends *)

\* openLake for a file that exists: FreshStat and a download of that version.
Open(p, trunc) ==
    /\ pc = "idle" /\ Exists(p)
    /\ Goto("open")
    /\ from' = p /\ to' = p
    /\ base' = files[p].tag
    /\ known' = known \cup {p}
    /\ local' = IF trunc THEN Empty ELSE files[p].data
    /\ dirty' = (trunc /\ files[p].len # 0)
    /\ written' = (trunc /\ files[p].len # 0) /\ reached' = FALSE
    /\ spool' = TRUE
    /\ UNCHANGED <<service, late, job, stag, puts, pos, content, excused>>

\* WriteAt and Truncate.
Write(c) ==
    /\ pc = "open"
    /\ local' = c /\ dirty' = TRUE
    /\ written' = TRUE /\ reached' = FALSE
    /\ UNCHANGED <<service, late, pc, operation, stag, base, puts, pos, spool,
                   content, known, excused>>

\* Put begins: a new random stage, for the content of the spool.
StartPut(c) ==
    /\ puts < MaxPuts
    /\ puts' = puts + 1
    /\ from' = puts + 1
    /\ content' = [content EXCEPT ![puts + 1] = c]
    /\ pos' = 0
    /\ Goto("create")

\* Flush of a dirty file.
Flush ==
    /\ pc = "open" /\ dirty
    /\ StartPut(local)
    /\ job' = "save"
    /\ UNCHANGED <<service, late, to, stag, base, handle, known, excused,
                   written, reached>>

\* openLake for a new file: an empty spool, and an empty file for the path.
Create(p) ==
    /\ pc = "idle" /\ ~Exists(p)
    /\ StartPut(Empty)
    /\ job' = "create" /\ to' = p
    /\ base' = NoTag
    /\ local' = Empty /\ dirty' = FALSE /\ spool' = TRUE
    /\ written' = FALSE /\ reached' = FALSE
    /\ UNCHANGED <<service, late, stag, known, excused>>

\* (mutant) Close always removes the spool file.
RemoveSpool == FALSE

\* Close keeps the spool file of a dirty handle.
RetainSpool == dirty

Close ==
    /\ pc = "open"
    /\ Goto("idle")
    /\ spool' = RetainSpool
    /\ UNCHANGED <<service, late, operation, stag, base, puts, pos, local, dirty,
                   history>>

\* The process dies; what it had asked for may still be applied.
Crash ==
    /\ pc # "idle"
    /\ Goto("idle")
    /\ job' = "none"
    /\ stag' = NoTag /\ base' = NoTag /\ pos' = 0
    /\ excused' = IF Putting THEN excused \cup {puts} ELSE excused
    /\ UNCHANGED <<service, late, from, to, puts, handle, content, known,
                   written, reached>>

\* Remove: FreshStat, then Client.Remove for that version.
Remove(p) ==
    /\ pc = "idle" /\ Exists(p)
    /\ Goto("delete")
    /\ job' = "remove" /\ to' = p /\ from' = p
    /\ base' = files[p].tag
    /\ known' = known \cup {p}
    /\ UNCHANGED <<service, late, stag, puts, pos, handle, content, excused,
                   written, reached>>

\* Rename: FreshStat of the source, then of the target.
Rename(p, q) ==
    /\ pc = "idle" /\ p # q /\ Exists(p)
    /\ tags < MaxTags
    /\ Goto("target stat")
    /\ job' = "move" /\ from' = p /\ to' = q
    /\ stag' = files[p].tag
    /\ known' = known \cup {p}
    /\ UNCHANGED <<service, late, base, puts, pos, handle, content, excused,
                   written, reached>>

\* FreshStat finds nothing to open, remove or rename.
Missing(p) ==
    /\ pc = "idle" /\ ~Exists(p)
    /\ UNCHANGED vars

TargetStat(noReplace) ==
    /\ pc = "target stat"
    /\ base' = files[to].tag
    /\ known' = known \cup {to}
    /\ Goto(IF noReplace /\ Exists(to) THEN "idle" ELSE "source stat")
    /\ UNCHANGED <<service, late, operation, stag, puts, pos, handle, content,
                   excused, written, reached>>

\* Client.Rename looks at the source again.
SourceStat ==
    /\ pc = "source stat"
    /\ Goto(IF files[from].tag = stag THEN "target" ELSE "idle")
    /\ UNCHANGED <<service, late, operation, stag, base, puts, pos, handle,
                   history>>

\* Put has failed: the handle stays dirty, or a failed create is closed.
Settle ==
    /\ Goto(IF job = "save" THEN "open" ELSE "idle")
    /\ job' = "none" /\ stag' = NoTag /\ pos' = 0
    /\ spool' = (job = "save")

\* (mutant) A failed commit is taken for a move of the stage.
FailedUnlessCommitting ==
    Goto(IF Putting /\ pc \notin {"rename", "verify"} THEN "cleanstat"
         ELSE IF job = "save" THEN "open" ELSE "idle")

\* Where an error leads: a Put cleans up after itself.
Failed == Goto(IF Putting THEN "cleanstat" ELSE "idle")

\* A step fails without a request that changes anything: the caller's context
\* is done, the spool cannot be read, or a HEAD is not answered.
Fail ==
    /\ pc \in {"append", "stat", "target", "verify", "target stat", "source stat"}
    /\ Failed
    /\ UNCHANGED <<service, late, operation, stag, base, puts, pos, handle,
                   history>>

\* The request r is refused, or given up on.
AskFails(r) ==
    /\ Failed
    /\ late' \in {late, late \cup {q \in {r} : MayHold(q)}}
    /\ UNCHANGED <<service, operation, stag, base, puts, pos, handle, history>>

-----------------------------------------------------------------------------
(* Put *)

CreateStage ==
    [op |-> "create", from |-> from, to |-> from, stag |-> NoTag, dtag |-> NoTag]

\* A refused create never owned the path; any other failure may have created
\* it, without the marker if the service ignored that header.
PutCreate ==
    /\ pc = "create"
    /\ \/ /\ Apply(CreateStage)
          /\ \/ Goto("append") /\ stag' = tags + 1
             \/ Goto("cleanstat") /\ UNCHANGED stag
          /\ UNCHANGED <<job, pos, handle, excused>>
       \/ /\ ~Exists(from)
          /\ files' = [files EXCEPT ![from] =
                          [tag |-> tags + 1, data |-> Empty, len |-> 0,
                           owner |-> 0, put |-> 0]]
          /\ tags' = tags + 1
          /\ Goto("cleanstat")
          /\ UNCHANGED <<late, edits, job, stag, pos, handle, known, excused,
                         reached>>
       \/ /\ Settle
          /\ UNCHANGED <<service, late, local, dirty, known, excused, reached>>
       \/ /\ Goto("cleanstat")
          /\ late' = late \cup {CreateStage}
          /\ excused' = excused \cup {puts}
          /\ UNCHANGED <<service, job, stag, pos, handle, known, reached>>
    /\ UNCHANGED <<from, to, base, puts, content, written>>

\* position < size
More == pos < Chunks[content[puts]]

\* An append is invisible until the flush; one that is lost ends the upload.
PutAppend ==
    /\ pc = "append" /\ More
    /\ Exists(from)
    /\ pos' = pos + 1
    /\ UNCHANGED <<service, late, pc, operation, stag, base, puts, handle, history>>

FlushStage ==
    [op |-> "flush", from |-> from, to |-> from, stag |-> NoTag, dtag |-> stag]

PutFlush ==
    /\ pc = "append" /\ ~More
    /\ \/ /\ Apply(FlushStage)
          /\ stag' = tags + 1
          /\ Goto("stat")
          /\ UNCHANGED <<operation, base, puts, pos, handle, content, excused,
                         written>>
       \/ AskFails(FlushStage)

\* HEAD of the stage for flushedTag, and its size.
PutStat ==
    /\ pc = "stat"
    /\ files[from].tag = stag /\ files[from].len = Chunks[content[puts]]
    /\ Goto("target")
    /\ UNCHANGED <<service, late, operation, stag, base, puts, pos, handle,
                   history>>

-----------------------------------------------------------------------------
(* rename, for the commit of a Put and for Rename *)

\* HEAD of the target, unless it has to be absent.
CheckTarget ==
    /\ pc = "target"
    /\ base # NoTag => files[to].tag = base
    /\ Goto("rename")
    /\ UNCHANGED <<service, late, operation, stag, base, puts, pos, handle,
                   history>>

\* (mutant) The HEAD of the target is taken for its condition.
CommitUnconditional ==
    [op |-> "rename", from |-> from, to |-> to, stag |-> stag, dtag |-> AnyTag]

\* (mutant) Nobody else is supposed to know the stage.
CommitAnyStage ==
    [op |-> "rename", from |-> from, to |-> to, stag |-> AnyTag, dtag |-> base]

\* Conditional on both paths.
Commit ==
    [op |-> "rename", from |-> from, to |-> to, stag |-> stag, dtag |-> base]

RenameStep ==
    /\ pc = "rename"
    /\ \/ /\ Apply(Commit)
          /\ stag' = tags + 1
          /\ Goto("verify")
          /\ UNCHANGED <<operation, base, puts, pos, handle, content, excused,
                         written>>
       \/ AskFails(Commit)

\* A save leaves the file clean.
StillDirty == dirty /\ job # "save"

\* HEAD of the committed version; the handle goes on from there.
Verify ==
    /\ pc = "verify"
    /\ files[to].tag = stag
    /\ Goto(IF Putting THEN "open" ELSE "idle")
    /\ base' = stag
    /\ known' = known \cup {to}
    /\ dirty' = StillDirty
    /\ job' = "none" /\ stag' = NoTag /\ pos' = 0
    /\ UNCHANGED <<service, late, from, to, puts, local, spool, content,
                   excused, written, reached>>

-----------------------------------------------------------------------------
(* Cleanup of a failed Put, and delete for a Remove *)

\* A file with the marker of this upload.
OwnsStage == files[from].owner = from

\* HEAD of the stage: gone, ours, or not to be deleted; or no answer.
CleanStat ==
    /\ pc = "cleanstat"
    /\ \/ /\ ~Exists(from)
          /\ Settle
          /\ UNCHANGED excused
       \/ /\ Exists(from) /\ OwnsStage
          /\ stag' = files[from].tag
          /\ Goto("cleandelete")
          /\ UNCHANGED <<job, pos, spool, excused>>
       \/ /\ Settle
          /\ excused' = excused \cup {puts}
    /\ UNCHANGED <<service, late, from, to, base, puts, local, dirty, content,
                   known, written, reached>>

DeleteStage ==
    [op |-> "delete", from |-> from, to |-> from, stag |-> NoTag, dtag |-> stag]

CleanDelete ==
    /\ pc = "cleandelete"
    /\ Settle
    /\ \/ /\ Apply(DeleteStage)
          /\ UNCHANGED excused
       \/ /\ late' \in {late, late \cup {r \in {DeleteStage} : MayHold(r)}}
          /\ excused' = excused \cup {puts}
          /\ UNCHANGED <<service, known, reached>>
    /\ UNCHANGED <<from, to, base, puts, local, dirty, content, written>>

\* (mutant) Nothing is expected of the file that is deleted.
DeleteUnconditional ==
    [op |-> "delete", from |-> from, to |-> to, stag |-> NoTag, dtag |-> AnyTag]

\* delete, after a HEAD that fails like the request would.
DeletePath ==
    [op |-> "delete", from |-> from, to |-> to, stag |-> NoTag, dtag |-> base]

Delete ==
    /\ pc = "delete"
    /\ \/ /\ Apply(DeletePath)
          /\ Goto("idle")
          /\ UNCHANGED <<operation, stag, base, puts, pos, handle, content,
                         excused, written>>
       \/ AskFails(DeletePath)

-----------------------------------------------------------------------------
Put == PutCreate \/ PutAppend \/ PutFlush \/ PutStat \/ CleanStat \/ CleanDelete

Step ==
    \/ Flush \/ Put \/ CheckTarget \/ RenameStep \/ Verify \/ Fail \/ Delete
    \/ SourceStat \/ \E noReplace \in BOOLEAN : TargetStat(noReplace)

Next ==
    \/ \E p \in Paths, trunc \in BOOLEAN : Open(p, trunc)
    \/ \E p \in Paths : Create(p) \/ Remove(p) \/ Missing(p)
    \/ \E p, q \in Paths : Rename(p, q)
    \/ \E c \in Contents : Write(c)
    \/ Step \/ Close \/ Crash
    \/ \E r \in late : Deliver(r)
    \/ \E n \in Names, c \in Contents, owner \in 0..MaxPuts : Edit(n, c, owner)

Spec == Init /\ [][Next]_vars

-----------------------------------------------------------------------------
(* The files of a lakehouse as the mount and others see them *)

\* What is at a path.
Versions ==
    [p \in Paths |-> [tag |-> files[p].tag, data |-> files[p].data, put |-> files[p].put]]

\* The upload that has yet to ask for its commit.
Current == IF Putting /\ pc \in {"create", "append", "stat", "target"} THEN puts ELSE 0

\* The request for a path that the current step is about to send.
Asking == IF pc = "rename" THEN {Commit} ELSE IF pc = "delete" THEN {DeletePath} ELSE {}

\* The requests for paths that may still take effect.
Outstanding ==
    {r \in late \cup Asking :
        r.to \in Paths /\ MayHold(r) /\ (r.op = "rename" => Exists(r.from))}

Registers ==
    INSTANCE LakeFiles WITH
        store <- Versions, last <- tags, current <- Current, read <- known,
        asked <- Outstanding

-----------------------------------------------------------------------------
(* Properties *)

\* Every variable has the type of what it stands for, and an upload never
\* sends more than its spool holds.
TypeOK ==
    /\ files \in [Names -> File]
    /\ tags \in Nat /\ edits \in 0..MaxEdits
    /\ late \subseteq Request
    /\ pc \in PCs /\ job \in Jobs
    /\ from \in Names /\ to \in Paths
    /\ stag \in Nat /\ base \in Nat
    /\ puts \in 0..MaxPuts
    /\ content \in [Puts -> Contents]
    /\ pc \in PutPCs => puts \in Puts /\ from = puts
    /\ pc \in PutPCs => pos \in 0..Chunks[content[puts]]
    /\ local \in Contents /\ dirty \in BOOLEAN /\ spool \in BOOLEAN
    /\ known \subseteq Paths /\ excused \subseteq Puts
    /\ written \in BOOLEAN /\ reached \in BOOLEAN

\* "No silent discard": what was written is dirty with its spool on the disk,
\* or the path really had it - whichever request of the save was lost, late
\* or refused, and wherever the process died.
SavedOrKept == written => reached \/ (dirty /\ spool)

\* A path never shows part of an upload, nor a stage that somebody else has
\* written to: what a Put commits is exactly the spool it was given.
CommitsExact ==
    \A p \in Paths :
        /\ files[p].len = Chunks[files[p].data]
        /\ files[p].put # 0 => files[p].data = content[files[p].put]

\* A request of this mount only ever replaces or deletes a version of a path
\* that the mount had read: "No automatic conflict overwrite"; and of what is
\* under the name of a stage, also by the time that the delete arrives, it
\* deletes "only its own staging object".
OverwritesKnown ==
    [][edits' = edits =>
          /\ \A p \in Paths : Exists(p) /\ files'[p] # files[p] => p \in known
          /\ \A i \in Puts : Exists(i) /\ files'[i] = Absent =>
                files[i].owner = i \/ \E p \in Paths : files'[p].put = i]_vars

\* A commit that was given up on never replaces a later one: an old save that
\* arrives after a new one is refused.
SavesInOrder ==
    [][\A p \in Paths :
          /\ files[p].put # 0 /\ files'[p].put # 0
          /\ files'[p].tag # files[p].tag
          => files'[p].put > files[p].put]_vars

\* Stages do not pile up: one that still has its marker belongs to the Put in
\* progress, or the user has been told (the cleanup failed, the process died),
\* or its create was given up on.
StagesCleaned ==
    \A i \in Puts :
        files[i].owner = i => i \in excused \/ (Putting /\ i = puts /\ pc \notin {"idle", "open"})

\* With the stages and answers of Put, Remove and Rename, a path is still a
\* register that is changed by compare-and-set: what the mount asks for takes
\* effect at once and at most once, whenever it arrives, or never, and only on
\* versions that the mount has read; an upload asks once, and is seen as a whole.
ImplementsLakeFiles == Registers!Spec
=============================================================================
