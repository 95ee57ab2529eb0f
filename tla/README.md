# A TLA+ model of fabric-workspace-fs

fabric-workspace-fs mounts a Microsoft Fabric workspace as a file system. It has
no database and no server of its own: everything durable is at remote services
(the Fabric API, the notebook content and resource APIs "MWC", OneLake), and the
program is a set of caches, leases, local spools and background goroutines around
them. What can go wrong is therefore mostly a matter of order: a load that
finishes after an invalidation, an answer that never arrives, an unmount during
an export.

This directory models that part of the program. Paths below are relative to the
root of the repository; `workspacefs/` is short for `src/internal/workspacefs/`,
and so on for the other packages.

## Inventory

| Component | State it keeps | Operations | What makes it correct |
|---|---|---|---|
| Bounded TTL cache (`cache/cache.go`) | entries, LRU list, expiry heap, byte counter, flights | `Get`, `GetWithTTL`, `GetWithin`, `Peek`, `PeekWithin`, `Invalidate`, `InvalidatePrefix`, `Clear` | no value from before an invalidation afterwards; loads are shared and end; budgets hold |
| Lease table (`workspacefs/types.go`, callers in `handles.go`, `mutations.go`) | `active`, `handles`, `writers`, `mutating`, `spools`, `changed` | `begin`, `mutation`, `acquire`, `notify`, `registerSpool`, `closeSpool` | one writer per key, mutations alone in their subtree, exact counts, no lost wakeup |
| Write-back spool (`writeback/file.go`) | spool file, size, `dirty`, commit closure | `Open`, `ReadAt`, `WriteAt`, `Truncate`, `Flush`, `Close` | what was written is remote, or still dirty and on disk |
| Notebook save (`workspacefs/definitions.go`, `definition_digest.go`, `mwc/notebook_content.go`, `fabric/definition.go`) | base and before of the commit closure | `notebookCommit` for both APIs | no silent loss; no update over a definition nobody looked at; a save is read back |
| Definition snapshots and gate (`workspacefs/snapshots.go`, `definition_gate.go`) | snapshot cache, `active`, `waiting`, `changed` | `sourceSnapshot`, `fetchDefinition`, `acquire`, `tryBackground`, `release` | slots are not leaked; nobody sleeps while a slot is free |
| Prewarmer (`workspacefs/prewarm.go`) | queue, `pending`, `saving`, `closed`, `done` | `StartPrewarm`, `run`, `warm`, `startNotebookCommit`, `close` | a queued target is never forgotten; unmount joins it |
| Transport (`transport/`) | none | `Request`, retry policy | only safe requests are sent again |
| OneLake client (`onelake/`) | none locally; private stage files remotely | `Put`, `Mkdir`, `Remove`, `Rename`, reads | commit by one conditional rename; cleanup removes only its own stage |
| Fabric client (`fabric/`) | the operation it polls | requests and long-running operations | a result belongs to the operation that was started |
| MWC client (`mwc/`, `resources/backend.go`) | caches of listings, contents and metadata; grants and capacities | reads, writes, grants | a write compares first; own changes are seen; deadlines are honest |
| Resource files (`workspacefs/resources.go`) | spool and base version of a handle | open, flush, create, rename, remove, mkdir, rmdir | nothing is overwritten that was not compared |
| Identity (`auth/`) | cached token and its renewal | `Token` | one acquisition at a time; a token of the account it says |
| Folder tree and catalog (`workspacefs/folders.go`, `catalog.go`, `managed_mutations.go`, `namespace/`) | cached tree, sticky aliases | listing, lookup, mkdir, rmdir; `Names`, `ReserveName` | a name stays with its object; rmdir deletes only what was emptied |
| FUSE adapter on Linux (`fusefs/*_linux.go`) | kernel invalidation jobs, server | callbacks, `Unmount` | a changed file is invalidated in the kernel; unmount ends |
| FUSE adapter on Windows and macOS (`fusefs/mount_cgofuse.go`) | table of handles, server state | callbacks, `Mount`, `WaitMount`, `Wait`, `Unmount` | the backend outlives every callback; what is reported as saved is saved |
| Command line (`cli/`) | control files with a secret | `mount`, `unmount`, background start | only a request for this mount cancels it |
| Overlay store (`overlay/`) | records, quotas, poison, containers | operations of `Store` and `File`, `New`, `Close` | records and quotas are what is on disk; a restart accepts what a run left |
| Cached API clients (`workspacefs/cached_clients.go`, `cache_policy.go`) | one cache per endpoint | reads through the caches, invalidation after writes | what a mutation changed is not served from a cache |
| Cache policy (`cachepolicy/`) | rules | matching | the most specific rule wins |
| Notebook formats, agent bundle, Python kernel runtime, test tooling | - | - | outside of the mounted system's core, see PROJECT.json |

How they interact. A FUSE callback takes a lease (`begin`), opens a snapshot, a
resource or a OneLake file, and gets a `writeback.File` whose `Flush` calls a
commit closure. The notebook closure prepares the document, reads the current
definition with the gate held, compares it, sends the update and invalidates the
snapshot cache; `startNotebookCommit` brackets it with two invalidations and
hands the notebook to the prewarmer. The resource closure compares fresh metadata
with its base and sends one unconditional write between two invalidations. The
OneLake closure uploads a private stage and renames it on condition of both
ETags. Reads go through caches, whose loaders take a slot of the gate for
definitions, and a token and a grant for resources. The prewarmer takes a slot
first and then uses the same cache, so it can wait for a foreground load while it
has a slot. The adapters run namespace mutations under the write lock of their
tree, answer the kernel, and have its caches invalidated (Linux), or close the
handles that a mutation concerns (Windows, macOS). Shared state is protected by
one mutex per component; the locks are not nested across components.

Hard behaviours: concurrent loads and invalidations; channels used as wakeups
that are replaced at every notification; lost and late answers from services
without conditional updates; listings read page by page while they change; caches
with deadlines of their own in one answer; process death with a dirty spool, a
stage or a control file; cancellation and timeouts at every blocking step;
background work that shares resources with the foreground.

## Modules

| Module | Models |
|---|---|
| `Cache` | `cache/cache.go` |
| `Leases` | the lease table of `workspacefs/types.go` with its callers |
| `LeaseTable` | the abstract specification that `Leases` implements |
| `NotebookSave` | `writeback/file.go` under `notebookCommit`, with the service |
| `Prewarm` | the definition gate, shared exports and the prewarmer |
| `LakeSave` | `onelake/write.go` under `openLake`, `Remove` and `Rename`, with the service |
| `LakeFiles` | the abstract specification that `LakeSave` implements |
| `Operation` | `fabric/operation.go`, `fabric/mutations_operation.go` over `Request` of `transport/client.go`, with the service |
| `Credentials` | `auth/identity.go` and the grants of `mwc/auth.go` |
| `Resources` | `workspacefs/resources.go` over `mwc/read.go` and `mwc/write.go`, with the service |
| `Namespace` | `workspacefs/folders.go`, `catalog.go`, `managed_mutations.go` and `namespace/catalog.go`, with the service |
| `Invalidator` | `fusefs/invalidation_linux.go` under the callbacks of `mount_linux.go`, with the kernel's caches |
| `PortableMount` | `fusefs/mount_cgofuse.go` under `mount`, `unmount` and the background start of `cli/cli.go` |
| `Overlay` | `overlay/store.go`, `overlay/file.go` |
| `Lists` | `container/list` as `Cache`, `Credentials` and `Resources` use it |
| `CacheProofs` (`Cache` and `Namespace`), `NotebookProofs` (`NotebookSave` and `Leases`), `RequestsProofs` (`Operation` and `Credentials`), `ResourcesProofs`, `MountProofs` (`PortableMount` and `Prewarm`), `LakeSaveProofs`, `LocalProofs` (`Invalidator` and `Overlay`) | theorems |
| `ListTheorems` | the lemmas on lists that they share |
| `MCCaches` (`Cache` and `Namespace`), `MCLeases`, `MCNotebookSave`, `MCPrewarm`, `MCLakeSave`, `MCRequests`, `MCResources`, `MCInvalidator`, `MCPortableMount`, `MCOverlay` | instances for TLC |

Operators marked `(mutant)` are deliberately wrong variants of the definition
that follows them. They are used by no specification; substituting one for the
definition must break the property that PROJECT.json lists it under, which shows
that the property depends on that line of the code.

### Cache

An action is one critical section of `c.mu`, or one step outside of it that
somebody else can observe. A caller goes from `Begin` (arguments and `c.now()`,
read *before* the lock) to `LookupHit`, `LookupMiss` (as leader or by joining a
flight) or `LookupCanceled`; a leader then reads the source (`LoadRead`), leaves
the loader (`LoadReturn`, `LoadFail`) and runs `complete` (`Complete`); a joined
caller leaves by the leader's `Complete` or by its own context
(`WaitCanceled`). A value is the version of the source it was read from. The
store is a record of entries, LRU list and byte counter; the expiry heap is
represented by the deadlines of the entries, since `expireLocked` removes
exactly the entries whose deadline has come. `floor`, `latest` and `detached` are
history variables that no guard reads: the version of the source at the last
invalidation of a key, the version that the last load of the key gave that
completed while it was attached, and the loads that an invalidation has cut. A panicking loader takes the deferred `complete`
with `errLoadAborted`, which is `LoadFail`.

### Leases

A client is one goroutine: an open or create for reading or writing, or a
mutation of a set of keys. `Try` is one pass of the loop of `acquire` under
`FS.mu`; `parked` and `signaled` say whether the channel that the client holds
has been closed. `GiveUp` is the end of its context or of the wait. `Release` is
the release closure under its `sync.Once`, `ReleaseAgain` is the second call
that `openLake` makes on its failure path. `RemoteRename` changes the key of a
notebook: `Entry.Key` ends in the file name of the content file, which follows
the display name.

### NotebookSave

One writer, as the lease table allows for one key. `FlushStart`, `Prepare`,
`Preflight`, `Reconcile`, `Update`, `Confirm`, `Fail`, `InvalidateAgain` and
`FlushEnd` are the steps of one flush; everything the rest of the world may do
comes in between: `Edit` (another client), `Apply` and `Drop` (the service
applies a request, perhaps long after the client has given up on it, or never),
`LoadRead` and `LoadPublish` (a reader of the same mount fills the snapshot
cache), `Expire`, `Crash`. `setup` says how the process has mounted the
workspace. With `ContentAPI` the commit is an unconditional PUT
that the transport may send again (`Retry`). `Prepared` is the conversion of the
local text into what is stored: it is not injective (widget state is moved) and
partial (`Invalid`).

### Prewarm

Foreground callers that read or save notebooks, and the worker. `Acquire` is one
pass of the loop of `definitionGate.acquire`; `Source` is `GetWithin` on the
snapshot cache reduced to hit, join and lead. The worker is `run`, step by step:
`select` may choose a target although its context is done, `pending` is removed
only after the receive, and `warm` reserves its slot before it looks for a
flight.

### LakeSave

One operation of the mount at a time, as its leases allow for one path and for
the paths of a rename: an open handle that is flushed, a create, a delete or a
rename. `Put` is followed request by request: create of the private stage,
appends of the chunks, flush, stat, conditional rename, verification, and the
cleanup that looks at the stage's marker before it deletes. A request is asked
and answered in one step, or it is given up on and stays in `late`, from where
the service may still apply it (`Deliver`) or never does. Other clients write and
delete paths, and stages too (`Edit`); the process may die between any two
requests (`Crash`). A stage is named by the number of its upload, since the
random name does not repeat; a file is its ETag, its content, how much of it has
been flushed, and the owner in its marker. `reached` (the path had what was
written), `known` (the paths whose present version the mount has looked at) and
`excused` (stages that the program knows it may leave behind) are histories.

`LakeFiles` is what all that amounts to: every path is a register that holds whole
versions, and the mount changes it by requests that name the versions they are
about. `Ask` is the moment before the conditional request of `Commit` or
`DeletePath` is sent, for versions that have been read; `Save`, `Move` and `Delete`
are the moment at which the service applies it, which may be the answered request,
a late one, or never; `Other` is another client. Stages, appends, HEAD requests and
answers are steps that the registers do not see (`Elsewhere`). The mapping takes as
`asked` the late requests and that of the current step as long as the versions
they name are there (`Outstanding`), so one that has been applied, or overtaken,
is not asked for any more; and an upload asks once (`Current`).

### Operation

A call reads a definition, updates a notebook, creates an item, or is a plain
write without an operation to follow. `PostDone`, `PostAccepted` and `PostFails`
are the first request and its answer, `Wait`, `Poll` and `Result` the rest of
`operation` and `createOperation`, which are the same protocol with other limits.
`Unanswered` is one round of the loop of `Request`: another attempt if the
request is safe to send again. `Targeted` and `Same` are the checks of
`operationTarget` and of the polling loops on the two headers that may name an
operation. The service is external: `Deliver` applies a request that the client
has given up on, `Finish` ends an operation. It is trusted to announce the
operation that a POST has started and to tell the state of the one it is asked
about; headers are otherwise arbitrary. Operations are numbered in the order in
which they are started.

### Invalidator

The kernel is external: it keeps attributes and entries that answers carried,
locks a directory during LOOKUP and namespace requests, and makes an entry
notification wait for that lock. A copy is `none`, `fresh` or `stale` compared
with the mounted tree. A callback is `Enter` (the tree's lock and `reserve` or
`check`), one of `Read`, `Mutate` and `MutateFails` (the backend), `Leave` (the
attributes of a file with a writer are made uncacheable, then the deferred
`changed`) and `Answer`. The coordinator is `run`: `Awake`, `Stop`, `Collect`,
`NextJob`, `NotifyAttr`, `NotifyEntry`, `Settle`. An answer older than an
invalidation does not bring the copy back; the kernel has version counters for
attributes, and the directory lock for entries. The attributes of the directory
are reserved and notified together with the entry and are not told apart from it.

### Credentials

What one request for resources is sent with. A caller asks for a token
(`TokenHit`, `TokenMiss`; one caller runs `Acquire`, the others take what it
publishes), looks up the capacity (`Identify`), and asks for a grant
(`GrantHit`, `GrantMiss`, `LoadGrant`, `FinishGrant`, `TakeGrant`), which it then
sends with every attempt (`Send`). `GrantMiss` drops a grant as soon as it is to
be renewed: that is why `finishGrant` never finds an older element of its key in
the list, which is what `GrantsBounded` is about. The identity provider and the
clock are external: somebody else signs in, the workspace is moved (`Change`),
time passes (`Tick`).

### Resources

An operation is the list of the steps it has yet to do, built by `Program` as the
code would call them: cached looks (`Look`, `LookDir`, `List`, `Meta`, `Snap`),
fresh comparisons (`Check`, `CompareVersion`, `CheckEmpty`), the request (`Send`,
`Confirmed`, `Refused`), and what `Rename` looks at afterwards (`Same`, `Gone`).
`Load` and `Deliver` are a cached read; whether a load is retained is decided
when it is delivered, as in `Cache`. `Apply` is the service, now or after the
client has given up; a move may stop half way. The version of a file is its
content, of which the code's is a hash. `raced`, `behind` and `oldest` are
histories: what others have changed since it was compared, whether a cached value
is from before a change of this mount, and the age of the oldest observation.

### Namespace

A listing is read page by page while it changes, and becomes a tree only if it is
whole (`buildFolderTree`); one caller leads, the others join its load. `Answer` is
`managedChildren` with `Names`; `CheckName`, `Resolve`, `Verify`, `ListRoot`,
`Send` and `Confirmed` are the steps of mkdir and rmdir. The catalog is the
function `assigned` from directory, object and label to a name; it only grows.
`Names` is the set of the catalogs that a listing may lead to, those in which each
new key has a free label or the lowest free ordinal; aliases with different
ordinals differ, so there is one. `op` and `request` are functions from the
clients that are being served and whose request the service still has.
`Alias` says which name an ordinal makes of a label, so a label may read like the
alias of another one. `shown`, `made` and `removed` are histories of what callers
have been told.

### PortableMount

One process mounts at a time. Its main goroutine goes through `mount` of
`cli/cli.go` (`main`: mounting, visible, ready, control, publish, prewarm, serving, unmount,
waiting, closing, exiting, closed, down), the
serving goroutine through `Mount` of the runtime (`host`), the control goroutine
watches for a request (`watch`), and callbacks of the runtime run in threads,
each of which has taken `portableHandle.mu` or is about to. `cli` is the unmount
command and `starter` the one that waits for a mount in the background. A timeout
may strike whenever it is armed; `Crash` leaves the control files. The secret of
a process is its number. A handle has changes that are not remote (`dirty`),
counts as `flushed`, and is marked as `closed` by the adapter, while its backend
handle is `gone` once `Close` was called, which reports an error if there are
changes. `acked` is history: the last flush, fsync or release since the last
change has reported success.

### Overlay

Every operation runs under `Store.mu` and is one action, with an outcome for each
step on the disk that may fail, and for a death of the process between two of
them. `New` scans the disk and takes it over; `Refuse` is a scan that finds what
the limits do not allow. `Meddle` is somebody else who changes the storage, after
which only the types hold. A node is the identity that `os.SameFile` compares; a
new file has any node that nobody refers to (`Unused`), and an action that makes
something is taken while there are enough of them (`Suffice`). The quota of bytes is a
sum over files, written as the number of their units (`SumOver`), and a rename
replaces the beginning of every path below its source (`Onto`, `Moved`).

## Runs

| Run | Bounds | Shows |
|---|---|---|
| `caches` | of `Cache`, either 2 callers, 1 key, 1 change of the source and a stopped clock, or callers one at a time, 3 keys, sizes -1, 1, 2, 4, 2 entries, 3 bytes and a clock to 2, and ages and retentions of 0 and 2; or, of `Namespace`, 2 folders, a Lakehouse and an item that is not shown, 1 edit, 2 listings, 1 mkdir, 1 rmdir, 3 operations | invalidation is final, reads do not go back, waiters have a leader, budgets and list agree with the entries; names stay, own changes are seen, mkdir makes what was asked for, rmdir deletes only what has been emptied |
| `leases` | 3 clients, 4 keys, 2 handles, 2 writers | counts, exclusion, wakeups, and the refinement of `LeaseTable` |
| `lease_rename` | the same | *violation*, see Findings |
| `notebook_save` | 3 contents and an empty one, 2 other parts, 2 edits, 2 requests, either API | nothing is lost, updates follow what was seen, saves are read back |
| `prewarm` | 2 readers, 2 slots, 2 notebooks, queue of 1, fairness; one reader reads and saves the first notebook, the other reads the first and saves the second | marks and queue agree, sleepers wake, close ends the worker |
| `requests` | 2 calls, 1 retry, 3 applied requests; or 2 callers, 2 accounts, 2 capacities, room for 2 grants, lifetime 2, one sign-in or one move | a write is applied once, outcomes are of the call's own operation; a request has a grant of its own account, target and capacity, and map and list of the grants agree |
| `lake_save` | 1 path and 2 uploads, or 2 paths and 1; 1 edit, a content of 2 chunks, no rename after the third version | nothing is lost, commits are whole and in order, only versions that were read are replaced, stages are cleaned up |
| `invalidations` | 2 requests, 2 names, 1 slot, fairness; one renames either way or creates, writes and closes the second name, the other looks that up or changes its mode | no change is forgotten, slots come back, stale copies end, close returns |
| `overlay` | 1 scope, 2 names on 2 levels, 3 entries, 2 bytes, 2 handles, 6 nodes | records and quotas are what is on the disk; a restart accepts what a run has left |
| `resources` | a directory with one file and a file beside it, one changer (an operation and a save), one reader (1 operation), 1 edit or 1 tick | own changes are seen, deadlines are honest, a rename happened, nothing is overwritten that was not compared |
| `portable` | 2 threads, 2 handles of one file, 2 processes | the backend outlives every callback, what is reported as saved is saved, only the own request cancels |
| `portable_release` | the same | *violation*, see Findings |

Why the bounds are enough. Races over one flight need a leader and a joiner,
either of which can be the caller that comes after the invalidation; one key is
enough there, since keys share only the store, which the second part of the run
stresses with three keys for two places and sizes that force the eviction of one,
two or no entries. A lost wakeup needs a holder, a releaser and a sleeper: three
clients. A service can be surprised by one late request and one edit; two of each
also allow for a conflict after a reconciled save. Two slots are the least the
gate's argument needs (one for the worker, one for the foreground); the code has
four. A late request of one upload can meet the next one: two uploads, and two
chunks make a partial stage. Two calls and three operations are enough for one to
be mistaken for another, and for a second request of either. Two accounts and two
capacities make four keys for two places. A rename needs two names; two requests
are one that holds a lock and one that waits for it, and one slot makes the
coordinator full at once, which is when it could deadlock (the code has 256). A
name can be mistaken for another when a label reads like an alias, which the
labels of `caches` do. Two processes are one that has left its control files
and one that finds them.

An MC module restricts its instance only where a combination is too large, and
says how. `MCPortableMount` opens handles in the first process only, while the
control files are idle and before the unmount begins: handles and control files
meet only in `mountCtx`, whose cancellation is in the model of both. `MCCaches`
runs `Cache` or `Namespace`; callers of the cache retain for at least the age they
accept, as every caller in the repository does, and the tree starts from an empty
workspace or from one with an item. `MCResources` has either
an edit or a tick. `MCRequests` runs `Operation` and `Credentials` side by side:
all that the first needs of the second is a token, the lack of which is one of
its own failures.

Bounds in guards are `MaxClock`, `MaxVersion` (cache), `MaxEdits`, `MaxSends`
(notebooks), `MaxPuts`, `MaxEdits`, `MaxTags` (OneLake), `MaxOps` (operations),
`MaxTime` (credentials, resources), `MaxEdits` (resources, namespace), `MaxRuns`,
`MaxHandles` (portable mount) and those in MC modules; the others are limits of
the code itself. Symmetry is used for callers, clients, calls, threads, paths,
names and other parts, where no liveness is checked.

Deadlock is checked except in the runs where the system really may stop: after
`Close` of a mount (`invalidations`), after the last process has ended
(`portable`, `portable_release`), and when every client has done what the instance
lets it do (`resources`, `caches`).

Fairness. Two specifications state it. `Prewarm!Fairness` is weak fairness of each
reader's and of the worker's own steps: the Go scheduler runs runnable goroutines,
mutexes are held for bounded time, and exports end because every request has a
deadline. Nobody is assumed to cancel, to give up or to run into the timeout of
`close`; the worker leaves a joined flight only once its context is done, which is
what `select` on `ctx.Done()` gives. `Invalidator!Fairness` is weak fairness of
callbacks and coordinator, and strong fairness where they take a lock that others
take in between: the tree's `RWMutex` (`Enter`) and the kernel's directory lock
(`NotifyEntry`), both of which are handed out in turn. All other modules are
checked for safety; `WaitersHaveLeader`, `WakeupsAreKept` and `StagesCleaned` say
what can be said of waiting and of cleanup without fairness.

## Proofs

TLAPS proves the following for every value of the constants that satisfies the
named assumptions (`CacheAssumption`, `LeasesAssumption`,
`NotebookSaveAssumption`, `OperationAssumption`, `CredentialsAssumption`,
`ResourcesAssumption`, `NoneAssumption`, `PortableMountAssumption`, `PrewarmAssumption`, `LakeSaveAssumption`,
`InvalidatorAssumption`, `NamespaceAssumption`, `OverlayAssumption`), which TLC
evaluates on the instances. The type invariants are proved where there are
theorems, so no run lists them; that of `Overlay` is there for
the reader, and holds when it is added to the configuration. So does
`ImplementsLakeFiles`, which makes `lake_save` take twice its time and is left to
its theorem; `CommitAnyStage` breaks it.

* `CacheProofs`. `IInv` adds to the properties that attached flights are led by
  a caller of that key (`FlightsLed`), that floors are not above the source
  (`FloorsBelow`), and, the point of the argument, that the value a leader holds
  is at least as new as the floor of its key while its flight is attached, and
  as the floor each of its joiners has to respect (`HeldFresh`). Without it
  nothing is known about what `Complete` publishes. The same holds of `latest` in
  place of the floor: a leader that is attached began after the last load of its
  key had completed, since one key has one attached load, so it reads the source
  later. Theorems: `TypeCorrect`, `InvalidationIsFinal`, `ReadsAdvance`,
  `LoadSharing` (`LoadsShared` and `WaitersHaveLeader`) and `BudgetsKept`. The last
  one needs a sum over the entries, which as a fold would need induction over
  data. So the sum is the cardinality of a set of pairs, one for each byte
  (`Bytes`), and adding or removing an entry adds or removes a finite set
  (`SumOf`). Expiry and eviction remove a set of keys at a time; `StoreSound`,
  that list, entries and counter agree, is kept by each of them and by a hit,
  and `Greatest` gives the least number of evictions that makes the entry fit.
  Of `Namespace`: `NInv` has seven parts. `Bound` says that the names of a
  directory are an injection that only grows: the one lemma about the catalog
  (`Naming`) shows that any choice `Names` leaves keeps it so, since a free label
  goes to one object, and an ordinal is taken only if no other key has the name.
  `Locked` says that who makes or removes a directory is alone, and that a load
  serves requests that have no tree yet, so whoever invalidates meets no load that
  began before. From it follow `Seen` (the retained tree, the one being listed,
  as far as it has been, and those in use show what the mount has made and
  removed) and `Sent`: what a mkdir has made has no name before the answer, and
  the name it was asked for stays free from `CheckName` on. `Looked` follows a
  rmdir: the trees it may see from `Resolve` on were listed after it began, so
  what was in the directory then and still is must show in them. Steps of the
  service change only `remote`, `data` and
  what counts as still inside (`Thins`), other steps one request at a time
  (`Stepped`). Theorems: `NamespaceInvariant`, `AliasesKept`, `OwnChangesShown`,
  and the action properties `DirectoriesAsAsked` and `DeletesLookFirst`.
* `NotebookProofs`, about what a mounted notebook relies on.
  Of `NotebookSave`: `SInv` relates each step of the commit to what the
  remote has had: `ReachedNoticed` (when the wanted content was stored, that is
  recorded), `CommitExact` (what the step knows of base, wanted and seen
  definitions), `RequestsExact` (a request in the network wants what the commit
  wants, or is an old one) and `SnapshotsNewer` (cached and attached snapshots
  are not older than the last successful save). Theorems: `SavesTyped`,
  `SavesAreKept`, `ReadsFollowSaves`, `UpdatesAreBased`.
  Of `Leases`: `LInv` adds the shape of requests (`OpsShaped`) and that
  `mutating` says whether there is a mutator (`FlagExact`). The counts are
  cardinalities of sets of clients, so each grant and release is a lemma about
  adding or removing one client, for finitely many clients. Theorems:
  `TypeCorrect`, `CountsAreExact`, `WakeupsAreKept`, `Exclusion`, and
  `Refinement`: the lease table implements `LeaseTable`.
* `RequestsProofs`, about two components that share nothing but their callers.
  Of `Operation`: `OInv` adds that a call polls an operation of its own
  (`TargetsOwn`), that nothing has become of a POST that is still to be sent
  (`UnsentClean`), and that a write in the network is the only trace of its call
  (`LateAlone`), without which a late request could be the second one. The steps
  after the POST share one lemma (`FollowKeeps`), since `SameTarget` shows that
  no header moves them to another operation. Theorems: `TypeCorrect`,
  `WritesApplyOnce`, `OutcomesAreOwn`.
  Of `Credentials`: `GInv` adds that every retained grant was issued for the
  account, target and capacity of its key (`Issued`), and what each step of a
  caller has in hand (`Shaped`): a grant only for the key that it asks for.
  `Retained` adds that a key in flight is not in the table and that who loads a
  grant is the caller of its flight, so `finishGrant` puts a key in front that is
  not in the list. Theorems: `CredentialsTyped`, `GrantsAreOwn`,
  `GrantsAreBounded`.
* `ResourcesProofs`. An operation is the list of the steps it has yet to do, so
  its invariant is about that list. `Ordered` says which steps never come behind
  which (a comparison not behind the request, a lookup not behind the fresh one),
  `Linked` what follows the request immediately, `Covered` which steps there are
  together, and that a path without a comparison to come is expected to be
  absent. All three hold of every `Program`, and are kept by a step and by
  leaving steps out (`AfterShaped`, `KeptShaped`). `Base` then relates what is
  left to what the service has: a path that is neither checked nor compared any
  more is as expected (`Compared`), or somebody else has changed it; so is one of
  a request that has not taken effect (`Promised`), however late it is; and a
  rename that has looked at target and source has found them so (`Moved`).
  `OwnChangesAreSeen` has an induction of its own on top: an operation that has
  sent its request goes on to the return, or ends, and both invalidate. Theorems:
  `StepsHold`, `NothingUnseenIsOverwritten` (an action property),
  `OwnChangesAreSeen`, `DeadlinesHonest`, `RenamesHappened`.
* `ListTheorems`. `Keeping` removes elements from a list; what is left is known by
  counting places (`Ranks`), which needs facts on finite sets but no induction:
  which elements (`Keeps`), in which order (`KeepsPlaces`), and how many
  (`Distinct`). `Firsts`, `Joins`, `Rest` and `InFront` are about prefixes,
  concatenation, and the two ends.
* `LakeSaveProofs`. `LInv` says, beside types, what each step of an upload, a
  rename or a delete knows of its paths (`Step1`), and that every request on its
  way is `Due`: the versions it is conditional on are ones the mount has read, are
  whole, and are of earlier uploads. A request that is due stays due
  (`DueKept`), because an ETag is not given out twice: whatever the service does
  (`Evolves`), a file that has the expected version is the very file that was
  looked at. That is why a request may arrive after the client has given up on
  it, and after the process has died. Every step is then one of the client, one
  that sends a request (`Asked`, `AskFailsKeeps`) or one of the service
  (`Moved`).
  For `LakeFiles`, a request that may take effect after a step could have done so
  before it, on the very same versions (`Outlives`, from `Due` and from tags that
  are not given out twice); so no step but `CheckTarget` and `Remove` adds to what
  is outstanding (`Fewer`), and whatever is applied to a path is a step of the
  registers after which the request is gone (`TakesEffect`). Theorems:
  `TypeCorrect`, `SavesAreKept`, `CommitsAreExact`, `CleanupIsComplete`,
  `OverwritesAreKnown`, `SavesAreInOrder`, `LakeFilesImplemented`.
* `MountProofs`, about a mount and the worker in its background.
  Of `PortableMount`: `PInv` adds that a handle that still has its backend
  handle is in the table or being released (`Accounted`), that nothing runs or is
  open before the runtime calls `Init` and after serving has stopped (`Silent`),
  and that `mount` leaves either with the serving goroutine gone or with the
  backend kept (`Leaving`). `SuccessMeansSaved` needs to know
  that a handle that is marked as closed has no changes as long as it may still
  be flushed or released (`Saved`), which are the calls that report success for
  it without a look; and that a release has its handle to itself and an id is not
  used twice (`Taken`), since the handle that a release leaves is closed and may
  well have changes. `CanceledByOwn` rests on the secrets alone: a request on disk names a run
  whose state an unmount command has read (`Signed`). Theorems: `TypeCorrect`,
  `BackendIsKept`, `SuccessIsSaved`, `OnlyOwnRequests`.
  Of `Prewarm`: `WInv` says what the counters count. `active` is the number of
  actors at a label where they hold a slot, `waiting` of those between the two
  updates of it (`GateExact`), and `saving` of the saves of a notebook
  (`SavesExact`); so every step is a lemma on who enters or leaves one of these
  sets, and most steps leave them alone (`GateAside`, `SavesAside`). For the queue
  (`QueueExact`) a target that was just received is not queued a second time
  before its mark is removed, and a prewarmer that is being closed queues nothing:
  without the first, removing the mark could leave a queued target unmarked.
  `Accepted` says what a list of targets adds to the queue at once, so discovery
  needs no induction. Theorems: `PrewarmTyped`, `GateCounts`, `MarksMatchQueue`.
* `LocalProofs`, about what is kept on this machine.
  Of `Invalidator`: `IInv` says who uses a job of the table. A job that is
  retired is the coordinator's alone (`RetiredLast`); a request that is going to
  retire its job has it for itself (`Retirer`); one that does not is about a
  handle that is open (`OnOpenHandle`), and no two handles share a job
  (`Referred`). That is why `Settle` never frees a slot that somebody still
  has, and why the job of a write is there when it calls `changed`. What a
  request may change is in the targets of its job before the backend is called
  (`Covered`). All of it holds until the server stops: then the table is
  emptied under the callbacks that still run, and `closed` is the case that both
  properties leave out. Theorems: `TypeCorrect`, `NoChangeForgotten`,
  `NoSlotLeaks`.
  Of `Overlay`: neither property is inductive without the other, nor are both
  together. `OverlayInv` says, as long as nobody else has changed the storage, that
  it is a tree (`Tree`: what is above a path exists and is a directory, a node has
  one path, so a file has no hard link, and a path is of a known scope), that the
  limits hold on it (`Limited`), and of a store that takes operations that its
  records are exact (`Accounted`) and every handle is of the file at its path
  (`HandlesExact`). The limits hold because they are enforced on quotas that are
  exact; the quotas stay exact because a record is of the node that is there. The
  proof first speaks of any storage, as paths with their nodes, directories and
  sizes: adding new paths below existing directories (`ExtendedKeeps`), removing
  what has nothing below it (`ShrunkKeeps`), changing the size of one file
  (`ResizedKeeps`) and moving what is below a path (`MovedKeeps`) keep the tree
  and change records, counts and bytes by what the code adds or subtracts. Bytes
  are counted by node, so a move changes none, and an entry is counted by its
  path, which a move only renames (`OntoBack` and the lemmas around it:
  paths that begin with the source and their new names determine each other). A
  lemma per action then only finds the right one of the four. No theorem says
  anything after a `Meddle`, or of a poisoned store, beyond the storage itself.
  Theorems: `OverlayConsistent`, `AccountsAlwaysForDisk`, `RestartAlwaysAccepts`.

Only model-checked: liveness (`SleepersWake`, `CloseEndsWorker`, `StaleEnds`,
`CloseEnds`), which is out of the prover's reach.

## Findings

`lease_rename`: `docs/FILESYSTEM.md:624` says "Only one writable handle per
remote file is permitted in a mount". The lease key of a notebook's content file
contains its file name (`workspacefs/types.go:113`), which follows the display
name. A writer that opens the notebook after it was renamed remotely has another
key, and is let in while the first writer is still there. The run shows both of
them. `WriterOwnsKey` and `NotebookSave` are about one lease key; with two
writers of one notebook the preflight of each still detects the other's saves.

`portable_release`: `docs/FILESYSTEM.md:636` says, without naming a platform, that
"`Release` does **not** attempt a last, unreportable upload". The adapter for
Windows and macOS does: a handle that does not count as flushed is flushed by its
`Release` (`fusefs/mount_cgofuse.go:629`), and a test expects it
(`TestPortableAdapterNotebookSaveOnReleaseWithoutFlush`). The run shows a release
that saves what was written before.

## Known, and not covered by a property

The models show, or the code makes plain, some behaviours that no property can
claim the contrary of:

* The control files of a mount are removed also when its unmount has failed or
  timed out (`cli/cli.go:516`), so the unmount command may report success while
  the mount still serves; `docs/FILESYSTEM.md:189` has it otherwise. In
  `PortableMount` this is `host` still stopping with `state = 0`. Likewise the
  command that starts a mount in the background may report the state of an
  older one (`cli/cli.go:582`).
* An update that was given up on may be applied after a later successful save
  (`workspacefs/definitions.go:420`), and so may the write of a resource file
  (`mwc/write.go:244`). The services offer no conditional update there, and
  `docs/FILESYSTEM.md` disclaims compare-and-swap.
* A write of the portable adapter that fails half way leaves `flushed` as it was
  (`fusefs/mount_cgofuse.go:559`). A rename or remove on Windows then closes the
  handle of this dirty writer (`fusefs/mount_cgofuse.go:716`) and goes on, although
  `docs/FILESYSTEM.md:643` says "dirty writers remain protected and still return
  `EBUSY`". What was written stays in the spool, the handle is not marked as closed,
  and the next flush or release reports the error, which is what
  `SuccessMeansSaved` shows.
* A flush that waits for the handle while a release has it answers success
  afterwards (`fusefs/mount_cgofuse.go:607`), whether or not the release could save
  the changes; the success does not count in `SuccessMeansSaved`. Runtimes release
  a file when no other call of it is left.
* A `Release` after an accepted unmount flushes with a context that is done
  (`fusefs/mount_cgofuse.go:630`): the flush fails, and reports it.
* A caller of the cache reads the clock before it gets the mutex (`cache/cache.go:142`),
  so the age that it accepts is measured at that moment; nothing bounds the age
  when the answer arrives. `ReadsDoNotGoBack` says nothing of the value of a load
  that an invalidation has detached: it is handed to those that had joined it.
* The overlay store may rename onto the path of an entry that has disappeared
  from the disk (`overlay/store.go:344`); that takes somebody who changes the
  storage, which `AccountsForDisk` excludes.
* mkdir may fail after it has created the folder, when its name cannot be bound
  (`workspacefs/managed_mutations.go:81`); the folder stays.
* A caller that has joined the acquisition of a grant gets its leader's
  cancellation as an error (`mwc/auth.go:190`), and may simply ask again.
* A listing may be torn between two pages (`workspacefs/folders.go:104`); it is
  used if it makes a tree.

## Not modelled

PROJECT.json lists every component with the reason. In particular:

* Text: formatting and parsing of notebooks, HTTP encoding, header and URL
  checks, the parsing of expiry times, `ParseCreation` and the sanitising of
  display names. They are functions on data, and enter the models as such.
* Reads that change nothing: stat of folders and items, range reads, attribute
  encoding, kernel timeouts.
* `nextSuffix` of the catalog, which only saves the search for a free ordinal,
  and the names of workspaces, which have a scope of their own.
* Notebook and Environment directories in rmdir, which always refuse.
* OneLake directories and the unmount sequence of `server_linux.go`.
* The cache policy: the matching of rules is a pure function of configuration.
* The overlay store is modelled as the library it is, although
  `workspacefs.New` rejects the options that would reach it.
* The agent bundle, the Python kernel runtime, the test servers and smoke tests
  are not part of the mounted system.

## Plan

1. OneLake directories, and the unmount sequence of `fusefs/server_linux.go`.
2. Cache policy matching as a pure algorithm against "the most specific rule
   wins".
3. `Resources` with two changers at a time, once its state space allows for it.
