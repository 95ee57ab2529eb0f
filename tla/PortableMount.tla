--------------------------- MODULE PortableMount ---------------------------
(***************************************************************************)
(* The mount command on Windows and macOS: internal/cli/cli.go with its    *)
(* control files, the server of internal/fusefs/mount_cgofuse.go, and the  *)
(* adapter's table of handles, from the start of a process to its end.     *)
(*                                                                         *)
(* One process at a time mounts the mountpoint; it may die at any point    *)
(* and be started again.  Its main goroutine, the goroutine that serves,   *)
(* the callbacks of the FUSE runtime, the control goroutine, the unmount   *)
(* command and the command that started it in the background take their    *)
(* steps in any order.  Timeouts may strike whenever they are armed.       *)
(*                                                                         *)
(* The runtime (WinFsp, macFUSE) calls Init before anything else, ends its *)
(* callbacks before Destroy, and Destroy before Mount returns.  File ids   *)
(* are not used again.                                                     *)
(***************************************************************************)
EXTENDS Integers, FiniteSets, Functions

CONSTANTS
    Threads,    \* threads of the FUSE runtime
    Files,      \* files that are opened: the keys of their entries
    MaxHandles, \* bound on the handles opened by a process
    MaxRuns,    \* bound on the processes started
    None

Ids == 1..MaxHandles

\* portableHandle and its backend handle, which has changes ("dirty") and is
\* closed at last ("gone").  "acked" is history: the last flush, fsync or release
\* since the last change has reported success.
Handle == [file : Files, writing : BOOLEAN, dirty : BOOLEAN, flushed : BOOLEAN,
           closed : BOOLEAN, gone : BOOLEAN, acked : BOOLEAN]

\* What a thread is doing: a callback on a handle, one that opens, or one that
\* closes handles and then renames or removes.
OnHandle == [op : {"write", "flush", "release"}, at : {"got", "locked"}, what : Ids]
Opening  == [op : {"open", "create"}, at : {"opening"}, what : Files]
Mutation == [op : {"mutate"}, at : SUBSET Ids, what : Files]

ASSUME PortableMountAssumption ==
    /\ MaxHandles \in Nat /\ MaxRuns \in Nat
    /\ None \notin Threads /\ None \notin Handle
    /\ None \notin OnHandle /\ None \notin Opening /\ None \notin Mutation

VARIABLES
    run,      \* the number of the process, which is also its control secret
    main,     \* the step of mount
    keep,     \* mount: ~closeBackend
    backend,  \* "none", "open" or "closed"
    canceled, \* mountCtx is done
    host,     \* the runtime: none, starting, mounted, stopping, stopped (external)
    ready,    \* portableServer.ready is closed
    failed,   \* portableServer.serveErr # nil
    cut,      \* portableFS.ctx is done
    state,    \* the secret in the state file, or 0
    asked,    \* the secret in the request file, or 0
    watch,    \* mountControl: "none", "watching" or "ended"
    cli,      \* the unmount command: its step and the secret it has read
    starter,  \* the command with --background: "idle", "polling", "reported"
    stopped,  \* history: processes whose serving has stopped
    told,     \* history: processes whose state an unmount command has read
    handles,  \* portableFS.handles: the ids in the table
    next,     \* portableFS.next
    obj,      \* portableHandle by id
    held,     \* portableHandle.mu by id: the thread that has it, or None
    sweeper,  \* the thread that holds portableFS.mu in closeMutationHandles
    thread    \* the callback of each thread: op, step and id or file

process == <<run, main, keep, backend, canceled, stopped>>
server  == <<host, ready, failed, cut>>
control == <<state, asked, watch, cli, told, starter>>
table   == <<handles, next, obj>>
locks   == <<held, sweeper, thread>>
vars == <<process, server, control, table, locks>>

Done == host = "stopped"    \* portableServer.done

NewProcess ==
    /\ keep' = FALSE /\ canceled' = FALSE
    /\ ready' = FALSE /\ failed' = FALSE /\ cut' = FALSE /\ watch' = "none"
    /\ handles' = {} /\ next' = 1 /\ obj' = [i \in Ids |-> None]
    /\ held' = [i \in Ids |-> None] /\ sweeper' = None
    /\ thread' = [t \in Threads |-> None]

Init ==
    /\ run = 0 /\ main = "down" /\ keep = FALSE /\ backend = "none" /\ canceled = FALSE
    /\ stopped = {}
    /\ host = "none" /\ ready = FALSE /\ failed = FALSE /\ cut = FALSE
    /\ state = 0 /\ asked = 0 /\ watch = "none"
    /\ cli = [at |-> "idle", secret |-> 0] /\ told = {} /\ starter = "idle"
    /\ handles = {} /\ next = 1 /\ obj = [i \in Ids |-> None]
    /\ held = [i \in Ids |-> None] /\ sweeper = None
    /\ thread = [t \in Threads |-> None]

-----------------------------------------------------------------------------
(* The mount command *)

\* mount up to the serving goroutine of Mount; in the background, somebody
\* waits for it.
Start(background) ==
    /\ main = "down" /\ run < MaxRuns
    /\ NewProcess
    /\ run' = run + 1 /\ main' = "mounting" /\ backend' = "open" /\ host' = "starting"
    /\ starter' = IF background THEN "polling" ELSE "idle"
    /\ UNCHANGED <<stopped, state, asked, cli, told>>

Goto(m) == main' = m /\ UNCHANGED <<run, keep, backend, canceled, stopped>>

\* mount ends for good without closing the backend.
Unconfirmed == main' = "exiting" /\ keep' = TRUE /\ UNCHANGED <<run, backend, canceled, stopped>>

\* WaitMount within Mount: ready, ended, or neither in time, when Mount hands
\* out the server all the same.
WaitMount ==
    /\ main = "mounting"
    /\ \/ ready /\ ~Done /\ Goto("visible")
       \/ Done /\ Goto("exiting")
       \/ ~Done /\ Unconfirmed
    /\ UNCHANGED <<server, control, table, locks>>

\* waitPortableMountVisible, or failedMount.
WaitVisible ==
    /\ main = "visible"
    /\ Goto("ready") \/ Goto("unmount")
    /\ UNCHANGED <<server, control, table, locks>>

\* WaitMount of mount.
WaitReady ==
    /\ main = "ready"
    /\ IF Done THEN Goto("unmount") ELSE Goto("control")
    /\ UNCHANGED <<server, control, table, locks>>

\* startMountControl removes what a former process has left ...
RemoveStale ==
    /\ main = "control"
    /\ \/ Goto("publish") /\ state' = 0 /\ asked' = 0
       \/ Goto("unmount") /\ state' \in {state, 0} /\ UNCHANGED asked
    /\ UNCHANGED <<watch, cli, told, starter, server, table, locks>>

\* ... and writes its own state.
Publish ==
    /\ main = "publish"
    /\ \/ Goto("prewarm") /\ state' = run /\ watch' = "watching"
       \/ Goto("unmount") /\ UNCHANGED <<state, watch>>
    /\ UNCHANGED <<asked, cli, told, starter, server, table, locks>>

StartPrewarm ==
    /\ main = "prewarm"
    /\ Goto("serving") \/ Goto("unmount")
    /\ UNCHANGED <<server, control, table, locks>>

Serve ==
    /\ main = "serving"
    /\ \/ Done /\ Goto("exiting")
       \/ canceled /\ Goto("unmount")
    /\ UNCHANGED <<server, control, table, locks>>

\* (mutant) An unmount that the runtime has accepted counts as done.
UnmountedAccepted == host \in {"stopped", "stopping"}

\* Unmount returns nil once the serving goroutine is gone.
Unmounted == Done

\* Unmount: the runtime is asked, and the adapter's context canceled when it
\* accepts.  (mount asks once, so the case of a second caller does not arise.)
RequestUnmount ==
    /\ main = "unmount"
    /\ \/ host = "mounted" /\ host' = "stopping" /\ cut' = TRUE /\ Goto("waiting")
       \/ host = "stopping" /\ cut' = TRUE /\ Goto("waiting") /\ UNCHANGED host
       \/ /\ (IF Done /\ ~failed THEN Goto("exiting") ELSE Unconfirmed)
          /\ UNCHANGED <<host, cut>>
    /\ UNCHANGED <<ready, failed, control, table, locks>>

\* ... and waits for it, for some time.
WaitUnmounted ==
    /\ main = "waiting"
    /\ \/ Unmounted /\ Goto("exiting")
       \/ ~Done /\ Unconfirmed
    /\ UNCHANGED <<server, control, table, locks>>

\* mountControl.Close, deferred.
CloseControl ==
    /\ main = "exiting"
    /\ Goto("closing")
    /\ IF watch # "none" THEN state' = 0 /\ asked' = 0 /\ watch' = "ended"
                         ELSE UNCHANGED <<state, asked, watch>>
    /\ UNCHANGED <<cli, told, starter, server, table, locks>>

\* The deferred close of the backend.
CloseBackend ==
    /\ main = "closing"
    /\ main' = "closed"
    /\ backend' = IF keep THEN backend ELSE "closed"
    /\ UNCHANGED <<run, keep, canceled, stopped, server, control, table, locks>>

\* The process ends, or dies, with all of its goroutines.
Gone ==
    /\ main' = "down" /\ backend' = "none" /\ host' = "none"
    /\ NewProcess
    /\ UNCHANGED <<run, stopped, state, asked, cli, told, starter>>

Exit  == main = "closed" /\ Gone
Crash == main # "down" /\ Gone

-----------------------------------------------------------------------------
(* The control files *)

\* Ctrl+C or SIGTERM.
Signal ==
    /\ main # "down" /\ ~canceled
    /\ canceled' = TRUE
    /\ UNCHANGED <<run, main, keep, backend, stopped, server, control, table, locks>>

\* (mutant) Any request will do.
AddressedAny == asked # 0

\* The request has the secret of this process.
Addressed == asked = run

\* watch: a request for this process cancels the mount.
Watch ==
    /\ watch = "watching" /\ Addressed
    /\ watch' = "ended" /\ asked' = 0
    /\ canceled' = TRUE
    /\ UNCHANGED <<run, main, keep, backend, stopped, state, cli, told, starter,
                   server, table, locks>>

\* The unmount command: the state is read, ...
ReadState ==
    /\ cli.at \in {"idle", "unmounted", "failed"}
    /\ cli' = IF state = 0 THEN [at |-> "failed", secret |-> 0]
                           ELSE [at |-> "read", secret |-> state]
    /\ told' = told \cup ({state} \ {0})
    /\ UNCHANGED <<state, asked, watch, starter, process, server, table, locks>>

\* ... the request written, ...
WriteRequest ==
    /\ cli.at = "read"
    /\ asked' = cli.secret /\ cli' = [cli EXCEPT !.at = "asked"]
    /\ UNCHANGED <<state, watch, told, starter, process, server, table, locks>>

\* ... and success reported when the state is gone.
Report ==
    /\ cli.at = "asked"
    /\ \/ state = 0 /\ cli' = [cli EXCEPT !.at = "unmounted"]
       \/ state # 0 /\ cli' = [at |-> "failed", secret |-> 0]
    /\ UNCHANGED <<state, asked, watch, told, starter, process, server, table, locks>>

\* startBackgroundMount polls for a state file.
ReportMounted ==
    /\ starter = "polling"
    /\ starter' = IF state # 0 THEN "reported" ELSE "idle"
    /\ UNCHANGED <<state, asked, watch, cli, told, process, server, table, locks>>

-----------------------------------------------------------------------------
(* The serving goroutine and the runtime *)

HostInit ==
    /\ host = "starting"
    /\ host' = "mounted" /\ ready' = TRUE
    /\ UNCHANGED <<failed, cut, process, control, table, locks>>

\* serve ends without a mount.
HostFail ==
    /\ host = "starting"
    /\ host' = "stopped" /\ failed' = TRUE
    /\ stopped' = stopped \cup {run}
    /\ UNCHANGED <<run, main, keep, backend, canceled, ready, cut, control, table, locks>>

\* Somebody else unmounts, or the runtime stops.
HostEnds ==
    /\ host = "mounted"
    /\ host' = "stopping"
    /\ UNCHANGED <<ready, failed, cut, process, control, table, locks>>

Quiet == \A t \in Threads : thread[t] = None

\* Handle o with its backend handle closed.
Shut(o) == [o EXCEPT !.closed = TRUE, !.gone = TRUE]

\* The outcomes of Flush on the backend's handle: it fails and o stays dirty, or
\* all is saved.  A clean file has nothing to save, and nothing is saved once the
\* context is canceled.
Flushes(o, canceledCtx) ==
    (IF o.dirty THEN {o} ELSE {}) \cup
    (IF o.dirty /\ canceledCtx THEN {} ELSE {[o EXCEPT !.dirty = FALSE, !.flushed = TRUE]})

\* The caller is told of success, or of an error.
Answered(o, ok) == [o EXCEPT !.acked = ok]

\* Destroy, one handle at a time, with a context of its own.
Destroy(id) ==
    /\ host = "stopping" /\ Quiet /\ id \in handles
    /\ handles' = handles \ {id}
    /\ \E o \in IF obj[id].closed THEN {obj[id]}
                ELSE IF obj[id].flushed THEN {Shut(obj[id])}
                ELSE {Shut(p) : p \in Flushes(obj[id], FALSE)} :
         obj' = [obj EXCEPT ![id] = o]
    /\ UNCHANGED <<next, process, server, control, locks>>

HostStops ==
    /\ host = "stopping" /\ Quiet /\ handles = {}
    /\ host' = "stopped" /\ cut' = TRUE
    /\ stopped' = stopped \cup {run}
    /\ UNCHANGED <<run, main, keep, backend, canceled, ready, failed, control, table, locks>>

-----------------------------------------------------------------------------
(* Callbacks *)

Idle(t) == thread[t] = None /\ host = "mounted"
Doing(t, op, step) == thread[t] # None /\ thread[t].op = op /\ thread[t].at = step

Thread(t, op, step, what) ==
    thread' = [thread EXCEPT ![t] = [op |-> op, at |-> step, what |-> what]]

\* portableFS.tree.
Shared(t)    == ~\E u \in Threads \ {t} : thread[u] # None /\ thread[u].op \in {"create", "mutate"}
Exclusive(t) == ~\E u \in Threads \ {t} :
                    thread[u] # None /\ thread[u].op \in {"open", "create", "mutate"}

\* portableFS.mu is free.
Free == sweeper = None

\* A file has one writer (module Leases), whose backend handle is not closed.
Writers(f) == {i \in Ids : obj[i] # None /\ obj[i].file = f /\ obj[i].writing /\ ~obj[i].gone}

\* OpenEx and CreateEx have the tree lock.
BeginOpen(t, op, f) ==
    /\ Idle(t) /\ op \in {"open", "create"}
    /\ (IF op = "open" THEN Shared(t) ELSE Exclusive(t))
    /\ Thread(t, op, "opening", f)
    /\ UNCHANGED <<held, sweeper, process, server, control, table>>

\* They fail, or get a handle of the backend and an id for it.  A writer that
\* truncates is dirty from the start.
Alloc(t, op, writing, dirty) ==
    LET f == thread[t].what
    IN  /\ Doing(t, op, "opening") /\ op \in {"open", "create"}
        /\ ~cut /\ Free /\ next \in Ids
        /\ writing => Writers(f) = {}
        /\ dirty => writing
        /\ next' = next + 1
        /\ handles' = handles \cup {next}
        /\ obj' = [obj EXCEPT ![next] =
                     [file |-> f, writing |-> writing, dirty |-> dirty, flushed |-> FALSE,
                      closed |-> FALSE, gone |-> FALSE, acked |-> FALSE]]
        /\ thread' = [thread EXCEPT ![t] = None]
        /\ UNCHANGED <<held, sweeper, process, server, control>>

FailOpen(t, op) ==
    /\ Doing(t, op, "opening") /\ op \in {"open", "create"}
    /\ thread' = [thread EXCEPT ![t] = None]
    /\ UNCHANGED <<held, sweeper, process, server, control, table>>

\* get, and take in Release.
Get(t, op, id) ==
    /\ Idle(t) /\ Free /\ id \in handles /\ op \in {"write", "flush", "release"}
    /\ Thread(t, op, "got", id)
    /\ handles' = IF op = "release" THEN handles \ {id} ELSE handles
    /\ UNCHANGED <<next, obj, held, sweeper, process, server, control>>

Lock(t, op) ==
    /\ Doing(t, op, "got") /\ held[thread[t].what] = None
    /\ held' = [held EXCEPT ![thread[t].what] = t]
    /\ Thread(t, op, "locked", thread[t].what)
    /\ UNCHANGED <<sweeper, process, server, control, table>>

\* A callback is over: its handle becomes o and is unlocked.
Finish(t, o) ==
    /\ obj' = [obj EXCEPT ![thread[t].what] = o]
    /\ held' = [held EXCEPT ![thread[t].what] = None]
    /\ thread' = [thread EXCEPT ![t] = None]
    /\ UNCHANGED <<handles, next, sweeper, process, server, control>>

\* What a successful Write or Truncate leaves, and one that fails half way: the
\* handle still counts as flushed then.
Written(o) == [o EXCEPT !.dirty = TRUE, !.flushed = FALSE, !.acked = FALSE]
PartlyWritten(o) == [o EXCEPT !.dirty = TRUE, !.acked = FALSE]

Write(t) ==
    LET o == obj[thread[t].what]
    IN  /\ Doing(t, "write", "locked")
        /\ \/ /\ ~o.closed /\ ~o.gone /\ o.writing /\ ~cut
              /\ \E p \in {Written(o), PartlyWritten(o)} : Finish(t, p)
           \/ Finish(t, o)

\* Flush and Fsync.  A closed handle has nothing to save; the success that is
\* reported for it does not count after a release that has overtaken the flush.
Flush(t) ==
    LET i == thread[t].what
        o == obj[i]
    IN  /\ Doing(t, "flush", "locked")
        /\ \/ o.closed /\ Finish(t, IF i \in handles THEN Answered(o, TRUE) ELSE o)
           \/ ~o.closed /\ o.gone /\ Finish(t, Answered(o, FALSE))
           \/ ~o.gone /\ \E p \in Flushes(o, cut) : Finish(t, Answered(p, ~p.dirty))

\* Whether or not it could be saved, a released handle is closed; Close reports
\* what is not saved, also when it is called again.
Released(o) == Answered(Shut(o), ~o.dirty)

\* A handle that does not count as flushed is flushed first.
Release(t) ==
    LET o == obj[thread[t].what]
    IN  /\ Doing(t, "release", "locked")
        /\ \E p \in IF o.closed THEN {Answered(o, TRUE)}
                    ELSE IF o.flushed \/ o.gone THEN {Released(o)}
                    ELSE {Released(q) : q \in Flushes(o, cut)} :
             Finish(t, p)

\* remove and Rename3 have the tree lock; on Windows, closeMutationHandles
\* first closes what is open of the file, with the table locked.
BeginMutation(t, f) ==
    /\ Idle(t) /\ Exclusive(t) /\ Free
    /\ sweeper' = t
    /\ Thread(t, "mutate", {i \in handles : obj[i].file = f}, f)
    /\ UNCHANGED <<held, process, server, control, table>>

\* (mutant) A handle is marked as closed also when its Close has failed.
SweptAnyway(o) == Shut(o)

\* Close fails if there are changes, and the handle is not marked as closed then.
Swept(o) == IF o.dirty THEN [o EXCEPT !.gone = TRUE] ELSE Shut(o)

\* One of them.
Sweep(t, id) ==
    LET o == obj[id]
        safe == ~o.writing \/ o.flushed
    IN  /\ sweeper = t /\ id \in thread[t].at /\ held[id] = None
        /\ Thread(t, "mutate", thread[t].at \ {id}, thread[t].what)
        /\ obj' = [obj EXCEPT ![id] = IF ~safe \/ o.closed THEN o ELSE Swept(o)]
        /\ UNCHANGED <<handles, next, held, sweeper, process, server, control>>

\* The backend renames or removes the file, or refuses to.
Mutate(t) ==
    /\ sweeper = t /\ thread[t].at = {}
    /\ sweeper' = None
    /\ thread' = [thread EXCEPT ![t] = None]
    /\ UNCHANGED <<held, process, server, control, table>>

Callback(t) ==
    \/ \E f \in Files : BeginMutation(t, f) \/ \E op \in {"open", "create"} : BeginOpen(t, op, f)
    \/ \E op \in {"open", "create"} :
         FailOpen(t, op) \/ \E writing, dirty \in BOOLEAN : Alloc(t, op, writing, dirty)
    \/ \E op \in {"write", "flush", "release"} : Lock(t, op) \/ \E id \in Ids : Get(t, op, id)
    \/ Write(t) \/ Flush(t) \/ Release(t)
    \/ Mutate(t) \/ \E id \in Ids : Sweep(t, id)

Main ==
    \/ WaitMount \/ WaitVisible \/ WaitReady \/ RemoveStale \/ Publish \/ StartPrewarm
    \/ Serve \/ RequestUnmount \/ WaitUnmounted \/ CloseControl \/ CloseBackend \/ Exit

Next ==
    \/ Main \/ Crash \/ Signal \/ Watch
    \/ \E background \in BOOLEAN : Start(background)
    \/ ReadState \/ WriteRequest \/ Report \/ ReportMounted
    \/ HostInit \/ HostFail \/ HostEnds \/ HostStops
    \/ \E id \in Ids : Destroy(id)
    \/ \E t \in Threads : Callback(t)

Spec == Init /\ [][Next]_vars

-----------------------------------------------------------------------------
(* Properties *)

\* "Shutdown waits for the entire serving goroutine" (FILESYSTEM.md): while the
\* process lives, its backend is closed only when no callback and no handle is
\* left that could use it, whichever step of the start or the unmount has
\* failed or timed out.
BackendOutlivesServing ==
    backend = "closed" =>
        /\ Done /\ Quiet /\ handles = {}
        /\ \A i \in Ids : obj[i] # None => obj[i].gone

\* "flush, fsync, and close-triggered flush report remote save errors" and "No
\* silent discard" (FILESYSTEM.md): when flush, fsync or release reports success,
\* what was written before is saved, also when the handle counts as flushed
\* although a later write has changed part of the file, and when a rename or
\* remove has closed it behind the program that has it open.
SuccessMeansSaved ==
    \A i \in Ids : obj[i] # None /\ obj[i].acked => ~obj[i].dirty

\* "Release does not attempt a last, unreportable upload" (FILESYSTEM.md): what
\* is not saved when a handle is released is not saved by its release.
ReleaseSavesNothing ==
    [][\A t \in Threads :
          /\ Doing(t, "release", "locked") /\ thread'[t] = None
          /\ obj'[thread[t].what] # None
          /\ obj[thread[t].what].dirty
          => obj'[thread[t].what].dirty]_vars

\* A mount is canceled by an unmount command only if one has read this mount's
\* own state: requests that were meant for a process that has died,
\* written before or after the new one came up, do not stop the new one.
CanceledByOwn ==
    [][~canceled /\ canceled' /\ watch' # watch => run \in told]_vars
=============================================================================
