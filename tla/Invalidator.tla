---------------------------- MODULE Invalidator ----------------------------
(***************************************************************************)
(* Kernel caches under the Linux mount: the callbacks of                   *)
(* internal/fusefs/mount_linux.go, which change names and files, and the   *)
(* coordinator of invalidation_linux.go, which tells the kernel.           *)
(*                                                                         *)
(* The kernel keeps attributes and entries that replies have carried.  It  *)
(* locks a directory during a LOOKUP or a namespace request, and an entry  *)
(* notification waits for that lock, so a callback that waited for a       *)
(* notification would wait for itself.  Each name has a directory of its   *)
(* own here.                                                               *)
(***************************************************************************)
EXTENDS Integers, FiniteSets

CONSTANTS
    Requests,   \* requests that the kernel may have in progress
    Names,      \* names in the mounted tree
    Limit,      \* maxInvalidations
    Kinds       \* the requests that occur

None == 0
Jobs == 1..(Limit + 1)

\* What the kernel caches: the attributes of a file, and the entry of a name.
\* (The attributes of its directory are reserved, changed and invalidated with
\* the entry; they are not told apart from it.)
Attrs   == {"file"} \X Names
Entries == {"entry"} \X Names
Targets == Attrs \cup Entries

NameKinds    == {"create", "mkdir", "remove", "rename"}
ReserveKinds == NameKinds \cup {"open", "setattr"}
HandleKinds  == {"write", "truncate", "release"}
ReadKinds    == {"lookup", "getattr"}

ASSUME InvalidatorAssumption ==
    /\ Limit \in Nat \ {0}
    /\ Kinds \subseteq ReserveKinds \cup HandleKinds \cup ReadKinds

VARIABLES
    jobs,      \* i.jobs
    targets,   \* [Jobs -> SUBSET Targets]: invalidation.targets
    dirty,     \* the jobs with invalidation.dirty
    retired,   \* the jobs with invalidation.retired
    err,       \* i.err # 0
    closed,    \* i.closed
    wake,      \* whether the channel wake holds its token
    pc,        \* the step of the coordinator
    batch,     \* the rest of its batch
    cur,       \* the job of the batch that it is at
    left,      \* the targets of cur that it has yet to notify
    op,        \* [Requests -> kind or "none"]
    step,      \* [Requests -> step of the callback]
    names,     \* [Requests -> SUBSET Names]: what the request is about
    job,       \* [Requests -> the invalidation "change", or None]
    retire,    \* [Requests -> BOOLEAN]: the variable of that name
    reply,     \* [Requests -> [Targets -> Copy]]: what the answer carries
    open,      \* <<job, name>>: the handles of writers
    cached     \* [Targets -> Copy]: the kernel's caches (external)

coordinator == <<pc, batch, cur, left>>
table       == <<jobs, targets, dirty, retired, err, closed, wake>>
callbacks   == <<op, step, names, job, retire, reply, open>>
vars == <<table, coordinator, callbacks, cached>>

\* A copy of something in the mounted tree, compared to what is there now.
Copy == {"none", "fresh", "stale"}
NoCopies == [t \in Targets |-> "none"]

Of(what, N) == {what} \X N

Init ==
    /\ jobs = {} /\ dirty = {} /\ retired = {}
    /\ targets = [j \in Jobs |-> {}]
    /\ err = FALSE /\ closed = FALSE /\ wake = FALSE
    /\ pc = "wait" /\ batch = {} /\ cur = None /\ left = {}
    /\ op = [r \in Requests |-> "none"]
    /\ step = [r \in Requests |-> "idle"]
    /\ names = [r \in Requests |-> {}]
    /\ job = [r \in Requests |-> None]
    /\ retire = [r \in Requests |-> TRUE]
    /\ reply = [r \in Requests |-> NoCopies]
    /\ open = {}
    /\ cached = NoCopies

Goto(r, label) == step' = [step EXCEPT ![r] = label]

-----------------------------------------------------------------------------
(* The kernel (external) *)

Locking(r) == op[r] \in NameKinds \cup {"lookup"}
Locked(N)  == \E r \in Requests : Locking(r) /\ names[r] \cap N # {}

\* The kernel sends a request for the names N, on the handle of job j if it is
\* about one.  RELEASE is the last request of a handle.  A server that has
\* stopped gets no more requests.
Send(r, kind, N, j) ==
    /\ op[r] = "none" /\ ~closed
    /\ \E m, n \in Names : N = {m, n} /\ (kind = "rename" <=> m # n)
    /\ kind \in NameKinds \cup {"lookup"} => ~Locked(N)
    /\ IF kind \in HandleKinds
         THEN /\ {j} \X N \subseteq open
              /\ \A q \in Requests : job[q] = j => op[q] # "release"
              /\ kind = "release" => \A q \in Requests : job[q] # j
         ELSE j = None
    /\ op' = [op EXCEPT ![r] = kind]
    /\ names' = [names EXCEPT ![r] = N]
    /\ job' = [job EXCEPT ![r] = j]
    /\ retire' = [retire EXCEPT ![r] = kind \notin {"write", "truncate"}]
    /\ Goto(r, "enter")
    /\ UNCHANGED <<table, coordinator, reply, open, cached>>

\* The kernel gets the answer and keeps what it carries.
Answer(r) ==
    /\ step[r] = "reply"
    /\ cached' = [t \in Targets |->
                    IF reply[r][t] = "none" THEN cached[t] ELSE reply[r][t]]
    /\ reply' = [reply EXCEPT ![r] = NoCopies]
    /\ op' = [op EXCEPT ![r] = "none"]
    /\ names' = [names EXCEPT ![r] = {}]
    /\ Goto(r, "idle")
    /\ UNCHANGED <<table, coordinator, job, retire, open>>

\* What is invalidated is not taken from an answer to an older request either.
Forget(t) ==
    /\ cached' = [cached EXCEPT ![t] = "none"]
    /\ reply' = [r \in Requests |-> [reply[r] EXCEPT ![t] = "none"]]

\* The things T in the mounted tree are no longer what they were.
Aged(copies, T) ==
    [t \in Targets |-> IF t \in T /\ copies[t] = "fresh" THEN "stale" ELSE copies[t]]

-----------------------------------------------------------------------------
(* Callbacks *)

InTree(r)    == step[r] \in {"backend", "leave"}
Exclusive(r) == op[r] \in NameKinds
Shared(r)    == op[r] \in {"open", "setattr", "truncate"} \cup ReadKinds

Full == Cardinality(jobs) >= Limit

\* adapter.tree
TreeFree(r) ==
    /\ Exclusive(r) => \A q \in Requests : ~(InTree(q) /\ (Exclusive(q) \/ Shared(q)))
    /\ Shared(r) => \A q \in Requests : ~(InTree(q) /\ Exclusive(q))

\* (mutant) A rename reserves its source only.
ReservedOne(r) ==
    LET n == CHOOSE m \in names[r] : TRUE
    IN  Of("entry", {n}) \cup Of("file", {n})

\* GetChild: the kernel keeps nothing about a file that has no inode yet.
Known(t) == cached[t] # "none" \/ \E r \in Requests : reply[r][t] # "none"

\* childInvalidation and selfInvalidation.
Reserved(r) ==
    Of("entry", names[r])
        \cup {t \in Of("file", names[r]) :
                 op[r] \notin {"create", "mkdir"} \/ Known(t)}

\* A request that cannot be told to the kernel later is refused before it
\* touches the backend.
Enter(r) ==
    /\ step[r] = "enter" /\ TreeFree(r)
    /\ IF op[r] \notin ReserveKinds
         THEN /\ Goto(r, IF op[r] \in {"write", "truncate"} /\ (closed \/ err)
                         THEN "leave" ELSE "backend")
              /\ UNCHANGED <<jobs, targets, job>>
         ELSE IF closed \/ err \/ Full
         THEN Goto(r, "leave") /\ UNCHANGED <<jobs, targets, job>>
         ELSE LET j == CHOOSE k \in Jobs : k \notin jobs
              IN  /\ jobs' = jobs \cup {j}
                  /\ targets' = [targets EXCEPT ![j] = Reserved(r)]
                  /\ job' = [job EXCEPT ![r] = j]
                  /\ Goto(r, "backend")
    /\ UNCHANGED <<dirty, retired, err, closed, wake, coordinator, op, names,
                   retire, reply, open, cached>>

\* What an answer carries.
Carried(r) ==
    (IF op[r] \in {"lookup", "create", "mkdir"} THEN Of("entry", names[r]) ELSE {})
    \cup (IF op[r] \in {"lookup", "create", "mkdir", "getattr", "setattr", "truncate"}
          THEN Of("file", names[r]) ELSE {})

Carrying(copies, r) ==
    [t \in Targets |-> IF t \in Carried(r) THEN "fresh" ELSE copies[t]]

\* Lookup and Getattr.
Read(r) ==
    /\ step[r] = "backend" /\ op[r] \in ReadKinds
    /\ reply' = [reply EXCEPT ![r] = Carrying(@, r)]
    /\ Goto(r, "leave")
    /\ UNCHANGED <<table, coordinator, op, names, job, retire, open, cached>>

\* (mutant) The new child is left out.
WithoutChild(r) == targets

\* invalidation.add, after a create or mkdir.
WithChild(r) ==
    IF op[r] \in {"create", "mkdir"}
    THEN [targets EXCEPT ![job[r]] = @ \cup Of("file", names[r])]
    ELSE targets

\* Names change with a namespace request, the size of a file with any other.
Changing(r) ==
    IF op[r] \in NameKinds
    THEN Of("entry", names[r]) \cup Of("file", names[r])
    ELSE Of("file", names[r])

\* The backend succeeds.  An open and a create leave a handle behind, a
\* release closes one.
Mutate(r) ==
    /\ step[r] = "backend" /\ op[r] \notin ReadKinds
    /\ targets' = IF closed THEN targets ELSE WithChild(r)
    /\ IF op[r] \in {"open", "create"}
         THEN /\ open' = open \cup ({job[r]} \X names[r])
              /\ retire' = [retire EXCEPT ![r] = FALSE]
         ELSE open' = (IF op[r] = "release" THEN open \ ({job[r]} \X names[r]) ELSE open)
              /\ UNCHANGED retire
    /\ cached' = Aged(cached, Changing(r))
    /\ reply' = [q \in Requests |->
                   IF q = r THEN Carrying(reply[r], r) ELSE Aged(reply[q], Changing(r))]
    /\ Goto(r, "leave")
    /\ UNCHANGED <<jobs, dirty, retired, err, closed, wake, coordinator, op,
                   names, job>>

\* The backend fails, perhaps after it has changed something.
MutateFails(r) ==
    /\ step[r] = "backend" /\ op[r] \notin ReadKinds \cup {"release"}
    /\ \/ /\ cached' = Aged(cached, Changing(r) \cap targets[job[r]])
          /\ reply' = [q \in Requests |-> Aged(reply[q], Changing(r) \cap targets[job[r]])]
       \/ UNCHANGED <<reply, cached>>
    /\ Goto(r, "leave")
    /\ UNCHANGED <<table, coordinator, op, names, job, retire, open>>

\* The token, unless the channel holds one already.
Woken == TRUE

\* (mutant) The mark of a failed open is left to its release.
RetiringLater(r) == op[r] \notin {"open", "create"}

Retiring(r) == retire[r]

\* CacheTimeouts: attributes of a file with a writer are not to be cached.
Uncacheable == {t \in Attrs : \E h \in open : h[2] = t[2]}

\* The answer is made up; then the deferred function unlocks the tree and calls
\* changed.
Leave(r) ==
    /\ step[r] = "leave"
    /\ IF job[r] # None /\ ~closed
         THEN /\ dirty' = dirty \cup {job[r]}
              /\ retired' = IF Retiring(r) THEN retired \cup {job[r]} ELSE retired
              /\ wake' = Woken
         ELSE UNCHANGED <<dirty, retired, wake>>
    /\ job' = [job EXCEPT ![r] = None]
    /\ retire' = [retire EXCEPT ![r] = TRUE]
    /\ reply' = [reply EXCEPT ![r] =
                   [t \in Targets |-> IF t \in Uncacheable THEN "none" ELSE @[t]]]
    /\ Goto(r, "reply")
    /\ UNCHANGED <<jobs, targets, err, closed, coordinator, op, names, open, cached>>

-----------------------------------------------------------------------------
(* The coordinator *)

\* select with the token of wake.
Awake ==
    /\ pc = "wait" /\ wake
    /\ wake' = FALSE
    /\ pc' = "collect"
    /\ UNCHANGED <<jobs, targets, dirty, retired, err, closed, batch, cur, left,
                   callbacks, cached>>

\* (mutant) The jobs are finished first.
StoppingDrained == closed /\ jobs = {}

Stopping == closed

\* select with stop.
Stop ==
    /\ pc = "wait" /\ Stopping
    /\ pc' = "done"
    /\ jobs' = {}
    /\ UNCHANGED <<targets, dirty, retired, err, closed, wake, batch, cur, left,
                   callbacks, cached>>

Clean == dirty \ jobs

Collect ==
    /\ pc = "collect"
    /\ batch' = dirty \cap jobs
    /\ dirty' = Clean
    /\ pc' = "next"
    /\ UNCHANGED <<jobs, targets, retired, err, closed, wake, cur, left,
                   callbacks, cached>>

NextJob ==
    /\ pc = "next"
    /\ IF batch = {}
         THEN pc' = "wait" /\ UNCHANGED <<batch, cur, left>>
         ELSE \E j \in batch :
                /\ cur' = j
                /\ batch' = batch \ {j}
                /\ left' = targets[j]
                /\ pc' = "notify"
    /\ UNCHANGED <<table, callbacks, cached>>

\* failure
Failing(fails) == err' = (err \/ (fails /\ ~closed))

\* Attributes first.  A notification that fails may have left the copy.
NotifyAttr(t) ==
    /\ pc = "notify" /\ t \in left \cap Attrs
    /\ left' = left \ {t}
    /\ \/ Forget(t) /\ Failing(FALSE)
       \/ UNCHANGED <<cached, reply>> /\ Failing(TRUE)
    /\ UNCHANGED <<jobs, targets, dirty, retired, closed, wake, pc, batch, cur,
                   op, step, names, job, retire, open>>

\* The kernel waits for the requests in the directory of the name.
NotifyEntry(t) ==
    /\ pc = "notify" /\ left \cap Attrs = {} /\ t \in left
    /\ ~Locked({t[2]})
    /\ left' = left \ {t}
    /\ \/ Forget(t) /\ Failing(FALSE)
       \/ UNCHANGED <<cached, reply>> /\ Failing(TRUE)
    /\ UNCHANGED <<jobs, targets, dirty, retired, closed, wake, pc, batch, cur,
                   op, step, names, job, retire, open>>

Finished(j) == j \in retired /\ j \notin dirty

Settle ==
    /\ pc = "notify" /\ left = {}
    /\ pc' = "next" /\ cur' = None
    /\ IF Finished(cur)
         THEN /\ jobs' = jobs \ {cur}
              /\ retired' = retired \ {cur}
              /\ dirty' = dirty \ {cur}
              /\ targets' = [targets EXCEPT ![cur] = {}]
         ELSE UNCHANGED <<jobs, retired, dirty, targets>>
    /\ UNCHANGED <<err, closed, wake, batch, left, callbacks, cached>>

\* The server has stopped serving.
Close ==
    /\ ~closed
    /\ closed' = TRUE
    /\ UNCHANGED <<jobs, targets, dirty, retired, err, wake, coordinator,
                   callbacks, cached>>

\* The mount is over.
Ended ==
    /\ pc = "done" /\ \A r \in Requests : op[r] = "none"
    /\ UNCHANGED vars

-----------------------------------------------------------------------------
Callback(r) == Enter(r) \/ Read(r) \/ Mutate(r) \/ MutateFails(r) \/ Leave(r) \/ Answer(r)

Coordinator ==
    \/ Awake \/ Stop \/ Collect \/ NextJob \/ Settle
    \/ \E t \in Targets : NotifyAttr(t) \/ NotifyEntry(t)

Next ==
    \/ \E r \in Requests :
         \/ Callback(r)
         \/ \E kind \in Kinds, N \in SUBSET Names, j \in Jobs \cup {None} :
              Send(r, kind, N, j)
    \/ Coordinator
    \/ Close \/ Ended

Spec == Init /\ [][Next]_vars

\* Callbacks and the coordinator run.  The locks of the tree and of the
\* kernel's directories are handed out in turn.  (A job has finitely many
\* entries, so fairness for one of them is fairness for each.)
Fairness ==
    /\ \A r \in Requests : WF_vars(Callback(r)) /\ SF_vars(Enter(r))
    /\ WF_vars(Coordinator)
    /\ SF_vars(\E t \in Entries : NotifyEntry(t))

FairSpec == Spec /\ Fairness

-----------------------------------------------------------------------------
(* Properties *)

\* Every variable has the type of what it stands for, and a full coordinator
\* takes no more jobs.
TypeOK ==
    /\ jobs \subseteq Jobs /\ Cardinality(jobs) <= Limit
    /\ targets \in [Jobs -> SUBSET Targets]
    /\ dirty \subseteq Jobs /\ retired \subseteq Jobs
    /\ err \in BOOLEAN /\ closed \in BOOLEAN /\ wake \in BOOLEAN
    /\ pc \in {"wait", "collect", "next", "notify", "done"}
    /\ batch \subseteq Jobs /\ cur \in Jobs \cup {None} /\ left \subseteq Targets
    /\ op \in [Requests -> Kinds \cup {"none"}]
    /\ step \in [Requests -> {"idle", "enter", "backend", "leave", "reply"}]
    /\ names \in [Requests -> SUBSET Names]
    /\ job \in [Requests -> Jobs \cup {None}]
    /\ retire \in [Requests -> BOOLEAN]
    /\ reply \in [Requests -> [Targets -> Copy]]
    /\ open \subseteq Jobs \X Names
    /\ cached \in [Targets -> Copy]

\* The job j is still going to be notified for t: by the callback that has not
\* marked it yet, by the mark, or by the batch that it is in.
Going(j, t) ==
    /\ j \in jobs /\ t \in targets[j]
    /\ \/ \E r \in Requests : job[r] = j /\ step[r] = "leave"
       \/ j \in dirty
       \/ j \in batch
       \/ j = cur /\ t \in left

\* No change is forgotten: what the kernel has, or is about to get, is either
\* up to date or going to be invalidated, unless the mount has been told to
\* fail or is ending.
StaleIsGoing ==
    closed \/ err \/
    \A t \in Targets :
        cached[t] = "stale" \/ (\E r \in Requests : reply[r][t] = "stale")
            => \E j \in Jobs : Going(j, t)

\* "A full coordinator fails the operation", so slots must come back: a slot is
\* in use by a callback or an open writer, or waits for its last notification.
SlotsReturn ==
    closed \/
    \A j \in jobs :
        \/ \E h \in open : h[1] = j
        \/ \E r \in Requests : job[r] = j
        \/ j \in retired /\ (j \in dirty \/ j \in batch \/ j = cur)

\* A stale copy does not last: it is invalidated, or the mount fails further
\* mutations or ends.
StaleEnds ==
    \A t \in Targets : cached[t] = "stale" ~> (cached[t] # "stale" \/ err \/ closed)

\* close, which waits for the coordinator, returns.
CloseEnds == closed ~> pc = "done"
=============================================================================
