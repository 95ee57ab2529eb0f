----------------------------- MODULE Resources -----------------------------
(***************************************************************************)
(* Files in the resource directories of notebooks: the operations of       *)
(* internal/workspacefs/resources.go over the MWC client (read.go and      *)
(* write.go of internal/mwc), whose service has no conditional requests.   *)
(*                                                                         *)
(* Reads go through three caches with deadlines of their own.  A mutation  *)
(* compares fresh copies of what it is going to replace with the version   *)
(* its caller has, sends one request, and drops all that is cached for the *)
(* item before and after it.                                               *)
(*                                                                         *)
(* An operation is the list of the steps it has yet to do, each one        *)
(* request or one look at a cache.  Each may fail, which ends it; between  *)
(* them anything else can happen: other operations, other clients of the   *)
(* service, the late application of a request that was given up on.        *)
(*                                                                         *)
(* The caches are those of module Cache: concurrent reads of a key share   *)
(* one load, and a load that is invalidated is not retained.  The lease    *)
(* table is taken from module Leases, as Free.                             *)
(***************************************************************************)
EXTENDS Integers, FiniteSets, Sequences, FiniteSetsExt, Functions, Lists

CONSTANTS
    Clients,    \* callers with at most one operation and one writer each
    Paths,      \* paths below the root of the item
    Root, Parent,             \* Parent[p] \in Paths \cup {Root}
    Contents,   \* what a file can hold; its version is its hash, so itself
    Empty,      \* the content of no bytes
    Size,       \* [Contents -> Nat]
    Absent, Dir, None,
    Attr, Directory, Content, \* the policy's ages
    MaxTime,    \* bound on the clock
    MaxEdits    \* bound on the changes by other clients

ASSUME ResourcesAssumption ==
    /\ Parent \in [Paths -> Paths \cup {Root}] /\ Root \notin Paths
    /\ Size \in [Contents -> Nat]
    /\ Empty \in Contents /\ {Absent, Dir, None} \cap Contents = {} /\ Absent # Dir
    /\ {Attr, Directory, Content} \subseteq Nat \ {0}
    /\ MaxTime \in Nat /\ MaxEdits \in Nat

VARIABLES
    remote,   \* [Paths -> Contents \cup {Absent, Dir}] (external)
    edits,    \* changes by other clients so far (external)
    now,      \* Client.now
    cache,    \* listings, contents and metadata by key
    load,     \* the load that each client runs
    op,       \* the operation of each client
    request,  \* the last request of each client until it is over (external)
    handle    \* the writer of each client: path and version

vars == <<remote, edits, now, cache, load, op, request, handle>>

Below(d) == {p \in Paths : Parent[p] = d}
Keys == ({"listing"} \X Range(Parent)) \cup ({"content", "metadata"} \X Paths)

\* How long a load of k is retained.
TTL(k) == CASE k[1] = "listing" -> Max({Attr, Directory})
            [] k[1] = "content" -> Content
            [] k[1] = "metadata" -> Attr

Listable(d) == d # Root => remote[d] = Dir

\* The answer to a request for k.
View(k) == IF k[1] = "listing" THEN [p \in Below(k[2]) |-> remote[p]] ELSE remote[k[2]]

\* What has an answer: listings of directories, and files.
Answered(k) == IF k[1] = "listing" THEN Listable(k[2]) ELSE remote[k[2]] \in Contents

Init ==
    /\ remote \in [Paths -> {Absent, Dir, Empty}]
    /\ \A p \in Paths : remote[p] # Absent => Listable(Parent[p])
    /\ \A p \in Paths : remote[p] = Dir => Below(p) # {}
    /\ edits = 0 /\ now = 0
    /\ cache = [k \in Keys |-> None]
    /\ load = [c \in Clients |-> None]
    /\ op = [c \in Clients |-> None]
    /\ request = [c \in Clients |-> None]
    /\ handle = [c \in Clients |-> None]

-----------------------------------------------------------------------------
(* Operations and their steps *)

\* Stat: a cached lookup and the metadata that a listing may not have.
Stat(p) == <<<<"look", p>>, <<"meta", p>>, <<"done", p>>>>

\* resourceContentVersion: that, and a cached download.
Version(p) == <<<<"look", p>>, <<"meta", p>>, <<"snap", p>>>>

\* Put of a new file and Remove of a file.
Replace(p) ==
    <<<<"look", p>>, <<"meta", p>>, <<"snap", p>>,
      <<"check", p>>, <<"compare", p>>, <<"send", p>>, <<"return", p>>>>

\* (mutant) Rename takes the word of the service for the move.
RenameTrusting(p, q) ==
    <<<<"look", p>>, <<"meta", p>>, <<"snap", p>>,
      <<"look", q>>, <<"meta", q>>, <<"snap", q>>,
      <<"check", p>>, <<"compare", p>>, <<"check", q>>, <<"compare", q>>,
      <<"send", p>>, <<"return", p>>>>

\* renameResource and Rename.
Rename(p, q) ==
    <<<<"look", p>>, <<"meta", p>>, <<"snap", p>>,
      <<"look", q>>, <<"meta", q>>, <<"snap", q>>,
      <<"check", p>>, <<"compare", p>>, <<"check", q>>, <<"compare", q>>,
      <<"send", p>>, <<"same", q>>, <<"gone", p>>, <<"return", p>>>>

Program(kind, p, q) ==
    CASE kind = "stat" -> Stat(p)
      [] kind = "list" ->
           IF Parent[p] = Root
             THEN <<<<"list", p>>, <<"meta", p>>, <<"done", p>>>>
             ELSE <<<<"dir", Parent[p]>>, <<"list", p>>, <<"meta", p>>, <<"done", p>>>>
      [] kind \in {"open", "write"} -> Version(p)
      [] kind \in {"create", "remove"} -> Replace(p)
      [] kind = "save" -> <<<<"check", p>>, <<"compare", p>>, <<"send", p>>, <<"return", p>>>>
      [] kind = "mkdir" ->
           <<<<"check", p>>, <<"send", p>>, <<"return", p>>, <<"look", p>>, <<"meta", p>>>>
      [] kind = "rmdir" ->
           <<<<"look", p>>, <<"meta", p>>,
             <<"check", p>>, <<"empty", p>>, <<"send", p>>, <<"return", p>>>>
      [] kind = "rename" -> Rename(p, q)

Mutations == {"create", "save", "mkdir", "remove", "rmdir", "rename"}
Kinds == {"stat", "list", "open", "write"} \cup Mutations

-----------------------------------------------------------------------------
(* What operations and requests are *)

Labels == {"look", "dir", "list", "meta", "snap", "done", "check", "compare", "empty",
           "send", "same", "gone", "return"}
Steps  == Labels \X Paths

\* What can be at a path.
Files == Contents \cup {Absent, Dir}

\* "raced" is history: which of its paths others have changed since it has
\* compared them.
Operation == [kind : Kinds, src : Paths, dst : Paths, value : Contents, todo : Seq(Steps),
              expect : [Paths -> Files], found : Files \cup {None},
              until : Nat \cup {None}, oldest : Nat \cup {None}, raced : SUBSET Paths]
Request   == [kind : Mutations, src : Paths, dst : Paths, value : Contents,
              expect : [Paths -> Files], raced : SUBSET Paths,
              applied : BOOLEAN, late : BOOLEAN]

ASSUME NoneAssumption == None \notin Operation \cup Request \cup Nat

-----------------------------------------------------------------------------
Doing(c) == op[c] # None
At(c, s) == Doing(c) /\ op[c].todo[1][1] = s
Place(c) == op[c].todo[1][2]

\* The request of c's operation has been sent and is not yet answered.
Waiting(c) == At(c, "send") /\ request[c] # None /\ ~request[c].late

\* What an operation or a writer keeps others from: begin and mutation.
Locked(c) ==
    (IF handle[c] # None THEN {handle[c].path} ELSE {}) \cup
    (IF Doing(c) /\ op[c].kind \notin {"stat", "list", "open"} THEN {op[c].src, op[c].dst} ELSE {})

Free(p) == \A c \in Clients : \A q \in Locked(c) : p # q /\ p # Parent[q] /\ Parent[p] # q

Begin(c, kind, p, q, v) ==
    /\ ~Doing(c)
    /\ (kind = "rename") = (p # q)
    /\ kind \in Mutations \cup {"write"} /\ kind # "save" => Free(p) /\ Free(q)
    /\ kind \in {"write", "create"} => handle[c] = None
    /\ kind = "save" => handle[c] # None /\ handle[c].path = p
    /\ (kind # "save") => v = Empty
    /\ op' = [op EXCEPT ![c] =
                [kind |-> kind, src |-> p, dst |-> q, value |-> v,
                 todo |-> Program(kind, p, q),
                 expect |-> [r \in Paths |-> IF kind = "save" THEN handle[c].version
                                             ELSE Absent],
                 found |-> None, until |-> None, oldest |-> None, raced |-> {}]]
    /\ UNCHANGED <<remote, edits, now, cache, load, request, handle>>

\* Client.invalidate: loads in progress are detached.
Invalidate(c) ==
    /\ cache' = [k \in Keys |-> None]
    /\ load' = [d \in Clients |->
                 IF load[d] # None /\ d # c THEN [load[d] EXCEPT !.attached = FALSE] ELSE None]

\* (mutant) Invalidating before the request is taken to be enough.
InvalidateBefore(c) == load' = [load EXCEPT ![c] = None] /\ UNCHANGED cache

\* The deferred invalidate of a mutation.
InvalidateAfter(c) == Invalidate(c)

\* The operation is over.  Once the MWC client has begun a mutation it has
\* invalidate deferred.
End(c) ==
    /\ op' = [op EXCEPT ![c] = None]
    /\ IF op[c].kind \in Mutations /\ op[c].todo[1][1] \notin {"look", "meta", "snap"}
         THEN InvalidateAfter(c)
         ELSE load' = [load EXCEPT ![c] = None] /\ UNCHANGED cache

Fail(c) ==
    /\ Doing(c) /\ ~Waiting(c)
    /\ End(c)
    /\ UNCHANGED <<remote, edits, now, request, handle>>

\* The next step of c's operation, changed as given; without one it is over.
Continue(c, o) ==
    op' = [op EXCEPT ![c] = IF Len(o.todo) = 1 THEN None ELSE [o EXCEPT !.todo = Tail(@)]]

-----------------------------------------------------------------------------
(* Cached reads *)

\* The key and the greatest age of the next step, if it is a cached read.
Key(c) == CASE At(c, "look") \/ At(c, "dir") -> <<"listing", Parent[Place(c)]>>
            [] At(c, "list") -> <<"listing", Parent[Place(c)]>>
            [] At(c, "meta") -> <<"metadata", Place(c)>>
            [] At(c, "snap") -> <<"content", Place(c)>>
Age(c) == CASE At(c, "look") -> Attr
            [] At(c, "list") \/ At(c, "dir") -> Directory
            [] At(c, "meta") -> Attr
            [] At(c, "snap") -> Content

Reading(c) == Doing(c) /\ op[c].todo[1][1] \in {"look", "dir", "list", "meta", "snap"}

\* A retained value that is young enough, or one that somebody is loading.
Available(c) ==
    LET k == Key(c)
    IN  IF load[c] # None THEN {load[c].obs}
        ELSE IF cache[k] # None /\ now < cache[k].at + Age(c) THEN {cache[k]}
        ELSE {load[d].obs : d \in {d \in Clients : /\ load[d] # None /\ load[d].attached
                                                   /\ load[d].key = k}}

\* A load, up to the moment the service has answered.  Whether the cache
\* retains it is decided when it is delivered.
Load(c) ==
    /\ Reading(c) /\ Available(c) = {} /\ Answered(Key(c))
    /\ load' = [load EXCEPT ![c] =
                  [key |-> Key(c), attached |-> TRUE,
                   obs |-> [value |-> View(Key(c)), at |-> now, behind |-> FALSE]]]
    /\ UNCHANGED <<remote, edits, now, cache, op, request, handle>>

Deliver(c, obs) ==
    /\ Reading(c) /\ obs \in Available(c)
    /\ load' = [load EXCEPT ![c] = None]
    /\ cache' = IF load[c] # None /\ load[c].attached /\ now < obs.at + TTL(Key(c))
                  THEN [cache EXCEPT ![Key(c)] = obs] ELSE cache
    /\ UNCHANGED <<remote, edits, now, request>>

\* (mutant) The deadline of the last observation is taken.
CapLast(until, at, ttl) == at + ttl

\* capObservation: a deadline is never later than that of any part.
Cap(until, at, ttl) ==
    IF until = None \/ at + ttl < until THEN at + ttl ELSE until

\* The operation c with an observation merged in.
Observed(c, obs, ttl) ==
    [op[c] EXCEPT !.until = Cap(@, obs.at, ttl), 
                  !.oldest = IF @ = None THEN obs.at ELSE Min({@, obs.at})]

\* The steps left when p is not there: nothing to download or to compare.
Without(todo, p) == Dropping(todo, {<<"meta", p>>, <<"snap", p>>, <<"compare", p>>})

\* lookup in the parent's listing.  Create and the target of a rename need
\* not exist; a file that exists is opened by create.
Look(c, obs) ==
    LET p == Place(c)
        found == obs.value[p]
        o == [Observed(c, obs, Attr) EXCEPT !.found = found]
        optional == op[c].kind = "create" \/ (op[c].kind = "rename" /\ p = op[c].dst)
    IN  /\ At(c, "look") /\ Deliver(c, obs)
        /\ found = Absent => optional
        /\ op[c].kind = "rmdir" => found = Dir
        /\ op[c].kind \notin {"stat", "mkdir", "rmdir"} => found # Dir
        /\ Continue(c, [o EXCEPT !.todo =
             CASE found = Absent -> Without(@, p)
               [] found = Dir -> Dropping(@, {<<"meta", p>>})
               [] OTHER -> IF op[c].kind = "create" THEN Keeping(@, Range(Version(p))) ELSE @])
        /\ UNCHANGED handle

\* List first looks for the directory itself, whose attributes it drops.
LookDir(c, obs) ==
    /\ At(c, "dir") /\ Deliver(c, obs)
    /\ obs.value[Place(c)] = Dir
    /\ Continue(c, op[c])
    /\ UNCHANGED handle

\* List: each entry with the deadline of the listing, and metadata of a file.
List(c, obs) ==
    LET o == Observed(c, obs, Min({Directory, Attr}))
    IN  /\ At(c, "list") /\ Deliver(c, obs)
        /\ Continue(c, IF obs.value[Place(c)] \in Contents THEN o
                    ELSE [o EXCEPT !.todo = Without(@, Place(c))])
        /\ UNCHANGED handle

\* metadataInfo: the headers of a file, unless the listing has them already.
Meta(c, obs) ==
    /\ At(c, "meta") /\ Deliver(c, obs)
    /\ Continue(c, Observed(c, obs, Attr))
    /\ UNCHANGED handle

MetaKnown(c) ==
    /\ At(c, "meta") /\ load[c] = None
    /\ Continue(c, op[c])
    /\ UNCHANGED <<remote, edits, now, cache, load, request, handle>>

\* Stat and List return the attributes.
Done(c) ==
    /\ At(c, "done")
    /\ Continue(c, op[c])
    /\ UNCHANGED <<remote, edits, now, cache, load, request, handle>>

\* Snapshot: the version to go by, which must fit the size looked up.
Snap(c, obs) ==
    LET p == Place(c)
    IN  /\ At(c, "snap") /\ Deliver(c, obs)
        /\ Size[obs.value] = Size[op[c].found]
        /\ Continue(c, [op[c] EXCEPT !.expect[p] = obs.value])
        /\ handle' = IF op[c].kind \in {"write", "create"}
                       THEN [handle EXCEPT ![c] = [path |-> p, version |-> obs.value]]
                       ELSE handle

-----------------------------------------------------------------------------
(* Mutations *)

\* (mutant) The comparison is content with what is cached.
AsCached(k) == IF cache[k] # None THEN cache[k].value ELSE View(k)

\* A request that is not answered from the cache.
Fresh(k) == View(k)

\* The fresh lookup of compareDestination, Mkdir, Remove and Rename.
Check(c) ==
    LET p == Place(c)
        there == Fresh(<<"listing", Parent[p]>>)[p]
        wanted == IF op[c].kind = "rmdir" THEN Dir ELSE op[c].expect[p]
    IN  /\ At(c, "check") /\ Listable(Parent[p])
        /\ IF wanted \in Contents THEN there \in Contents ELSE there = wanted
        /\ Continue(c, [op[c] EXCEPT !.raced = @ \ {p},
                                  !.expect[p] = wanted,
                                  !.todo = IF there = Absent THEN Without(@, p) ELSE @])
        /\ UNCHANGED <<remote, edits, now, cache, load, request, handle>>

\* The fresh download whose version must be the caller's.
CompareVersion(c) ==
    LET p == Place(c)
    IN  /\ At(c, "compare") /\ remote[p] \in Contents
        /\ Fresh(<<"content", p>>) = op[c].expect[p]
        /\ Continue(c, [op[c] EXCEPT !.raced = @ \ {p}])
        /\ UNCHANGED <<remote, edits, now, cache, load, request, handle>>

\* A directory to remove has no entries.
CheckEmpty(c) ==
    /\ At(c, "empty") /\ Listable(Place(c))
    /\ \A p \in Below(Place(c)) : remote[p] = Absent
    /\ Continue(c, op[c])
    /\ UNCHANGED <<remote, edits, now, cache, load, request, handle>>

\* mutate: invalidate, then one request.
Send(c) ==
    /\ At(c, "send") /\ request[c] = None
    /\ request' = [request EXCEPT ![c] =
                     [kind |-> op[c].kind, src |-> op[c].src, dst |-> op[c].dst,
                      value |-> op[c].value, expect |-> op[c].expect,
                      raced |-> op[c].raced, applied |-> FALSE, late |-> FALSE]]
    /\ Invalidate(c)
    /\ UNCHANGED <<remote, edits, now, op, handle>>

\* What a request can make of the files.  A move may stop half way.
Effects(r) ==
    LET p == r.src
        q == r.dst
        With(v) == [remote EXCEPT ![p] = v]
    IN  CASE r.kind \in {"create", "save"} ->
               IF Listable(Parent[p]) /\ remote[p] # Dir THEN {With(r.value)} ELSE {}
          [] r.kind = "mkdir" ->
               IF Listable(Parent[p]) /\ remote[p] = Absent THEN {With(Dir)} ELSE {}
          [] r.kind = "remove" -> IF remote[p] \in Contents THEN {With(Absent)} ELSE {}
          [] r.kind = "rmdir" ->
               IF remote[p] = Dir /\ \A s \in Below(p) : remote[s] = Absent
                 THEN {With(Absent)} ELSE {}
          [] r.kind = "rename" ->
               IF remote[p] \in Contents /\ Listable(Parent[q]) /\ remote[q] # Dir
                 THEN {[remote EXCEPT ![q] = remote[p]],
                       [remote EXCEPT ![p] = Absent, ![q] = remote[p]]}
                 ELSE {}

Changed == {p \in Paths : remote'[p] # remote[p]}

\* r, or an operation, once somebody else has changed paths P.
Raced(r, P) ==
    IF r = None THEN None
    ELSE [r EXCEPT !.raced = @ \cup (IF r.kind \in Mutations THEN P \cap {r.src, r.dst} ELSE {})]

Touched(k) == IF k[1] = "listing" THEN Changed \cap Below(k[2]) # {} ELSE k[2] \in Changed

Apply(c) ==
    LET r == request[c]
    IN  /\ r # None /\ ~r.applied
        /\ remote' \in Effects(r)
        /\ op' = [d \in Clients |->
              IF d = c /\ ~r.late THEN op[c] ELSE Raced(op[d], Changed)]
        /\ request' = [d \in Clients |->
              IF d # c THEN Raced(request[d], Changed)
              ELSE IF r.late THEN None ELSE [r EXCEPT !.applied = TRUE]]
        /\ cache' = [k \in Keys |->
              IF cache[k] # None /\ Touched(k) /\ ~r.late
                THEN [cache[k] EXCEPT !.behind = TRUE] ELSE cache[k]]
        /\ load' = [d \in Clients |->
              IF load[d] # None /\ Touched(load[d].key) /\ ~r.late
                THEN [load[d] EXCEPT !.obs.behind = TRUE] ELSE load[d]]
        /\ UNCHANGED <<edits, now, handle>>

\* The answer to a request that was applied.
Confirmed(c) ==
    /\ Waiting(c) /\ request[c].applied
    /\ request' = [request EXCEPT ![c] = None]
    /\ Continue(c, op[c])
    /\ UNCHANGED <<remote, edits, now, cache, load, handle>>

\* A refusal, or no answer: the request may have been applied, or will be.
Refused(c, late) ==
    /\ Waiting(c)
    /\ late => ~request[c].applied
    /\ request' = [request EXCEPT ![c] = IF late THEN [@ EXCEPT !.late = TRUE] ELSE None]
    /\ End(c)
    /\ UNCHANGED <<remote, edits, now, handle>>

\* What is late may also never be applied.
Drop(c) ==
    /\ request[c] # None /\ request[c].late
    /\ request' = [request EXCEPT ![c] = None]
    /\ UNCHANGED <<remote, edits, now, cache, load, op, handle>>

\* Rename looks at the target and at the source after the move.
Same(c) ==
    /\ At(c, "same") /\ remote[Place(c)] \in Contents
    /\ Fresh(<<"content", Place(c)>>) = op[c].expect[op[c].src]
    /\ Continue(c, [op[c] EXCEPT !.raced = @ \ {Place(c)}])
    /\ UNCHANGED <<remote, edits, now, cache, load, request, handle>>

Gone(c) ==
    /\ At(c, "gone") /\ Listable(Parent[Place(c)])
    /\ Fresh(<<"listing", Parent[Place(c)]>>)[Place(c)] = Absent
    /\ Continue(c, [op[c] EXCEPT !.raced = @ \ {Place(c)}])
    /\ UNCHANGED <<remote, edits, now, cache, load, request, handle>>

\* The MWC client returns: invalidate, and the version for the next save.
Return(c) ==
    /\ At(c, "return")
    /\ Continue(c, op[c])
    /\ InvalidateAfter(c)
    /\ handle' = IF op[c].kind \in {"create", "save"}
                   THEN [handle EXCEPT ![c] = [path |-> op[c].src, version |-> op[c].value]]
                   ELSE handle
    /\ UNCHANGED <<remote, edits, now, request>>

Close(c) ==
    /\ ~Doing(c) /\ handle[c] # None
    /\ handle' = [handle EXCEPT ![c] = None]
    /\ UNCHANGED <<remote, edits, now, cache, load, op, request>>

-----------------------------------------------------------------------------
(* The environment *)

Tick ==
    /\ now < MaxTime
    /\ now' = now + 1
    /\ cache' = [k \in Keys |-> IF cache[k] # None /\ now + 1 >= cache[k].at + TTL(k)
                                  THEN None ELSE cache[k]]
    /\ UNCHANGED <<remote, edits, load, op, request, handle>>

\* Another client changes a path.
Edit(p, v) ==
    /\ edits < MaxEdits /\ edits' = edits + 1
    /\ remote[p] # v /\ remote[p] # Dir /\ v # Dir /\ Listable(Parent[p])
    /\ remote' = [remote EXCEPT ![p] = v]
    /\ op' = [c \in Clients |-> Raced(op[c], {p})]
    /\ request' = [c \in Clients |-> Raced(request[c], {p})]
    /\ UNCHANGED <<now, cache, load, handle>>

Next ==
    \/ Tick
    \/ \E p \in Paths, v \in Contents \cup {Absent} : Edit(p, v)
    \/ \E c \in Clients :
         \/ \E kind \in Kinds, p, q \in Paths, v \in Contents : Begin(c, kind, p, q, v)
         \/ Fail(c) \/ Load(c) \/ MetaKnown(c) \/ Done(c)
         \/ Reading(c) /\ \E obs \in Available(c) :
              Look(c, obs) \/ LookDir(c, obs) \/ List(c, obs) \/ Meta(c, obs) \/ Snap(c, obs)
         \/ Check(c) \/ CompareVersion(c) \/ CheckEmpty(c)
         \/ Send(c) \/ Apply(c) \/ Confirmed(c) \/ Drop(c)
         \/ \E late \in BOOLEAN : Refused(c, late)
         \/ Same(c) \/ Gone(c) \/ Return(c) \/ Close(c)

Spec == Init /\ [][Next]_vars

-----------------------------------------------------------------------------
(* Properties *)

\* "Writes use a fresh read/compare followed by a single mutation request"
\* (client.go).  When a request takes effect, now or late, each path that it
\* changes is as its caller knew it - by its version, or absent - unless
\* somebody has changed that path since the fresh read that compared it.
OverwritesCompared ==
    [][\A c \in Clients :
         (request[c] # None /\ ~request[c].applied
            /\ (request'[c] = None \/ request'[c].applied))
           => \A p \in Changed \ request[c].raced : remote[p] = request[c].expect[p]]_vars

\* "Detached loads cannot repopulate them" (invalidate): what was read before
\* a mutation of this mount is not retained, and will not be, once the
\* operation that made it is over, whether or not it got its answer.
OwnChangesSeen ==
    (\E k \in Keys : cache[k] # None /\ cache[k].behind)
        \/ (\E c \in Clients : load[c] # None /\ load[c].attached /\ load[c].obs.behind)
      => \E c \in Clients : Waiting(c) \/ At(c, "same") \/ At(c, "gone") \/ At(c, "return")

\* capObservation and the separate cache of headers: the attributes that Stat
\* and List return are to be used no longer than attributes may be from the
\* oldest of the requests they were put together from, however those were
\* cached, shared or loaded.
HonestDeadlines ==
    \A c \in Clients :
        Doing(c) /\ op[c].until # None =>
            op[c].until <= op[c].oldest + Attr

\* "A successful status without a completed move is not success" (Rename): a
\* rename is reported only when the target has what the source had and the
\* source is gone, but for what others have done since it looked.
RenameHappened ==
    \A c \in Clients :
        At(c, "return") /\ op[c].kind = "rename" =>
            /\ op[c].dst \notin op[c].raced => remote[op[c].dst] = op[c].expect[op[c].src]
            /\ op[c].src \notin op[c].raced => remote[op[c].src] = Absent
=============================================================================
