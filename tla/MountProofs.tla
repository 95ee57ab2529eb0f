---------------------------- MODULE MountProofs -----------------------------
(* Theorems about PortableMount, for any threads, files, handles and runs,   *)
(* and about Prewarm, the worker that a mount starts and its close ends, for *)
(* any readers, notebooks, slots and queue.                                  *)
EXTENDS PortableMount, Prewarm, ListTheorems

\* Thread t runs a callback of one of these kinds.
Runs(t, S) == thread[t] # None /\ thread[t].op \in S
HandleOps  == {"write", "flush", "release"}

\* The table, its handles and the callbacks have their types.
TypeOK ==
    /\ host \in {"none", "starting", "mounted", "stopping", "stopped"} /\ cut \in BOOLEAN
    /\ handles \subseteq Ids
    /\ obj \in [Ids -> Handle \cup {None}]
    /\ thread = [t \in Threads |-> thread[t]]
    /\ \A t \in Threads : thread[t] # None =>
          \/ Runs(t, HandleOps) /\ thread[t] \in OnHandle
          \/ Runs(t, {"open", "create"}) /\ thread[t] \in Opening
          \/ Runs(t, {"mutate"}) /\ thread[t] \in Mutation
    /\ sweeper \in Threads \cup {None}

\* Whatever is in the table or used by a callback exists; a closed handle has
\* given up its backend handle; one that has not is in the table, or being
\* released.
Accounted ==
    /\ \A i \in handles : obj[i] # None
    /\ \A t \in Threads : Runs(t, HandleOps) => obj[thread[t].what] # None
    /\ \A t \in Threads : Runs(t, {"mutate"}) =>
          sweeper = t /\ \A i \in thread[t].at : obj[i] # None
    /\ sweeper # None => Runs(sweeper, {"mutate"})
    /\ \A i \in Ids : obj[i] # None /\ obj[i].closed => obj[i].gone
    /\ \A i \in Ids : obj[i] # None /\ ~obj[i].gone =>
          i \in handles \/ \E t \in Threads : Runs(t, {"release"}) /\ thread[t].what = i

\* Before the runtime calls anything, and after it has stopped, nothing is in
\* progress and nothing is open.
Silent == host \in {"none", "starting", "stopped"} => Quiet /\ handles = {}

\* mount is on its way out without a reason to keep the backend open only when
\* the serving goroutine is gone, and closes the backend at the end of it.
Leaving ==
    /\ main \in {"exiting", "closing", "closed"} => keep \/ Done
    /\ backend = "closed" => main = "closed" /\ ~keep

PInv == TypeOK /\ Accounted /\ Silent /\ Leaving

-----------------------------------------------------------------------------
(* Kinds of steps *)

\* A step that leaves the runtime, the table and the callbacks alone.
LEMMA Aside ==
    ASSUME PInv, UNCHANGED <<host, cut, table, locks>>, Leaving'
    PROVE  PInv'
  BY DEF PInv, TypeOK, Accounted, Silent, Quiet, Runs, table, locks

\* A process begins, or is gone.
LEMMA Fresh ==
    ASSUME PInv, NewProcess, host' \in {"none", "starting"}, Leaving'
    PROVE  PInv'
  BY DEF PInv, NewProcess, TypeOK, Accounted, Silent, Quiet, Runs

\* A callback is running, or about to.
Active == host \in {"mounted", "stopping"}

\* A step of the table or of a callback.
LEMMA Within ==
    ASSUME PInv, Active, UNCHANGED <<process, server>>, TypeOK', Accounted'
    PROVE  PInv'
  BY DEF PInv, Active, Silent, Leaving, Done, process, server

\* Callbacks run only then.
LEMMA RunsActive ==
    ASSUME PInv, NEW t \in Threads, thread[t] # None
    PROVE  Active
  BY DEF PInv, Silent, Quiet, Active, TypeOK

-----------------------------------------------------------------------------
(* The invariant *)

LEMMA InvInit == Init => PInv
  BY DEF Init, PInv, TypeOK, Accounted, Silent, Leaving, Quiet, Runs

\* The steps of mount other than the request to the runtime.
LEMMA MainKeeps ==
    ASSUME PInv,
           \/ WaitMount \/ WaitVisible \/ WaitReady \/ RemoveStale \/ Publish \/ StartPrewarm
           \/ Serve \/ WaitUnmounted \/ CloseControl \/ CloseBackend
    PROVE  PInv'
<1>1. UNCHANGED <<host, cut, table, locks>>
  BY DEF WaitMount, WaitVisible, WaitReady, RemoveStale, Publish, StartPrewarm, Serve,
         WaitUnmounted, CloseControl, CloseBackend, server
<1>2. Leaving'
  <2> USE DEF PInv, Leaving, Done, Goto, Unconfirmed, server
  <2>1. CASE WaitMount
    BY <2>1 DEF WaitMount
  <2>2. CASE WaitVisible \/ WaitReady
    BY <2>2 DEF WaitVisible, WaitReady
  <2>3. CASE RemoveStale \/ Publish \/ StartPrewarm
    BY <2>3 DEF RemoveStale, Publish, StartPrewarm
  <2>4. CASE Serve
    BY <2>4 DEF Serve
  <2>5. CASE WaitUnmounted
    BY <2>5 DEF WaitUnmounted, Unmounted
  <2>6. CASE CloseControl
    BY <2>6 DEF CloseControl
  <2>7. CASE CloseBackend
    BY <2>7 DEF CloseBackend
  <2> QED
    BY <2>1, <2>2, <2>3, <2>4, <2>5, <2>6, <2>7
<1> QED
  BY <1>1, <1>2, Aside

LEMMA RequestKeeps ==
    ASSUME PInv, RequestUnmount
    PROVE  PInv'
<1>1. Leaving'
  BY DEF PInv, Leaving, Done, RequestUnmount, Goto, Unconfirmed
<1>2. Silent'
  BY DEF PInv, Silent, RequestUnmount, Quiet, table, locks
<1> QED
  BY <1>1, <1>2 DEF PInv, TypeOK, Accounted, Runs, RequestUnmount, table, locks

\* Processes, signals, and the control files.
LEMMA OutsideKeeps ==
    ASSUME PInv,
           \/ \E background \in BOOLEAN : Start(background)
           \/ Exit \/ Crash \/ Signal \/ Watch
           \/ ReadState \/ WriteRequest \/ Report \/ ReportMounted
    PROVE  PInv'
<1>1. CASE \E background \in BOOLEAN : Start(background)
  <2>1. Leaving'
    BY <1>1 DEF Start, Leaving
  <2> QED
    BY <1>1, <2>1, Fresh DEF Start
<1>2. CASE Exit \/ Crash
  <2>1. Leaving'
    BY <1>2 DEF Exit, Crash, Gone, Leaving
  <2> QED
    BY <1>2, <2>1, Fresh DEF Exit, Crash, Gone
<1>3. CASE Signal \/ Watch \/ ReadState \/ WriteRequest \/ Report \/ ReportMounted
  <2>1. UNCHANGED <<host, cut, main, keep, backend, table, locks>>
    BY <1>3 DEF Signal, Watch, ReadState, WriteRequest, Report, ReportMounted, process, server
  <2>2. Leaving'
    BY <2>1 DEF PInv, Leaving, Done
  <2> QED
    BY <2>1, <2>2, Aside
<1> QED
  BY <1>1, <1>2, <1>3

LEMMA HostKeeps ==
    ASSUME PInv, HostInit \/ HostFail \/ HostEnds \/ HostStops
    PROVE  PInv'
<1>1. UNCHANGED <<main, keep, backend, table, locks>>
  BY DEF HostInit, HostFail, HostEnds, HostStops, process
<1>2. Leaving'
  BY <1>1 DEF PInv, Leaving, Done, HostInit, HostFail, HostEnds, HostStops
<1>3. Silent'
  BY <1>1 DEF PInv, Silent, Quiet, HostInit, HostFail, HostEnds, HostStops, table, locks
<1>4. host' \in {"mounted", "stopping", "stopped"} /\ cut' \in BOOLEAN
  BY DEF PInv, TypeOK, HostInit, HostFail, HostEnds, HostStops
<1> QED
  BY <1>1, <1>2, <1>3, <1>4 DEF PInv, TypeOK, Accounted, Runs, table, locks

-----------------------------------------------------------------------------
(* Handles *)

\* Handle p is what a callback may leave of o.
Follows(p, o) ==
    /\ p \in Handle
    /\ o.gone => p.gone
    /\ p.closed => p.gone

\* Flush keeps the backend handle as it is.
LEMMA FlushesFollow ==
    ASSUME NEW o \in Handle, o.closed => o.gone, NEW b \in BOOLEAN, NEW p \in Flushes(o, b)
    PROVE  Follows(p, o) /\ p.closed = o.closed
<1>1. CASE p = o
  BY <1>1 DEF Follows
<1>2. CASE p = [o EXCEPT !.dirty = FALSE, !.flushed = TRUE]
  BY <1>2 DEF Follows, Handle
<1> QED
  BY <1>1, <1>2 DEF Flushes

\* So does the answer of a callback.
LEMMA AnsweredFollows ==
    ASSUME NEW o \in Handle, NEW p \in Handle, Follows(p, o), NEW ok \in BOOLEAN
    PROVE  /\ Answered(p, ok) \in Handle /\ Follows(Answered(p, ok), o)
           /\ Answered(p, ok).gone = p.gone
  BY DEF Answered, Follows, Handle

\* A closed handle has given up its backend handle.
LEMMA ShutFollows ==
    ASSUME NEW o \in Handle
    PROVE  Shut(o) \in Handle /\ Shut(o).gone /\ Shut(o).closed /\ Follows(Shut(o), o)
  BY DEF Shut, Handle, Follows

\* A thread goes on with x: an open, or a callback on a handle, which it takes
\* out of the table to release it.
LEMMA Goes ==
    ASSUME PInv, Active, NEW t \in Threads, NEW x,
           \/ x \in Opening /\ thread[t] = None
           \/ x \in OnHandle /\ obj[x.what] # None /\ thread[t] = None
           \/ /\ x \in OnHandle /\ thread[t] \in OnHandle /\ Runs(t, HandleOps)
              /\ x.op = thread[t].op /\ x.what = thread[t].what,
           handles' \subseteq handles,
           \A i \in handles : i \in handles' \/ (x \in OnHandle /\ x.op = "release" /\ x.what = i),
           thread' = [thread EXCEPT ![t] = x], UNCHANGED <<obj, sweeper, process, server>>
    PROVE  PInv'
<1> USE PortableMountAssumption
<1>1. /\ x # None
      /\ x \in OnHandle => x.op \in HandleOps /\ obj[x.what] # None
      /\ x \in Opening => x.op \in {"open", "create"}
    BY DEF PInv, Accounted, OnHandle, Opening, HandleOps
<1>2. \A u \in Threads : thread'[u] = IF u = t THEN x ELSE thread[u]
  BY DEF PInv, TypeOK
<1>3. thread' = [u \in Threads |-> thread'[u]]
  BY DEF PInv, TypeOK
<1>4. TypeOK'
  BY <1>1, <1>2, <1>3 DEF PInv, TypeOK, Runs, HandleOps, server
<1>5. ~Runs(t, {"mutate"}) /\ x.op # "mutate"
  BY <1>1 DEF Runs, OnHandle, Opening
<1>6. Accounted'
  <2>1. \A i \in handles' : obj'[i] # None
    BY DEF PInv, Accounted
  <2>2. \A u \in Threads : Runs(u, HandleOps)' => obj'[thread'[u].what] # None
    BY <1>1, <1>2 DEF PInv, Accounted, Runs, HandleOps, Opening
  <2>3. \A u \in Threads : Runs(u, {"mutate"})' =>
            sweeper' = u /\ \A i \in thread'[u].at : obj'[i] # None
    BY <1>2, <1>5 DEF PInv, Accounted, Runs
  <2>4. sweeper' # None => Runs(sweeper, {"mutate"})'
    BY <1>2, <1>5 DEF PInv, Accounted, TypeOK, Runs
  <2>5. \A i \in Ids : obj'[i] # None /\ ~obj'[i].gone =>
            i \in handles' \/ \E u \in Threads : Runs(u, {"release"})' /\ thread'[u].what = i
    <3> SUFFICES ASSUME NEW i \in Ids, obj[i] # None, ~obj[i].gone, i \notin handles'
                 PROVE  \E u \in Threads : Runs(u, {"release"})' /\ thread'[u].what = i
      OBVIOUS
    <3>1. CASE i \in handles
      <4>1. Runs(t, {"release"})' /\ thread'[t].what = i
        BY <1>1, <1>2, <3>1 DEF Runs
      <4> QED
        BY <4>1
    <3>2. CASE i \notin handles
      <4>1. PICK u \in Threads : Runs(u, {"release"}) /\ thread[u].what = i
        BY <3>2 DEF PInv, Accounted
      <4>2. Runs(u, {"release"})' /\ thread'[u].what = i
        BY <1>1, <1>2, <4>1 DEF Runs
      <4> QED
        BY <4>2
    <3> QED
      BY <3>1, <3>2
  <2> QED
    BY <2>1, <2>2, <2>3, <2>4, <2>5 DEF PInv, Accounted
<1> QED
  BY <1>4, <1>6, Within

\* A callback on a handle ends, and leaves it as p.
LEMMA Ends ==
    ASSUME PInv, NEW t \in Threads, Runs(t, HandleOps), NEW p,
           Follows(p, obj[thread[t].what]), thread[t].op = "release" => p.gone,
           Finish(t, p)
    PROVE  PInv'
<1> USE PortableMountAssumption
<1>0. Active
  BY RunsActive DEF Runs
<1>1. /\ thread[t] \in OnHandle /\ thread[t].what \in Ids
      /\ p \in Handle /\ p # None
  BY DEF PInv, TypeOK, Runs, HandleOps, OnHandle, Follows
<1>2. /\ \A u \in Threads : thread'[u] = IF u = t THEN None ELSE thread[u]
      /\ thread' = [u \in Threads |-> thread'[u]]
  BY DEF PInv, TypeOK, Finish
<1>3. \A i \in Ids : obj'[i] = IF i = thread[t].what THEN p ELSE obj[i]
  BY DEF PInv, TypeOK, Finish
<1>4. UNCHANGED <<handles, sweeper, process, server>>
  BY DEF Finish
<1>5. TypeOK'
  <2>1. obj' \in [Ids -> Handle \cup {None}]
    BY <1>1 DEF PInv, TypeOK, Finish
  <2> QED
    BY <1>2, <1>4, <2>1 DEF PInv, TypeOK, Runs, server
<1>6. Accounted'
  <2>1. \A i \in handles' : obj'[i] # None
    BY <1>1, <1>3, <1>4 DEF PInv, Accounted, TypeOK
  <2>2. \A u \in Threads : Runs(u, HandleOps)' => obj'[thread'[u].what] # None
    <3> SUFFICES ASSUME NEW u \in Threads, Runs(u, HandleOps)'
                 PROVE  obj'[thread'[u].what] # None
      OBVIOUS
    <3>1. Runs(u, HandleOps) /\ thread'[u] = thread[u]
      BY <1>2 DEF Runs
    <3>2. thread[u].what \in Ids /\ obj[thread[u].what] # None
      BY <3>1 DEF PInv, Accounted, TypeOK, Runs, HandleOps, OnHandle
    <3> QED
      BY <1>1, <1>3, <3>1, <3>2
  <2>3. \A u \in Threads : Runs(u, {"mutate"})' =>
            sweeper' = u /\ \A i \in thread'[u].at : obj'[i] # None
    <3> SUFFICES ASSUME NEW u \in Threads, Runs(u, {"mutate"})'
                 PROVE  sweeper' = u /\ \A i \in thread'[u].at : obj'[i] # None
      OBVIOUS
    <3>1. Runs(u, {"mutate"}) /\ thread'[u] = thread[u]
      BY <1>2 DEF Runs
    <3>2. thread[u].at \subseteq Ids
      BY <3>1 DEF PInv, TypeOK, Runs, HandleOps, Mutation
    <3>3. sweeper = u /\ \A i \in thread[u].at : obj[i] # None
      BY <3>1 DEF PInv, Accounted
    <3> QED
      BY <1>1, <1>3, <1>4, <3>1, <3>2, <3>3
  <2>4. sweeper' # None => Runs(sweeper, {"mutate"})'
    BY <1>2, <1>4 DEF PInv, Accounted, TypeOK, Runs, HandleOps
  <2>5. \A i \in Ids : obj'[i] # None =>
            /\ obj'[i].closed => obj'[i].gone
            /\ ~obj'[i].gone =>
                  i \in handles' \/ \E u \in Threads : Runs(u, {"release"})' /\ thread'[u].what = i
    <3> TAKE i \in Ids
    <3>1. CASE i = thread[t].what
      <4>1. obj'[i] = p /\ obj[i] # None
        BY <1>3, <3>1 DEF PInv, Accounted
      <4>2. p.closed => p.gone
        BY DEF Follows
      <4>3. ASSUME ~p.gone
            PROVE  i \in handles' \/ \E u \in Threads : Runs(u, {"release"})' /\ thread'[u].what = i
        <5>1. ~obj[i].gone /\ thread[t].op # "release"
          BY <3>1, <4>3 DEF Follows
        <5>2. i \in handles \/ \E u \in Threads : Runs(u, {"release"}) /\ thread[u].what = i
          BY <4>1, <5>1 DEF PInv, Accounted
        <5> QED
          BY <1>2, <1>4, <5>1, <5>2 DEF Runs
      <4> QED
        BY <4>1, <4>2, <4>3
    <3>2. CASE i # thread[t].what
      <4>1. obj'[i] = obj[i]
        BY <1>3, <3>2
      <4> QED
        BY <1>2, <1>4, <3>2, <4>1 DEF PInv, Accounted, Runs
    <3> QED
      BY <3>1, <3>2
  <2> QED
    BY <2>1, <2>2, <2>3, <2>4, <2>5 DEF Accounted
<1> QED
  BY <1>0, <1>4, <1>5, <1>6, Within

-----------------------------------------------------------------------------
(* Callbacks *)

\* What a thread inside of a callback on a handle works on.
LEMMA OnIt ==
    ASSUME PInv, NEW t \in Threads, NEW op \in HandleOps, NEW step, Doing(t, op, step)
    PROVE  /\ Runs(t, HandleOps) /\ thread[t] \in OnHandle /\ thread[t].op = op
           /\ thread[t].what \in Ids /\ obj[thread[t].what] \in Handle
           /\ obj[thread[t].what].closed => obj[thread[t].what].gone
<1>1. Runs(t, HandleOps) /\ thread[t].op = op
  BY DEF Doing, Runs
<1>2. thread[t] \in OnHandle
  BY <1>1 DEF PInv, TypeOK, Runs, HandleOps
<1>3. thread[t].what \in Ids /\ obj[thread[t].what] # None
  BY <1>1, <1>2 DEF PInv, Accounted, OnHandle
<1> QED
  BY <1>1, <1>2, <1>3 DEF PInv, TypeOK, Accounted

LEMMA OpenKeeps ==
    ASSUME PInv, NEW t \in Threads, NEW op \in {"open", "create"}, NEW f \in Files,
           BeginOpen(t, op, f)
    PROVE  PInv'
<1> DEFINE x == [op |-> op, at |-> "opening", what |-> f]
<1>1. x \in Opening
  BY DEF Opening
<1>2. Active /\ thread[t] = None /\ thread' = [thread EXCEPT ![t] = x]
  BY DEF BeginOpen, Idle, Active, Thread
<1>3. UNCHANGED <<handles, obj, sweeper, process, server>>
  BY DEF BeginOpen, table
<1> HIDE DEF x
<1> QED
  BY <1>1, <1>2, <1>3, Goes

LEMMA GetKeeps ==
    ASSUME PInv, NEW t \in Threads, NEW op \in HandleOps, NEW id \in Ids, Get(t, op, id)
    PROVE  PInv'
<1> DEFINE x == [op |-> op, at |-> "got", what |-> id]
<1>1. x \in OnHandle /\ x.op = op /\ x.what = id
  BY DEF OnHandle, HandleOps
<1>2. Active /\ thread[t] = None /\ thread' = [thread EXCEPT ![t] = x]
  BY DEF Get, Idle, Active, Thread
<1>3. UNCHANGED <<obj, sweeper, process, server>>
  BY DEF Get
<1>4. /\ handles' = IF op = "release" THEN handles \ {id} ELSE handles
      /\ obj[id] # None
  BY DEF Get, PInv, Accounted
<1> HIDE DEF x
<1> QED
  BY <1>1, <1>2, <1>3, <1>4, Goes

LEMMA LockKeeps ==
    ASSUME PInv, NEW t \in Threads, NEW op \in HandleOps, Lock(t, op)
    PROVE  PInv'
<1> DEFINE x == [op |-> op, at |-> "locked", what |-> thread[t].what]
<1>1. /\ Runs(t, HandleOps) /\ thread[t] \in OnHandle /\ thread[t].op = op
      /\ thread[t].what \in Ids
  BY OnIt DEF Lock
<1>2. x \in OnHandle /\ x.op = op /\ x.what = thread[t].what
  BY <1>1 DEF OnHandle, HandleOps
<1>3. thread' = [thread EXCEPT ![t] = x] /\ UNCHANGED <<handles, obj, sweeper, process, server>>
  BY DEF Lock, Thread, table
<1>4. Active /\ obj[thread[t].what] # None
  BY <1>1, RunsActive DEF Runs, PInv, Accounted
<1> HIDE DEF x
<1> QED
  BY <1>1, <1>2, <1>3, <1>4, Goes

LEMMA FinishKeeps ==
    ASSUME PInv, NEW t \in Threads, Write(t) \/ Flush(t) \/ Release(t)
    PROVE  PInv'
<1> DEFINE o == obj[thread[t].what]
<1>1. CASE Write(t)
  <2>1. /\ Runs(t, HandleOps) /\ thread[t].op = "write" /\ o \in Handle
        /\ o.closed => o.gone
    BY <1>1, OnIt DEF Write, HandleOps
  <2>2. PICK p : p \in {o, Written(o), PartlyWritten(o)} /\ Finish(t, p)
    BY <1>1 DEF Write
  <2>3. Follows(p, o)
    BY <2>1, <2>2 DEF Follows, Handle, Written, PartlyWritten
  <2> QED
    BY <2>1, <2>2, <2>3, Ends
<1>2. CASE Flush(t)
  <2>1. /\ Runs(t, HandleOps) /\ thread[t].op = "flush" /\ o \in Handle
        /\ o.closed => o.gone
    BY <1>2, OnIt DEF Flush, HandleOps
  <2>2. PICK q \in {o} \cup Flushes(o, cut) :
          Finish(t, q) \/ \E ok \in BOOLEAN : Finish(t, Answered(q, ok))
    <3>1. CASE o.closed
      <4>1. Finish(t, o) \/ Finish(t, Answered(o, TRUE))
        BY <1>2, <2>1, <3>1 DEF Flush
      <4> QED
        BY <4>1
    <3>2. CASE ~o.closed /\ o.gone
      BY <1>2, <3>2 DEF Flush
    <3>3. CASE ~o.gone
      <4>1. PICK q \in Flushes(o, cut) : Finish(t, Answered(q, ~q.dirty))
        BY <1>2, <2>1, <3>3 DEF Flush
      <4>2. (~q.dirty) \in BOOLEAN
        OBVIOUS
      <4> QED
        BY <4>1, <4>2
    <3> QED
      BY <3>1, <3>2, <3>3
  <2>3. q \in Handle /\ Follows(q, o)
    <3>1. cut \in BOOLEAN
      BY DEF PInv, TypeOK
    <3> QED
      BY <2>1, <2>2, <3>1, FlushesFollow DEF Follows
  <2>4. \A ok \in BOOLEAN : Follows(Answered(q, ok), o)
    BY <2>1, <2>3, AnsweredFollows
  <2> QED
    BY <2>1, <2>2, <2>3, <2>4, Ends
<1>3. CASE Release(t)
  <2>1. /\ Runs(t, HandleOps) /\ thread[t].op = "release" /\ o \in Handle
        /\ o.closed => o.gone
    BY <1>3, OnIt DEF Release, HandleOps
  <2>2. PICK p \in IF o.closed THEN {Answered(o, TRUE)}
                   ELSE IF o.flushed \/ o.gone THEN {Released(o)}
                   ELSE {Released(q) : q \in Flushes(o, cut)} : Finish(t, p)
    BY <1>3 DEF Release
  <2>3. ASSUME NEW q \in Handle
        PROVE  Follows(Released(q), o) /\ Released(q).gone
    <3>1. Shut(q) \in Handle /\ Shut(q).gone
      BY ShutFollows
    <3>2. Follows(Shut(q), o) /\ (~q.dirty) \in BOOLEAN
      BY <3>1 DEF Follows
    <3> QED
      BY <2>1, <3>1, <3>2, AnsweredFollows DEF Released
  <2>4. Follows(p, o) /\ p.gone
    <3>1. CASE o.closed
      <4>1. Follows(o, o)
        BY <2>1 DEF Follows
      <4> QED
        BY <2>1, <2>2, <3>1, <4>1, AnsweredFollows
    <3>2. CASE ~o.closed /\ (o.flushed \/ o.gone)
      BY <2>1, <2>2, <2>3, <3>2
    <3>3. CASE ~o.closed /\ ~(o.flushed \/ o.gone)
      <4>1. PICK q \in Flushes(o, cut) : p = Released(q)
        BY <2>2, <3>3
      <4>2. q \in Handle
        <5>1. cut \in BOOLEAN
          BY DEF PInv, TypeOK
        <5> QED
          BY <2>1, <5>1, FlushesFollow DEF Follows
      <4> QED
        BY <2>3, <4>1, <4>2
    <3> QED
      BY <3>1, <3>2, <3>3
  <2> QED
    BY <2>1, <2>2, <2>4, Ends
<1> QED
  BY <1>1, <1>2, <1>3

\* What a thread that opens works on: no handle yet.
LEMMA OpensIt ==
    ASSUME PInv, NEW t \in Threads, NEW op \in {"open", "create"}, Doing(t, op, "opening")
    PROVE  /\ Active /\ thread[t] \in Opening /\ ~Runs(t, HandleOps) /\ ~Runs(t, {"mutate"})
           /\ thread[t].what \in Files
<1>1. Active /\ Runs(t, {"open", "create"})
  BY RunsActive DEF Doing, Runs
<1>2. thread[t] \in Opening
  BY <1>1 DEF PInv, TypeOK, Runs, HandleOps
<1> QED
  BY <1>1, <1>2 DEF Runs, HandleOps, Opening

LEMMA FailOpenKeeps ==
    ASSUME PInv, NEW t \in Threads, NEW op \in {"open", "create"}, FailOpen(t, op)
    PROVE  PInv'
<1>1. /\ Active /\ thread[t] \in Opening /\ ~Runs(t, HandleOps) /\ ~Runs(t, {"mutate"})
  BY OpensIt DEF FailOpen
<1>2. /\ thread' = [u \in Threads |-> thread'[u]]
      /\ \A u \in Threads : thread'[u] = IF u = t THEN None ELSE thread[u]
      /\ UNCHANGED <<handles, obj, sweeper, process, server>>
  BY DEF PInv, TypeOK, FailOpen, table
<1>3. TypeOK'
  BY <1>2 DEF PInv, TypeOK, Runs, server
<1>4. Accounted'
  BY <1>1, <1>2 DEF PInv, TypeOK, Accounted, Runs, HandleOps
<1> QED
  BY <1>1, <1>2, <1>3, <1>4, Within

LEMMA AllocKeeps ==
    ASSUME PInv, NEW t \in Threads, NEW op \in {"open", "create"},
           NEW writing \in BOOLEAN, NEW dirty \in BOOLEAN, Alloc(t, op, writing, dirty)
    PROVE  PInv'
<1> USE PortableMountAssumption
<1> DEFINE h == [file |-> thread[t].what, writing |-> writing, dirty |-> dirty,
                 flushed |-> FALSE, closed |-> FALSE, gone |-> FALSE, acked |-> FALSE]
<1>1. /\ Active /\ thread[t] \in Opening /\ ~Runs(t, HandleOps) /\ ~Runs(t, {"mutate"})
      /\ thread[t].what \in Files
  BY OpensIt DEF Alloc
<1>2. h \in Handle /\ ~h.closed
  BY <1>1 DEF Handle
<1>3. h # None
  BY <1>2
<1>4. /\ thread' = [u \in Threads |-> thread'[u]]
      /\ \A u \in Threads : thread'[u] = IF u = t THEN None ELSE thread[u]
      /\ next \in Ids /\ handles' = handles \cup {next} /\ obj' = [obj EXCEPT ![next] = h]
      /\ UNCHANGED <<sweeper, process, server>>
  BY DEF PInv, TypeOK, Alloc
<1> HIDE DEF h
<1>5. /\ obj' \in [Ids -> Handle \cup {None}]
      /\ \A i \in Ids : obj'[i] = IF i = next THEN h ELSE obj[i]
  BY <1>2, <1>4 DEF PInv, TypeOK
<1>6. TypeOK'
  BY <1>4, <1>5 DEF PInv, TypeOK, Runs, server
<1>7. Accounted'
  <2>1. \A i \in handles' : obj'[i] # None
    BY <1>3, <1>4, <1>5 DEF PInv, TypeOK, Accounted
  <2>2. \A u \in Threads : Runs(u, HandleOps)' => obj'[thread'[u].what] # None
    <3> SUFFICES ASSUME NEW u \in Threads, Runs(u, HandleOps)'
                 PROVE  obj'[thread'[u].what] # None
      OBVIOUS
    <3>1. Runs(u, HandleOps) /\ thread'[u] = thread[u]
      BY <1>4 DEF Runs
    <3>2. thread[u].what \in Ids /\ obj[thread[u].what] # None
      BY <3>1 DEF PInv, Accounted, TypeOK, Runs, HandleOps, OnHandle
    <3> QED
      BY <1>3, <1>5, <3>1, <3>2
  <2>3. \A u \in Threads : Runs(u, {"mutate"})' =>
            sweeper' = u /\ \A i \in thread'[u].at : obj'[i] # None
    <3> SUFFICES ASSUME NEW u \in Threads, Runs(u, {"mutate"})'
                 PROVE  sweeper' = u /\ \A i \in thread'[u].at : obj'[i] # None
      OBVIOUS
    <3>1. Runs(u, {"mutate"}) /\ thread'[u] = thread[u]
      BY <1>4 DEF Runs
    <3>2. thread[u].at \subseteq Ids
      BY <3>1 DEF PInv, TypeOK, Runs, HandleOps, Mutation
    <3> QED
      BY <1>3, <1>4, <1>5, <3>1, <3>2 DEF PInv, Accounted
  <2>4. sweeper' # None => Runs(sweeper, {"mutate"})'
    BY <1>1, <1>4 DEF PInv, Accounted, TypeOK, Runs
  <2>5. \A i \in Ids : obj'[i] # None =>
            /\ obj'[i].closed => obj'[i].gone
            /\ ~obj'[i].gone =>
                  i \in handles' \/ \E u \in Threads : Runs(u, {"release"})' /\ thread'[u].what = i
    <3> TAKE i \in Ids
    <3>1. CASE i = next
      BY <1>2, <1>4, <1>5, <3>1
    <3>2. CASE i # next
      BY <1>1, <1>4, <1>5, <3>2 DEF PInv, Accounted, Runs, HandleOps
    <3> QED
      BY <3>1, <3>2
  <2> QED
    BY <2>1, <2>2, <2>3, <2>4, <2>5 DEF Accounted
<1> QED
  BY <1>1, <1>4, <1>6, <1>7, Within

LEMMA MutationKeeps ==
    ASSUME PInv, NEW t \in Threads, NEW f \in Files, BeginMutation(t, f)
    PROVE  PInv'
<1> USE PortableMountAssumption
<1> DEFINE x == [op |-> "mutate", at |-> {i \in handles : obj[i].file = f}, what |-> f]
<1>1. x \in Mutation /\ x.op = "mutate" /\ x.at \subseteq handles
  BY DEF Mutation, PInv, TypeOK
<1>2. /\ Active /\ thread[t] = None /\ sweeper = None /\ sweeper' = t
      /\ thread' = [thread EXCEPT ![t] = x] /\ UNCHANGED <<handles, obj, process, server>>
  BY DEF BeginMutation, Idle, Active, Free, Thread, table
<1> HIDE DEF x
<1>3. /\ thread' = [u \in Threads |-> thread'[u]]
      /\ \A u \in Threads : thread'[u] = IF u = t THEN x ELSE thread[u]
  BY <1>2 DEF PInv, TypeOK
<1>4. x # None
  BY <1>1
<1>5. TypeOK'
  BY <1>1, <1>2, <1>3 DEF PInv, TypeOK, Runs, server
<1>6. \A u \in Threads : ~Runs(u, {"mutate"})
  BY <1>2 DEF PInv, Accounted
<1>7. Accounted'
  <2>1. \A u \in Threads : ~Runs(u, {"mutate"})' => thread'[u] = thread[u]
    BY <1>1, <1>3, <1>4 DEF Runs
  <2>2. \A u \in Threads : Runs(u, {"mutate"})' => u = t
    BY <1>3, <1>6 DEF Runs
  <2>3. Runs(t, {"mutate"})' /\ \A i \in x.at : obj[i] # None
    BY <1>1, <1>3, <1>4 DEF PInv, Accounted, Runs
  <2>4. \A u \in Threads : Runs(u, HandleOps)' => obj'[thread'[u].what] # None
    BY <1>2, <2>1 DEF PInv, Accounted, Runs, HandleOps
  <2>5. \A u \in Threads : Runs(u, {"release"}) => u # t
    BY <1>2 DEF Runs
  <2>6. \A u \in Threads : Runs(u, {"release"}) =>
            Runs(u, {"release"})' /\ thread'[u].what = thread[u].what
    BY <1>3, <2>5 DEF Runs
  <2> QED
    BY <1>2, <1>3, <2>2, <2>3, <2>4, <2>6 DEF PInv, Accounted
<1> QED
  BY <1>2, <1>5, <1>7, Within

LEMMA SweepKeeps ==
    ASSUME PInv, NEW t \in Threads, NEW id \in Ids, Sweep(t, id)
    PROVE  PInv'
<1> USE PortableMountAssumption
<1> DEFINE o == obj[id]
           x == [op |-> "mutate", at |-> thread[t].at \ {id}, what |-> thread[t].what]
           p == IF ~(~o.writing \/ o.flushed) \/ o.closed THEN o ELSE Swept(o)
<1>1. /\ sweeper = t /\ id \in thread[t].at /\ Runs(t, {"mutate"}) /\ thread[t] \in Mutation
      /\ Active
  <2>1. sweeper = t /\ id \in thread[t].at /\ Runs(t, {"mutate"})
    BY DEF Sweep, PInv, Accounted
  <2>2. thread[t] \in Mutation
    BY <2>1 DEF PInv, TypeOK, Runs, HandleOps
  <2> QED
    BY <2>1, <2>2, RunsActive DEF Runs
<1>2. o \in Handle /\ (o.closed => o.gone)
  BY <1>1 DEF PInv, Accounted, TypeOK
<1>3. p \in Handle /\ Follows(p, o)
  <2>1. CASE p = o
    BY <1>2, <2>1 DEF Follows
  <2>2. CASE p = [o EXCEPT !.gone = TRUE]
    BY <1>2, <2>2 DEF Follows, Handle
  <2>3. CASE p = Shut(o)
    BY <1>2, <2>3, ShutFollows
  <2> QED
    BY <2>1, <2>2, <2>3 DEF Swept
<1>4. x \in Mutation /\ x.op = "mutate" /\ x.at \subseteq thread[t].at
  BY <1>1 DEF Mutation
<1>5. /\ thread' = [thread EXCEPT ![t] = x] /\ obj' = [obj EXCEPT ![id] = p]
      /\ UNCHANGED <<handles, sweeper, process, server>>
  BY DEF Sweep, Thread
<1> HIDE DEF x, p
<1>6. /\ thread' = [u \in Threads |-> thread'[u]]
      /\ \A u \in Threads : thread'[u] = IF u = t THEN x ELSE thread[u]
      /\ obj' \in [Ids -> Handle \cup {None}]
      /\ \A i \in Ids : obj'[i] = IF i = id THEN p ELSE obj[i]
  BY <1>3, <1>5 DEF PInv, TypeOK
<1>7. x # None /\ p # None
  BY <1>3, <1>4
<1>8. TypeOK'
  BY <1>4, <1>5, <1>6 DEF PInv, TypeOK, Runs, server
<1>9. Accounted'
  <2>1. \A i \in Ids : obj[i] # None => obj'[i] # None
    BY <1>6, <1>7
  <2>2. \A i \in handles' : obj'[i] # None
    BY <1>5, <2>1 DEF PInv, TypeOK, Accounted
  <2>3. \A u \in Threads : Runs(u, HandleOps)' => obj'[thread'[u].what] # None
    <3> SUFFICES ASSUME NEW u \in Threads, Runs(u, HandleOps)'
                 PROVE  obj'[thread'[u].what] # None
      OBVIOUS
    <3>1. Runs(u, HandleOps) /\ thread'[u] = thread[u]
      BY <1>4, <1>6 DEF Runs, HandleOps
    <3>2. thread[u].what \in Ids /\ obj[thread[u].what] # None
      BY <3>1 DEF PInv, Accounted, TypeOK, Runs, HandleOps, OnHandle
    <3> QED
      BY <2>1, <3>1, <3>2
  <2>4. \A u \in Threads : Runs(u, {"mutate"})' =>
            sweeper' = u /\ \A i \in thread'[u].at : obj'[i] # None
    <3> SUFFICES ASSUME NEW u \in Threads, Runs(u, {"mutate"})'
                 PROVE  sweeper' = u /\ \A i \in thread'[u].at : obj'[i] # None
      OBVIOUS
    <3>1. u = t
      BY <1>1, <1>6 DEF PInv, Accounted, Runs
    <3>2. \A i \in thread[t].at : i \in Ids /\ obj[i] # None
      BY <1>1 DEF PInv, Accounted, Mutation
    <3> QED
      BY <1>1, <1>4, <1>5, <1>6, <2>1, <3>1, <3>2
  <2>5. sweeper' # None => Runs(sweeper, {"mutate"})'
    BY <1>1, <1>4, <1>5, <1>6, <1>7 DEF Runs
  <2>6. \A i \in Ids : obj'[i] # None =>
            /\ obj'[i].closed => obj'[i].gone
            /\ ~obj'[i].gone =>
                  i \in handles' \/ \E u \in Threads : Runs(u, {"release"})' /\ thread'[u].what = i
    <3> TAKE i \in Ids
    <3>1. \A u \in Threads : Runs(u, {"release"}) => thread'[u] = thread[u]
      BY <1>1, <1>6 DEF Runs
    <3>2. obj'[i] # None => obj[i] # None /\ (obj[i].gone => obj'[i].gone) /\ (obj'[i].closed => obj'[i].gone)
      <4>1. CASE i = id
        BY <1>1, <1>3, <1>6, <4>1 DEF Follows, PInv, Accounted
      <4>2. CASE i # id
        BY <1>6, <4>2 DEF PInv, Accounted
      <4> QED
        BY <4>1, <4>2
    <3> QED
      BY <1>5, <3>1, <3>2 DEF PInv, Accounted, Runs
  <2> QED
    BY <2>2, <2>3, <2>4, <2>5, <2>6 DEF Accounted
<1> QED
  BY <1>1, <1>5, <1>8, <1>9, Within

LEMMA MutateKeeps ==
    ASSUME PInv, NEW t \in Threads, Mutate(t)
    PROVE  PInv'
<1> USE PortableMountAssumption
<1>1. sweeper = t /\ Runs(t, {"mutate"})
  BY DEF Mutate, PInv, Accounted
<1>2. Active
  BY <1>1, RunsActive DEF Runs
<1>3. /\ thread' = [u \in Threads |-> thread'[u]]
      /\ \A u \in Threads : thread'[u] = IF u = t THEN None ELSE thread[u]
      /\ sweeper' = None /\ UNCHANGED <<handles, obj, process, server>>
  BY DEF PInv, TypeOK, Mutate, table
<1>4. TypeOK'
  BY <1>3 DEF PInv, TypeOK, Runs, server
<1>5. \A u \in Threads : ~Runs(u, {"mutate"})'
  BY <1>1, <1>3 DEF PInv, Accounted, Runs
<1>6. Accounted'
  BY <1>1, <1>3, <1>5 DEF PInv, Accounted, Runs, HandleOps
<1> QED
  BY <1>2, <1>3, <1>4, <1>6, Within

LEMMA DestroyKeeps ==
    ASSUME PInv, NEW id \in Ids, Destroy(id)
    PROVE  PInv'
<1> USE PortableMountAssumption
<1>1. /\ Active /\ \A t \in Threads : thread[t] = None
      /\ id \in handles /\ handles' = handles \ {id}
      /\ UNCHANGED <<thread, sweeper, process, server>>
  BY DEF Destroy, Active, Quiet, locks
<1>2. obj[id] \in Handle /\ (obj[id].closed => obj[id].gone)
  BY <1>1 DEF PInv, TypeOK, Accounted
<1>3. PICK p \in IF obj[id].closed THEN {obj[id]}
                 ELSE IF obj[id].flushed THEN {Shut(obj[id])}
                 ELSE {Shut(q) : q \in Flushes(obj[id], FALSE)} :
         obj' = [obj EXCEPT ![id] = p]
  BY DEF Destroy
<1>4. p \in Handle /\ p.gone
  <2>1. CASE obj[id].closed
    BY <1>2, <1>3, <2>1
  <2>2. CASE ~obj[id].closed /\ obj[id].flushed
    BY <1>2, <1>3, <2>2, ShutFollows
  <2>3. CASE ~obj[id].closed /\ ~obj[id].flushed
    <3>1. PICK q \in Flushes(obj[id], FALSE) : p = Shut(q)
      BY <1>3, <2>3
    <3>2. q \in Handle
      BY <1>2, FlushesFollow DEF Follows
    <3> QED
      BY <3>1, <3>2, ShutFollows
  <2> QED
    BY <2>1, <2>2, <2>3
<1>5. /\ obj' \in [Ids -> Handle \cup {None}]
      /\ \A i \in Ids : obj'[i] = IF i = id THEN p ELSE obj[i]
  BY <1>3, <1>4 DEF PInv, TypeOK
<1>6. TypeOK'
  BY <1>1, <1>5 DEF PInv, TypeOK, Runs, server
<1>7. Accounted'
  BY <1>1, <1>4, <1>5 DEF PInv, TypeOK, Accounted, Runs
<1> QED
  BY <1>1, <1>6, <1>7, Within

-----------------------------------------------------------------------------
(* What was written *)

\* Handle i is in the table, or being released.
Live(i) == i \in handles \/ \E t \in Threads : Runs(t, {"release"}) /\ thread[t].what = i

\* A release has its handle to itself, and no id is used twice.
Taken ==
    /\ next \in Nat /\ \A i \in Ids : obj[i] # None => i < next
    /\ \A t \in Threads : Runs(t, {"release"}) =>
          /\ thread[t].what \notin handles
          /\ \A u \in Threads : Runs(u, {"release"}) /\ thread[u].what = thread[t].what => u = t

\* What has been reported as saved is saved, and so is what is marked as closed
\* and can still be flushed or released.
Saved(o, live) == ~o.dirty \/ (~o.acked /\ ~(o.closed /\ live))

Kept == Taken /\ \A i \in Ids : obj[i] # None => Saved(obj[i], Live(i))

\* A step that begins no release and opens nothing, and leaves what it changes
\* of the handles as it should be.
LEMMA StepKept ==
    ASSUME Kept, next' = next, handles' \subseteq handles,
           \A u \in Threads : Runs(u, {"release"})' =>
              Runs(u, {"release"}) /\ thread'[u].what = thread[u].what,
           \A i \in Ids : obj'[i] = obj[i] \/ (obj[i] # None /\ Saved(obj'[i], Live(i)'))
    PROVE  Kept'
<1>1. Taken'
  BY DEF Kept, Taken
<1>2. \A i \in Ids : Live(i)' => Live(i)
  BY DEF Live
<1>3. \A i \in Ids : obj'[i] # None => Saved(obj'[i], Live(i)')
  BY <1>2 DEF Kept, Saved
<1> QED
  BY <1>1, <1>3 DEF Kept

LEMMA FreshKept ==
    ASSUME NewProcess
    PROVE  Kept'
  BY DEF NewProcess, Kept, Taken, Runs

\* The handle is taken out of the table by the release that begins.
LEMMA GetKept ==
    ASSUME PInv, Kept, NEW t \in Threads, NEW op \in HandleOps, NEW id \in Ids, Get(t, op, id)
    PROVE  Kept'
<1>1. /\ thread[t] = None /\ id \in handles /\ UNCHANGED <<next, obj>>
      /\ \A u \in Threads :
            thread'[u] = IF u = t THEN [op |-> op, at |-> "got", what |-> id] ELSE thread[u]
      /\ handles' = IF op = "release" THEN handles \ {id} ELSE handles
  BY DEF Get, Idle, Thread, PInv, TypeOK
<1>2. CASE op # "release"
  <2>1. \A u \in Threads : Runs(u, {"release"})' =>
            Runs(u, {"release"}) /\ thread'[u].what = thread[u].what
    BY <1>1, <1>2 DEF Runs
  <2> QED
    BY <1>1, <1>2, <2>1, StepKept
<1>3. CASE op = "release"
  <2>1. \A u \in Threads : Runs(u, {"release"})' =>
            \/ u = t /\ thread'[u].what = id
            \/ u # t /\ Runs(u, {"release"}) /\ thread'[u] = thread[u]
    BY <1>1 DEF Runs
  <2>2. \A u \in Threads : Runs(u, {"release"}) => thread[u].what # id
    BY <1>1 DEF Kept, Taken
  <2>3. Taken'
    <3>1. \A u \in Threads : Runs(u, {"release"})' =>
              /\ thread'[u].what \notin handles'
              /\ \A v \in Threads : Runs(v, {"release"})' /\ thread'[v].what = thread'[u].what => v = u
      BY <1>1, <1>3, <2>1, <2>2 DEF Kept, Taken
    <3> QED
      BY <1>1, <3>1 DEF Kept, Taken
  <2>4. \A i \in Ids : Live(i)' => Live(i)
    BY <1>1, <1>3, <2>1 DEF Live
  <2> QED
    BY <1>1, <2>3, <2>4 DEF Kept, Saved
<1> QED
  BY <1>2, <1>3

\* The other steps of threads that leave the handles alone.
LEMMA ThreadKept ==
    ASSUME PInv, Kept, NEW t \in Threads,
           \/ \E f \in Files : BeginMutation(t, f) \/ \E op \in {"open", "create"} : BeginOpen(t, op, f)
           \/ \E op \in {"open", "create"} : FailOpen(t, op)
           \/ \E op \in HandleOps : Lock(t, op)
           \/ Mutate(t)
    PROVE  Kept'
<1>1. UNCHANGED table
  BY DEF BeginMutation, BeginOpen, FailOpen, Lock, Mutate
<1>2. \A u \in Threads : Runs(u, {"release"})' =>
          Runs(u, {"release"}) /\ thread'[u].what = thread[u].what
  <2>1. CASE \E f \in Files : BeginMutation(t, f) \/ \E op \in {"open", "create"} : BeginOpen(t, op, f)
    BY <2>1 DEF BeginMutation, BeginOpen, Thread, Runs, PInv, TypeOK
  <2>2. CASE (\E op \in {"open", "create"} : FailOpen(t, op)) \/ Mutate(t)
    BY <2>2 DEF FailOpen, Mutate, Runs, PInv, TypeOK
  <2>3. CASE \E op \in HandleOps : Lock(t, op)
    BY <2>3 DEF Lock, Doing, Thread, Runs, PInv, TypeOK
  <2> QED
    BY <2>1, <2>2, <2>3
<1> QED
  BY <1>1, <1>2, StepKept DEF table

\* A callback on a handle ends, and leaves it as p.
LEMMA EndKept ==
    ASSUME PInv, Kept, NEW t \in Threads, Runs(t, HandleOps), NEW h \in Ids, thread[t].what = h,
           NEW p, Saved(p, Live(h)'), Finish(t, p)
    PROVE  Kept'
<1>1. obj[h] # None
  BY DEF PInv, Accounted
<1>2. /\ \A i \in Ids : obj'[i] = IF i = h THEN p ELSE obj[i]
      /\ \A u \in Threads : thread'[u] = IF u = t THEN None ELSE thread[u]
      /\ UNCHANGED <<handles, next>>
  BY DEF Finish, PInv, TypeOK
<1>3. \A u \in Threads : Runs(u, {"release"})' =>
          Runs(u, {"release"}) /\ thread'[u].what = thread[u].what
  BY <1>2 DEF Runs
<1>4. \A i \in Ids : obj'[i] = obj[i] \/ (obj[i] # None /\ Saved(obj'[i], Live(i)'))
  BY <1>1, <1>2
<1> QED
  BY <1>2, <1>3, <1>4, StepKept

LEMMA CallbackKept ==
    ASSUME PInv, Kept, NEW t \in Threads, Write(t) \/ Flush(t) \/ Release(t)
    PROVE  Kept'
<1>0. PICK i \in Ids : thread[t].what = i
  BY OnIt DEF Write, Flush, Release, HandleOps
<1> DEFINE o == obj[i]
<1>1. Runs(t, HandleOps) /\ o \in Handle /\ (o.closed => o.gone)
  BY <1>0, OnIt DEF Write, Flush, Release, HandleOps
<1>2. Saved(o, Live(i))
  BY <1>1, PortableMountAssumption DEF Kept
<1>3. ASSUME NEW p, Finish(t, p)
      PROVE  /\ handles' = handles
             /\ \A u \in Threads : Runs(u, {"release"})' =>
                   u # t /\ Runs(u, {"release"}) /\ thread'[u].what = thread[u].what
             /\ Live(i)' => Live(i)
  <2>1. /\ handles' = handles
        /\ \A u \in Threads : thread'[u] = IF u = t THEN None ELSE thread[u]
    BY <1>3 DEF Finish, PInv, TypeOK
  <2>2. \A u \in Threads : Runs(u, {"release"})' =>
            u # t /\ Runs(u, {"release"}) /\ thread'[u].what = thread[u].what
    BY <2>1 DEF Runs
  <2>3. Live(i)' => Live(i)
    BY <2>1, <2>2 DEF Live
  <2> QED
    BY <2>1, <2>2, <2>3
<1>4. CASE Write(t)
  <2>1. PICK p : /\ Finish(t, p)
                 /\ p = o \/ (~o.closed /\ p \in {Written(o), PartlyWritten(o)})
    BY <1>0, <1>4 DEF Write
  <2>2. Saved(p, Live(i)')
    <3>1. CASE p = o
      BY <1>2, <1>3, <2>1, <3>1 DEF Saved
    <3>2. CASE ~o.closed /\ p \in {Written(o), PartlyWritten(o)}
      BY <1>1, <3>2 DEF Saved, Written, PartlyWritten, Handle
    <3> QED
      BY <2>1, <3>1, <3>2
  <2> QED
    BY <1>0, <1>1, <2>1, <2>2, EndKept
<1>5. CASE Flush(t)
  <2>1. CASE o.closed /\ i \in handles
    <3>1. Finish(t, Answered(o, TRUE))
      BY <1>0, <1>1, <1>5, <2>1 DEF Flush
    <3>2. ~o.dirty
      BY <1>2, <2>1 DEF Saved, Live
    <3>3. Saved(Answered(o, TRUE), Live(i)')
      BY <1>1, <3>2 DEF Saved, Answered, Handle
    <3> QED
      BY <1>0, <1>1, <3>1, <3>3, EndKept
  <2>2. CASE o.closed /\ i \notin handles
    <3>1. Finish(t, o)
      BY <1>0, <1>1, <1>5, <2>2 DEF Flush
    <3>2. Saved(o, Live(i)')
      BY <1>2, <1>3, <3>1 DEF Saved
    <3> QED
      BY <1>0, <1>1, <3>1, <3>2, EndKept
  <2>3. CASE ~o.closed /\ o.gone
    <3>1. Finish(t, Answered(o, FALSE))
      BY <1>0, <1>5, <2>3 DEF Flush
    <3>2. Saved(Answered(o, FALSE), Live(i)')
      BY <1>1, <2>3 DEF Saved, Answered, Handle
    <3> QED
      BY <1>0, <1>1, <3>1, <3>2, EndKept
  <2>4. CASE ~o.gone
    <3>1. PICK q \in Flushes(o, cut) : Finish(t, Answered(q, ~q.dirty))
      BY <1>0, <1>1, <1>5, <2>4 DEF Flush
    <3>2. q \in Handle /\ q.closed = o.closed
      <4>1. cut \in BOOLEAN
        BY DEF PInv, TypeOK
      <4> QED
        BY <1>1, <4>1, FlushesFollow DEF Follows
    <3>3. Saved(Answered(q, ~q.dirty), Live(i)')
      BY <1>1, <2>4, <3>2 DEF Saved, Answered, Handle
    <3> QED
      BY <1>0, <1>1, <3>1, <3>3, EndKept
  <2> QED
    BY <1>1, <2>1, <2>2, <2>3, <2>4
<1>6. CASE Release(t)
  <2>1. Runs(t, {"release"}) /\ Live(i)
    BY <1>0, <1>6 DEF Release, Doing, Runs, Live
  <2>2. ASSUME NEW p, Finish(t, p)
        PROVE  ~Live(i)'
    <3>1. i \notin handles /\ \A u \in Threads : Runs(u, {"release"}) /\ thread[u].what = i => u = t
      BY <1>0, <2>1 DEF Kept, Taken
    <3> QED
      BY <1>3, <2>2, <3>1 DEF Live
  <2>3. CASE o.closed
    <3>1. Finish(t, Answered(o, TRUE))
      BY <1>0, <1>6, <2>3 DEF Release
    <3>2. ~o.dirty
      BY <1>2, <2>1, <2>3 DEF Saved
    <3>3. Saved(Answered(o, TRUE), Live(i)')
      BY <1>1, <3>2 DEF Saved, Answered, Handle
    <3> QED
      BY <1>0, <1>1, <3>1, <3>3, EndKept
  <2>4. CASE ~o.closed
    <3>1. PICK q \in {o} \cup Flushes(o, cut) : Finish(t, Released(q))
      BY <1>0, <1>6, <2>4 DEF Release
    <3>2. q \in Handle
      <4>1. cut \in BOOLEAN
        BY DEF PInv, TypeOK
      <4> QED
        BY <1>1, <3>1, <4>1, FlushesFollow DEF Follows
    <3>3. ~Live(i)'
      BY <2>2, <3>1
    <3>4. Saved(Released(q), Live(i)')
      BY <3>2, <3>3 DEF Saved, Released, Answered, Shut, Handle
    <3> QED
      BY <1>0, <1>1, <3>1, <3>4, EndKept
  <2> QED
    BY <2>3, <2>4
<1> QED
  BY <1>4, <1>5, <1>6

LEMMA SweepKept ==
    ASSUME PInv, Kept, NEW t \in Threads, NEW id \in Ids, Sweep(t, id)
    PROVE  Kept'
<1> DEFINE o == obj[id]
           p == IF ~(~o.writing \/ o.flushed) \/ o.closed THEN o ELSE Swept(o)
<1>1. o \in Handle /\ o # None /\ Saved(o, Live(id)) /\ sweeper = t /\ Runs(t, {"mutate"})
  <2>1. sweeper = t /\ id \in thread[t].at
    BY DEF Sweep
  <2>2. o # None /\ Runs(t, {"mutate"})
    BY <2>1, PortableMountAssumption DEF PInv, Accounted
  <2> QED
    BY <2>1, <2>2 DEF PInv, TypeOK, Kept
<1>2. /\ \A i \in Ids : obj'[i] = IF i = id THEN p ELSE obj[i]
      /\ UNCHANGED <<handles, next>>
  BY DEF Sweep, PInv, TypeOK
<1>3. \A u \in Threads : Runs(u, {"release"})' =>
          Runs(u, {"release"}) /\ thread'[u].what = thread[u].what
  BY DEF Sweep, Thread, Runs, PInv, TypeOK
<1>4. Live(id)' => Live(id)
  BY <1>2, <1>3 DEF Live
<1>5. Saved(p, Live(id)')
  <2>1. CASE p = o
    BY <1>1, <1>4, <2>1 DEF Saved
  <2>2. CASE p = [o EXCEPT !.gone = TRUE] /\ ~o.closed
    BY <1>1, <2>2 DEF Saved, Handle
  <2>3. CASE p = Shut(o) /\ ~o.dirty
    BY <1>1, <2>3 DEF Saved, Shut, Handle
  <2> QED
    BY <2>1, <2>2, <2>3 DEF Swept
<1> HIDE DEF p
<1> QED
  BY <1>1, <1>2, <1>3, <1>5, StepKept

LEMMA DestroyKept ==
    ASSUME PInv, Kept, NEW id \in Ids, Destroy(id)
    PROVE  Kept'
<1> DEFINE o == obj[id]
<1>1. /\ \A t \in Threads : thread'[t] = None
      /\ id \in handles /\ handles' = handles \ {id} /\ next' = next
  BY DEF Destroy, Quiet, locks
<1>2. o \in Handle /\ o # None /\ Saved(o, TRUE)
  BY <1>1 DEF PInv, TypeOK, Accounted, Kept, Live, Saved
<1>3. PICK p \in IF o.closed THEN {o}
                 ELSE IF o.flushed THEN {Shut(o)} ELSE {Shut(q) : q \in Flushes(o, FALSE)} :
         obj' = [obj EXCEPT ![id] = p]
  BY DEF Destroy
<1>4. ~Live(id)'
  BY <1>1 DEF Live, Runs
<1>5. p = o \/ \E q \in {o} \cup Flushes(o, FALSE) : p = Shut(q)
  BY <1>3
<1>6. Saved(p, Live(id)')
  BY <1>2, <1>4, <1>5 DEF Saved, Flushes, Shut, Handle
<1>7. \A i \in Ids : obj'[i] = IF i = id THEN p ELSE obj[i]
  BY <1>3 DEF PInv, TypeOK
<1>8. \A u \in Threads : ~Runs(u, {"release"})'
  BY <1>1 DEF Runs
<1> QED
  BY <1>1, <1>2, <1>6, <1>7, <1>8, StepKept

\* What is opened has an id that nothing else has.
LEMMA AllocKept ==
    ASSUME PInv, Kept, NEW t \in Threads, NEW op \in {"open", "create"}, NEW writing \in BOOLEAN,
           NEW dirty \in BOOLEAN, Alloc(t, op, writing, dirty)
    PROVE  Kept'
<1> DEFINE p == [file |-> thread[t].what, writing |-> writing, dirty |-> dirty,
                 flushed |-> FALSE, closed |-> FALSE, gone |-> FALSE, acked |-> FALSE]
<1>1. /\ next \in Ids /\ next' = next + 1 /\ handles' = handles \cup {next}
      /\ \A i \in Ids : obj'[i] = IF i = next THEN p ELSE obj[i]
      /\ \A u \in Threads : thread'[u] = IF u = t THEN None ELSE thread[u]
  BY DEF Alloc, PInv, TypeOK
<1>2. ~p.acked /\ ~p.closed
  OBVIOUS
<1> HIDE DEF p
<1>3. \A u \in Threads : Runs(u, {"release"})' =>
          /\ Runs(u, {"release"}) /\ thread'[u].what = thread[u].what
          /\ thread[u].what # next
  <2>1. \A u \in Threads : Runs(u, {"release"})' => Runs(u, {"release"}) /\ thread'[u] = thread[u]
    BY <1>1 DEF Runs
  <2>2. obj[next] = None
    BY <1>1 DEF Kept, Taken
  <2>3. \A u \in Threads : Runs(u, {"release"}) => obj[thread[u].what] # None
    BY DEF PInv, Accounted, Runs, HandleOps
  <2> QED
    BY <2>1, <2>2, <2>3
<1>4. Taken'
  BY <1>1, <1>3 DEF Kept, Taken, Ids
<1>5. \A i \in Ids : i # next /\ Live(i)' => Live(i)
  BY <1>1, <1>3 DEF Live
<1>6. ASSUME NEW i \in Ids, obj'[i] # None
      PROVE  Saved(obj'[i], Live(i)')
  <2>1. CASE i = next
    BY <1>1, <1>2, <2>1 DEF Saved
  <2>2. CASE i # next
    <3>1. obj'[i] = obj[i] /\ (Live(i)' => Live(i))
      BY <1>1, <1>5, <2>2
    <3> QED
      BY <1>6, <3>1 DEF Kept, Saved
  <2> QED
    BY <2>1, <2>2
<1> QED
  BY <1>4, <1>6 DEF Kept

LEMMA KeptNext ==
    ASSUME PInv, Kept, [Next]_vars
    PROVE  Kept'
<1>1. ASSUME UNCHANGED <<table, locks>>
      PROVE  Kept'
  <2>1. UNCHANGED <<handles, next, obj, thread>>
    BY <1>1 DEF table, locks
  <2>2. \A u \in Threads : Runs(u, {"release"})' =>
            Runs(u, {"release"}) /\ thread'[u].what = thread[u].what
    BY <2>1 DEF Runs
  <2> QED
    BY <2>1, <2>2, StepKept
<1>2. CASE Main
  BY <1>1, <1>2, FreshKept
     DEF Main, WaitMount, WaitVisible, WaitReady, RemoveStale, Publish, StartPrewarm, Serve,
         RequestUnmount, WaitUnmounted, CloseControl, CloseBackend, Exit, Gone
<1>3. CASE Crash \/ \E background \in BOOLEAN : Start(background)
  BY <1>3, FreshKept DEF Crash, Gone, Start
<1>4. CASE \/ Signal \/ Watch \/ ReadState \/ WriteRequest \/ Report \/ ReportMounted
           \/ HostInit \/ HostFail \/ HostEnds \/ HostStops \/ UNCHANGED vars
  BY <1>1, <1>4 DEF Signal, Watch, ReadState, WriteRequest, Report, ReportMounted,
         HostInit, HostFail, HostEnds, HostStops, vars
<1>5. CASE \E id \in Ids : Destroy(id)
  BY <1>5, DestroyKept
<1>6. ASSUME NEW t \in Threads, Callback(t)
      PROVE  Kept'
  BY <1>6, ThreadKept, GetKept, AllocKept, CallbackKept, SweepKept DEF Callback, HandleOps
<1> QED
  BY <1>2, <1>3, <1>4, <1>5, <1>6 DEF Next

-----------------------------------------------------------------------------
(* Who asks for an unmount *)

\* The secrets that go through the request file are those of processes whose
\* state an unmount command has read, and 0 belongs to no process.
Signed ==
    /\ run \in Nat /\ (main # "down" => run # 0)
    /\ watch # "none" => main # "down"
    /\ cli = [at |-> cli.at, secret |-> cli.secret]
    /\ cli.at = "read" => cli.secret \in told
    /\ asked # 0 => asked \in told

LEMMA SignedNext ==
    ASSUME Signed, [Next]_vars
    PROVE  Signed'
<1> USE DEF Signed
<1>1. CASE Main
  <2>1. UNCHANGED <<run, told, cli>>
    BY <1>1 DEF Main, WaitMount, WaitVisible, WaitReady, RemoveStale, Publish, StartPrewarm, Serve,
         RequestUnmount, WaitUnmounted, CloseControl, CloseBackend, Exit, Gone, Goto, Unconfirmed,
         control, process
  <2>2. CASE Exit
    BY <2>1, <2>2 DEF Exit, Gone, NewProcess
  <2>3. CASE ~Exit
    <3>1. main # "down" /\ main' # "down"
      BY <1>1, <2>3 DEF Main, WaitMount, WaitVisible, WaitReady, RemoveStale, Publish, StartPrewarm,
         Serve, RequestUnmount, WaitUnmounted, CloseControl, CloseBackend, Goto, Unconfirmed, process
    <3>2. asked' \in {asked, 0}
      BY <1>1, <2>3 DEF Main, WaitMount, WaitVisible, WaitReady, RemoveStale, Publish, StartPrewarm,
         Serve, RequestUnmount, WaitUnmounted, CloseControl, CloseBackend, control
    <3> QED
      BY <2>1, <3>1, <3>2
  <2> QED
    BY <2>2, <2>3
<1>2. CASE Crash
  BY <1>2 DEF Crash, Gone, NewProcess
<1>3. CASE \E background \in BOOLEAN : Start(background)
  BY <1>3 DEF Start, NewProcess
<1>4. CASE Watch
  BY <1>4 DEF Watch
<1>5. CASE ReadState
  BY <1>5 DEF ReadState, process
<1>6. CASE WriteRequest
  BY <1>6 DEF WriteRequest, process
<1>7. CASE Report \/ ReportMounted
  BY <1>7 DEF Report, ReportMounted, process
<1>8. CASE \/ Signal \/ HostInit \/ HostFail \/ HostEnds \/ HostStops
           \/ \E id \in Ids : Destroy(id)
           \/ UNCHANGED vars
  BY <1>8 DEF Signal, HostInit, HostFail, HostEnds, HostStops, Destroy, vars, process, control
<1>9. ASSUME NEW t \in Threads, Callback(t)
      PROVE  Signed'
  <2>1. UNCHANGED <<process, control>>
    BY <1>9 DEF Callback, BeginMutation, BeginOpen, FailOpen, Alloc, Lock, Get, Write, Flush, Release,
         Finish, Mutate, Sweep
  <2> QED
    BY <2>1 DEF process, control
<1> QED
  BY <1>1, <1>2, <1>3, <1>4, <1>5, <1>6, <1>7, <1>8, <1>9 DEF Next

-----------------------------------------------------------------------------
(* Theorems *)

LEMMA InvNext == PInv /\ [Next]_vars => PInv'
<1> SUFFICES ASSUME PInv, [Next]_vars
             PROVE  PInv'
  OBVIOUS
<1>1. CASE Main
  BY <1>1, MainKeeps, RequestKeeps, OutsideKeeps DEF Main
<1>2. CASE \/ Crash \/ Signal \/ Watch \/ ReadState \/ WriteRequest \/ Report \/ ReportMounted
           \/ \E background \in BOOLEAN : Start(background)
  BY <1>2, OutsideKeeps
<1>3. CASE HostInit \/ HostFail \/ HostEnds \/ HostStops
  BY <1>3, HostKeeps
<1>4. CASE \E id \in Ids : Destroy(id)
  BY <1>4, DestroyKeeps
<1>5. ASSUME NEW t \in Threads, Callback(t)
      PROVE  PInv'
  BY <1>5, OpenKeeps, FailOpenKeeps, AllocKeeps, GetKeeps, LockKeeps, FinishKeeps,
     MutationKeeps, SweepKeeps, MutateKeeps DEF Callback, HandleOps
<1>6. CASE UNCHANGED vars
  <2>1. UNCHANGED <<host, cut, main, keep, backend, table, locks>>
    BY <1>6 DEF vars, process, server
  <2>2. Leaving'
    BY <2>1 DEF PInv, Leaving, Done
  <2> QED
    BY <2>1, <2>2, Aside
<1> QED
  BY <1>1, <1>2, <1>3, <1>4, <1>5, <1>6 DEF Next

LEMMA PInvAlways == Spec => []PInv
  BY InvInit, InvNext, PTL DEF Spec

\* Handles and callbacks keep their types through the life of every process.
THEOREM TypeCorrect == Spec => []TypeOK
<1>1. PInv => TypeOK
  BY DEF PInv
<1> QED
  BY <1>1, PInvAlways, PTL

\* The backend is never closed under a callback or an open handle, whatever
\* fails or times out in mounting and unmounting.
THEOREM BackendIsKept == Spec => []BackendOutlivesServing
<1>1. PInv => BackendOutlivesServing
  <2> SUFFICES ASSUME PInv, backend = "closed"
               PROVE  Done /\ Quiet /\ handles = {} /\ \A i \in Ids : obj[i] # None => obj[i].gone
    BY DEF BackendOutlivesServing
  <2>1. Done /\ Quiet /\ handles = {}
    BY DEF PInv, Leaving, Silent, Done
  <2> QED
    BY <2>1 DEF PInv, Accounted, Quiet, Runs
<1> QED
  BY <1>1, PInvAlways, PTL

\* mount_cgofuse.go: when flush, fsync or release reports success, what was
\* written before is saved, also after a write that fails half way and with
\* renames and removes that close handles behind the programs that have them.
THEOREM SuccessIsSaved == Spec => []SuccessMeansSaved
<1>1. Init => Kept
  BY DEF Init, Kept, Taken, Runs
<1>2. PInv /\ Kept /\ [Next]_vars => Kept'
  BY KeptNext
<1>3. Kept => SuccessMeansSaved
  BY DEF Kept, Saved, SuccessMeansSaved
<1> QED
  BY <1>1, <1>2, <1>3, PInvAlways, PTL DEF Spec

\* A request cancels the mount whose state an unmount command has read, and no
\* other: not the one that has taken the mountpoint after it.
THEOREM OnlyOwnRequests == Spec => CanceledByOwn
<1>1. Init => Signed
  BY DEF Init, Signed
<1>2. Signed /\ [Next]_vars => Signed'
  BY SignedNext
<1>3. Signed /\ [Next]_vars => [~canceled /\ canceled' /\ watch' # watch => run \in told]_vars
  <2> SUFFICES ASSUME Signed, Next, ~canceled, canceled', watch' # watch
               PROVE  run \in told
    OBVIOUS
  <2>1. CASE Watch
    BY <2>1 DEF Watch, Addressed, Signed
  <2>2. CASE ~Watch
    <3>1. CASE Main
      BY <3>1 DEF Main, WaitMount, WaitVisible, WaitReady, RemoveStale, Publish, StartPrewarm, Serve,
         RequestUnmount, WaitUnmounted, CloseControl, CloseBackend, Exit, Gone, NewProcess, Goto,
         Unconfirmed, process
    <3>2. CASE \/ Crash \/ Signal \/ ReadState \/ WriteRequest \/ Report \/ ReportMounted
               \/ HostInit \/ HostFail \/ HostEnds \/ HostStops
               \/ \E background \in BOOLEAN : Start(background)
               \/ \E id \in Ids : Destroy(id)
      BY <3>2 DEF Crash, Gone, NewProcess, Signal, ReadState, WriteRequest, Report, ReportMounted,
         HostInit, HostFail, HostEnds, HostStops, Start, Destroy, process, control
    <3>3. ASSUME NEW t \in Threads, Callback(t)
          PROVE  FALSE
      BY <3>3 DEF Callback, BeginMutation, BeginOpen, FailOpen, Alloc, Lock, Get, Write, Flush,
         Release, Finish, Mutate, Sweep, process
    <3> QED
      BY <2>2, <3>1, <3>2, <3>3 DEF Next
  <2> QED
    BY <2>1, <2>2
<1> QED
  BY <1>1, <1>2, <1>3, PTL DEF Spec, CanceledByOwn

-----------------------------------------------------------------------------
(* Prewarm *)

\* An actor with this label holds a slot of the gate.
Holding(a, label) ==
    \/ label \in {"slot", "export", "release"}
    \/ a = Warmer /\ label = "join"

Holders == {a \in Actors : Holding(a, pc[a])}

\* The counters of the gate are exact: active counts the actors that hold a
\* slot, waiting those between waiting++ and waiting--.
GateExact ==
    /\ waiting = Cardinality(Waiters)
    /\ active = Cardinality(Holders) /\ active <= Slots

Savers(n) == {c \in saves : nb[c] = n}

\* saving counts the saves of a notebook, each from its start to its end.
SavesExact ==
    /\ \A n \in Notebooks : saving[n] = Cardinality(Savers(n))
    /\ \A c \in Readers : pc[c] \in {"mark", "finish", "unmark"} => c \in saves
    /\ \A c \in saves : pc[c] \notin {"idle", "complete", "join"}

\* A target that has just been received is not queued again before its mark is
\* removed.
QueueExact ==
    /\ PendingExact
    /\ pc[Warmer] = "received" /\ closing # "joined" => nb[Warmer] \notin Range(queue)
    /\ closing # "no" => closed

WInv == PrewarmTypeOK /\ GateExact /\ SavesExact /\ QueueExact

-----------------------------------------------------------------------------
LEMMA OneMore ==
    ASSUME NEW S, IsFiniteSet(S), NEW a
    PROVE  /\ Cardinality(S) \in Nat
           /\ a \notin S => Cardinality(S \cup {a}) = Cardinality(S) + 1
           /\ a \in S => Cardinality(S \ {a}) = Cardinality(S) - 1
  BY FS_CardinalityType, FS_AddElement, FS_RemoveElement

\* Whoever works is one of finitely many actors.
LEMMA FewActors ==
    ASSUME PrewarmTypeOK
    PROVE  /\ IsFiniteSet(Actors) /\ Warmer \in Actors /\ Readers \subseteq Actors
           /\ IsFiniteSet(Waiters) /\ IsFiniteSet(Holders)
           /\ \A n \in Notebooks : IsFiniteSet(Savers(n))
<1>1. IsFiniteSet(Actors)
  BY PrewarmAssumption, FS_AddElement DEF Actors
<1>2. Waiters \subseteq Readers /\ Holders \subseteq Actors
  BY DEF Waiters, Holders
<1>3. \A n \in Notebooks : Savers(n) \subseteq Readers
  BY DEF Savers, PrewarmTypeOK
<1> QED BY <1>1, <1>2, <1>3, FS_Subset, PrewarmAssumption DEF Actors

-----------------------------------------------------------------------------
(* The counters of the gate *)

Queued(label) == label \in {"parked", "signaled"}

\* A step that takes nobody into or out of the gate.
LEMMA GateAside ==
    ASSUME GateExact, UNCHANGED gate,
           \A a \in Actors : Holding(a, pc'[a]) <=> Holding(a, pc[a]),
           \A c \in Readers : Queued(pc'[c]) <=> Queued(pc[c])
    PROVE  GateExact'
<1>1. Holders' = Holders
  BY DEF Holders
<1>2. Waiters' = Waiters
  BY DEF Waiters, Queued
<1> QED BY <1>1, <1>2 DEF GateExact, gate

LEMMA GateStep ==
    ASSUME WInv, PrewarmNext
    PROVE  GateExact'
<1> USE PrewarmAssumption DEF Actors
<1> pc \in [Actors -> ReaderPCs \cup WarmerPCs] /\ Warmer \in Actors /\ Readers \subseteq Actors
  BY DEF WInv, PrewarmTypeOK
<1> GateExact /\ IsFiniteSet(Waiters) /\ IsFiniteSet(Holders)
  BY FewActors DEF WInv
<1> active \in Nat /\ waiting \in Nat /\ Slots \in Nat
  BY DEF WInv, PrewarmTypeOK
<1>1. ASSUME NEW c \in Readers, Acquire(c) PROVE GateExact'
  <2>1. CASE active' = active + 1
    <3>1. Holders' = Holders \cup {c} /\ c \notin Holders
      BY <1>1, <2>1 DEF Acquire, Move, Holders, Holding
    <3>2. CASE pc[c] = "acquire"
      <4>1. Waiters' = Waiters
        BY <1>1, <2>1, <3>2 DEF Acquire, Move, Waiters
      <4> QED BY <1>1, <2>1, <3>1, <3>2, <4>1, OneMore DEF Acquire, Full, GateExact
    <3>3. CASE pc[c] = "signaled"
      <4>1. Waiters' = Waiters \ {c} /\ c \in Waiters
        BY <1>1, <2>1, <3>3 DEF Acquire, Move, Waiters
      <4> QED BY <1>1, <2>1, <3>1, <3>3, <4>1, OneMore DEF Acquire, Full, GateExact
    <3> QED BY <1>1, <3>2, <3>3 DEF Acquire
  <2>2. CASE active' = active
    <3>1. Holders' = Holders
      BY <1>1, <2>2 DEF Acquire, Move, Holders, Holding
    <3>2. CASE pc[c] = "acquire"
      <4>1. Waiters' = Waiters \cup {c} /\ c \notin Waiters
        BY <1>1, <2>2, <3>2 DEF Acquire, Move, Waiters
      <4> QED BY <1>1, <2>2, <3>1, <3>2, <4>1, OneMore DEF Acquire, Enqueued, GateExact
    <3>3. CASE pc[c] = "signaled"
      <4>1. Waiters' = Waiters
        BY <1>1, <2>2, <3>3 DEF Acquire, Move, Waiters
      <4> QED BY <1>1, <2>2, <3>1, <3>3, <4>1 DEF Acquire, Enqueued, GateExact
    <3> QED BY <1>1, <3>2, <3>3 DEF Acquire
  <2> QED BY <1>1, <2>1, <2>2 DEF Acquire
<1>2. ASSUME NEW c \in Readers, GiveUp(c) PROVE GateExact'
  <2>1. Holders' = Holders /\ active' = active
    BY <1>2 DEF GiveUp, Move, Holders, Holding
  <2>2. CASE pc[c] = "acquire"
    <3>1. Waiters' = Waiters
      BY <1>2, <2>2 DEF GiveUp, Move, Waiters
    <3> QED BY <1>2, <2>1, <2>2, <3>1 DEF GiveUp, GateExact
  <2>3. CASE pc[c] # "acquire"
    <3>1. Waiters' = Waiters \ {c} /\ c \in Waiters
      BY <1>2, <2>3 DEF GiveUp, Move, Waiters
    <3> QED BY <1>2, <2>1, <2>3, <3>1, OneMore DEF GiveUp, GateExact
  <2> QED BY <2>2, <2>3
<1>3. ASSUME NEW a \in Actors, NEW then \in {"finish", "complete", "loop"},
             ReleaseSlot(a, then), Holding(a, pc[a])
      PROVE  GateExact'
  <2>1. pc' = [b \in Actors |-> IF b = a THEN then ELSE IF pc[b] = "parked"
                                THEN "signaled" ELSE pc[b]]
    BY <1>3 DEF ReleaseSlot, Woken
  <2>2. Holders' = Holders \ {a} /\ a \in Holders
    BY <1>3, <2>1 DEF Holders, Holding
  <2>3. Waiters' = Waiters
    BY <1>3, <2>1 DEF Waiters, Holding
  <2> QED BY <1>3, <2>2, <2>3, OneMore DEF ReleaseSlot, GateExact
<1>4. CASE TryBackground
  <2>1. Waiters' = Waiters /\ waiting' = waiting
    BY <1>4 DEF TryBackground, Move, Waiters
  <2>2. CASE active' = active + 1
    <3>1. Holders' = Holders \cup {Warmer} /\ Warmer \notin Holders
      BY <1>4, <2>2 DEF TryBackground, Move, Holders, Holding
    <3> QED BY <1>4, <2>1, <2>2, <3>1, OneMore DEF TryBackground, BackgroundAllowed, GateExact
  <2>3. CASE active' = active
    <3>1. Holders' = Holders
      BY <1>4, <2>3 DEF TryBackground, Move, Holders, Holding
    <3> QED BY <2>1, <2>3, <3>1 DEF GateExact
  <2> QED BY <1>4, <2>2, <2>3 DEF TryBackground
<1>5. ASSUME NEW a \in Actors, NEW ok \in BOOLEAN, NEW then, CompleteFlight(a, ok, then),
             \/ pc[a] = "complete" /\ then = "idle" /\ a # Warmer
             \/ pc[a] = "export" /\ then = "release" /\ a = Warmer,
             UNCHANGED gate
      PROVE  GateExact'
  <2>1. \A b \in Actors : Holding(b, pc'[b]) <=> Holding(b, pc[b])
    BY <1>5 DEF CompleteFlight, Holding
  <2>2. \A c \in Readers : Queued(pc'[c]) <=> Queued(pc[c])
    BY <1>5 DEF CompleteFlight, Queued
  <2> QED BY <1>5, <2>1, <2>2, GateAside
<1>6. ASSUME UNCHANGED gate, NEW a \in Actors, NEW label,
             pc' = [pc EXCEPT ![a] = label],
             Holding(a, label) <=> Holding(a, pc[a]),
             a \in Readers => (Queued(label) <=> Queued(pc[a]))
      PROVE  GateExact'
  BY <1>6, GateAside DEF Holding, Queued
<1>7. ASSUME UNCHANGED <<gate, pc>> PROVE GateExact'
  BY <1>7, GateAside
<1>8. ASSUME NEW c \in Readers, NEW n \in Notebooks, Read(c, n) \/ StartSave(c, n)
      PROVE  GateExact'
  BY <1>6, <1>7, <1>8 DEF Read, StartSave, Source, Move, Holding, Queued
<1>9. ASSUME NEW c \in Readers, ReaderStep(c) \/ LeaveFlight(c) PROVE GateExact'
  <2>1. CASE Export(c)
    BY <1>3, <2>1 DEF Export, Holding
  <2>2. CASE Commit(c) \/ FinishInvalidate(c) \/ LeaveFlight(c)
    BY <1>6, <2>2 DEF Commit, FinishInvalidate, LeaveFlight, Move, Holding, Queued
  <2>3. ASSUME NEW ok \in BOOLEAN, Complete(c, ok) PROVE GateExact'
    BY <1>5, <2>3 DEF Complete
  <2>4. ASSUME NEW ok \in BOOLEAN, Unmark(c, ok) PROVE GateExact'
    BY <1>6, <2>4 DEF Unmark, Move, Holding, Queued
  <2> QED BY <1>1, <1>9, <2>1, <2>2, <2>3, <2>4 DEF ReaderStep
<1>10. CASE WarmerStep \/ WarmTimeout \/ StartWorker
  <2>1. CASE \E t \in Targets : Discover(t)
    BY <1>6, <2>1 DEF Discover, Move, Holding, Queued
  <2>2. CASE Loop \/ SelectDone \/ SelectTarget \/ Dequeued \/ Warm \/ StartWorker
    BY <1>6, <2>2 DEF Loop, SelectDone, SelectTarget, Dequeued, Warm, StartWorker,
                      Move, Holding, Queued
  <2>3. CASE WarmSource \/ WarmTimeout
    BY <1>6, <2>3 DEF WarmSource, WarmTimeout, Source, Move, Holding, Queued
  <2>4. CASE WarmRelease
    BY <1>3, <2>4 DEF WarmRelease, Holding
  <2>5. ASSUME NEW ok \in BOOLEAN, WarmExport(ok) PROVE GateExact'
    BY <1>5, <2>5 DEF WarmExport
  <2> QED BY <1>4, <1>10, <2>1, <2>2, <2>3, <2>4, <2>5 DEF WarmerStep
<1>11. CASE (\E n \in Notebooks : Evict(n)) \/ CancelMount \/ Close \/ CloseJoin \/ CloseTimeout
  BY <1>7, <1>11 DEF Evict, CancelMount, Close, CloseJoin, CloseTimeout
<1> QED BY <1>2, <1>8, <1>9, <1>10, <1>11 DEF PrewarmNext

-----------------------------------------------------------------------------
(* The marks of saves *)

\* A reader that saves may be at this label; one that does not, neither.
LabelFits(c, label, S) ==
    /\ label \in {"mark", "finish", "unmark"} => c \in S
    /\ c \in S => label \notin {"idle", "complete", "join"}

\* A step that begins and ends no save.
LEMMA SavesAside ==
    ASSUME SavesExact, saves \subseteq Readers, UNCHANGED <<saves, saving>>,
           \A c \in saves : nb'[c] = nb[c],
           \A c \in Readers : pc'[c] = pc[c] \/ LabelFits(c, pc'[c], saves)
    PROVE  SavesExact'
<1>1. \A n \in Notebooks : Savers(n)' = Savers(n)
  BY DEF Savers
<1> QED BY <1>1 DEF SavesExact, LabelFits

LEMMA SavesStep ==
    ASSUME WInv, PrewarmNext
    PROVE  SavesExact' /\ saving' \in [Notebooks -> Nat]
<1> USE PrewarmAssumption DEF Actors
<1> /\ pc \in [Actors -> ReaderPCs \cup WarmerPCs] /\ Warmer \in Actors /\ Readers \subseteq Actors
    /\ nb \in [Actors -> Notebooks] /\ saving \in [Notebooks -> Nat]
  BY DEF WInv, PrewarmTypeOK
<1>a. SavesExact /\ saves \subseteq Readers /\ \A n \in Notebooks : IsFiniteSet(Savers(n))
  BY FewActors DEF WInv, PrewarmTypeOK
<1>b. \A c \in Readers : LabelFits(c, pc[c], saves)
  BY <1>a DEF LabelFits, SavesExact
<1> DEFINE Same == SavesExact' /\ saving' \in [Notebooks -> Nat]
<1>1. ASSUME UNCHANGED <<saves, saving, nb>>, NEW a \in Actors, NEW label,
             pc' = [pc EXCEPT ![a] = label],
             a \in Readers => LabelFits(a, label, saves)
      PROVE  Same
  BY <1>a, <1>1, SavesAside DEF LabelFits
<1>2. ASSUME UNCHANGED <<saves, saving, nb, pc>> PROVE Same
  BY <1>a, <1>2, SavesAside
<1>3. ASSUME NEW a \in Actors, NEW then, ReleaseSlot(a, then),
             a \in Readers => LabelFits(a, then, saves)
      PROVE  Same
  <2>1. \A c \in Readers : pc'[c] = pc[c] \/ LabelFits(c, pc'[c], saves)
    BY <1>3 DEF ReleaseSlot, Woken, LabelFits
  <2> QED BY <1>a, <1>3, <2>1, SavesAside DEF ReleaseSlot, work
<1>4. ASSUME NEW a \in Actors, NEW ok \in BOOLEAN, NEW then, CompleteFlight(a, ok, then),
             a \in Readers => LabelFits(a, then, saves),
             UNCHANGED <<saves, saving, nb>>
      PROVE  Same
  <2>1. \A c \in Readers : pc'[c] = pc[c] \/ LabelFits(c, pc'[c], saves)
    BY <1>b, <1>4 DEF CompleteFlight, LabelFits
  <2> QED BY <1>a, <1>4, <2>1, SavesAside
<1>5. ASSUME NEW a \in Actors, NEW n \in Notebooks, a \notin saves,
             nb' = [nb EXCEPT ![a] = n], UNCHANGED <<saves, saving>>,
             \/ pc' = pc
             \/ \E l : pc' = [pc EXCEPT ![a] = l] /\ (a \in Readers => LabelFits(a, l, saves))
      PROVE  Same
  BY <1>a, <1>5, SavesAside
<1>6. ASSUME NEW c \in Readers, NEW n \in Notebooks, Read(c, n) PROVE Same
  <2>1. c \notin saves
    BY <1>b, <1>6 DEF Read, LabelFits
  <2> QED BY <1>5, <1>6, <2>1 DEF Read, Source, Move, work, LabelFits
<1>7. ASSUME NEW c \in Readers, NEW n \in Notebooks, StartSave(c, n) PROVE Same
  <2>1. c \notin saves
    BY <1>b, <1>7 DEF StartSave, LabelFits
  <2>2. /\ Savers(n)' = Savers(n) \cup {c} /\ c \notin Savers(n)
        /\ \A m \in Notebooks : m # n => Savers(m)' = Savers(m)
    BY <1>a, <1>7, <2>1 DEF StartSave, Savers
  <2>3. /\ saving' = [saving EXCEPT ![n] = @ + 1] /\ saves' = saves \cup {c}
        /\ pc' = [pc EXCEPT ![c] = "mark"]
    BY <1>7 DEF StartSave, Move
  <2>4. \A m \in Notebooks : saving'[m] = Cardinality(Savers(m)')
    BY <1>a, <2>2, <2>3, OneMore DEF SavesExact
  <2> QED BY <1>a, <2>3, <2>4 DEF SavesExact
<1>8. ASSUME NEW c \in Readers, NEW ok \in BOOLEAN, Unmark(c, ok) PROVE Same
  <2>1. PICK n \in Notebooks : n = nb[c]
    OBVIOUS
  <2>2. /\ saving' = [saving EXCEPT ![n] = @ - 1] /\ saves' = saves \ {c}
        /\ pc' = [pc EXCEPT ![c] = "idle"] /\ nb' = nb /\ c \in saves
    BY <1>b, <1>8, <2>1 DEF Unmark, Unmarked, Move, LabelFits
  <2>3. /\ Savers(n)' = Savers(n) \ {c} /\ c \in Savers(n)
        /\ \A m \in Notebooks : m # n => Savers(m)' = Savers(m)
    BY <1>a, <2>1, <2>2 DEF Savers
  <2>4. \A m \in Notebooks : saving'[m] = Cardinality(Savers(m)')
    BY <1>a, <2>2, <2>3, OneMore DEF SavesExact
  <2>5. saving' \in [Notebooks -> Nat]
    <3>1. \A m \in Notebooks : IsFiniteSet(Savers(m)')
      BY <1>a, <2>3, FS_RemoveElement
    <3>2. \A m \in Notebooks : saving'[m] \in Nat
      BY <2>4, <3>1, FS_CardinalityType
    <3> QED BY <2>2, <3>2
  <2> QED BY <1>a, <2>2, <2>4, <2>5 DEF SavesExact
<1>9. ASSUME NEW c \in Readers, ReaderStep(c) \/ GiveUp(c) \/ LeaveFlight(c) PROVE Same
  <2>1. CASE Export(c)
    <3>1. LabelFits(c, IF c \in saves THEN "finish" ELSE "complete", saves)
      BY DEF LabelFits
    <3> QED BY <1>3, <2>1, <3>1 DEF Export
  <2>2. CASE Acquire(c)
    BY <1>1, <2>2 DEF Acquire, Move, work, LabelFits
  <2>3. CASE GiveUp(c)
    BY <1>1, <2>3 DEF GiveUp, Move, work, LabelFits
  <2>4. CASE Commit(c) \/ FinishInvalidate(c) \/ LeaveFlight(c)
    BY <1>1, <1>b, <2>4 DEF Commit, FinishInvalidate, LeaveFlight, Move, work, LabelFits
  <2>5. ASSUME NEW ok \in BOOLEAN, Complete(c, ok) PROVE Same
    BY <1>4, <1>b, <2>5 DEF Complete, work, LabelFits
  <2> QED BY <1>8, <1>9, <2>1, <2>2, <2>3, <2>4, <2>5 DEF ReaderStep
<1>10. CASE WarmerStep \/ WarmTimeout \/ StartWorker
  <2>1. CASE \E t \in Targets : Discover(t)
    BY <1>1, <2>1 DEF Discover, Move
  <2>2. CASE Loop \/ SelectDone \/ Dequeued \/ Warm \/ StartWorker
    BY <1>1, <2>2 DEF Loop, SelectDone, Dequeued, Warm, StartWorker, Move, work
  <2>3. CASE TryBackground \/ WarmSource \/ WarmTimeout
    BY <1>1, <2>3 DEF TryBackground, WarmSource, WarmTimeout, Source, Move, work
  <2>4. CASE SelectTarget
    <3>1. Head(queue) \in Notebooks
      BY <2>4 DEF SelectTarget, WInv, PrewarmTypeOK
    <3> QED BY <1>5, <1>a, <2>4, <3>1 DEF SelectTarget, Move
  <2>5. CASE WarmRelease
    BY <1>3, <2>5 DEF WarmRelease
  <2>6. ASSUME NEW ok \in BOOLEAN, WarmExport(ok) PROVE Same
    BY <1>4, <2>6 DEF WarmExport, work
  <2> QED BY <1>10, <2>1, <2>2, <2>3, <2>4, <2>5, <2>6 DEF WarmerStep
<1>11. CASE (\E n \in Notebooks : Evict(n)) \/ CancelMount \/ Close \/ CloseJoin \/ CloseTimeout
  BY <1>2, <1>11 DEF Evict, CancelMount, Close, CloseJoin, CloseTimeout, work
<1> QED BY <1>6, <1>7, <1>9, <1>10, <1>11 DEF PrewarmNext

-----------------------------------------------------------------------------
(* The queue and its marks *)

\* A step that leaves the queue and the worker's target alone.
LEMMA QueueAside ==
    ASSUME QueueExact, UNCHANGED <<queue, pending, closed, closing>>,
           \/ nb'[Warmer] = nb[Warmer] /\ (pc'[Warmer] = "received" <=> pc[Warmer] = "received")
           \/ pc[Warmer] # "received" /\ pc'[Warmer] # "received"
    PROVE  QueueExact'
  BY DEF QueueExact, PendingExact

\* What is queued are new targets, each once, for which there is room.
LEMMA Accepts ==
    ASSUME PrewarmTypeOK, NEW t \in Seq(Notebooks), IsInjective(t)
    PROVE  /\ Accepted(t) \in Seq(Notebooks) /\ IsInjective(Accepted(t))
           /\ Range(Accepted(t)) \subseteq Range(t) \ pending
           /\ Len(Accepted(t)) <= QueueCap - Len(queue)
<1>1. PICK new \in Seq(Notebooks) : /\ new = Keeping(t, Notebooks \ pending)
                                    /\ IsInjective(new)
                                    /\ Range(new) = Range(t) \cap (Notebooks \ pending)
  BY Keeps
<1>2. Room \in Nat /\ QueueCap \in Nat /\ Len(queue) \in Nat
  BY PrewarmAssumption, LenProperties DEF Room, PrewarmTypeOK
<1>3. PICK n : n = IF Len(new) <= Room THEN Len(new) ELSE Room
  OBVIOUS
<1>4. Len(new) \in Nat /\ n \in 0..Len(new) /\ n <= Room
  BY <1>2, <1>3, LenProperties
<1>5. CASE Accepted(t) = << >>
  BY <1>2, <1>5 DEF Room, Range, IsInjective
<1>6. CASE Accepted(t) = SubSeq(new, 1, n)
  <2>1. /\ SubSeq(new, 1, n) \in Seq(Notebooks) /\ Len(SubSeq(new, 1, n)) = n
        /\ IsInjective(SubSeq(new, 1, n))
        /\ Range(SubSeq(new, 1, n)) \subseteq Range(new)
    BY <1>1, <1>4, Firsts
  <2>2. n <= QueueCap - Len(queue)
    BY <1>4 DEF Room
  <2> QED BY <1>1, <1>6, <2>1, <2>2
<1> QED BY <1>1, <1>3, <1>5, <1>6 DEF Accepted

LEMMA EnqueueKeeps ==
    ASSUME WInv, NEW t \in Seq(Notebooks), IsInjective(t), Enqueue(t),
           nb'[Warmer] = nb[Warmer], pc'[Warmer] = "received" <=> pc[Warmer] = "received",
           UNCHANGED <<closed, closing>>
    PROVE  QueueExact' /\ queue' \in Seq(Notebooks) /\ Len(queue') <= QueueCap
<1>1. /\ Accepted(t) \in Seq(Notebooks) /\ IsInjective(Accepted(t))
      /\ Range(Accepted(t)) \cap pending = {}
      /\ Len(Accepted(t)) <= QueueCap - Len(queue)
  BY Accepts DEF WInv
<1>2. /\ queue \in Seq(Notebooks) /\ Len(queue) \in Nat /\ QueueCap \in Nat
      /\ Len(Accepted(t)) \in Nat /\ Len(queue) <= QueueCap
  BY <1>1, PrewarmAssumption, LenProperties DEF WInv, PrewarmTypeOK
<1>3. CASE closed
  <2>1. Accepted(t) = << >>
    BY <1>3 DEF Accepted
  <2>2. queue' = queue /\ pending' = pending
    BY <1>2, <2>1 DEF Enqueue, Range
  <2> QED BY <1>2, <2>2, QueueAside DEF WInv
<1>4. CASE ~closed
  <2>1. closing = "no"
    BY <1>4 DEF WInv, QueueExact
  <2>2. /\ IsInjective(queue)
        /\ pending = Range(queue) \cup {n \in {nb[Warmer]} : pc[Warmer] = "received"}
        /\ pc[Warmer] = "received" => nb[Warmer] \notin Range(queue)
    BY <2>1 DEF WInv, QueueExact, PendingExact
  <2>3. /\ queue' \in Seq(Notebooks) /\ Len(queue') = Len(queue) + Len(Accepted(t))
        /\ IsInjective(queue') /\ Range(queue') = Range(queue) \cup Range(Accepted(t))
    BY <1>1, <1>2, <2>2, Joins DEF Enqueue
  <2>4. pending' = Range(queue') \cup {n \in {nb'[Warmer]} : pc'[Warmer] = "received"}
    BY <2>2, <2>3 DEF Enqueue
  <2>5. pc'[Warmer] = "received" => nb'[Warmer] \notin Range(queue')
    BY <1>1, <2>2, <2>3
  <2>6. closing' = "no"
    BY <1>4, <2>1
  <2> QED BY <1>1, <1>2, <2>3, <2>4, <2>5, <2>6 DEF QueueExact, PendingExact
<1> QED BY <1>3, <1>4

LEMMA QueueStep ==
    ASSUME WInv, PrewarmNext
    PROVE  QueueExact' /\ queue' \in Seq(Notebooks) /\ Len(queue') <= QueueCap
<1> USE PrewarmAssumption DEF Actors
<1> /\ pc \in [Actors -> ReaderPCs \cup WarmerPCs] /\ Warmer \in Actors /\ Readers \subseteq Actors
    /\ nb \in [Actors -> Notebooks] /\ queue \in Seq(Notebooks) /\ Len(queue) <= QueueCap
  BY DEF WInv, PrewarmTypeOK
<1>a. QueueExact
  BY DEF WInv
<1> DEFINE Same == QueueExact' /\ queue' \in Seq(Notebooks) /\ Len(queue') <= QueueCap
<1>1. ASSUME UNCHANGED <<queue, pending, closed, closing>>, nb'[Warmer] = nb[Warmer],
             NEW a \in Actors, NEW label,
             a = Warmer => label # "received" /\ pc[a] # "received",
             pc' = [pc EXCEPT ![a] = label]
      PROVE  Same
  BY <1>a, <1>1, QueueAside
<1>2. ASSUME UNCHANGED <<queue, pending, closed, closing, nb, pc>> PROVE Same
  BY <1>a, <1>2, QueueAside
<1>3. ASSUME NEW a \in Actors, NEW then, ReleaseSlot(a, then),
             a = Warmer => then # "received" /\ pc[a] # "received"
      PROVE  Same
  <2>1. pc'[Warmer] = "received" <=> pc[Warmer] = "received"
    BY <1>3 DEF ReleaseSlot, Woken
  <2> QED BY <1>a, <1>3, <2>1, QueueAside DEF ReleaseSlot, work, stop
<1>4. ASSUME NEW a \in Actors, NEW ok \in BOOLEAN, NEW then, CompleteFlight(a, ok, then),
             a = Warmer => then # "received" /\ pc[a] # "received",
             UNCHANGED <<queue, pending, closed, closing, nb>>
      PROVE  Same
  <2>1. pc'[Warmer] = "received" <=> pc[Warmer] = "received"
    BY <1>4 DEF CompleteFlight
  <2> QED BY <1>a, <1>4, <2>1, QueueAside
<1>5. ASSUME NEW c \in Readers, NEW n \in Notebooks, Read(c, n) PROVE Same
  <2>1. nb'[Warmer] = nb[Warmer] /\ c # Warmer
    BY <1>5 DEF Read
  <2> QED BY <1>a, <1>1, <1>5, <2>1, QueueAside DEF Read, Source, Move, work, stop
<1>6. ASSUME NEW c \in Readers, NEW n \in Notebooks, StartSave(c, n) PROVE Same
  <2>1. nb'[Warmer] = nb[Warmer] /\ c # Warmer
    BY <1>6 DEF StartSave
  <2> QED BY <1>1, <1>6, <2>1 DEF StartSave, Move, stop
<1>7. ASSUME NEW c \in Readers, NEW ok \in BOOLEAN, Unmark(c, ok) PROVE Same
  <2>1. /\ nb' = nb /\ c # Warmer /\ pc' = [pc EXCEPT ![c] = "idle"]
        /\ UNCHANGED <<closed, closing>>
    BY <1>7 DEF Unmark, Move, stop
  <2>2. CASE ok
    <3>1. PICK t : t = <<nb[c]>>
      OBVIOUS
    <3>2. t \in Seq(Notebooks) /\ IsInjective(t)
      BY <3>1 DEF IsInjective
    <3>3. Enqueue(t)
      BY <1>7, <2>2, <3>1 DEF Unmark
    <3> QED BY <2>1, <3>2, <3>3, EnqueueKeeps
  <2>3. CASE ~ok
    BY <1>1, <1>7, <2>1, <2>3 DEF Unmark
  <2> QED BY <2>2, <2>3
<1>8. ASSUME NEW c \in Readers, ReaderStep(c) \/ GiveUp(c) \/ LeaveFlight(c) PROVE Same
  <2>0. c # Warmer
    OBVIOUS
  <2>1. CASE Export(c)
    BY <1>3, <2>0, <2>1 DEF Export
  <2>2. CASE Acquire(c) \/ GiveUp(c)
    BY <1>1, <2>0, <2>2 DEF Acquire, GiveUp, Move, work, stop
  <2>3. CASE Commit(c) \/ FinishInvalidate(c) \/ LeaveFlight(c)
    BY <1>1, <2>0, <2>3 DEF Commit, FinishInvalidate, LeaveFlight, Move, work, stop
  <2>4. ASSUME NEW ok \in BOOLEAN, Complete(c, ok) PROVE Same
    BY <1>4, <2>0, <2>4 DEF Complete, work, stop
  <2> QED BY <1>7, <1>8, <2>1, <2>2, <2>3, <2>4 DEF ReaderStep
<1>9. ASSUME NEW t \in Targets, Discover(t) PROVE Same
  <2>1. t \in Seq(Notebooks) /\ IsInjective(t)
    BY <1>9 DEF Targets
  <2>2. /\ Enqueue(t) /\ nb' = nb /\ UNCHANGED <<closed, closing>>
        /\ pc[Warmer] = "discover" /\ pc'[Warmer] = "loop"
    BY <1>9 DEF Discover, Move, stop
  <2> QED BY <2>1, <2>2, EnqueueKeeps
<1>10. CASE SelectTarget
  <2>1. /\ pc[Warmer] = "select" /\ pc'[Warmer] = "received" /\ queue # << >>
        /\ nb'[Warmer] = Head(queue) /\ queue' = Tail(queue)
        /\ UNCHANGED <<pending, closed, closing>>
    BY <1>10 DEF SelectTarget, Move, stop
  <2>2. /\ queue' \in Seq(Notebooks) /\ Len(queue') = Len(queue) - 1
        /\ \A i \in DOMAIN queue' : i + 1 \in DOMAIN queue /\ queue'[i] = queue[i + 1]
        /\ Range(queue') \subseteq Range(queue) /\ nb'[Warmer] = queue[1]
        /\ Range(queue) \subseteq {queue[1]} \cup Range(queue')
    BY <2>1, Rest
  <2>3. /\ Len(queue) \in Nat /\ Len(queue) # 0 /\ DOMAIN queue = 1..Len(queue)
        /\ 1 \in DOMAIN queue
    BY <2>1, LenProperties, EmptySeq
  <2>4. QueueCap \in Nat /\ DOMAIN queue' \subseteq Int
    BY <2>2, LenProperties
  <2>5. CASE closing = "joined"
    BY <1>a, <2>1, <2>2, <2>3, <2>4, <2>5 DEF QueueExact, PendingExact
  <2>6. CASE closing # "joined"
    <3>1. IsInjective(queue) /\ pending = Range(queue)
      BY <1>a, <2>1, <2>6 DEF QueueExact, PendingExact
    <3>2. IsInjective(queue')
      <4> SUFFICES ASSUME NEW i \in DOMAIN queue', NEW j \in DOMAIN queue', queue'[i] = queue'[j]
                   PROVE  i = j
        BY DEF IsInjective
      <4>1. i + 1 = j + 1
        BY <2>2, <3>1 DEF IsInjective
      <4> QED BY <2>4, <4>1
    <3>3. queue[1] \notin Range(queue')
      <4> SUFFICES ASSUME NEW i \in DOMAIN queue', queue'[i] = queue[1]
                   PROVE  FALSE
        BY DEF Range
      <4>1. i + 1 = 1 /\ i \in 1..Len(queue')
        BY <2>2, <2>3, <3>1, LenProperties DEF IsInjective
      <4> QED BY <4>1
    <3>4. queue[1] \in Range(queue)
      BY <2>3 DEF Range
    <3>5. pending' = Range(queue') \cup {n \in {nb'[Warmer]} : pc'[Warmer] = "received"}
      BY <2>1, <2>2, <3>1, <3>4
    <3> QED BY <1>a, <2>1, <2>2, <2>3, <2>4, <2>6, <3>2, <3>3, <3>5 DEF QueueExact, PendingExact
  <2> QED BY <2>5, <2>6
<1>11. CASE Dequeued
  <2>1. /\ pc[Warmer] = "received" /\ pc'[Warmer] # "received"
        /\ pending' = pending \ {nb[Warmer]} /\ UNCHANGED <<queue, closed, closing>>
    BY <1>11 DEF Dequeued, Unpend, Move, stop
  <2> QED BY <1>a, <2>1 DEF QueueExact, PendingExact
<1>12. CASE WarmerStep \/ WarmTimeout \/ StartWorker
  <2>1. CASE Loop \/ SelectDone \/ Warm \/ StartWorker
    BY <1>1, <2>1 DEF Loop, SelectDone, Warm, StartWorker, Move, work, stop
  <2>2. CASE TryBackground \/ WarmSource \/ WarmTimeout
    BY <1>1, <2>2 DEF TryBackground, WarmSource, WarmTimeout, Source, Move, work, stop
  <2>3. CASE WarmRelease
    BY <1>3, <2>3 DEF WarmRelease
  <2>4. ASSUME NEW ok \in BOOLEAN, WarmExport(ok) PROVE Same
    BY <1>4, <2>4 DEF WarmExport, work, stop
  <2> QED BY <1>9, <1>10, <1>11, <1>12, <2>1, <2>2, <2>3, <2>4 DEF WarmerStep
<1>13. CASE (\E n \in Notebooks : Evict(n)) \/ CancelMount
  BY <1>2, <1>13 DEF Evict, CancelMount, work, stop
<1>14. CASE Close
  BY <1>a, <1>14 DEF Close, work, QueueExact, PendingExact
<1>15. CASE CloseJoin \/ CloseTimeout
  BY <1>a, <1>15 DEF CloseJoin, CloseTimeout, work, QueueExact, PendingExact
<1> QED BY <1>5, <1>6, <1>8, <1>12, <1>13, <1>14, <1>15 DEF PrewarmNext

-----------------------------------------------------------------------------
(* Types *)

\* A step keeps the flights when it starts one, ends one or forgets some.
LEMMA SourceTypes ==
    ASSUME PrewarmTypeOK, NEW a \in Actors, NEW n \in Notebooks,
           NEW hit \in {"idle", "release"}, NEW lead \in {"acquire", "export"},
           Source(a, n, hit, lead),
           a \in Readers => hit = "idle", a = Warmer => hit = "release" /\ lead = "export"
    PROVE  /\ pc' \in [Actors -> ReaderPCs \cup WarmerPCs]
           /\ \A c \in Readers : pc'[c] \in ReaderPCs
           /\ pc'[Warmer] \in WarmerPCs
           /\ leader' \in [Actors -> Actors]
           /\ DOMAIN flights' \subseteq Notebooks /\ Range(flights') \subseteq Actors
           /\ cached' \subseteq Notebooks
<1> USE PrewarmAssumption DEF PrewarmTypeOK, Actors, ReaderPCs, WarmerPCs
<1>1. pc' = pc \/ \E l \in {hit, "join", lead} : pc' = [pc EXCEPT ![a] = l]
  BY DEF Source, Move
<1>2. /\ pc' \in [Actors -> ReaderPCs \cup WarmerPCs]
      /\ \A c \in Readers : pc'[c] \in ReaderPCs
      /\ pc'[Warmer] \in WarmerPCs
  BY <1>1
<1>3. leader' \in [Actors -> Actors]
  <2>1. n \in DOMAIN flights => flights[n] \in Actors
    BY DEF Range
  <2> QED BY <2>1 DEF Source, sharing
<1>4. DOMAIN flights' \subseteq Notebooks /\ Range(flights') \subseteq Actors
  <2>1. CASE flights' = flights
    BY <2>1
  <2>2. CASE flights' = [m \in DOMAIN flights \cup {n} |-> IF m = n THEN a ELSE flights[m]]
    <3>1. \A m \in DOMAIN flights' : flights'[m] \in Actors
      BY <2>2 DEF Range
    <3>2. DOMAIN flights' = DOMAIN flights \cup {n}
      BY <2>2
    <3>3. Range(flights') \subseteq Actors
      BY <3>1 DEF Range
    <3> QED BY <3>2, <3>3
  <2> QED BY <2>1, <2>2 DEF Source, sharing
<1>5. cached' \subseteq Notebooks
  BY DEF Source, sharing
<1> QED BY <1>2, <1>3, <1>4, <1>5

LEMMA FlightTypes ==
    ASSUME PrewarmTypeOK, NEW a \in Actors, NEW ok \in BOOLEAN, NEW then,
           CompleteFlight(a, ok, then),
           a \in Readers => then \in ReaderPCs, a = Warmer => then \in WarmerPCs
    PROVE  /\ pc' \in [Actors -> ReaderPCs \cup WarmerPCs]
           /\ \A c \in Readers : pc'[c] \in ReaderPCs
           /\ pc'[Warmer] \in WarmerPCs
           /\ leader' \in [Actors -> Actors]
           /\ DOMAIN flights' \subseteq Notebooks /\ Range(flights') \subseteq Actors
           /\ cached' \subseteq Notebooks
<1> USE PrewarmAssumption DEF PrewarmTypeOK, Actors
<1>1. /\ pc' \in [Actors -> ReaderPCs \cup WarmerPCs]
      /\ \A c \in Readers : pc'[c] \in ReaderPCs
      /\ pc'[Warmer] \in WarmerPCs
  BY DEF CompleteFlight, ReaderPCs, WarmerPCs
<1>2. leader' \in [Actors -> Actors]
  BY DEF CompleteFlight
<1>3. DOMAIN flights' \subseteq Notebooks /\ Range(flights') \subseteq Actors
  BY DEF CompleteFlight, Restrict, Range
<1>4. cached' \subseteq Notebooks
  BY DEF CompleteFlight
<1> QED BY <1>1, <1>2, <1>3, <1>4

LEMMA TypesStep ==
    ASSUME WInv, PrewarmNext, active' \in 0..Slots, waiting' \in Nat,
           saving' \in [Notebooks -> Nat],
           queue' \in Seq(Notebooks), Len(queue') <= QueueCap
    PROVE  PrewarmTypeOK'
<1> USE PrewarmAssumption DEF Actors
<1>a. PrewarmTypeOK
  BY DEF WInv
<1> DEFINE
      Labels == /\ pc' \in [Actors -> ReaderPCs \cup WarmerPCs]
                /\ \A c \in Readers : pc'[c] \in ReaderPCs
                /\ pc'[Warmer] \in WarmerPCs
      Flights == /\ leader' \in [Actors -> Actors]
                /\ DOMAIN flights' \subseteq Notebooks /\ Range(flights') \subseteq Actors
                /\ cached' \subseteq Notebooks
      Others == /\ nb' \in [Actors -> Notebooks] /\ saves' \subseteq Readers
                /\ pending' \subseteq Notebooks
                /\ ctxDone' \in BOOLEAN /\ closed' \in BOOLEAN
                /\ closing' \in {"no", "waiting", "joined", "timeout"}
<1>1. ASSUME Labels, Flights, Others PROVE PrewarmTypeOK'
  BY <1>1 DEF PrewarmTypeOK
<1>2. ASSUME UNCHANGED sharing PROVE Flights
  BY <1>a, <1>2 DEF PrewarmTypeOK, sharing
<1>3. ASSUME UNCHANGED <<nb, saves, pending, stop>> PROVE Others
  BY <1>a, <1>3 DEF PrewarmTypeOK, stop
<1>4. ASSUME NEW a \in Actors, NEW label, pc' = [pc EXCEPT ![a] = label],
             a \in Readers => label \in ReaderPCs, a = Warmer => label \in WarmerPCs
      PROVE  Labels
  BY <1>a, <1>4 DEF PrewarmTypeOK
<1>5. ASSUME pc' = pc PROVE Labels
  BY <1>a, <1>5 DEF PrewarmTypeOK
<1>6. ASSUME NEW n \in Notebooks, Invalidate(n) PROVE Flights
  BY <1>a, <1>6 DEF Invalidate, PrewarmTypeOK, Restrict, Range
<1>7. ASSUME NEW a \in Actors, NEW then, ReleaseSlot(a, then),
             a \in Readers => then \in ReaderPCs, a = Warmer => then \in WarmerPCs
      PROVE  PrewarmTypeOK'
  <2>1. Labels
    BY <1>a, <1>7 DEF ReleaseSlot, Woken, PrewarmTypeOK, ReaderPCs, WarmerPCs
  <2> QED BY <1>1, <1>2, <1>3, <1>7, <2>1 DEF ReleaseSlot, work
<1>8. ASSUME NEW c \in Readers, NEW n \in Notebooks, Read(c, n) PROVE PrewarmTypeOK'
  <2>1. Labels /\ Flights
    BY <1>a, <1>8, SourceTypes DEF Read
  <2>2. Others
    BY <1>a, <1>8 DEF Read, PrewarmTypeOK, work, stop
  <2> QED BY <1>1, <2>1, <2>2
<1>9. ASSUME NEW c \in Readers, NEW n \in Notebooks, StartSave(c, n) PROVE PrewarmTypeOK'
  <2>1. Labels
    BY <1>4, <1>9 DEF StartSave, Move, ReaderPCs
  <2>2. Others
    BY <1>a, <1>9 DEF StartSave, PrewarmTypeOK, stop
  <2> QED BY <1>1, <1>2, <1>9, <2>1, <2>2 DEF StartSave
<1>10. ASSUME NEW c \in Readers, NEW ok \in BOOLEAN, Unmark(c, ok) PROVE PrewarmTypeOK'
  <2>1. Labels
    BY <1>4, <1>10 DEF Unmark, Move, ReaderPCs
  <2>2. pending' \subseteq Notebooks
    <3>1. CASE ~ok
      BY <1>a, <1>10, <3>1 DEF Unmark, PrewarmTypeOK
    <3>2. CASE ok
      <4>1. PICK t : t = <<nb[c]>>
        OBVIOUS
      <4>2. t \in Seq(Notebooks) /\ IsInjective(t) /\ Enqueue(t)
        BY <1>a, <1>10, <3>2, <4>1 DEF Unmark, PrewarmTypeOK, IsInjective
      <4>3. Accepted(t) \in Seq(Notebooks)
        BY <1>a, <4>2, Accepts
      <4> QED BY <1>a, <4>2, <4>3 DEF Enqueue, PrewarmTypeOK, Range
    <3> QED BY <3>1, <3>2
  <2>3. Others
    BY <1>a, <1>10, <2>2 DEF Unmark, PrewarmTypeOK, stop
  <2> QED BY <1>1, <1>2, <1>10, <2>1, <2>3 DEF Unmark
<1>11. ASSUME NEW c \in Readers, ReaderStep(c) \/ GiveUp(c) \/ LeaveFlight(c)
       PROVE  PrewarmTypeOK'
  <2>1. CASE Export(c)
    BY <1>7, <2>1 DEF Export, ReaderPCs
  <2>2. CASE Acquire(c) \/ GiveUp(c) \/ LeaveFlight(c)
    <3>1. Labels
      BY <1>4, <2>2 DEF Acquire, GiveUp, LeaveFlight, Move, ReaderPCs
    <3> QED BY <1>1, <1>2, <1>3, <2>2, <3>1 DEF Acquire, GiveUp, LeaveFlight, work
  <2>3. CASE Commit(c) \/ FinishInvalidate(c)
    <3>1. Labels
      BY <1>4, <2>3 DEF Commit, FinishInvalidate, Move, ReaderPCs
    <3>2. Flights
      BY <1>a, <1>6, <2>3 DEF Commit, FinishInvalidate, PrewarmTypeOK
    <3> QED BY <1>1, <1>3, <2>3, <3>1, <3>2 DEF Commit, FinishInvalidate, work
  <2>4. ASSUME NEW ok \in BOOLEAN, Complete(c, ok) PROVE PrewarmTypeOK'
    <3>1. Labels /\ Flights
      BY <1>a, <2>4, FlightTypes DEF Complete, ReaderPCs
    <3> QED BY <1>1, <1>3, <2>4, <3>1 DEF Complete, work
  <2> QED BY <1>10, <1>11, <2>1, <2>2, <2>3, <2>4 DEF ReaderStep
<1>12. CASE WarmerStep \/ WarmTimeout \/ StartWorker
  <2>1. ASSUME NEW t \in Targets, Discover(t) PROVE PrewarmTypeOK'
    <3>1. Labels
      BY <1>4, <2>1 DEF Discover, Move, WarmerPCs
    <3>2. t \in Seq(Notebooks) /\ IsInjective(t) /\ Enqueue(t)
      BY <2>1 DEF Targets, Discover
    <3>3. Accepted(t) \in Seq(Notebooks)
      BY <1>a, <3>2, Accepts
    <3>4. pending' \subseteq Notebooks
      BY <1>a, <3>2, <3>3 DEF Enqueue, PrewarmTypeOK, Range
    <3>5. Others
      BY <1>a, <2>1, <3>4 DEF Discover, PrewarmTypeOK, stop
    <3> QED BY <1>1, <1>2, <2>1, <3>1, <3>5 DEF Discover
  <2>2. CASE Loop \/ SelectDone \/ Warm \/ StartWorker
    <3>1. Labels
      BY <1>4, <2>2 DEF Loop, SelectDone, Warm, StartWorker, Move, WarmerPCs
    <3> QED BY <1>1, <1>2, <1>3, <2>2, <3>1 DEF Loop, SelectDone, Warm, StartWorker, work
  <2>3. CASE TryBackground \/ WarmTimeout
    <3>1. Labels
      BY <1>4, <2>3 DEF TryBackground, WarmTimeout, Move, WarmerPCs
    <3> QED BY <1>1, <1>2, <1>3, <2>3, <3>1 DEF TryBackground, WarmTimeout, work
  <2>4. CASE SelectTarget
    <3>1. Labels
      BY <1>4, <2>4 DEF SelectTarget, Move, WarmerPCs
    <3>2. Others
      BY <1>a, <2>4, HeadTailProperties DEF SelectTarget, PrewarmTypeOK, stop
    <3> QED BY <1>1, <1>2, <2>4, <3>1, <3>2 DEF SelectTarget
  <2>5. CASE Dequeued
    <3>1. Labels
      BY <1>4, <2>5 DEF Dequeued, Move, WarmerPCs
    <3>2. Others
      BY <1>a, <2>5 DEF Dequeued, Unpend, PrewarmTypeOK, stop
    <3> QED BY <1>1, <1>2, <2>5, <3>1, <3>2 DEF Dequeued
  <2>6. CASE WarmSource
    <3>1. nb[Warmer] \in Notebooks
      BY <1>a DEF PrewarmTypeOK
    <3>2. Labels /\ Flights
      BY <1>a, <2>6, <3>1, SourceTypes DEF WarmSource
    <3> QED BY <1>1, <1>3, <2>6, <3>2 DEF WarmSource, work
  <2>7. CASE WarmRelease
    BY <1>7, <2>7 DEF WarmRelease, WarmerPCs
  <2>8. ASSUME NEW ok \in BOOLEAN, WarmExport(ok) PROVE PrewarmTypeOK'
    <3>1. Labels /\ Flights
      BY <1>a, <2>8, FlightTypes DEF WarmExport, WarmerPCs
    <3> QED BY <1>1, <1>3, <2>8, <3>1 DEF WarmExport, work
  <2> QED BY <1>12, <2>1, <2>2, <2>3, <2>4, <2>5, <2>6, <2>7, <2>8 DEF WarmerStep
<1>13. ASSUME NEW n \in Notebooks, Evict(n) PROVE PrewarmTypeOK'
  <2>1. Flights
    BY <1>a, <1>13 DEF Evict, PrewarmTypeOK
  <2> QED BY <1>1, <1>3, <1>5, <1>13, <2>1 DEF Evict, work
<1>14. CASE CancelMount \/ Close \/ CloseJoin \/ CloseTimeout
  <2>1. Others
    BY <1>a, <1>14 DEF CancelMount, Close, CancelWorker, CloseJoin, CloseTimeout,
                       PrewarmTypeOK, work
  <2> QED BY <1>1, <1>2, <1>5, <1>14, <2>1 DEF CancelMount, Close, CloseJoin, CloseTimeout
<1> QED BY <1>8, <1>9, <1>11, <1>12, <1>13, <1>14 DEF PrewarmNext

-----------------------------------------------------------------------------
LEMMA PrewarmStarts ==
    ASSUME PrewarmInit
    PROVE  WInv
<1> USE PrewarmAssumption DEF PrewarmInit, Actors
<1>1. PrewarmTypeOK
  <2>1. (CHOOSE n \in Notebooks : TRUE) \in Notebooks
    OBVIOUS
  <2>2. nb \in [Actors -> Notebooks]
    BY <2>1
  <2>3. queue \in Seq(Notebooks) /\ Len(queue) <= QueueCap
    BY EmptySeq
  <2>4. DOMAIN flights \subseteq Notebooks /\ Range(flights) \subseteq Actors
    BY DEF Range
  <2>5. /\ pc \in [Actors -> ReaderPCs \cup WarmerPCs]
        /\ \A c \in Readers : pc[c] \in ReaderPCs
        /\ pc[Warmer] \in WarmerPCs
    BY DEF ReaderPCs, WarmerPCs
  <2>6. leader \in [Actors -> Actors] /\ saving \in [Notebooks -> Nat]
    OBVIOUS
  <2>7. active \in 0..Slots /\ waiting \in Nat
    OBVIOUS
  <2>8. /\ saves \subseteq Readers /\ cached \subseteq Notebooks /\ pending \subseteq Notebooks
        /\ ctxDone \in BOOLEAN /\ closed \in BOOLEAN
        /\ closing \in {"no", "waiting", "joined", "timeout"}
    OBVIOUS
  <2> HIDE DEF PrewarmInit
  <2> QED BY <2>2, <2>3, <2>4, <2>5, <2>6, <2>7, <2>8 DEF PrewarmTypeOK
<1>2. Waiters = {} /\ Holders = {} /\ \A n \in Notebooks : Savers(n) = {}
  BY DEF Waiters, Holders, Holding, Savers
<1>3. GateExact /\ SavesExact
  <2>1. Cardinality({}) = 0
    BY FS_EmptySet
  <2>2. \A c \in Readers : pc[c] = "idle"
    OBVIOUS
  <2>3. \A n \in Notebooks : saving[n] = Cardinality(Savers(n))
    BY <1>2, <2>1
  <2>4. GateExact
    BY <1>2, <2>1 DEF GateExact
  <2> QED BY <2>2, <2>3, <2>4 DEF SavesExact
<1>4. QueueExact
  BY DEF QueueExact, PendingExact, IsInjective, Range
<1> QED BY <1>1, <1>3, <1>4 DEF WInv

LEMMA PrewarmSteps ==
    ASSUME WInv, [PrewarmNext]_prewarmVars
    PROVE  WInv'
<1>1. CASE PrewarmNext
  <2>1. GateExact' /\ SavesExact' /\ QueueExact'
    BY <1>1, GateStep, SavesStep, QueueStep
  <2>2. Waiters' \subseteq Readers /\ Holders' \subseteq Actors
    BY DEF Waiters, Holders
  <2>3. IsFiniteSet(Waiters') /\ IsFiniteSet(Holders')
    BY <2>2, FewActors, FS_Subset, PrewarmAssumption DEF WInv
  <2>4. waiting' \in Nat /\ active' \in Nat /\ active' <= Slots
    BY <2>1, <2>3, FS_CardinalityType DEF GateExact
  <2>5. PrewarmTypeOK'
    BY <1>1, <2>4, SavesStep, QueueStep, TypesStep, PrewarmAssumption
  <2> QED BY <2>1, <2>5 DEF WInv
<1>2. CASE UNCHANGED prewarmVars
  BY <1>2 DEF WInv, prewarmVars, gate, sharing, work, stop, PrewarmTypeOK, GateExact,
              Waiters, Holders, Holding, SavesExact, Savers, QueueExact, PendingExact
<1> QED BY <1>1, <1>2

LEMMA PrewarmHolds == PrewarmSpec => []WInv
  BY PrewarmStarts, PrewarmSteps, PTL DEF PrewarmSpec

\* The gate, the shared exports and the prewarmer keep their types, for any
\* readers, notebooks, slots and queue.
THEOREM PrewarmTyped == PrewarmSpec => []PrewarmTypeOK
<1>1. WInv => PrewarmTypeOK
  BY DEF WInv
<1> QED BY <1>1, PrewarmHolds, PTL

\* definition_gate.go: no slot and no place in the queue is leaked, whoever
\* gives up, joins a flight or is canceled, and never more than the slots are
\* held.
THEOREM GateCounts == PrewarmSpec => []GateExact
<1>1. WInv => GateExact
  BY DEF WInv
<1> QED BY <1>1, PrewarmHolds, PTL

\* prewarm.go: however saves, discovery, the worker and close race, a target is
\* marked pending exactly while it is queued or just received.
THEOREM MarksMatchQueue == PrewarmSpec => []PendingExact
<1>1. WInv => PendingExact
  BY DEF WInv, QueueExact
<1> QED BY <1>1, PrewarmHolds, PTL
=============================================================================
