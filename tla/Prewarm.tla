------------------------------ MODULE Prewarm ------------------------------
(***************************************************************************)
(* Definition exports: the gate that bounds them                           *)
(* (internal/workspacefs/definition_gate.go), the flights that share them  *)
(* (snapshots.go over internal/cache) and the background worker that warms *)
(* snapshots (prewarm.go).                                                 *)
(*                                                                         *)
(* Foreground callers read notebooks through the snapshot cache or run the *)
(* preflight of a save; both need a slot of the gate, unless a flight can  *)
(* be shared.  The worker reserves its slot first and then leads or joins  *)
(* a flight, so it may hold a slot while it waits for a foreground leader  *)
(* that still waits for one.                                               *)
(***************************************************************************)
EXTENDS Integers, FiniteSets, Sequences, Functions, Lists

CONSTANTS
    Readers,    \* foreground goroutines
    Warmer,     \* the goroutine of notebookPrewarmer.run
    Notebooks,  \* prewarm targets
    Slots,      \* the capacity of the gate (4 in the code)
    QueueCap,   \* maxPrewarmTargets
    WarmBudget  \* retained snapshots at which prewarming stops

ASSUME PrewarmAssumption ==
    /\ IsFiniteSet(Readers)
    /\ Warmer \notin Readers
    /\ Notebooks # {}
    /\ Slots \in Nat /\ Slots >= 2
    /\ QueueCap \in Nat \ {0}
    /\ WarmBudget \in Nat \ {0}

Actors == Readers \cup {Warmer}

VARIABLES
    active,     \* definitionGate.active
    waiting,    \* definitionGate.waiting
    pc,         \* [Actors -> PCs]
    nb,         \* [Actors -> Notebooks]: what an actor works on
    saves,      \* the readers whose current call is a save
    leader,     \* [Actors -> Actors]: the flight a joined actor waits for
    flights,    \* attached flights: a function from notebooks to leaders
    cached,     \* notebooks with a retained snapshot
    queue,      \* notebookPrewarmer.queue
    pending,    \* notebookPrewarmer.pending
    saving,     \* notebookPrewarmer.saving
    ctxDone,   \* the worker's context is done
    closed,     \* notebookPrewarmer.closed
    closing     \* close(): "no", "waiting", "joined" or "timeout"

gate        == <<active, waiting>>
sharing     == <<leader, flights, cached>>
work        == <<queue, pending, saving>>
stop        == <<ctxDone, closed, closing>>
prewarmVars == <<gate, pc, nb, saves, sharing, work, stop>>

-----------------------------------------------------------------------------
\* "acquire", "signaled": about to (re)try the gate; "parked": waiting on
\* changed; "export": holding a slot in GetDefinition; "complete": about to
\* complete its flight.
ReaderPCs == {"idle", "mark", "acquire", "parked", "signaled", "export",
              "complete", "join", "finish", "unmark"}

\* "slot" to "release": holding the background slot.
WarmerPCs == {"off", "discover", "loop", "select", "received", "warm", "gate",
              "slot", "export", "join", "release", "done"}

\* The goroutines between waiting++ and waiting--.
Waiters == {c \in Readers : pc[c] \in {"parked", "signaled"}}

PrewarmInit ==
    /\ active = 0 /\ waiting = 0
    /\ pc = [a \in Actors |-> IF a = Warmer THEN "off" ELSE "idle"]
    /\ nb \in [Actors -> {CHOOSE n \in Notebooks : TRUE}]
    /\ saves = {}
    /\ leader = [a \in Actors |-> a]
    /\ flights = << >> /\ cached = {}
    /\ queue = << >> /\ pending = {} /\ saving = [n \in Notebooks |-> 0]
    /\ ctxDone = FALSE /\ closed = FALSE /\ closing = "no"

Move(a, label) == pc' = [pc EXCEPT ![a] = label]

-----------------------------------------------------------------------------
(* Snapshot cache: what module Cache does, without ages and sizes. *)

\* GetWithin of actor a for notebook n; lead is where a leader continues.
Source(a, n, hit, lead) ==
    \/ /\ n \in cached
       /\ Move(a, hit)
       /\ UNCHANGED sharing
    \/ /\ n \in DOMAIN flights
       /\ leader' = [leader EXCEPT ![a] = flights[n]]
       /\ Move(a, "join")
       /\ UNCHANGED <<flights, cached>>
    \/ /\ n \notin cached /\ n \notin DOMAIN flights
       /\ flights' = [m \in DOMAIN flights \cup {n} |->
                         IF m = n THEN a ELSE flights[m]]
       /\ Move(a, lead)
       /\ UNCHANGED <<leader, cached>>

\* invalidateDefinition.
Invalidate(n) ==
    /\ cached' = cached \ {n}
    /\ flights' = Restrict(flights, DOMAIN flights \ {n})
    /\ UNCHANGED leader

Attached(a) == nb[a] \in DOMAIN flights /\ flights[nb[a]] = a

\* complete: publish, detach, and let every joined caller go.
CompleteFlight(a, ok, then) ==
    /\ cached' = IF ok /\ Attached(a) THEN cached \cup {nb[a]} ELSE cached
    /\ flights' = IF Attached(a) THEN Restrict(flights, DOMAIN flights \ {nb[a]})
                                 ELSE flights
    /\ pc' = [b \in Actors |->
                 IF b = a THEN then
                 ELSE IF pc[b] = "join" /\ leader[b] = a
                      THEN IF b = Warmer THEN "release" ELSE "idle"
                      ELSE pc[b]]
    /\ leader' = [b \in Actors |-> IF leader[b] = a THEN b ELSE leader[b]]

\* A snapshot ages out or is evicted.
Evict(n) ==
    /\ n \in cached
    /\ cached' = cached \ {n}
    /\ UNCHANGED <<gate, pc, nb, saves, leader, flights, work, stop>>

-----------------------------------------------------------------------------
(* definitionGate *)

\* (mutant) A release wakes nobody.
WokenNobody(p) == p

\* close(g.changed).
Woken(p) == [a \in Actors |-> IF p[a] = "parked" THEN "signaled" ELSE p[a]]

\* waiting++ once per acquire, before the loop.
Enqueued(c) == waiting' = IF pc[c] = "acquire" THEN waiting + 1 ELSE waiting

\* The gate has no free slot for a foreground export.
Full == active >= Slots

\* One pass of the loop of acquire, under the lock.
Acquire(c) ==
    /\ pc[c] \in {"acquire", "signaled"}
    /\ \/ /\ ~Full
          /\ active' = active + 1
          /\ waiting' = IF pc[c] = "acquire" THEN waiting ELSE waiting - 1
          /\ Move(c, "export")
       \/ /\ Full
          /\ Enqueued(c)
          /\ Move(c, "parked")
          /\ UNCHANGED active
    /\ UNCHANGED <<nb, saves, sharing, work, stop>>

\* The caller's context is done: acquire fails, and with it the export.
GiveUp(c) ==
    /\ pc[c] \in {"acquire", "parked", "signaled"}
    /\ waiting' = IF pc[c] = "acquire" THEN waiting ELSE waiting - 1
    /\ Move(c, IF c \in saves THEN "finish" ELSE "complete")
    /\ UNCHANGED <<active, nb, saves, sharing, work, stop>>

\* release, deferred by fetchDefinition and warm.
ReleaseSlot(a, then) ==
    /\ active' = active - 1
    /\ pc' = [Woken(pc) EXCEPT ![a] = then]
    /\ UNCHANGED <<waiting, nb, saves, sharing, work, stop>>

-----------------------------------------------------------------------------
(* Foreground callers *)

\* sourceSnapshot for a lookup, a stat or an open.
Read(c, n) ==
    /\ pc[c] = "idle"
    /\ nb' = [nb EXCEPT ![c] = n]
    /\ Source(c, n, "idle", "acquire")
    /\ UNCHANGED <<gate, saves, work, stop>>

\* GetDefinition returns, with a definition or an error, and the slot with it.
Export(c) ==
    /\ pc[c] = "export"
    /\ ReleaseSlot(c, IF c \in saves THEN "finish" ELSE "complete")

Complete(c, ok) ==
    /\ pc[c] = "complete"
    /\ CompleteFlight(c, ok, "idle")
    /\ UNCHANGED <<gate, nb, saves, work, stop>>

\* A joined caller's own context is done.
LeaveFlight(c) ==
    /\ pc[c] = "join"
    /\ Move(c, "idle")
    /\ UNCHANGED <<gate, nb, saves, sharing, work, stop>>

\* startNotebookCommit: mark the target, then invalidate.
StartSave(c, n) ==
    /\ pc[c] = "idle"
    /\ nb' = [nb EXCEPT ![c] = n]
    /\ saves' = saves \cup {c}
    /\ saving' = [saving EXCEPT ![n] = @ + 1]
    /\ Move(c, "mark")
    /\ UNCHANGED <<gate, sharing, queue, pending, stop>>

\* The commit then reaches its preflight, or fails before it.
Commit(c) ==
    /\ pc[c] = "mark"
    /\ Invalidate(nb[c])
    /\ \/ Move(c, "acquire")
       \/ Move(c, "finish")
    /\ UNCHANGED <<gate, nb, saves, work, stop>>

\* finish: invalidate, then unmark and queue the saved notebook.
FinishInvalidate(c) ==
    /\ pc[c] = "finish"
    /\ Invalidate(nb[c])
    /\ Move(c, "unmark")
    /\ UNCHANGED <<gate, nb, saves, work, stop>>

\* The select does not block: there is room in the channel, or work is skipped.
Room == QueueCap - Len(queue)

\* enqueueLocked for distinct targets, one after the other: those that are not
\* pending, as long as there is room.
Accepted(targets) ==
    LET new == Keeping(targets, Notebooks \ pending)
    IN  IF closed \/ pc[Warmer] = "off" THEN << >>
        ELSE SubSeq(new, 1, IF Len(new) <= Room THEN Len(new) ELSE Room)

Enqueue(targets) ==
    /\ queue' = queue \o Accepted(targets)
    /\ pending' = pending \cup Range(Accepted(targets))

\* p.saving[target]--, whatever the result.
Unmarked(n, success) == [saving EXCEPT ![n] = @ - 1]

Unmark(c, success) ==
    /\ pc[c] = "unmark"
    /\ saving' = Unmarked(nb[c], success)
    /\ IF success THEN Enqueue(<<nb[c]>>) ELSE UNCHANGED <<queue, pending>>
    /\ saves' = saves \ {c}
    /\ Move(c, "idle")
    /\ UNCHANGED <<gate, nb, sharing, stop>>

-----------------------------------------------------------------------------
(* The worker *)

StartWorker ==
    /\ pc[Warmer] = "off" /\ ~closed /\ ~ctxDone
    /\ Move(Warmer, "discover")
    /\ UNCHANGED <<gate, nb, saves, sharing, work, stop>>

\* discoverTargets finds targets, or fails; then they are queued in order.
Discover(targets) ==
    /\ pc[Warmer] = "discover"
    /\ Enqueue(targets)
    /\ Move(Warmer, "loop")
    /\ UNCHANGED <<gate, nb, saves, sharing, saving, stop>>

\* for ctx.Err() == nil
Loop ==
    /\ pc[Warmer] = "loop"
    /\ Move(Warmer, IF ctxDone THEN "done" ELSE "select")
    /\ UNCHANGED <<gate, nb, saves, sharing, work, stop>>

\* case <-ctx.Done()
SelectDone ==
    /\ pc[Warmer] = "select" /\ ctxDone
    /\ Move(Warmer, "done")
    /\ UNCHANGED <<gate, nb, saves, sharing, work, stop>>

\* case target := <-p.queue; also when the context is done as well.
SelectTarget ==
    /\ pc[Warmer] = "select" /\ queue # << >>
    /\ nb' = [nb EXCEPT ![Warmer] = Head(queue)]
    /\ queue' = Tail(queue)
    /\ Move(Warmer, "received")
    /\ UNCHANGED <<gate, saves, sharing, pending, saving, stop>>

\* (mutant) The mark is only removed from targets that are warmed.
UnpendWarmed(n) == IF saving[n] = 0 THEN pending \ {n} ELSE pending

\* delete(p.pending, target)
Unpend(n) == pending \ {n}

\* Under the lock: unmark the target and look at its saves.
Dequeued ==
    /\ pc[Warmer] = "received"
    /\ pending' = Unpend(nb[Warmer])
    /\ \/ saving[nb[Warmer]] = 0 /\ ~ctxDone /\ Move(Warmer, "warm")
       \/ (saving[nb[Warmer]] # 0 \/ ctxDone) /\ Move(Warmer, "loop")
    /\ UNCHANGED <<gate, nb, saves, sharing, queue, saving, stop>>

\* warm: an unexpired snapshot or a used-up budget needs no export.
Warm ==
    /\ pc[Warmer] = "warm"
    /\ \/ /\ nb[Warmer] \in cached \/ Cardinality(cached) >= WarmBudget
          /\ Move(Warmer, "loop")
       \/ /\ nb[Warmer] \notin cached /\ Cardinality(cached) < WarmBudget
          /\ Move(Warmer, "gate")
    /\ UNCHANGED <<gate, nb, saves, sharing, work, stop>>

\* The condition of tryBackground.
BackgroundAllowed == waiting = 0 /\ active < Slots

TryBackground ==
    /\ pc[Warmer] = "gate"
    /\ \/ /\ BackgroundAllowed
          /\ active' = active + 1
          /\ Move(Warmer, "slot")
       \/ /\ ~BackgroundAllowed
          /\ Move(Warmer, "loop")
          /\ UNCHANGED active
    /\ UNCHANGED <<waiting, nb, saves, sharing, work, stop>>

\* sourceSnapshot with prewarmSlotKey: a flight it leads uses this slot.
WarmSource ==
    /\ pc[Warmer] = "slot"
    /\ Source(Warmer, nb[Warmer], "release", "export")
    /\ UNCHANGED <<gate, nb, saves, work, stop>>

\* The context is done before the lookup, or while joined: PrewarmTimeout or
\* a cancellation.
WarmTimeout ==
    /\ pc[Warmer] \in {"slot", "join"}
    /\ Move(Warmer, "release")
    /\ UNCHANGED <<gate, nb, saves, sharing, work, stop>>

\* The export of the worker ends, and completes its flight.
WarmExport(ok) ==
    /\ pc[Warmer] = "export"
    /\ CompleteFlight(Warmer, ok, "release")
    /\ UNCHANGED <<gate, nb, saves, work, stop>>

WarmRelease ==
    /\ pc[Warmer] = "release"
    /\ ReleaseSlot(Warmer, "loop")

-----------------------------------------------------------------------------
(* Shutdown *)

\* The context of the mount is done.
CancelMount ==
    /\ ~ctxDone
    /\ ctxDone' = TRUE
    /\ UNCHANGED <<gate, pc, nb, saves, sharing, work, closed, closing>>

\* (mutant) close waits without canceling.
CancelNothing == ctxDone

\* p.cancel, set once the worker has been started.
CancelWorker == ctxDone \/ pc[Warmer] # "off"

\* close: without a worker it returns at once.
Close ==
    /\ ~closed
    /\ closed' = TRUE
    /\ ctxDone' = CancelWorker
    /\ closing' = IF pc[Warmer] = "off" THEN "joined" ELSE "waiting"
    /\ UNCHANGED <<gate, pc, nb, saves, sharing, work>>

\* <-done
WorkerDone == pc[Warmer] = "done"

CloseJoin ==
    /\ closing = "waiting" /\ WorkerDone
    /\ closing' = "joined"
    /\ pending' = {}
    /\ UNCHANGED <<gate, pc, nb, saves, sharing, queue, saving, ctxDone, closed>>

\* The ten seconds are over first.
CloseTimeout ==
    /\ closing = "waiting"
    /\ closing' = "timeout"
    /\ UNCHANGED <<gate, pc, nb, saves, sharing, work, ctxDone, closed>>

-----------------------------------------------------------------------------
\* What a foreground call does without waiting for anything but the service.
ReaderStep(c) ==
    \/ Acquire(c) \/ Export(c) \/ Commit(c) \/ FinishInvalidate(c)
    \/ \E ok \in BOOLEAN : Complete(c, ok) \/ Unmark(c, ok)

\* Discovered targets: distinct, in some order, at most QueueCap.
Targets == {t \in UNION {[1..k -> Notebooks] : k \in 0..QueueCap} : IsInjective(t)}

WarmerStep ==
    \/ \E t \in Targets : Discover(t)
    \/ Loop \/ SelectDone \/ SelectTarget \/ Dequeued \/ Warm \/ TryBackground
    \/ WarmSource \/ WarmRelease
    \/ \E ok \in BOOLEAN : WarmExport(ok)

PrewarmNext ==
    \/ \E c \in Readers : ReaderStep(c) \/ GiveUp(c) \/ LeaveFlight(c)
    \/ \E c \in Readers, n \in Notebooks : Read(c, n) \/ StartSave(c, n)
    \/ \E n \in Notebooks : Evict(n)
    \/ StartWorker \/ WarmerStep \/ WarmTimeout
    \/ CancelMount \/ Close \/ CloseJoin \/ CloseTimeout

PrewarmSpec == PrewarmInit /\ [][PrewarmNext]_prewarmVars

\* Goroutines keep running and the service answers, but no reader has to give
\* up and close need not run into its timeout; once its context is done, the
\* worker leaves a flight it has joined.
PrewarmFairness ==
    /\ \A c \in Readers : WF_prewarmVars(ReaderStep(c))
    /\ WF_prewarmVars(WarmerStep)
    /\ WF_prewarmVars(ctxDone /\ WarmTimeout)

PrewarmFairSpec == PrewarmSpec /\ PrewarmFairness

-----------------------------------------------------------------------------
(* Properties *)

\* Every variable has the type of the field it stands for; the queue is
\* bounded by its capacity.
PrewarmTypeOK ==
    /\ active \in 0..Slots /\ waiting \in Nat
    /\ pc \in [Actors -> ReaderPCs \cup WarmerPCs]
    /\ \A c \in Readers : pc[c] \in ReaderPCs
    /\ pc[Warmer] \in WarmerPCs
    /\ nb \in [Actors -> Notebooks]
    /\ saves \subseteq Readers
    /\ leader \in [Actors -> Actors]
    /\ DOMAIN flights \subseteq Notebooks /\ Range(flights) \subseteq Actors
    /\ cached \subseteq Notebooks
    /\ queue \in Seq(Notebooks) /\ Len(queue) <= QueueCap
    /\ pending \subseteq Notebooks
    /\ saving \in [Notebooks -> Nat]
    /\ ctxDone \in BOOLEAN /\ closed \in BOOLEAN
    /\ closing \in {"no", "waiting", "joined", "timeout"}

\* "Work is deduplicated with a bounded queue": a target is marked pending
\* exactly while it is queued, once, or just received - a mark left behind
\* would keep the notebook from ever being warmed again after its saves.
PendingExact ==
    closing # "joined" =>
        /\ IsInjective(queue)
        /\ pending = Range(queue)
                        \cup {n \in {nb[Warmer]} : pc[Warmer] = "received"}

\* Every goroutine asleep in acquire is woken, although nobody gives up.
SleepersWake ==
    \A c \in Readers : (pc[c] = "parked") ~> (pc[c] # "parked")

\* Closing the mount ends the worker, wherever it is, flights it has joined
\* included.
CloseEndsWorker == (closing = "waiting") ~> (pc[Warmer] = "done")
=============================================================================
