---------------------------- MODULE LocalProofs -----------------------------
(***************************************************************************)
(* Theorems about what is kept on this machine: the copies that the kernel *)
(* has and the Invalidator takes back (Invalidator), for any requests,     *)
(* names and limit; then the local dot-directories and the store's         *)
(* accounts of them (Overlay), for any scopes, names, handles and limits.  *)
(***************************************************************************)
EXTENDS Invalidator, Overlay, FiniteSetTheorems, SequenceTheorems, TLAPS

-----------------------------------------------------------------------------
(* Invalidator *)

\* The coordinator is at one job of a batch at a time.
BatchShape ==
    /\ pc \in {"wait", "collect", "done"} => batch = {}
    /\ pc # "notify" => cur = None
    /\ cur \notin batch

\* What a request has at each step.  It retires its job at the end unless it is
\* a write or an open that has succeeded.
RequestAt(r) ==
    /\ step[r] = "idle" <=> op[r] = "none"
    /\ step[r] \in {"idle", "reply"} => job[r] = None
    /\ op[r] \in ReserveKinds /\ step[r] = "enter" => job[r] = None
    /\ op[r] \in ReserveKinds /\ step[r] = "backend" => job[r] # None
    /\ op[r] \in HandleKinds /\ step[r] \in {"enter", "backend"} => job[r] # None
    /\ op[r] \in ReadKinds => job[r] = None
    /\ step[r] \in {"enter", "backend"} => (retire[r] <=> op[r] \notin {"write", "truncate"})
    /\ op[r] \notin {"none", "rename"} => \E n \in Names : names[r] = {n}
    /\ op[r] # "none" => names[r] # {}

RequestShape == \A r \in Requests : RequestAt(r)

\* Requests and handles use jobs of the table; a handle has one job of its own,
\* which covers its file.
Referred ==
    /\ \A r \in Requests : job[r] # None => job[r] \in jobs
    /\ \A h \in open : h[1] \in jobs /\ <<"file", h[2]>> \in targets[h[1]]
    /\ \A g, h \in open : g[1] = h[1] => g = h
    /\ batch \subseteq jobs /\ cur \in jobs \cup {None}
    /\ dirty \subseteq jobs /\ retired \subseteq jobs

\* Nobody but the coordinator is left with a job that is retired, and it has
\* the job ahead of it.
RetiredLast ==
    \A j \in retired :
        /\ \A r \in Requests : job[r] # j
        /\ \A h \in open : h[1] # j
        /\ j \in dirty \/ j \in batch \/ j = cur

Closing(r) == op[r] = "release" /\ step[r] \in {"enter", "backend"}

\* A request that is going to retire its job has it for itself.
Retirer ==
    \A r \in Requests : retire[r] /\ job[r] # None =>
        /\ \A q \in Requests : job[q] = job[r] => q = r
        /\ \A h \in open : h[1] = job[r] => Closing(r)

\* The handle of a request that needs it is open.
OnOpenHandle ==
    \A r \in Requests :
        job[r] # None /\ (~retire[r] \/ Closing(r)) =>
            {job[r]} \X names[r] \subseteq open

\* What has been reserved for a request covers what it may change.
Covered ==
    \A r \in Requests : step[r] = "backend" /\ op[r] \in ReserveKinds =>
        /\ op[r] \in NameKinds => Of("entry", names[r]) \subseteq targets[job[r]]
        /\ op[r] \notin {"create", "mkdir"} => Of("file", names[r]) \subseteq targets[job[r]]

Stale(t) == cached[t] = "stale" \/ \E r \in Requests : reply[r][t] = "stale"

AllGoing == \A t \in Targets : Stale(t) => \E j \in Jobs : Going(j, t)

Used(j) ==
    \/ \E h \in open : h[1] = j
    \/ \E r \in Requests : job[r] = j
    \/ j \in retired /\ (j \in dirty \/ j \in batch \/ j = cur)

Core ==
    /\ Referred /\ RetiredLast /\ Retirer /\ OnOpenHandle /\ Covered
    /\ \A j \in jobs : Used(j)
    /\ ~err => AllGoing

IInv == TypeOK /\ BatchShape /\ RequestShape /\ (~closed => Core)

-----------------------------------------------------------------------------
(* Types *)

\* The table is not larger than its limit, so there is a number that is not in
\* use, and one more job is not too many.
LEMMA RoomInTable ==
    ASSUME jobs \subseteq Jobs, ~Full, NEW j, j = CHOOSE k \in Jobs : k \notin jobs
    PROVE  j \in Jobs /\ j \notin jobs /\ Cardinality(jobs \cup {j}) <= Limit
<1> USE InvalidatorAssumption
<1>1. IsFiniteSet(Jobs) /\ Cardinality(Jobs) = Limit + 1
  BY FS_Interval DEF Jobs
<1>2. IsFiniteSet(jobs) /\ Cardinality(jobs) \in Nat
  BY <1>1, FS_Subset, FS_CardinalityType
<1>3. Cardinality(jobs) < Limit
  BY <1>2 DEF Full
<1>4. \E k \in Jobs : k \notin jobs
  <2>1. jobs # Jobs
    BY <1>1, <1>3
  <2> QED
    BY <2>1
<1>5. j \in Jobs /\ j \notin jobs
  BY <1>4
<1>6. Cardinality(jobs \cup {j}) = Cardinality(jobs) + 1
  BY <1>2, <1>5, FS_AddElement
<1> QED
  BY <1>2, <1>3, <1>5, <1>6

LEMMA NoneIsNoJob == None \notin Jobs
  BY InvalidatorAssumption DEF None, Jobs

\* What is taken out of the table leaves room.
LEMMA FewerJobs ==
    ASSUME jobs \subseteq Jobs, Cardinality(jobs) <= Limit, NEW J \in SUBSET jobs
    PROVE  J \subseteq Jobs /\ Cardinality(J) <= Limit
<1>1. IsFiniteSet(Jobs)
  BY InvalidatorAssumption, FS_Interval DEF Jobs
<1>2. IsFiniteSet(jobs)
  BY <1>1, FS_Subset
<1>3. IsFiniteSet(J) /\ Cardinality(J) <= Cardinality(jobs)
  BY <1>2, FS_Subset
<1>4. Cardinality(J) \in Nat /\ Cardinality(jobs) \in Nat
  BY <1>2, <1>3, FS_CardinalityType
<1> QED
  BY <1>3, <1>4, InvalidatorAssumption

Steps == {"idle", "enter", "backend", "leave", "reply"}

\* Aging, answering and forgetting leave copies of the targets.
LEMMA CopiesType ==
    ASSUME NEW c \in [Targets -> Copy]
    PROVE  /\ \A T : Aged(c, T) \in [Targets -> Copy]
           /\ \A r : Carrying(c, r) \in [Targets -> Copy]
           /\ \A t \in Targets : [c EXCEPT ![t] = "none"] \in [Targets -> Copy]
           /\ NoCopies \in [Targets -> Copy]
  BY DEF Aged, Carrying, Copy, NoCopies

LEMMA EnterType ==
    ASSUME TypeOK, NEW r \in Requests, Enter(r)
    PROVE  TypeOK'
<1>1. UNCHANGED <<dirty, retired, err, closed, wake, coordinator, op, names, retire, reply, open, cached>>
  BY DEF Enter
<1>2. step' \in [Requests -> Steps]
  BY DEF Enter, Goto, TypeOK, Steps
<1>3. CASE UNCHANGED <<jobs, targets, job>>
  BY <1>1, <1>2, <1>3 DEF TypeOK, Steps, coordinator
<1>4. CASE ~UNCHANGED <<jobs, targets, job>>
  <2> DEFINE j == CHOOSE k \in Jobs : k \notin jobs
  <2>1. /\ ~Full /\ jobs' = jobs \cup {j}
        /\ targets' = [targets EXCEPT ![j] = Reserved(r)]
        /\ job' = [job EXCEPT ![r] = j]
    BY <1>4 DEF Enter
  <2>2. j \in Jobs /\ Cardinality(jobs \cup {j}) <= Limit
    BY <2>1, RoomInTable DEF TypeOK
  <2> HIDE DEF j
  <2>3. Reserved(r) \subseteq Targets
    BY DEF Reserved, Of, Targets, Attrs, Entries, TypeOK
  <2>4. jobs' \subseteq Jobs /\ Cardinality(jobs') <= Limit
    BY <2>1, <2>2 DEF TypeOK
  <2>5. targets' \in [Jobs -> SUBSET Targets] /\ job' \in [Requests -> Jobs \cup {None}]
    BY <2>1, <2>2, <2>3 DEF TypeOK
  <2> QED
    BY <1>1, <1>2, <2>4, <2>5 DEF TypeOK, Steps, coordinator
<1> QED
  BY <1>3, <1>4

\* The other steps of requests.
LEMMA RequestType ==
    ASSUME TypeOK, RequestShape, NEW r \in Requests,
           \/ Read(r) \/ Mutate(r) \/ MutateFails(r) \/ Leave(r) \/ Answer(r)
           \/ \E kind \in Kinds, N \in SUBSET Names, j \in Jobs \cup {None} : Send(r, kind, N, j)
    PROVE  TypeOK'
<1>1. step' \in [Requests -> Steps]
  BY DEF Read, Mutate, MutateFails, Leave, Answer, Send, Goto, TypeOK, Steps
<1>2. CASE Read(r)
  <2>1. reply' \in [Requests -> [Targets -> Copy]]
    BY <1>2, CopiesType DEF Read, TypeOK
  <2> QED
    BY <1>1, <1>2, <2>1 DEF Read, TypeOK, Steps, table, coordinator
<1>3. CASE Mutate(r)
  <2>1. /\ reply' \in [Requests -> [Targets -> Copy]] /\ cached' \in [Targets -> Copy]
    BY <1>3, CopiesType DEF Mutate, TypeOK
  <2>2. targets' \in [Jobs -> SUBSET Targets]
    BY <1>3 DEF Mutate, TypeOK, WithChild, Of, Targets, Attrs
  <2>3. open' \subseteq Jobs \X Names /\ retire' \in [Requests -> BOOLEAN]
    <3>1. CASE op[r] \in {"open", "create"}
      <4>1. job[r] \in Jobs
        BY <1>3, <3>1 DEF Mutate, RequestShape, RequestAt, ReserveKinds, NameKinds, TypeOK
      <4>2. names[r] \subseteq Names /\ open \subseteq Jobs \X Names /\ retire \in [Requests -> BOOLEAN]
        BY DEF TypeOK
      <4>3. open' = open \cup ({job[r]} \X names[r]) /\ retire' = [retire EXCEPT ![r] = FALSE]
        BY <1>3, <3>1 DEF Mutate
      <4> QED
        BY <4>1, <4>2, <4>3
    <3>2. CASE op[r] \notin {"open", "create"}
      BY <1>3, <3>2 DEF Mutate, TypeOK
    <3> QED
      BY <3>1, <3>2
  <2> QED
    BY <1>1, <1>3, <2>1, <2>2, <2>3 DEF Mutate, TypeOK, Steps, table, coordinator
<1>4. CASE MutateFails(r)
  <2>1. /\ reply' \in [Requests -> [Targets -> Copy]] /\ cached' \in [Targets -> Copy]
    <3>1. CASE UNCHANGED <<reply, cached>>
      BY <3>1 DEF TypeOK
    <3>2. CASE ~UNCHANGED <<reply, cached>>
      <4> DEFINE T == Changing(r) \cap targets[job[r]]
      <4>1. cached' = Aged(cached, T) /\ reply' = [q \in Requests |-> Aged(reply[q], T)]
        BY <1>4, <3>2 DEF MutateFails
      <4> HIDE DEF T
      <4> QED
        BY <4>1, CopiesType DEF TypeOK
    <3> QED
      BY <3>1, <3>2
  <2> QED
    BY <1>1, <1>4, <2>1 DEF MutateFails, TypeOK, Steps, table, coordinator
<1>5. CASE Leave(r)
  <2>1. reply' \in [Requests -> [Targets -> Copy]]
    BY <1>5 DEF Leave, TypeOK, Copy
  <2>2. /\ dirty' \subseteq Jobs /\ retired' \subseteq Jobs /\ wake' \in BOOLEAN
        /\ job' \in [Requests -> Jobs \cup {None}] /\ retire' \in [Requests -> BOOLEAN]
    BY <1>5 DEF Leave, TypeOK, Woken, Retiring
  <2> QED
    BY <1>1, <1>5, <2>1, <2>2 DEF Leave, TypeOK, Steps, coordinator
<1>6. CASE Answer(r)
  <2>1. /\ reply' \in [Requests -> [Targets -> Copy]] /\ cached' \in [Targets -> Copy]
    BY <1>6, CopiesType DEF Answer, TypeOK
  <2> QED
    BY <1>1, <1>6, <2>1 DEF Answer, TypeOK, Steps, table, coordinator
<1>7. ASSUME NEW kind \in Kinds, NEW N \in SUBSET Names, NEW j \in Jobs \cup {None},
             Send(r, kind, N, j)
      PROVE  TypeOK'
  BY <1>1, <1>7 DEF Send, TypeOK, Steps, table, coordinator
<1> QED
  BY <1>2, <1>3, <1>4, <1>5, <1>6, <1>7

LEMMA CoordinatorType ==
    ASSUME TypeOK, Coordinator \/ Close \/ Ended
    PROVE  TypeOK'
<1> USE DEF TypeOK
<1>1. CASE Awake
  BY <1>1 DEF Awake, callbacks
<1>2. CASE Stop
  BY <1>2, FewerJobs DEF Stop, callbacks
<1>3. CASE Collect
  BY <1>3 DEF Collect, Clean, callbacks
<1>4. CASE NextJob
  BY <1>4 DEF NextJob, table, callbacks
<1>5. ASSUME NEW t \in Targets, NotifyAttr(t) \/ NotifyEntry(t)
      PROVE  TypeOK'
  <2>1. /\ reply' \in [Requests -> [Targets -> Copy]] /\ cached' \in [Targets -> Copy]
    <3>1. CASE Forget(t)
      BY <3>1, CopiesType DEF Forget
    <3>2. CASE UNCHANGED <<cached, reply>>
      BY <3>2
    <3> QED
      BY <1>5, <3>1, <3>2 DEF NotifyAttr, NotifyEntry
  <2>2. left' \subseteq Targets /\ err' \in BOOLEAN
    BY <1>5 DEF NotifyAttr, NotifyEntry, Failing
  <2> QED
    BY <1>5, <2>1, <2>2 DEF NotifyAttr, NotifyEntry
<1>6. CASE Settle
  <2>1. CASE Finished(cur)
    <3>1. jobs' \subseteq Jobs /\ Cardinality(jobs') <= Limit
      BY <1>6, <2>1, FewerJobs DEF Settle
    <3>2. targets' \in [Jobs -> SUBSET Targets]
      BY <1>6, <2>1 DEF Settle
    <3> QED
      BY <1>6, <2>1, <3>1, <3>2 DEF Settle, callbacks
  <2>2. CASE ~Finished(cur)
    BY <1>6, <2>2 DEF Settle, callbacks
  <2> QED
    BY <2>1, <2>2
<1>7. CASE Close \/ Ended
  BY <1>7 DEF Close, Ended, coordinator, callbacks, vars, table
<1> QED
  BY <1>1, <1>2, <1>3, <1>4, <1>5, <1>6, <1>7 DEF Coordinator

-----------------------------------------------------------------------------
(* Shapes *)

LEMMA BatchNext ==
    ASSUME TypeOK, BatchShape, [Next]_vars
    PROVE  BatchShape'
<1> USE DEF BatchShape
<1>1. ASSUME NEW r \in Requests,
             \/ Callback(r)
             \/ \E kind \in Kinds, N \in SUBSET Names, j \in Jobs \cup {None} : Send(r, kind, N, j)
      PROVE  BatchShape'
  <2>1. UNCHANGED coordinator
    BY <1>1 DEF Callback, Enter, Read, Mutate, MutateFails, Leave, Answer, Send
  <2> QED
    BY <2>1 DEF coordinator
<1>2. CASE Awake \/ Stop \/ Collect
  BY <1>2, NoneIsNoJob DEF Awake, Stop, Collect, TypeOK
<1>3. CASE NextJob
  BY <1>3 DEF NextJob
<1>4. CASE Settle
  BY <1>4, NoneIsNoJob DEF Settle, TypeOK
<1>5. CASE (\E t \in Targets : NotifyAttr(t) \/ NotifyEntry(t)) \/ Close \/ Ended \/ UNCHANGED vars
  BY <1>5 DEF NotifyAttr, NotifyEntry, Close, Ended, coordinator, vars
<1> QED
  BY <1>1, <1>2, <1>3, <1>4, <1>5 DEF Next, Coordinator

\* A step of request r.
LEMMA OfRequest ==
    ASSUME RequestShape, NEW r \in Requests, RequestAt(r)',
           \A q \in Requests : q # r =>
               /\ op'[q] = op[q] /\ step'[q] = step[q] /\ names'[q] = names[q]
               /\ job'[q] = job[q] /\ retire'[q] = retire[q]
    PROVE  RequestShape'
  BY DEF RequestShape, RequestAt

LEMMA RequestsNext ==
    ASSUME TypeOK, RequestShape, [Next]_vars
    PROVE  RequestShape'
<1> USE DEF NameKinds, ReserveKinds, HandleKinds, ReadKinds
<1>1. ASSUME NEW r \in Requests,
             \/ Callback(r)
             \/ \E kind \in Kinds, N \in SUBSET Names, j \in Jobs \cup {None} : Send(r, kind, N, j)
      PROVE  RequestShape'
  <2>1. \A q \in Requests : q # r =>
            /\ op'[q] = op[q] /\ step'[q] = step[q] /\ names'[q] = names[q]
            /\ job'[q] = job[q] /\ retire'[q] = retire[q]
    BY <1>1 DEF TypeOK, Callback, Enter, Read, Mutate, MutateFails, Leave, Answer, Send, Goto
  <2>2. CASE Enter(r)
    <3>1. UNCHANGED <<op, names, retire>> /\ step[r] = "enter"
      BY <2>2 DEF Enter
    <3>2. CASE op[r] \notin ReserveKinds
      <4>1. job' = job /\ step'[r] \in {"backend", "leave"}
        BY <2>2, <3>2 DEF Enter, Goto, TypeOK
      <4> QED
        BY <2>1, <3>1, <3>2, <4>1, OfRequest DEF RequestShape, RequestAt
    <3>3. CASE op[r] \in ReserveKinds
      <4>1. \/ step'[r] = "leave"
            \/ step'[r] = "backend" /\ job'[r] # None
        <5> DEFINE j == CHOOSE k \in Jobs : k \notin jobs
        <5>1. \/ Goto(r, "leave")
              \/ ~Full /\ job' = [job EXCEPT ![r] = j] /\ Goto(r, "backend")
          BY <2>2, <3>3 DEF Enter
        <5>2. ~Full => j \in Jobs
          BY RoomInTable DEF TypeOK
        <5> HIDE DEF j
        <5> QED
          BY <5>1, <5>2, NoneIsNoJob DEF Goto, TypeOK
      <4> QED
        BY <2>1, <3>1, <3>3, <4>1, OfRequest DEF RequestShape, RequestAt
    <3> QED
      BY <3>2, <3>3
  <2>3. CASE Read(r)
    <3>1. UNCHANGED <<op, names, job, retire>> /\ step[r] = "backend" /\ step'[r] = "leave"
      BY <2>3 DEF Read, Goto, TypeOK
    <3> QED
      BY <2>1, <3>1, OfRequest DEF RequestShape, RequestAt
  <2>4. CASE Mutate(r) \/ MutateFails(r)
    <3>1. UNCHANGED <<op, names, job>> /\ step[r] = "backend" /\ step'[r] = "leave"
      BY <2>4 DEF Mutate, MutateFails, Goto, TypeOK
    <3> QED
      BY <2>1, <3>1, OfRequest DEF RequestShape, RequestAt
  <2>5. CASE Leave(r)
    <3>1. UNCHANGED <<op, names>> /\ step[r] = "leave" /\ step'[r] = "reply" /\ job'[r] = None
      BY <2>5 DEF Leave, Goto, TypeOK
    <3> QED
      BY <2>1, <3>1, OfRequest DEF RequestShape, RequestAt
  <2>6. CASE Answer(r)
    <3>1. /\ job'[r] = job[r] /\ step[r] = "reply" /\ step'[r] = "idle"
          /\ op'[r] = "none" /\ names'[r] = {}
      BY <2>6 DEF Answer, Goto, TypeOK
    <3> QED
      BY <2>1, <3>1, OfRequest DEF RequestShape, RequestAt
  <2>7. ASSUME NEW kind \in Kinds, NEW N \in SUBSET Names, NEW j \in Jobs \cup {None},
               Send(r, kind, N, j)
        PROVE  RequestShape'
    <3>1. /\ op'[r] = kind /\ names'[r] = N /\ job'[r] = j /\ step'[r] = "enter"
          /\ retire'[r] = (kind \notin {"write", "truncate"})
      BY <2>7 DEF Send, Goto, TypeOK
    <3>2. N # {} /\ (kind # "rename" => \E n \in Names : N = {n})
      BY <2>7 DEF Send
    <3>3. kind \in ReserveKinds \cup HandleKinds \cup ReadKinds
      BY InvalidatorAssumption
    <3>4. /\ kind \in HandleKinds => j # None
          /\ kind \notin HandleKinds => j = None
      <4>1. ASSUME kind \in HandleKinds
            PROVE  j \in Jobs
        <5>1. {j} \X N \subseteq open
          BY <2>7, <4>1 DEF Send
        <5>2. PICK n : n \in N
          BY <3>2
        <5>3. <<j, n>> \in open
          BY <5>1, <5>2
        <5> QED
          BY <5>3 DEF TypeOK
      <4> QED
        BY <2>7, <4>1, NoneIsNoJob DEF Send
    <3>5. RequestAt(r)'
      BY <3>1, <3>2, <3>3, <3>4 DEF RequestAt
    <3> QED
      BY <2>1, <3>5, OfRequest
  <2> QED
    BY <1>1, <2>2, <2>3, <2>4, <2>5, <2>6, <2>7 DEF Callback
<1>2. CASE Coordinator \/ Close \/ Ended \/ UNCHANGED vars
  <2>1. UNCHANGED <<op, step, names, job, retire>>
    BY <1>2 DEF Coordinator, Awake, Stop, Collect, NextJob, NotifyAttr, NotifyEntry, Settle, Close,
           Ended, vars, callbacks
  <2> QED
    BY <2>1 DEF RequestShape, RequestAt
<1> QED
  BY <1>1, <1>2 DEF Next

-----------------------------------------------------------------------------
(* The coordinator *)

\* Steps that change neither jobs nor copies.
LEMMA CoreAside ==
    ASSUME Core, UNCHANGED <<jobs, targets, dirty, retired, err, batch, cur, left, op, step, names,
                             job, retire, reply, open, cached>>
    PROVE  Core'
<1>1. Referred' /\ RetiredLast'
  BY DEF Core, Referred, RetiredLast
<1>2. Retirer' /\ OnOpenHandle' /\ Covered'
  BY DEF Core, Retirer, OnOpenHandle, Covered, Closing
<1>3. \A k \in jobs' : Used(k)'
  BY DEF Core, Used
<1>4. ~err' => AllGoing'
  BY DEF Core, AllGoing, Stale, Going
<1> QED
  BY <1>1, <1>2, <1>3, <1>4 DEF Core

\* Steps of the coordinator on its batch: a job stays dirty, in the batch, or
\* current, and then with the same targets ahead.
LEMMA BatchStep ==
    ASSUME TypeOK, Core, UNCHANGED <<jobs, targets, retired, err, callbacks, cached>>,
           batch' \subseteq jobs, cur' \in jobs \cup {None}, dirty' \subseteq jobs,
           \A j \in jobs : j \in dirty \cup batch => j \in dirty' \cup batch' \/ (j = cur' /\ left' = targets[j]),
           cur # None => cur' = cur /\ left' = left
    PROVE  Core'
<1> USE DEF callbacks
<1>1. Referred'
  BY DEF Core, Referred
<1>2. Retirer' /\ OnOpenHandle' /\ Covered'
  BY DEF Core, Retirer, OnOpenHandle, Covered, Closing
<1>3. \A j \in jobs : j \in dirty \/ j \in batch \/ j = cur => j \in dirty' \/ j \in batch' \/ j = cur'
  BY NoneIsNoJob DEF TypeOK
<1>4. RetiredLast'
  BY <1>3 DEF Core, RetiredLast, Referred
<1>5. \A j \in jobs' : Used(j)'
  BY <1>3 DEF Core, Used
<1>6. ASSUME NEW j \in Jobs, NEW t \in Targets, Going(j, t)
      PROVE  Going(j, t)'
  BY <1>6, NoneIsNoJob DEF Going
<1>7. ~err' => AllGoing'
  BY <1>6 DEF Core, AllGoing, Stale
<1> QED
  BY <1>1, <1>2, <1>4, <1>5, <1>7 DEF Core

LEMMA CollectCore ==
    ASSUME TypeOK, BatchShape, Core, Collect
    PROVE  Core'
<1>1. /\ UNCHANGED <<jobs, targets, retired, err, callbacks, cached, cur>>
      /\ batch = {} /\ cur = None /\ batch' = dirty /\ dirty' = {}
  BY DEF Collect, BatchShape, Core, Referred, Clean
<1> QED
  BY <1>1, BatchStep DEF Core, Referred

LEMMA NextJobCore ==
    ASSUME TypeOK, BatchShape, Core, NextJob
    PROVE  Core'
<1>1. UNCHANGED <<jobs, targets, dirty, retired, err, callbacks, cached>> /\ cur = None
  BY DEF NextJob, BatchShape, table
<1>2. CASE batch = {}
  BY <1>1, <1>2, BatchStep DEF NextJob, Core, Referred
<1>3. CASE batch # {}
  <2>1. PICK j \in batch : cur' = j /\ batch' = batch \ {j} /\ left' = targets[j]
    BY <1>3 DEF NextJob
  <2>2. batch \subseteq jobs /\ dirty \subseteq jobs
    BY DEF Core, Referred
  <2>3. /\ batch' \subseteq jobs /\ cur' \in jobs \cup {None} /\ dirty' \subseteq jobs
        /\ \A k \in jobs : k \in dirty \cup batch => k \in dirty' \cup batch' \/ (k = cur' /\ left' = targets[k])
    BY <1>1, <2>1, <2>2
  <2> QED
    BY <1>1, <2>3, BatchStep
<1> QED
  BY <1>2, <1>3

\* A notification that succeeds leaves no copy, one that fails an error.
LEMMA NotifyCore ==
    ASSUME TypeOK, Core, ~closed, NEW t \in Targets, NotifyAttr(t) \/ NotifyEntry(t)
    PROVE  Core'
<1>1. /\ UNCHANGED <<jobs, targets, dirty, retired, batch, cur, op, step, names, job, retire, open>>
      /\ left' = left \ {t}
  BY DEF NotifyAttr, NotifyEntry
<1>2. \/ err'
      \/ err' = err /\ Forget(t)
  <2>1. err \in BOOLEAN /\ closed \in BOOLEAN
    BY DEF TypeOK
  <2>2. (Failing(FALSE) => err' = err) /\ (Failing(TRUE) => err')
    BY <2>1 DEF Failing
  <2> QED
    BY <2>2 DEF NotifyAttr, NotifyEntry
<1>3. Referred' /\ RetiredLast'
  BY <1>1 DEF Core, Referred, RetiredLast
<1>4. Retirer' /\ OnOpenHandle' /\ Covered'
  BY <1>1 DEF Core, Retirer, OnOpenHandle, Covered, Closing
<1>5. \A j \in jobs' : Used(j)'
  BY <1>1 DEF Core, Used
<1>6. ASSUME ~err'
      PROVE  AllGoing'
  <2>1. ~err /\ Forget(t)
    BY <1>2, <1>6
  <2>2. \A u \in Targets : Stale(u)' => u # t /\ Stale(u)
    BY <2>1 DEF Stale, Forget, TypeOK
  <2>3. \A j \in Jobs, u \in Targets : u # t /\ Going(j, u) => Going(j, u)'
    BY <1>1 DEF Going
  <2> QED
    BY <2>1, <2>2, <2>3 DEF Core, AllGoing
<1> QED
  BY <1>3, <1>4, <1>5, <1>6 DEF Core

\* A job that is over is nobody's, and nothing is going to be notified for it.
LEMMA SettleCore ==
    ASSUME TypeOK, BatchShape, RequestShape, Core, Settle
    PROVE  Core'
<1>1. /\ UNCHANGED <<err, batch, left, op, step, names, job, retire, reply, open, cached>>
      /\ left = {} /\ cur' = None /\ cur \notin batch
  BY DEF Settle, BatchShape, callbacks
<1>2. CASE ~Finished(cur)
  <2>1. UNCHANGED <<jobs, retired, dirty, targets>>
    BY <1>2 DEF Settle
  <2>2. Referred'
    BY <1>1, <2>1 DEF Core, Referred
  <2>3. RetiredLast'
    BY <1>1, <1>2, <2>1 DEF Core, RetiredLast, Finished
  <2>4. Retirer' /\ OnOpenHandle' /\ Covered'
    BY <1>1, <2>1 DEF Core, Retirer, OnOpenHandle, Covered, Closing
  <2>5. \A j \in jobs' : Used(j)'
    BY <1>1, <1>2, <2>1 DEF Core, Used, Finished
  <2>6. \A j \in Jobs, t \in Targets : Going(j, t) => Going(j, t)'
    BY <1>1, <2>1 DEF Going
  <2>7. ~err' => AllGoing'
    BY <1>1, <2>6 DEF Core, AllGoing, Stale
  <2> QED
    BY <2>2, <2>3, <2>4, <2>5, <2>7 DEF Core
<1>3. CASE Finished(cur)
  <2>1. /\ jobs' = jobs \ {cur} /\ retired' = retired \ {cur} /\ dirty' = dirty \ {cur}
        /\ targets' = [targets EXCEPT ![cur] = {}]
    BY <1>3 DEF Settle
  <2>2. /\ cur \in retired /\ cur \notin dirty
        /\ \A r \in Requests : job[r] # cur
        /\ \A h \in open : h[1] # cur
    BY <1>3 DEF Finished, Core, RetiredLast
  <2>3. \A j \in Jobs : j # cur => targets'[j] = targets[j]
    BY <2>1 DEF TypeOK
  <2>4. Referred'
    <3>1. \A h \in open : h[1] \in Jobs
      BY DEF TypeOK
    <3> QED
      BY <1>1, <2>1, <2>2, <2>3, <3>1 DEF Core, Referred
  <2>5. RetiredLast'
    BY <1>1, <2>1 DEF Core, RetiredLast
  <2>6. Retirer' /\ OnOpenHandle'
    BY <1>1 DEF Core, Retirer, OnOpenHandle, Closing
  <2>7. Covered'
    <3>1. \A r \in Requests : targets'[job[r]] = targets[job[r]] \/ job[r] = None
      BY <2>2, <2>3 DEF TypeOK
    <3>2. \A r \in Requests : step[r] = "backend" /\ op[r] \in ReserveKinds => job[r] # None
      BY DEF RequestShape, RequestAt
    <3> QED
      BY <1>1, <3>1, <3>2 DEF Core, Covered
  <2>8. \A j \in jobs' : Used(j)'
    BY <1>1, <2>1 DEF Core, Used
  <2>9. \A j \in Jobs, t \in Targets : Going(j, t) => Going(j, t)'
    <3>1. \A t \in Targets : ~Going(cur, t)
      BY <1>1, <2>2 DEF Going
    <3> QED
      BY <1>1, <2>1, <2>3, <3>1 DEF Going
  <2>10. ~err' => AllGoing'
    BY <1>1, <2>9 DEF Core, AllGoing, Stale
  <2> QED
    BY <2>4, <2>5, <2>6, <2>7, <2>8, <2>10 DEF Core
<1> QED
  BY <1>2, <1>3

-----------------------------------------------------------------------------
(* Requests *)

\* The requests other than r are where they were.
Others(r) == \A q \in Requests : q # r =>
    /\ op'[q] = op[q] /\ step'[q] = step[q] /\ names'[q] = names[q]
    /\ job'[q] = job[q] /\ retire'[q] = retire[q]

\* A new request is for a handle that stays open until it is over.
LEMMA SendCore ==
    ASSUME TypeOK, RequestShape, RequestShape', Core,
           NEW r \in Requests, NEW kind \in Kinds, NEW N \in SUBSET Names,
           NEW j \in Jobs \cup {None}, Send(r, kind, N, j)
    PROVE  Core'
<1>1. /\ UNCHANGED <<jobs, targets, dirty, retired, err, batch, cur, left, reply, open, cached>>
      /\ Others(r)
      /\ op'[r] = kind /\ names'[r] = N /\ job'[r] = j /\ step'[r] = "enter"
      /\ retire'[r] = (kind \notin {"write", "truncate"})
  BY DEF Send, Goto, TypeOK, table, coordinator, Others
<1>2. job[r] = None /\ step[r] = "idle"
  BY DEF Send, RequestShape, RequestAt
<1>3. ASSUME j # None
      PROVE  /\ kind \in HandleKinds /\ {j} \X N \subseteq open
             /\ \A q \in Requests : job[q] = j => op[q] # "release"
             /\ kind = "release" => \A q \in Requests : job[q] # j
             /\ j \in jobs /\ j \notin retired
             /\ \E h \in open : h[1] = j
  <2>1. /\ kind \in HandleKinds /\ {j} \X N \subseteq open
        /\ \A q \in Requests : job[q] = j => op[q] # "release"
        /\ kind = "release" => \A q \in Requests : job[q] # j
    BY <1>3 DEF Send
  <2>2. PICK n : n \in N
    BY DEF Send
  <2>3. <<j, n>> \in open
    BY <2>1, <2>2
  <2> QED
    BY <2>1, <2>3 DEF Core, Referred, RetiredLast
<1>4. Referred'
  BY <1>1, <1>3 DEF Core, Referred, Others
<1>5. RetiredLast'
  <2>1. ASSUME NEW q \in Requests, NEW k \in retired
        PROVE  job'[q] # k
    <3>1. k \in Jobs
      BY DEF TypeOK
    <3> QED
      BY <1>1, <1>3, <3>1, NoneIsNoJob DEF Core, RetiredLast, Others
  <2> QED
    BY <1>1, <2>1 DEF Core, RetiredLast
<1>6. Retirer'
  <2> SUFFICES ASSUME NEW q \in Requests, retire'[q], job'[q] # None
               PROVE  /\ \A p \in Requests : job'[p] = job'[q] => p = q
                      /\ \A h \in open : h[1] = job'[q] => Closing(q)'
    BY <1>1 DEF Retirer
  <2>1. CASE q = r
    <3>1. j # None /\ kind = "release"
      BY <1>1, <1>3, <2>1 DEF HandleKinds
    <3>2. Closing(r)'
      BY <1>1, <3>1 DEF Closing
    <3> QED
      BY <1>1, <1>3, <2>1, <3>1, <3>2 DEF Others
  <2>2. CASE q # r
    <3>1. /\ retire[q] /\ job[q] = job'[q] /\ job[q] # None
          /\ Closing(q)' = Closing(q)
      BY <1>1, <2>2 DEF Others, Closing
    <3>2. /\ \A p \in Requests : job[p] = job[q] => p = q
          /\ \A h \in open : h[1] = job[q] => Closing(q)
      BY <3>1 DEF Core, Retirer
    <3>3. job'[r] # job[q]
      BY <1>1, <1>3, <3>1, <3>2 DEF Closing
    <3> QED
      BY <1>1, <2>2, <3>1, <3>2, <3>3 DEF Others
  <2> QED
    BY <2>1, <2>2
<1>7. OnOpenHandle'
  <2>1. ASSUME NEW q \in Requests, q # r
        PROVE  Closing(q)' = Closing(q)
    BY <1>1, <2>1 DEF Others, Closing
  <2> QED
    BY <1>1, <1>3, <2>1 DEF Core, OnOpenHandle, Others
<1>8. Covered'
  BY <1>1 DEF Core, Covered, Others
<1>9. \A k \in jobs' : Used(k)'
  <2>1. \A k \in jobs : k # None
    BY NoneIsNoJob DEF TypeOK
  <2> QED
    BY <1>1, <1>2, <2>1 DEF Core, Used, Others
<1>10. \A k \in Jobs, t \in Targets : Going(k, t) => Going(k, t)'
  BY <1>1, <1>2 DEF Going, Others
<1>11. ~err' => AllGoing'
  BY <1>1, <1>10 DEF Core, AllGoing, Stale
<1> QED
  BY <1>4, <1>5, <1>6, <1>7, <1>8, <1>9, <1>11 DEF Core

\* A step of a request that has neither job nor change: a read, or an answer.
LEMMA JoblessCore ==
    ASSUME TypeOK, RequestShape, RequestShape', Core, NEW r \in Requests,
           job[r] = None, job'[r] = None, step'[r] # "backend", Others(r),
           UNCHANGED <<table, coordinator, open>>,
           \A t \in Targets : Stale(t)' => Stale(t)
    PROVE  Core'
<1>1. UNCHANGED <<jobs, targets, dirty, retired, err, batch, cur, left, open>>
  BY DEF table, coordinator
<1>2. \A q \in Requests : job'[q] = job[q]
  BY DEF Others
<1>3. Referred' /\ RetiredLast'
  BY <1>1, <1>2 DEF Core, Referred, RetiredLast
<1>4. Retirer'
  BY <1>1 DEF Core, Retirer, Others, Closing
<1>5. OnOpenHandle' /\ Covered'
  BY <1>1 DEF Core, OnOpenHandle, Covered, Others, Closing
<1>6. \A k \in jobs' : Used(k)'
  BY <1>1, <1>2 DEF Core, Used
<1>7. \A k \in Jobs, t \in Targets : Going(k, t) => Going(k, t)'
  BY <1>1, NoneIsNoJob DEF Going, Others
<1>8. ~err' => AllGoing'
  BY <1>1, <1>7 DEF Core, AllGoing
<1> QED
  BY <1>3, <1>4, <1>5, <1>6, <1>8 DEF Core

LEMMA ReadAnswerCore ==
    ASSUME TypeOK, RequestShape, RequestShape', Core, NEW r \in Requests, Read(r) \/ Answer(r)
    PROVE  Core'
<1>1. job[r] = None /\ job' = job
  BY DEF Read, Answer, RequestShape, RequestAt
<1>2. step'[r] # "backend" /\ Others(r)
  BY DEF Read, Answer, Goto, TypeOK, Others
<1>3. ASSUME NEW t \in Targets, Stale(t)'
      PROVE  Stale(t)
  <2>1. CASE Read(r)
    BY <1>3, <2>1 DEF Stale, Read, Carrying, TypeOK
  <2>2. CASE Answer(r)
    BY <1>3, <2>2 DEF Stale, Answer, TypeOK, NoCopies
  <2> QED
    BY <2>1, <2>2
<1>4. UNCHANGED <<table, coordinator, open>>
  BY DEF Read, Answer
<1> QED
  BY <1>1, <1>2, <1>3, <1>4, JoblessCore

\* A request that needs no job of its own, or is refused one.
LEMMA EnterOldCore ==
    ASSUME TypeOK, RequestShape, RequestShape', Core, ~closed, NEW r \in Requests, Enter(r),
           UNCHANGED <<jobs, targets, job>>
    PROVE  Core'
<1>1. /\ UNCHANGED <<jobs, targets, dirty, retired, err, batch, cur, left, op, names, retire, reply,
                     open, cached, job>>
      /\ Others(r) /\ step[r] = "enter"
  BY DEF Enter, Goto, TypeOK, Others, coordinator
<1>2. op[r] \in ReserveKinds => step'[r] = "leave"
  <2>1. CASE op[r] \in ReserveKinds /\ ~(closed \/ err \/ Full)
    <3> DEFINE j == CHOOSE k \in Jobs : k \notin jobs
    <3>1. j \notin jobs /\ jobs' = jobs \cup {j}
      BY <2>1, RoomInTable DEF Enter, TypeOK
    <3> QED
      BY <3>1
  <2> QED
    BY <2>1 DEF Enter, Goto, TypeOK
<1>3. op[r] = "release" => step'[r] = "backend"
  BY DEF Enter, Goto, TypeOK, ReserveKinds, NameKinds
<1>4. Referred' /\ RetiredLast'
  BY <1>1 DEF Core, Referred, RetiredLast
<1>5. \A q \in Requests : Closing(q)' = Closing(q)
  BY <1>1, <1>3 DEF Others, Closing
<1>6. Retirer' /\ OnOpenHandle'
  BY <1>1, <1>5 DEF Core, Retirer, OnOpenHandle
<1>7. Covered'
  BY <1>1, <1>2 DEF Core, Covered, Others
<1>8. \A k \in jobs' : Used(k)'
  BY <1>1 DEF Core, Used
<1>9. \A k \in Jobs, t \in Targets : Going(k, t) => Going(k, t)'
  BY <1>1 DEF Going, Others
<1>10. ~err' => AllGoing'
  BY <1>1, <1>9 DEF Core, AllGoing, Stale
<1> QED
  BY <1>4, <1>6, <1>7, <1>8, <1>10 DEF Core

\* A request that reserves.
LEMMA EnterNewCore ==
    ASSUME TypeOK, RequestShape, RequestShape', Core, NEW r \in Requests, Enter(r),
           ~UNCHANGED <<jobs, targets, job>>
    PROVE  Core'
<1>0. PICK j : j = CHOOSE k \in Jobs : k \notin jobs
  OBVIOUS
<1>1. /\ jobs' = jobs \cup {j} /\ targets' = [targets EXCEPT ![j] = Reserved(r)]
      /\ job' = [job EXCEPT ![r] = j] /\ ~Full
      /\ op[r] \in ReserveKinds /\ step[r] = "enter" /\ step' = [step EXCEPT ![r] = "backend"]
      /\ UNCHANGED <<dirty, retired, err, batch, cur, left, op, names, retire, reply, open, cached>>
  BY <1>0 DEF Enter, Goto, coordinator
<1>2. j \in Jobs /\ j \notin jobs /\ j # None
  BY <1>0, <1>1, RoomInTable, NoneIsNoJob DEF TypeOK
<1>3. /\ \A k \in Jobs : k # j => targets'[k] = targets[k]
      /\ targets'[j] = Reserved(r)
      /\ Others(r) /\ job'[r] = j /\ step'[r] = "backend"
  BY <1>1, <1>2 DEF TypeOK, Others
<1>4. /\ \A q \in Requests : job[q] # j
      /\ \A h \in open : h[1] # j /\ h[1] \in Jobs
      /\ j \notin retired
  BY <1>2 DEF TypeOK, Core, Referred
<1>5. op[r] \notin {"write", "truncate", "release"} /\ retire[r] /\ ~Closing(r)
  BY <1>1 DEF ReserveKinds, NameKinds, RequestShape, RequestAt, Closing
<1>6. Referred'
  BY <1>1, <1>3, <1>4 DEF Core, Referred, Others
<1>7. RetiredLast'
  BY <1>1, <1>3, <1>4 DEF Core, RetiredLast, Others
<1>8. \A q \in Requests : q # r => Closing(q)' = Closing(q)
  BY <1>3 DEF Others, Closing
<1>9. Retirer'
  BY <1>1, <1>3, <1>4, <1>8 DEF Core, Retirer, Others
<1>10. OnOpenHandle'
  BY <1>1, <1>3, <1>5, <1>8 DEF Core, OnOpenHandle, Others, Closing
<1>11. Covered'
  <2> SUFFICES ASSUME NEW q \in Requests, step'[q] = "backend", op[q] \in ReserveKinds
               PROVE  /\ op[q] \in NameKinds => Of("entry", names[q]) \subseteq targets'[job'[q]]
                      /\ op[q] \notin {"create", "mkdir"} =>
                            Of("file", names[q]) \subseteq targets'[job'[q]]
    BY <1>1 DEF Covered
  <2>1. CASE q = r
    BY <1>3, <2>1 DEF Reserved, Of
  <2>2. CASE q # r
    <3>1. step[q] = "backend" /\ job'[q] = job[q]
      BY <1>3, <2>2 DEF Others
    <3>2. job[q] \in Jobs /\ job[q] # j
      BY <1>4, <3>1 DEF TypeOK, RequestShape, RequestAt
    <3> QED
      BY <1>3, <3>1, <3>2 DEF Core, Covered
  <2> QED
    BY <2>1, <2>2
<1>12. \A k \in jobs' : Used(k)'
  <2>1. Used(j)'
    BY <1>3 DEF Used
  <2>2. ASSUME NEW k \in jobs
        PROVE  Used(k)'
    <3>1. Used(k) /\ k # j /\ k # None
      BY <1>2, NoneIsNoJob DEF Core, TypeOK
    <3>2. \A q \in Requests : job[q] = k => job'[q] = k
      BY <1>1, <1>3, <3>1 DEF Others, RequestShape, RequestAt
    <3> QED
      BY <1>1, <3>1, <3>2 DEF Used
  <2> QED
    BY <1>1, <2>1, <2>2
<1>13. \A k \in Jobs, t \in Targets : Going(k, t) => Going(k, t)'
  <2> SUFFICES ASSUME NEW k \in Jobs, NEW t \in Targets, Going(k, t)
               PROVE  Going(k, t)'
    OBVIOUS
  <2>1. k \in jobs' /\ t \in targets'[k]
    BY <1>1, <1>2, <1>3 DEF Going
  <2> QED
    BY <1>1, <1>3, <2>1 DEF Going, Others
<1>14. ~err' => AllGoing'
  BY <1>1, <1>13 DEF Core, AllGoing, Stale
<1> QED
  BY <1>6, <1>7, <1>9, <1>10, <1>11, <1>12, <1>14 DEF Core

\* The answer goes out, and what is no longer the request's is the coordinator's.
LEMMA LeaveCore ==
    ASSUME TypeOK, RequestShape, RequestShape', Core, ~closed, NEW r \in Requests, Leave(r)
    PROVE  Core'
<1> DEFINE j == job[r]
<1>1. /\ UNCHANGED <<jobs, targets, err, batch, cur, left, op, names, open, cached>>
      /\ Others(r) /\ job'[r] = None /\ step[r] = "leave" /\ step'[r] = "reply"
      /\ j = None => dirty' = dirty /\ retired' = retired
      /\ j # None => /\ dirty' = dirty \cup {j}
                     /\ retired' = IF retire[r] THEN retired \cup {j} ELSE retired
  BY DEF Leave, Goto, TypeOK, Others, coordinator, Retiring
<1>2. \A t \in Targets : Stale(t)' => Stale(t)
  BY DEF Leave, Stale, TypeOK
<1>3. j # None => j \in jobs
  BY DEF Core, Referred
<1>4. \A q \in Requests : job'[q] # None => q # r /\ job'[q] = job[q]
  BY <1>1 DEF Others
<1>5. /\ \A q \in Requests : q # r => Closing(q)' = Closing(q)
      /\ ~Closing(r)
  BY <1>1 DEF Others, Closing
<1>6. Referred'
  BY <1>1, <1>3, <1>4 DEF Core, Referred
<1>7. RetiredLast'
  <2> SUFFICES ASSUME NEW k \in retired'
               PROVE  /\ \A q \in Requests : job'[q] # k
                      /\ \A h \in open : h[1] # k
                      /\ k \in dirty' \/ k \in batch \/ k = cur
    BY <1>1 DEF RetiredLast
  <2>1. k # None
    BY <1>1, <1>3, NoneIsNoJob DEF TypeOK
  <2>2. CASE k \in retired
    BY <1>1, <1>4, <2>1, <2>2 DEF Core, RetiredLast
  <2>3. CASE k \notin retired
    <3>1. k = j /\ j # None /\ retire[r] /\ k \in dirty'
      BY <1>1, <2>3
    <3> QED
      BY <1>4, <1>5, <2>1, <3>1 DEF Core, Retirer
  <2> QED
    BY <2>2, <2>3
<1>8. Retirer'
  BY <1>1, <1>4, <1>5 DEF Core, Retirer, Others
<1>9. OnOpenHandle'
  BY <1>1, <1>4, <1>5 DEF Core, OnOpenHandle, Others
<1>10. Covered'
  BY <1>1 DEF Core, Covered, Others
<1>11. \A k \in jobs' : Used(k)'
  <2> SUFFICES ASSUME NEW k \in jobs
               PROVE  Used(k)'
    BY <1>1
  <2>1. Used(k)
    BY DEF Core
  <2>2. CASE k # j
    <3>1. \A q \in Requests : job[q] = k => job'[q] = k
      BY <1>1, <2>2 DEF Others
    <3> QED
      BY <1>1, <2>1, <2>2, <3>1 DEF Used
  <2>3. CASE k = j
    <3>1. j # None
      BY <2>3, NoneIsNoJob DEF TypeOK
    <3>2. CASE retire[r]
      BY <1>1, <2>3, <3>1, <3>2 DEF Used
    <3>3. CASE ~retire[r]
      <4>1. {j} \X names[r] \subseteq open
        BY <3>1, <3>3 DEF Core, OnOpenHandle
      <4>2. PICK n : n \in names[r]
        BY <1>1 DEF RequestShape, RequestAt
      <4>3. <<j, n>> \in open
        BY <4>1, <4>2
      <4> QED
        BY <1>1, <2>3, <4>3 DEF Used
    <3> QED
      BY <3>2, <3>3
  <2> QED
    BY <2>2, <2>3
<1>12. \A k \in Jobs, t \in Targets : Going(k, t) => Going(k, t)'
  BY <1>1, NoneIsNoJob DEF Going, Others
<1>13. ~err' => AllGoing'
  BY <1>1, <1>2, <1>12 DEF Core, AllGoing
<1> QED
  BY <1>6, <1>7, <1>8, <1>9, <1>10, <1>11, <1>13 DEF Core

\* What a request may change when it has its turn is covered by its job.
LEMMA ChangeCovered ==
    ASSUME TypeOK, RequestShape, Core, NEW r \in Requests, step[r] = "backend",
           op[r] \notin ReadKinds
    PROVE  /\ job[r] # None /\ job[r] \in jobs /\ job[r] \in Jobs
           /\ op[r] \in ReserveKinds \cup HandleKinds
           /\ op[r] \notin {"create", "mkdir"} => Changing(r) \subseteq targets[job[r]]
           /\ op[r] \in {"create", "mkdir"} =>
                Changing(r) \subseteq targets[job[r]] \cup Of("file", names[r])
<1>1. op[r] \in ReserveKinds \cup HandleKinds
  BY InvalidatorAssumption DEF TypeOK, RequestShape, RequestAt
<1>2. job[r] # None /\ job[r] \in jobs /\ job[r] \in Jobs
  BY <1>1 DEF RequestShape, RequestAt, Core, Referred, TypeOK
<1>3. CASE op[r] \in ReserveKinds
  BY <1>1, <1>2, <1>3 DEF Core, Covered, Changing, NameKinds
<1>4. CASE op[r] \in HandleKinds
  <2>1. ~retire[r] \/ Closing(r)
    BY <1>4 DEF RequestShape, RequestAt, HandleKinds, Closing
  <2>2. {job[r]} \X names[r] \subseteq open
    BY <1>2, <2>1 DEF Core, OnOpenHandle
  <2>3. ASSUME NEW n \in names[r]
        PROVE  <<"file", n>> \in targets[job[r]]
    <3>1. <<job[r], n>> \in open
      BY <2>2
    <3> QED
      BY <3>1 DEF Core, Referred
  <2>4. Of("file", names[r]) \subseteq targets[job[r]]
    BY <2>3 DEF Of
  <2> QED
    BY <1>1, <1>2, <1>4, <2>4 DEF Changing, HandleKinds, NameKinds
<1> QED
  BY <1>1, <1>2, <1>3, <1>4

\* Copies that have aged were old before, or are among what has changed.
LEMMA AgedStale ==
    ASSUME TypeOK, NEW r \in Requests, NEW T \in SUBSET Targets, cached' = Aged(cached, T),
           \A q \in Requests : \/ reply'[q] = Aged(reply[q], T)
                               \/ \A t \in Targets : reply'[q][t] = "stale" => reply[q][t] = "stale",
           NEW t \in Targets, Stale(t)'
    PROVE  t \in T \/ Stale(t)
<1>1. \A c : Aged(c, T)[t] = "stale" => t \in T \/ c[t] = "stale"
  BY DEF Aged
<1> QED
  BY <1>1 DEF Stale

\* The backend fails: only what the job covers has changed.
LEMMA MutateFailsCore ==
    ASSUME TypeOK, RequestShape, RequestShape', Core, ~closed, NEW r \in Requests, MutateFails(r)
    PROVE  Core'
<1> DEFINE T == Changing(r) \cap targets[job[r]]
<1>1. /\ UNCHANGED <<jobs, targets, dirty, retired, err, batch, cur, left, op, names, job, retire, open>>
      /\ Others(r) /\ step[r] = "backend" /\ step'[r] = "leave" /\ op[r] \notin ReadKinds \cup {"release"}
  BY DEF MutateFails, Goto, TypeOK, Others, table, coordinator
<1>2. PICK j \in Jobs : j = job[r] /\ j \in jobs
  BY <1>1, ChangeCovered
<1>3. ASSUME NEW t \in Targets, Stale(t)'
      PROVE  Stale(t) \/ t \in targets[j]
  <2>1. T \subseteq targets[j] /\ T \in SUBSET Targets
    BY <1>2 DEF TypeOK
  <2>2. CASE UNCHANGED <<reply, cached>>
    BY <1>3, <2>2 DEF Stale
  <2>3. CASE ~UNCHANGED <<reply, cached>>
    <3>1. cached' = Aged(cached, T) /\ \A q \in Requests : reply'[q] = Aged(reply[q], T)
      BY <2>3 DEF MutateFails
    <3> HIDE DEF T
    <3> QED
      BY <1>3, <2>1, <3>1, AgedStale
  <2> QED
    BY <2>2, <2>3
<1>4. \A q \in Requests : Closing(q)' = Closing(q)
  BY <1>1 DEF Others, Closing
<1>5. Referred' /\ RetiredLast'
  BY <1>1 DEF Core, Referred, RetiredLast
<1>6. Retirer' /\ OnOpenHandle'
  BY <1>1, <1>4 DEF Core, Retirer, OnOpenHandle
<1>7. Covered'
  BY <1>1 DEF Core, Covered, Others
<1>8. \A k \in jobs' : Used(k)'
  BY <1>1 DEF Core, Used
<1>9. \A k \in Jobs, t \in Targets : Going(k, t) => Going(k, t)'
  BY <1>1 DEF Going, Others
<1>10. \A t \in targets[j] : Going(j, t)'
  BY <1>1, <1>2 DEF Going
<1>11. ~err' => AllGoing'
  BY <1>1, <1>2, <1>3, <1>9, <1>10 DEF Core, AllGoing
<1> QED
  BY <1>5, <1>6, <1>7, <1>8, <1>11 DEF Core

\* The backend succeeds.
LEMMA MutateCore ==
    ASSUME TypeOK, RequestShape, RequestShape', Core, ~closed, NEW r \in Requests, Mutate(r)
    PROVE  Core'
<1>1. /\ UNCHANGED <<jobs, dirty, retired, err, batch, cur, left, op, names, job>>
      /\ \A q \in Requests : q # r => step'[q] = step[q] /\ retire'[q] = retire[q]
      /\ step[r] = "backend" /\ step'[r] = "leave" /\ op[r] \notin ReadKinds
      /\ targets' = WithChild(r)
  BY DEF Mutate, Goto, TypeOK, coordinator
<1>2. PICK j \in Jobs : j = job[r] /\ j \in jobs /\ j # None
  BY <1>1, ChangeCovered
<1>3. /\ \A k \in Jobs : targets[k] \subseteq targets'[k]
      /\ op[r] \in {"create", "mkdir"} => Of("file", names[r]) \subseteq targets'[j]
  BY <1>1, <1>2 DEF WithChild, TypeOK
<1>4. Changing(r) \subseteq targets'[j] /\ Changing(r) \in SUBSET Targets
  <2>1. Changing(r) \subseteq targets'[j]
    BY <1>1, <1>2, <1>3, ChangeCovered
  <2> QED
    BY <2>1 DEF Changing, Of, TypeOK, Targets, Attrs, Entries
<1>5. ASSUME op[r] \in {"open", "create"}
      PROVE  Referred' /\ RetiredLast' /\ Retirer' /\ OnOpenHandle' /\ \A k \in jobs' : Used(k)'
  <2>1. open' = open \cup ({j} \X names[r]) /\ retire'[r] = FALSE
    BY <1>2, <1>5 DEF Mutate, TypeOK
  <2>2. retire[r] /\ ~Closing(r)
    BY <1>1, <1>5 DEF RequestShape, RequestAt, Closing
  <2>3. PICK n \in Names : names[r] = {n}
    BY <1>5 DEF RequestShape, RequestAt
  <2>4. open' = open \cup {<<j, n>>}
    BY <2>1, <2>3
  <2>5. \A h \in open : h[1] # j
    BY <1>2, <2>2 DEF Core, Retirer
  <2>6. <<"file", n>> \in targets'[j]
    BY <1>4, <2>3 DEF Changing, Of
  <2>7. Referred'
    <3>1. \A h \in open : h[1] \in Jobs
      BY DEF TypeOK
    <3> QED
      BY <1>1, <1>2, <1>3, <2>4, <2>5, <2>6, <3>1 DEF Core, Referred
  <2>8. RetiredLast'
    BY <1>1, <1>2, <2>4 DEF Core, RetiredLast
  <2>9. \A q \in Requests : q # r => Closing(q)' = Closing(q)
    BY <1>1 DEF Closing
  <2>10. Retirer'
    BY <1>1, <1>2, <2>1, <2>4, <2>9 DEF Core, Retirer
  <2>11. OnOpenHandle'
    BY <1>1, <1>2, <2>1, <2>9 DEF Core, OnOpenHandle
  <2>12. \A k \in jobs' : Used(k)'
    BY <1>1, <2>4 DEF Core, Used
  <2> QED
    BY <2>7, <2>8, <2>10, <2>11, <2>12
<1>6. ASSUME op[r] \notin {"open", "create"}
      PROVE  Referred' /\ RetiredLast' /\ Retirer' /\ OnOpenHandle' /\ \A k \in jobs' : Used(k)'
  <2>1. retire' = retire /\ open' = IF op[r] = "release" THEN open \ ({j} \X names[r]) ELSE open
    BY <1>2, <1>6 DEF Mutate
  <2>2. \A q \in Requests : q # r => Closing(q)' = Closing(q)
    BY <1>1 DEF Closing
  <2>3. \A h \in open' : h \in open /\ h[1] \in Jobs
    BY <2>1 DEF TypeOK
  <2>4. Referred'
    BY <1>1, <1>3, <2>3 DEF Core, Referred
  <2>5. RetiredLast'
    BY <1>1, <2>3 DEF Core, RetiredLast
  <2>6. ASSUME retire[r], NEW h \in open', h[1] = j
        PROVE  FALSE
    <3>1. Closing(r)
      BY <1>2, <2>3, <2>6 DEF Core, Retirer
    <3>2. {j} \X names[r] \subseteq open /\ op[r] = "release"
      BY <1>2, <3>1 DEF Core, OnOpenHandle, Closing
    <3>3. PICK n : n \in names[r]
      BY <3>2 DEF RequestShape, RequestAt
    <3>4. h = <<j, n>>
      BY <2>3, <2>6, <3>2, <3>3 DEF Core, Referred
    <3> QED
      BY <2>1, <2>6, <3>2, <3>3, <3>4
  <2>7. Retirer'
    BY <1>1, <1>2, <2>1, <2>2, <2>3, <2>6 DEF Core, Retirer
  <2>8. OnOpenHandle'
    <3> SUFFICES ASSUME NEW q \in Requests, job[q] # None, ~retire[q] \/ Closing(q)'
                 PROVE  {job[q]} \X names[q] \subseteq open'
      BY <1>1, <2>1 DEF OnOpenHandle
    <3>1. {job[q]} \X names[q] \subseteq open
      BY <1>1, <2>2 DEF Core, OnOpenHandle, Closing
    <3>2. CASE op[r] = "release"
      <4>1. retire[r]
        BY <1>1, <3>2 DEF RequestShape, RequestAt
      <4>2. q # r
        BY <1>1, <4>1 DEF Closing
      <4>3. job[q] # j
        BY <1>2, <4>1, <4>2 DEF Core, Retirer
      <4> QED
        BY <2>1, <3>1, <4>3
    <3>3. CASE op[r] # "release"
      BY <2>1, <3>1, <3>3
    <3> QED
      BY <3>2, <3>3
  <2>9. \A k \in jobs' : Used(k)'
    <3> SUFFICES ASSUME NEW k \in jobs
                 PROVE  Used(k)'
      BY <1>1
    <3>1. CASE k = j
      BY <1>1, <1>2, <3>1 DEF Used
    <3>2. CASE k # j
      <4>1. \A h \in open : h[1] = k => h \in open'
        BY <2>1, <3>2
      <4> QED
        BY <1>1, <4>1 DEF Core, Used
    <3> QED
      BY <3>1, <3>2
  <2> QED
    BY <2>4, <2>5, <2>7, <2>8, <2>9
<1>7. Covered'
  <2> SUFFICES ASSUME NEW q \in Requests, step'[q] = "backend", op[q] \in ReserveKinds
               PROVE  /\ op[q] \in NameKinds => Of("entry", names[q]) \subseteq targets'[job[q]]
                      /\ op[q] \notin {"create", "mkdir"} =>
                            Of("file", names[q]) \subseteq targets'[job[q]]
    BY <1>1 DEF Covered
  <2>1. step[q] = "backend" /\ job[q] # None
    BY <1>1 DEF RequestShape, RequestAt
  <2>2. targets[job[q]] \subseteq targets'[job[q]]
    BY <1>3, <2>1 DEF TypeOK
  <2> QED
    BY <2>1, <2>2 DEF Core, Covered
<1>8. \A k \in Jobs, t \in Targets : Going(k, t) => Going(k, t)'
  BY <1>1, <1>3 DEF Going
<1>9. \A t \in Changing(r) : Going(j, t)'
  BY <1>1, <1>2, <1>4 DEF Going
<1>10. \A t \in Targets : Stale(t)' => t \in Changing(r) \/ Stale(t)
  <2>1. /\ cached' = Aged(cached, Changing(r))
        /\ \A q \in Requests : reply'[q] = IF q = r THEN Carrying(reply[r], r)
                                           ELSE Aged(reply[q], Changing(r))
    BY DEF Mutate
  <2>2. \A t \in Targets : Carrying(reply[r], r)[t] = "stale" => reply[r][t] = "stale"
    BY DEF Carrying
  <2> QED
    BY <1>4, <2>1, <2>2, AgedStale
<1>11. ~err' => AllGoing'
  BY <1>1, <1>2, <1>8, <1>9, <1>10 DEF Core, AllGoing
<1> QED
  BY <1>5, <1>6, <1>7, <1>11 DEF Core

-----------------------------------------------------------------------------
(* Theorems *)

LEMMA InvInit == Init => IInv
<1> SUFFICES ASSUME Init
             PROVE  IInv
  OBVIOUS
<1>1. TypeOK
  <2>1. Cardinality(jobs) <= Limit
    BY FS_EmptySet, InvalidatorAssumption DEF Init
  <2>2. NoCopies \in [Targets -> Copy]
    BY DEF NoCopies, Copy
  <2> QED
    BY <2>1, <2>2 DEF Init, TypeOK
<1>2. BatchShape
  BY DEF Init, BatchShape
<1>3. RequestShape
  BY DEF Init, RequestShape, RequestAt, ReserveKinds, NameKinds, HandleKinds, ReadKinds
<1>4. Core
  <2>1. \A t \in Targets : ~Stale(t)
    BY DEF Init, Stale, NoCopies
  <2> QED
    BY <2>1 DEF Init, Core, Referred, RetiredLast, Retirer, OnOpenHandle, Covered, AllGoing
<1> QED
  BY <1>1, <1>2, <1>3, <1>4 DEF IInv

LEMMA InvNext == IInv /\ [Next]_vars => IInv'
<1> SUFFICES ASSUME IInv, [Next]_vars
             PROVE  IInv'
  OBVIOUS
<1>1. BatchShape' /\ RequestShape'
  BY BatchNext, RequestsNext DEF IInv
<1>2. TypeOK'
  <2>1. CASE UNCHANGED vars
    BY <2>1 DEF IInv, TypeOK, vars, table, coordinator, callbacks
  <2> QED
    BY <2>1, EnterType, RequestType, CoordinatorType DEF IInv, Next, Callback
<1>3. ASSUME ~closed'
      PROVE  Core'
  <2>1. ~closed /\ Core
    <3>1. ASSUME NEW r \in Requests,
                 \/ Callback(r)
                 \/ \E kind \in Kinds, N \in SUBSET Names, j \in Jobs \cup {None} : Send(r, kind, N, j)
          PROVE  closed' = closed
      BY <3>1 DEF Callback, Enter, Read, Mutate, MutateFails, Leave, Answer, Send, table
    <3>2. Coordinator => closed' = closed
      BY DEF Coordinator, Awake, Stop, Collect, NextJob, NotifyAttr, NotifyEntry, Settle, table
    <3>3. Close \/ Ended \/ UNCHANGED vars => closed' \/ closed' = closed
      BY DEF Close, Ended, vars, table
    <3>4. ~closed
      BY <1>3, <3>1, <3>2, <3>3 DEF Next
    <3> QED
      BY <3>4 DEF IInv
  <2>2. ASSUME NEW r \in Requests, Callback(r)
        PROVE  Core'
    BY <1>1, <2>1, <2>2, EnterOldCore, EnterNewCore, ReadAnswerCore, MutateCore, MutateFailsCore,
       LeaveCore DEF IInv, Callback
  <2>3. ASSUME NEW r \in Requests, NEW kind \in Kinds, NEW N \in SUBSET Names,
               NEW j \in Jobs \cup {None}, Send(r, kind, N, j)
        PROVE  Core'
    BY <1>1, <2>1, <2>3, SendCore DEF IInv
  <2>4. CASE Coordinator
    <3>1. CASE Awake
      BY <2>1, <3>1, CoreAside DEF Awake, callbacks
    <3>2. ~Stop
      BY <2>1 DEF Stop, Stopping
    <3> QED
      BY <1>1, <2>1, <2>4, <3>1, <3>2, CollectCore, NextJobCore, NotifyCore, SettleCore
         DEF IInv, Coordinator
  <2>5. CASE Ended \/ UNCHANGED vars
    BY <2>1, <2>5, CoreAside DEF Ended, vars, table, coordinator, callbacks
  <2>6. ~Close
    BY <1>3 DEF Close
  <2> QED
    BY <2>2, <2>3, <2>4, <2>5, <2>6 DEF Next
<1> QED
  BY <1>1, <1>2, <1>3 DEF IInv

LEMMA IInvAlways == Spec => []IInv
  BY InvInit, InvNext, PTL DEF Spec

\* The table, the requests and the coordinator keep their types, and the table
\* never grows over maxInvalidations.
THEOREM TypeCorrect == Spec => []TypeOK
<1>1. IInv => TypeOK
  BY DEF IInv
<1> QED
  BY <1>1, IInvAlways, PTL

\* Every change that succeeds, or fails half way, is told to the kernel while
\* the mount works: whatever the kernel holds, or is about to get from an older
\* request, is up to date or has its notification ahead of it.
THEOREM NoChangeForgotten == Spec => []StaleIsGoing
<1>1. IInv => StaleIsGoing
  BY DEF IInv, Core, AllGoing, Stale, StaleIsGoing
<1> QED
  BY <1>1, IInvAlways, PTL

\* No slot of the coordinator leaks: each is held by a request or an open writer
\* or is about to be given back.
THEOREM NoSlotLeaks == Spec => []SlotsReturn
<1>1. IInv => SlotsReturn
  BY DEF IInv, Core, Used, SlotsReturn
<1> QED
  BY <1>1, IInvAlways, PTL
-----------------------------------------------------------------------------
(* Overlay *)

\* What paths are made of.
Atoms == Components \cup {s[1] : s \in Scopes} \cup {s[2] : s \in Scopes}

\* The beginning of a path.
Upto(p, n) == SubSeq(p, 1, n)

\* A path that a container or an entry may have.
Place(p) ==
    /\ p \in Seq(Atoms) /\ Len(p) >= 1 /\ Len(p) <= MaxDepth + 2
    /\ \E s \in Scopes : p[1] = s[1] /\ (Len(p) >= 2 => p[2] = s[2])
    /\ \A i \in 3..Len(p) : p[i] \in Components

\* The beginning of a path is a path, and the beginnings are told apart by
\* their lengths.
LEMMA Beginnings ==
    ASSUME NEW p \in Seq(Atoms), NEW n \in Nat, n <= Len(p)
    PROVE  /\ Upto(p, n) \in Seq(Atoms) /\ Len(Upto(p, n)) = n
           /\ \A i \in 1..n : Upto(p, n)[i] = p[i]
<1>1. Len(p) \in Nat /\ \A i \in 1..n : p[i] \in Atoms
  BY LenProperties
<1> QED
  BY <1>1, SubSeqProperties DEF Upto

LEMMA BeginningsEqual ==
    ASSUME NEW p \in Seq(Atoms), NEW q \in Seq(Atoms), NEW n \in Nat,
           n <= Len(p), n <= Len(q), \A i \in 1..n : p[i] = q[i]
    PROVE  Upto(p, n) = Upto(q, n)
  BY Beginnings, SeqEqual

\* Within, place by place.
LEMMA Inside ==
    ASSUME NEW p \in Seq(Atoms), NEW q \in Seq(Atoms)
    PROVE  /\ Within(p, q) <=> Len(q) <= Len(p) /\ \A i \in 1..Len(q) : p[i] = q[i]
           /\ Within(p, q) <=> Len(q) <= Len(p) /\ Upto(p, Len(q)) = q
<1>1. Len(p) \in Nat /\ Len(q) \in Nat
  BY LenProperties
<1>2. Within(p, q) <=> Len(q) <= Len(p) /\ Upto(q, Len(q)) = Upto(p, Len(q))
  BY DEF Within, IsPrefix, Upto
<1>3. Upto(q, Len(q)) = q
  BY SubSeqFull DEF Upto
<1>4. ASSUME Len(q) <= Len(p)
      PROVE  (\A i \in 1..Len(q) : p[i] = q[i]) <=> Upto(p, Len(q)) = q
  <2>1. /\ Upto(p, Len(q)) \in Seq(Atoms) /\ Len(Upto(p, Len(q))) = Len(q)
        /\ \A i \in 1..Len(q) : Upto(p, Len(q))[i] = p[i]
    BY <1>1, <1>4, Beginnings
  <2> QED
    BY <1>1, <1>3, <1>4, <2>1, SeqEqual
<1> QED
  BY <1>2, <1>3, <1>4

\* What an entry's path looks like.
LEMMA LocationShape ==
    ASSUME NEW p
    PROVE  p \in Locations <=> Place(p) /\ Len(p) > 2
<1>0. MaxDepth \in Nat \ {0}
  BY OverlayAssumption
<1>1. ASSUME NEW s \in Scopes
      PROVE  s \in Seq(Atoms) /\ Len(s) = 2 /\ s[1] \in Atoms /\ s[2] \in Atoms
  <2>1. s = <<s[1], s[2]>> /\ s[1] \in Atoms /\ s[2] \in Atoms
    BY OverlayAssumption DEF Atoms
  <2>2. <<s[1], s[2]>> \in Seq(Atoms) /\ Len(<<s[1], s[2]>>) = 2
    BY <2>1
  <2> QED
    BY <2>1, <2>2
<1>2. ASSUME NEW s \in Scopes, NEW d \in 1..MaxDepth, NEW r \in [1..d -> Components]
      PROVE  Place(s \o r) /\ Len(s \o r) > 2
  <2>1. r \in Seq(Atoms) /\ Len(r) = d /\ d \in Nat
    <3>1. r \in [1..d -> Atoms] /\ d \in Nat
      BY <1>0 DEF Atoms
    <3>2. r \in Seq(Atoms)
      BY <3>1, SeqDef
    <3>3. DOMAIN r = 1..Len(r) /\ Len(r) \in Nat
      BY <3>2, LenProperties
    <3> QED
      BY <3>1, <3>2, <3>3
  <2>2. /\ s \o r \in Seq(Atoms) /\ Len(s \o r) = 2 + d
        /\ \A i \in 1..2 + d : (s \o r)[i] = IF i <= 2 THEN s[i] ELSE r[i - 2]
    <3>1. s \in Seq(Atoms) /\ Len(s) = 2
      BY <1>1
    <3>2. /\ s \o r \in Seq(Atoms) /\ Len(s \o r) = Len(s) + Len(r)
          /\ \A i \in 1..Len(s) + Len(r) :
               (s \o r)[i] = IF i <= Len(s) THEN s[i] ELSE r[i - Len(s)]
      BY <2>1, <3>1, ConcatProperties
    <3> QED
      BY <2>1, <3>1, <3>2
  <2>3. (s \o r)[1] = s[1] /\ (s \o r)[2] = s[2]
    BY <2>1, <2>2
  <2>4. \A i \in 3..2 + d : (s \o r)[i] \in Components
    BY <2>1, <2>2
  <2> QED
    BY <1>0, <2>1, <2>2, <2>3, <2>4 DEF Place
<1>3. ASSUME Place(p), Len(p) > 2
      PROVE  p \in Locations
  <2>1. PICK s \in Scopes : p[1] = s[1] /\ p[2] = s[2]
    BY <1>3 DEF Place
  <2>2. PICK d : d = Len(p) - 2
    OBVIOUS
  <2>3. p \in Seq(Atoms) /\ Len(p) \in Nat /\ d \in 1..MaxDepth /\ Len(p) = 2 + d
    BY <1>0, <1>3, <2>2, LenProperties DEF Place
  <2>4. PICK r : /\ r \in Seq(Components) /\ Len(r) = d
                 /\ \A i \in 1..d : r[i] = p[i + 2]
    <3>1. \A i \in 3..Len(p) : p[i] \in Components
      BY <1>3 DEF Place
    <3>2. PICK r : r = SubSeq(p, 3, Len(p))
      OBVIOUS
    <3>3. /\ r \in Seq(Components)
          /\ Len(r) = IF 3 <= Len(p) THEN Len(p) - 3 + 1 ELSE 0
          /\ \A i \in 1..Len(p) - 3 + 1 : r[i] = p[3 + i - 1]
      BY <2>3, <3>1, <3>2, SubSeqProperties
    <3>4. Len(r) = d /\ \A i \in 1..d : i \in 1..Len(p) - 3 + 1 /\ 3 + i - 1 = i + 2
      BY <2>3, <3>3
    <3> QED
      BY <3>3, <3>4
  <2>5. r \in [1..d -> Components]
    BY <2>4, LenProperties
  <2>6. r \in Seq(Atoms)
    <3>1. Components \subseteq Atoms
      BY DEF Atoms
    <3> QED
      BY <2>4, <3>1, SeqMonotonic
  <2>7. PICK t : t = s \o r
    OBVIOUS
  <2>8. /\ t \in Seq(Atoms) /\ Len(t) = 2 + d
        /\ \A i \in 1..2 + d : t[i] = IF i <= 2 THEN s[i] ELSE r[i - 2]
    <3>1. s \in Seq(Atoms) /\ Len(s) = 2
      BY <1>1
    <3>2. /\ s \o r \in Seq(Atoms) /\ Len(s \o r) = Len(s) + Len(r)
          /\ \A i \in 1..Len(s) + Len(r) :
               (s \o r)[i] = IF i <= Len(s) THEN s[i] ELSE r[i - Len(s)]
      BY <2>6, <3>1, ConcatProperties
    <3> QED
      BY <2>4, <2>7, <3>1, <3>2
  <2>9. ASSUME NEW i \in 1..Len(p)
        PROVE  p[i] = t[i]
    <3>0. i \in Int /\ i \in 1..2 + d /\ d \in Nat
      BY <2>3
    <3>1. CASE i <= 2
      <4>1. i = 1 \/ i = 2
        BY <3>0, <3>1
      <4> QED
        BY <2>1, <2>8, <3>0, <3>1, <4>1
    <3>2. CASE i > 2
      <4>1. i - 2 \in 1..d /\ (i - 2) + 2 = i
        BY <3>0, <3>2
      <4>2. t[i] = r[i - 2] /\ r[i - 2] = p[(i - 2) + 2]
        BY <2>4, <2>8, <3>0, <3>2, <4>1
      <4> QED
        BY <4>1, <4>2
    <3> QED
      BY <3>0, <3>1, <3>2
  <2>10. p = t
    BY <2>3, <2>8, <2>9, SeqEqual
  <2> QED
    <3>1. r \in UNION {[1..n -> Components] : n \in 1..MaxDepth}
      BY <2>3, <2>5
    <3>2. s \o r \in Locations
      BY <3>1 DEF Locations
    <3> QED
      BY <2>7, <2>10, <3>2
<1> QED
  <2>1. ASSUME p \in Locations
        PROVE  \E s \in Scopes : \E d \in 1..MaxDepth : \E r \in [1..d -> Components] : p = s \o r
    <3>1. PICK s \in Scopes, r \in UNION {[1..d -> Components] : d \in 1..MaxDepth} : p = s \o r
      BY <2>1 DEF Locations
    <3>2. PICK d \in 1..MaxDepth : r \in [1..d -> Components]
      OBVIOUS
    <3> QED
      BY <3>1, <3>2
  <2> QED
    BY <1>2, <1>3, <2>1

\* Beginnings of places are places.
LEMMA BeginningPlace ==
    ASSUME NEW p, Place(p), NEW n \in 1..Len(p)
    PROVE  Place(Upto(p, n)) /\ Len(Upto(p, n)) = n
<1>1. p \in Seq(Atoms) /\ Len(p) \in Nat /\ n \in Nat /\ MaxDepth \in Nat
  BY OverlayAssumption, LenProperties DEF Place
<1>2. /\ Upto(p, n) \in Seq(Atoms) /\ Len(Upto(p, n)) = n
      /\ \A i \in 1..n : Upto(p, n)[i] = p[i]
  BY <1>1, Beginnings
<1>3. PICK s \in Scopes : p[1] = s[1] /\ (Len(p) >= 2 => p[2] = s[2])
  BY DEF Place
<1>4. Upto(p, n)[1] = s[1] /\ (n >= 2 => Upto(p, n)[2] = s[2])
  BY <1>1, <1>2, <1>3
<1>5. \A i \in 3..n : Upto(p, n)[i] \in Components
  <2>1. \A i \in 3..n : i \in 3..Len(p) /\ i \in 1..n
    BY <1>1
  <2>2. \A i \in 3..Len(p) : p[i] \in Components
    BY DEF Place
  <2> QED
    BY <1>2, <2>1, <2>2
<1> QED
  BY <1>1, <1>2, <1>4, <1>5 DEF Place

LEMMA BeginningOfBeginning ==
    ASSUME NEW p \in Seq(Atoms), NEW n \in Nat, n <= Len(p), NEW m \in Nat, m <= n
    PROVE  Upto(Upto(p, n), m) = Upto(p, m)
<1>1. /\ Upto(p, n) \in Seq(Atoms) /\ Len(Upto(p, n)) = n
      /\ \A i \in 1..n : Upto(p, n)[i] = p[i]
  BY Beginnings
<1>2. Len(p) \in Nat
  BY LenProperties
<1> QED
  BY <1>1, <1>2, BeginningsEqual

-----------------------------------------------------------------------------
(* Sums and counts *)

LEMMA FirstNumbers ==
    ASSUME NEW n \in Nat
    PROVE  IsFiniteSet(1..n) /\ Cardinality(1..n) = n
<1>1. IsFiniteSet(1..n) /\ Cardinality(1..n) = IF 1 > n THEN 0 ELSE n - 1 + 1
  BY FS_Interval
<1> QED
  BY <1>1

\* What a sum counts.
Units(f, S) == UNION {{x} \X (1..f[x]) : x \in S}

LEMMA UnitsFinite ==
    ASSUME NEW f, NEW S, IsFiniteSet(S), \A x \in S : f[x] \in Nat
    PROVE  IsFiniteSet(Units(f, S)) /\ SumOver(f, S) \in Nat
<1> DEFINE g == [x \in S |-> {x} \X (1..f[x])]
           G == {{x} \X (1..f[x]) : x \in S}
<1>1. g \in Surjection(S, G)
  BY DEF Surjection
<1>2. IsFiniteSet(G)
  BY <1>1, FS_Surjection
<1>3. ASSUME NEW x \in S
      PROVE  IsFiniteSet({x} \X (1..f[x]))
  <2>1. IsFiniteSet({x}) /\ IsFiniteSet(1..f[x])
    BY FS_Singleton, FirstNumbers
  <2> QED
    BY <2>1, FS_Product
<1>4. IsFiniteSet(UNION G)
  BY <1>2, <1>3, FS_UNION
<1> QED
  BY <1>4, FS_CardinalityType DEF Units, SumOver

LEMMA SumNone ==
    ASSUME NEW f
    PROVE  SumOver(f, {}) = 0
  BY FS_EmptySet DEF SumOver

LEMMA SumSingle ==
    ASSUME NEW f, NEW x, f[x] \in Nat
    PROVE  SumOver(f, {x}) = f[x]
<1>1. Units(f, {x}) = {x} \X (1..f[x])
  BY DEF Units
<1>2. IsFiniteSet({x}) /\ Cardinality({x}) = 1
  BY FS_Singleton
<1>3. IsFiniteSet(1..f[x]) /\ Cardinality(1..f[x]) = f[x]
  BY FirstNumbers
<1>4. Cardinality({x} \X (1..f[x])) = Cardinality({x}) * Cardinality(1..f[x])
  BY <1>2, <1>3, FS_Product
<1>5. Cardinality({x} \X (1..f[x])) = f[x]
  BY <1>2, <1>3, <1>4
<1> QED
  BY <1>1, <1>5 DEF SumOver, Units

\* A sum over what is f on S and g on T, where nothing is in both.
LEMMA SumDisjoint ==
    ASSUME NEW f, NEW S, NEW T, IsFiniteSet(S), IsFiniteSet(T), S \cap T = {},
           \A x \in S \cup T : f[x] \in Nat
    PROVE  SumOver(f, S \cup T) = SumOver(f, S) + SumOver(f, T)
<1>1. Units(f, S \cup T) = Units(f, S) \cup Units(f, T)
  BY DEF Units
<1>2. Units(f, S) \cap Units(f, T) = {}
  BY DEF Units
<1>3. /\ IsFiniteSet(Units(f, S)) /\ IsFiniteSet(Units(f, T))
      /\ SumOver(f, S) \in Nat /\ SumOver(f, T) \in Nat
  BY UnitsFinite
<1>4. Cardinality(Units(f, S) \cup Units(f, T)) =
         Cardinality(Units(f, S)) + Cardinality(Units(f, T))
            - Cardinality(Units(f, S) \cap Units(f, T))
  BY <1>3, FS_Union
<1>5. Cardinality(Units(f, S) \cap Units(f, T)) = 0
  BY <1>2, FS_EmptySet
<1>6. /\ Cardinality(Units(f, S)) = SumOver(f, S)
      /\ Cardinality(Units(f, T)) = SumOver(f, T)
      /\ Cardinality(Units(f, S \cup T)) = SumOver(f, S \cup T)
  BY DEF Units, SumOver
<1>7. SumOver(f, S \cup T) = SumOver(f, S) + SumOver(f, T) - 0
  BY <1>1, <1>4, <1>5, <1>6
<1> QED
  BY <1>3, <1>7

LEMMA SumEqual ==
    ASSUME NEW f, NEW g, NEW S, \A x \in S : f[x] = g[x]
    PROVE  SumOver(f, S) = SumOver(g, S)
<1>1. Units(f, S) = Units(g, S)
  BY DEF Units
<1> QED
  BY <1>1 DEF SumOver, Units

\* One summand, and the others.
LEMMA SumSplit ==
    ASSUME NEW f, NEW S, IsFiniteSet(S), \A x \in S : f[x] \in Nat, NEW y \in S
    PROVE  /\ IsFiniteSet(S \ {y}) /\ SumOver(f, S \ {y}) \in Nat
           /\ SumOver(f, S) = SumOver(f, S \ {y}) + f[y]
<1>1. IsFiniteSet(S \ {y}) /\ IsFiniteSet({y})
  BY FS_RemoveElement, FS_Singleton
<1>2. (S \ {y}) \cup {y} = S /\ (S \ {y}) \cap {y} = {}
  OBVIOUS
<1>3. SumOver(f, S) = SumOver(f, S \ {y}) + SumOver(f, {y})
  <2>1. \A x \in (S \ {y}) \cup {y} : f[x] \in Nat
    BY <1>2
  <2>2. SumOver(f, (S \ {y}) \cup {y}) = SumOver(f, S \ {y}) + SumOver(f, {y})
    BY <1>1, <1>2, <2>1, SumDisjoint
  <2> QED
    BY <1>2, <2>2
<1>4. SumOver(f, S \ {y}) \in Nat
  BY <1>1, UnitsFinite
<1>5. SumOver(f, {y}) = f[y]
  BY SumSingle
<1> QED
  BY <1>1, <1>3, <1>4, <1>5

\* What is new is counted on top, and what is gone is counted no more.
LEMMA CountMore ==
    ASSUME NEW S, NEW T, IsFiniteSet(S), IsFiniteSet(T), S \cap T = {}
    PROVE  /\ IsFiniteSet(S \cup T) /\ Cardinality(S) \in Nat /\ Cardinality(T) \in Nat
           /\ Cardinality(S \cup T) = Cardinality(S) + Cardinality(T)
<1>1. /\ IsFiniteSet(S \cup T)
      /\ Cardinality(S \cup T) = Cardinality(S) + Cardinality(T) - Cardinality(S \cap T)
  BY FS_Union
<1>2. Cardinality(S \cap T) = 0
  BY FS_EmptySet
<1> QED
  BY <1>1, <1>2, FS_CardinalityType

LEMMA CountLess ==
    ASSUME NEW S, NEW T, IsFiniteSet(S), T \subseteq S
    PROVE  /\ IsFiniteSet(S \ T) /\ IsFiniteSet(T)
           /\ Cardinality(S) \in Nat /\ Cardinality(T) \in Nat
           /\ Cardinality(S \ T) \in Nat
           /\ Cardinality(S \ T) = Cardinality(S) - Cardinality(T)
<1>1. IsFiniteSet(T) /\ IsFiniteSet(S \ T)
  BY FS_Subset
<1>2. (S \ T) \cap T = {} /\ (S \ T) \cup T = S
  OBVIOUS
<1>3. Cardinality((S \ T) \cup T) = Cardinality(S \ T) + Cardinality(T)
  BY <1>1, <1>2, CountMore
<1>4. Cardinality(S) = Cardinality(S \ T) + Cardinality(T)
  BY <1>2, <1>3
<1>5. Cardinality(S) \in Nat /\ Cardinality(T) \in Nat /\ Cardinality(S \ T) \in Nat
  BY <1>1, FS_CardinalityType
<1> QED
  BY <1>1, <1>4, <1>5

-----------------------------------------------------------------------------
(* The storage: paths and their nodes d, directories ds, sizes z *)

EntriesOf(d)     == Deep(DOMAIN d)
FilesOf(d, ds)   == {p \in EntriesOf(d) : d[p] \notin ds}
FileNodes(d, ds) == {d[p] : p \in FilesOf(d, ds)}
Bytes(d, ds, z)  == SumOver(z, FileNodes(d, ds))

\* The storage is a tree of places without hard links.
Tree(d, ds, z) ==
    /\ IsFiniteSet(DOMAIN d) /\ IsInjective(d)
    /\ \A p \in DOMAIN d : Place(p) /\ d[p] \in Nodes
    /\ \A p \in DOMAIN d : \A n \in 1..Len(p) - 1 :
          Upto(p, n) \in DOMAIN d /\ d[Upto(p, n)] \in ds
    /\ z \in [Nodes -> Nat]

\* Scannable, of any storage.
Limited(d, ds, z) ==
    /\ \A p \in DOMAIN d : Len(p) <= 3 => d[p] \in ds
    /\ Cardinality(EntriesOf(d)) <= MaxEntries
    /\ Cardinality(Long(DOMAIN d, 1)) <= MaxEntries
    /\ Cardinality(Long(DOMAIN d, 2)) <= MaxEntries
    /\ Bytes(d, ds, z) <= MaxBytes
    /\ \A n \in FileNodes(d, ds) : z[n] <= MaxFileSize

\* What the records of a storage are.
Records(d, z) == [p \in EntriesOf(d) |-> [id |-> d[p], size |-> z[d[p]]]]

LEMMA SumZero ==
    ASSUME NEW f, NEW S, \A x \in S : f[x] = 0
    PROVE  SumOver(f, S) = 0
<1>1. \A x \in S : 1..f[x] = {}
  OBVIOUS
<1>2. Units(f, S) = {}
  BY <1>1 DEF Units
<1> QED
  BY <1>2, FS_EmptySet DEF SumOver, Units

LEMMA ImageFinite ==
    ASSUME NEW f, NEW S, IsFiniteSet(S)
    PROVE  IsFiniteSet({f[x] : x \in S})
<1> DEFINE g == [x \in S |-> f[x]]
<1>1. g \in Surjection(S, {f[x] : x \in S})
  BY DEF Surjection
<1> QED
  BY <1>1, FS_Surjection

\* As many paths as there are nodes.
LEMMA CountImage ==
    ASSUME NEW f, NEW S, IsFiniteSet(S), \A x, y \in S : f[x] = f[y] => x = y
    PROVE  Cardinality({f[x] : x \in S}) = Cardinality(S)
<1> DEFINE g == [x \in S |-> f[x]]
           T == {f[x] : x \in S}
<1>1. g \in Bijection(S, T)
  BY DEF Bijection, Injection, Surjection, IsInjective
<1>2. ExistsBijection(S, T)
  BY <1>1 DEF ExistsBijection
<1> QED
  BY <1>2, FS_Bijection

\* The files of a tree, and its levels, can be counted.
LEMMA TreeFinite ==
    ASSUME NEW d, NEW ds, NEW z, Tree(d, ds, z)
    PROVE  /\ IsFiniteSet(EntriesOf(d)) /\ IsFiniteSet(FilesOf(d, ds))
           /\ IsFiniteSet(FileNodes(d, ds))
           /\ \A n : IsFiniteSet(Long(DOMAIN d, n))
           /\ \A n \in FileNodes(d, ds) : n \in Nodes /\ z[n] \in Nat
           /\ Bytes(d, ds, z) \in Nat
<1>1. /\ EntriesOf(d) \subseteq DOMAIN d /\ FilesOf(d, ds) \subseteq DOMAIN d
      /\ \A n : Long(DOMAIN d, n) \subseteq DOMAIN d
  BY DEF EntriesOf, FilesOf, Deep, Long
<1>2. /\ IsFiniteSet(EntriesOf(d)) /\ IsFiniteSet(FilesOf(d, ds))
      /\ \A n : IsFiniteSet(Long(DOMAIN d, n))
  BY <1>1, FS_Subset DEF Tree
<1>3. IsFiniteSet(FileNodes(d, ds))
  BY <1>2, ImageFinite DEF FileNodes
<1>4. \A n \in FileNodes(d, ds) : n \in Nodes /\ z[n] \in Nat
  BY <1>1 DEF FileNodes, Tree
<1>5. Bytes(d, ds, z) \in Nat
  BY <1>3, <1>4, UnitsFinite DEF Bytes
<1> QED
  BY <1>2, <1>3, <1>4, <1>5

\* Entries are what is longer than containers.
LEMMA PlaceLevels ==
    ASSUME NEW p, Place(p)
    PROVE  /\ Len(p) \in Nat /\ p \in Seq(Atoms)
           /\ (Len(p) > 2 <=> p \in Locations)
           /\ Len(p) = 1 \/ Len(p) = 2 \/ Len(p) > 2
<1>1. p \in Seq(Atoms) /\ Len(p) \in Nat /\ Len(p) >= 1
  BY LenProperties DEF Place
<1>2. Len(p) > 2 <=> p \in Locations
  BY LocationShape
<1>3. \A n \in Nat : n >= 1 => n = 1 \/ n = 2 \/ n > 2
  OBVIOUS
<1> QED
  BY <1>1, <1>2, <1>3

\* The storage grows by paths D, which get the nodes f.  What is new is empty.
Extended(d, ds, z, D, f, e, es, y) ==
    /\ IsFiniteSet(D) /\ D \cap DOMAIN d = {}
    /\ DOMAIN f = D /\ Fits(D, f)
    /\ \A p \in D : f[p] \in Nodes /\ y[f[p]] = 0
    /\ \A p \in D : \A q \in DOMAIN d : f[p] # d[q]
    /\ e = Joined(d, f)
    /\ \A p \in DOMAIN d : (d[p] \in es <=> d[p] \in ds) /\ y[d[p]] = z[d[p]]
    /\ y \in [Nodes -> Nat]

\* What is new is below directories, and there is room for it.
Suited(d, ds, D, f, es) ==
    /\ \A p \in D : Place(p) /\ (Len(p) <= 3 => f[p] \in es)
    /\ \A p \in D : \A n \in 1..Len(p) - 1 :
          \/ Upto(p, n) \in D /\ f[Upto(p, n)] \in es
          \/ Upto(p, n) \in DOMAIN d /\ d[Upto(p, n)] \in ds
    /\ Cardinality(EntriesOf(d)) + Cardinality(Deep(D)) <= MaxEntries
    /\ \A n \in {1, 2} :
          Cardinality(Long(DOMAIN d, n)) + Cardinality(Long(D, n)) <= MaxEntries

LEMMA ExtendedKeeps ==
    ASSUME NEW d, NEW ds, NEW z, Tree(d, ds, z), Limited(d, ds, z),
           NEW D, NEW f, NEW e, NEW es, NEW y, Extended(d, ds, z, D, f, e, es, y),
           Suited(d, ds, D, f, es)
    PROVE  /\ Tree(e, es, y) /\ Limited(e, es, y)
           /\ DOMAIN e = DOMAIN d \cup D
           /\ \A p \in DOMAIN d : e[p] = d[p]
           /\ \A p \in D : e[p] = f[p]
           /\ EntriesOf(e) = EntriesOf(d) \cup Deep(D)
           /\ Cardinality(EntriesOf(e)) = Cardinality(EntriesOf(d)) + Cardinality(Deep(D))
           /\ \A n \in {1, 2} : Cardinality(Long(DOMAIN e, n)) =
                 Cardinality(Long(DOMAIN d, n)) + Cardinality(Long(D, n))
           /\ Bytes(e, es, y) = Bytes(d, ds, z)
<1>1. DOMAIN e = DOMAIN d \cup D
  BY DEF Extended, Joined
<1>2. \A p \in DOMAIN d : e[p] = d[p] /\ d[p] \in Nodes
  BY DEF Extended, Joined, Tree
<1>3. \A p \in D : e[p] = f[p] /\ f[p] \in Nodes
  BY DEF Extended, Joined
<1>4. \A p \in DOMAIN d : y[d[p]] = z[d[p]] /\ (d[p] \in es <=> d[p] \in ds)
  BY DEF Extended
<1>5. Tree(e, es, y)
  <2>1. IsFiniteSet(DOMAIN e)
    <3>1. IsFiniteSet(DOMAIN d) /\ IsFiniteSet(D)
      BY DEF Tree, Extended
    <3> QED
      BY <1>1, <3>1, FS_Union
  <2>2. \A p \in DOMAIN e : Place(p) /\ e[p] \in Nodes
    BY <1>1, <1>2, <1>3 DEF Tree, Suited
  <2>3. IsInjective(e)
    <3> SUFFICES ASSUME NEW p \in DOMAIN e, NEW q \in DOMAIN e, e[p] = e[q]
                 PROVE  p = q
      BY DEF IsInjective
    <3>1. CASE p \in DOMAIN d /\ q \in DOMAIN d
      BY <1>2, <3>1 DEF Tree, IsInjective
    <3>2. CASE p \in D /\ q \in D
      BY <1>3, <3>2 DEF Extended, Fits
    <3>3. \A r \in D : \A s \in DOMAIN d : f[r] # d[s]
      BY DEF Extended
    <3> QED
      BY <1>1, <1>2, <1>3, <3>1, <3>2, <3>3
  <2>4. ASSUME NEW p \in DOMAIN e, NEW n \in 1..Len(p) - 1
        PROVE  Upto(p, n) \in DOMAIN e /\ e[Upto(p, n)] \in es
    <3>1. \/ Upto(p, n) \in D /\ f[Upto(p, n)] \in es
          \/ Upto(p, n) \in DOMAIN d /\ d[Upto(p, n)] \in ds
      BY <1>1, <2>4 DEF Tree, Suited
    <3> QED
      BY <1>1, <1>2, <1>3, <1>4, <3>1
  <2>5. y \in [Nodes -> Nat]
    BY DEF Extended
  <2> QED
    BY <2>1, <2>2, <2>3, <2>4, <2>5 DEF Tree
<1>6. /\ EntriesOf(e) = EntriesOf(d) \cup Deep(D)
      /\ Cardinality(EntriesOf(e)) = Cardinality(EntriesOf(d)) + Cardinality(Deep(D))
  <2>1. EntriesOf(e) = EntriesOf(d) \cup Deep(D)
    BY <1>1 DEF EntriesOf, Deep
  <2>2. EntriesOf(d) \cap Deep(D) = {} /\ Deep(D) \subseteq D
    BY DEF EntriesOf, Deep, Extended
  <2>3. IsFiniteSet(EntriesOf(d)) /\ IsFiniteSet(Deep(D))
    <3>1. IsFiniteSet(D)
      BY DEF Extended
    <3> QED
      BY <2>2, <3>1, TreeFinite, FS_Subset
  <2> QED
    BY <2>1, <2>2, <2>3, CountMore
<1>7. ASSUME NEW n \in {1, 2}
      PROVE  Cardinality(Long(DOMAIN e, n)) =
                Cardinality(Long(DOMAIN d, n)) + Cardinality(Long(D, n))
  <2>1. Long(DOMAIN e, n) = Long(DOMAIN d, n) \cup Long(D, n)
    BY <1>1 DEF Long
  <2>2. Long(DOMAIN d, n) \cap Long(D, n) = {} /\ Long(D, n) \subseteq D
    BY DEF Long, Extended
  <2>3. IsFiniteSet(Long(DOMAIN d, n)) /\ IsFiniteSet(Long(D, n))
    <3>1. IsFiniteSet(D)
      BY DEF Extended
    <3> QED
      BY <2>2, <3>1, TreeFinite, FS_Subset
  <2> QED
    BY <2>1, <2>2, <2>3, CountMore
<1>8. /\ FileNodes(d, ds) \subseteq FileNodes(e, es)
      /\ \A n \in FileNodes(d, ds) : y[n] = z[n]
      /\ \A n \in FileNodes(e, es) \ FileNodes(d, ds) : y[n] = 0
  <2>1. ASSUME NEW p \in FilesOf(d, ds)
        PROVE  p \in FilesOf(e, es) /\ e[p] = d[p] /\ y[d[p]] = z[d[p]]
    BY <1>2, <1>4, <1>6, <2>1 DEF FilesOf, EntriesOf, Deep
  <2>2. ASSUME NEW p \in FilesOf(e, es), p \notin FilesOf(d, ds)
        PROVE  y[e[p]] = 0
    <3>1. p \in D
      BY <1>2, <1>4, <1>6, <2>2 DEF FilesOf, EntriesOf, Deep
    <3> QED
      BY <1>3, <3>1 DEF Extended
  <2>3. \A p \in FilesOf(d, ds) : d[p] \in FileNodes(d, ds)
    BY DEF FileNodes
  <2> QED
    BY <2>1, <2>2, <2>3 DEF FileNodes
<1>9. Bytes(e, es, y) = Bytes(d, ds, z)
  <2> DEFINE F == FileNodes(d, ds)
             N == FileNodes(e, es) \ FileNodes(d, ds)
  <2>1. /\ IsFiniteSet(FileNodes(e, es)) /\ IsFiniteSet(F)
        /\ \A n \in FileNodes(e, es) : y[n] \in Nat
    BY <1>5, TreeFinite
  <2>2. IsFiniteSet(N) /\ F \cap N = {} /\ F \cup N = FileNodes(e, es)
    BY <1>8, <2>1, FS_Subset
  <2>3. SumOver(y, F \cup N) = SumOver(y, F) + SumOver(y, N)
    <3>1. \A n \in F \cup N : y[n] \in Nat
      BY <2>1, <2>2
    <3> HIDE DEF F, N
    <3> QED
      BY <2>1, <2>2, <3>1, SumDisjoint
  <2>4. SumOver(y, N) = 0 /\ SumOver(y, F) = SumOver(z, F)
    BY <1>8, SumZero, SumEqual
  <2>5. SumOver(z, F) \in Nat
    BY TreeFinite DEF Bytes
  <2>6. SumOver(y, F \cup N) = SumOver(z, F)
    <3> HIDE DEF F, N
    <3> QED
      BY <2>3, <2>4, <2>5
  <2> QED
    BY <2>2, <2>6 DEF Bytes
<1>10. Limited(e, es, y)
  <2>1. \A p \in DOMAIN e : Len(p) <= 3 => e[p] \in es
    BY <1>1, <1>2, <1>3, <1>4 DEF Limited, Suited
  <2>2. /\ Cardinality(EntriesOf(e)) <= MaxEntries
        /\ Cardinality(Long(DOMAIN e, 1)) <= MaxEntries
        /\ Cardinality(Long(DOMAIN e, 2)) <= MaxEntries
    BY <1>6, <1>7 DEF Suited
  <2>3. Bytes(e, es, y) <= MaxBytes
    BY <1>9 DEF Limited
  <2>4. \A n \in FileNodes(e, es) : y[n] <= MaxFileSize
    BY <1>8, OverlayAssumption DEF Limited
  <2> QED
    BY <2>1, <2>2, <2>3, <2>4 DEF Limited
<1> QED
  BY <1>1, <1>2, <1>3, <1>5, <1>6, <1>7, <1>9, <1>10

\* A function without some of its arguments.
LEMMA WithoutValues ==
    ASSUME NEW f, NEW S
    PROVE  /\ DOMAIN Without(f, S) = DOMAIN f \ S
           /\ \A x \in DOMAIN f \ S : Without(f, S)[x] = f[x]
  BY DEF Without, Restrict

\* Entry x, and containers that lead only to it.
Prunable(d, R, x) ==
    /\ R \subseteq DOMAIN d /\ Deep(R) = {x}
    /\ \A p \in DOMAIN d \ R : \A n \in 1..Len(p) - 1 : Upto(p, n) \notin R

LEMMA ShrunkKeeps ==
    ASSUME NEW d, NEW ds, NEW z, Tree(d, ds, z), Limited(d, ds, z),
           NEW R, NEW x, Prunable(d, R, x),
           NEW e, DOMAIN e = DOMAIN d \ R, \A p \in DOMAIN e : e[p] = d[p]
    PROVE  /\ Tree(e, ds, z) /\ Limited(e, ds, z)
           /\ EntriesOf(e) = EntriesOf(d) \ {x}
           /\ Cardinality(EntriesOf(e)) = Cardinality(EntriesOf(d)) - 1
           /\ \A n \in {1, 2} : Cardinality(Long(DOMAIN e, n)) =
                 Cardinality(Long(DOMAIN d, n)) - Cardinality(Long(R, n))
           /\ Bytes(e, ds, z) =
                 Bytes(d, ds, z) - (IF d[x] \in ds THEN 0 ELSE z[d[x]])
<1>1. /\ DOMAIN e = DOMAIN d \ R /\ \A p \in DOMAIN e : e[p] = d[p]
      /\ R \subseteq DOMAIN d /\ Deep(R) = {x}
  BY DEF Prunable
<1>2. Tree(e, ds, z)
  <2>1. IsFiniteSet(DOMAIN e)
    <3>1. IsFiniteSet(DOMAIN d)
      BY DEF Tree
    <3> QED
      BY <1>1, <3>1, FS_Subset
  <2>2. IsInjective(e)
    BY <1>1 DEF Tree, IsInjective
  <2>3. \A p \in DOMAIN e : Place(p) /\ e[p] \in Nodes
    BY <1>1 DEF Tree
  <2>4. ASSUME NEW p \in DOMAIN e, NEW n \in 1..Len(p) - 1
        PROVE  Upto(p, n) \in DOMAIN e /\ e[Upto(p, n)] \in ds
    <3>1. Upto(p, n) \in DOMAIN d /\ d[Upto(p, n)] \in ds
      BY <1>1, <2>4 DEF Tree
    <3>2. Upto(p, n) \notin R
      BY <1>1, <2>4 DEF Prunable
    <3> QED
      BY <1>1, <3>1, <3>2
  <2>5. z \in [Nodes -> Nat]
    BY DEF Tree
  <2> QED
    BY <2>1, <2>2, <2>3, <2>4, <2>5 DEF Tree
<1>3. x \in R /\ x \in EntriesOf(d) /\ x \in DOMAIN d
  BY <1>1 DEF EntriesOf, Deep
<1>4. EntriesOf(e) = EntriesOf(d) \ {x}
  BY <1>1 DEF EntriesOf, Deep
<1>5. /\ Cardinality(EntriesOf(e)) = Cardinality(EntriesOf(d)) - 1
      /\ Cardinality(EntriesOf(e)) <= Cardinality(EntriesOf(d))
      /\ Cardinality(EntriesOf(d)) \in Nat /\ Cardinality(EntriesOf(e)) \in Nat
  <2>1. IsFiniteSet(EntriesOf(d)) /\ {x} \subseteq EntriesOf(d)
    BY <1>3, TreeFinite
  <2>2. Cardinality({x}) = 1
    BY FS_Singleton
  <2>3. /\ Cardinality(EntriesOf(d)) \in Nat /\ Cardinality(EntriesOf(d) \ {x}) \in Nat
        /\ Cardinality(EntriesOf(d) \ {x}) = Cardinality(EntriesOf(d)) - Cardinality({x})
    BY <2>1, CountLess, Zenon
  <2> QED
    BY <1>4, <2>2, <2>3
<1>6. ASSUME NEW n
      PROVE  /\ Cardinality(Long(DOMAIN e, n)) =
                   Cardinality(Long(DOMAIN d, n)) - Cardinality(Long(R, n))
             /\ Cardinality(Long(DOMAIN e, n)) <= Cardinality(Long(DOMAIN d, n))
             /\ Cardinality(Long(DOMAIN d, n)) \in Nat
             /\ Cardinality(Long(DOMAIN e, n)) \in Nat
  <2>1. Long(DOMAIN e, n) = Long(DOMAIN d, n) \ Long(R, n)
    BY <1>1 DEF Long
  <2>2. Long(R, n) \subseteq Long(DOMAIN d, n)
    BY <1>1 DEF Long
  <2>3. IsFiniteSet(Long(DOMAIN d, n))
    BY TreeFinite
  <2>4. /\ Cardinality(Long(DOMAIN d, n)) \in Nat /\ Cardinality(Long(R, n)) \in Nat
        /\ Cardinality(Long(DOMAIN d, n) \ Long(R, n)) \in Nat
        /\ Cardinality(Long(DOMAIN d, n) \ Long(R, n)) =
              Cardinality(Long(DOMAIN d, n)) - Cardinality(Long(R, n))
    BY <2>2, <2>3, CountLess, Zenon
  <2>5. Cardinality(Long(DOMAIN e, n)) = Cardinality(Long(DOMAIN d, n) \ Long(R, n))
    BY <2>1, Zenon
  <2> QED
    BY <2>4, <2>5
<1>7. FilesOf(e, ds) = FilesOf(d, ds) \ {x}
  BY <1>1, <1>4 DEF FilesOf, EntriesOf, Deep
<1>8. FileNodes(e, ds) = IF d[x] \in ds THEN FileNodes(d, ds)
                                        ELSE FileNodes(d, ds) \ {d[x]}
  <2>1. \A p, q \in DOMAIN d : d[p] = d[q] => p = q
    BY DEF Tree, IsInjective
  <2>2. \A p \in FilesOf(d, ds) : p \in DOMAIN d /\ d[p] \notin ds
    BY DEF FilesOf, EntriesOf, Deep
  <2>3. \A p \in FilesOf(e, ds) : e[p] = d[p]
    BY <1>1, <1>7, <2>2 DEF FilesOf, EntriesOf, Deep
  <2>4. FileNodes(e, ds) = {d[p] : p \in FilesOf(d, ds) \ {x}}
    BY <1>7, <2>3 DEF FileNodes
  <2>5. CASE d[x] \in ds
    <3>1. FilesOf(d, ds) \ {x} = FilesOf(d, ds)
      BY <2>2, <2>5
    <3> QED
      BY <2>4, <2>5, <3>1 DEF FileNodes
  <2>6. CASE d[x] \notin ds
    <3>1. {d[p] : p \in FilesOf(d, ds) \ {x}} = {d[p] : p \in FilesOf(d, ds)} \ {d[x]}
      BY <1>3, <2>1, <2>2
    <3> QED
      BY <2>4, <2>6, <3>1 DEF FileNodes
  <2> QED
    BY <2>5, <2>6
<1>9. /\ Bytes(e, ds, z) = Bytes(d, ds, z) - (IF d[x] \in ds THEN 0 ELSE z[d[x]])
      /\ Bytes(e, ds, z) <= Bytes(d, ds, z)
      /\ Bytes(d, ds, z) \in Nat /\ Bytes(e, ds, z) \in Nat
  <2>1. /\ IsFiniteSet(FileNodes(d, ds)) /\ Bytes(d, ds, z) \in Nat
        /\ \A n \in FileNodes(d, ds) : z[n] \in Nat
    BY TreeFinite
  <2>2. CASE d[x] \in ds
    BY <1>8, <2>1, <2>2 DEF Bytes
  <2>3. CASE d[x] \notin ds
    <3>1. d[x] \in FileNodes(d, ds)
      BY <1>3, <2>3 DEF FileNodes, FilesOf
    <3>2. /\ SumOver(z, FileNodes(d, ds) \ {d[x]}) \in Nat /\ z[d[x]] \in Nat
          /\ SumOver(z, FileNodes(d, ds)) =
                SumOver(z, FileNodes(d, ds) \ {d[x]}) + z[d[x]]
      BY <2>1, <3>1, SumSplit
    <3>3. Bytes(e, ds, z) = SumOver(z, FileNodes(d, ds) \ {d[x]})
      BY <1>8, <2>3, Zenon DEF Bytes
    <3>4. Bytes(d, ds, z) = Bytes(e, ds, z) + z[d[x]] /\ Bytes(e, ds, z) \in Nat
      BY <3>2, <3>3 DEF Bytes
    <3>5. /\ Bytes(e, ds, z) = Bytes(d, ds, z) - z[d[x]]
          /\ Bytes(e, ds, z) <= Bytes(d, ds, z)
      BY <2>1, <3>2, <3>4
    <3> QED
      BY <2>1, <2>3, <3>4, <3>5, Zenon
  <2> QED
    BY <2>2, <2>3
<1>10. Limited(e, ds, z)
  <2>1. \A p \in DOMAIN e : Len(p) <= 3 => e[p] \in ds
    BY <1>1 DEF Limited
  <2>2. /\ Cardinality(EntriesOf(d)) <= MaxEntries
        /\ Cardinality(Long(DOMAIN d, 1)) <= MaxEntries
        /\ Cardinality(Long(DOMAIN d, 2)) <= MaxEntries
        /\ Bytes(d, ds, z) <= MaxBytes
    BY DEF Limited
  <2>3. /\ Cardinality(EntriesOf(e)) <= MaxEntries
        /\ Cardinality(Long(DOMAIN e, 1)) <= MaxEntries
        /\ Cardinality(Long(DOMAIN e, 2)) <= MaxEntries
        /\ Bytes(e, ds, z) <= MaxBytes
    <3>1. MaxEntries \in Nat /\ MaxBytes \in Nat
      BY OverlayAssumption
    <3>2. /\ Cardinality(Long(DOMAIN e, 1)) <= Cardinality(Long(DOMAIN d, 1))
          /\ Cardinality(Long(DOMAIN d, 1)) \in Nat /\ Cardinality(Long(DOMAIN e, 1)) \in Nat
      BY <1>6
    <3>3. /\ Cardinality(Long(DOMAIN e, 2)) <= Cardinality(Long(DOMAIN d, 2))
          /\ Cardinality(Long(DOMAIN d, 2)) \in Nat /\ Cardinality(Long(DOMAIN e, 2)) \in Nat
      BY <1>6
    <3> QED
      BY <1>5, <1>9, <2>2, <3>1, <3>2, <3>3
  <2>4. \A n \in FileNodes(e, ds) : z[n] <= MaxFileSize
    BY <1>8 DEF Limited
  <2> QED
    BY <2>1, <2>3, <2>4 DEF Limited
<1> QED
  BY <1>1, <1>2, <1>4, <1>5, <1>6, <1>9, <1>10

\* A file gets n bytes, as far as the quota reaches.
LEMMA ResizedKeeps ==
    ASSUME NEW d, NEW ds, NEW z, Tree(d, ds, z), Limited(d, ds, z),
           NEW id \in FileNodes(d, ds), NEW n \in Nat, n <= MaxFileSize,
           n - z[id] <= MaxBytes - Bytes(d, ds, z),
           NEW y \in [Nodes -> Nat], y[id] = n, \A m \in Nodes \ {id} : y[m] = z[m]
    PROVE  /\ Tree(d, ds, y) /\ Limited(d, ds, y)
           /\ id \in Nodes /\ y[id] = n /\ z[id] \in Nat
           /\ Bytes(d, ds, y) = Bytes(d, ds, z) + n - z[id]
<1> DEFINE F == FileNodes(d, ds)
<1>1. /\ IsFiniteSet(F) /\ \A m \in F : m \in Nodes /\ z[m] \in Nat
      /\ Bytes(d, ds, z) \in Nat
  BY TreeFinite
<1>f. id \in F
  OBVIOUS
<1>2. z \in [Nodes -> Nat]
  BY DEF Tree
<1>3. /\ y \in [Nodes -> Nat] /\ y[id] = n
      /\ \A m \in F \ {id} : y[m] = z[m]
  BY <1>1, <1>2
<1>4. Tree(d, ds, y)
  BY <1>3 DEF Tree
<1>5. /\ SumOver(z, F \ {id}) \in Nat
      /\ SumOver(z, F) = SumOver(z, F \ {id}) + z[id]
  <2> HIDE DEF F
  <2> QED
    BY <1>1, <1>f, SumSplit
<1>6. SumOver(y, F) = SumOver(y, F \ {id}) + y[id]
  <2>1. \A m \in F : y[m] \in Nat
    BY <1>1, <1>3
  <2> HIDE DEF F
  <2> QED
    BY <1>1, <1>f, <2>1, SumSplit
<1>7. SumOver(y, F \ {id}) = SumOver(z, F \ {id})
  <2> HIDE DEF F
  <2> QED
    BY <1>3, SumEqual, Zenon
<1>8. Bytes(d, ds, y) = Bytes(d, ds, z) + n - z[id] /\ z[id] \in Nat
  <2> HIDE DEF F
  <2>1. SumOver(y, F) = SumOver(z, F) + n - z[id]
    <3>1. z[id] \in Nat
      BY <1>1, <1>f
    <3> QED
      BY <1>3, <1>5, <1>6, <1>7, <3>1
  <2>2. z[id] \in Nat
    BY <1>1, <1>f
  <2> QED
    BY <2>1, <2>2 DEF Bytes, F
<1>9. Bytes(d, ds, y) <= MaxBytes
  BY <1>1, <1>8, OverlayAssumption
<1>10. \A m \in F : y[m] <= MaxFileSize
  BY <1>3 DEF Limited
<1> QED
  BY <1>1, <1>3, <1>4, <1>8, <1>9, <1>10 DEF Limited

\* Records that agree with the disk do not change when they are refreshed.
LEMMA NoGrowth ==
    ASSUME \A p \in DOMAIN entries : entries[p].size = size[entries[p].id],
           \E T : entries \in [DOMAIN entries -> T] /\ T = [id : Nodes, size : Nat],
           IsFiniteSet(DOMAIN entries), NEW P
    PROVE  Refreshed(entries, P) = entries /\ Grown(entries, P) = 0
<1> DEFINE F == P \cap Files(entries)
           f == [p \in F |-> size[entries[p].id]]
           g == [p \in F |-> entries[p].size]
<1>1. \A p \in F : p \in DOMAIN entries /\ f[p] = g[p] /\ g[p] \in Nat
  BY DEF Files
<1>2. SumOver(f, F) = SumOver(g, F)
  <2> HIDE DEF f, g
  <2> QED
    BY <1>1, SumEqual
<1>3. IsFiniteSet(F)
  <2>1. F \subseteq DOMAIN entries
    BY <1>1
  <2> QED
    BY <2>1, FS_Subset
<1>4. SumOver(g, F) \in Nat
  <2> HIDE DEF f, g
  <2> QED
    BY <1>1, <1>3, UnitsFinite
<1>5. Grown(entries, P) = SumOver(f, F) - SumOver(g, F)
  BY DEF Grown
<1>6. Grown(entries, P) = 0
  <2> HIDE DEF f, g, F
  <2> QED
    BY <1>2, <1>4, <1>5
<1>7. Refreshed(entries, P) = entries
  BY DEF Refreshed
<1> QED
  BY <1>6, <1>7

-----------------------------------------------------------------------------
(* Paths that move *)

LEMMA OntoShape ==
    ASSUME NEW p \in Seq(Atoms), NEW q \in Seq(Atoms), NEW m \in Seq(Atoms), Within(m, p)
    PROVE  /\ Onto(m, p, q) \in Seq(Atoms)
           /\ Len(Onto(m, p, q)) = Len(q) + Len(m) - Len(p)
           /\ \A i \in 1..Len(q) + Len(m) - Len(p) :
                 Onto(m, p, q)[i] = IF i <= Len(q) THEN q[i] ELSE m[i - Len(q) + Len(p)]
           /\ Within(Onto(m, p, q), q)
<1>1. Len(p) \in Nat /\ Len(q) \in Nat /\ Len(m) \in Nat /\ Len(p) <= Len(m)
  BY Inside, LenProperties
<1>2. PICK t : t = SubSeq(m, Len(p) + 1, Len(m))
  OBVIOUS
<1>3. /\ t \in Seq(Atoms) /\ Len(t) = Len(m) - Len(p)
      /\ \A i \in 1..Len(m) - Len(p) : t[i] = m[i + Len(p)]
  <2>1. \A i \in Len(p) + 1..Len(m) : m[i] \in Atoms
    BY <1>1, LenProperties
  <2>2. /\ t \in Seq(Atoms)
        /\ Len(t) = IF Len(p) + 1 <= Len(m) THEN Len(m) - (Len(p) + 1) + 1 ELSE 0
        /\ \A i \in 1..Len(m) - (Len(p) + 1) + 1 : t[i] = m[(Len(p) + 1) + i - 1]
    BY <1>1, <1>2, <2>1, SubSeqProperties
  <2>3. \A i \in 1..Len(m) - Len(p) :
           i \in 1..Len(m) - (Len(p) + 1) + 1 /\ (Len(p) + 1) + i - 1 = i + Len(p)
    BY <1>1
  <2> QED
    BY <1>1, <2>2, <2>3
<1>4. Onto(m, p, q) = q \o t
  BY <1>2 DEF Onto
<1>5. PICK r : r = q \o t
  OBVIOUS
<1>6. /\ r \in Seq(Atoms) /\ Len(r) = Len(q) + Len(t)
      /\ \A i \in 1..Len(q) + Len(t) : r[i] = IF i <= Len(q) THEN q[i] ELSE t[i - Len(q)]
  <2>1. /\ q \o t \in Seq(Atoms) /\ Len(q \o t) = Len(q) + Len(t)
        /\ \A i \in 1..Len(q) + Len(t) :
              (q \o t)[i] = IF i <= Len(q) THEN q[i] ELSE t[i - Len(q)]
    <3>1. t \in Seq(Atoms)
      BY <1>3
    <3> QED
      BY <3>1, ConcatProperties, Zenon
  <2> QED
    BY <1>5, <2>1
<1>7. Len(r) = Len(q) + Len(m) - Len(p)
  BY <1>1, <1>3, <1>6
<1>8. \A i \in 1..Len(q) + Len(m) - Len(p) :
         r[i] = IF i <= Len(q) THEN q[i] ELSE m[i - Len(q) + Len(p)]
  <2>1. ASSUME NEW i \in 1..Len(q) + Len(m) - Len(p), i > Len(q)
        PROVE  t[i - Len(q)] = m[i - Len(q) + Len(p)]
    <3>1. i - Len(q) \in 1..Len(m) - Len(p)
      BY <1>1, <2>1
    <3> QED
      BY <1>3, <3>1
  <2>2. \A i \in 1..Len(q) + Len(m) - Len(p) :
           i \in Nat /\ r[i] = IF i <= Len(q) THEN q[i] ELSE t[i - Len(q)]
    BY <1>1, <1>3, <1>6
  <2> QED
    BY <1>1, <2>1, <2>2
<1>9. Within(r, q)
  <2>1. Len(q) <= Len(r) /\ \A i \in 1..Len(q) : r[i] = q[i]
    BY <1>1, <1>7, <1>8
  <2> QED
    BY <1>6, <2>1, Inside
<1> QED
  BY <1>4, <1>5, <1>6, <1>7, <1>8, <1>9

\* Moving there and back.
LEMMA OntoBack ==
    ASSUME NEW p \in Seq(Atoms), NEW q \in Seq(Atoms), NEW m \in Seq(Atoms), Within(m, p)
    PROVE  Onto(Onto(m, p, q), q, p) = m
<1>1. /\ Len(p) \in Nat /\ Len(q) \in Nat /\ Len(m) \in Nat /\ Len(p) <= Len(m)
      /\ \A i \in 1..Len(p) : m[i] = p[i]
  BY Inside, LenProperties
<1>2. PICK t : t = Onto(m, p, q)
  OBVIOUS
<1>3. /\ t \in Seq(Atoms) /\ Len(t) = Len(q) + Len(m) - Len(p) /\ Within(t, q)
      /\ \A i \in 1..Len(q) + Len(m) - Len(p) :
            t[i] = IF i <= Len(q) THEN q[i] ELSE m[i - Len(q) + Len(p)]
  BY <1>2, OntoShape
<1>4. PICK r : r = Onto(t, q, p)
  OBVIOUS
<1>5. /\ r \in Seq(Atoms) /\ Len(r) = Len(p) + Len(t) - Len(q)
      /\ \A i \in 1..Len(p) + Len(t) - Len(q) :
            r[i] = IF i <= Len(p) THEN p[i] ELSE t[i - Len(p) + Len(q)]
  BY <1>3, <1>4, OntoShape
<1>6. Len(r) = Len(m)
  BY <1>1, <1>3, <1>5
<1>7. ASSUME NEW i \in 1..Len(m)
      PROVE  r[i] = m[i]
  <2>1. i \in Nat /\ i \in 1..Len(p) + Len(t) - Len(q)
    BY <1>1, <1>3
  <2>2. CASE i <= Len(p)
    BY <1>1, <1>5, <2>1, <2>2
  <2>3. CASE i > Len(p)
    <3>1. PICK j : j = i - Len(p) + Len(q)
      OBVIOUS
    <3>2. /\ j \in 1..Len(q) + Len(m) - Len(p) /\ j > Len(q)
          /\ j - Len(q) + Len(p) = i
      BY <1>1, <2>1, <2>3, <3>1
    <3>3. r[i] = t[j]
      BY <1>1, <1>5, <2>1, <2>3, <3>1
    <3>4. t[j] = m[j - Len(q) + Len(p)]
      BY <1>1, <1>3, <3>2
    <3> QED
      BY <3>2, <3>3, <3>4
  <2> QED
    BY <1>1, <2>1, <2>2, <2>3
<1>8. r = m
  BY <1>5, <1>6, <1>7, SeqEqual
<1> QED
  BY <1>2, <1>4, <1>8

\* The beginnings of a path that moves move along.
LEMMA OntoBeginning ==
    ASSUME NEW p \in Seq(Atoms), NEW q \in Seq(Atoms), NEW m \in Seq(Atoms), Within(m, p),
           NEW n \in Nat, Len(q) <= n, n <= Len(q) + Len(m) - Len(p)
    PROVE  LET k == n - Len(q) + Len(p)
           IN  /\ k \in Nat /\ Len(p) <= k /\ k <= Len(m)
               /\ Within(Upto(m, k), p)
               /\ Upto(Onto(m, p, q), n) = Onto(Upto(m, k), p, q)
<1>1. /\ Len(p) \in Nat /\ Len(q) \in Nat /\ Len(m) \in Nat /\ Len(p) <= Len(m)
      /\ \A i \in 1..Len(p) : m[i] = p[i]
  BY Inside, LenProperties
<1>2. PICK k : k = n - Len(q) + Len(p)
  OBVIOUS
<1>3. k \in Nat /\ Len(p) <= k /\ k <= Len(m) /\ n = Len(q) + k - Len(p)
  BY <1>1, <1>2
<1>4. PICK u : u = Upto(m, k)
  OBVIOUS
<1>5. u \in Seq(Atoms) /\ Len(u) = k /\ \A i \in 1..k : u[i] = m[i]
  BY <1>3, <1>4, Beginnings
<1>6. Within(u, p)
  <2>1. \A i \in 1..Len(p) : u[i] = p[i]
    BY <1>1, <1>3, <1>5
  <2> QED
    BY <1>3, <1>5, <2>1, Inside
<1>7. PICK t : t = Onto(m, p, q)
  OBVIOUS
<1>8. /\ t \in Seq(Atoms) /\ Len(t) = Len(q) + Len(m) - Len(p)
      /\ \A i \in 1..Len(q) + Len(m) - Len(p) :
            t[i] = IF i <= Len(q) THEN q[i] ELSE m[i - Len(q) + Len(p)]
  BY <1>7, OntoShape
<1>9. PICK v : v = Onto(u, p, q)
  OBVIOUS
<1>10. /\ v \in Seq(Atoms) /\ Len(v) = Len(q) + Len(u) - Len(p)
       /\ \A i \in 1..Len(q) + Len(u) - Len(p) :
             v[i] = IF i <= Len(q) THEN q[i] ELSE u[i - Len(q) + Len(p)]
  BY <1>5, <1>6, <1>9, OntoShape
<1>11. PICK w : w = Upto(t, n)
  OBVIOUS
<1>12. w \in Seq(Atoms) /\ Len(w) = n /\ \A i \in 1..n : w[i] = t[i]
  BY <1>8, <1>11, Beginnings
<1>13. Len(v) = n
  BY <1>3, <1>5, <1>10
<1>14. ASSUME NEW i \in 1..n
       PROVE  w[i] = v[i]
  <2>1. /\ i \in Nat /\ i \in 1..Len(q) + Len(m) - Len(p)
        /\ i \in 1..Len(q) + Len(u) - Len(p)
    BY <1>1, <1>3, <1>5
  <2>2. CASE i <= Len(q)
    BY <1>8, <1>10, <1>12, <2>1, <2>2
  <2>3. CASE i > Len(q)
    <3>1. i - Len(q) + Len(p) \in 1..k
      BY <1>1, <1>3, <2>1, <2>3
    <3>2. t[i] = m[i - Len(q) + Len(p)] /\ v[i] = u[i - Len(q) + Len(p)]
      BY <1>1, <1>8, <1>10, <2>1, <2>3
    <3> QED
      BY <1>5, <1>12, <3>1, <3>2
  <2> QED
    BY <1>1, <2>1, <2>2, <2>3
<1>15. w = v
  BY <1>10, <1>12, <1>13, <1>14, SeqEqual
<1> QED
  BY <1>2, <1>3, <1>4, <1>6, <1>7, <1>9, <1>11, <1>15

\* What is below p is then below q, and nothing else moves.
LEMMA MovedValues ==
    ASSUME NEW f, NEW p \in Seq(Atoms), NEW q \in Seq(Atoms), p \in DOMAIN f,
           \A r \in DOMAIN f : r \in Seq(Atoms) /\ (Within(r, q) => r = q),
           ~Within(q, p)
    PROVE  LET M    == {r \in DOMAIN f : Within(r, p)}
               Rest == {r \in DOMAIN f : ~Within(r, p) /\ r # q}
           IN  /\ DOMAIN Moved(f, p, q) = Rest \cup {Onto(m, p, q) : m \in M}
               /\ \A m \in M : Moved(f, p, q)[Onto(m, p, q)] = f[m]
               /\ \A r \in Rest : Moved(f, p, q)[r] = f[r] /\ ~Within(r, q)
<1> DEFINE M    == {r \in DOMAIN f : Within(r, p)}
           Rest == {r \in DOMAIN f : ~Within(r, p) /\ r # q}
           G    == (DOMAIN f \ M) \cup {Onto(m, p, q) : m \in M}
<1>1. p \in M /\ Onto(p, p, q) = q
  <2>1. Len(p) \in Nat /\ Len(q) \in Nat
    BY LenProperties
  <2>2. Within(p, p)
    BY <2>1, Inside
  <2>3. PICK t : t = Onto(p, p, q)
    OBVIOUS
  <2>4. /\ t \in Seq(Atoms) /\ Len(t) = Len(q) + Len(p) - Len(p)
        /\ \A i \in 1..Len(q) + Len(p) - Len(p) :
              t[i] = IF i <= Len(q) THEN q[i] ELSE p[i - Len(q) + Len(p)]
    BY <2>2, <2>3, OntoShape
  <2>5. Len(t) = Len(q) /\ \A i \in 1..Len(q) : t[i] = q[i]
    BY <2>1, <2>4
  <2>6. t = q
    BY <2>4, <2>5, SeqEqual
  <2> QED
    BY <2>2, <2>3, <2>6
<1>2. G = Rest \cup {Onto(m, p, q) : m \in M}
  BY <1>1
<1>3. Moved(f, p, q) = [r \in G |-> IF Within(r, q) /\ Onto(r, q, p) \in M
                                      THEN f[Onto(r, q, p)] ELSE f[r]]
  BY DEF Moved
<1>4. ASSUME NEW m \in M
      PROVE  Moved(f, p, q)[Onto(m, p, q)] = f[m]
  <2>1. m \in Seq(Atoms) /\ Within(m, p)
    OBVIOUS
  <2>2. Within(Onto(m, p, q), q) /\ Onto(Onto(m, p, q), q, p) = m
    BY <2>1, OntoShape, OntoBack
  <2>3. Onto(m, p, q) \in G
    OBVIOUS
  <2> HIDE DEF G, M
  <2> QED
    BY <1>3, <2>2, <2>3
<1>5. ASSUME NEW r \in Rest
      PROVE  Moved(f, p, q)[r] = f[r] /\ ~Within(r, q)
  <2>1. ~Within(r, q) /\ r \in G
    OBVIOUS
  <2> HIDE DEF G, M, Rest
  <2> QED
    BY <1>3, <2>1
<1>6. DOMAIN Moved(f, p, q) = G
  <2> HIDE DEF G, M
  <2> QED
    BY <1>3
<1> QED
  BY <1>2, <1>4, <1>5, <1>6

\* A path whose parent is a directory that is there has only such beginnings.
LEMMA BelowParent ==
    ASSUME NEW d, NEW ds, NEW z, Tree(d, ds, z), NEW q \in Seq(Atoms), Len(q) > 1,
           Upto(q, Len(q) - 1) \in DOMAIN d, d[Upto(q, Len(q) - 1)] \in ds,
           NEW n \in 1..Len(q) - 1
    PROVE  Upto(q, n) \in DOMAIN d /\ d[Upto(q, n)] \in ds /\ Len(Upto(q, n)) = n
<1>0. Len(q) \in Nat
  BY LenProperties
<1>1. PICK u : u = Upto(q, Len(q) - 1)
  OBVIOUS
<1>2. Len(q) - 1 \in Nat /\ n \in Nat /\ Len(q) - 1 <= Len(q) /\ n <= Len(q) - 1 /\ n <= Len(q)
  BY <1>0
<1>3. Len(u) = Len(q) - 1 /\ u \in DOMAIN d /\ d[u] \in ds /\ Len(Upto(q, n)) = n
  BY <1>1, <1>2, Beginnings
<1>4. Upto(u, n) = Upto(q, n)
  BY <1>1, <1>2, BeginningOfBeginning
<1>5. CASE n = Len(q) - 1
  BY <1>1, <1>3, <1>5
<1>6. CASE n # Len(q) - 1
  <2>1. n \in 1..Len(u) - 1
    BY <1>2, <1>3, <1>6
  <2>2. Upto(u, n) \in DOMAIN d /\ d[Upto(u, n)] \in ds
    BY <1>3, <2>1 DEF Tree
  <2> QED
    BY <1>3, <1>4, <2>2
<1> QED
  BY <1>5, <1>6

\* What p moves to: q is under a directory that is not below p, and nothing is
\* below q.
LEMMA MoveSetting ==
    ASSUME NEW d, NEW ds, NEW z, Tree(d, ds, z), NEW p \in DOMAIN d,
           NEW q \in Seq(Atoms), Len(q) > 1, p # q,
           Upto(q, Len(q) - 1) \in DOMAIN d, d[Upto(q, Len(q) - 1)] \in ds,
           d[p] \in ds => ~Within(q, p),
           q \in DOMAIN d => d[q] \notin ds
    PROVE  /\ ~Within(q, p)
           /\ \A r \in DOMAIN d : r \in Seq(Atoms) /\ (Within(r, q) => r = q)
           /\ \A n \in 1..Len(q) - 1 :
                 /\ Upto(q, n) \in DOMAIN d /\ d[Upto(q, n)] \in ds
                 /\ ~Within(Upto(q, n), p) /\ Upto(q, n) # q
<1>1. /\ \A r \in DOMAIN d : r \in Seq(Atoms) /\ Len(r) \in Nat /\ Len(r) >= 1
      /\ Len(q) \in Nat /\ Len(p) \in Nat /\ p \in Seq(Atoms)
  BY LenProperties DEF Tree, Place
<1>2. \A r \in Seq(Atoms) : Upto(r, Len(r)) = r
  BY SubSeqFull DEF Upto
<1>3. \A n \in 1..Len(q) - 1 :
         Upto(q, n) \in DOMAIN d /\ d[Upto(q, n)] \in ds /\ Len(Upto(q, n)) = n
  BY BelowParent
<1>4. ~Within(q, p)
  <2> SUFFICES ASSUME Within(q, p)
               PROVE  FALSE
    OBVIOUS
  <2>1. Len(p) <= Len(q) /\ Upto(q, Len(p)) = p
    BY <1>1, Inside
  <2>2. Len(p) # Len(q)
    BY <1>2, <2>1
  <2>3. Len(p) \in 1..Len(q) - 1
    BY <1>1, <2>1, <2>2
  <2>4. d[p] \in ds
    BY <1>3, <2>1, <2>3
  <2> QED
    BY <2>4
<1>5. ASSUME NEW n \in 1..Len(q) - 1
      PROVE  ~Within(Upto(q, n), p) /\ Upto(q, n) # q
  <2>1. n \in Nat /\ n <= Len(q) /\ n # Len(q)
    BY <1>1
  <2>2. Upto(q, n) \in Seq(Atoms) /\ Len(Upto(q, n)) = n
    BY <2>1, Beginnings
  <2>3. ASSUME Within(Upto(q, n), p)
        PROVE  FALSE
    <3>1. Len(p) <= n /\ Upto(Upto(q, n), Len(p)) = p
      BY <1>1, <2>2, <2>3, Inside
    <3>2. Upto(q, Len(p)) = p
      BY <1>1, <2>1, <3>1, BeginningOfBeginning
    <3>3. Len(p) <= Len(q)
      BY <1>1, <2>1, <3>1
    <3>4. Within(q, p)
      BY <1>1, <3>2, <3>3, Inside
    <3> QED
      BY <1>4, <3>4
  <2> QED
    BY <2>1, <2>2, <2>3
<1>6. ASSUME NEW r \in DOMAIN d, Within(r, q)
      PROVE  r = q
  <2>1. Len(q) <= Len(r) /\ Upto(r, Len(q)) = q
    BY <1>1, <1>6, Inside
  <2>2. CASE Len(q) = Len(r)
    BY <1>1, <1>2, <2>1, <2>2
  <2>3. CASE Len(q) # Len(r)
    <3>1. Len(q) \in 1..Len(r) - 1
      BY <1>1, <2>1, <2>3
    <3>2. Upto(r, Len(q)) \in DOMAIN d /\ d[Upto(r, Len(q))] \in ds
      BY <3>1 DEF Tree
    <3> QED
      BY <2>1, <3>2
  <2> QED
    BY <2>2, <2>3
<1> QED
  BY <1>1, <1>3, <1>4, <1>5, <1>6

\* The places that things move to.
LEMMA MovedPlace ==
    ASSUME NEW p, Place(p), Len(p) > 2, NEW q, Place(q), Len(q) > 2,
           NEW m, Place(m), Within(m, p), Len(q) + Len(m) - Len(p) <= MaxDepth + 2
    PROVE  /\ Place(Onto(m, p, q)) /\ Len(Onto(m, p, q)) > 2
           /\ Len(Onto(m, p, q)) = Len(q) + Len(m) - Len(p)
<1>1. /\ p \in Seq(Atoms) /\ q \in Seq(Atoms) /\ m \in Seq(Atoms)
      /\ Len(p) \in Nat /\ Len(q) \in Nat /\ Len(m) \in Nat
  BY LenProperties DEF Place
<1>2. Len(p) <= Len(m)
  BY <1>1, Inside
<1>3. PICK t : t = Onto(m, p, q)
  OBVIOUS
<1>4. /\ t \in Seq(Atoms) /\ Len(t) = Len(q) + Len(m) - Len(p)
      /\ \A i \in 1..Len(q) + Len(m) - Len(p) :
            t[i] = IF i <= Len(q) THEN q[i] ELSE m[i - Len(q) + Len(p)]
  BY <1>1, <1>3, OntoShape
<1>5. Len(t) > 2 /\ Len(t) <= MaxDepth + 2 /\ Len(t) \in Nat
  BY <1>1, <1>2, <1>4
<1>6. PICK s \in Scopes : q[1] = s[1] /\ q[2] = s[2]
  BY DEF Place
<1>7. t[1] = s[1] /\ t[2] = s[2]
  <2>1. \A i \in {1, 2} : i \in 1..Len(q) + Len(m) - Len(p) /\ i <= Len(q)
    BY <1>1, <1>4, <1>5
  <2>2. \A i \in {1, 2} : t[i] = q[i]
    BY <1>4, <2>1
  <2> QED
    BY <1>6, <2>2
<1>8. ASSUME NEW i \in 3..Len(t)
      PROVE  t[i] \in Components
  <2>1. i \in Nat /\ i >= 3 /\ i \in 1..Len(q) + Len(m) - Len(p)
    BY <1>1, <1>4, <1>5
  <2>2. /\ \A j \in 3..Len(q) : q[j] \in Components
        /\ \A j \in 3..Len(m) : m[j] \in Components
    BY DEF Place
  <2>3. CASE i <= Len(q)
    BY <1>1, <1>4, <2>1, <2>2, <2>3
  <2>4. CASE i > Len(q)
    <3>1. i - Len(q) + Len(p) \in 3..Len(m)
      BY <1>1, <2>1, <2>4
    <3>2. t[i] = m[i - Len(q) + Len(p)]
      BY <1>1, <1>4, <2>1, <2>4
    <3> QED
      BY <2>2, <3>1, <3>2
  <2> QED
    BY <1>1, <2>1, <2>3, <2>4
<1>9. Place(t)
  BY <1>4, <1>5, <1>7, <1>8 DEF Place
<1> QED
  BY <1>3, <1>4, <1>5, <1>9

\* Files are counted by their nodes, and nodes do not move.
LEMMA MovedKeeps ==
    ASSUME NEW d, NEW ds, NEW z, Tree(d, ds, z), Limited(d, ds, z),
           NEW p \in DOMAIN d, Len(p) > 2, NEW q, Place(q), Len(q) > 2, p # q,
           Upto(q, Len(q) - 1) \in DOMAIN d, d[Upto(q, Len(q) - 1)] \in ds,
           d[p] \in ds => ~Within(q, p),
           d[p] \notin ds => Len(q) > 3,
           q \in DOMAIN d => d[q] \notin ds /\ d[p] \notin ds,
           \A r \in DOMAIN d : Within(r, p) => Len(q) + Len(r) - Len(p) <= MaxDepth + 2
    PROVE  LET e == Moved(d, p, q)
           IN  /\ Tree(e, ds, z) /\ Limited(e, ds, z)
               /\ Cardinality(EntriesOf(e)) =
                     Cardinality(EntriesOf(d)) - (IF q \in DOMAIN d THEN 1 ELSE 0)
               /\ Bytes(e, ds, z) =
                     Bytes(d, ds, z) - (IF q \in DOMAIN d THEN z[d[q]] ELSE 0)
               /\ \A n \in {1, 2} : Long(DOMAIN e, n) = Long(DOMAIN d, n)
               /\ Without(e, EntriesOf(e)) = Without(d, EntriesOf(d))
               /\ Records(e, z) = Moved(Without(Records(d, z), {q}), p, q)
               /\ \A r \in DOMAIN d : ~Within(r, p) /\ r # q => r \in DOMAIN e /\ e[r] = d[r]
<1> DEFINE M    == {r \in DOMAIN d : Within(r, p)}
           Rest == {r \in DOMAIN d : ~Within(r, p) /\ r # q}
           To(m) == Onto(m, p, q)
<1>1. PICK e : e = Moved(d, p, q)
  OBVIOUS
<1>2. /\ p \in Seq(Atoms) /\ q \in Seq(Atoms) /\ Place(p) /\ Len(p) \in Nat /\ Len(q) \in Nat
      /\ \A r \in DOMAIN d : Place(r) /\ r \in Seq(Atoms) /\ Len(r) \in Nat /\ d[r] \in Nodes
  BY LenProperties DEF Tree, Place
<1>3. /\ ~Within(q, p)
      /\ \A r \in DOMAIN d : r \in Seq(Atoms) /\ (Within(r, q) => r = q)
      /\ \A n \in 1..Len(q) - 1 :
            /\ Upto(q, n) \in DOMAIN d /\ d[Upto(q, n)] \in ds
            /\ ~Within(Upto(q, n), p) /\ Upto(q, n) # q
  BY <1>2, MoveSetting
<1>4. /\ DOMAIN e = Rest \cup {To(m) : m \in M}
      /\ \A m \in M : e[To(m)] = d[m]
      /\ \A r \in Rest : e[r] = d[r] /\ ~Within(r, q)
  <2>1. /\ DOMAIN Moved(d, p, q) = Rest \cup {To(m) : m \in M}
        /\ \A m \in M : Moved(d, p, q)[To(m)] = d[m]
        /\ \A r \in Rest : Moved(d, p, q)[r] = d[r] /\ ~Within(r, q)
    BY <1>2, <1>3, MovedValues
  <2> HIDE DEF M, Rest, To
  <2> QED
    BY <1>1, <2>1
<1>5. ASSUME NEW m \in M
      PROVE  /\ m \in DOMAIN d /\ Place(m) /\ m \in Seq(Atoms) /\ Within(m, p)
             /\ Len(m) \in Nat /\ Len(p) <= Len(m) /\ Len(m) > 2 /\ m # q
             /\ To(m) \in DOMAIN e /\ Place(To(m)) /\ Len(To(m)) > 2
             /\ Len(To(m)) = Len(q) + Len(m) - Len(p)
             /\ Within(To(m), q)
  <2>1. /\ m \in DOMAIN d /\ Place(m) /\ m \in Seq(Atoms) /\ Within(m, p) /\ Len(m) \in Nat
        /\ Len(q) + Len(m) - Len(p) <= MaxDepth + 2
    BY <1>2
  <2>2. Len(p) <= Len(m) /\ Len(m) > 2
    BY <1>2, <2>1, Inside
  <2>3. m # q
    BY <1>3, <2>1
  <2>4. Place(To(m)) /\ Len(To(m)) > 2 /\ Len(To(m)) = Len(q) + Len(m) - Len(p)
    BY <1>2, <2>1, MovedPlace
  <2>5. Within(To(m), q)
    BY <1>2, <2>1, OntoShape
  <2> QED
    BY <1>4, <2>1, <2>2, <2>3, <2>4, <2>5
<1>6. \A m \in M : Upto(To(m), Len(q)) = q
  <2> SUFFICES ASSUME NEW m \in M
               PROVE  Upto(To(m), Len(q)) = q
    OBVIOUS
  <2>1. To(m) \in Seq(Atoms) /\ Within(To(m), q)
    BY <1>5 DEF Place
  <2> HIDE DEF To, M
  <2> QED
    BY <1>2, <2>1, Inside
<1>7. Tree(e, ds, z)
  <2>1. IsFiniteSet(DOMAIN e)
    <3>1. IsFiniteSet(M) /\ IsFiniteSet(Rest)
      <4>1. IsFiniteSet(DOMAIN d) /\ M \subseteq DOMAIN d /\ Rest \subseteq DOMAIN d
        BY DEF Tree
      <4> QED
        BY <4>1, FS_Subset
    <3>2. IsFiniteSet({To(m) : m \in M})
      <4> DEFINE g == [m \in M |-> To(m)]
      <4>1. g \in Surjection(M, {To(m) : m \in M})
        BY DEF Surjection
      <4> QED
        BY <3>1, <4>1, FS_Surjection
    <3> HIDE DEF M, Rest, To
    <3>3. IsFiniteSet(Rest \cup {To(m) : m \in M})
      BY <3>1, <3>2, FS_Union, Zenon
    <3> QED
      BY <1>4, <3>3, Zenon
  <2>2. \A r \in DOMAIN e : Place(r) /\ e[r] \in Nodes
    <3>1. \A r \in Rest : Place(r) /\ e[r] \in Nodes
      BY <1>2, <1>4
    <3>2. \A m \in M : Place(To(m)) /\ e[To(m)] \in Nodes
      BY <1>2, <1>4, <1>5
    <3> HIDE DEF M, Rest, To
    <3> QED
      BY <1>4, <3>1, <3>2
  <2>3. IsInjective(e)
    <3>1. \A r, s \in DOMAIN d : d[r] = d[s] => r = s
      BY DEF Tree, IsInjective
    <3>2. \A m \in M : \A r \in Rest : m \in DOMAIN d /\ r \in DOMAIN d /\ m # r
      OBVIOUS
    <3> SUFFICES ASSUME NEW r \in DOMAIN e, NEW s \in DOMAIN e, e[r] = e[s]
                 PROVE  r = s
      BY DEF IsInjective
    <3> HIDE DEF M, Rest, To
    <3>3. CASE r \in Rest /\ s \in Rest
      BY <1>4, <3>1, <3>3 DEF Rest
    <3>4. CASE r \in Rest /\ s \notin Rest
      BY <1>4, <3>1, <3>2, <3>4
    <3>5. CASE r \notin Rest /\ s \in Rest
      BY <1>4, <3>1, <3>2, <3>5
    <3>6. CASE r \notin Rest /\ s \notin Rest
      <4>1. PICK m \in M : r = To(m)
        BY <1>4, <3>6
      <4>2. PICK n \in M : s = To(n)
        BY <1>4, <3>6
      <4>3. d[m] = d[n] /\ m \in DOMAIN d /\ n \in DOMAIN d
        BY <1>4, <1>5, <4>1, <4>2
      <4> QED
        BY <3>1, <4>1, <4>2, <4>3
    <3> QED
      BY <3>3, <3>4, <3>5, <3>6
  <2>4. ASSUME NEW r \in DOMAIN e, NEW n \in 1..Len(r) - 1
        PROVE  Upto(r, n) \in DOMAIN e /\ e[Upto(r, n)] \in ds
    <3>1. CASE r \in Rest
      <4>1. r \in DOMAIN d /\ ~Within(r, p) /\ ~Within(r, q) /\ r \in Seq(Atoms) /\ Len(r) \in Nat
        BY <1>2, <1>4, <3>1
      <4>2. Upto(r, n) \in DOMAIN d /\ d[Upto(r, n)] \in ds
        BY <4>1 DEF Tree
      <4>3. n \in Nat /\ n <= Len(r)
        BY <4>1
      <4>4. ASSUME NEW a \in Seq(Atoms), Within(Upto(r, n), a)
            PROVE  Within(r, a)
        <5>1. /\ Upto(r, n) \in Seq(Atoms) /\ Len(Upto(r, n)) = n
              /\ \A i \in 1..n : Upto(r, n)[i] = r[i]
          BY <4>1, <4>3, Beginnings
        <5>2. Len(a) <= n /\ \A i \in 1..Len(a) : Upto(r, n)[i] = a[i]
          BY <4>4, <5>1, Inside
        <5>3. Len(a) \in Nat
          BY LenProperties
        <5>4. Len(a) <= Len(r) /\ \A i \in 1..Len(a) : r[i] = a[i]
          BY <4>1, <4>3, <5>1, <5>2, <5>3
        <5> QED
          BY <4>1, <5>4, Inside
      <4>5. ~Within(Upto(r, n), p) /\ ~Within(Upto(r, n), q)
        BY <1>2, <4>1, <4>4
      <4>6. Within(q, q)
        BY <1>2, Inside
      <4>7. Upto(r, n) \in Rest
        BY <4>2, <4>5, <4>6
      <4> HIDE DEF Rest, M, To
      <4> QED
        BY <1>4, <4>2, <4>7
    <3>2. CASE r \notin Rest
      <4>1. PICK m \in M : r = To(m)
        BY <1>4, <3>2
      <4>2. /\ m \in DOMAIN d /\ m \in Seq(Atoms) /\ Within(m, p) /\ Len(m) \in Nat
            /\ Len(p) <= Len(m) /\ Len(r) = Len(q) + Len(m) - Len(p)
        BY <1>5, <4>1
      <4>3. n \in Nat /\ n < Len(q) + Len(m) - Len(p)
        BY <1>2, <4>2
      <4>4. r \in Seq(Atoms) /\ Upto(r, Len(q)) = q
        BY <1>5, <1>6, <4>1 DEF Place
      <4>5. CASE n < Len(q)
        <5>1. Upto(q, n) = Upto(r, n)
          <6>1. Len(q) <= Len(r) /\ n <= Len(q)
            BY <1>2, <4>2, <4>3, <4>5
          <6>2. Upto(Upto(r, Len(q)), n) = Upto(r, n)
            BY <1>2, <4>3, <4>4, <6>1, BeginningOfBeginning
          <6> QED
            BY <4>4, <6>2
        <5>2. n \in 1..Len(q) - 1
          BY <1>2, <4>3, <4>5
        <5>3. Upto(q, n) \in Rest /\ d[Upto(q, n)] \in ds
          BY <1>3, <5>2
        <5> HIDE DEF Rest, M, To
        <5> QED
          BY <1>4, <5>1, <5>3
      <4>6. CASE n >= Len(q)
        <5>1. PICK k : k = n - Len(q) + Len(p)
          OBVIOUS
        <5>2. /\ k \in Nat /\ Len(p) <= k /\ k <= Len(m) /\ Within(Upto(m, k), p)
              /\ Upto(Onto(m, p, q), n) = Onto(Upto(m, k), p, q)
          <6>1. Len(q) <= n /\ n <= Len(q) + Len(m) - Len(p)
            BY <1>2, <4>2, <4>3, <4>6
          <6> HIDE DEF Rest, M, To
          <6>2. LET j == n - Len(q) + Len(p)
                IN  /\ j \in Nat /\ Len(p) <= j /\ j <= Len(m)
                    /\ Within(Upto(m, j), p)
                    /\ Upto(Onto(m, p, q), n) = Onto(Upto(m, j), p, q)
            BY <1>2, <4>2, <4>3, <6>1, OntoBeginning
          <6> QED
            BY <5>1, <6>2
        <5>3. k \in 1..Len(m) - 1
          BY <1>2, <4>2, <4>3, <5>1, <5>2
        <5>4. Upto(m, k) \in DOMAIN d /\ d[Upto(m, k)] \in ds
          BY <4>2, <5>3 DEF Tree
        <5>5. Upto(m, k) \in M
          BY <5>2, <5>4
        <5>6. Upto(r, n) = To(Upto(m, k))
          BY <4>1, <5>2
        <5> HIDE DEF Rest, M, To
        <5> QED
          BY <1>4, <5>4, <5>5, <5>6
      <4> QED
        BY <1>2, <4>3, <4>5, <4>6
    <3> QED
      BY <3>1, <3>2
  <2>5. z \in [Nodes -> Nat]
    BY DEF Tree
  <2> QED
    BY <2>1, <2>2, <2>3, <2>4, <2>5 DEF Tree
<1>8. /\ q \in EntriesOf(d) <=> q \in DOMAIN d
      /\ \A r \in EntriesOf(d) : r \in DOMAIN d
      /\ \A r \in EntriesOf(e) : r \in DOMAIN e
  BY DEF EntriesOf, Deep
<1>9. /\ \A r \in EntriesOf(e) : \E s \in EntriesOf(d) \ {q} : e[r] = d[s]
      /\ \A s \in EntriesOf(d) \ {q} : \E r \in EntriesOf(e) : e[r] = d[s]
  <2>1. ASSUME NEW r \in EntriesOf(e)
        PROVE  \E s \in EntriesOf(d) \ {q} : e[r] = d[s]
    <3>1. CASE r \in Rest
      <4>1. r \in EntriesOf(d) \ {q}
        BY <3>1 DEF EntriesOf, Deep
      <4> QED
        BY <1>4, <3>1, <4>1
    <3>2. CASE r \notin Rest
      <4>1. PICK m \in M : r = To(m)
        BY <1>4, <1>8, <3>2
      <4>2. m \in EntriesOf(d) \ {q} /\ e[r] = d[m]
        <5>1. e[r] = d[m]
          BY <1>4, <4>1
        <5>2. m \in DOMAIN d /\ Len(m) > 2 /\ m # q
          BY <1>5
        <5> QED
          BY <5>1, <5>2 DEF EntriesOf, Deep
      <4> QED
        BY <4>2
    <3> QED
      BY <3>1, <3>2
  <2>2. ASSUME NEW s \in EntriesOf(d) \ {q}
        PROVE  \E r \in EntriesOf(e) : e[r] = d[s]
    <3>1. CASE s \in M
      <4>1. To(s) \in EntriesOf(e)
        BY <1>5, <3>1 DEF EntriesOf, Deep
      <4>2. e[To(s)] = d[s]
        BY <1>4, <3>1
      <4> QED
        BY <4>1, <4>2
    <3>2. CASE s \notin M
      <4>1. s \in Rest /\ Len(s) > 2
        BY <1>8, <3>2 DEF EntriesOf, Deep
      <4>2. s \in EntriesOf(e)
        BY <1>4, <4>1 DEF EntriesOf, Deep
      <4> QED
        BY <1>4, <4>1, <4>2
    <3> QED
      BY <3>1, <3>2
  <2> QED
    BY <2>1, <2>2
<1>10. /\ Cardinality(EntriesOf(e)) =
             Cardinality(EntriesOf(d)) - (IF q \in DOMAIN d THEN 1 ELSE 0)
       /\ Cardinality(EntriesOf(e)) <= Cardinality(EntriesOf(d))
       /\ Cardinality(EntriesOf(e)) \in Nat /\ Cardinality(EntriesOf(d)) \in Nat
  <2> DEFINE A == EntriesOf(d) \ {q}
  <2>1. {e[r] : r \in EntriesOf(e)} = {d[s] : s \in A}
    BY <1>9
  <2>2. IsFiniteSet(EntriesOf(d)) /\ IsFiniteSet(EntriesOf(e)) /\ IsFiniteSet(A)
    <3>1. IsFiniteSet(EntriesOf(d)) /\ IsFiniteSet(EntriesOf(e))
      BY <1>7, TreeFinite
    <3> QED
      BY <3>1, FS_Subset
  <2>3. Cardinality({e[r] : r \in EntriesOf(e)}) = Cardinality(EntriesOf(e))
    <3>1. \A x, y \in EntriesOf(e) : e[x] = e[y] => x = y
      BY <1>7, <1>8 DEF Tree, IsInjective
    <3> QED
      BY <2>2, <3>1, CountImage
  <2>4. Cardinality({d[s] : s \in A}) = Cardinality(A)
    <3>1. \A x, y \in A : d[x] = d[y] => x = y
      BY <1>8 DEF Tree, IsInjective
    <3> HIDE DEF A
    <3> QED
      BY <2>2, <3>1, CountImage
  <2>5. Cardinality(EntriesOf(e)) = Cardinality(A)
    <3> HIDE DEF A
    <3> QED
      BY <2>1, <2>3, <2>4, Zenon
  <2>6. Cardinality(EntriesOf(d)) \in Nat /\ Cardinality(EntriesOf(e)) \in Nat
    BY <2>2, FS_CardinalityType
  <2>7. CASE q \in DOMAIN d
    <3>1. Cardinality({q}) = 1 /\ {q} \subseteq EntriesOf(d)
      BY <1>8, <2>7, FS_Singleton
    <3>2. Cardinality(EntriesOf(d) \ {q}) = Cardinality(EntriesOf(d)) - Cardinality({q})
      BY <2>2, <3>1, CountLess, Zenon
    <3>3. Cardinality(EntriesOf(e)) = Cardinality(EntriesOf(d)) - 1
      BY <2>5, <3>1, <3>2
    <3> QED
      BY <2>6, <2>7, <3>3
  <2>8. CASE q \notin DOMAIN d
    <3>1. A = EntriesOf(d)
      BY <1>8, <2>8
    <3>2. Cardinality(EntriesOf(e)) = Cardinality(EntriesOf(d))
      BY <2>5, <3>1, Zenon
    <3> QED
      BY <2>6, <2>8, <3>2
  <2> QED
    BY <2>7, <2>8
<1>11. FileNodes(e, ds) = IF q \in DOMAIN d THEN FileNodes(d, ds) \ {d[q]} ELSE FileNodes(d, ds)
  <2>1. /\ \A n : n \in FileNodes(e, ds) <=>
              \E r \in EntriesOf(e) : n = e[r] /\ n \notin ds
        /\ \A n : n \in FileNodes(d, ds) <=>
              \E r \in EntriesOf(d) : n = d[r] /\ n \notin ds
    BY DEF FileNodes, FilesOf
  <2>2. \A n : n \in FileNodes(e, ds) <=>
              \E r \in EntriesOf(d) \ {q} : n = d[r] /\ n \notin ds
    BY <1>9, <2>1
  <2>3. \A x, y \in EntriesOf(d) : d[x] = d[y] => x = y
    BY <1>8 DEF Tree, IsInjective
  <2>4. CASE q \in DOMAIN d
    <3>1. \A n : n \in FileNodes(e, ds) <=> n \in FileNodes(d, ds) /\ n # d[q]
      BY <1>8, <2>1, <2>2, <2>3, <2>4
    <3> QED
      BY <2>4, <3>1
  <2>5. CASE q \notin DOMAIN d
    <3>1. \A n : n \in FileNodes(e, ds) <=> n \in FileNodes(d, ds)
      BY <1>8, <2>1, <2>2, <2>5
    <3> QED
      BY <2>5, <3>1
  <2> QED
    BY <2>4, <2>5
<1>12. /\ Bytes(e, ds, z) = Bytes(d, ds, z) - (IF q \in DOMAIN d THEN z[d[q]] ELSE 0)
       /\ Bytes(e, ds, z) <= Bytes(d, ds, z)
       /\ Bytes(e, ds, z) \in Nat /\ Bytes(d, ds, z) \in Nat
  <2>1. /\ IsFiniteSet(FileNodes(d, ds)) /\ Bytes(d, ds, z) \in Nat
        /\ \A n \in FileNodes(d, ds) : z[n] \in Nat
    BY TreeFinite
  <2>2. CASE q \notin DOMAIN d
    <3>1. Bytes(e, ds, z) = Bytes(d, ds, z)
      BY <1>11, <2>2, Zenon DEF Bytes
    <3> QED
      BY <2>1, <2>2, <3>1
  <2>3. CASE q \in DOMAIN d
    <3>1. d[q] \in FileNodes(d, ds)
      BY <1>8, <2>3 DEF FileNodes, FilesOf
    <3>2. /\ SumOver(z, FileNodes(d, ds) \ {d[q]}) \in Nat /\ z[d[q]] \in Nat
          /\ SumOver(z, FileNodes(d, ds)) =
                SumOver(z, FileNodes(d, ds) \ {d[q]}) + z[d[q]]
      BY <2>1, <3>1, SumSplit
    <3>3. Bytes(e, ds, z) = SumOver(z, FileNodes(d, ds) \ {d[q]})
      BY <1>11, <2>3, Zenon DEF Bytes
    <3>4. Bytes(d, ds, z) = Bytes(e, ds, z) + z[d[q]] /\ Bytes(e, ds, z) \in Nat
      BY <3>2, <3>3 DEF Bytes
    <3>5. /\ Bytes(e, ds, z) = Bytes(d, ds, z) - z[d[q]]
          /\ Bytes(e, ds, z) <= Bytes(d, ds, z)
      BY <2>1, <3>2, <3>4
    <3> QED
      BY <2>1, <2>3, <3>4, <3>5, Zenon
  <2> QED
    BY <2>2, <2>3
<1>13. /\ \A r \in DOMAIN e : Len(r) <= 2 => r \in Rest
       /\ \A r \in DOMAIN d : Len(r) <= 2 => r \in Rest
  <2>1. ASSUME NEW r \in DOMAIN e, Len(r) <= 2
        PROVE  r \in Rest
    <3> SUFFICES ASSUME r \notin Rest
                 PROVE  FALSE
      OBVIOUS
    <3>1. PICK m \in M : r = To(m)
      BY <1>4
    <3>2. Len(r) > 2 /\ Place(r)
      BY <1>5, <3>1
    <3>3. Len(r) \in Nat
      BY <3>2, LenProperties DEF Place
    <3> QED
      BY <2>1, <3>2, <3>3
  <2>2. ASSUME NEW r \in DOMAIN d, Len(r) <= 2
        PROVE  r \in Rest
    <3>1. r \in Seq(Atoms) /\ Len(r) \in Nat /\ r # q
      BY <1>2, <2>2
    <3>2. ~Within(r, p)
      BY <1>2, <2>2, <3>1, Inside
    <3> QED
      BY <3>1, <3>2
  <2> QED
    BY <2>1, <2>2
<1>14. \A n \in {1, 2} : Long(DOMAIN e, n) = Long(DOMAIN d, n)
  <2> SUFFICES ASSUME NEW n \in {1, 2}
               PROVE  Long(DOMAIN e, n) = Long(DOMAIN d, n)
    OBVIOUS
  <2>1. \A r \in Rest : r \in DOMAIN e /\ r \in DOMAIN d
    BY <1>4
  <2> HIDE DEF Rest, M, To
  <2>2. \A r : r \in Long(DOMAIN e, n) <=> r \in Long(DOMAIN d, n)
    BY <1>13, <2>1 DEF Long
  <2> QED
    BY <2>2
<1>15. Limited(e, ds, z)
  <2>1. ASSUME NEW r \in DOMAIN e, Len(r) <= 3
        PROVE  e[r] \in ds
    <3>1. CASE r \in Rest
      BY <1>4, <2>1, <3>1 DEF Limited
    <3>2. CASE r \notin Rest
      <4>1. PICK m \in M : r = To(m)
        BY <1>4, <3>2
      <4>2. /\ Len(r) = Len(q) + Len(m) - Len(p) /\ Len(m) \in Nat /\ Len(p) <= Len(m)
            /\ m \in Seq(Atoms) /\ Within(m, p) /\ e[r] = d[m]
        BY <1>4, <1>5, <4>1
      <4>3. Len(q) <= 3 /\ Len(m) = Len(p)
        BY <1>2, <2>1, <4>2
      <4>4. Upto(m, Len(p)) = p /\ Upto(m, Len(m)) = m
        BY <1>2, <4>2, Inside, SubSeqFull DEF Upto
      <4>5. m = p
        BY <4>3, <4>4
      <4>6. d[p] \in ds
        BY <1>2, <4>3
      <4> QED
        BY <4>2, <4>5, <4>6
    <3> QED
      BY <3>1, <3>2
  <2>2. /\ Cardinality(EntriesOf(d)) <= MaxEntries /\ Bytes(d, ds, z) <= MaxBytes
        /\ MaxEntries \in Nat /\ MaxBytes \in Nat
    BY OverlayAssumption DEF Limited
  <2>3. Cardinality(EntriesOf(e)) <= MaxEntries /\ Bytes(e, ds, z) <= MaxBytes
    BY <1>10, <1>12, <2>2
  <2>4. /\ Cardinality(Long(DOMAIN e, 1)) <= MaxEntries
        /\ Cardinality(Long(DOMAIN e, 2)) <= MaxEntries
    BY <1>14 DEF Limited
  <2>5. \A n \in FileNodes(e, ds) : z[n] <= MaxFileSize
    BY <1>11 DEF Limited
  <2> QED
    BY <2>1, <2>3, <2>4, <2>5 DEF Limited
<1>16. Without(e, EntriesOf(e)) = Without(d, EntriesOf(d))
  <2> DEFINE C == DOMAIN d \ EntriesOf(d)
  <2>1. /\ \A r \in DOMAIN d : r \in EntriesOf(d) <=> ~(Len(r) <= 2)
        /\ \A r \in DOMAIN e : r \in EntriesOf(e) <=> ~(Len(r) <= 2)
    <3>1. \A r \in DOMAIN d \cup DOMAIN e : Len(r) \in Nat
      BY <1>7, LenProperties DEF Tree, Place
    <3> QED
      BY <3>1 DEF EntriesOf, Deep
  <2>2. \A r \in Rest : r \in DOMAIN e /\ r \in DOMAIN d /\ e[r] = d[r]
    BY <1>4
  <2>3. /\ DOMAIN e \ EntriesOf(e) = C
        /\ \A r \in C : e[r] = d[r]
    <3> HIDE DEF Rest, M, To
    <3> QED
      BY <1>13, <2>1, <2>2
  <2> HIDE DEF C
  <2> QED
    BY <2>3 DEF Without, Restrict, C
<1>17. Records(e, z) = Moved(Without(Records(d, z), {q}), p, q)
  <2>1. PICK g : g = Without(Records(d, z), {q})
    OBVIOUS
  <2>2. /\ DOMAIN g = EntriesOf(d) \ {q}
        /\ \A r \in EntriesOf(d) \ {q} : g[r] = [id |-> d[r], size |-> z[d[r]]]
    BY <2>1 DEF Without, Restrict, Records
  <2>3. PICK h : h = Moved(g, p, q)
    OBVIOUS
  <2> DEFINE K == {r \in DOMAIN g : ~Within(r, p) /\ r # q}
             L == {r \in DOMAIN g : Within(r, p)}
  <2>4. L = M /\ K = {r \in Rest : Len(r) > 2}
    BY <1>5, <1>8, <2>2 DEF EntriesOf, Deep
  <2>5. /\ DOMAIN h = K \cup {To(m) : m \in L}
        /\ \A m \in L : h[To(m)] = g[m]
        /\ \A r \in K : h[r] = g[r]
    <3>1. p \in DOMAIN g /\ \A r \in DOMAIN g : r \in Seq(Atoms) /\ (Within(r, q) => r = q)
      BY <1>3, <1>8, <2>2 DEF EntriesOf, Deep
    <3>2. /\ DOMAIN Moved(g, p, q) = K \cup {To(m) : m \in L}
          /\ \A m \in L : Moved(g, p, q)[To(m)] = g[m]
          /\ \A r \in K : Moved(g, p, q)[r] = g[r] /\ ~Within(r, q)
      BY <1>2, <1>3, <3>1, MovedValues
    <3> HIDE DEF K, L, To
    <3> QED
      BY <2>3, <3>2
  <2>6. DOMAIN h = EntriesOf(e)
    <3>1. \A r : r \in EntriesOf(e) <=> r \in DOMAIN e /\ Len(r) > 2
      BY DEF EntriesOf, Deep
    <3>2. \A m \in M : Len(To(m)) > 2
      BY <1>5
    <3> HIDE DEF Rest, M, To, K, L
    <3>3. \A r : r \in DOMAIN h <=> r \in EntriesOf(e)
      BY <1>4, <2>4, <2>5, <3>1, <3>2
    <3> QED
      BY <3>3
  <2>7. ASSUME NEW r \in EntriesOf(e)
        PROVE  h[r] = [id |-> e[r], size |-> z[e[r]]]
    <3>1. CASE r \in K
      <4>1. r \in Rest /\ r \in EntriesOf(d) \ {q}
        BY <2>2, <2>4, <3>1
      <4>2. e[r] = d[r] /\ h[r] = g[r]
        BY <1>4, <2>5, <3>1, <4>1
      <4> QED
        BY <2>2, <4>1, <4>2
    <3>2. CASE r \notin K
      <4>1. PICK m \in L : r = To(m)
        BY <2>5, <2>6, <3>2
      <4>2. m \in M /\ m \in EntriesOf(d) \ {q}
        BY <2>2, <2>4, <4>1
      <4>3. e[r] = d[m] /\ h[r] = g[m]
        <5> HIDE DEF Rest, M, To, K, L
        <5> QED
          BY <1>4, <2>5, <4>1, <4>2
      <4> QED
        BY <2>2, <4>2, <4>3
    <3> QED
      BY <3>1, <3>2
  <2>8. h = [r \in DOMAIN h |-> h[r]]
    BY <2>3 DEF Moved
  <2>9. h = Records(e, z)
    <3> HIDE DEF K, L
    <3> QED
      BY <2>6, <2>7, <2>8 DEF Records
  <2> QED
    BY <2>1, <2>3, <2>9
<1>18. \A r \in DOMAIN d : ~Within(r, p) /\ r # q => r \in DOMAIN e /\ e[r] = d[r]
  BY <1>4
<1> HIDE DEF M, Rest, To
<1> QED
  BY <1>1, <1>7, <1>10, <1>12, <1>14, <1>15, <1>16, <1>17, <1>18

-----------------------------------------------------------------------------
(* The store *)

\* The storage is one that a Store may have left.
Sound == Tree(disk, dirs, size) /\ Limited(disk, dirs, size)

\* What is recorded and counted is what is there.
Accounted ==
    /\ entries = Records(disk, size)
    /\ count = Cardinality(EntriesOf(disk)) /\ total = Bytes(disk, dirs, size)
    /\ containers = Without(disk, EntriesOf(disk))
    /\ workspaces = Cardinality(Long(DOMAIN disk, 1))
    /\ scopes = Cardinality(Long(DOMAIN disk, 2))

\* A handle is of the file that is at its path.
HandlesExact ==
    \A h \in DOMAIN handles :
        /\ handles[h].path \in FilesOf(disk, dirs)
        /\ disk[handles[h].path] = handles[h].id

Consistent == Sound /\ (Usable => Accounted /\ HandlesExact)

\* The inductive invariant: it needs the tree and the handles, which neither of
\* the properties mentions, and both properties at once.
OverlayInv == ~meddled => Consistent

LEMMA SoundScannable ==
    ASSUME Tree(disk, dirs, size)
    PROVE  Scannable <=> Limited(disk, dirs, size)
<1>1. DiskEntries = EntriesOf(disk) /\ DiskFiles = FilesOf(disk, dirs)
  BY DEF DiskEntries, EntriesOf, DiskFiles, FilesOf, IsDir
<1>2. DiskBytes = Bytes(disk, dirs, size)
  BY <1>1, Zenon DEF DiskBytes, Bytes, FileNodes
<1>3. \A p \in DiskEntries : p \in Locations
  <2>1. \A p \in DiskEntries : Place(p) /\ Len(p) > 2
    BY DEF Tree, DiskEntries, Deep
  <2> QED
    BY <2>1, PlaceLevels
<1>4. (\A p \in DiskFiles : size[disk[p]] <= MaxFileSize)
         <=> (\A n \in FileNodes(disk, dirs) : size[n] <= MaxFileSize)
  BY <1>1 DEF FileNodes
<1> QED
  BY <1>1, <1>2, <1>3, <1>4, Zenon DEF Scannable, Limited, IsDir

\* While the accounts agree with the disk, there is nothing to refresh.
LEMMA AccountedFacts ==
    ASSUME Sound, Accounted
    PROVE  /\ \A P : Refreshed(entries, P) = entries /\ Grown(entries, P) = 0
           /\ DOMAIN entries = EntriesOf(disk)
           /\ \A p \in EntriesOf(disk) : entries[p] = [id |-> disk[p], size |-> size[disk[p]]]
           /\ total \in Nat /\ count \in Nat
<1>1. /\ DOMAIN entries = EntriesOf(disk)
      /\ \A p \in EntriesOf(disk) : entries[p] = [id |-> disk[p], size |-> size[disk[p]]]
  BY DEF Accounted, Records
<1>2. \A p \in EntriesOf(disk) : disk[p] \in Nodes /\ size[disk[p]] \in Nat
  BY DEF Sound, Tree, EntriesOf, Deep
<1>3. IsFiniteSet(EntriesOf(disk)) /\ total \in Nat
  BY TreeFinite DEF Sound, Accounted
<1>4. count \in Nat
  BY <1>3, FS_CardinalityType DEF Accounted
<1>5. \A P : Refreshed(entries, P) = entries /\ Grown(entries, P) = 0
  <2>1. \A p \in DOMAIN entries : entries[p].size = size[entries[p].id]
    BY <1>1
  <2>2. entries \in [DOMAIN entries -> [id : Nodes, size : Nat]]
    BY <1>1, <1>2 DEF Accounted, Records
  <2>3. IsFiniteSet(DOMAIN entries)
    BY <1>1, <1>3
  <2> QED
    BY <2>1, <2>2, <2>3, NoGrowth
<1> QED
  BY <1>1, <1>3, <1>4, <1>5

\* What a path is, in terms of its beginnings.
LEMMA LocationParts ==
    ASSUME NEW p \in Locations
    PROVE  /\ Place(p) /\ p \in Seq(Atoms) /\ Len(p) \in Nat /\ Len(p) > 2
           /\ Workspace(p) = Upto(p, 1) /\ Scope(p) = Upto(p, 2)
           /\ Front(p) = Upto(p, Len(p) - 1)
<1>1. Place(p) /\ Len(p) > 2
  BY LocationShape
<1> QED
  BY <1>1, PlaceLevels DEF Workspace, Scope, Upto, Front

LEMMA NewKeeps ==
    ASSUME Consistent, New
    PROVE  Consistent'
<1>1. UNCHANGED <<disk, dirs, size>>
  BY DEF New, storage
<1>2. Sound'
  BY <1>1 DEF Consistent, Sound
<1>3. DiskEntries = EntriesOf(disk) /\ DiskFiles = FilesOf(disk, dirs)
  BY DEF DiskEntries, EntriesOf, DiskFiles, FilesOf, IsDir
<1>4. DiskBytes = Bytes(disk, dirs, size)
  BY <1>3, Zenon DEF DiskBytes, Bytes, FileNodes
<1>5. Accounted'
  BY <1>1, <1>3, <1>4 DEF New, Accounted, Records, Counted
<1>6. HandlesExact'
  BY DEF New, HandlesExact, Nothing
<1> QED
  BY <1>2, <1>5, <1>6 DEF Consistent

\* The process dies, or the store is closed or poisoned: it takes no more
\* operations, and the storage is what counts.
LEMMA StoppedKeeps ==
    ASSUME Consistent, \/ CloseStore \/ Crash \/ Refuse
    PROVE  Consistent'
<1>1. UNCHANGED <<disk, dirs, size>>
  BY DEF CloseStore, Crash, Refuse, storage, overlayVars
<1>2. Sound'
  BY <1>1 DEF Consistent, Sound
<1>3. CASE CloseStore \/ Crash
  BY <1>2, <1>3 DEF CloseStore, Crash, Down, Consistent, Usable
<1>4. CASE Refuse
  BY <1>2, <1>4 DEF Refuse, Consistent, Usable, Accounted, HandlesExact, overlayVars,
                    storage, accounting
<1> QED
  BY <1>3, <1>4

\* Records that are refreshed.
LEMMA RefreshKeeps ==
    ASSUME Sound, Accounted, NEW P, Refresh(P),
           UNCHANGED <<disk, dirs, size, count, containers, workspaces, scopes>>
    PROVE  Sound' /\ Accounted'
<1>1. entries' = entries /\ total' = total
  BY AccountedFacts DEF Refresh
<1> QED
  BY <1>1 DEF Sound, Accounted

LEMMA LookKeeps ==
    ASSUME Consistent, NEW P, Look(P)
    PROVE  Consistent'
<1>1. UNCHANGED <<disk, dirs, size, state, poison, count, containers, workspaces, scopes, handles>>
  BY DEF Look, storage
<1>2. Sound' /\ Accounted'
  BY <1>1, RefreshKeeps DEF Look, Consistent
<1>3. HandlesExact'
  BY <1>1 DEF Look, Consistent, HandlesExact
<1> QED
  BY <1>2, <1>3 DEF Consistent

LEMMA ReadAtKeeps ==
    ASSUME Consistent, NEW h, NEW seen, ReadAt(h, seen)
    PROVE  Consistent'
<1>1. UNCHANGED <<disk, dirs, size, state, count, containers, workspaces, scopes, handles>>
  BY DEF ReadAt, storage
<1>2. CASE seen
  <2>1. Sound' /\ Accounted'
    BY <1>1, <1>2, RefreshKeeps DEF ReadAt, Consistent
  <2>2. HandlesExact'
    BY <1>1 DEF ReadAt, Consistent, HandlesExact
  <2> QED
    BY <2>1, <2>2 DEF Consistent
<1>3. CASE ~seen
  BY <1>1, <1>3 DEF ReadAt, Consistent, Sound, Usable
<1> QED
  BY <1>2, <1>3

LEMMA CloseFileKeeps ==
    ASSUME Consistent, NEW h, CloseFile(h)
    PROVE  Consistent'
<1>1. UNCHANGED <<disk, dirs, size, state, poison, entries, total, count, containers, workspaces, scopes>>
  BY DEF CloseFile, storage, accounting
<1>2. DOMAIN handles' = DOMAIN handles \ {h} /\ \A x \in DOMAIN handles' : handles'[x] = handles[x]
  BY DEF CloseFile, Without, Restrict
<1>3. Sound' /\ (Usable' <=> Usable)
  BY <1>1 DEF Consistent, Sound, Usable
<1>4. Usable => Accounted' /\ HandlesExact'
  BY <1>1, <1>2 DEF Consistent, Accounted, HandlesExact
<1> QED
  BY <1>3, <1>4 DEF Consistent

\* A file that is open, or is to be, gets n bytes.
LEMMA ResizeKeeps ==
    ASSUME Sound, Accounted, NEW p \in FilesOf(disk, dirs), NEW n \in Nat, n <= MaxFileSize,
           n - size[disk[p]] <= MaxBytes - Bytes(disk, dirs, size),
           NEW seen \in BOOLEAN, Resize(p, disk[p], n, seen),
           UNCHANGED <<disk, dirs, count, containers, workspaces, scopes>>
    PROVE  Sound' /\ (~poison' => Accounted')
<1>1. PICK id : id = disk[p]
  OBVIOUS
<1>2. p \in EntriesOf(disk) /\ id \in FileNodes(disk, dirs)
  BY <1>1 DEF FilesOf, FileNodes
<1>3. /\ \A m \in Nodes : size[m] \in Nat
      /\ size \in [Nodes -> Nat] /\ id \in Nodes
      /\ \A r \in EntriesOf(disk) : disk[r] \in Nodes
      /\ \A r, s \in EntriesOf(disk) : disk[r] = disk[s] => r = s
  BY <1>1, <1>2 DEF Sound, Tree, IsInjective, EntriesOf, Deep
<1>4. size' = [size EXCEPT ![id] = n]
  BY <1>1 DEF Resize
<1>5. size' \in [Nodes -> Nat] /\ size'[id] = n /\ \A m \in Nodes \ {id} : size'[m] = size[m]
  BY <1>3, <1>4
<1>6. /\ Tree(disk, dirs, size') /\ Limited(disk, dirs, size')
      /\ Bytes(disk, dirs, size') = Bytes(disk, dirs, size) + n - size[id]
  <2>1. Tree(disk, dirs, size) /\ Limited(disk, dirs, size)
    BY DEF Sound
  <2>2. n - size[id] <= MaxBytes - Bytes(disk, dirs, size)
    BY <1>1
  <2> QED
    BY <1>2, <1>5, <2>1, <2>2, ResizedKeeps
<1>7. Sound'
  BY <1>6 DEF Sound
<1>8. ASSUME ~poison'
      PROVE  Accounted'
  <2>1. seen
    BY <1>8 DEF Resize
  <2>2. /\ entries' = [entries EXCEPT ![p].size = n]
        /\ total' = total + Grown(entries, {p}) + (n - size[id])
    BY <1>1, <2>1 DEF Resize
  <2>3. total' = Bytes(disk', dirs', size')
    <3>1. Grown(entries, {p}) = 0 /\ total = Bytes(disk, dirs, size) /\ total \in Nat
      BY AccountedFacts DEF Accounted
    <3>2. total' = Bytes(disk, dirs, size')
      BY <1>3, <1>6, <2>2, <3>1
    <3> QED
      BY <3>2
  <2>4. entries' = Records(disk', size')
    <3>1. entries = [r \in EntriesOf(disk) |-> [id |-> disk[r], size |-> size[disk[r]]]]
      BY DEF Accounted, Records
    <3>2. entries' = [r \in EntriesOf(disk) |->
                        IF r = p THEN [id |-> id, size |-> n]
                                 ELSE [id |-> disk[r], size |-> size[disk[r]]]]
      BY <1>1, <1>2, <2>2, <3>1
    <3>3. ASSUME NEW r \in EntriesOf(disk)
          PROVE  [id |-> disk[r], size |-> size'[disk[r]]] =
                    IF r = p THEN [id |-> id, size |-> n]
                             ELSE [id |-> disk[r], size |-> size[disk[r]]]
      <4>1. CASE r = p
        BY <1>1, <1>5, <4>1
      <4>2. CASE r # p
        <5>1. disk[r] # id /\ disk[r] \in Nodes
          BY <1>1, <1>2, <1>3, <4>2
        <5> QED
          BY <1>5, <4>2, <5>1
      <4> QED
        BY <4>1, <4>2
    <3> QED
      BY <3>2, <3>3 DEF Records
  <2> QED
    BY <2>3, <2>4 DEF Accounted
<1> QED
  BY <1>7, <1>8

LEMMA WriteKeeps ==
    ASSUME Consistent, NEW h \in DOMAIN handles, NEW n \in Sizes, NEW got \in Sizes,
           NEW seen \in BOOLEAN, Write(h, n, got, seen)
    PROVE  Consistent'
<1> DEFINE p == handles[h].path
           id == handles[h].id
<1>1. Usable /\ Sound /\ Accounted /\ HandlesExact
  BY DEF Write, Consistent
<1>2. p \in FilesOf(disk, dirs) /\ disk[p] = id
  BY <1>1 DEF HandlesExact
<1>3. /\ Growth(total + Grown(entries, {p}), size[id], n)
      /\ got = n \/ got \in size[id]..n \/ got = size[id]
      /\ Resize(p, id, got, seen)
      /\ UNCHANGED <<disk, dirs, state, count, containers, workspaces, scopes, handles>>
  BY DEF Write
<1>4. /\ got \in Nat /\ got <= MaxFileSize /\ n \in Nat
      /\ MaxBytes \in Nat
  BY OverlayAssumption DEF Sizes
<1>5. size[id] \in Nat
  BY <1>1, <1>2 DEF Sound, Tree, FilesOf, EntriesOf, Deep
<1>6. got - size[id] <= MaxBytes - Bytes(disk, dirs, size)
  <2>1. Grown(entries, {p}) = 0 /\ total = Bytes(disk, dirs, size) /\ total \in Nat
    BY <1>1, AccountedFacts DEF Accounted
  <2>2. total <= MaxBytes
    BY <1>1, <2>1 DEF Sound, Limited
  <2>3. n > size[id] => n - size[id] <= MaxBytes - total
    BY <1>3, <2>1 DEF Growth
  <2> HIDE DEF id
  <2> QED
    BY <1>3, <1>4, <1>5, <2>1, <2>2, <2>3
<1>7. Sound' /\ (~poison' => Accounted')
  BY <1>1, <1>2, <1>3, <1>4, <1>6, ResizeKeeps
<1>8. HandlesExact'
  BY <1>1, <1>3 DEF HandlesExact, FilesOf
<1> QED
  BY <1>7, <1>8 DEF Consistent, Usable

LEMMA OpenKeeps ==
    ASSUME Consistent, NEW h, NEW p \in Locations, NEW writable,
           NEW trunc \in BOOLEAN, NEW ok \in BOOLEAN, NEW seen \in BOOLEAN,
           Open(h, p, writable, trunc, ok, seen)
    PROVE  Consistent'
<1>1. Usable /\ Sound /\ Accounted /\ HandlesExact
  BY DEF Open, Consistent
<1>2. p \in FilesOf(disk, dirs)
  BY LocationParts DEF Open, Recorded, Exists, IsDir, FilesOf, EntriesOf, Deep
<1>3. UNCHANGED <<disk, dirs, state, count, containers, workspaces, scopes>>
  BY DEF Open
<1>4. Sound' /\ (~poison' => Accounted')
  <2>1. CASE ~trunc
    <3>1. Refresh({p}) /\ UNCHANGED size
      BY <2>1 DEF Open
    <3> QED
      BY <1>1, <1>3, <3>1, RefreshKeeps
  <2>2. CASE trunc
    <3>1. PICK n : n = IF ok THEN 0 ELSE size[disk[p]]
      OBVIOUS
    <3>2. Resize(p, disk[p], n, seen)
      BY <2>2, <3>1 DEF Open
    <3>3. /\ size[disk[p]] \in Nat /\ size[disk[p]] <= MaxFileSize
          /\ Bytes(disk, dirs, size) <= MaxBytes /\ Bytes(disk, dirs, size) \in Nat
          /\ MaxBytes \in Nat /\ MaxFileSize \in Nat
      <4>1. disk[p] \in FileNodes(disk, dirs)
        BY <1>2 DEF FileNodes
      <4> QED
        BY <1>1, <4>1, TreeFinite, OverlayAssumption DEF Sound, Limited
    <3>4. /\ n \in Nat /\ n <= MaxFileSize
          /\ n - size[disk[p]] <= MaxBytes - Bytes(disk, dirs, size)
      BY <3>1, <3>3
    <3> QED
      BY <1>1, <1>2, <1>3, <3>2, <3>4, ResizeKeeps
  <2> QED
    BY <2>1, <2>2
<1>5. HandlesExact'
  <2>1. CASE ok /\ seen
    <3>1. handles' = Joined(handles, [x \in {h} |->
                        [path |-> p, id |-> disk[p], writable |-> writable]])
      BY <2>1 DEF Open, WithHandle
    <3>2. /\ DOMAIN handles' = DOMAIN handles \cup {h}
          /\ handles'[h].path = p /\ handles'[h].id = disk[p]
          /\ \A x \in DOMAIN handles : x # h => handles'[x] = handles[x]
      BY <3>1 DEF Joined
    <3> QED
      BY <1>1, <1>2, <1>3, <3>2 DEF HandlesExact, FilesOf
  <2>2. CASE ~(ok /\ seen)
    <3>1. handles' = handles
      BY <2>2 DEF Open
    <3> QED
      BY <1>1, <1>3, <3>1 DEF HandlesExact, FilesOf
  <2> QED
    BY <2>1, <2>2
<1> QED
  BY <1>4, <1>5 DEF Consistent, Usable

\* Paths D are made, of new nodes f, where there is room for them; and they are
\* accounted for, if the store gets that far.
LEMMA GrowthKeeps ==
    ASSUME Sound, NEW D, IsFiniteSet(D), D \cap DOMAIN disk = {},
           NEW f \in [D -> Unused], Fits(D, f), disk' = Joined(disk, f),
           \A n \in Nodes : n \notin Range(f) => (n \in dirs' <=> n \in dirs) /\ size'[n] = size[n],
           \A p \in D : size'[f[p]] = 0, size' \in [Nodes -> Nat],
           Suited(disk, dirs, D, f, dirs')
    PROVE  /\ Sound'
           /\ Accounted /\ Registered(D) => Accounted'
           /\ \A p \in FilesOf(disk, dirs) : p \in FilesOf(disk', dirs') /\ disk'[p] = disk[p]
           /\ \A p \in D : p \in DOMAIN disk' /\ disk'[p] = f[p]
<1>1. Tree(disk, dirs, size) /\ Limited(disk, dirs, size)
  BY DEF Sound
<1>2. Extended(disk, dirs, size, D, f, disk', dirs', size')
  <2>1. \A p \in DOMAIN disk : disk[p] \in Nodes /\ disk[p] \in Range(disk)
    BY <1>1 DEF Tree, Range
  <2>2. \A p \in D : f[p] \in Nodes /\ f[p] \notin Range(disk)
    BY DEF Unused
  <2>3. \A p \in DOMAIN disk : disk[p] \notin Range(f)
    BY <2>1, <2>2 DEF Range
  <2> QED
    BY <2>1, <2>2, <2>3 DEF Extended
<1>3. /\ Tree(disk', dirs', size') /\ Limited(disk', dirs', size')
      /\ DOMAIN disk' = DOMAIN disk \cup D
      /\ \A p \in DOMAIN disk : disk'[p] = disk[p]
      /\ \A p \in D : disk'[p] = f[p]
      /\ EntriesOf(disk') = EntriesOf(disk) \cup Deep(D)
      /\ Cardinality(EntriesOf(disk')) = Cardinality(EntriesOf(disk)) + Cardinality(Deep(D))
      /\ \A n \in {1, 2} : Cardinality(Long(DOMAIN disk', n)) =
            Cardinality(Long(DOMAIN disk, n)) + Cardinality(Long(D, n))
      /\ Bytes(disk', dirs', size') = Bytes(disk, dirs, size)
  <2>1. PICK e : e = disk'
    OBVIOUS
  <2>2. PICK es : es = dirs'
    OBVIOUS
  <2>3. PICK y : y = size'
    OBVIOUS
  <2>4. Extended(disk, dirs, size, D, f, e, es, y) /\ Suited(disk, dirs, D, f, es)
    BY <1>2, <2>1, <2>2, <2>3
  <2>5. /\ Tree(e, es, y) /\ Limited(e, es, y)
        /\ DOMAIN e = DOMAIN disk \cup D
        /\ \A p \in DOMAIN disk : e[p] = disk[p]
        /\ \A p \in D : e[p] = f[p]
        /\ EntriesOf(e) = EntriesOf(disk) \cup Deep(D)
        /\ Cardinality(EntriesOf(e)) = Cardinality(EntriesOf(disk)) + Cardinality(Deep(D))
        /\ \A n \in {1, 2} : Cardinality(Long(DOMAIN e, n)) =
              Cardinality(Long(DOMAIN disk, n)) + Cardinality(Long(D, n))
        /\ Bytes(e, es, y) = Bytes(disk, dirs, size)
    BY <1>1, <2>4, ExtendedKeeps
  <2> QED
    BY <2>1, <2>2, <2>3, <2>5
<1>4. \A p \in DOMAIN disk : size'[disk[p]] = size[disk[p]] /\ (disk[p] \in dirs' <=> disk[p] \in dirs)
  BY <1>2 DEF Extended
<1>5. \A p \in FilesOf(disk, dirs) : p \in FilesOf(disk', dirs') /\ disk'[p] = disk[p]
  BY <1>3, <1>4 DEF FilesOf, EntriesOf, Deep
<1>6. ASSUME Accounted, Registered(D)
      PROVE  Accounted'
  <2> DEFINE E == Deep(D)
  <2>0. E \subseteq D /\ EntriesOf(disk) \subseteq DOMAIN disk
    BY DEF EntriesOf, Deep
  <2>1. entries' = Records(disk', size')
    <3> DEFINE g == [r \in E |-> [id |-> disk'[r], size |-> 0]]
    <3>1. entries' = Joined(entries, g) /\ entries = Records(disk, size)
      BY <1>6 DEF Registered, Accounted
    <3>2. /\ DOMAIN Records(disk, size) = EntriesOf(disk) /\ DOMAIN g = E
          /\ \A r \in EntriesOf(disk) :
                Records(disk, size)[r] = [id |-> disk[r], size |-> size[disk[r]]]
          /\ \A r \in E : g[r] = [id |-> disk'[r], size |-> 0]
      BY DEF Records
    <3>3. \A r \in EntriesOf(disk) : disk'[r] = disk[r] /\ size'[disk'[r]] = size[disk[r]] /\ r \notin E
      BY <1>3, <1>4, <2>0
    <3>4. \A r \in E : size'[disk'[r]] = 0
      BY <1>3, <2>0
    <3>5. entries' = [r \in EntriesOf(disk) \cup E |->
                        IF r \in E THEN g[r] ELSE Records(disk, size)[r]]
      BY <3>1, <3>2, Zenon DEF Joined
    <3>6. ASSUME NEW r \in EntriesOf(disk) \cup E
          PROVE  (IF r \in E THEN g[r] ELSE Records(disk, size)[r]) =
                    [id |-> disk'[r], size |-> size'[disk'[r]]]
      <4> HIDE DEF g, E
      <4>1. CASE r \in E
        BY <3>2, <3>4, <4>1
      <4>2. CASE r \notin E
        BY <3>2, <3>3, <4>2
      <4> QED
        BY <4>1, <4>2
    <3>7. EntriesOf(disk') = EntriesOf(disk) \cup E
      BY <1>3
    <3>8. Records(disk', size') =
             [r \in EntriesOf(disk) \cup E |-> [id |-> disk'[r], size |-> size'[disk'[r]]]]
      BY <3>7, Zenon DEF Records
    <3> HIDE DEF g, E
    <3> QED
      BY <3>5, <3>6, <3>8
  <2>2. containers' = Without(disk', EntriesOf(disk'))
    <3> DEFINE C == DOMAIN disk \ EntriesOf(disk)
               B == D \ E
    <3>1. containers' = Joined(Without(disk, EntriesOf(disk)), Restrict(disk', B))
      BY <1>6 DEF Registered, Accounted
    <3>2. /\ Without(disk, EntriesOf(disk)) = [r \in C |-> disk[r]]
          /\ Restrict(disk', B) = [r \in B |-> disk'[r]]
      BY DEF Without, Restrict
    <3>3. containers' = [r \in C \cup B |-> IF r \in B THEN disk'[r] ELSE disk[r]]
      BY <3>1, <3>2 DEF Joined
    <3>4. \A r \in C \cup B : (IF r \in B THEN disk'[r] ELSE disk[r]) = disk'[r]
      BY <1>3
    <3>5. DOMAIN disk' \ EntriesOf(disk') = C \cup B
      BY <1>3, <2>0
    <3>6. Without(disk', EntriesOf(disk')) = [r \in C \cup B |-> disk'[r]]
      BY <3>5, Zenon DEF Without, Restrict
    <3> HIDE DEF C, B
    <3> QED
      BY <3>3, <3>4, <3>6
  <2>3. /\ count' = Cardinality(EntriesOf(disk')) /\ total' = Bytes(disk', dirs', size')
        /\ workspaces' = Cardinality(Long(DOMAIN disk', 1))
        /\ scopes' = Cardinality(Long(DOMAIN disk', 2))
    BY <1>3, <1>6 DEF Registered, Accounted
  <2> QED
    BY <2>1, <2>2, <2>3 DEF Accounted
<1> QED
  BY <1>3, <1>5, <1>6 DEF Sound

\* A new node is one that nobody knows.
LEMMA NewNodeUnused ==
    ASSUME Unused # {}
    PROVE  NewNode \in Unused /\ NewNode \in Nodes
<1>1. NewNode \in Unused
  BY DEF NewNode
<1> QED
  BY <1>1 DEF Unused

\* One thing of either level, or nothing.
LEMMA LevelsOfOne ==
    ASSUME NEW p, Place(p), Len(p) > 2
    PROVE  /\ Deep({p}) = {p} /\ \A n \in {1, 2} : Long({p}, n) = {}
           /\ IsFiniteSet({p}) /\ Cardinality({p}) = 1
           /\ Cardinality({}) = 0
<1>0. Len(p) \in Nat
  BY PlaceLevels, Zenon
<1>1. Len(p) # 1 /\ Len(p) # 2
  <2>1. \A n \in Nat : n > 2 => n # 1 /\ n # 2
    OBVIOUS
  <2> QED
    BY <1>0, <2>1
<1> QED
  BY <1>1, FS_Singleton, FS_EmptySet DEF Deep, Long

LEMMA CreateKeeps ==
    ASSUME Consistent, NEW h, NEW p \in Locations, NEW writable, NEW end,
           end \in {"ok", "unchecked", "crash"}, Create(h, p, writable, end)
    PROVE  Consistent'
<1> DEFINE id == NewNode
           f  == [r \in {p} |-> id]
<1>1. Usable /\ Sound /\ Accounted /\ HandlesExact
  BY DEF Create, Consistent
<1>2. /\ Place(p) /\ p \in Seq(Atoms) /\ Len(p) \in Nat /\ Len(p) > 3
      /\ Front(p) = Upto(p, Len(p) - 1) /\ p \notin DOMAIN disk
      /\ Front(p) \in DOMAIN disk /\ disk[Front(p)] \in dirs
  BY LocationParts DEF Create, Depth, Destination, Exists, IsDir
<1>3. /\ id \in Unused /\ id \in Nodes
      /\ disk' = Joined(disk, f) /\ dirs' = dirs \ {id} /\ size' = [size EXCEPT ![id] = 0]
  BY NewNodeUnused DEF Create
<1>4. size \in [Nodes -> Nat]
  BY <1>1 DEF Sound, Tree
<1>5. /\ f \in [{p} -> Unused] /\ f[p] = id /\ Range(f) = {id}
  BY <1>3 DEF Range
<1>6. /\ Sound'
      /\ Accounted /\ Registered({p}) => Accounted'
      /\ \A r \in FilesOf(disk, dirs) : r \in FilesOf(disk', dirs') /\ disk'[r] = disk[r]
      /\ \A r \in {p} : r \in DOMAIN disk' /\ disk'[r] = f[r]
  <2>1. /\ IsFiniteSet({p}) /\ {p} \cap DOMAIN disk = {} /\ Fits({p}, f)
        /\ disk' = Joined(disk, f)
    BY <1>2, <1>3, FS_Singleton DEF Fits
  <2>2. /\ \A n \in Nodes : n \notin Range(f) =>
              (n \in dirs' <=> n \in dirs) /\ size'[n] = size[n]
        /\ \A r \in {p} : size'[f[r]] = 0
        /\ size' \in [Nodes -> Nat]
    <3> HIDE DEF id, f
    <3> QED
      BY <1>3, <1>4, <1>5
  <2>3. \A r \in {p} : Place(r) /\ (Len(r) <= 3 => f[r] \in dirs')
    BY <1>2
  <2>4. \A r \in {p} : \A n \in 1..Len(r) - 1 :
              \/ Upto(r, n) \in {p} /\ f[Upto(r, n)] \in dirs'
              \/ Upto(r, n) \in DOMAIN disk /\ disk[Upto(r, n)] \in dirs
    <3> HIDE DEF f
    <3>1. /\ Tree(disk, dirs, size) /\ Len(p) > 1 /\ p \in Seq(Atoms)
          /\ Upto(p, Len(p) - 1) \in DOMAIN disk /\ disk[Upto(p, Len(p) - 1)] \in dirs
      BY <1>1, <1>2 DEF Sound
    <3>2. \A n \in 1..Len(p) - 1 : Upto(p, n) \in DOMAIN disk /\ disk[Upto(p, n)] \in dirs
      BY <3>1, BelowParent, Zenon
    <3> QED
      BY <3>2
  <2>5. /\ Deep({p}) = {p} /\ \A n \in {1, 2} : Long({p}, n) = {}
        /\ Cardinality({p}) = 1 /\ Cardinality({}) = 0
    <3>1. Place(p) /\ Len(p) > 2
      BY <1>2
    <3> QED
      BY <3>1, LevelsOfOne, Zenon
  <2>6. Cardinality(EntriesOf(disk)) + Cardinality(Deep({p})) <= MaxEntries
    <3>1. count < MaxEntries /\ count = Cardinality(EntriesOf(disk)) /\ count \in Nat
      BY <1>1, AccountedFacts DEF Create, Room, Accounted
    <3>2. Cardinality(Deep({p})) = 1
      BY <2>5, Zenon
    <3> QED
      BY <3>1, <3>2, OverlayAssumption
  <2>7. ASSUME NEW n \in {1, 2}
        PROVE  Cardinality(Long(DOMAIN disk, n)) + Cardinality(Long({p}, n)) <= MaxEntries
    <3>1. /\ Cardinality(Long(DOMAIN disk, n)) <= MaxEntries
          /\ Cardinality(Long(DOMAIN disk, n)) \in Nat /\ Cardinality(Long({p}, n)) = 0
      BY <1>1, <2>5, TreeFinite, FS_CardinalityType DEF Sound, Limited
    <3> QED
      BY <3>1, OverlayAssumption
  <2> HIDE DEF f
  <2>8. Suited(disk, dirs, {p}, f, dirs')
    BY <2>3, <2>4, <2>6, <2>7 DEF Suited
  <2> QED
    BY <1>1, <1>5, <2>1, <2>2, <2>8, GrowthKeeps
<1>7. CASE end = "ok"
  <2>1. /\ entries' = Joined(entries, [r \in {p} |-> [id |-> id, size |-> 0]])
        /\ count' = count + 1 /\ WithHandle(h, p, id, writable)
        /\ UNCHANGED <<state, poison, total, containers, workspaces, scopes>>
    BY <1>7 DEF Create
  <2>2. Registered({p})
    <3>1. /\ Deep({p}) = {p} /\ Long({p}, 1) = {} /\ Long({p}, 2) = {}
          /\ Cardinality({p}) = 1 /\ Cardinality({}) = 0
      <4>1. Place(p) /\ Len(p) > 2
        BY <1>2
      <4> QED
        BY <4>1, LevelsOfOne
    <3>2. containers' = Joined(containers, Restrict(disk', {p} \ {p}))
      <4>1. containers = [r \in DOMAIN containers |-> containers[r]]
        BY <1>1 DEF Accounted, Without, Restrict
      <4> QED
        BY <2>1, <4>1 DEF Joined, Restrict
    <3>3. entries' = Joined(entries, [r \in {p} |-> [id |-> disk'[r], size |-> 0]])
      <4>1. \A r \in {p} : disk'[r] = id
        BY <1>5, <1>6
      <4>2. [r \in {p} |-> [id |-> disk'[r], size |-> 0]] = [r \in {p} |-> [id |-> id, size |-> 0]]
        BY <4>1
      <4> QED
        BY <2>1, <4>2
    <3>4. /\ workspaces \in Nat /\ scopes \in Nat
      BY <1>1, TreeFinite, FS_CardinalityType DEF Sound, Accounted
    <3>5. workspaces' = workspaces + Cardinality(Long({p}, 1)) /\ scopes' = scopes + Cardinality(Long({p}, 2))
      BY <2>1, <3>1, <3>4
    <3> QED
      BY <2>1, <3>1, <3>2, <3>3, <3>5 DEF Registered
  <2>3. HandlesExact'
    <3>1. /\ DOMAIN handles' = DOMAIN handles \cup {h}
          /\ handles'[h].path = p /\ handles'[h].id = id
          /\ \A x \in DOMAIN handles : x # h => handles'[x] = handles[x]
      BY <2>1 DEF WithHandle, Joined
    <3>2. p \in FilesOf(disk', dirs') /\ disk'[p] = id
      BY <1>2, <1>3, <1>5, <1>6 DEF FilesOf, EntriesOf, Deep
    <3> QED
      BY <1>1, <1>6, <3>1, <3>2 DEF HandlesExact
  <2> QED
    BY <1>1, <1>6, <2>2, <2>3 DEF Consistent
<1>8. CASE end \in {"unchecked", "crash"}
  <2>1. ~Usable'
    BY <1>8 DEF Create, Down, Usable
  <2> QED
    BY <1>6, <2>1 DEF Consistent
<1> QED
  BY <1>7, <1>8

LEMMA AtMostOne ==
    ASSUME NEW S, NEW x, S \subseteq {x}
    PROVE  /\ S = {} \/ S = {x}
           /\ S = {} => Cardinality(S) = 0
           /\ S = {x} => Cardinality(S) = 1
  BY FS_EmptySet, FS_Singleton

\* What Mkdir may make.
LEMMA LineageShape ==
    ASSUME NEW p \in Locations
    PROVE  /\ IsFiniteSet(Lineage(p))
           /\ \A r \in Lineage(p) : /\ Place(r) /\ r = Upto(p, Len(r))
                                    /\ Len(r) \in 1..Len(p)
                                    /\ r = p \/ (Len(p) = 3 /\ Len(r) \in {1, 2})
           /\ Len(p) = 3 => \A n \in 1..3 : Upto(p, n) \in Lineage(p)
           /\ p \in Lineage(p)
<1>1. /\ Place(p) /\ p \in Seq(Atoms) /\ Len(p) \in Nat /\ Len(p) > 2
      /\ Workspace(p) = Upto(p, 1) /\ Scope(p) = Upto(p, 2) /\ Upto(p, Len(p)) = p
  BY LocationParts, SubSeqFull DEF Upto
<1>2. Lineage(p) = {p} \cup IF Len(p) = 3 THEN {Upto(p, 1), Upto(p, 2)} ELSE {}
  <2>1. Depth(p) = 1 <=> Len(p) = 3
    BY <1>1 DEF Depth
  <2> QED
    BY <1>1, <2>1 DEF Lineage
<1>3. \A n \in {1, 2} : Place(Upto(p, n)) /\ Len(Upto(p, n)) = n
  <2>1. \A n \in {1, 2} : n \in 1..Len(p)
    BY <1>1
  <2> QED
    BY <1>1, <2>1, BeginningPlace
<1>4. IsFiniteSet(Lineage(p))
  <2>1. IsFiniteSet({p}) /\ IsFiniteSet({Upto(p, 1)}) /\ IsFiniteSet({Upto(p, 2)})
    BY FS_Singleton
  <2>2. IsFiniteSet(({p} \cup {Upto(p, 1)}) \cup {Upto(p, 2)})
    BY <2>1, FS_Union
  <2>3. Lineage(p) \subseteq ({p} \cup {Upto(p, 1)}) \cup {Upto(p, 2)}
    BY <1>2
  <2> QED
    BY <2>2, <2>3, FS_Subset
<1>5. ASSUME NEW r \in Lineage(p)
      PROVE  /\ Place(r) /\ r = Upto(p, Len(r))
             /\ Len(r) \in 1..Len(p)
             /\ r = p \/ (Len(p) = 3 /\ Len(r) \in {1, 2})
  <2>1. CASE r = p
    BY <1>1, <2>1
  <2>2. CASE r # p
    <3>1. Len(p) = 3 /\ \E n \in {1, 2} : r = Upto(p, n)
      BY <1>2, <2>2
    <3>2. PICK n \in {1, 2} : r = Upto(p, n)
      BY <3>1
    <3>3. Len(r) = n /\ Place(r)
      BY <1>3, <3>2
    <3> QED
      BY <1>1, <3>1, <3>2, <3>3
  <2> QED
    BY <2>1, <2>2
<1>6. Len(p) = 3 => \A n \in 1..3 : Upto(p, n) \in Lineage(p)
  <2>1. \A n \in 1..3 : n = 1 \/ n = 2 \/ n = 3
    OBVIOUS
  <2>2. Len(p) = 3 => Upto(p, 1) \in Lineage(p) /\ Upto(p, 2) \in Lineage(p) /\ Upto(p, 3) \in Lineage(p)
    BY <1>1, <1>2
  <2> QED
    BY <2>1, <2>2
<1>7. p \in Lineage(p)
  BY <1>2
<1> QED
  BY <1>4, <1>5, <1>6, <1>7

LEMMA MkdirKeeps ==
    ASSUME Consistent, NEW p \in Locations, NEW end,
           end \in {"ok", "failed", "unchecked", "crash"}, Mkdir(p, end)
    PROVE  Consistent'
<1> DEFINE missing == {r \in Lineage(p) : ~Exists(r)}
           done(k) == {r \in missing : Len(r) <= k}
<1>1. Usable /\ Sound /\ Accounted /\ HandlesExact
  BY DEF Mkdir, Consistent
<1>2. /\ Place(p) /\ p \in Seq(Atoms) /\ Len(p) \in Nat /\ Len(p) > 2
      /\ Front(p) = Upto(p, Len(p) - 1)
  BY LocationParts
<1>3. /\ Room /\ \A c \in Lineage(p) \ missing : IsDir(c)
      /\ Len(p) > 3 => Front(p) \in DOMAIN disk /\ disk[Front(p)] \in dirs
  <2>1. Depth(p) > 1 <=> Len(p) > 3
    BY <1>2 DEF Depth
  <2> QED
    BY <2>1 DEF Mkdir, Destination, Exists, IsDir
<1>4. PICK k \in 0..Len(p) :
        /\ Ensured(done(k) \ {p}) /\ Made(done(k))
        /\ CASE end = "ok" -> k = Len(p) /\ Registered(done(k))
             [] end = "failed" -> p \notin done(k) /\ Registered(done(k))
             [] end = "unchecked" -> Long(done(k), k) # {} /\ Registered(done(k) \ Long(done(k), k))
             [] end = "crash" -> done(k) # {} /\ Down
  BY DEF Mkdir
<1> DEFINE D == done(k)
           f == NewNodes(D)
<1>5. f \in [D -> Unused] /\ Fits(D, f)
  <2>1. \E g \in [D -> Unused] : Fits(D, g)
    BY <1>4 DEF Made, Suffice
  <2> HIDE DEF D
  <2> QED
    BY <2>1 DEF NewNodes
<1>6. /\ disk' = Joined(disk, f) /\ dirs' = dirs \cup Range(f)
      /\ size' = [n \in Nodes |-> IF n \in Range(f) THEN 0 ELSE size[n]]
  BY <1>4 DEF Made
<1>7. /\ IsFiniteSet(D) /\ D \cap DOMAIN disk = {}
      /\ \A r \in D : /\ Place(r) /\ r = Upto(p, Len(r))
                      /\ Len(r) \in 1..Len(p) /\ Len(r) <= k
                      /\ r = p \/ (Len(p) = 3 /\ Len(r) \in {1, 2})
  <2>1. IsFiniteSet(D)
    BY LineageShape, FS_Subset
  <2>2. D \cap DOMAIN disk = {}
    BY DEF Exists
  <2> QED
    BY <2>1, <2>2, LineageShape
<1>8. size \in [Nodes -> Nat]
  BY <1>1 DEF Sound, Tree
<1>9. \A r \in D : f[r] \in Range(f) /\ f[r] \in Nodes
  <2> HIDE DEF D, f
  <2> QED
    BY <1>5 DEF Range, Unused
<1>10. Suited(disk, dirs, D, f, dirs')
  <2>1. \A r \in D : Place(r) /\ (Len(r) <= 3 => f[r] \in dirs')
    BY <1>6, <1>7, <1>9
  <2>2. ASSUME NEW r \in D, NEW n \in 1..Len(r) - 1
        PROVE  \/ Upto(r, n) \in D /\ f[Upto(r, n)] \in dirs'
               \/ Upto(r, n) \in DOMAIN disk /\ disk[Upto(r, n)] \in dirs
    <3>1. /\ r = Upto(p, Len(r)) /\ Len(r) \in Nat /\ Len(r) <= Len(p) /\ Len(r) <= k
          /\ k \in Nat /\ n \in Nat /\ n >= 1 /\ n < Len(r)
      <4>1. r = Upto(p, Len(r)) /\ Len(r) \in 1..Len(p) /\ Len(r) <= k
        BY <1>7
      <4> QED
        BY <1>2, <4>1
    <3>2. Upto(r, n) = Upto(p, n) /\ Len(Upto(p, n)) = n
      <4>1. Upto(Upto(p, Len(r)), n) = Upto(p, n)
        BY <1>2, <3>1, BeginningOfBeginning
      <4>2. Len(Upto(p, n)) = n
        BY <1>2, <3>1, Beginnings
      <4> QED
        BY <3>1, <4>1, <4>2
    <3>3. CASE Len(p) = 3
      <4>1. n \in 1..3
        BY <3>1, <3>3
      <4>2. Upto(p, n) \in Lineage(p)
        BY <3>3, <4>1, LineageShape
      <4>3. CASE Exists(Upto(p, n))
        BY <1>3, <3>2, <4>2, <4>3 DEF Exists, IsDir
      <4>4. CASE ~Exists(Upto(p, n))
        <5>1. Upto(p, n) \in D
          BY <3>1, <3>2, <4>2, <4>4
        <5> QED
          BY <1>6, <1>9, <3>2, <5>1
      <4> QED
        BY <4>3, <4>4
    <3>4. CASE Len(p) # 3
      <4>1. r = p
        BY <1>7, <3>4
      <4>2. Len(p) > 3
        <5>1. \A i \in Nat : i > 2 /\ i # 3 => i > 3
          OBVIOUS
        <5> QED
          BY <1>2, <3>4, <5>1
      <4>3. /\ Tree(disk, dirs, size) /\ Len(p) > 1 /\ p \in Seq(Atoms)
            /\ Upto(p, Len(p) - 1) \in DOMAIN disk /\ disk[Upto(p, Len(p) - 1)] \in dirs
        BY <1>1, <1>2, <1>3, <4>2 DEF Sound
      <4>4. n \in 1..Len(p) - 1
        BY <4>1
      <4>5. Upto(p, n) \in DOMAIN disk /\ disk[Upto(p, n)] \in dirs
        BY <4>3, <4>4, BelowParent, Zenon
      <4> QED
        BY <3>2, <4>5
    <3> QED
      BY <3>3, <3>4
  <2>3. Cardinality(EntriesOf(disk)) + Cardinality(Deep(D)) <= MaxEntries
    <3>1. Deep(D) \subseteq {p}
      <4>1. ASSUME NEW r \in D, Len(r) > 2
            PROVE  r = p
        <5>1. r = p \/ Len(r) \in {1, 2}
          BY <1>7
        <5>2. \A i \in {1, 2} : ~(i > 2)
          OBVIOUS
        <5> QED
          BY <4>1, <5>1, <5>2
      <4> HIDE DEF D
      <4> QED
        BY <4>1 DEF Deep
    <3>2. Cardinality(Deep(D)) = 0 \/ Cardinality(Deep(D)) = 1
      BY <3>1, AtMostOne, Zenon
    <3>3. count < MaxEntries /\ count = Cardinality(EntriesOf(disk)) /\ count \in Nat
      BY <1>1, <1>3, AccountedFacts DEF Room, Accounted
    <3> QED
      BY <3>2, <3>3, OverlayAssumption
  <2>4. ASSUME NEW n \in {1, 2}
        PROVE  Cardinality(Long(DOMAIN disk, n)) + Cardinality(Long(D, n)) <= MaxEntries
    <3>1. /\ Cardinality(Long(DOMAIN disk, n)) <= MaxEntries
          /\ Cardinality(Long(DOMAIN disk, n)) \in Nat /\ MaxEntries \in Nat
      BY <1>1, TreeFinite, FS_CardinalityType, OverlayAssumption DEF Sound, Limited
    <3>2. Long(D, n) \subseteq {Upto(p, n)}
      BY <1>7 DEF Long
    <3>3. CASE Long(D, n) = {}
      <4>1. Cardinality(Long(D, n)) = 0
        BY <3>2, <3>3, AtMostOne
      <4> QED
        BY <3>1, <4>1
    <3>4. CASE Long(D, n) # {}
      <4>1. Cardinality(Long(D, n)) = 1
        BY <3>2, <3>4, AtMostOne
      <4>2. PICK c \in D : Len(c) = n
        BY <3>4 DEF Long
      <4>3. c \in D \ {p}
        BY <1>2, <4>2
      <4>4. (IF n = 1 THEN workspaces ELSE scopes) < MaxEntries
        BY <1>4, <4>2, <4>3 DEF Ensured
      <4>5. (IF n = 1 THEN workspaces ELSE scopes) = Cardinality(Long(DOMAIN disk, n))
        BY <1>1 DEF Accounted
      <4> QED
        BY <3>1, <4>1, <4>4, <4>5
    <3> QED
      BY <3>3, <3>4
  <2> HIDE DEF D, f
  <2> QED
    BY <2>1, <2>2, <2>3, <2>4 DEF Suited
<1>11. /\ Sound'
       /\ Accounted /\ Registered(D) => Accounted'
       /\ \A r \in FilesOf(disk, dirs) : r \in FilesOf(disk', dirs') /\ disk'[r] = disk[r]
  <2>1. /\ \A n \in Nodes : n \notin Range(f) =>
              (n \in dirs' <=> n \in dirs) /\ size'[n] = size[n]
        /\ \A r \in D : size'[f[r]] = 0
        /\ size' \in [Nodes -> Nat]
    <3> HIDE DEF D, f
    <3> QED
      BY <1>6, <1>8, <1>9
  <2>2. IsFiniteSet(D) /\ D \cap DOMAIN disk = {} /\ disk' = Joined(disk, f)
    BY <1>6, <1>7
  <2> HIDE DEF D, f
  <2> QED
    BY <1>1, <1>5, <1>10, <2>1, <2>2, GrowthKeeps
<1>12. CASE end \in {"ok", "failed"}
  <2>1. Registered(D)
    BY <1>4, <1>12
  <2>2. UNCHANGED handles
    BY <1>12 DEF Mkdir
  <2>3. HandlesExact'
    BY <1>1, <1>11, <2>2 DEF HandlesExact
  <2> HIDE DEF D
  <2> QED
    BY <1>1, <1>11, <2>1, <2>3 DEF Consistent
<1>13. CASE end = "unchecked"
  <2>1. poison' = TRUE
    BY <1>13 DEF Mkdir
  <2> QED
    BY <1>11, <2>1 DEF Consistent, Usable
<1>14. CASE end = "crash"
  <2>1. Down
    BY <1>4, <1>14
  <2> QED
    BY <1>11, <2>1 DEF Consistent, Usable, Down
<1> QED
  BY <1>12, <1>13, <1>14

\* On the way down to a path there is a child at every step.
LEMMA ChildOnTheWay ==
    ASSUME Tree(disk, dirs, size), NEW r \in DOMAIN disk, NEW n \in 1..Len(r) - 1
    PROVE  /\ Upto(r, n + 1) \in Children(Upto(r, n))
           /\ Len(Upto(r, n)) = n /\ Len(Upto(r, n + 1)) = n + 1
           /\ n + 1 # Len(r) => n + 1 \in 1..Len(r) - 1
           /\ n + 1 = Len(r) => Upto(r, n + 1) = r
<1>1. r \in Seq(Atoms) /\ Len(r) \in Nat /\ n \in Nat /\ n + 1 \in Nat /\ n + 1 <= Len(r) /\ n <= Len(r)
  BY LenProperties DEF Tree, Place
<1>2. n + 1 = Len(r) => Upto(r, n + 1) = r
  BY <1>1, SubSeqFull DEF Upto
<1>3. n + 1 # Len(r) => n + 1 \in 1..Len(r) - 1
  BY <1>1
<1>4. /\ Upto(r, n) \in Seq(Atoms) /\ Upto(r, n + 1) \in Seq(Atoms)
      /\ Len(Upto(r, n)) = n /\ Len(Upto(r, n + 1)) = n + 1
  BY <1>1, Beginnings
<1>5. Upto(r, n + 1) \in DOMAIN disk
  BY <1>2, <1>3 DEF Tree
<1>6. Within(Upto(r, n + 1), Upto(r, n))
  <2>1. Upto(Upto(r, n + 1), n) = Upto(r, n)
    BY <1>1, BeginningOfBeginning
  <2>2. Len(Upto(r, n)) <= Len(Upto(r, n + 1)) /\ Upto(Upto(r, n + 1), Len(Upto(r, n))) = Upto(r, n)
    BY <1>1, <1>4, <2>1
  <2> QED
    BY <1>4, <2>2, Inside
<1> QED
  BY <1>2, <1>3, <1>4, <1>5, <1>6 DEF Children

\* What is pruned is empty but for what is removed.
LEMMA PrunedShape ==
    ASSUME Tree(disk, dirs, size), NEW p \in Locations, p \in DOMAIN disk, Children(p) = {},
           NEW k \in 1..3
    PROVE  LET C == {c \in Pruned(p) : Len(c) >= k}
               R == {p} \cup C
           IN  /\ Prunable(disk, R, p)
               /\ \A n \in {1, 2} : Long(R, n) = Long(C, n)
               /\ \A c \in C : ~(Len(c) > 2)
<1> DEFINE C == {c \in Pruned(p) : Len(c) >= k}
           R == {p} \cup C
<1>1. /\ Place(p) /\ p \in Seq(Atoms) /\ Len(p) \in Nat /\ Len(p) > 2
      /\ Workspace(p) = Upto(p, 1) /\ Scope(p) = Upto(p, 2)
  BY LocationParts
<1>2. 1 \in 1..Len(p) - 1 /\ 2 \in 1..Len(p) - 1
  BY <1>1
<1>3. /\ Len(Upto(p, 1)) = 1 /\ Len(Upto(p, 2)) = 2
      /\ Upto(p, 1) \in DOMAIN disk /\ Upto(p, 2) \in DOMAIN disk
  <2>1. Len(Upto(p, 1)) = 1 /\ Len(Upto(p, 2)) = 2
    BY <1>2, ChildOnTheWay
  <2> QED
    BY <1>2, <2>1 DEF Tree
<1>4. /\ \A c \in C : c = Upto(p, 1) \/ c = Upto(p, 2)
      /\ C # {} => Children(Upto(p, 2)) = {p} /\ Len(p) = 3
      /\ Upto(p, 1) \in C => Children(Upto(p, 1)) = {Upto(p, 2)} /\ Upto(p, 2) \in C
  <2>1. Pruned(p) # {} => Len(p) = 3 /\ Children(Upto(p, 2)) = {p}
    <3>1. ~(Depth(p) > 1) => Len(p) = 3
      <4>1. \A i \in Nat : i > 2 /\ ~(i - 2 > 1) => i = 3
        OBVIOUS
      <4> QED
        BY <1>1, <4>1 DEF Depth
    <3> QED
      BY <1>1, <3>1 DEF Pruned
  <2>2. \A c \in Pruned(p) : c = Upto(p, 1) \/ c = Upto(p, 2)
    BY <1>1 DEF Pruned
  <2>3. Upto(p, 1) # Upto(p, 2)
    BY <1>3
  <2>4. Upto(p, 1) \in Pruned(p) => Children(Upto(p, 1)) = {Upto(p, 2)} /\ Upto(p, 2) \in Pruned(p)
    BY <1>1, <2>3 DEF Pruned
  <2>5. Len(Upto(p, 1)) >= k => Len(Upto(p, 2)) >= k
    <3>1. 1 >= k => 2 >= k
      OBVIOUS
    <3> QED
      BY <1>3, <3>1
  <2> QED
    BY <2>1, <2>2, <2>4, <2>5
<1>5. \A c \in C : Len(c) = 1 \/ Len(c) = 2
  BY <1>3, <1>4
<1>11. \A c \in C : ~(Len(c) > 2)
  <2>1. \A i \in {1, 2} : ~(i > 2)
    OBVIOUS
  <2> HIDE DEF C
  <2> QED
    BY <1>5, <2>1
<1>6. R \subseteq DOMAIN disk
  BY <1>3, <1>4
<1>7. Deep(R) = {p} /\ \A n \in {1, 2} : Long(R, n) = Long(C, n)
  <2>1. \A n \in {1, 2} : Len(p) # n
    BY <1>1
  <2> HIDE DEF C
  <2> QED
    BY <1>1, <1>11, <2>1 DEF Deep, Long
<1>8. ASSUME NEW r \in DOMAIN disk, NEW n \in 1..Len(r) - 1
      PROVE  Upto(r, n) # p
  BY ChildOnTheWay
<1>9. ASSUME NEW r \in DOMAIN disk, r # p, NEW n \in 1..Len(r) - 1, Upto(p, 2) \in C
      PROVE  Upto(r, n) # Upto(p, 2)
  <2> SUFFICES ASSUME Upto(r, n) = Upto(p, 2)
               PROVE  FALSE
    OBVIOUS
  <2>1. Upto(r, n + 1) = p
    BY <1>4, <1>9, ChildOnTheWay
  <2>2. CASE n + 1 = Len(r)
    BY <1>9, <2>1, <2>2, ChildOnTheWay
  <2>3. CASE n + 1 # Len(r)
    <3>1. n + 1 \in 1..Len(r) - 1
      BY <2>3, ChildOnTheWay
    <3> QED
      BY <1>8, <2>1, <3>1
  <2> QED
    BY <2>2, <2>3
<1>10. ASSUME NEW r \in DOMAIN disk, r \notin R, NEW n \in 1..Len(r) - 1
       PROVE  Upto(r, n) \notin R
  <2>1. r # p
    BY <1>10
  <2>2. Upto(r, n) # p
    BY <1>8
  <2>3. Upto(p, 2) \in C => Upto(r, n) # Upto(p, 2)
    BY <1>9, <2>1
  <2>4. ASSUME Upto(p, 1) \in C, Upto(r, n) = Upto(p, 1)
        PROVE  FALSE
    <3>1. Upto(r, n + 1) = Upto(p, 2) /\ Upto(p, 2) \in C
      BY <1>4, <2>4, ChildOnTheWay
    <3>2. CASE n + 1 = Len(r)
      <4>1. r = Upto(p, 2)
        BY <3>1, <3>2, ChildOnTheWay
      <4> QED
        BY <1>10, <3>1, <4>1
    <3>3. CASE n + 1 # Len(r)
      <4>1. n + 1 \in 1..Len(r) - 1
        BY <3>3, ChildOnTheWay
      <4> QED
        BY <1>9, <2>1, <3>1, <4>1
    <3> QED
      BY <3>2, <3>3
  <2> QED
    BY <1>4, <2>2, <2>3, <2>4
<1>12. Prunable(disk, R, p)
  BY <1>6, <1>7, <1>10 DEF Prunable
<1> QED
  BY <1>7, <1>11, <1>12

LEMMA RemoveKeeps ==
    ASSUME Consistent, NEW p \in Locations, NEW end, RemoveEntry(p, end)
    PROVE  Consistent'
<1>1. Usable /\ Sound /\ Accounted /\ HandlesExact
  BY DEF RemoveEntry, Consistent
<1>2. p \in DOMAIN disk /\ ~Busy(p) /\ Children(p) = {}
  BY DEF RemoveEntry, Recorded, Exists
<1>3. PICK k \in 1..3 :
        /\ disk' = Without(disk, {p} \cup {c \in Pruned(p) : Len(c) >= k})
        /\ IF end = "crash"
             THEN Down
             ELSE /\ Forgotten(p, {c \in Pruned(p) : Len(c) >= k})
                  /\ UNCHANGED <<state, poison, handles>>
  BY DEF RemoveEntry
<1> DEFINE C == {c \in Pruned(p) : Len(c) >= k}
           R == {p} \cup C
<1>4. dirs' = dirs /\ size' = size
  BY DEF RemoveEntry
<1>5. /\ Prunable(disk, R, p)
      /\ \A n \in {1, 2} : Long(R, n) = Long(C, n)
      /\ \A c \in C : ~(Len(c) > 2)
  BY <1>1, <1>2, PrunedShape DEF Sound
<1>6. DOMAIN disk' = DOMAIN disk \ R /\ \A r \in DOMAIN disk' : disk'[r] = disk[r]
  <2> HIDE DEF C
  <2>1. disk' = Without(disk, R)
    BY <1>3 DEF C
  <2> QED
    BY <2>1 DEF Without, Restrict
<1>7. /\ Tree(disk', dirs, size) /\ Limited(disk', dirs, size)
      /\ EntriesOf(disk') = EntriesOf(disk) \ {p}
      /\ Cardinality(EntriesOf(disk')) = Cardinality(EntriesOf(disk)) - 1
      /\ \A n \in {1, 2} : Cardinality(Long(DOMAIN disk', n)) =
            Cardinality(Long(DOMAIN disk, n)) - Cardinality(Long(R, n))
      /\ Bytes(disk', dirs, size) =
            Bytes(disk, dirs, size) - (IF disk[p] \in dirs THEN 0 ELSE size[disk[p]])
  <2>1. Tree(disk, dirs, size) /\ Limited(disk, dirs, size)
    BY <1>1 DEF Sound
  <2>2. PICK e : e = disk'
    OBVIOUS
  <2>3. DOMAIN e = DOMAIN disk \ R /\ \A r \in DOMAIN e : e[r] = disk[r]
    BY <1>6, <2>2
  <2>4. Prunable(disk, R, p)
    BY <1>5
  <2> HIDE DEF R
  <2>5. /\ Tree(e, dirs, size) /\ Limited(e, dirs, size)
        /\ EntriesOf(e) = EntriesOf(disk) \ {p}
        /\ Cardinality(EntriesOf(e)) = Cardinality(EntriesOf(disk)) - 1
        /\ \A n \in {1, 2} : Cardinality(Long(DOMAIN e, n)) =
              Cardinality(Long(DOMAIN disk, n)) - Cardinality(Long(R, n))
        /\ Bytes(e, dirs, size) =
              Bytes(disk, dirs, size) - (IF disk[p] \in dirs THEN 0 ELSE size[disk[p]])
    BY <2>1, <2>3, <2>4, ShrunkKeeps
  <2> QED
    BY <2>2, <2>5
<1>8. Sound'
  BY <1>4, <1>7 DEF Sound
<1>9. CASE end = "crash"
  <2>1. ~Usable'
    BY <1>3, <1>9 DEF Down, Usable
  <2> QED
    BY <1>8, <2>1 DEF Consistent
<1>10. CASE end # "crash"
  <2>1. Forgotten(p, C) /\ UNCHANGED <<state, poison, handles>>
    BY <1>3, <1>10
  <2>2. p \in EntriesOf(disk) /\ EntriesOf(disk) \subseteq DOMAIN disk
    BY <1>2, LocationParts DEF EntriesOf, Deep
  <2>3. entries' = Records(disk', size')
    <3>1. entries' = Without(Records(disk, size), {p})
      BY <1>1, <2>1 DEF Forgotten, Accounted
    <3>2. entries' = [r \in EntriesOf(disk) \ {p} |-> [id |-> disk[r], size |-> size[disk[r]]]]
      BY <3>1 DEF Without, Restrict, Records
    <3>3. \A r \in EntriesOf(disk) \ {p} : disk'[r] = disk[r]
      <4>1. \A r \in EntriesOf(disk) \ {p} : r \in DOMAIN disk'
        BY <1>7 DEF EntriesOf, Deep
      <4> QED
        BY <1>6, <4>1
    <3>4. EntriesOf(disk') = EntriesOf(disk) \ {p}
      BY <1>7
    <3>5. Records(disk', size') = [r \in EntriesOf(disk) \ {p} |->
                                      [id |-> disk'[r], size |-> size[disk'[r]]]]
      BY <1>4, <3>4, Zenon DEF Records
    <3> QED
      BY <3>2, <3>3, <3>5
  <2>4. total' = Bytes(disk', dirs', size')
    <3>1. Grown(entries, {p}) = 0 /\ total = Bytes(disk, dirs, size) /\ total \in Nat
      BY <1>1, AccountedFacts DEF Accounted
    <3>2. size[disk[p]] \in Nat
      BY <1>1, <1>2 DEF Sound, Tree
    <3>3. total' = total + Grown(entries, {p}) - (IF disk[p] \in dirs THEN 0 ELSE size[disk[p]])
      BY <2>1 DEF Forgotten, IsDir
    <3>4. Bytes(disk', dirs', size') = Bytes(disk', dirs, size)
      BY <1>4
    <3>5. PICK x \in Nat : x = IF disk[p] \in dirs THEN 0 ELSE size[disk[p]]
      BY <3>2
    <3> QED
      BY <1>7, <3>1, <3>3, <3>4, <3>5
  <2>5. count' = Cardinality(EntriesOf(disk'))
    BY <1>1, <1>7, <2>1 DEF Forgotten, Accounted
  <2>6. /\ workspaces' = Cardinality(Long(DOMAIN disk', 1))
        /\ scopes' = Cardinality(Long(DOMAIN disk', 2))
    BY <1>1, <1>5, <1>7, <2>1 DEF Forgotten, Accounted
  <2>7. containers' = Without(disk', EntriesOf(disk'))
    <3> DEFINE B == (DOMAIN disk \ EntriesOf(disk)) \ C
    <3>1. containers' = Without(Without(disk, EntriesOf(disk)), C)
      BY <1>1, <2>1 DEF Forgotten, Accounted
    <3>2. containers' = [r \in B |-> disk[r]]
      BY <3>1 DEF Without, Restrict
    <3>3. DOMAIN disk' \ EntriesOf(disk') = B
      BY <1>6, <1>7, <2>2
    <3>4. \A r \in B : disk'[r] = disk[r]
      BY <1>6, <3>3
    <3>5. Without(disk', EntriesOf(disk')) = [r \in B |-> disk'[r]]
      BY <3>3, Zenon DEF Without, Restrict
    <3> HIDE DEF B
    <3> QED
      BY <3>2, <3>4, <3>5
  <2>8. HandlesExact'
    <3> SUFFICES ASSUME NEW h \in DOMAIN handles
                 PROVE  /\ handles[h].path \in FilesOf(disk', dirs)
                        /\ disk'[handles[h].path] = handles[h].id
      BY <1>4, <2>1 DEF HandlesExact
    <3>1. PICK r : r = handles[h].path
      OBVIOUS
    <3>2. r \in FilesOf(disk, dirs) /\ disk[r] = handles[h].id /\ ~Within(r, p)
      BY <1>1, <1>2, <3>1 DEF HandlesExact, Busy
    <3>3. Within(p, p)
      <4>1. p \in Seq(Atoms) /\ Len(p) \in Nat
        BY LocationParts
      <4> QED
        BY <4>1, Inside
    <3>4. r \in EntriesOf(disk')
      BY <1>7, <3>2, <3>3 DEF FilesOf
    <3>5. disk'[r] = disk[r]
      BY <1>6, <3>4 DEF EntriesOf, Deep
    <3> QED
      BY <3>1, <3>2, <3>4, <3>5 DEF FilesOf
  <2> QED
    BY <1>8, <2>3, <2>4, <2>5, <2>6, <2>7, <2>8 DEF Consistent, Accounted
<1> QED
  BY <1>9, <1>10

LEMMA RenameKeeps ==
    ASSUME Consistent, NEW p \in Locations, NEW q \in Locations, NEW crash \in BOOLEAN,
           Rename(p, q, crash)
    PROVE  Consistent'
<1>1. Usable /\ Sound /\ Accounted /\ HandlesExact
  BY DEF Rename, Consistent
<1>2. /\ Place(p) /\ p \in Seq(Atoms) /\ Len(p) \in Nat /\ Len(p) > 2
      /\ Place(q) /\ q \in Seq(Atoms) /\ Len(q) \in Nat /\ Len(q) > 2
      /\ Front(q) = Upto(q, Len(q) - 1)
  BY LocationParts
<1>3. /\ p \in DOMAIN disk /\ p # q
      /\ Upto(q, Len(q) - 1) \in DOMAIN disk /\ disk[Upto(q, Len(q) - 1)] \in dirs
      /\ disk[p] \in dirs => ~Within(q, p)
      /\ disk[p] \notin dirs => Len(q) > 3
      /\ q \in DOMAIN disk => disk[q] \notin dirs /\ disk[p] \notin dirs
      /\ ~Busy(p) /\ ~Busy(q) /\ Shallow(p, q)
      /\ disk' = Moved(disk, p, q) /\ dirs' = dirs /\ size' = size
  <2>1. Depth(q) > 1 => Len(q) > 3
    BY <1>2 DEF Depth
  <2> QED
    BY <1>2, <2>1 DEF Rename, Recorded, Exists, IsDir, Destination
<1>4. /\ DOMAIN entries = EntriesOf(disk) /\ entries = Records(disk, size)
      /\ total \in Nat /\ \A P : Grown(entries, P) = 0
      /\ \A r \in EntriesOf(disk) : entries[r] = [id |-> disk[r], size |-> size[disk[r]]]
  BY <1>1, AccountedFacts DEF Accounted
<1>5. \A r \in DOMAIN disk : Within(r, p) => Len(q) + Len(r) - Len(p) <= MaxDepth + 2
  <2> SUFFICES ASSUME NEW r \in DOMAIN disk, Within(r, p)
               PROVE  Len(q) + Len(r) - Len(p) <= MaxDepth + 2
    OBVIOUS
  <2>1. r \in Seq(Atoms) /\ Len(r) \in Nat
    BY <1>1, LenProperties DEF Sound, Tree, Place
  <2>2. Len(p) <= Len(r)
    BY <1>2, <2>1, Inside
  <2>3. r \in DOMAIN entries
    <3>1. Len(r) > 2
      BY <1>2, <2>1, <2>2
    <3> QED
      BY <1>4, <3>1 DEF EntriesOf, Deep
  <2>4. (Len(q) - 2) + Len(r) - Len(p) <= MaxDepth
    BY <1>3, <2>3 DEF Shallow, Depth
  <2> QED
    BY <1>2, <2>1, <2>4, OverlayAssumption
<1>6. LET e == Moved(disk, p, q)
      IN  /\ Tree(e, dirs, size) /\ Limited(e, dirs, size)
          /\ Cardinality(EntriesOf(e)) =
                Cardinality(EntriesOf(disk)) - (IF q \in DOMAIN disk THEN 1 ELSE 0)
          /\ Bytes(e, dirs, size) =
                Bytes(disk, dirs, size) - (IF q \in DOMAIN disk THEN size[disk[q]] ELSE 0)
          /\ \A n \in {1, 2} : Long(DOMAIN e, n) = Long(DOMAIN disk, n)
          /\ Without(e, EntriesOf(e)) = Without(disk, EntriesOf(disk))
          /\ Records(e, size) = Moved(Without(Records(disk, size), {q}), p, q)
          /\ \A r \in DOMAIN disk : ~Within(r, p) /\ r # q => r \in DOMAIN e /\ e[r] = disk[r]
  <2>1. Tree(disk, dirs, size) /\ Limited(disk, dirs, size)
    BY <1>1 DEF Sound
  <2> QED
    BY <1>2, <1>3, <1>5, <2>1, MovedKeeps
<1>7. Sound'
  BY <1>3, <1>6 DEF Sound
<1>8. CASE crash
  <2>1. ~Usable'
    BY <1>8 DEF Rename, Down, Usable
  <2> QED
    BY <1>7, <2>1 DEF Consistent
<1>9. CASE ~crash
  <2> DEFINE target == IF q \in DOMAIN disk THEN {q} ELSE {}
  <2>1. /\ entries' = Moved(Refreshed(Without(entries, target), {p}), p, q)
        /\ total' = total + Grown(entries, {p} \cup target)
                    - (IF q \in DOMAIN disk THEN size[disk[q]] ELSE 0)
        /\ count' = count - Cardinality(target)
        /\ UNCHANGED <<state, poison, containers, workspaces, scopes, handles>>
    BY <1>9 DEF Rename, Exists
  <2>2. entries' = Records(disk', size')
    <3>1. Without(entries, target) = Without(entries, {q})
      <4>1. DOMAIN entries \ target = DOMAIN entries \ {q}
        BY <1>4 DEF EntriesOf, Deep
      <4> QED
        BY <4>1, Zenon DEF Without
    <3>2. PICK g : g = Without(entries, {q})
      OBVIOUS
    <3>3. g = [r \in EntriesOf(disk) \ {q} |-> entries[r]]
      BY <1>4, <3>2 DEF Without, Restrict
    <3>4. DOMAIN g = EntriesOf(disk) \ {q} /\ \A r \in DOMAIN g : g[r] = [id |-> disk[r], size |-> size[disk[r]]]
      BY <1>4, <3>3
    <3>5. Refreshed(g, {p}) = g
      <4>1. \A r \in DOMAIN g : (IF r \in {p} THEN [g[r] EXCEPT !.size = size[g[r].id]] ELSE g[r]) = g[r]
        BY <3>4
      <4>2. g = [r \in DOMAIN g |-> g[r]]
        BY <3>3
      <4> QED
        BY <4>1, <4>2 DEF Refreshed
    <3>6. entries' = Moved(g, p, q)
      BY <2>1, <3>1, <3>2, <3>5, Zenon
    <3> QED
      BY <1>3, <1>4, <1>6, <3>2, <3>6, Zenon
  <2>3. total' = Bytes(disk', dirs', size')
    <3>1. Grown(entries, {p} \cup target) = 0 /\ total = Bytes(disk, dirs, size)
      BY <1>1, <1>4 DEF Accounted
    <3>2. \A x \in DOMAIN disk : size[disk[x]] \in Nat
      BY <1>1 DEF Sound, Tree
    <3>3. PICK x \in Nat : x = IF q \in DOMAIN disk THEN size[disk[q]] ELSE 0
      BY <3>2
    <3>4. Bytes(disk', dirs', size') = Bytes(disk, dirs, size) - x
      BY <1>3, <1>6, <3>3
    <3>5. total' = total + Grown(entries, {p} \cup target) - x
      BY <2>1, <3>3
    <3> QED
      BY <1>4, <3>1, <3>4, <3>5
  <2>4. count' = Cardinality(EntriesOf(disk'))
    <3>1. Cardinality(target) = IF q \in DOMAIN disk THEN 1 ELSE 0
      BY FS_EmptySet, FS_Singleton
    <3>2. count = Cardinality(EntriesOf(disk))
      BY <1>1 DEF Accounted
    <3>3. Cardinality(EntriesOf(disk')) =
             Cardinality(EntriesOf(disk)) - (IF q \in DOMAIN disk THEN 1 ELSE 0)
      BY <1>3, <1>6
    <3> QED
      BY <2>1, <3>1, <3>2, <3>3
  <2>5. /\ containers' = Without(disk', EntriesOf(disk'))
        /\ workspaces' = Cardinality(Long(DOMAIN disk', 1))
        /\ scopes' = Cardinality(Long(DOMAIN disk', 2))
    <3>1. /\ Long(DOMAIN disk', 1) = Long(DOMAIN disk, 1)
          /\ Long(DOMAIN disk', 2) = Long(DOMAIN disk, 2)
          /\ Without(disk', EntriesOf(disk')) = Without(disk, EntriesOf(disk))
      BY <1>3, <1>6
    <3> QED
      BY <1>1, <2>1, <3>1, Zenon DEF Accounted
  <2>6. HandlesExact'
    <3> SUFFICES ASSUME NEW h \in DOMAIN handles
                 PROVE  /\ handles[h].path \in FilesOf(disk', dirs)
                        /\ disk'[handles[h].path] = handles[h].id
      BY <1>3, <2>1 DEF HandlesExact
    <3>1. PICK r : r = handles[h].path
      OBVIOUS
    <3>2. /\ r \in FilesOf(disk, dirs) /\ disk[r] = handles[h].id
          /\ ~Within(r, p) /\ ~Within(r, q)
      BY <1>1, <1>3, <3>1 DEF HandlesExact, Busy
    <3>3. Within(q, q)
      BY <1>2, Inside
    <3>4. r \in DOMAIN disk /\ Len(r) > 2 /\ disk[r] \notin dirs
      BY <3>2 DEF FilesOf, EntriesOf, Deep
    <3>5. r \in DOMAIN disk' /\ disk'[r] = disk[r]
      BY <1>3, <1>6, <3>2, <3>3, <3>4
    <3> QED
      BY <3>1, <3>2, <3>4, <3>5 DEF FilesOf, EntriesOf, Deep
  <2> QED
    BY <1>7, <2>2, <2>3, <2>4, <2>5, <2>6 DEF Consistent, Accounted
<1> QED
  BY <1>8, <1>9

-----------------------------------------------------------------------------
(* The theorems *)

LEMMA OverlayInvInit == OverlayInit => OverlayInv
<1> SUFFICES ASSUME OverlayInit
             PROVE  Consistent
  BY DEF OverlayInv
<1>1. DOMAIN disk = {} /\ size \in [Nodes -> Nat] /\ state = "down"
  BY DEF OverlayInit, Nothing
<1>2. /\ EntriesOf(disk) = {} /\ FileNodes(disk, dirs) = {}
      /\ \A n : Long(DOMAIN disk, n) = {}
  BY <1>1 DEF EntriesOf, FileNodes, FilesOf, Deep, Long
<1>3. Tree(disk, dirs, size)
  BY <1>1, FS_EmptySet DEF Tree, IsInjective
<1>4. Bytes(disk, dirs, size) = 0
  BY <1>2, SumNone DEF Bytes
<1>5. Limited(disk, dirs, size)
  <2>1. /\ Cardinality(EntriesOf(disk)) = 0
        /\ Cardinality(Long(DOMAIN disk, 1)) = 0 /\ Cardinality(Long(DOMAIN disk, 2)) = 0
    BY <1>2, FS_EmptySet
  <2>2. MaxEntries \in Nat /\ MaxBytes \in Nat
    BY OverlayAssumption
  <2> QED
    BY <1>1, <1>2, <1>4, <2>1, <2>2 DEF Limited
<1> QED
  BY <1>1, <1>3, <1>5 DEF Consistent, Sound, Usable

LEMMA OverlayInvNext == OverlayInv /\ [OverlayNext]_overlayVars => OverlayInv'
<1> SUFFICES ASSUME OverlayInv, [OverlayNext]_overlayVars, ~meddled'
             PROVE  Consistent'
  BY DEF OverlayInv
<1>1. CASE UNCHANGED overlayVars
  <2>1. /\ UNCHANGED <<disk, dirs, size, meddled, state, poison, entries, total>>
        /\ UNCHANGED <<count, containers, workspaces, scopes, handles>>
    BY <1>1 DEF overlayVars, storage, accounting
  <2>2. Consistent
    BY <2>1 DEF OverlayInv
  <2> QED
    BY <2>1, <2>2 DEF Consistent, Sound, Usable, Accounted, HandlesExact
<1>2. CASE OverlayNext
  <2>1. ASSUME \/ New \/ CloseStore \/ Crash
        PROVE  Consistent'
    <3>1. Consistent
      BY <2>1 DEF OverlayInv, New, CloseStore, Crash
    <3> QED
      BY <2>1, <3>1, NewKeeps, StoppedKeeps
  <2>2. ASSUME Refuse
        PROVE  Consistent'
    <3>1. Consistent
      BY <2>2 DEF OverlayInv, Refuse, overlayVars
    <3> QED
      BY <2>2, <3>1, StoppedKeeps
  <2>3. ASSUME NEW p \in Locations, NEW n \in Sizes, Meddle(p, n)
        PROVE  FALSE
    BY <2>3 DEF Meddle
  <2>4. ASSUME NEW P, Look(P)
        PROVE  Consistent'
    <3>1. Consistent
      BY <2>4 DEF OverlayInv, Look
    <3> QED
      BY <2>4, <3>1, LookKeeps
  <2>5. ASSUME NEW p \in Locations, NEW end \in {"ok", "failed", "unchecked", "crash"},
               Mkdir(p, end)
        PROVE  Consistent'
    <3>1. Consistent
      BY <2>5 DEF OverlayInv, Mkdir
    <3> QED
      BY <2>5, <3>1, MkdirKeeps
  <2>6. ASSUME NEW p \in Locations, NEW end \in {"ok", "failed", "crash"}, RemoveEntry(p, end)
        PROVE  Consistent'
    <3>1. Consistent
      BY <2>6 DEF OverlayInv, RemoveEntry
    <3> QED
      BY <2>6, <3>1, RemoveKeeps
  <2>7. ASSUME NEW p \in Locations, NEW q \in Locations, NEW crash \in BOOLEAN,
               Rename(p, q, crash)
        PROVE  Consistent'
    <3>1. Consistent
      BY <2>7 DEF OverlayInv, Rename
    <3> QED
      BY <2>7, <3>1, RenameKeeps
  <2>8. ASSUME NEW p \in Locations, NEW h \in Handles, NEW writable \in BOOLEAN,
               NEW trunc \in BOOLEAN, NEW ok \in BOOLEAN, NEW seen \in BOOLEAN,
               Open(h, p, writable, trunc, ok, seen)
        PROVE  Consistent'
    <3>1. Consistent
      BY <2>8 DEF OverlayInv, Open
    <3> QED
      BY <2>8, <3>1, OpenKeeps
  <2>9. ASSUME NEW p \in Locations, NEW h \in Handles, NEW writable \in BOOLEAN,
               NEW end \in {"ok", "unchecked", "crash"}, Create(h, p, writable, end)
        PROVE  Consistent'
    <3>1. Consistent
      BY <2>9 DEF OverlayInv, Create
    <3> QED
      BY <2>9, <3>1, CreateKeeps
  <2>10. ASSUME NEW h \in DOMAIN handles, CloseFile(h)
         PROVE  Consistent'
    <3>1. Consistent
      BY <2>10 DEF OverlayInv, CloseFile
    <3> QED
      BY <2>10, <3>1, CloseFileKeeps
  <2>11. ASSUME NEW h \in DOMAIN handles, NEW seen \in BOOLEAN, ReadAt(h, seen)
         PROVE  Consistent'
    <3>1. Consistent
      BY <2>11 DEF OverlayInv, ReadAt
    <3> QED
      BY <2>11, <3>1, ReadAtKeeps
  <2>12. ASSUME NEW h \in DOMAIN handles, NEW n \in Sizes, NEW got \in Sizes,
                NEW seen \in BOOLEAN, Write(h, n, got, seen)
         PROVE  Consistent'
    <3>1. Consistent
      BY <2>12 DEF OverlayInv, Write
    <3> QED
      BY <2>12, <3>1, WriteKeeps
  <2> QED
    BY <1>2, <2>1, <2>2, <2>3, <2>4, <2>5, <2>6, <2>7, <2>8, <2>9, <2>10, <2>11, <2>12
       DEF OverlayNext
<1> QED
  BY <1>1, <1>2

\* The storage is a tree within its limits, and what the store knows of it is
\* what is there.
THEOREM OverlayConsistent == OverlaySpec => []OverlayInv
  BY OverlayInvInit, OverlayInvNext, PTL DEF OverlaySpec

\* AccountsForDisk of a store of any size.
THEOREM AccountsAlwaysForDisk == OverlaySpec => []AccountsForDisk
<1>1. OverlayInv => AccountsForDisk
  <2> SUFFICES ASSUME Usable, Accounted
               PROVE  AccountsForDisk
    BY DEF OverlayInv, Consistent, AccountsForDisk
  <2>1. DiskEntries = EntriesOf(disk) /\ DiskFiles = FilesOf(disk, dirs)
    BY DEF DiskEntries, EntriesOf, DiskFiles, FilesOf, IsDir
  <2>2. DiskBytes = Bytes(disk, dirs, size)
    BY <2>1, Zenon DEF DiskBytes, Bytes, FileNodes
  <2> QED
    BY <2>1, <2>2, Zenon DEF Accounted, AccountsForDisk, Records
<1> QED
  BY <1>1, OverlayConsistent, PTL

\* RestartAccepts of a store of any size.
THEOREM RestartAlwaysAccepts == OverlaySpec => []RestartAccepts
<1>1. OverlayInv => RestartAccepts
  BY SoundScannable DEF OverlayInv, Consistent, Sound, RestartAccepts
<1> QED
  BY <1>1, OverlayConsistent, PTL
=============================================================================
