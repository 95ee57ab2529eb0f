----------------------------- MODULE Operation ------------------------------
(***************************************************************************)
(* Calls of the Fabric client that change something or take long:          *)
(* internal/fabric/operation.go and mutations_operation.go, which follow a *)
(* long-running operation at the service, over Request of                  *)
(* internal/transport/client.go, which may send a request again.           *)
(*                                                                         *)
(* The service is external.  It may answer a POST at once or with the      *)
(* operation that it has started, lose answers, apply a request after it   *)
(* was given up on, and send any headers with the state of an operation.   *)
(* It tells the truth about two things: the operation that a POST has      *)
(* started, and the state of the operation that it is asked about.         *)
(***************************************************************************)
EXTENDS Integers, FiniteSets

CONSTANTS
    Calls,       \* calls in progress at the same time
    Kinds,       \* what they are
    MaxRetries,  \* Options.MaxRetries
    MaxOps       \* bound on the requests that the service applies

\* GetDefinition, UpdateNotebook, CreateItem; and CreateFolder, DeleteItem and
\* DeleteFolder, which have no operation to follow.
AllKinds == {"definition", "update", "item", "plain"}

ASSUME OperationAssumption ==
    /\ Kinds \subseteq AllKinds
    /\ MaxRetries \in Nat
    /\ MaxOps \in Nat
    /\ Kinds # {}

None == 0
Ids  == 1..MaxOps   \* operation IDs, in the order the service gives them out

VARIABLES
    made,     \* how many requests the service has applied (external)
    started,  \* [Calls -> SUBSET Ids]: by the requests of a call (external)
    status,   \* [Ids -> Statuses]: what has become of an operation (external)
    late,     \* requests given up on that may still be applied (external)
    kind,     \* [Calls -> Kinds]
    pc,       \* [Calls -> PCs]
    attempt,  \* [Calls -> Nat]: attempt of Request
    target,   \* [Calls -> Ids or None]: poll.id, then next.id
    got       \* [Calls -> Ids or None]: the operation whose end is reported

service == <<made, started, status>>
vars == <<service, late, kind, pc, attempt, target, got>>

Statuses == {"none", "running", "succeeded", "failed"}
Active   == {"post", "wait", "poll", "result"}
\* "refused" is an OperationError, "failed" any other error.
Ended    == {"succeeded", "refused", "failed"}

Init ==
    /\ made = 0
    /\ started = [c \in Calls |-> {}]
    /\ status = [o \in Ids |-> "none"]
    /\ late = {}
    /\ kind \in [Calls -> Kinds]
    /\ pc = [c \in Calls |-> "post"]
    /\ attempt = [c \in Calls |-> 0]
    /\ target = [c \in Calls |-> None]
    /\ got = [c \in Calls |-> None]

Goto(c, label) == pc' = [pc EXCEPT ![c] = label]

-----------------------------------------------------------------------------
(* The service (external) *)

\* A POST of c takes effect; s is how far its operation has got.
Apply(c, s) ==
    /\ made < MaxOps
    /\ made' = made + 1
    /\ started' = [started EXCEPT ![c] = @ \cup {made + 1}]
    /\ status' = [status EXCEPT ![made + 1] = s]

Deliver(r) ==
    /\ Apply(r.call, "running")
    /\ late' = late \ {r}
    /\ UNCHANGED <<kind, pc, attempt, target, got>>

Finish(o) ==
    /\ status[o] = "running"
    /\ \E s \in {"succeeded", "failed"} : status' = [status EXCEPT ![o] = s]
    /\ UNCHANGED <<made, started, late, kind, pc, attempt, target, got>>

\* Where a Location header points: nowhere, to another origin, to the public
\* API origin, or to a regional host of the service.
Locations ==
    [place : {"none", "foreign"}, op : {None}, result : {FALSE}]
        \cup [place : {"origin", "regional"}, op : Ids, result : BOOLEAN]

\* Location and x-ms-operation-id.
Headers == [location : Locations, id : Ids \cup {None}]

\* What comes with the 202 for the operation o names it, in one header at least.
Announced(o) ==
    {h \in Headers : \/ h.id = o
                     \/ h.id = None /\ h.location.op \in {o, None}}

-----------------------------------------------------------------------------
(* Targets *)

Bare(h) == h.location.place = "none" /\ h.id = None

\* operationTarget: whether there is one, and it is the one of the header
\* that names the operation.  A regional Location is not followed; it must
\* have the path that the ID gives.
Targeted(h) ==
    /\ h.location.place # "foreign"
    /\ h.location.place = "none" => h.id # None
    /\ h.location.place = "regional" => h.id = h.location.op
    /\ h.location.place = "origin" => h.id \in {None, h.location.op}

\* The ID in the target, and whether it is that of the result.
TargetId(h) == IF h.location.place = "none" THEN h.id ELSE h.location.op
ToResult(h) == h.location.place # "none" /\ h.location.result

\* (mutant) The Location of a poll is taken as it comes.
SameFollowed(c, h) == Bare(h) \/ Targeted(h)

\* A poll's headers, if there are any, are about the operation polled.
Same(c, h) ==
    \/ Bare(h)
    \/ h.id \in {None, target[c]} /\ Targeted([h EXCEPT !.id = target[c]])

\* next.id, after a poll with Same headers.
NextId(c, h) == IF h.location.place = "none" THEN target[c] ELSE h.location.op

-----------------------------------------------------------------------------
(* Request *)

\* safeRetry of the POST: reading a definition is the only one to repeat.
Safe(c) == kind[c] = "definition"

\* (mutant) Any POST may be sent again.
AgainAny(c) == attempt[c] < MaxRetries

\* Polls and reads of the result may always be sent again.
Again(c) == (pc[c] = "post" => Safe(c)) /\ attempt[c] < MaxRetries

\* No answer, or an error: another attempt after a delay; or the end, when the
\* status or Retry-After is not one to retry, or the context is done.
Unanswered(c) ==
    /\ \/ /\ Again(c)
          /\ attempt' = [attempt EXCEPT ![c] = @ + 1]
          /\ UNCHANGED pc
       \/ Goto(c, "failed") /\ attempt' = [attempt EXCEPT ![c] = 0]
    /\ UNCHANGED <<target, got>>

\* An answer: the next request starts over with its attempts.
Answered(c, label) == Goto(c, label) /\ attempt' = [attempt EXCEPT ![c] = 0]

-----------------------------------------------------------------------------
(* The POST *)

\* 200 or 201: the answer is the result.
PostDone(c) ==
    /\ pc[c] = "post"
    /\ Apply(c, "succeeded")
    /\ got' = [got EXCEPT ![c] = made + 1]
    /\ Answered(c, "succeeded")
    /\ UNCHANGED <<late, kind, target>>

\* 202, with headers that name a state to poll.
PostAccepted(c) ==
    /\ pc[c] = "post" /\ kind[c] # "plain"
    /\ Apply(c, "running")
    /\ \E h \in Announced(made + 1) :
          /\ Targeted(h) /\ ~ToResult(h)
          /\ target' = [target EXCEPT ![c] = TargetId(h)]
    /\ Answered(c, "wait")
    /\ UNCHANGED <<late, kind, got>>

\* The request fails, or its answer is lost, or is a 202 that names nothing to
\* poll: it may have been applied, or be applied later.
PostFails(c) ==
    /\ pc[c] = "post"
    /\ Unanswered(c)
    /\ \/ \E s \in {"running", "succeeded", "failed"} : Apply(c, s) /\ UNCHANGED late
       \/ /\ late' \in {late, late \cup {[call |-> c, attempt |-> attempt[c]]}}
          /\ UNCHANGED service
    /\ UNCHANGED kind

-----------------------------------------------------------------------------
(* Polling *)

\* waitForPoll; an invalid Retry-After or the deadline ends the call.
Wait(c) ==
    /\ pc[c] = "wait"
    /\ Goto(c, "poll") \/ Goto(c, "failed")
    /\ UNCHANGED <<service, late, kind, attempt, target, got>>

\* An answer to a poll, with code 200 or 202, whose body tells the state of
\* the operation; a 202 may have no body.
State(c, code, empty) ==
    IF empty /\ code = 202 THEN "running"
    ELSE IF empty THEN "missing"
    ELSE status[target[c]]

\* "Running" or "NotStarted".
PollPending(c, s, h) ==
    /\ s = "running" /\ Same(c, h)
    /\ Answered(c, IF ToResult(h) THEN "failed" ELSE "wait")
    /\ target' = [target EXCEPT ![c] = NextId(c, h)]
    /\ UNCHANGED got

\* "Failed" or "Cancelled".
PollRefused(c, s, h) ==
    /\ s = "failed" /\ Same(c, h)
    /\ Answered(c, "refused")
    /\ got' = [got EXCEPT ![c] = target[c]]
    /\ UNCHANGED target

\* "Succeeded", which a 202 contradicts.
Final(c, code, s) == s = "succeeded" /\ code # 202

\* An update is done, a read and a create go on to the result.
PollSucceeded(c, code, s, h) ==
    /\ Final(c, code, s) /\ Same(c, h)
    /\ target' = [target EXCEPT ![c] = NextId(c, h)]
    /\ IF kind[c] = "update"
         THEN Answered(c, "succeeded") /\ got' = [got EXCEPT ![c] = target'[c]]
         ELSE Answered(c, "result") /\ UNCHANGED got

\* An answer that contradicts itself, or the operation.
PollInvalid(c, code, s, h) ==
    /\ ~Same(c, h) \/ s \in {"none", "missing"} \/ (s = "succeeded" /\ ~Final(c, code, s))
    /\ Answered(c, "failed")
    /\ UNCHANGED <<target, got>>

Poll(c) ==
    /\ pc[c] = "poll"
    /\ \/ Unanswered(c)
       \/ \E code \in {200, 202}, empty \in BOOLEAN, h \in Headers :
             LET s == State(c, code, empty)
             IN  \/ PollPending(c, s, h)
                 \/ PollRefused(c, s, h)
                 \/ PollSucceeded(c, code, s, h)
                 \/ PollInvalid(c, code, s, h)
    /\ UNCHANGED <<service, late, kind>>

\* The result of the operation, which may also not be what was asked for.
Result(c) ==
    /\ pc[c] = "result"
    /\ \/ Unanswered(c)
       \/ /\ status[target[c]] = "succeeded"
          /\ \/ Answered(c, "succeeded") /\ got' = [got EXCEPT ![c] = target[c]]
             \/ Answered(c, "failed") /\ UNCHANGED got
          /\ UNCHANGED target
    /\ UNCHANGED <<service, late, kind>>

\* All calls have ended.
Over == (\A c \in Calls : pc[c] \in Ended) /\ UNCHANGED vars

-----------------------------------------------------------------------------
Next ==
    \/ \E c \in Calls :
          PostDone(c) \/ PostAccepted(c) \/ PostFails(c) \/ Wait(c) \/ Poll(c) \/ Result(c)
    \/ \E r \in late : Deliver(r)
    \/ \E o \in Ids : Finish(o)
    \/ Over

Spec == Init /\ [][Next]_vars

-----------------------------------------------------------------------------
(* Properties *)

Request == [call : Calls, attempt : 0..MaxRetries]

\* Every variable has the type of what it stands for, and Request makes at
\* most MaxRetries attempts after the first.
TypeOK ==
    /\ made \in 0..MaxOps
    /\ started \in [Calls -> SUBSET (1..made)]
    /\ status \in [Ids -> Statuses]
    /\ late \subseteq Request
    /\ kind \in [Calls -> Kinds]
    /\ pc \in [Calls -> Active \cup Ended]
    /\ attempt \in [Calls -> 0..MaxRetries]
    /\ target \in [Calls -> Ids \cup {None}]
    /\ got \in [Calls -> Ids \cup {None}]

\* "A create POST must never be retried", nor an update or delete: however
\* answers are lost and however late requests arrive, the service applies at
\* most one request of such a call.
AppliedOnce ==
    \A c \in Calls : ~Safe(c) => \A o, p \in started[c] : o = p

\* What a call reports is how an operation ended that this call has started:
\* success or a result only when it has succeeded, an OperationError only
\* when it has failed, whatever operations the headers of the polls name.
OutcomeBelongs ==
    \A c \in Calls : pc[c] \in {"succeeded", "refused"} =>
        /\ got[c] \in started[c]
        /\ status[got[c]] = IF pc[c] = "refused" THEN "failed" ELSE "succeeded"
=============================================================================
