--------------------------- MODULE RequestsProofs ---------------------------
(* Theorems about Operation, for any calls, retries and operations, and      *)
(* about Credentials, for any callers, accounts and targets.                 *)
EXTENDS Operation, Credentials, ListTheorems

-----------------------------------------------------------------------------
(* OPERATIONS *)

Following == {"wait", "poll", "result"}

\* A call polls an operation of its own.
TargetsOwn == \A c \in Calls : pc[c] \in Following => target[c] \in started[c]

\* Nothing has become of a POST that is still to be sent.
UnsentClean ==
    \A c \in Calls : ~Safe(c) /\ pc[c] = "post" =>
        started[c] = {} /\ \A r \in late : r.call # c

\* A write in the network is the only trace of its call.
LateAlone ==
    \A r \in late : ~Safe(r.call) =>
        started[r.call] = {} /\ \A s \in late : s.call = r.call => s = r

OInv == TypeOK /\ TargetsOwn /\ UnsentClean /\ LateAlone /\ AppliedOnce /\ OutcomeBelongs

-----------------------------------------------------------------------------
(* Targets *)

\* A target made from the headers of a 202 is the operation they announce.
LEMMA AnnouncedTarget ==
    ASSUME NEW o \in Ids, NEW h \in Announced(o), Targeted(h)
    PROVE  TargetId(h) = o
<1>1. o # None
  BY DEF Ids, None
<1>2. h.location.place \in {"none", "foreign", "origin", "regional"}
  BY DEF Announced, Headers, Locations
<1>3. h.id = o \/ (h.id = None /\ h.location.op \in {o, None})
  BY DEF Announced
<1>4. h.location.place \in {"origin", "regional"} => h.location.op \in Ids
  <2>1. h.location \in Locations
    BY DEF Announced, Headers
  <2>2. CASE h.location \in [place : {"none", "foreign"}, op : {None}, result : {FALSE}]
    <3>1. h.location.place \in {"none", "foreign"}
      BY <2>2
    <3> QED
      BY <3>1
  <2>3. CASE h.location \in [place : {"origin", "regional"}, op : Ids, result : BOOLEAN]
    BY <2>3
  <2> QED
    BY <2>1, <2>2, <2>3, Zenon DEF Locations
<1>5. None \notin Ids
  BY DEF Ids, None
<1> QED
  BY <1>1, <1>2, <1>3, <1>4, <1>5 DEF Targeted, TargetId

\* Whatever the headers of a poll name, the call stays with its operation.
LEMMA SameTarget ==
    ASSUME NEW c \in Calls, target[c] \in Ids, NEW h \in Headers, Same(c, h)
    PROVE  NextId(c, h) = target[c]
<1>1. CASE Bare(h)
  BY <1>1 DEF Bare, NextId
<1>2. CASE Targeted([h EXCEPT !.id = target[c]])
  <2>1. target[c] # None
    BY DEF Ids, None
  <2>2. /\ [h EXCEPT !.id = target[c]].location = h.location
        /\ [h EXCEPT !.id = target[c]].id = target[c]
    BY DEF Headers
  <2>3. h.location.place \in {"none", "foreign", "origin", "regional"}
    BY DEF Headers, Locations
  <2> QED
    BY <1>2, <2>1, <2>2, <2>3 DEF Targeted, NextId
<1> QED
  BY <1>1, <1>2 DEF Same

\* The states that an answer to a poll may tell.
LEMMA TruthfulState ==
    ASSUME NEW c \in Calls, NEW code, NEW empty \in BOOLEAN
    PROVE  /\ State(c, code, empty) = "failed" => status[target[c]] = "failed"
           /\ Final(c, code, State(c, code, empty)) => status[target[c]] = "succeeded"
  BY DEF State, Final

-----------------------------------------------------------------------------
(* Types *)

LEMMA InitType == Init => TypeOK
  BY OperationAssumption DEF Init, TypeOK, Ids, Statuses, Active, Ended, None, Request

\* One more applied request, which is none of the earlier ones.
LEMMA Applied ==
    ASSUME TypeOK, NEW c \in Calls, NEW s \in Statuses, Apply(c, s)
    PROVE  /\ made' \in 0..MaxOps
           /\ made' = made + 1
           /\ made + 1 \in Ids
           /\ started' \in [Calls -> SUBSET (1..made')]
           /\ status' \in [Ids -> Statuses]
           /\ started'[c] = started[c] \cup {made + 1}
           /\ \A d \in Calls : d # c => started'[d] = started[d]
           /\ status'[made + 1] = s
           /\ \A o \in 1..made : status'[o] = status[o]
           /\ \A d \in Calls : started[d] \subseteq started'[d]
<1>1. made' = made + 1 /\ made' \in 0..MaxOps /\ made + 1 \in Ids
  BY OperationAssumption DEF TypeOK, Apply, Ids
<1>2. status' \in [Ids -> Statuses]
  BY DEF TypeOK, Apply
<1>3. status'[made + 1] = s /\ \A o \in 1..made : status'[o] = status[o]
  BY <1>1 DEF TypeOK, Apply, Ids
<1>4. /\ started'[c] = started[c] \cup {made + 1}
      /\ \A d \in Calls : d # c => started'[d] = started[d]
  BY DEF TypeOK, Apply
<1>5. started' \in [Calls -> SUBSET (1..made')]
  BY <1>1 DEF TypeOK, Apply
<1> QED
  BY <1>1, <1>2, <1>3, <1>4, <1>5

\* What a step of Request leaves behind.
LEMMA AttemptType ==
    ASSUME TypeOK, NEW c \in Calls,
           \/ Unanswered(c)
           \/ \E label \in Active \cup Ended : Answered(c, label)
    PROVE  /\ pc' \in [Calls -> Active \cup Ended]
           /\ attempt' \in [Calls -> 0..MaxRetries]
           /\ \A d \in Calls : d # c => pc'[d] = pc[d]
<1>1. CASE Unanswered(c)
  <2>1. CASE Again(c) /\ attempt' = [attempt EXCEPT ![c] = @ + 1] /\ UNCHANGED pc
    <3>1. attempt[c] + 1 \in 0..MaxRetries
      BY <2>1, OperationAssumption DEF TypeOK, Again
    <3> QED
      BY <2>1, <3>1, OperationAssumption DEF TypeOK
  <2>2. CASE Goto(c, "failed") /\ attempt' = [attempt EXCEPT ![c] = 0]
    BY <2>2, OperationAssumption DEF TypeOK, Goto, Ended
  <2> QED
    BY <1>1, <2>1, <2>2 DEF Unanswered
<1>2. CASE \E label \in Active \cup Ended : Answered(c, label)
  BY <1>2, OperationAssumption DEF TypeOK, Answered, Goto
<1> QED
  BY <1>1, <1>2

-----------------------------------------------------------------------------
(* After the POST: the service and the target stay as they are. *)

\* What a call that ended reports of the operation o.
Ending(label) == IF label = "refused" THEN "failed" ELSE "succeeded"

FollowStep(c) ==
    /\ pc[c] \in Following
    /\ UNCHANGED <<service, late, kind, target>>
    /\ pc' \in [Calls -> Active \cup Ended]
    /\ attempt' \in [Calls -> 0..MaxRetries]
    /\ got' \in [Calls -> Ids \cup {None}]
    /\ \A d \in Calls : d # c => pc'[d] = pc[d] /\ got'[d] = got[d]
    /\ pc'[c] # "post"
    /\ pc'[c] \in {"succeeded", "refused"} =>
          got'[c] = target[c] /\ status[target[c]] = Ending(pc'[c])

LEMMA FollowKeeps ==
    ASSUME OInv, NEW c \in Calls, FollowStep(c)
    PROVE  OInv'
<1>1. TypeOK'
  BY DEF OInv, TypeOK, FollowStep, service, Request
<1>2. TargetsOwn'
  BY DEF OInv, TargetsOwn, FollowStep, service
<1>3. UnsentClean' /\ LateAlone' /\ AppliedOnce'
  BY DEF OInv, TypeOK, UnsentClean, LateAlone, AppliedOnce, Safe, FollowStep, service, Following
<1>4. OutcomeBelongs'
  BY DEF OInv, TypeOK, TargetsOwn, OutcomeBelongs, FollowStep, Ending, service
<1> QED
  BY <1>1, <1>2, <1>3, <1>4 DEF OInv

LEMMA WaitFollows ==
    ASSUME OInv, NEW c \in Calls, Wait(c)
    PROVE  FollowStep(c)
<1>1. \E label \in {"poll", "failed"} : Goto(c, label)
  BY DEF Wait
<1>2. /\ pc' \in [Calls -> Active \cup Ended]
      /\ pc'[c] \in {"poll", "failed"}
      /\ \A d \in Calls : d # c => pc'[d] = pc[d]
  BY <1>1 DEF OInv, TypeOK, Goto, Active, Ended
<1> QED
  BY <1>2 DEF Wait, OInv, TypeOK, FollowStep, Following, service

\* The operation polled is one of the call's own.
LEMMA TargetType ==
    ASSUME OInv, NEW c \in Calls, pc[c] \in Following
    PROVE  target[c] \in Ids
  BY OperationAssumption DEF OInv, TypeOK, TargetsOwn, Ids

\* Another attempt, or giving up, ends nothing.
LEMMA UnansweredFollows ==
    ASSUME OInv, NEW c \in Calls, pc[c] \in {"poll", "result"}, Unanswered(c),
           UNCHANGED <<service, late, kind>>
    PROVE  FollowStep(c)
<1>1. pc'[c] \in {"poll", "result", "failed"}
  BY DEF Unanswered, Goto, OInv, TypeOK
<1>2. UNCHANGED <<target, got>>
  BY DEF Unanswered
<1> QED
  BY <1>1, <1>2, AttemptType DEF OInv, TypeOK, FollowStep, Following

\* An answer ends the call truthfully or does not end it.
LEMMA AnsweredFollows ==
    ASSUME OInv, NEW c \in Calls, pc[c] \in Following,
           NEW label \in (Active \cup Ended) \ {"post"}, Answered(c, label),
           UNCHANGED <<service, late, kind, target>>,
           \/ UNCHANGED got /\ label \notin {"succeeded", "refused"}
           \/ got' = [got EXCEPT ![c] = target[c]] /\ status[target[c]] = Ending(label)
    PROVE  FollowStep(c)
<1>1. pc'[c] = label
  BY DEF Answered, Goto, OInv, TypeOK
<1>2. target[c] \in Ids
  BY TargetType
<1>3. got' \in [Calls -> Ids \cup {None}] /\ \A d \in Calls : d # c => got'[d] = got[d]
  BY <1>2 DEF OInv, TypeOK
<1>4. label \in {"succeeded", "refused"} =>
          got'[c] = target[c] /\ status[target[c]] = Ending(label)
  BY DEF OInv, TypeOK
<1> QED
  BY <1>1, <1>3, <1>4, AttemptType DEF OInv, FollowStep

LEMMA PollFollows ==
    ASSUME OInv, NEW c \in Calls, Poll(c)
    PROVE  FollowStep(c)
<1>1. pc[c] \in Following /\ pc[c] \in {"poll", "result"} /\ UNCHANGED <<service, late, kind>>
  BY DEF Poll, Following
<1>2. target \in [Calls -> Ids \cup {None}] /\ target[c] \in Ids
  BY <1>1, TargetType DEF OInv, TypeOK
<1>3. ASSUME NEW h \in Headers, Same(c, h),
             target' = [target EXCEPT ![c] = NextId(c, h)]
      PROVE  target' = target
  BY <1>2, <1>3, SameTarget
<1>4. CASE Unanswered(c)
  BY <1>1, <1>4, UnansweredFollows
<1>5. ASSUME NEW code \in {200, 202}, NEW empty \in BOOLEAN, NEW h \in Headers,
             \/ PollPending(c, State(c, code, empty), h)
             \/ PollRefused(c, State(c, code, empty), h)
             \/ PollSucceeded(c, code, State(c, code, empty), h)
             \/ PollInvalid(c, code, State(c, code, empty), h)
      PROVE  FollowStep(c)
  <2> DEFINE s == State(c, code, empty)
  <2>1. CASE PollPending(c, s, h)
    <3>1. \E label \in {"failed", "wait"} : Answered(c, label)
      BY <2>1 DEF PollPending
    <3>2. UNCHANGED <<target, got>>
      BY <1>3, <2>1 DEF PollPending
    <3> QED
      BY <1>1, <3>1, <3>2, AnsweredFollows DEF Active, Ended
  <2>2. CASE PollRefused(c, s, h)
    <3>1. status[target[c]] = Ending("refused")
      BY <2>2, TruthfulState DEF PollRefused, Ending
    <3> QED
      BY <1>1, <2>2, <3>1, AnsweredFollows DEF PollRefused, Ended
  <2>3. CASE PollSucceeded(c, code, s, h)
    <3>1. status[target[c]] = Ending("succeeded")
      BY <2>3, TruthfulState DEF PollSucceeded, Ending
    <3>2. UNCHANGED target
      <4>1. Same(c, h) /\ target' = [target EXCEPT ![c] = NextId(c, h)]
        BY <2>3 DEF PollSucceeded
      <4> QED
        BY <1>3, <4>1
    <3>3. CASE kind[c] = "update"
      <4>1. Answered(c, "succeeded") /\ got' = [got EXCEPT ![c] = target[c]]
        BY <2>3, <3>2, <3>3 DEF PollSucceeded
      <4> QED
        BY <1>1, <3>1, <3>2, <4>1, AnsweredFollows DEF Ended
    <3>4. CASE kind[c] # "update"
      BY <1>1, <2>3, <3>2, <3>4, AnsweredFollows DEF PollSucceeded, Active
    <3> QED
      BY <3>3, <3>4
  <2>4. CASE PollInvalid(c, code, s, h)
    BY <1>1, <2>4, AnsweredFollows DEF PollInvalid, Ended
  <2> QED
    BY <1>5, <2>1, <2>2, <2>3, <2>4
<1> QED
  BY <1>4, <1>5 DEF Poll

LEMMA ResultFollows ==
    ASSUME OInv, NEW c \in Calls, Result(c)
    PROVE  FollowStep(c)
<1>1. pc[c] \in Following /\ pc[c] \in {"poll", "result"} /\ UNCHANGED <<service, late, kind>>
  BY DEF Result, Following
<1>2. CASE Unanswered(c)
  BY <1>1, <1>2, UnansweredFollows
<1>3. CASE /\ status[target[c]] = "succeeded"
           /\ Answered(c, "succeeded") /\ got' = [got EXCEPT ![c] = target[c]]
           /\ UNCHANGED target
  BY <1>1, <1>3, AnsweredFollows DEF Ending, Ended
<1>4. CASE Answered(c, "failed") /\ UNCHANGED <<got, target>>
  BY <1>1, <1>4, AnsweredFollows DEF Ended
<1> QED
  BY <1>2, <1>3, <1>4 DEF Result

-----------------------------------------------------------------------------
(* The POST *)

\* The POST of c has been applied; if it is to be sent again, it is safe.
PostStep(c) ==
    /\ pc[c] = "post"
    /\ UNCHANGED <<late, kind>>
    /\ pc' \in [Calls -> Active \cup Ended]
    /\ attempt' \in [Calls -> 0..MaxRetries]
    /\ target' \in [Calls -> Ids \cup {None}]
    /\ got' \in [Calls -> Ids \cup {None}]
    /\ \A d \in Calls : d # c =>
          pc'[d] = pc[d] /\ target'[d] = target[d] /\ got'[d] = got[d]
    /\ pc'[c] = "post" => Safe(c)
    /\ pc'[c] \in Following => target'[c] = made + 1
    /\ pc'[c] \in {"succeeded", "refused"} =>
          got'[c] = made + 1 /\ status'[made + 1] = Ending(pc'[c])

LEMMA PostKeeps ==
    ASSUME OInv, NEW c \in Calls, NEW s \in Statuses, Apply(c, s), PostStep(c)
    PROVE  OInv'
<1>1. /\ TypeOK /\ made \in Nat
      /\ started'[c] = started[c] \cup {made + 1}
      /\ \A d \in Calls : d # c => started'[d] = started[d]
      /\ \A d \in Calls : started[d] \subseteq 1..made
      /\ \A o \in 1..made : status'[o] = status[o]
  BY Applied DEF OInv, TypeOK
<1>2. TypeOK'
  BY <1>1, Applied DEF TypeOK, PostStep, Request
<1>3. TargetsOwn'
  BY <1>1 DEF OInv, TargetsOwn, PostStep
<1>4. UnsentClean'
  BY <1>1 DEF OInv, UnsentClean, PostStep, Safe
<1>5. LateAlone'
  <2> SUFFICES ASSUME NEW r \in late, ~Safe(r.call)
               PROVE  started'[r.call] = {} /\ \A q \in late : q.call = r.call => q = r
    BY DEF LateAlone, PostStep, Safe
  <2>1. r.call \in Calls
    BY <1>1 DEF TypeOK, Request
  <2>2. r.call # c
    BY DEF OInv, UnsentClean, PostStep
  <2> QED
    BY <1>1, <2>1, <2>2 DEF OInv, LateAlone
<1>6. AppliedOnce'
  BY <1>1 DEF OInv, AppliedOnce, UnsentClean, PostStep, Safe
<1>7. OutcomeBelongs'
  <2> SUFFICES ASSUME NEW d \in Calls, pc'[d] \in {"succeeded", "refused"}
               PROVE  got'[d] \in started'[d] /\ status'[got'[d]] = Ending(pc'[d])
    BY DEF OutcomeBelongs, Ending
  <2>1. CASE d = c
    BY <1>1, <2>1 DEF PostStep
  <2>2. CASE d # c
    <3>1. pc'[d] = pc[d] /\ got'[d] = got[d] /\ started'[d] = started[d]
      BY <1>1, <2>2 DEF PostStep
    <3>2. got[d] \in started[d] /\ status[got[d]] = Ending(pc[d])
      BY <3>1 DEF OInv, OutcomeBelongs, Ending
    <3>3. status'[got[d]] = status[got[d]]
      BY <1>1, <3>2
    <3> QED
      BY <3>1, <3>2, <3>3
  <2> QED
    BY <2>1, <2>2
<1> QED
  BY <1>2, <1>3, <1>4, <1>5, <1>6, <1>7 DEF OInv

LEMMA PostDoneKeeps ==
    ASSUME OInv, NEW c \in Calls, PostDone(c)
    PROVE  OInv'
<1>1. Apply(c, "succeeded") /\ "succeeded" \in Statuses
  BY DEF PostDone, Statuses
<1>2. made + 1 \in Ids /\ status'[made + 1] = "succeeded"
  BY <1>1, Applied DEF OInv
<1>3. Answered(c, "succeeded")
  BY DEF PostDone
<1>4. pc'[c] = "succeeded"
  BY <1>3 DEF Answered, Goto, OInv, TypeOK
<1>5. /\ got' \in [Calls -> Ids \cup {None}] /\ got'[c] = made + 1
      /\ \A d \in Calls : d # c => got'[d] = got[d]
  BY <1>2 DEF PostDone, OInv, TypeOK
<1>6. PostStep(c)
  BY <1>2, <1>3, <1>4, <1>5, AttemptType
     DEF PostDone, PostStep, OInv, TypeOK, Following, Ending, Ended
<1> QED
  BY <1>1, <1>6, PostKeeps

LEMMA PostAcceptedKeeps ==
    ASSUME OInv, NEW c \in Calls, PostAccepted(c)
    PROVE  OInv'
<1>1. Apply(c, "running") /\ "running" \in Statuses
  BY DEF PostAccepted, Statuses
<1>2. made + 1 \in Ids
  BY <1>1, Applied DEF OInv
<1>3. Answered(c, "wait")
  BY DEF PostAccepted
<1>4. pc'[c] = "wait"
  BY <1>3 DEF Answered, Goto, OInv, TypeOK
<1>5. target' = [target EXCEPT ![c] = made + 1]
  BY <1>2, AnnouncedTarget DEF PostAccepted
<1>6. /\ target' \in [Calls -> Ids \cup {None}] /\ target'[c] = made + 1
      /\ \A d \in Calls : d # c => target'[d] = target[d]
  BY <1>2, <1>5 DEF OInv, TypeOK
<1>7. PostStep(c)
  BY <1>3, <1>4, <1>6, AttemptType DEF PostAccepted, PostStep, OInv, TypeOK, Active
<1> QED
  BY <1>1, <1>7, PostKeeps

\* A POST that was given up on, whatever becomes of it.
LEMMA PostFailsKeeps ==
    ASSUME OInv, NEW c \in Calls, PostFails(c)
    PROVE  OInv'
<1>1. /\ pc[c] = "post" /\ Unanswered(c) /\ UNCHANGED <<kind, target, got>>
  BY DEF PostFails, Unanswered
<1>2. /\ pc' \in [Calls -> Active \cup Ended]
      /\ attempt' \in [Calls -> 0..MaxRetries]
      /\ \A d \in Calls : d # c => pc'[d] = pc[d]
  BY <1>1, AttemptType DEF OInv
<1>3. pc'[c] = "failed" \/ (pc'[c] = "post" /\ Safe(c))
  BY <1>1 DEF Unanswered, Again, Goto, OInv, TypeOK
<1>4. ASSUME NEW s \in {"running", "succeeded", "failed"}, Apply(c, s), UNCHANGED late
      PROVE  OInv'
  <2>1. PostStep(c)
    BY <1>1, <1>2, <1>3, <1>4 DEF PostStep, OInv, TypeOK, Following
  <2> QED
    BY <1>4, <2>1, PostKeeps DEF Statuses
<1>5. ASSUME late' \in {late, late \cup {[call |-> c, attempt |-> attempt[c]]}},
             UNCHANGED service
      PROVE  OInv'
  <2> DEFINE q == [call |-> c, attempt |-> attempt[c]]
  <2>1. q \in Request /\ q.call = c
    BY DEF OInv, TypeOK, Request
  <2> HIDE DEF q
  <2>2. late' \in {late, late \cup {q}}
    BY <1>5 DEF q
  <2>3. TypeOK'
    BY <1>1, <1>2, <1>5, <2>1, <2>2 DEF OInv, TypeOK, service, Request
  <2>4. TargetsOwn'
    BY <1>1, <1>2, <1>3, <1>5 DEF OInv, TargetsOwn, service, Following
  <2>5. UnsentClean'
    BY <1>1, <1>2, <1>3, <1>5, <2>1, <2>2 DEF OInv, UnsentClean, Safe, service
  <2>6. LateAlone'
    BY <1>1, <1>5, <2>1, <2>2 DEF OInv, LateAlone, UnsentClean, Safe, service
  <2>7. AppliedOnce'
    BY <1>1, <1>5 DEF OInv, AppliedOnce, Safe, service
  <2>8. OutcomeBelongs'
    BY <1>1, <1>2, <1>3, <1>5 DEF OInv, OutcomeBelongs, service
  <2> QED
    BY <2>3, <2>4, <2>5, <2>6, <2>7, <2>8 DEF OInv
<1> QED
  BY <1>4, <1>5 DEF PostFails

-----------------------------------------------------------------------------
(* The service *)

LEMMA DeliverKeeps ==
    ASSUME OInv, NEW r \in late, Deliver(r)
    PROVE  OInv'
<1> DEFINE c == r.call
<1>1. c \in Calls /\ r \in Request
  BY DEF OInv, TypeOK, Request
<1>2. /\ Apply(c, "running") /\ "running" \in Statuses
      /\ late' = late \ {r} /\ UNCHANGED <<kind, pc, attempt, target, got>>
  BY DEF Deliver, Statuses
<1>3. /\ TypeOK /\ made \in Nat
      /\ started'[c] = started[c] \cup {made + 1}
      /\ \A d \in Calls : d # c => started'[d] = started[d]
      /\ \A d \in Calls : started[d] \subseteq started'[d]
      /\ \A d \in Calls : started[d] \subseteq 1..made
      /\ \A o \in 1..made : status'[o] = status[o]
  BY <1>1, <1>2, Applied DEF OInv, TypeOK
<1>4. TypeOK'
  BY <1>1, <1>2, Applied DEF OInv, TypeOK, Request
<1>5. TargetsOwn'
  BY <1>2, <1>3 DEF OInv, TargetsOwn
<1>6. UnsentClean'
  BY <1>1, <1>2, <1>3 DEF OInv, UnsentClean, Safe
<1>7. LateAlone'
  <2> SUFFICES ASSUME NEW q \in late \ {r}, ~Safe(q.call)
               PROVE  started'[q.call] = {} /\ \A x \in late \ {r} : x.call = q.call => x = q
    BY <1>2 DEF LateAlone, Safe
  <2>1. q.call # c /\ q.call \in Calls
    BY <1>1 DEF OInv, TypeOK, Request, LateAlone
  <2> QED
    BY <1>3, <2>1 DEF OInv, LateAlone
<1>8. AppliedOnce'
  BY <1>1, <1>2, <1>3 DEF OInv, AppliedOnce, LateAlone, Safe
<1>9. OutcomeBelongs'
  BY <1>2, <1>3 DEF OInv, OutcomeBelongs
<1> QED
  BY <1>4, <1>5, <1>6, <1>7, <1>8, <1>9 DEF OInv

\* An operation that has ended stays as it is.
LEMMA FinishKeeps ==
    ASSUME OInv, NEW o \in Ids, Finish(o)
    PROVE  OInv'
<1>1. /\ UNCHANGED <<made, started, late, kind, pc, attempt, target, got>>
      /\ status' \in [Ids -> Statuses]
      /\ \A p \in Ids : status[p] # "running" => status'[p] = status[p]
  BY DEF Finish, OInv, TypeOK, Statuses
<1>2. TypeOK'
  BY <1>1 DEF OInv, TypeOK, Request
<1>3. TargetsOwn' /\ UnsentClean' /\ LateAlone' /\ AppliedOnce'
  BY <1>1 DEF OInv, TargetsOwn, UnsentClean, LateAlone, AppliedOnce, Safe
<1>4. OutcomeBelongs'
  <2>1. \A c \in Calls : started[c] \subseteq Ids
    BY OperationAssumption DEF OInv, TypeOK, Ids
  <2> QED
    BY <1>1, <2>1 DEF OInv, OutcomeBelongs
<1> QED
  BY <1>2, <1>3, <1>4 DEF OInv

-----------------------------------------------------------------------------
(* The invariant *)

LEMMA InitOInv == Init => OInv
<1> SUFFICES ASSUME Init PROVE OInv
  OBVIOUS
<1>1. TypeOK
  BY InitType
<1>2. TargetsOwn /\ UnsentClean /\ LateAlone /\ AppliedOnce /\ OutcomeBelongs
  BY DEF Init, TargetsOwn, UnsentClean, LateAlone, AppliedOnce, OutcomeBelongs, Following
<1> QED
  BY <1>1, <1>2 DEF OInv

LEMMA OInvInductive == OInv /\ [Next]_vars => OInv'
<1> SUFFICES ASSUME OInv, [Next]_vars PROVE OInv'
  OBVIOUS
<1>1. ASSUME NEW c \in Calls, PostDone(c) PROVE OInv'
  BY <1>1, PostDoneKeeps
<1>2. ASSUME NEW c \in Calls, PostAccepted(c) PROVE OInv'
  BY <1>2, PostAcceptedKeeps
<1>3. ASSUME NEW c \in Calls, PostFails(c) PROVE OInv'
  BY <1>3, PostFailsKeeps
<1>4. ASSUME NEW c \in Calls, Wait(c) \/ Poll(c) \/ Result(c) PROVE OInv'
  BY <1>4, WaitFollows, PollFollows, ResultFollows, FollowKeeps
<1>5. ASSUME NEW r \in late, Deliver(r) PROVE OInv'
  BY <1>5, DeliverKeeps
<1>6. ASSUME NEW o \in Ids, Finish(o) PROVE OInv'
  BY <1>6, FinishKeeps
<1>7. CASE UNCHANGED vars
  <2>1. TypeOK'
    BY <1>7 DEF OInv, TypeOK, vars, service, Request
  <2>2. TargetsOwn' /\ UnsentClean' /\ LateAlone' /\ AppliedOnce' /\ OutcomeBelongs'
    BY <1>7 DEF OInv, TargetsOwn, UnsentClean, LateAlone, AppliedOnce, OutcomeBelongs,
                Safe, vars, service
  <2> QED
    BY <2>1, <2>2 DEF OInv
<1> QED
  BY <1>1, <1>2, <1>3, <1>4, <1>5, <1>6, <1>7 DEF Next, Over

LEMMA OInvAlways == Spec => []OInv
  BY InitOInv, OInvInductive, PTL DEF Spec

\* The calls keep their types and their limit on attempts: the retry policy
\* of Request and every step of the operation protocol.
THEOREM TypeCorrect == Spec => []TypeOK
<1>1. OInv => TypeOK
  BY DEF OInv
<1> QED
  BY <1>1, OInvAlways, PTL

\* No update, create or delete is applied twice, however answers are lost and
\* however late requests arrive: safeRetry is false for them.
THEOREM WritesApplyOnce == Spec => []AppliedOnce
<1>1. OInv => AppliedOnce
  BY DEF OInv
<1> QED
  BY <1>1, OInvAlways, PTL

\* A call reports the end of an operation that one of its requests has started,
\* as it was: the checks of operationTarget and of the polling loops.
THEOREM OutcomesAreOwn == Spec => []OutcomeBelongs
<1>1. OInv => OutcomeBelongs
  BY DEF OInv
<1> QED
  BY <1>1, OInvAlways, PTL

-----------------------------------------------------------------------------
(* CREDENTIALS *)

\* The steps before a caller looks for a grant; those with its token, its
\* target and its capacity; and the others.
BeforeAsking == {"token", "awaittoken", "refresh", "publish", "taketoken"}
Asking == {"grant", "awaitgrant", "load", "finish", "takegrant", "send"}

Ops == [step : {"idle", "identify"} \cup BeforeAsking \cup Asking,
        aim : Targets \cup {Nothing}, tok : Tokens \cup {Nothing},
        cap : Capacities \cup {Nothing}, got : Grants \cup {Nothing}]

\* What is retained, flying or held is of its type.
Typed ==
    /\ now \in Nat /\ account \in Accounts /\ capacity \in Capacities
    /\ token \in Tokens \cup {Nothing}
    /\ refresh \in Callers \cup {Nothing}
    /\ DOMAIN known \subseteq Tokens /\ \A t \in DOMAIN known : known[t] \in Capacities
    /\ DOMAIN grants \subseteq Keys /\ \A k \in DOMAIN grants : grants[k] \in Grants
    /\ DOMAIN flights \subseteq Keys /\ \A k \in DOMAIN flights : flights[k] \in Callers
    /\ op \in [Callers -> Ops]

\* Grant g has been issued for the token, the target and the capacity of k.
For(g, k) ==
    g.account = k.token.account /\ g.target = k.target /\ g.capacity = k.capacity

\* A caller that has begun has a target, one that has a token keeps it, and one
\* that looks for a grant has all the parts of its key.  Earlier it holds none;
\* what it holds has been issued for its key, and it sends nothing without.
Shaped(o) ==
    /\ o.step # "idle" => o.aim # Nothing
    /\ o.step \in {"identify"} \cup Asking => o.tok # Nothing
    /\ o.step \in Asking => o.cap # Nothing
    /\ o.step \notin Asking => o.got = Nothing
    /\ o.got # Nothing => For(o.got, Key(o))
    /\ o.step = "send" => o.got # Nothing

\* So has everything that is retained.
Issued == \A k \in DOMAIN grants : For(grants[k], k)

GInv == Typed /\ Issued /\ \A c \in Callers : Shaped(op[c])

-----------------------------------------------------------------------------
(* Functions *)

\* What a table is after an entry has been put into it.
LEMMA Put ==
    ASSUME NEW f, NEW k, NEW v
    PROVE  /\ DOMAIN With(f, k, v) = DOMAIN f \cup {k}
           /\ With(f, k, v)[k] = v
           /\ \A j \in DOMAIN f : j # k => With(f, k, v)[j] = f[j]
  BY DEF With

\* A restricted table has the entries it had.
LEMMA Restricted ==
    ASSUME NEW f, NEW S
    PROVE  DOMAIN Restrict(f, S) = S /\ \A j \in S : Restrict(f, S)[j] = f[j]
  BY DEF Restrict

\* A restricted table of grants is still one.
LEMMA FewerGrants ==
    ASSUME NEW S, S \subseteq DOMAIN grants, GInv
    PROVE  /\ DOMAIN Restrict(grants, S) \subseteq Keys
           /\ \A k \in S : /\ Restrict(grants, S)[k] \in Grants
                           /\ For(Restrict(grants, S)[k], k)
           /\ DOMAIN Restrict(grants, S) = S
  BY Restricted DEF GInv, Typed, Issued

-----------------------------------------------------------------------------
(* The invariant *)

LEMMA InitGInv == CredentialsInit => GInv
  BY DEF CredentialsInit, GInv, Typed, Shaped, Issued, Idle, Ops, BeforeAsking, Asking

\* A step of one caller, which leaves the grants alone.
LEMMA OneCaller ==
    ASSUME GInv, NEW c \in Callers, NEW o \in Ops, Shaped(o),
           op' = [op EXCEPT ![c] = o], UNCHANGED grants,
           now' \in Nat, account' \in Accounts, capacity' \in Capacities,
           token' \in Tokens \cup {Nothing}, refresh' \in Callers \cup {Nothing},
           DOMAIN known' \subseteq Tokens, \A t \in DOMAIN known' : known'[t] \in Capacities,
           DOMAIN flights' \subseteq Keys, \A k \in DOMAIN flights' : flights'[k] \in Callers
    PROVE  GInv'
<1>1. op' \in [Callers -> Ops] /\ \A w \in Callers : op'[w] = IF w = c THEN o ELSE op[w]
  BY DEF GInv, Typed
<1>2. \A w \in Callers : Shaped(op[w])'
  BY <1>1 DEF GInv, Shaped, Key, For
<1> QED
  BY <1>1, <1>2 DEF GInv, Typed, Issued, For

\* A caller goes on with a grant for its key, or fails.
LEMMA Granted ==
    ASSUME NEW o \in Ops, Shaped(o), o.step \in Asking, NEW g \in Grants \cup {Nothing},
           g # Nothing => For(g, Key(o))
    PROVE  WithGrant(o, g) \in Ops /\ Shaped(WithGrant(o, g))
<1>1. CASE Valid(g)
  <2> DEFINE p == [o EXCEPT !.step = "send", !.got = g]
  <2>1. p \in Ops /\ p.step = "send"
    BY DEF Ops, Asking
  <2>2. p.aim = o.aim /\ p.tok = o.tok /\ p.cap = o.cap /\ p.got = g
    BY DEF Ops
  <2>3. Shaped(p)
    BY <1>1, <2>1, <2>2 DEF Shaped, Valid, Key, For, Asking
  <2> QED
    BY <1>1, <2>1, <2>3 DEF WithGrant
<1>2. CASE ~Valid(g)
  BY <1>2 DEF WithGrant, Idle, Ops, Shaped, Asking
<1> QED
  BY <1>1, <1>2

LEMMA GInvInductive == GInv /\ [CredentialsNext]_credentials => GInv'
<1> SUFFICES ASSUME GInv, [CredentialsNext]_credentials
             PROVE  GInv'
  OBVIOUS
<1> USE CredentialsAssumption
<1>0. /\ op \in [Callers -> Ops] /\ \A c \in Callers : Shaped(op[c])
      /\ Typed /\ Issued
      /\ now \in Nat /\ account \in Accounts
      /\ token \in Tokens \cup {Nothing} /\ refresh \in Callers \cup {Nothing}
  BY DEF GInv, Typed
<1>1. ASSUME NEW c \in Callers, NEW t \in Targets, Begin(c, t)
      PROVE  GInv'
  <2> DEFINE o == [op[c] EXCEPT !.step = "token", !.aim = t]
  <2>1. o \in Ops /\ Shaped(o)
    <3>1. op[c] \in Ops /\ Shaped(op[c]) /\ op[c].step = "idle"
      BY <1>0, <1>1 DEF Begin, At
    <3> QED
      BY <3>1 DEF Ops, Shaped, BeforeAsking, Asking
  <2>2. op' = [op EXCEPT ![c] = o]
    BY <1>0, <1>1 DEF Begin
  <2> QED
    BY <1>0, <1>1, <2>1, <2>2, OneCaller DEF Begin, Typed, world, table
<1>2. ASSUME NEW c \in Callers, TokenHit(c)
      PROVE  GInv'
  <2> DEFINE o == WithToken(op[c], token)
  <2>1. o \in Ops /\ Shaped(o)
    <3>1. op[c] \in Ops /\ Shaped(op[c]) /\ op[c].step = "token" /\ Ample(token)
      BY <1>0, <1>2 DEF TokenHit, At
    <3> QED
      BY <3>1, <1>0 DEF Ops, Shaped, BeforeAsking, Asking, WithToken, Idle, Ample
  <2>2. op' = [op EXCEPT ![c] = o]
    BY <1>0, <1>2 DEF TokenHit, WithToken, Idle, Ample
  <2> QED
    BY <1>0, <1>2, <2>1, <2>2, OneCaller DEF TokenHit, Typed, world, table
<1>3. ASSUME NEW c \in Callers, TokenMiss(c)
      PROVE  GInv'
  <2> DEFINE o == [op[c] EXCEPT !.step = IF refresh # Nothing THEN "awaittoken" ELSE "refresh"]
  <2>1. o \in Ops /\ Shaped(o)
    <3>1. op[c] \in Ops /\ Shaped(op[c]) /\ op[c].step = "token"
      BY <1>0, <1>3 DEF TokenMiss, At
    <3> QED
      BY <3>1 DEF Ops, Shaped, BeforeAsking, Asking
  <2>2. op' = [op EXCEPT ![c] = o]
    BY <1>0, <1>3 DEF TokenMiss
  <2> QED
    <3>1. refresh' \in Callers \cup {Nothing}
      BY <1>0, <1>3 DEF TokenMiss
    <3> QED
      BY <1>0, <1>3, <2>1, <2>2, <3>1, OneCaller DEF TokenMiss, Typed, world, table
<1>4. ASSUME NEW c \in Callers, NEW lifetime \in Lifetimes, Acquire(c, lifetime)
      PROVE  GInv'
  <2> DEFINE x == [account |-> account, expires |-> now + lifetime]
             o == [op[c] EXCEPT !.step = "publish", !.tok = x]
  <2>1. x \in Tokens
    BY <1>0 DEF Tokens
  <2> HIDE DEF x
  <2>2. o \in Ops /\ Shaped(o)
    <3>1. op[c] \in Ops /\ Shaped(op[c]) /\ op[c].step = "refresh"
      BY <1>0, <1>4 DEF Acquire, At
    <3> QED
      BY <3>1, <2>1 DEF Ops, Shaped, BeforeAsking, Asking
  <2>3. op' = [op EXCEPT ![c] = o]
    BY <1>0, <1>4 DEF Acquire, x
  <2> QED
    BY <1>0, <1>4, <2>2, <2>3, OneCaller DEF Acquire, Typed, world, table
<1>5. ASSUME NEW c \in Callers, AcquireFails(c)
      PROVE  GInv'
  <2> DEFINE o == [op[c] EXCEPT !.step = "publish"]
  <2>1. o \in Ops /\ Shaped(o)
    <3>1. op[c] \in Ops /\ Shaped(op[c]) /\ op[c].step = "refresh"
      BY <1>0, <1>5 DEF AcquireFails, At
    <3> QED
      BY <3>1 DEF Ops, Shaped, BeforeAsking, Asking
  <2>2. op' = [op EXCEPT ![c] = o]
    BY <1>0, <1>5 DEF AcquireFails
  <2> QED
    BY <1>0, <1>5, <2>1, <2>2, OneCaller DEF AcquireFails, Typed, world, table
<1>6. ASSUME NEW c \in Callers, TakeToken(c)
      PROVE  GInv'
  <2> DEFINE o == WithToken(op[c], IF Valid(op[c].tok) THEN op[c].tok ELSE Nothing)
  <2>1. o \in Ops /\ Shaped(o)
    <3>1. op[c] \in Ops /\ Shaped(op[c]) /\ op[c].step = "taketoken"
      BY <1>0, <1>6 DEF TakeToken, At
    <3> QED
      BY <3>1 DEF Ops, Shaped, BeforeAsking, Asking, WithToken, Idle
  <2>2. op' = [op EXCEPT ![c] = o]
    BY <1>0, <1>6 DEF TakeToken, WithToken, Idle
  <2> QED
    BY <1>0, <1>6, <2>1, <2>2, OneCaller DEF TakeToken, Typed, world, table
<1>7. ASSUME NEW c \in Callers, Identify(c)
      PROVE  GInv'
  <2> DEFINE o == [op[c] EXCEPT !.step = "grant", !.cap = known'[op[c].tok]]
  <2>1. op[c] \in Ops /\ op[c].step = "identify" /\ op[c].tok \in Tokens
    BY <1>0, <1>7 DEF Identify, At, Shaped, Ops
  <2>2. /\ DOMAIN known' = DOMAIN known \cup {op[c].tok}
        /\ \A t \in DOMAIN known' : known'[t] \in Capacities
    <3>1. CASE op[c].tok \in DOMAIN known
      BY <1>0, <1>7, <3>1 DEF Identify, Typed
    <3>2. CASE op[c].tok \notin DOMAIN known
      <4>1. known' = With(known, op[c].tok, capacity)
        BY <1>7, <3>2 DEF Identify
      <4> QED
        BY <1>0, <4>1 DEF Typed, With
    <3> QED
      BY <3>1, <3>2
  <2>3. o \in Ops /\ Shaped(o)
    <3>1. known'[op[c].tok] \in Capacities
      BY <2>1, <2>2
    <3> QED
      BY <1>0, <2>1, <3>1 DEF Ops, Shaped, BeforeAsking, Asking
  <2>4. op' = [op EXCEPT ![c] = o]
    BY <1>0, <1>7 DEF Identify
  <2>5. DOMAIN known' \subseteq Tokens
    BY <1>0, <2>1, <2>2 DEF Typed
  <2> QED
    BY <1>0, <1>7, <2>2, <2>3, <2>4, <2>5, OneCaller DEF Identify, Typed, world, table
<1>8. ASSUME NEW c \in Callers, NEW lifetime \in Lifetimes, LoadGrant(c, lifetime)
      PROVE  GInv'
  <2> DEFINE g == [account |-> op[c].tok.account, target |-> op[c].aim,
                   capacity |-> op[c].cap, expires |-> now + lifetime]
             o == [op[c] EXCEPT !.step = "finish", !.got = g]
  <2>1. /\ op[c] \in Ops /\ op[c].step = "load"
        /\ op[c].tok \in Tokens /\ op[c].aim \in Targets /\ op[c].cap \in Capacities
    BY <1>0, <1>8 DEF LoadGrant, At, Ops, Shaped, Asking
  <2>2. g \in Grants
    <3>1. op[c].tok.account \in Accounts
      BY <2>1 DEF Tokens
    <3> QED
      BY <1>0, <2>1, <3>1 DEF Grants
  <2>3. g.account = op[c].tok.account /\ g.target = op[c].aim /\ g.capacity = op[c].cap
    OBVIOUS
  <2> HIDE DEF g
  <2>4. o \in Ops /\ Shaped(o)
    BY <2>1, <2>2, <2>3, <1>0 DEF Ops, Shaped, BeforeAsking, Asking, For, Key
  <2>5. op' = [op EXCEPT ![c] = o]
    BY <1>0, <1>8 DEF LoadGrant, g
  <2> QED
    BY <1>0, <1>8, <2>4, <2>5, OneCaller DEF LoadGrant, Typed, world, table
<1>9. ASSUME NEW c \in Callers, LoadGrantFails(c)
      PROVE  GInv'
  <2> DEFINE o == [op[c] EXCEPT !.step = "finish"]
  <2>1. o \in Ops /\ Shaped(o)
    <3>1. op[c] \in Ops /\ Shaped(op[c]) /\ op[c].step = "load"
      BY <1>0, <1>9 DEF LoadGrantFails, At
    <3> QED
      BY <3>1 DEF Ops, Shaped, BeforeAsking, Asking, For, Key
  <2>2. op' = [op EXCEPT ![c] = o]
    BY <1>0, <1>9 DEF LoadGrantFails, For, Key
  <2> QED
    BY <1>0, <1>9, <2>1, <2>2, OneCaller DEF LoadGrantFails, Typed, world, table
<1>10. ASSUME NEW c \in Callers, TakeGrant(c)
      PROVE  GInv'
  <2> DEFINE o == WithGrant(op[c], op[c].got)
  <2>1. op[c] \in Ops /\ op[c].step = "takegrant" /\ Shaped(op[c])
    BY <1>0, <1>10 DEF TakeGrant, At
  <2>2. o \in Ops /\ Shaped(o)
    <3>1. op[c].got \in Grants \cup {Nothing}
      BY <2>1 DEF Ops
    <3>2. op[c].got # Nothing => For(op[c].got, Key(op[c]))
      BY <2>1 DEF Shaped
    <3> QED
      BY <2>1, <3>1, <3>2, Granted DEF Asking
  <2>3. op' = [op EXCEPT ![c] = o]
    BY <1>0, <1>10 DEF TakeGrant
  <2> QED
    BY <1>0, <1>10, <2>2, <2>3, OneCaller DEF TakeGrant, Typed, world, table
<1>11. ASSUME NEW c \in Callers, GiveUp(c)
      PROVE  GInv'
  <2> DEFINE o == Idle
  <2>1. o \in Ops /\ Shaped(o)
    BY <1>0, <1>11 DEF GiveUp, At, Ops, Shaped, BeforeAsking, Asking, Idle
  <2>2. op' = [op EXCEPT ![c] = o]
    BY <1>0, <1>11 DEF GiveUp, Idle
  <2> QED
    BY <1>0, <1>11, <2>1, <2>2, OneCaller DEF GiveUp, Typed, world, table
<1>12. ASSUME NEW c \in Callers, NEW last \in BOOLEAN, Send(c, last)
      PROVE  GInv'
  <2> DEFINE o == IF last THEN Idle ELSE op[c]
  <2>1. o \in Ops /\ Shaped(o)
    <3>1. op[c] \in Ops /\ Shaped(op[c]) /\ op[c].step = "send"
      BY <1>0, <1>12 DEF Send, At
    <3> QED
      BY <3>1 DEF Ops, Shaped, BeforeAsking, Asking, Idle
  <2>2. op' = [op EXCEPT ![c] = o]
    BY <1>0, <1>12 DEF Send, Idle
  <2> QED
    BY <1>0, <1>12, <2>1, <2>2, OneCaller DEF Send, Typed, world, table
<1>13. ASSUME NEW c \in Callers, PublishToken(c)
      PROVE  GInv'
  <2> DEFINE x == op[c].tok
  <2>1. op[c] \in Ops /\ op[c].step = "publish" /\ x \in Tokens \cup {Nothing} /\ Shaped(op[c])
    BY <1>0, <1>13 DEF PublishToken, At, Ops
  <2>2. \A w \in Callers : op'[w] \in Ops /\ Shaped(op'[w])
    <3> TAKE w \in Callers
    <3>0. op[w] \in Ops /\ Shaped(op[w])
      BY <1>0
    <3>1. CASE op[w].step = "awaittoken"
      <4>1. op'[w] = [op[w] EXCEPT !.step = "taketoken", !.tok = x]
        BY <1>13, <3>1 DEF PublishToken, At
      <4> QED
        BY <3>0, <3>1, <4>1, <2>1 DEF Ops, Shaped, BeforeAsking, Asking
    <3>2. CASE w = c
      <4>1. op'[w] = WithToken(op[c], x)
        BY <1>13, <3>2, <2>1 DEF PublishToken, At
      <4>2. CASE x = Nothing
        BY <4>1, <4>2 DEF WithToken, Idle, Ops, Shaped, BeforeAsking, Asking
      <4>3. CASE x # Nothing
        <5>1. op'[w] = [op[c] EXCEPT !.step = "identify", !.tok = x]
          BY <4>1, <4>3 DEF WithToken
        <5>2. x \in Tokens /\ op[c].got = Nothing
          BY <2>1, <4>3 DEF Shaped, Asking
        <5>3. op'[w] \in Ops
          BY <2>1, <5>1, <5>2 DEF Ops
        <5> QED
          BY <2>1, <5>1, <5>2, <5>3 DEF Ops, Shaped, BeforeAsking, Asking
      <4> QED
        BY <4>2, <4>3
    <3>3. CASE op[w].step # "awaittoken" /\ w # c
      <4>1. op'[w] = op[w]
        BY <1>13, <3>3 DEF PublishToken, At
      <4> QED
        BY <3>0, <4>1
    <3> QED
      BY <3>1, <3>2, <3>3
  <2>3. op' \in [Callers -> Ops]
    <3>1. op' = [w \in Callers |-> op'[w]]
      BY <1>13 DEF PublishToken
    <3> QED
      BY <2>2, <3>1
  <2>4. Typed'
    BY <1>0, <1>13, <2>1, <2>3 DEF PublishToken, Typed, world, table
  <2> QED
    BY <1>0, <1>13, <2>2, <2>4 DEF PublishToken, GInv, Issued, Shaped, For, Key, table
<1>14. ASSUME NEW t \in DOMAIN known, Unidentify(t)
      PROVE  GInv'
  <2>1. Typed'
    BY <1>0, <1>14, Restricted DEF Unidentify, Typed, world, table
  <2> QED
    BY <1>0, <1>14, <2>1 DEF Unidentify, GInv, Issued, Shaped, For, Key, table
<1>15. ASSUME NEW c \in Callers, GrantHit(c)
      PROVE  GInv'
  <2> DEFINE k == Key(op[c])
             o == WithGrant(op[c], grants[k])
  <2>1. op[c] \in Ops /\ op[c].step = "grant" /\ Shaped(op[c]) /\ k \in DOMAIN grants
    BY <1>0, <1>15 DEF GrantHit, At, Live
  <2>2. grants[k] \in Grants /\ For(grants[k], k)
    BY <1>0, <2>1 DEF Typed, Issued
  <2>3. o \in Ops /\ Shaped(o)
    BY <2>1, <2>2, Granted DEF Asking
  <2>4. op' = [op EXCEPT ![c] = o]
    BY <1>0, <1>15 DEF GrantHit
  <2>5. op' \in [Callers -> Ops] /\ \A w \in Callers : Shaped(op'[w])
    BY <1>0, <2>3, <2>4
  <2>6. grants' = Restrict(grants, Live) /\ Live \subseteq DOMAIN grants
    BY <1>15 DEF GrantHit, Live
  <2>7. /\ DOMAIN grants' \subseteq Keys
        /\ \A j \in DOMAIN grants' : grants'[j] \in Grants /\ For(grants'[j], j)
    BY <2>6, FewerGrants
  <2>8. Typed'
    BY <1>0, <1>15, <2>5, <2>7 DEF GrantHit, Typed, world
  <2>9. Issued'
    BY <2>7 DEF Issued, For
  <2> QED
    BY <2>5, <2>8, <2>9 DEF GInv, Shaped, For, Key
<1>16. ASSUME NEW c \in Callers, GrantMiss(c)
      PROVE  GInv'
  <2> DEFINE k == Key(op[c])
             o == [op[c] EXCEPT !.step = IF k \in DOMAIN flights THEN "awaitgrant" ELSE "load"]
  <2>1. op[c] \in Ops /\ op[c].step = "grant" /\ Shaped(op[c])
    BY <1>0, <1>16 DEF GrantMiss, At
  <2>2. k \in Keys
    BY <2>1 DEF Key, Keys, Ops, Shaped, Asking
  <2>3. o \in Ops /\ Shaped(o)
    BY <2>1 DEF Ops, Shaped, BeforeAsking, Asking, For, Key
  <2>4. op' = [op EXCEPT ![c] = o]
    BY <1>0, <1>16 DEF GrantMiss
  <2>5. op' \in [Callers -> Ops] /\ \A w \in Callers : Shaped(op'[w])
    BY <1>0, <2>3, <2>4
  <2>6. grants' = Restrict(grants, Kept(k)) /\ Kept(k) \subseteq DOMAIN grants
    BY <1>16 DEF GrantMiss, Kept, Live
  <2>7. DOMAIN flights' \subseteq Keys /\ \A j \in DOMAIN flights' : flights'[j] \in Callers
    <3>1. CASE k \in DOMAIN flights
      BY <1>0, <1>16, <3>1 DEF GrantMiss, Typed
    <3>2. CASE k \notin DOMAIN flights
      <4>1. flights' = With(flights, k, c)
        BY <1>16, <3>2 DEF GrantMiss
      <4> QED
        BY <1>0, <2>2, <4>1 DEF Typed, With
    <3> QED
      BY <3>1, <3>2
  <2> QED
    BY <1>0, <1>16, <2>5, <2>6, <2>7, FewerGrants
    DEF GrantMiss, GInv, Typed, Issued, Shaped, For, Key, world
<1>17. ASSUME NEW c \in Callers, FinishGrant(c)
      PROVE  GInv'
  <2> DEFINE k == Key(op[c])
             g == op[c].got
             X == {lru[i] : i \in MaxGrants..Len(lru)}
  <2>1. op[c] \in Ops /\ op[c].step = "finish" /\ Shaped(op[c])
    BY <1>0, <1>17 DEF FinishGrant, At
  <2>2. k \in Keys
    BY <2>1 DEF Key, Keys, Ops, Shaped, Asking
  <2>3. g \in Grants \cup {Nothing} /\ (g # Nothing => For(g, k))
    BY <2>1 DEF Ops, Shaped
  <2>4. \A w \in Callers : op'[w] \in Ops /\ Shaped(op'[w])
    <3> TAKE w \in Callers
    <3>0. op[w] \in Ops /\ Shaped(op[w])
      BY <1>0
    <3>1. CASE w = c
      <4>1. op'[w] = WithGrant(op[c], g)
        BY <1>17, <3>1 DEF FinishGrant
      <4> QED
        BY <4>1, <2>1, <2>3, Granted DEF Asking
    <3>2. CASE w # c /\ op[w].step = "awaitgrant" /\ Key(op[w]) = k
      <4> DEFINE h == IF Valid(g) THEN g ELSE Nothing
      <4>1. op'[w] = [op[w] EXCEPT !.step = "takegrant", !.got = h]
        BY <1>17, <3>2 DEF FinishGrant, At
      <4>2. h \in Grants \cup {Nothing} /\ (h # Nothing => For(h, Key(op[w])))
        BY <2>3, <3>2
      <4> HIDE DEF h
      <4> QED
        BY <3>0, <3>2, <4>1, <4>2 DEF Ops, Shaped, BeforeAsking, Asking, For, Key
    <3>3. CASE w # c /\ ~(op[w].step = "awaitgrant" /\ Key(op[w]) = k)
      <4>1. op'[w] = op[w]
        BY <1>17, <3>3 DEF FinishGrant, At
      <4> QED
        BY <3>0, <4>1
    <3> QED
      BY <3>1, <3>2, <3>3
  <2>5. op' \in [Callers -> Ops]
    <3>1. op' = [w \in Callers |-> op'[w]]
      BY <1>17 DEF FinishGrant
    <3> QED
      BY <2>4, <3>1
  <2>6. /\ DOMAIN grants' \subseteq Keys
        /\ \A j \in DOMAIN grants' : grants'[j] \in Grants /\ For(grants'[j], j)
    <3>1. CASE Valid(g)
      <4> DEFINE f == Restrict(grants, DOMAIN grants \ X)
      <4>1. grants' = With(f, k, g)
        BY <1>17, <3>1 DEF FinishGrant
      <4>2. DOMAIN f \subseteq Keys /\ \A j \in DOMAIN f : f[j] \in Grants /\ For(f[j], j)
        BY FewerGrants
      <4>3. g \in Grants /\ For(g, k)
        BY <2>3, <3>1 DEF Valid
      <4> HIDE DEF f
      <4> QED
        BY <2>2, <4>1, <4>2, <4>3 DEF With
    <3>2. CASE ~Valid(g)
      BY <1>0, <1>17, <3>2 DEF FinishGrant, Typed, Issued
    <3> QED
      BY <3>1, <3>2
  <2>7. DOMAIN flights' \subseteq Keys /\ \A j \in DOMAIN flights' : flights'[j] \in Callers
    <3>1. flights' = Restrict(flights, DOMAIN flights \ {k})
      BY <1>17 DEF FinishGrant
    <3> QED
      BY <1>0, <3>1 DEF Typed, Restrict
  <2>8. Typed'
    BY <1>0, <1>17, <2>5, <2>6, <2>7 DEF FinishGrant, Typed, world
  <2>9. Issued'
    BY <2>6 DEF Issued, For
  <2> QED
    BY <2>4, <2>8, <2>9 DEF GInv, Shaped, For, Key
<1>18. CASE Tick
  BY <1>0, <1>18 DEF Tick, GInv, Typed, Issued, Shaped, For, Key, table
<1>19. ASSUME NEW a \in Accounts, NEW k \in Capacities, Change(a, k)
      PROVE  GInv'
  BY <1>0, <1>19 DEF Change, GInv, Typed, Issued, Shaped, For, Key, table
<1>20. CASE UNCHANGED credentials
  BY <1>0, <1>20 DEF credentials, world, table, GInv, Typed, Issued, Shaped, For, Key
<1> QED
  BY <1>1, <1>2, <1>3, <1>4, <1>5, <1>6, <1>7, <1>8, <1>9, <1>10, <1>11, <1>12, <1>13, <1>14, <1>15, <1>16, <1>17, <1>18, <1>19, <1>20 DEF CredentialsNext
-----------------------------------------------------------------------------
(* The list of grants *)

\* The map and the list agree.  What is being loaded is not retained, and the
\* caller that loads it is the one of its flight, so finishGrant puts in a key
\* that is not there.
Flying(o) == o.step \in {"load", "finish"}

Retained ==
    /\ lru \in Seq(Keys) /\ GrantsBounded
    /\ \A k \in DOMAIN flights : k \notin DOMAIN grants
    /\ \A c \in Callers :
          Flying(op[c]) => Key(op[c]) \in DOMAIN flights /\ flights[Key(op[c])] = c

LEMMA InitRetained == CredentialsInit => Retained
<1>1. << >> \in Seq(Keys) /\ Len(<< >>) = 0 /\ DOMAIN << >> = {}
  OBVIOUS
<1>2. MaxGrants \in Nat \ {0}
  BY CredentialsAssumption
<1> QED
  BY <1>1, <1>2 DEF CredentialsInit, Retained, GrantsBounded, Idle, Flying, IsInjective, Range

\* A step that leaves the table alone and begins no flight.
LEMMA TableAlone ==
    ASSUME Retained, UNCHANGED table,
           \A w \in Callers : Flying(op'[w]) => Flying(op[w]) /\ Key(op'[w]) = Key(op[w])
    PROVE  Retained'
  BY DEF Retained, GrantsBounded, table, Flying, Key

\* One that is a step of a caller that has no flight after it, or the same.
LEMMA OneAlone ==
    ASSUME Retained, UNCHANGED table, NEW c \in Callers,
           \A w \in Callers \ {c} : op'[w] = op[w],
           Flying(op'[c]) => Flying(op[c]) /\ Key(op'[c]) = Key(op[c])
    PROVE  Retained'
  BY TableAlone

\* finishGrant: the key of its flight is put in front of the newest.
LEMMA FinishRetained ==
    ASSUME Retained, GInv, NEW c \in Callers, FinishGrant(c)
    PROVE  Retained'
<1> DEFINE k == Key(op[c])
           g == op[c].got
           rest == IF Len(lru) < MaxGrants THEN lru ELSE SubSeq(lru, 1, MaxGrants - 1)
           oldest == {lru[i] : i \in MaxGrants..Len(lru)}
<1>0. MaxGrants \in Nat \ {0}
  BY CredentialsAssumption
<1>1. /\ k \in DOMAIN flights /\ flights[k] = c /\ k \notin DOMAIN grants /\ k \in Keys
      /\ flights' = Restrict(flights, DOMAIN flights \ {k})
  BY DEF FinishGrant, At, Retained, Flying, GInv, Typed
<1>2. /\ DOMAIN flights' = DOMAIN flights \ {k}
      /\ \A j \in DOMAIN flights' : flights'[j] = flights[j]
  BY <1>1, Restricted
<1>3. \A w \in Callers : Flying(op'[w]) => w # c /\ op'[w] = op[w]
  <2> SUFFICES ASSUME NEW w \in Callers, Flying(op'[w])
               PROVE  w # c /\ op'[w] = op[w]
    OBVIOUS
  <2>0. op[w] \in Ops
    BY DEF GInv, Typed
  <2>1. CASE w = c
    <3>1. op'[w] = WithGrant(op[c], g) /\ op[c] \in Ops
      BY <2>0, <2>1 DEF FinishGrant
    <3>2. op'[w].step \in {"send", "idle"}
      BY <3>1 DEF WithGrant, Idle, Ops
    <3> QED
      BY <3>2 DEF Flying
  <2>2. CASE w # c /\ At(w, "awaitgrant") /\ Key(op[w]) = k
    <3>1. op'[w].step = "takegrant"
      BY <2>0, <2>2 DEF FinishGrant, Ops
    <3> QED
      BY <3>1 DEF Flying
  <2>3. CASE w # c /\ ~(At(w, "awaitgrant") /\ Key(op[w]) = k)
    BY <2>3 DEF FinishGrant
  <2> QED
    BY <2>1, <2>2, <2>3
<1>4. \A w \in Callers : Flying(op'[w]) =>
         Key(op'[w]) \in DOMAIN flights' /\ flights'[Key(op'[w])] = w
  <2> SUFFICES ASSUME NEW w \in Callers, Flying(op'[w])
               PROVE  Key(op'[w]) \in DOMAIN flights' /\ flights'[Key(op'[w])] = w
    OBVIOUS
  <2>1. w # c /\ op'[w] = op[w] /\ Flying(op[w])
    BY <1>3
  <2>2. Key(op[w]) \in DOMAIN flights /\ flights[Key(op[w])] = w
    BY <2>1 DEF Retained
  <2> HIDE DEF k
  <2>3. Key(op'[w]) = Key(op[w])
    BY <2>1
  <2> QED
    BY <1>1, <1>2, <2>1, <2>2, <2>3
<1>5. CASE ~Valid(g)
  <2>1. UNCHANGED <<grants, lru>>
    BY <1>5 DEF FinishGrant
  <2> QED
    BY <1>2, <1>4, <2>1 DEF Retained, GrantsBounded
<1>6. CASE Valid(g)
  <2>1. grants' = With(Restrict(grants, DOMAIN grants \ oldest), k, g) /\ lru' = <<k>> \o rest
    BY <1>6 DEF FinishGrant
  <2>2. /\ lru \in Seq(Keys) /\ Len(lru) \in Nat /\ DOMAIN lru = 1..Len(lru)
        /\ \A i \in DOMAIN lru : lru[i] \in Keys
        /\ IsInjective(lru) /\ Range(lru) = DOMAIN grants /\ Len(lru) <= MaxGrants
    BY LenProperties DEF Retained, GrantsBounded
  <2>3. /\ rest \in Seq(Keys) /\ Len(rest) < MaxGrants /\ IsInjective(rest)
        /\ Range(rest) = DOMAIN grants \ oldest
    <3>1. CASE Len(lru) < MaxGrants
      <4>1. oldest = {}
        BY <1>0, <2>2, <3>1
      <4> QED
        BY <2>2, <3>1, <4>1
    <3>2. CASE ~(Len(lru) < MaxGrants)
      <4>1. Len(lru) = MaxGrants
        <5>1. Len(lru) \in Nat /\ Len(lru) <= MaxGrants
          BY <2>2
        <5> QED
          BY <1>0, <3>2, <5>1
      <4>2. \A i \in 1..MaxGrants - 1 : lru[i] \in Keys
        BY <1>0, <2>2, <4>1
      <4>3. /\ rest \in Seq(Keys) /\ Len(rest) = MaxGrants - 1
            /\ \A i \in 1..MaxGrants - 1 : rest[i] = lru[i]
        <5>1. /\ SubSeq(lru, 1, MaxGrants - 1) \in Seq(Keys)
              /\ Len(SubSeq(lru, 1, MaxGrants - 1)) =
                   IF 1 <= MaxGrants - 1 THEN MaxGrants - 1 - 1 + 1 ELSE 0
              /\ \A i \in 1..MaxGrants - 1 - 1 + 1 :
                   SubSeq(lru, 1, MaxGrants - 1)[i] = lru[1 + i - 1]
          BY <1>0, <4>2, SubSeqProperties
        <5> QED
          BY <1>0, <3>2, <5>1
      <4> HIDE DEF rest
      <4>4. DOMAIN rest = 1..MaxGrants - 1
        BY <4>3, LenProperties
      <4>5. IsInjective(rest)
        BY <1>0, <2>2, <4>1, <4>3, <4>4 DEF IsInjective
      <4>6. oldest = {lru[MaxGrants]}
        BY <1>0, <4>1
      <4>7. Range(rest) = Range(lru) \ {lru[MaxGrants]}
        <5>1. \A i \in 1..MaxGrants - 1 : i \in DOMAIN lru /\ lru[i] # lru[MaxGrants]
          BY <1>0, <2>2, <4>1 DEF IsInjective
        <5>2. \A i \in DOMAIN lru : lru[i] # lru[MaxGrants] => i \in 1..MaxGrants - 1
          BY <1>0, <2>2, <4>1
        <5> QED
          BY <4>3, <4>4, <5>1, <5>2 DEF Range
      <4> QED
        BY <1>0, <2>2, <4>3, <4>5, <4>6, <4>7
    <3> QED
      BY <3>1, <3>2
  <2> HIDE DEF rest, oldest
  <2>4. /\ lru' \in Seq(Keys) /\ Len(lru') = Len(rest) + 1
        /\ IsInjective(lru') /\ Range(lru') = {k} \cup Range(rest)
    BY <1>1, <2>1, <2>3, InFront
  <2>5. DOMAIN grants' = (DOMAIN grants \ oldest) \cup {k}
    <3> DEFINE fewer == Restrict(grants, DOMAIN grants \ oldest)
    <3>1. DOMAIN fewer = DOMAIN grants \ oldest
      BY Restricted
    <3> HIDE DEF fewer
    <3>2. DOMAIN With(fewer, k, g) = DOMAIN fewer \cup {k}
      BY Put
    <3> QED
      BY <2>1, <3>1, <3>2 DEF fewer
  <2>6. Len(rest) \in Nat
    BY <2>3, LenProperties
  <2>7. GrantsBounded'
    BY <1>0, <2>3, <2>4, <2>5, <2>6 DEF GrantsBounded
  <2> QED
    BY <1>1, <1>2, <1>4, <2>4, <2>5, <2>7 DEF Retained
<1> QED
  BY <1>5, <1>6

\* The other steps.
LEMMA RetainedNext == Retained /\ GInv /\ [CredentialsNext]_credentials => Retained'
<1> SUFFICES ASSUME Retained, GInv, [CredentialsNext]_credentials
             PROVE  Retained'
  OBVIOUS
<1>0. op \in [Callers -> Ops]
  BY DEF GInv, Typed
<1>1. ASSUME NEW c \in Callers, NEW t \in Targets, Begin(c, t)
      PROVE  Retained'
  <2>1. op[c] \in Ops /\ \A w \in Callers \ {c} : op'[w] = op[w]
    BY <1>0, <1>1 DEF Begin
  <2>2. ~Flying(op'[c])
    BY <1>0, <1>1, <2>1 DEF Begin, Flying, Ops
  <2> QED
    BY <1>1, <2>1, <2>2, OneAlone DEF Begin, table
<1>2. ASSUME NEW c \in Callers, TokenHit(c)
      PROVE  Retained'
  <2>1. op[c] \in Ops /\ \A w \in Callers \ {c} : op'[w] = op[w]
    BY <1>0, <1>2 DEF TokenHit
  <2>2. ~Flying(op'[c])
    BY <1>0, <1>2, <2>1 DEF TokenHit, Flying, Ops, WithToken, Idle
  <2> QED
    BY <1>2, <2>1, <2>2, OneAlone DEF TokenHit, table
<1>3. ASSUME NEW c \in Callers, TokenMiss(c)
      PROVE  Retained'
  <2>1. op[c] \in Ops /\ \A w \in Callers \ {c} : op'[w] = op[w]
    BY <1>0, <1>3 DEF TokenMiss
  <2>2. ~Flying(op'[c])
    BY <1>0, <1>3, <2>1 DEF TokenMiss, Flying, Ops
  <2> QED
    BY <1>3, <2>1, <2>2, OneAlone DEF TokenMiss, table
<1>4. ASSUME NEW c \in Callers, NEW lifetime \in Lifetimes, Acquire(c, lifetime)
      PROVE  Retained'
  <2>1. op[c] \in Ops /\ \A w \in Callers \ {c} : op'[w] = op[w]
    BY <1>0, <1>4 DEF Acquire
  <2>2. ~Flying(op'[c])
    BY <1>0, <1>4, <2>1 DEF Acquire, Flying, Ops
  <2> QED
    BY <1>4, <2>1, <2>2, OneAlone DEF Acquire, table
<1>5. ASSUME NEW c \in Callers, AcquireFails(c)
      PROVE  Retained'
  <2>1. op[c] \in Ops /\ \A w \in Callers \ {c} : op'[w] = op[w]
    BY <1>0, <1>5 DEF AcquireFails
  <2>2. ~Flying(op'[c])
    BY <1>0, <1>5, <2>1 DEF AcquireFails, Flying, Ops
  <2> QED
    BY <1>5, <2>1, <2>2, OneAlone DEF AcquireFails, table
<1>6. ASSUME NEW c \in Callers, TakeToken(c)
      PROVE  Retained'
  <2>1. op[c] \in Ops /\ \A w \in Callers \ {c} : op'[w] = op[w]
    BY <1>0, <1>6 DEF TakeToken
  <2>2. ~Flying(op'[c])
    BY <1>0, <1>6, <2>1 DEF TakeToken, Flying, Ops, WithToken, Idle
  <2> QED
    BY <1>6, <2>1, <2>2, OneAlone DEF TakeToken, table
<1>7. ASSUME NEW c \in Callers, Identify(c)
      PROVE  Retained'
  <2>1. op[c] \in Ops /\ \A w \in Callers \ {c} : op'[w] = op[w]
    BY <1>0, <1>7 DEF Identify
  <2>2. ~Flying(op'[c])
    BY <1>0, <1>7, <2>1 DEF Identify, Flying, Ops
  <2> QED
    BY <1>7, <2>1, <2>2, OneAlone DEF Identify, table
<1>8. ASSUME NEW c \in Callers, TakeGrant(c)
      PROVE  Retained'
  <2>1. op[c] \in Ops /\ \A w \in Callers \ {c} : op'[w] = op[w]
    BY <1>0, <1>8 DEF TakeGrant
  <2>2. ~Flying(op'[c])
    BY <1>0, <1>8, <2>1 DEF TakeGrant, Flying, Ops, WithGrant, Idle
  <2> QED
    BY <1>8, <2>1, <2>2, OneAlone DEF TakeGrant, table
<1>9. ASSUME NEW c \in Callers, GiveUp(c)
      PROVE  Retained'
  <2>1. op[c] \in Ops /\ \A w \in Callers \ {c} : op'[w] = op[w]
    BY <1>0, <1>9 DEF GiveUp
  <2>2. ~Flying(op'[c])
    BY <1>0, <1>9, <2>1 DEF GiveUp, Flying, Ops, Idle
  <2> QED
    BY <1>9, <2>1, <2>2, OneAlone DEF GiveUp, table
<1>10. ASSUME NEW c \in Callers, NEW last \in BOOLEAN, Send(c, last)
      PROVE  Retained'
  <2>1. op[c] \in Ops /\ \A w \in Callers \ {c} : op'[w] = op[w]
    BY <1>0, <1>10 DEF Send
  <2>2. ~Flying(op'[c])
    BY <1>0, <1>10, <2>1 DEF Send, Flying, Ops, Idle, At
  <2> QED
    BY <1>10, <2>1, <2>2, OneAlone DEF Send, table
<1>11. ASSUME NEW c \in Callers, NEW lifetime \in Lifetimes, LoadGrant(c, lifetime)
      PROVE  Retained'
  <2>1. op[c] \in Ops /\ \A w \in Callers \ {c} : op'[w] = op[w]
    BY <1>0, <1>11 DEF LoadGrant
  <2>2. Flying(op[c]) /\ Key(op'[c]) = Key(op[c])
    BY <1>0, <1>11, <2>1 DEF LoadGrant, At, Flying, Ops, Key
  <2> QED
    BY <1>11, <2>1, <2>2, OneAlone DEF LoadGrant, table
<1>12. ASSUME NEW c \in Callers, LoadGrantFails(c)
      PROVE  Retained'
  <2>1. op[c] \in Ops /\ \A w \in Callers \ {c} : op'[w] = op[w]
    BY <1>0, <1>12 DEF LoadGrantFails
  <2>2. Flying(op[c]) /\ Key(op'[c]) = Key(op[c])
    BY <1>0, <1>12, <2>1 DEF LoadGrantFails, At, Flying, Ops, Key
  <2> QED
    BY <1>12, <2>1, <2>2, OneAlone DEF LoadGrantFails, table
<1>13. ASSUME NEW c \in Callers, PublishToken(c)
      PROVE  Retained'
  <2>1. ASSUME NEW w \in Callers, Flying(op'[w])
        PROVE  op'[w] = op[w]
    <3>1. op[w] \in Ops
      BY <1>0
    <3>2. CASE At(w, "awaittoken")
      <4>1. op'[w].step = "taketoken"
        BY <1>13, <3>1, <3>2 DEF PublishToken, Ops
      <4> QED
        BY <2>1, <4>1 DEF Flying
    <3>3. CASE ~At(w, "awaittoken") /\ w = c
      <4>1. op'[w] = WithToken(op[w], op[w].tok)
        BY <1>13, <3>3 DEF PublishToken
      <4>2. op'[w].step \in {"identify", "idle"}
        BY <3>1, <4>1 DEF WithToken, Idle, Ops
      <4> QED
        BY <2>1, <4>2 DEF Flying
    <3>4. CASE ~At(w, "awaittoken") /\ w # c
      BY <1>13, <3>4 DEF PublishToken
    <3> QED
      BY <3>2, <3>3, <3>4
  <2> QED
    BY <1>13, <2>1, TableAlone DEF PublishToken, table
<1>14. ASSUME NEW c \in Callers, GrantHit(c)
      PROVE  Retained'
  <2> DEFINE k == Key(op[c])
             rest == Keeping(lru, Live \ {k})
  <2>1. op[c] \in Ops /\ \A w \in Callers \ {c} : op'[w] = op[w]
    BY <1>0, <1>14 DEF GrantHit
  <2>2. ~Flying(op'[c])
    BY <1>0, <1>14, <2>1 DEF GrantHit, Flying, Ops, WithGrant, Idle
  <2>3. /\ k \in Live /\ Live \subseteq DOMAIN grants /\ UNCHANGED flights
        /\ grants' = Restrict(grants, Live) /\ lru' = <<k>> \o rest
    BY <1>14 DEF GrantHit, Live
  <2> HIDE DEF k
  <2>4. /\ lru \in Seq(Keys) /\ IsInjective(lru) /\ Range(lru) = DOMAIN grants
        /\ Len(lru) <= MaxGrants /\ k \in Keys
    BY <2>3 DEF Retained, GrantsBounded, GInv, Typed
  <2>5. /\ rest \in Seq(Keys) /\ IsInjective(rest) /\ Range(rest) = Live \ {k}
        /\ Len(rest) < Len(lru)
    <3>1. PICK i \in DOMAIN lru : lru[i] = k
      BY <2>3, <2>4 DEF Range
    <3>2. lru[i] \notin Live \ {k}
      BY <3>1
    <3>3. Range(lru) \cap (Live \ {k}) = Live \ {k}
      BY <2>3, <2>4
    <3> QED
      BY <2>4, <3>1, <3>2, <3>3, Keeps
  <2> HIDE DEF rest
  <2>6. /\ lru' \in Seq(Keys) /\ Len(lru') = Len(rest) + 1
        /\ IsInjective(lru') /\ Range(lru') = Live
    <3>1. k \notin Range(rest)
      BY <2>5
    <3>2. /\ <<k>> \o rest \in Seq(Keys) /\ Len(<<k>> \o rest) = Len(rest) + 1
          /\ IsInjective(<<k>> \o rest) /\ Range(<<k>> \o rest) = {k} \cup Range(rest)
      BY <2>4, <2>5, <3>1, InFront
    <3> QED
      BY <2>3, <2>5, <3>2
  <2>7. Len(lru') <= MaxGrants
    <3>1. Len(lru) \in Nat /\ Len(rest) \in Nat /\ MaxGrants \in Nat
      BY <2>4, <2>5, LenProperties, CredentialsAssumption
    <3> QED
      BY <2>4, <2>5, <2>6, <3>1
  <2>8. DOMAIN grants' = Live
    BY <2>3, Restricted
  <2>9. \A w \in Callers : Flying(op'[w]) => op'[w] = op[w]
    BY <2>1, <2>2
  <2> QED
    BY <2>3, <2>6, <2>7, <2>8, <2>9 DEF Retained, GrantsBounded
<1>15. ASSUME NEW c \in Callers, GrantMiss(c)
      PROVE  Retained'
  <2> DEFINE k == Key(op[c])
  <2>1. op[c] \in Ops /\ \A w \in Callers \ {c} : op'[w] = op[w]
    BY <1>0, <1>15 DEF GrantMiss
  <2>2. /\ Kept(k) \subseteq DOMAIN grants \ {k}
        /\ grants' = Restrict(grants, Kept(k)) /\ lru' = Keeping(lru, Kept(k))
    BY <1>15 DEF GrantMiss, Kept, Live
  <2>3. /\ lru \in Seq(Keys) /\ IsInjective(lru) /\ Range(lru) = DOMAIN grants
        /\ Len(lru) <= MaxGrants
    BY DEF Retained, GrantsBounded
  <2>4. Key(op'[c]) = k
    <3>1. op'[c].tok = op[c].tok /\ op'[c].aim = op[c].aim /\ op'[c].cap = op[c].cap
      BY <1>0, <1>15, <2>1 DEF GrantMiss, Ops
    <3> QED
      BY <3>1 DEF Key
  <2>a. k \in DOMAIN flights => op'[c].step = "awaitgrant" /\ UNCHANGED flights
    BY <1>0, <1>15, <2>1 DEF GrantMiss, Ops
  <2>b. k \notin DOMAIN flights => flights' = With(flights, k, c)
    BY <1>0, <1>15, <2>1 DEF GrantMiss
  <2> HIDE DEF k
  <2>5. /\ lru' \in Seq(Keys) /\ IsInjective(lru') /\ Range(lru') = Kept(k)
        /\ Len(lru') <= Len(lru)
    <3>1. Range(lru) \cap Kept(k) = Kept(k)
      BY <2>2, <2>3
    <3> QED
      BY <2>2, <2>3, <3>1, Keeps
  <2>6. Len(lru') <= MaxGrants
    <3>1. Len(lru) \in Nat /\ Len(lru') \in Nat /\ MaxGrants \in Nat
      BY <2>3, <2>5, LenProperties, CredentialsAssumption
    <3> QED
      BY <2>3, <2>5, <3>1
  <2>7. DOMAIN grants' = Kept(k)
    BY <2>2, Restricted
  <2>8. GrantsBounded'
    BY <2>5, <2>6, <2>7 DEF GrantsBounded
  <2>9. CASE k \in DOMAIN flights
    <3>1. \A w \in Callers : Flying(op'[w]) => op'[w] = op[w]
      BY <2>1, <2>9, <2>a DEF Flying
    <3>2. UNCHANGED flights
      BY <2>9, <2>a
    <3> QED
      BY <2>2, <2>5, <2>7, <2>8, <3>1, <3>2 DEF Retained
  <2>10. CASE k \notin DOMAIN flights
    <3>1. /\ DOMAIN flights' = DOMAIN flights \cup {k} /\ flights'[k] = c
          /\ \A j \in DOMAIN flights : j # k => flights'[j] = flights[j]
      <4>1. flights' = With(flights, k, c)
        BY <2>10, <2>b
      <4> QED
        BY <4>1 DEF With
    <3>2. \A w \in Callers : Flying(op'[w]) =>
             Key(op'[w]) \in DOMAIN flights' /\ flights'[Key(op'[w])] = w
      BY <2>1, <2>4, <2>10, <3>1 DEF Retained
    <3> QED
      BY <2>2, <2>5, <2>7, <2>8, <3>1, <3>2 DEF Retained
  <2> QED
    BY <2>9, <2>10
<1>16. ASSUME NEW t \in DOMAIN known, Unidentify(t)
      PROVE  Retained'
  BY <1>16, TableAlone DEF Unidentify, table
<1>17. CASE Tick
  BY <1>17, TableAlone DEF Tick
<1>18. ASSUME NEW a \in Accounts, NEW k \in Capacities, Change(a, k)
      PROVE  Retained'
  BY <1>18, TableAlone DEF Change
<1>19. CASE UNCHANGED credentials
  BY <1>19, TableAlone DEF credentials
<1> QED
  BY <1>1, <1>2, <1>3, <1>4, <1>5, <1>6, <1>7, <1>8, <1>9, <1>10, <1>11, <1>12, <1>13, <1>14, <1>15, <1>16, <1>17, <1>18, <1>19, FinishRetained DEF CredentialsNext

-----------------------------------------------------------------------------
(* Theorems *)

LEMMA GInvAlways == CredentialsSpec => []GInv
  BY InitGInv, GInvInductive, PTL DEF CredentialsSpec

\* Tokens, grants and the state of every caller keep their types, however many
\* callers acquire them at the same time.
THEOREM CredentialsTyped == CredentialsSpec => []Typed
<1>1. GInv => Typed
  BY DEF GInv
<1> QED
  BY <1>1, GInvAlways, PTL

\* No request is sent with the grant of another account, target or capacity.
THEOREM GrantsAreOwn == CredentialsSpec => []GrantsApart
<1>1. GInv => GrantsApart
  BY DEF GInv, Shaped, GrantsApart, At, For, Key
<1> QED
  BY <1>1, GInvAlways, PTL

\* The list and the map of grantCache agree and stay within their limit, in
\* whatever order grants are renewed, expire, are acquired and evicted.
THEOREM GrantsAreBounded == CredentialsSpec => []GrantsBounded
<1>1. Retained => GrantsBounded
  BY DEF Retained
<1> QED
  BY <1>1, InitGInv, GInvInductive, InitRetained, RetainedNext, PTL DEF CredentialsSpec
=============================================================================
