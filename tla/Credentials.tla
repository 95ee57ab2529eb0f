---------------------------- MODULE Credentials -----------------------------
(***************************************************************************)
(* What a request for resources is sent with: the access token of          *)
(* internal/auth/identity.go and the grant of internal/mwc/auth.go that is *)
(* issued for it.  Both are retained, renewed some time before they expire *)
(* and acquired by one caller for all that wait.                           *)
(*                                                                         *)
(* The identity provider is external.  Somebody may sign in with another   *)
(* account at any moment, and tokens are issued to the account that is     *)
(* signed in.  A token is what it says: two with the same account and      *)
(* expiry are the same token.  One scope is modelled, since the scopes     *)
(* share nothing.  A workspace may be moved to another capacity.           *)
(***************************************************************************)
EXTENDS Integers, Sequences, Functions, Lists

CONSTANTS
    Callers, Accounts, Targets, Capacities,
    Nothing,
    RefreshBefore,   \* grantRefreshBefore, and the two minutes of Token
    MaxGrants,       \* maxGrants
    Lifetimes,       \* how long what is issued may be valid
    MaxTime          \* bound on the clock

Tokens == [account : Accounts, expires : Nat]
Grants == [account : Accounts, target : Targets, capacity : Capacities, expires : Nat]

\* The fingerprint of the token, the item with its workspace and workload.
Keys == [token : Tokens, target : Targets, capacity : Capacities]

ASSUME CredentialsAssumption ==
    /\ RefreshBefore \in Nat /\ MaxGrants \in Nat \ {0}
    /\ Lifetimes \subseteq Nat /\ MaxTime \in Nat
    /\ Nothing \notin Callers \cup Targets \cup Capacities
    /\ Nothing \notin Tokens /\ Nothing \notin Grants

VARIABLES
    now,       \* Client.now, tokenSource.clock
    account,   \* who is signed in (external)
    capacity,  \* that of the workspace (external)
    token,     \* tokenEntry.token
    refresh,   \* tokenEntry.refresh: the caller that runs it
    known,     \* Client.capacities: retained, by token
    grants,    \* grantCache.entries, by key
    lru,       \* grantCache.lru, the front first
    flights,   \* grantCache.flights: the caller that runs each
    op         \* of each caller: step, target, token, capacity, grant

world == <<now, account, capacity>>
table == <<grants, lru, flights>>
credentials == <<world, token, refresh, known, table, op>>

Idle == [step |-> "idle", aim |-> Nothing, tok |-> Nothing, cap |-> Nothing, got |-> Nothing]

CredentialsInit ==
    /\ now = 0
    /\ account \in Accounts /\ capacity \in Capacities
    /\ token = Nothing /\ refresh = Nothing
    /\ known = << >>
    /\ grants = << >> /\ lru = << >> /\ flights = << >>
    /\ op = [c \in Callers |-> Idle]

Valid(x) == x # Nothing /\ now < x.expires
\* Not to be renewed yet.
Ample(x) == x # Nothing /\ now + RefreshBefore < x.expires

At(c, s) == op[c].step = s

\* A table f with v under k.
With(f, k, v) == [j \in DOMAIN f \cup {k} |-> IF j = k THEN v ELSE f[j]]

\* A request for something below target t.
Begin(c, t) ==
    /\ At(c, "idle")
    /\ op' = [op EXCEPT ![c].step = "token", ![c].aim = t]
    /\ UNCHANGED <<world, token, refresh, known, table>>

-----------------------------------------------------------------------------
(* Token of tokenSource *)

\* What a caller goes on with when it has token x, or none.
WithToken(o, x) ==
    IF x = Nothing THEN Idle ELSE [o EXCEPT !.step = "identify", !.tok = x]

TokenHit(c) ==
    /\ At(c, "token") /\ Ample(token)
    /\ op' = [op EXCEPT ![c] = WithToken(@, token)]
    /\ UNCHANGED <<world, token, refresh, known, table>>

TokenMiss(c) ==
    /\ At(c, "token") /\ ~Ample(token)
    /\ IF refresh # Nothing
       THEN op' = [op EXCEPT ![c].step = "awaittoken"] /\ UNCHANGED refresh
       ELSE op' = [op EXCEPT ![c].step = "refresh"] /\ refresh' = c
    /\ UNCHANGED <<world, token, known, table>>

\* acquire, which refuses what has expired already.
Acquire(c, lifetime) ==
    /\ At(c, "refresh") /\ lifetime > 0
    /\ op' = [op EXCEPT ![c].step = "publish",
                        ![c].tok = [account |-> account, expires |-> now + lifetime]]
    /\ UNCHANGED <<world, token, refresh, known, table>>

\* It fails, or the caller that runs it is canceled.
AcquireFails(c) ==
    /\ At(c, "refresh")
    /\ op' = [op EXCEPT ![c].step = "publish"]
    /\ UNCHANGED <<world, token, refresh, known, table>>

\* All that wait get the result, the error as well.
PublishToken(c) ==
    LET x == op[c].tok
    IN  /\ At(c, "publish")
        /\ token' = IF x = Nothing THEN token ELSE x
        /\ refresh' = Nothing
        /\ op' = [w \in Callers |->
                     IF At(w, "awaittoken") THEN [op[w] EXCEPT !.step = "taketoken", !.tok = x]
                     ELSE IF w = c THEN WithToken(op[c], x)
                     ELSE op[w]]
        /\ UNCHANGED <<world, known, table>>

TakeToken(c) ==
    /\ At(c, "taketoken")
    /\ op' = [op EXCEPT ![c] = WithToken(@, IF Valid(@.tok) THEN @.tok ELSE Nothing)]
    /\ UNCHANGED <<world, token, refresh, known, table>>

-----------------------------------------------------------------------------
(* route *)

\* The capacity of the workspace, retained for this very token.
Identify(c) ==
    /\ At(c, "identify")
    /\ known' = IF op[c].tok \in DOMAIN known THEN known ELSE With(known, op[c].tok, capacity)
    /\ op' = [op EXCEPT ![c].step = "grant", ![c].cap = known'[op[c].tok]]
    /\ UNCHANGED <<world, token, refresh, table>>

\* What is retained of the workspace expires, or is evicted.
Unidentify(t) ==
    /\ known' = Restrict(known, DOMAIN known \ {t})
    /\ UNCHANGED <<world, token, refresh, table, op>>

-----------------------------------------------------------------------------
(* getGrant *)

\* (mutant) Grants outlive the token that they were asked for with.
KeyOfTarget(o) == [token |-> Nothing, target |-> o.aim, capacity |-> o.cap]

\* grantKey
Key(o) == [token |-> o.tok, target |-> o.aim, capacity |-> o.cap]

Live == {k \in DOMAIN grants : Valid(grants[k])}

\* What a caller goes on with when it has grant g, or none.
WithGrant(o, g) ==
    IF Valid(g) THEN [o EXCEPT !.step = "send", !.got = g] ELSE Idle

GrantHit(c) ==
    LET k == Key(op[c])
    IN  /\ At(c, "grant") /\ k \in Live /\ Ample(grants[k])
        /\ grants' = Restrict(grants, Live)
        /\ lru' = <<k>> \o Keeping(lru, Live \ {k})
        /\ op' = [op EXCEPT ![c] = WithGrant(@, grants[k])]
        /\ UNCHANGED <<world, token, refresh, known, flights>>

\* (mutant) What is to be renewed stays until it has been.
KeptUntilRenewed(k) == Live

\* A grant that is to be renewed is dropped at once.
Kept(k) == Live \ {k}

GrantMiss(c) ==
    LET k == Key(op[c])
    IN  /\ At(c, "grant") /\ ~(k \in Live /\ Ample(grants[k]))
        /\ grants' = Restrict(grants, Kept(k))
        /\ lru' = Keeping(lru, Kept(k))
        /\ IF k \in DOMAIN flights
           THEN op' = [op EXCEPT ![c].step = "awaitgrant"] /\ UNCHANGED flights
           ELSE op' = [op EXCEPT ![c].step = "load"] /\ flights' = With(flights, k, c)
        /\ UNCHANGED <<world, token, refresh, known>>

\* loadGrant: the service issues a grant to the bearer of the token; an answer
\* about another capacity is refused.
LoadGrant(c, lifetime) ==
    /\ At(c, "load") /\ lifetime > 0
    /\ op' = [op EXCEPT ![c].step = "finish",
                 ![c].got = [account |-> op[c].tok.account, target |-> op[c].aim,
                             capacity |-> op[c].cap, expires |-> now + lifetime]]
    /\ UNCHANGED <<world, token, refresh, known, table>>

LoadGrantFails(c) ==
    /\ At(c, "load")
    /\ op' = [op EXCEPT ![c].step = "finish"]
    /\ UNCHANGED <<world, token, refresh, known, table>>

\* finishGrant, after checkGrant.  The oldest make room for the new one.
FinishGrant(c) ==
    LET k == Key(op[c])
        g == op[c].got
        rest == IF Len(lru) < MaxGrants THEN lru ELSE SubSeq(lru, 1, MaxGrants - 1)
        oldest == {lru[i] : i \in MaxGrants..Len(lru)}
    IN  /\ At(c, "finish")
        /\ flights' = Restrict(flights, DOMAIN flights \ {k})
        /\ IF Valid(g)
           THEN /\ grants' = With(Restrict(grants, DOMAIN grants \ oldest), k, g)
                /\ lru' = <<k>> \o rest
           ELSE UNCHANGED <<grants, lru>>
        /\ op' = [w \in Callers |->
                     IF w = c THEN WithGrant(op[c], g)
                     ELSE IF At(w, "awaitgrant") /\ Key(op[w]) = k
                     THEN [op[w] EXCEPT !.step = "takegrant", !.got = IF Valid(g) THEN g ELSE Nothing]
                     ELSE op[w]]
        /\ UNCHANGED <<world, token, refresh, known>>

TakeGrant(c) ==
    /\ At(c, "takegrant")
    /\ op' = [op EXCEPT ![c] = WithGrant(@, @.got)]
    /\ UNCHANGED <<world, token, refresh, known, table>>

\* An attempt of Request with the captured token, checked again; the last one
\* ends the call.
Send(c, last) ==
    /\ At(c, "send") /\ Valid(op[c].got)
    /\ op' = IF last THEN [op EXCEPT ![c] = Idle] ELSE op
    /\ UNCHANGED <<world, token, refresh, known, table>>

\* An error, or the end of the caller's context, where it runs nothing that
\* others may wait for.
GiveUp(c) ==
    /\ op[c].step \notin {"idle", "refresh", "publish", "load", "finish"}
    /\ op' = [op EXCEPT ![c] = Idle]
    /\ UNCHANGED <<world, token, refresh, known, table>>

-----------------------------------------------------------------------------
(* The world (external) *)

Tick ==
    /\ now < MaxTime /\ now' = now + 1
    /\ UNCHANGED <<account, capacity, token, refresh, known, table, op>>

\* Somebody signs in, or the workspace is moved.
Change(a, k) ==
    /\ account' = a /\ capacity' = k
    /\ UNCHANGED <<now, token, refresh, known, table, op>>

-----------------------------------------------------------------------------
CredentialsNext ==
    \/ \E c \in Callers :
          \/ \E t \in Targets : Begin(c, t)
          \/ TokenHit(c) \/ TokenMiss(c) \/ AcquireFails(c) \/ PublishToken(c) \/ TakeToken(c)
          \/ Identify(c)
          \/ GrantHit(c) \/ GrantMiss(c) \/ LoadGrantFails(c) \/ FinishGrant(c) \/ TakeGrant(c)
          \/ \E lifetime \in Lifetimes : Acquire(c, lifetime) \/ LoadGrant(c, lifetime)
          \/ \E last \in BOOLEAN : Send(c, last)
          \/ GiveUp(c)
    \/ \E t \in DOMAIN known : Unidentify(t)
    \/ Tick
    \/ \E a \in Accounts, k \in Capacities : Change(a, k)

CredentialsSpec == CredentialsInit /\ [][CredentialsNext]_credentials

-----------------------------------------------------------------------------
(* Properties *)

\* A request is sent with a grant that was issued to the account whose token
\* its caller has got, for its target and the capacity it has looked up, also
\* when the account has been changed since, or others have acquired the grant
\* (grantKey with its fingerprint, retained grants and flights).
GrantsApart ==
    \A c \in Callers : At(c, "send") =>
        /\ op[c].got.account = op[c].tok.account
        /\ op[c].got.target = op[c].aim /\ op[c].got.capacity = op[c].cap

\* The list and the map of grantCache agree and stay within maxGrants, however
\* grants are renewed, expire and are evicted: finishGrant does not look for an
\* older element of its key.
GrantsBounded ==
    /\ IsInjective(lru) /\ Range(lru) = DOMAIN grants
    /\ Len(lru) <= MaxGrants
=============================================================================
