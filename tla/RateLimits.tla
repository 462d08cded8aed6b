------------------------------ MODULE RateLimits ------------------------------
(***************************************************************************)
(* Admission in front of the handlers (api/ratelimit.py): the sliding      *)
(* window limiter with its lockouts, used at login and for the day quotas  *)
(* of api/app.py under different policies, and the gate that caps the open *)
(* event streams.  Time is kept as ages and as what is left of a lockout,  *)
(* so that it may pass for ever in finitely many states, and a list of     *)
(* times as the number of entries of each age: nothing depends on their    *)
(* order.  An entry leaves the list when it is as old as the window, as    *)
(* every reader of the list filters those out first.                       *)
(***************************************************************************)
EXTENDS Integers, FiniteSets, FiniteSetsExt

CONSTANTS
    Keys,           \* client addresses
    Policies,       \* [limit, window, base, cap] of the limiters in use
    PurgeInterval,  \* PURGE_INTERVAL_SECONDS
    FloatExp,       \* 2^FloatExp is the first power no float holds (1024)
    Sessions, Consumers, Nobody,
    MaxTotal, MaxPerSession  \* caps of the gate, 0 for none

ASSUME PolicyAssumption ==
    \A p \in Policies :
        p.limit \in Nat \ {0} /\ p.window \in Nat \ {0} /\ p.base \in Nat \ {0}
        /\ p.cap \in Nat /\ p.base <= p.cap
ASSUME BoundAssumption ==
    PurgeInterval \in Nat /\ FloatExp \in Nat \ {0, 1} /\ MaxTotal \in Nat /\ MaxPerSession \in Nat
ASSUME ConsumerAssumption == IsFiniteSet(Sessions) /\ IsFiniteSet(Consumers) /\ Nobody \notin Sessions

VARIABLES
    policy,      \* of this limiter, fixed
    attempts,    \* _attempts: of each age, how many are counted so far
    lockout,     \* what is left of _lockout_until, 0 when it has passed
    strikes,     \* _strikes
    idle,        \* age of _last_seen
    sincePurge,  \* age of _last_purge
    granted,     \* of each age, how many were let through within the window
    held,        \* _by_session of the gate
    stream,      \* the session a consumer has a place for
    open         \* the consumers whose generator has started
limiterVars == <<policy, attempts, lockout, strikes, idle, sincePurge, granted>>
gateVars    == <<held, stream, open>>
vars == <<limiterVars, gateVars>>

\* Ages are kept up to the first one that makes no difference.
Retention  == Max({policy.window, policy.cap})
Older(n, top) == Min({n + 1, top})
StrikeTop  == FloatExp + 1

\* Ages(p) are those within the window of a policy; Count is what a table of
\* numbers comes to.
Ages(p)  == 0 .. p.window - 1
Empty(p) == [a \in Ages(p) |-> 0]
Units(f) == UNION {{x} \X (1 .. f[x]) : x \in DOMAIN f}
Count(f) == Cardinality(Units(f))

Init ==
    /\ policy \in Policies
    /\ attempts = [k \in Keys |-> Empty(policy)]
    /\ lockout = [k \in Keys |-> 0]
    /\ strikes = [k \in Keys |-> 0]
    /\ idle = [k \in Keys |-> Retention + 1]
    /\ sincePurge = 0
    /\ granted = [k \in Keys |-> Empty(policy)]
    /\ held = [s \in Sessions |-> 0]
    /\ stream = [c \in Consumers |-> Nobody]
    /\ open = {}

\* The sweep inside check: keys silent for longer than the window and the
\* longest lockout are forgotten, strikes included.
Stale_Window(k) == {j \in Keys \ {k} : idle[j] > policy.window}  \* Slip: lockouts may be longer
Stale(k) == {j \in Keys \ {k} : idle[j] > Retention /\ lockout[j] = 0}
Purged(k) == IF sincePurge >= PurgeInterval THEN Stale(k) ELSE {}

Swept(f, k, empty) == [j \in Keys |-> IF j \in Purged(k) THEN empty ELSE f[j]]

Seen(k) ==
    /\ idle' = [idle EXCEPT ![k] = 0]
    /\ sincePurge' = IF sincePurge >= PurgeInterval THEN 0 ELSE sincePurge

Refused(k) ==
    /\ lockout[k] > 0
    /\ Seen(k)
    /\ attempts' = Swept(attempts, k, Empty(policy))
    /\ strikes' = Swept(strikes, k, 0)
    /\ lockout' = Swept(lockout, k, 0)
    /\ UNCHANGED <<policy, granted>>

Power[n \in 0 .. FloatExp] == IF n = 0 THEN 1 ELSE 2 * Power[n - 1]
Length(p, n) == Min({p.base * Power[n - 1], p.cap})

\* The attempt over the limit: a strike, a lockout and an empty list.  The
\* strike is counted before its lockout is computed, which raises once
\* 2 ** (strikes - 1) is no float.
Strike(k) ==
    LET n == Older(strikes[k], StrikeTop) IN
    /\ lockout[k] = 0 /\ Count(attempts[k]) >= policy.limit
    /\ Seen(k)
    /\ strikes' = [Swept(strikes, k, 0) EXCEPT ![k] = n]
    /\ IF n - 1 >= FloatExp
       THEN /\ attempts' = Swept(attempts, k, Empty(policy))
            /\ lockout' = Swept(lockout, k, 0)
       ELSE /\ attempts' = [Swept(attempts, k, Empty(policy)) EXCEPT ![k] = Empty(policy)]
            /\ lockout' = [Swept(lockout, k, 0) EXCEPT ![k] = Length(policy, n)]
    /\ UNCHANGED <<policy, granted>>

Admit_Unlocked(k) ==  \* Slip: a lockout is not looked at
    /\ Count(attempts[k]) < policy.limit
    /\ Seen(k)
    /\ attempts' = [Swept(attempts, k, Empty(policy)) EXCEPT ![k][0] = @ + 1]
    /\ strikes' = Swept(strikes, k, 0)
    /\ lockout' = Swept(lockout, k, 0)
    /\ granted' = [granted EXCEPT ![k][0] = @ + 1]
    /\ UNCHANGED policy
Admit(k) ==
    /\ lockout[k] = 0 /\ Count(attempts[k]) < policy.limit
    /\ Seen(k)
    /\ attempts' = [Swept(attempts, k, Empty(policy)) EXCEPT ![k][0] = @ + 1]
    /\ strikes' = Swept(strikes, k, 0)
    /\ lockout' = Swept(lockout, k, 0)
    /\ granted' = [granted EXCEPT ![k][0] = @ + 1]
    /\ UNCHANGED policy

Aged(f) == [a \in DOMAIN f |-> IF a = 0 THEN 0 ELSE f[a - 1]]
Tick ==
    /\ attempts' = [k \in Keys |-> Aged(attempts[k])]
    /\ granted' = [k \in Keys |-> Aged(granted[k])]
    /\ lockout' = [k \in Keys |-> Max({lockout[k] - 1, 0})]
    /\ idle' = [k \in Keys |-> Older(idle[k], Retention + 1)]
    /\ sincePurge' = Older(sincePurge, PurgeInterval)
    /\ UNCHANGED <<policy, strikes>>

-----------------------------------------------------------------------------
(* The gate.  build_events takes the place; the generator gives it back.   *)

Places == Count(held)
Free(s) ==
    /\ MaxTotal = 0 \/ Places < MaxTotal
    /\ MaxPerSession = 0 \/ held[s] < MaxPerSession

Connect(c, s) ==
    /\ stream[c] = Nobody /\ Free(s)
    /\ held' = [held EXCEPT ![s] = @ + 1]
    /\ stream' = [stream EXCEPT ![c] = s]
    /\ UNCHANGED open

Start(c) ==
    /\ stream[c] # Nobody /\ c \notin open
    /\ open' = open \cup {c}
    /\ UNCHANGED <<held, stream>>

\* The client is gone before the generator's first step: its finally, and
\* with it the release, never runs.
Vanish(c) ==
    /\ stream[c] # Nobody /\ c \notin open
    /\ stream' = [stream EXCEPT ![c] = Nobody]
    /\ UNCHANGED <<held, open>>

\* The build is over, or a heartbeat met a closed connection.
Close_Twice(c) ==  \* Slip: the release drops the session's entry
    /\ c \in open
    /\ open' = open \ {c}
    /\ held' = [held EXCEPT ![stream[c]] = 0]
    /\ stream' = [stream EXCEPT ![c] = Nobody]
Close(c) ==
    /\ c \in open
    /\ open' = open \ {c}
    /\ held' = [held EXCEPT ![stream[c]] = @ - 1]
    /\ stream' = [stream EXCEPT ![c] = Nobody]

LimiterStep == Tick \/ \E k \in Keys : Refused(k) \/ Strike(k) \/ Admit(k)
GateStep ==
    \E c \in Consumers :
        (\E s \in Sessions : Connect(c, s)) \/ Start(c) \/ Vanish(c) \/ Close(c)
Next ==
    \/ LimiterStep /\ UNCHANGED gateVars
    \/ GateStep /\ UNCHANGED limiterVars
Spec == Init /\ [][Next]_vars

-----------------------------------------------------------------------------
\* What a limiter lets through in one window.  A strike empties the list, so
\* a lockout shorter than the window lets a second batch into it; from the
\* second strike on the lockout covers the window, and waiting it out pays
\* no more than the limit.
Batches(k) ==
    IF \/ policy.base >= policy.window
       \/ strikes[k] >= 2 /\ lockout[k] = 0 /\ policy.cap >= policy.window
    THEN 1 ELSE 2
GrantsBounded ==
    2 * policy.base >= policy.window =>
        \A k \in Keys : Count(granted[k]) <= Batches(k) * policy.limit

\* Forgetting a key changes no later answer but the length of its next
\* lockout: nothing the purge drops could still have refused anyone.
PurgeDropsNothingLive ==
    [][\A k \in Keys :
        strikes[k] > 0 /\ strikes'[k] = 0 =>
            lockout[k] = 0 /\ attempts[k] = Empty(policy) /\ granted[k] = Empty(policy)]_vars

\* The caps bound the streams: each one, and each consumer about to start one,
\* has a place of its session that no other release gives away.
StreamsCapped ==
    /\ \A s \in Sessions : Cardinality({c \in Consumers : stream[c] = s}) <= held[s]
    /\ MaxTotal > 0 => Places <= MaxTotal
    /\ MaxPerSession > 0 => \A s \in Sessions : held[s] <= MaxPerSession

\* And no place outlives its consumer: the release is in the generator's
\* finally, "which starlette invokes on client disconnect as well".
PlacesReturned ==
    \A s \in Sessions : held[s] = Cardinality({c \in Consumers : stream[c] = s})
=============================================================================
