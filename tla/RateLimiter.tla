---------------------------- MODULE RateLimiter ----------------------------
(***************************************************************************)
(* RateLimiterMiddleware for the requests of one client: each reads the    *)
(* clock, in whole seconds, and then runs one Redis transaction on the     *)
(* client's sorted set, possibly later and out of order.                   *)
(*                                                                         *)
(* The set holds seconds, not requests: member and score are both the      *)
(* second read, so the requests of one second share one member.            *)
(***************************************************************************)
EXTENDS Integers, FiniteSets

CONSTANTS
    Hit,          \* requests of the client
    Window,       \* window_seconds
    Limit,        \* default_limit
    MaxDelay,     \* seconds between reading the clock and Redis' EXEC, at most
    MaxTime       \* bound: last second modelled

ASSUME WindowAssumption == Window \in Nat \ {0}
ASSUME LimitAssumption == Limit \in Nat
ASSUME MaxDelayAssumption == MaxDelay \in Nat
ASSUME MaxTimeAssumption == MaxTime \in Nat

VARIABLES
    clock,      \* the current second
    members,    \* the sorted set rate_limit:{client}
    expireAt,   \* the second Redis deletes it
    pc,         \* pc[r]: where request r is
    now         \* now[r]: the second r read

RLvars == <<clock, members, expireAt, pc, now>>

-----------------------------------------------------------------------------

\* "admitted" and "limited" are Redis' verdicts; "exempt" requests skip the
\* limiter, "open" ones passed because Redis failed.
PcStates == {"new", "waiting", "admitted", "limited", "exempt", "open"}
Verdicts == {"admitted", "limited"}

RLTypeOK ==
    /\ clock \in 0..MaxTime
    /\ members \subseteq 0..MaxTime
    /\ expireAt \in Nat
    /\ pc \in [Hit -> PcStates]
    /\ now \in [Hit -> 0..MaxTime]

RLInit ==
    /\ clock = 0
    /\ members = {}
    /\ expireAt = 0
    /\ pc = [r \in Hit |-> "new"]
    /\ now = [r \in Hit |-> 0]

-----------------------------------------------------------------------------
(* Mutants: plausible bugs, none of them a step of RLNext.                   *)

\* The removal's bound is now instead of window_start.
KeepFuture(t) == {s \in members : s > t}

\* window_start is computed as if the window were in minutes.
KeepMinutes(t) == {s \in members : s > t - 60 * Window}

\* EXPIRE is sent with too short a time to live.
ExpireEarly(t) ==
    /\ members' = {s \in members : s > t - Window} \cup {t}
    /\ expireAt' = clock + 1

-----------------------------------------------------------------------------

\* ZREMRANGEBYSCORE key 0 (now - window): the members it leaves.
Kept(t) == {s \in members : s > t - Window}

\* The transaction's writes, for a request that read second t: ZADD after
\* ZREMRANGEBYSCORE and ZCARD, then EXPIRE.
Record(t) ==
    /\ members' = Kept(t) \cup {t}
    /\ expireAt' = clock + Window

-----------------------------------------------------------------------------

\* /health and /metrics.
Exempt(r) ==
    /\ pc[r] = "new"
    /\ pc' = [pc EXCEPT ![r] = "exempt"]
    /\ UNCHANGED <<clock, members, expireAt, now>>

\* int(time.time()), before the pipeline is awaited.
ReadClock(r) ==
    /\ pc[r] = "new"
    /\ now' = [now EXCEPT ![r] = clock]
    /\ pc' = [pc EXCEPT ![r] = "waiting"]
    /\ UNCHANGED <<clock, members, expireAt>>

\* MULTI ... EXEC.
Execute(r) ==
    /\ pc[r] = "waiting"
    /\ pc' = [pc EXCEPT ![r] = IF Cardinality(Kept(now[r])) >= Limit
                               THEN "limited" ELSE "admitted"]
    /\ Record(now[r])
    /\ UNCHANGED <<clock, now>>

\* Redis, or the connection to it, fails before or after the transaction.
FailOpen(r) ==
    /\ pc[r] = "waiting"
    /\ pc' = [pc EXCEPT ![r] = "open"]
    /\ Record(now[r]) \/ UNCHANGED <<members, expireAt>>
    /\ UNCHANGED <<clock, now>>

\* A second passes, and Redis deletes the key when its time has come.
Tick ==
    /\ clock < MaxTime
    /\ \A r \in Hit : pc[r] = "waiting" => clock - now[r] < MaxDelay
    /\ clock' = clock + 1
    /\ members' = IF clock + 1 >= expireAt THEN {} ELSE members
    /\ UNCHANGED <<expireAt, pc, now>>

RLNext ==
    \/ \E r \in Hit : Exempt(r) \/ ReadClock(r) \/ Execute(r) \/ FailOpen(r)
    \/ Tick

RLSpec == RLInit /\ [][RLNext]_RLvars

-----------------------------------------------------------------------------
(* Properties                                                              *)

\* The seconds, of the window ending at t, in which a request of set R came.
SecondsOf(R, t) == {now[r] : r \in {q \in R : t - Window < now[q] /\ now[q] <= t}}

With(verdicts) == {r \in Hit : pc[r] \in verdicts}

\* However requests overtake each other, and wherever the key expires, the
\* client is admitted in at most Limit distinct seconds of any window, plus
\* one for every second a request may be late (a late request no longer sees
\* the seconds a newer one removed, or a key that has expired meanwhile).
AdmittedSecondsBounded ==
    \A t \in 0..MaxTime :
        Cardinality(SecondsOf(With({"admitted"}), t)) <= Limit + MaxDelay

\* A request is limited only when at least Limit distinct seconds since its
\* window began already had a request: a quiet client is never turned away.
LimitedWithCause ==
    [][\A r \in Hit : (pc[r] = "waiting" /\ pc'[r] = "limited") =>
          Cardinality({now[q] : q \in {x \in With(Verdicts \cup {"open"}) :
                                          now[x] > now[r] - Window}}) >= Limit]_RLvars

\* The set never misses a second of the current window in which a request got
\* a verdict: neither the removal by a late request nor the key's expiry
\* forgets one too early.
NothingForgotten == SecondsOf(With(Verdicts), clock) \subseteq members
=============================================================================
