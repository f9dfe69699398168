---------------------------- MODULE RateLimiter ----------------------------
(***************************************************************************)
(* The sliding log of services/rate_limiter.py: per key the moments of the *)
(* calls it let through, in the memory of one API process.  A call reads   *)
(* the clock twice, once for its own entry and, a little later, once to    *)
(* prune the log.  Calls take turns under a lock.                          *)
(***************************************************************************)
EXTENDS Integers, FiniteSets

CONSTANTS
    Keys,     \* "webhook:<slug>:<ip>"
    Limit,    \* webhook_rate_limit_per_minute
    Window,   \* window_seconds, in ticks
    MaxSkew,  \* bound on the ticks between the two clock readings of a call
    MaxTime   \* bound on the clock

ASSUME LimiterAssumption ==
    /\ Limit \in Nat /\ Window \in Nat /\ MaxSkew \in Nat /\ MaxTime \in Nat
    /\ MaxSkew <= Window

\* An entry of a log.  The list may hold one moment twice: entries carry a number.
Hit == [id : Nat, at : Nat]

VARIABLES
    clock,    \* time.monotonic()
    counters, \* _counters: the log of each key
    allowed,  \* history: every call let through since the process started
    served    \* calls let through so far, which numbers them

limiterVars == <<clock, counters, allowed, served>>

LimiterInit ==
    /\ clock = 0
    /\ counters = [k \in Keys |-> {}]
    /\ allowed = [k \in Keys |-> {}]
    /\ served = 0

\* Mutant of _prune: the entries of the last half window are kept.
PruneHalf(log, now) == {h \in log : 2 * h.at >= 2 * now - Window}

_prune(log, now) == {h \in log : h.at >= now - Window}

\* The clock at the second reading.
Later(skew) == /\ clock + skew <= MaxTime
               /\ clock' = clock + skew

\* check_rate_limit lets the call through, or answers 429.
Allow(k, skew) ==
    LET kept == _prune(counters[k], clock + skew)
        hit == [id |-> served, at |-> clock]
    IN  /\ Later(skew)
        /\ Cardinality(kept) < Limit
        /\ counters' = [counters EXCEPT ![k] = kept \cup {hit}]
        /\ allowed' = [allowed EXCEPT ![k] = @ \cup {hit}]
        /\ served' = served + 1

Refuse(k, skew) ==
    LET kept == _prune(counters[k], clock + skew)
    IN  /\ Later(skew)
        /\ Cardinality(kept) >= Limit
        /\ counters' = [counters EXCEPT ![k] = kept]
        /\ UNCHANGED <<allowed, served>>

Tick ==
    /\ clock < MaxTime
    /\ clock' = clock + 1
    /\ UNCHANGED <<counters, allowed, served>>

\* The log is lost with the process, and the history starts again.
Forget ==
    /\ counters' = [k \in Keys |-> {}]
    /\ allowed' = [k \in Keys |-> {}]
    /\ UNCHANGED <<clock, served>>

LimiterNext ==
    \/ \E k \in Keys, skew \in 0 .. MaxSkew : Allow(k, skew) \/ Refuse(k, skew)
    \/ Tick
    \/ Forget

LimiterSpec == LimiterInit /\ [][LimiterNext]_limiterVars

---------------------------------------------------------------------------
LimiterTypeOK ==
    /\ clock \in Nat
    /\ served \in Nat
    /\ counters \in [Keys -> SUBSET Hit]
    /\ allowed \in [Keys -> SUBSET Hit]

\* The calls of k let through in the `length` ticks from t on, both ends included.
During(k, t, length) == {h \in allowed[k] : t <= h.at /\ h.at <= t + length}

\* rate_limiter.py:1: a limit per window.  Whatever the moment a window opens, at most
\* Limit calls of a key pass in it; the two readings of the clock cost the window their
\* distance.
WindowBound ==
    \A k \in Keys, t \in 0 .. MaxTime : Cardinality(During(k, t, Window - MaxSkew)) <= Limit
===========================================================================
