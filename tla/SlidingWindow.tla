--------------------------- MODULE SlidingWindow ---------------------------
(***************************************************************************)
(* The sliding window rate limiter (internal/ratelimit/ratelimit.go) for   *)
(* one key "ratelimit:<partner>:<route>": calls of Limiter.Allow made by   *)
(* any number of gateway instances, and the sorted set they share in       *)
(* Redis.  A call reads its gateway's clock BEFORE it reaches Redis, so    *)
(* the script may judge a call by a time stamp that lags behind, or runs   *)
(* ahead of, the moment the script runs.  go-redis sends a command again   *)
(* (same ARGV) when the reply does not come, and a copy whose client has   *)
(* given up may still be executed.  Redis may be restarted or fail over,   *)
(* and has then lost the set.                                              *)
(*                                                                         *)
(* Time is counted in abstract units; `clock' is the clock of Redis.       *)
(* Distinct keys share no state, so one key is modelled.                   *)
(***************************************************************************)
EXTENDS Integers, FiniteSets

CONSTANTS
    Call,         \* calls of Allow; a call is also its random sorted-set member
    Limits,       \* RequestsPerMinute of the policies a call may be judged by
    MaxLimit,     \* no limit is above it
    Window,       \* the window, time.Minute in the gateway
    Lag,          \* a stamp is at most this far behind when the script runs
    Lead,         \* ... and at most this far ahead
    MaxAttempts,  \* 1 + MaxRetries of the Redis client
    MaxClock      \* bound on the clock, for model checking

ASSUME LimitsAssumption ==
    /\ Limits \subseteq Int
    /\ MaxLimit \in Nat
    /\ \A l \in Limits : l <= MaxLimit

ASSUME TimeAssumption ==
    /\ Window \in Nat \ {0}
    /\ Lag \in Nat
    /\ Lead \in Nat
    /\ MaxClock \in Nat

ASSUME AttemptsAssumption == MaxAttempts \in Nat \ {0}

VARIABLES
    clock,     \* the Redis clock
    zset,      \* the members of the key's sorted set; the score of m is now[m]
    expireAt,  \* the deadline PEXPIRE gave the key
    pc,        \* where each call is, and its outcome once it has one
    limit,     \* the limit the call was made with (ARGV[3])
    now,       \* the stamp the call took from its gateway's clock (ARGV[1])
    attempt,   \* how many times the command was sent
    inflight,  \* the attempts sent and not yet executed by Redis
    retry,     \* RetryAfter of a denied call
    granted,   \* history: the calls the script admitted and Redis has not lost
    at         \* history: when it (last) did

vars == <<clock, zset, expireAt, pc, limit, now, attempt, inflight, retry, granted, at>>

-----------------------------------------------------------------------------
(* The script.  An operator named Faulty... is a wrong version of the      *)
(* definition after it, kept to show that the properties notice it;        *)
(* nothing uses it.                                                        *)

\* ZREMRANGEBYSCORE key 0 (now - window_ms), both ends included.
FaultyOutOfWindowExclusive(s, t) == 0 <= s /\ s < t - Window
OutOfWindow(s, t) == 0 <= s /\ s <= t - Window

\* if count < limit
FaultyHasRoom(count, l) == count <= l
HasRoom(count, l) == count < l

\* A key whose deadline has passed no longer exists for the commands.
Live == IF clock > expireAt THEN {} ELSE zset

\* PEXPIRE key window_ms, at each admission.
FaultyDeadline(t) == IF Live = {} THEN t + Window ELSE expireAt   \* only at the first
Deadline(t) == t + Window

\* What the removal leaves, judged by the stamp of the call.
FaultyKeptAll(c) == Live
FaultyKeptAfterAdd(c) == {m \in Live : ~OutOfWindow(now[m], now[c])} \cup {c}
Kept(c) == {m \in Live : ~OutOfWindow(now[m], now[c])}

\* The members of S with the smallest score: ZRANGE key 0 0 WITHSCORES.
Oldest(S) == {o \in S : \A m \in S : now[o] <= now[m]}

\* What a denied call is told to wait.
FaultyRetryAfter(c, S) == {now[c] - now[o] : o \in Oldest(S)}
RetryAfter(c, S) ==
    {IF wait < 0 THEN 0 ELSE wait :
        wait \in IF S = {} THEN {Window} ELSE {Window - (now[c] - now[o]) : o \in Oldest(S)}}

-----------------------------------------------------------------------------

Init ==
    /\ clock = Lag   \* so that no stamp is negative
    /\ zset = {}
    /\ expireAt = 0
    /\ pc = [c \in Call |-> "idle"]
    /\ limit = [c \in Call |-> 0]
    /\ now = [c \in Call |-> 0]
    /\ attempt = [c \in Call |-> 0]
    /\ inflight = [c \in Call |-> {}]
    /\ retry = [c \in Call |-> 0]
    /\ granted = {}
    /\ at = [c \in Call |-> 0]

Tick ==
    /\ clock < MaxClock
    /\ clock' = clock + 1
    /\ UNCHANGED <<zset, expireAt, pc, limit, now, attempt, inflight, retry, granted, at>>

\* limit <= 0: denied without asking Redis.
Refuse(c) ==
    /\ pc[c] = "idle"
    /\ \E l \in Limits :
        /\ l <= 0
        /\ limit' = [limit EXCEPT ![c] = l]
    /\ pc' = [pc EXCEPT ![c] = "denied"]
    /\ retry' = [retry EXCEPT ![c] = Window]
    /\ UNCHANGED <<clock, zset, expireAt, now, attempt, inflight, granted, at>>

\* The call reads its gateway's clock and sends the command.
Send(c) ==
    /\ pc[c] = "idle"
    /\ \E l \in Limits :
        /\ l > 0
        /\ limit' = [limit EXCEPT ![c] = l]
    /\ \E t \in clock - Lag .. clock + Lead : now' = [now EXCEPT ![c] = t]
    /\ pc' = [pc EXCEPT ![c] = "waiting"]
    /\ attempt' = [attempt EXCEPT ![c] = 1]
    /\ inflight' = [inflight EXCEPT ![c] = {1}]
    /\ UNCHANGED <<clock, zset, expireAt, retry, granted, at>>

\* Redis may run a copy while the call's stamp is not older than Lag; a copy
\* that is lost on its way is one that never runs.
Runnable(c, a) ==
    /\ a \in inflight[c]
    /\ clock - now[c] <= Lag

\* The reply of attempt a reaches the call only if it still waits for a.
Reply(c, a, outcome) ==
    \/ UNCHANGED pc
    \/ /\ pc[c] = "waiting"
       /\ a = attempt[c]
       /\ pc' = [pc EXCEPT ![c] = outcome]

\* The script finds room: ZADD, PEXPIRE, {1, 0}.
Admit(c, a) ==
    /\ Runnable(c, a)
    /\ HasRoom(Cardinality(Kept(c)), limit[c])
    /\ zset' = Kept(c) \cup {c}
    /\ expireAt' = Deadline(clock)
    /\ granted' = granted \cup {c}
    /\ at' = [at EXCEPT ![c] = clock]
    /\ inflight' = [inflight EXCEPT ![c] = @ \ {a}]
    /\ Reply(c, a, "allowed")
    /\ UNCHANGED <<clock, limit, now, attempt, retry>>

\* The script finds none: {0, retry_after_ms}.
Deny(c, a) ==
    /\ Runnable(c, a)
    /\ ~HasRoom(Cardinality(Kept(c)), limit[c])
    /\ zset' = Kept(c)
    /\ inflight' = [inflight EXCEPT ![c] = @ \ {a}]
    /\ Reply(c, a, "denied")
    /\ \E wait \in RetryAfter(c, Kept(c)) :
        retry' = [retry EXCEPT ![c] = IF pc' = pc THEN @ ELSE wait]
    /\ UNCHANGED <<clock, expireAt, limit, now, attempt, granted, at>>

\* MaxRetries of the client.
FaultyMayResend(c) == attempt[c] <= MaxAttempts
MayResend(c) == attempt[c] < MaxAttempts

\* No reply came: go-redis sends the same command again.
Resend(c) ==
    /\ pc[c] = "waiting"
    /\ MayResend(c)
    /\ attempt' = [attempt EXCEPT ![c] = @ + 1]
    /\ inflight' = [inflight EXCEPT ![c] = @ \cup {attempt[c] + 1}]
    /\ UNCHANGED <<clock, zset, expireAt, pc, limit, now, retry, granted, at>>

\* Allow returns an error: no random member could be drawn, the request's
\* context ended, or the attempts failed.  The copies sent may still be run.
Fail(c) ==
    /\ pc[c] \in {"idle", "waiting"}
    /\ pc' = [pc EXCEPT ![c] = "error"]
    /\ UNCHANGED <<clock, zset, expireAt, limit, now, attempt, inflight, retry, granted, at>>

\* Redis restarts or fails over, and knows only some of the admissions again:
\* those of a snapshot, or of a replica that was behind.  (If it has lost the
\* script too, script.Run sends it in full.)
Lose ==
    \E rest \in SUBSET zset :
        /\ zset' = rest
        /\ granted' = rest
        /\ IF rest = {}
           THEN expireAt' = 0
           ELSE \E last \in rest : /\ \A m \in rest : at[m] <= at[last]
                                  /\ expireAt' = Deadline(at[last])
        /\ UNCHANGED <<clock, pc, limit, now, attempt, inflight, retry, at>>

Next ==
    \/ Tick
    \/ Lose
    \/ \E c \in Call :
        \/ Refuse(c)
        \/ Send(c)
        \/ Resend(c)
        \/ Fail(c)
        \/ \E a \in inflight[c] : Admit(c, a) \/ Deny(c, a)

Spec == Init /\ [][Next]_vars

-----------------------------------------------------------------------------
(* Properties *)

\* The variables have their types: no command is sent more than MaxAttempts times.
TypeOK ==
    /\ clock \in Nat
    /\ zset \subseteq Call
    /\ expireAt \in Int
    /\ pc \in [Call -> {"idle", "waiting", "allowed", "denied", "error"}]
    /\ limit \in [Call -> Int]
    /\ now \in [Call -> Int]
    /\ attempt \in [Call -> 0 .. MaxAttempts]
    /\ inflight \in [Call -> SUBSET (1 .. MaxAttempts)]
    /\ retry \in [Call -> Int]
    /\ granted \subseteq Call
    /\ at \in [Call -> Int]

\* What is left of the window once stamps lag and lead.
Span == Window - Lag - Lead

\* The calls admitted during the n units of time that end at t.
Admitted(t, n) == {c \in granted : t - n < at[c] /\ at[c] <= t}

\* However calls of several gateways interleave, are delayed, sent again or
\* executed after their client gave up, no Span of real time contains more
\* than MaxLimit admissions.
WithinQuota == \A t \in 0 .. clock : Cardinality(Admitted(t, Span)) <= MaxLimit

\* Neither ZREMRANGEBYSCORE run with another gateway's stamp nor the expiry of
\* the key loses an admission that still counts: every admission of the last
\* Span is in the sorted set.
RecentHeld == Admitted(clock, Span) \subseteq Live

\* Quota that was used long ago is never held against a partner: when the
\* script denies a call, at least its limit of admissions were executed during
\* the last Window + Lag + Lead.
DeniedOnlyWhenUsed ==
    [][\A c \in Call :
        pc[c] = "waiting" /\ pc'[c] = "denied" =>
            limit[c] <= Cardinality(Admitted(clock, Window + Lag + Lead))]_vars

\* The hint is enough whenever one slot must come free, which is always so when
\* all calls carry one limit: judged by a stamp retry later, and if nobody is
\* admitted meanwhile, the script finds room.
RetryAfterSuffices ==
    [][\A c \in Call :
        pc[c] = "waiting" /\ pc'[c] = "denied" /\ Cardinality(zset') <= limit[c] =>
            LET later == now[c] + retry'[c]
            IN  Cardinality({m \in zset' : ~OutOfWindow(now[m], later)}) < limit[c]]_vars

\* A denied call is told to wait a positive time, never longer than the window
\* plus the skew of the clocks (a gateway ahead may make it exceed the window).
RetryAfterBounded ==
    \A c \in Call : pc[c] = "denied" => retry[c] \in 1 .. Window + Lag + Lead

\* A call that was sent once and denied takes nothing from the quota.  (One
\* that was sent again may hold the slot its lost first reply granted.)
DeniedHoldsNoSlot ==
    \A c \in Call : pc[c] = "denied" /\ attempt[c] <= 1 => c \notin zset

\* The abstract specification: the clock of Redis is its clock, and it promises
\* the window less the skew.
Promise == INSTANCE Quota
    WITH Span <- Span, clock <- clock, granted <- granted, at <- at

\* Every step of gateways and Redis is a step of the promise or changes nothing
\* it sees.
KeepsPromise == Promise!Spec

=============================================================================
