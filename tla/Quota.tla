------------------------------- MODULE Quota -------------------------------
(***************************************************************************)
(* What the rate limiter promises to a partner on one route, free of       *)
(* Redis, of gateway clocks and of retries: a call may be granted at time  *)
(* t only while fewer than its limit of other calls were granted during    *)
(* the Span units of time that end at t.  What Redis loses is forgotten.   *)
(* SlidingWindow implements it.                                            *)
(***************************************************************************)
EXTENDS Integers, FiniteSets

CONSTANTS
    Call,      \* calls of Limiter.Allow for one key
    Limits,    \* the limits a policy may carry
    MaxLimit,  \* no limit is above it
    Span       \* the length of the window that is promised

VARIABLES
    clock,    \* real time
    granted,  \* the calls granted so far and not forgotten
    at        \* when each granted call was (last) granted

vars == <<clock, granted, at>>

\* The calls granted during the Span that ends at t.
Recent(t) == {c \in granted : t - Span < at[c] /\ at[c] <= t}

Init ==
    /\ clock \in Nat
    /\ granted = {}
    /\ at = [c \in Call |-> 0]

Tick == clock' = clock + 1 /\ UNCHANGED <<granted, at>>

Grant(c, l) ==
    /\ Cardinality(Recent(clock) \ {c}) < l
    /\ granted' = granted \cup {c}
    /\ at' = [at EXCEPT ![c] = clock]
    /\ UNCHANGED clock

\* Grants may be forgotten, and then count no longer.
Forget ==
    /\ granted' \in SUBSET granted
    /\ UNCHANGED <<clock, at>>

Next == Tick \/ Forget \/ \E c \in Call, l \in Limits : Grant(c, l)

Spec == Init /\ [][Next]_vars

-----------------------------------------------------------------------------

\* The variables have their types, and no grant lies in the future.
TypeOK ==
    /\ clock \in Nat
    /\ granted \subseteq Call
    /\ IsFiniteSet(granted)
    /\ at \in [Call -> Int]
    /\ \A c \in granted : at[c] <= clock

\* No Span of time, wherever it ends, contains more than MaxLimit grants.
WithinQuota == \A t \in 0 .. clock : Cardinality(Recent(t)) <= MaxLimit

=============================================================================
