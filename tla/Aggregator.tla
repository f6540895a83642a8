----------------------------- MODULE Aggregator -----------------------------
(***************************************************************************)
(* The live statistics (internal/stats/aggregator.go): requests are        *)
(* counted by consumer, a partner on a route, until Snapshot closes the    *)
(* window.  Each operation is one critical section.  The rates a snapshot  *)
(* carries are quotients of the counts kept here.                          *)
(*                                                                         *)
(* An operator named Faulty... is a wrong version of the definition after  *)
(* it, kept to show that the properties notice it; nothing uses it.        *)
(***************************************************************************)
EXTENDS Integers, Sequences, FiniteSets, SequencesExt

CONSTANTS
    Consumer,  \* keys "partner:route"
    Status,    \* status codes
    TopN       \* the length of the ranking, 10

ASSUME AggregatorAssumption == Status \subseteq Nat /\ TopN \in Nat

VARIABLES
    total,      \* requests of the current window
    errors,     \* those that failed
    consumers,  \* consumer -> its requests, for the consumers of the window
    windows,    \* the snapshots taken, in order
    recorded    \* history: the requests recorded, in order, each with its window

aggregatorVars == <<total, errors, consumers, windows, recorded>>

InitAggregator ==
    /\ total = 0 /\ errors = 0
    /\ consumers = <<>>
    /\ windows = <<>>
    /\ recorded = <<>>

Failed(code) == code >= 400

Record(k, code) ==
    /\ total' = total + 1
    /\ errors' = IF Failed(code) THEN errors + 1 ELSE errors
    /\ consumers' = [x \in DOMAIN consumers \cup {k} |->
            (IF x \in DOMAIN consumers THEN consumers[x] ELSE 0) + (IF x = k THEN 1 ELSE 0)]
    /\ recorded' = Append(recorded,
            [consumer |-> k, code |-> code, window |-> Len(windows) + 1])
    /\ UNCHANGED windows

\* The consumers by requests, the busiest first; equal ones in any order.
FaultyRankings == SetToSeqs(DOMAIN consumers)
Rankings ==
    {s \in SetToSeqs(DOMAIN consumers) :
        \A i, j \in DOMAIN s : i < j => consumers[s[i]] >= consumers[s[j]]}

\* A snapshot with the first TopN of a ranking.
Window(ranking) ==
    [total |-> total, errors |-> errors,
     top |-> [i \in 1 .. Min({TopN, Len(ranking)}) |->
                [consumer |-> ranking[i], requests |-> consumers[ranking[i]]]]]

\* The counters are reset in the same critical section.
FaultyReset == total' = 0 /\ errors' = 0 /\ consumers' = consumers
Reset == total' = 0 /\ errors' = 0 /\ consumers' = <<>>

Snapshot ==
    /\ \E ranking \in Rankings : windows' = Append(windows, Window(ranking))
    /\ Reset
    /\ UNCHANGED recorded

-----------------------------------------------------------------------------
(* Properties *)

\* The requests recorded between two snapshots, the (n-1)-th and the n-th.
InWindow(n) == {i \in DOMAIN recorded : recorded[i].window = n}
FailedIn(n) == {i \in InWindow(n) : Failed(recorded[i].code)}
Of(k, n) == {i \in InWindow(n) : recorded[i].consumer = k}

\* However Record and Snapshot alternate, a snapshot counts the requests recorded
\* since the one before it, and no other: all of them, those that failed, and for
\* each consumer it ranks its own.  The counters hold those of the window that is
\* open, so every request is counted in exactly one.
CountsItsRequests(n) ==
    LET w == windows[n]
    IN  /\ w.total = Cardinality(InWindow(n))
        /\ w.errors = Cardinality(FailedIn(n))
        /\ \A i \in DOMAIN w.top : w.top[i].requests = Cardinality(Of(w.top[i].consumer, n))
EveryRequestInOneWindow ==
    LET open == Len(windows) + 1
    IN  /\ DOMAIN recorded = UNION {InWindow(n) : n \in 1 .. open}
        /\ \A n \in DOMAIN windows : CountsItsRequests(n)
        /\ total = Cardinality(InWindow(open))
        /\ errors = Cardinality(FailedIn(open))
        /\ DOMAIN consumers = {recorded[i].consumer : i \in InWindow(open)}
        /\ \A k \in DOMAIN consumers : consumers[k] = Cardinality(Of(k, open))

\* A snapshot ranks consumers of its window, each once and with its own requests,
\* the busiest first; at most TopN, it leaves one out only if it ranks TopN, and
\* none that had more requests than one it ranks.
BusiestAreRanked ==
    [][Len(windows') > Len(windows) =>
        LET top == windows'[Len(windows')].top
            ranked == {top[i].consumer : i \in DOMAIN top}
            leftOut == DOMAIN consumers \ ranked
        IN  /\ ranked \subseteq DOMAIN consumers
            /\ \A i \in DOMAIN top : top[i].requests = consumers[top[i].consumer]
            /\ \A i, j \in DOMAIN top : i < j =>
                    top[i].consumer # top[j].consumer /\ top[i].requests >= top[j].requests
            /\ Len(top) <= TopN
            /\ leftOut # {} => Len(top) = TopN
            /\ \A k \in leftOut : \A i \in DOMAIN top :
                    consumers[k] <= top[i].requests]_aggregatorVars

=============================================================================
