---------------------------- MODULE LiveMetrics ----------------------------
(***************************************************************************)
(* The live metrics from end to end: gateway handlers record requests in   *)
(* the aggregator, the broadcast loop of cmd/gateway/main.go takes a       *)
(* snapshot and gives it to the hub, the hub gives it to the panels.  The  *)
(* n-th message of Hub is the n-th snapshot of Aggregator.                 *)
(***************************************************************************)
EXTENDS Hub, Aggregator

CONSTANT MaxRecords   \* bound on the number of requests

liveVars == <<vars, aggregatorVars>>

InitLive == Init /\ InitAggregator

RecordRequest ==
    /\ Len(recorded) < MaxRecords
    /\ \E k \in Consumer, code \in Status : Record(k, code)
    /\ UNCHANGED vars

\* The loop evaluates aggregator.Snapshot(10) ...
TakeSnapshot ==
    /\ Len(windows) = broadcasts
    /\ broadcasts < MaxBroadcasts
    /\ Snapshot
    /\ UNCHANGED vars

\* ... and then calls hub.Broadcast with it: requests may be recorded between.
BroadcastSnapshot ==
    /\ Len(windows) = broadcasts + 1
    /\ Broadcast
    /\ UNCHANGED aggregatorVars

NextLive ==
    \/ RecordRequest \/ TakeSnapshot \/ BroadcastSnapshot
    \/ \E c \in Client : ClientStep(c) /\ UNCHANGED aggregatorVars

SpecLive == InitLive /\ [][NextLive]_liveVars

-----------------------------------------------------------------------------
(* Properties *)

\* A registered panel misses no request: each one is counted in exactly one of the
\* windows before it came, of the snapshots it was or will be sent, and of one not
\* yet broadcast, or is in the window that is still open.
PanelMissesNothing ==
    \A c \in clients :
        LET before == [n \in 1 .. joined[c] |-> n]
            its == delivered[c] \o hand[c] \o buffer[c]
            next == IF Len(windows) > broadcasts THEN <<Len(windows)>> ELSE <<>>
            all == before \o its \o next
        IN  \A i \in DOMAIN recorded :
                LET w == recorded[i].window
                IN  Cardinality({j \in DOMAIN all : all[j] = w}) =
                        IF w <= Len(windows) THEN 1 ELSE 0

=============================================================================
