---------------------------- MODULE PanelProofs -----------------------------
(***************************************************************************)
(* Proof about the panel's connections, for any visits to the page and any *)
(* troubles of the gateway.                                                *)
(***************************************************************************)
EXTENDS Panel, TLAPS

Types ==
    /\ page \in [Visit -> {"new", "mounted", "unmounted"}]
    /\ socket \in [Visit -> {"none", "connecting", "open", "closing", "closed"}]
    /\ timer \in [Visit -> {"null", "armed", "stale"}]
    /\ resting \subseteq Visit

\* A visit at rest has nothing left that would connect: it is not mounted again,
\* its timer does not fire, and its socket has no event to come.
RestingInv ==
    /\ Types
    /\ \A v \in resting : page[v] = "unmounted" /\ socket[v] = "closed" /\ timer[v] # "armed"

\* A step of one visit leaves the others as they are.
LEMMA VisitKeepsRest ==
    ASSUME RestingInv, NEW v \in Visit, Mount(v) \/ Unmount(v) \/ Events(v) \/ Break(v)
    PROVE  RestingInv'
<1>1. CASE Mount(v)
    BY <1>1 DEF Mount, RestingInv, Types
<1>2. CASE Unmount(v)
    BY <1>2 DEF Unmount, Cleared, Live, RestingInv, Types
<1>3. CASE OnOpen(v)
    BY <1>3 DEF OnOpen, RestingInv, Types
<1>4. CASE OnClose(v)
    BY <1>4 DEF OnClose, Scheduled, Live, RestingInv, Types
<1>5. CASE Reconnect(v)
    BY <1>5 DEF Reconnect, Fired, RestingInv, Types
<1>6. CASE Break(v)
    BY <1>6 DEF Break, Live, RestingInv, Types
<1>7. QED  BY <1>1, <1>2, <1>3, <1>4, <1>5, <1>6 DEF Events

\* A page left while it waits to reconnect leaves no connection behind, however
\* often the gateway stops and starts before and after: onBeforeUnmount clears the
\* timer, and nothing else would connect.
THEOREM LeftPagesStayClosed == Spec => []LeavesWhenWaiting
<1>1. Init => RestingInv
    BY DEF Init, RestingInv, Types
<1>2. RestingInv /\ [Next]_vars => RestingInv'
    <2> SUFFICES ASSUME RestingInv, [Next]_vars PROVE RestingInv'
        OBVIOUS
    <2>1. CASE Stop \/ Start \/ UNCHANGED vars
        BY <2>1 DEF Stop, Start, vars, RestingInv, Types
    <2>2. CASE \E v \in Visit : Mount(v) \/ Unmount(v) \/ Events(v) \/ Break(v)
        BY <2>2, VisitKeepsRest
    <2>3. QED  BY <2>1, <2>2 DEF Next
<1>3. RestingInv => LeavesWhenWaiting
    BY DEF RestingInv, LeavesWhenWaiting
<1>4. QED  BY <1>1, <1>2, <1>3, PTL DEF Spec
=============================================================================
