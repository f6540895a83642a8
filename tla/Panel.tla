-------------------------------- MODULE Panel --------------------------------
(***************************************************************************)
(* The panel's side of the live metrics                                    *)
(* (frontend/composables/useMetricsSocket.ts).  Each visit to the page     *)
(* calls the composable anew: it connects, and 2 s after a close it        *)
(* connects again, for the gateway may restart or drop a slow panel.  The  *)
(* browser delivers the events of a socket one at a time, and a socket     *)
(* that is told to close says so later.                                    *)
(*                                                                         *)
(* An operator named Faulty... is a wrong version of the definition after  *)
(* it, kept to show that the properties notice it; nothing uses it.        *)
(***************************************************************************)
EXTENDS Integers

CONSTANTS
    Visit,       \* visits to the page, one composable each
    MaxTrouble   \* bound on the stops of the gateway and the connections that break

ASSUME PanelAssumption == MaxTrouble \in Nat

VARIABLES
    page,       \* "new", "mounted" or "unmounted"
    socket,     \* "none", "connecting", "open", "closing" or "closed"
    timer,      \* reconnectTimer: "null", "armed", or "stale" when it will not fire
    connected,  \* the flag the page shows
    up,         \* the gateway accepts connections
    trouble,    \* number of stops and breaks
    resting     \* history: visits that ended when their socket was closed

vars == <<page, socket, timer, connected, up, trouble, resting>>

Init ==
    /\ page = [v \in Visit |-> "new"]
    /\ socket = [v \in Visit |-> "none"]
    /\ timer = [v \in Visit |-> "null"]
    /\ connected = [v \in Visit |-> FALSE]
    /\ up \in BOOLEAN
    /\ trouble = 0 /\ resting = {}

Live(v) == socket[v] \in {"connecting", "open"}

-----------------------------------------------------------------------------
(* The page *)

\* onMounted; another visit begins when the page was left.
Mount(v) ==
    /\ page[v] = "new"
    /\ \A w \in Visit : page[w] # "mounted"
    /\ page' = [page EXCEPT ![v] = "mounted"]
    /\ socket' = [socket EXCEPT ![v] = "connecting"]
    /\ UNCHANGED <<timer, connected, up, trouble, resting>>

\* onBeforeUnmount: the timer is cleared, though its handle is kept, and the
\* socket closed.
FaultyCleared(v) == timer[v]
Cleared(v) == IF timer[v] = "armed" THEN "stale" ELSE timer[v]
Unmount(v) ==
    /\ page[v] = "mounted"
    /\ page' = [page EXCEPT ![v] = "unmounted"]
    /\ timer' = [timer EXCEPT ![v] = Cleared(v)]
    /\ socket' = [socket EXCEPT ![v] = IF Live(v) THEN "closing" ELSE @]
    /\ resting' = IF socket[v] = "closed" THEN resting \cup {v} ELSE resting
    /\ UNCHANGED <<connected, up, trouble>>

-----------------------------------------------------------------------------
(* The events of its socket and its timer *)

OnOpen(v) ==
    /\ socket[v] = "connecting" /\ up
    /\ socket' = [socket EXCEPT ![v] = "open"]
    /\ connected' = [connected EXCEPT ![v] = TRUE]
    /\ UNCHANGED <<page, timer, up, trouble, resting>>

\* onclose, perhaps after an onerror that closes what is closed: a timer is set
\* unless there is one, whether or not the page is still there.
Scheduled(v) == IF timer[v] = "null" THEN "armed" ELSE timer[v]
OnClose(v) ==
    /\ socket[v] = "closing" \/ (Live(v) /\ ~up)
    /\ socket' = [socket EXCEPT ![v] = "closed"]
    /\ connected' = [connected EXCEPT ![v] = FALSE]
    /\ timer' = [timer EXCEPT ![v] = Scheduled(v)]
    /\ UNCHANGED <<page, up, trouble, resting>>

\* The callback of the timer.
FaultyFired == "stale"   \* reconnectTimer is not reset
Fired == "null"
Reconnect(v) ==
    /\ timer[v] = "armed"
    /\ timer' = [timer EXCEPT ![v] = Fired]
    /\ socket' = [socket EXCEPT ![v] = "connecting"]
    /\ UNCHANGED <<page, connected, up, trouble, resting>>

-----------------------------------------------------------------------------
(* The gateway and the network *)

\* A connection breaks, is refused, or is closed by the hub.
Break(v) ==
    /\ Live(v)
    /\ trouble < MaxTrouble /\ trouble' = trouble + 1
    /\ socket' = [socket EXCEPT ![v] = "closing"]
    /\ UNCHANGED <<page, timer, connected, up, resting>>

Stop ==
    /\ up /\ up' = FALSE
    /\ trouble < MaxTrouble /\ trouble' = trouble + 1
    /\ UNCHANGED <<page, socket, timer, connected, resting>>

Start == ~up /\ up' = TRUE /\ UNCHANGED <<page, socket, timer, connected, trouble, resting>>

Events(v) == OnOpen(v) \/ OnClose(v) \/ Reconnect(v)

Next ==
    \/ Stop \/ Start
    \/ \E v \in Visit : Mount(v) \/ Unmount(v) \/ Events(v) \/ Break(v)

\* The browser runs timers and delivers events; nothing is assumed of the gateway
\* nor of whoever looks at the page.
Fairness == \A v \in Visit : WF_vars(Events(v))

Spec == Init /\ [][Next]_vars /\ Fairness

-----------------------------------------------------------------------------
(* Properties *)

\* The page needs no reload: while it stays open and the gateway stays up it is
\* connected in the end, however often the connection was lost before.
ReconnectsInTheEnd ==
    \A v \in Visit : <>[](page[v] = "mounted" /\ up) => <>[](connected[v] /\ socket[v] = "open")

\* A page that is left while it waits to reconnect never connects again, whatever
\* happens to the gateway.  (One that is left while it is connected does.)
LeavesWhenWaiting == \A v \in resting : socket[v] = "closed"

=============================================================================
