-------------------------------- MODULE Hub --------------------------------
(***************************************************************************)
(* The websocket hub (internal/wshub/hub.go).  Each client has two         *)
(* goroutines, ServeWS/readPump and writePump, and a buffered channel that *)
(* Broadcast fills under the hub's lock without ever waiting.  The map of  *)
(* clients is changed only under the lock, the channel is read outside it, *)
(* and three places may close a connection.                                *)
(*                                                                         *)
(* An operator named Faulty... is a wrong version of the definition after  *)
(* it, kept to show that the properties notice it; nothing uses it.        *)
(***************************************************************************)
EXTENDS Integers, Sequences, FiniteSets

CONSTANTS
    Client,        \* connections that may be made
    Cap,           \* capacity of client.send, 16
    MaxBroadcasts  \* bound on the number of broadcasts

ASSUME HubAssumption == Cap \in Nat \ {0} /\ MaxBroadcasts \in Nat

VARIABLES
    clients,     \* Hub.clients
    buffer,      \* the messages in client.send
    closes,      \* how often client.send was closed
    conn,        \* the gateway's side of the connection: "none", "open", "closed"
    peer,        \* the other side: "reading", "stalled" or "gone"
    reader,      \* the goroutine of ServeWS and readPump
    writer,      \* the goroutine of writePump
    hand,        \* the message writePump has taken and not yet written
    closing,     \* connections a goroutine started by Broadcast will close
    gauge,       \* metrics.WSClientsConnected
    broadcasts,  \* number of broadcasts so far; the n-th message is n
    joined,      \* history: broadcasts when the client registered
    delivered    \* history: the messages written to the client

vars == <<clients, buffer, closes, conn, peer, reader, writer, hand, closing, gauge,
          broadcasts, joined, delivered>>

Closed(c) == closes[c] > 0

-----------------------------------------------------------------------------

Init ==
    /\ clients = {} /\ closing = {}
    /\ gauge = 0 /\ broadcasts = 0
    /\ buffer = [c \in Client |-> <<>>]
    /\ closes = [c \in Client |-> 0]
    /\ conn = [c \in Client |-> "none"]
    /\ peer = [c \in Client |-> "reading"]
    /\ reader = [c \in Client |-> "none"]
    /\ writer = [c \in Client |-> "none"]
    /\ hand = [c \in Client |-> <<>>]
    /\ joined = [c \in Client |-> 0]
    /\ delivered = [c \in Client |-> <<>>]

\* ServeWS: the connection is upgraded, the client registered under the lock.
Register(c) ==
    /\ reader[c] = "none"
    /\ reader' = [reader EXCEPT ![c] = "registered"]
    /\ conn' = [conn EXCEPT ![c] = "open"]
    /\ clients' = clients \cup {c}
    /\ joined' = [joined EXCEPT ![c] = broadcasts]
    /\ UNCHANGED <<buffer, closes, peer, writer, hand, closing, gauge, broadcasts, delivered>>

\* Then, outside the lock: the gauge, writePump and readPump.
StartPumps(c) ==
    /\ reader[c] = "registered"
    /\ reader' = [reader EXCEPT ![c] = "reading"]
    /\ writer' = [writer EXCEPT ![c] = "waiting"]
    /\ gauge' = gauge + 1
    /\ UNCHANGED <<clients, buffer, closes, conn, peer, hand, closing, broadcasts, joined, delivered>>

-----------------------------------------------------------------------------
(* Broadcast: one critical section.  A client whose buffer is full is dropped. *)

FaultyHasRoom(c) == TRUE
HasRoom(c) == Len(buffer[c]) < Cap

\* The clients the message cannot be given to.
FaultyDropped == {}
Dropped == {c \in clients : ~HasRoom(c)}

Broadcast ==
    /\ broadcasts < MaxBroadcasts
    /\ broadcasts' = broadcasts + 1
    /\ buffer' = [c \in Client |->
            IF c \in clients /\ HasRoom(c) THEN Append(buffer[c], broadcasts') ELSE buffer[c]]
    /\ clients' = clients \ Dropped
    /\ closes' = [c \in Client |-> IF c \in Dropped THEN closes[c] + 1 ELSE closes[c]]
    /\ closing' = closing \cup Dropped
    /\ UNCHANGED <<conn, peer, reader, writer, hand, gauge, joined, delivered>>

\* go conn.Close()
FaultyCloseDropped(c) == FALSE /\ UNCHANGED vars
CloseDropped(c) ==
    /\ c \in closing
    /\ closing' = closing \ {c}
    /\ conn' = [conn EXCEPT ![c] = "closed"]
    /\ UNCHANGED <<clients, buffer, closes, peer, reader, writer, hand, gauge, broadcasts, joined,
                   delivered>>

-----------------------------------------------------------------------------
(* readPump and disconnect *)

\* ReadMessage fails: the panel closed, vanished or sent too much ("gone"), or
\* the connection was closed on this side.
ReadFails(c) ==
    /\ reader[c] = "reading"
    /\ conn[c] = "closed" \/ peer[c] = "gone"
    /\ reader' = [reader EXCEPT ![c] = "leaving"]
    /\ UNCHANGED <<clients, buffer, closes, conn, peer, writer, hand, closing, gauge, broadcasts,
                   joined, delivered>>

\* Under the lock: the channel is closed unless Broadcast has done it.
FaultyUnregisters(c) == TRUE
Unregisters(c) == c \in clients

Unregister(c) ==
    /\ reader[c] = "leaving"
    /\ reader' = [reader EXCEPT ![c] = "left"]
    /\ clients' = clients \ {c}
    /\ closes' = [closes EXCEPT ![c] = IF Unregisters(c) THEN @ + 1 ELSE @]
    /\ UNCHANGED <<buffer, conn, peer, writer, hand, closing, gauge, broadcasts, joined, delivered>>

\* Outside the lock.
FaultyCountedDown == gauge
CountedDown == gauge - 1

Leave(c) ==
    /\ reader[c] = "left"
    /\ reader' = [reader EXCEPT ![c] = "ended"]
    /\ gauge' = CountedDown
    /\ conn' = [conn EXCEPT ![c] = "closed"]
    /\ UNCHANGED <<clients, buffer, closes, peer, writer, hand, closing, broadcasts, joined, delivered>>

-----------------------------------------------------------------------------
(* writePump *)

Take(c) ==
    /\ writer[c] = "waiting"
    /\ buffer[c] # <<>>
    /\ hand' = [hand EXCEPT ![c] = <<Head(buffer[c])>>]
    /\ buffer' = [buffer EXCEPT ![c] = Tail(@)]
    /\ writer' = [writer EXCEPT ![c] = "writing"]
    /\ UNCHANGED <<clients, closes, conn, peer, reader, closing, gauge, broadcasts, joined, delivered>>

\* A write succeeds if the panel reads, and may if it has gone; while the panel
\* stalls it waits, for there is no deadline.
Write(c) ==
    /\ writer[c] = "writing"
    /\ conn[c] = "open" /\ peer[c] # "stalled"
    /\ delivered' = [delivered EXCEPT ![c] = @ \o hand[c]]
    /\ hand' = [hand EXCEPT ![c] = <<>>]
    /\ writer' = [writer EXCEPT ![c] = "waiting"]
    /\ UNCHANGED <<clients, buffer, closes, conn, peer, reader, closing, gauge, broadcasts, joined>>

\* A message or a ping cannot be written: writePump ends, and leaves the client
\* registered.
WriteFails(c) ==
    /\ writer[c] \in {"waiting", "writing"}
    /\ conn[c] = "closed" \/ peer[c] = "gone"
    /\ writer' = [writer EXCEPT ![c] = "ended"]
    /\ UNCHANGED <<clients, buffer, closes, conn, peer, reader, hand, closing, gauge, broadcasts,
                   joined, delivered>>

\* The channel is closed and drained: a close frame is written, or fails, and
\* writePump ends.
Drained(c) ==
    /\ writer[c] = "waiting"
    /\ buffer[c] = <<>> /\ Closed(c)
    /\ conn[c] = "closed" \/ peer[c] # "stalled"
    /\ writer' = [writer EXCEPT ![c] = "ended"]
    /\ UNCHANGED <<clients, buffer, closes, conn, peer, reader, hand, closing, gauge, broadcasts,
                   joined, delivered>>

-----------------------------------------------------------------------------
(* The clients *)

\* A panel stops reading, without its connection failing, or goes on.
Stall(c) ==
    /\ conn[c] = "open" /\ peer[c] # "gone"
    /\ peer' = [peer EXCEPT ![c] = IF @ = "reading" THEN "stalled" ELSE "reading"]
    /\ UNCHANGED <<clients, buffer, closes, conn, reader, writer, hand, closing, gauge, broadcasts,
                   joined, delivered>>

\* A panel closes, or its connection breaks.
Vanish(c) ==
    /\ conn[c] = "open" /\ peer[c] # "gone"
    /\ peer' = [peer EXCEPT ![c] = "gone"]
    /\ UNCHANGED <<clients, buffer, closes, conn, reader, writer, hand, closing, gauge, broadcasts,
                   joined, delivered>>

-----------------------------------------------------------------------------

\* What the goroutines of a client do once started.
Goroutine(c) ==
    \/ StartPumps(c)
    \/ CloseDropped(c)
    \/ ReadFails(c) \/ Unregister(c) \/ Leave(c)
Pump(c) == Take(c) \/ Write(c) \/ WriteFails(c) \/ Drained(c)

ClientStep(c) == Register(c) \/ Goroutine(c) \/ Pump(c) \/ Stall(c) \/ Vanish(c)

Next == Broadcast \/ \E c \in Client : ClientStep(c)

\* Goroutines are scheduled, and a write to a panel that reads completes.
\* Nothing is assumed of the panels, nor of when they come.
Fairness == \A c \in Client : WF_vars(Goroutine(c)) /\ WF_vars(Pump(c))

Spec == Init /\ [][Next]_vars
FairSpec == Spec /\ Fairness

-----------------------------------------------------------------------------
(* Properties *)

\* The variables have their types, and no channel holds more than its capacity.
TypeOK ==
    /\ clients \subseteq Client /\ closing \subseteq Client
    /\ gauge \in Int /\ broadcasts \in Nat
    /\ buffer \in [Client -> Seq(Nat)] /\ \A c \in Client : Len(buffer[c]) <= Cap
    /\ closes \in [Client -> Nat]
    /\ conn \in [Client -> {"none", "open", "closed"}]
    /\ peer \in [Client -> {"reading", "stalled", "gone"}]
    /\ reader \in [Client -> {"none", "registered", "reading", "leaving", "left", "ended"}]
    /\ writer \in [Client -> {"none", "waiting", "writing", "ended"}]
    /\ hand \in [Client -> Seq(Nat)]
    /\ joined \in [Client -> Nat]
    /\ delivered \in [Client -> Seq(Nat)]

\* Neither Broadcast nor disconnect ever panics: a channel is closed at most
\* once, and no registered client has a closed channel to send on.
ChannelsSafe ==
    \A c \in Client : closes[c] <= 1 /\ (c \in clients => closes[c] = 0)

\* The hub keeps the promise of Feed: a panel is written the snapshots broadcast
\* while it was registered, in order and without a gap, and a broadcast drops the
\* panels that are a buffer behind, and waits for none.  What is meant for a panel
\* is what it was written, what writePump holds and what waits.
Phase(c) ==
    IF reader[c] = "none" THEN "new" ELSE IF c \in clients THEN "subscribed" ELSE "left"
Promise == INSTANCE Feed WITH
    phase <- [c \in Client |-> Phase(c)],
    published <- broadcasts,
    from <- joined,
    until <- [c \in Client |->
                joined[c] + Len(delivered[c]) + Len(hand[c]) + Len(buffer[c])],
    received <- delivered
KeepsFeed == Promise!Spec

\* The gauge and the map are changed apart, and agree whenever no goroutine is
\* between the two.
GaugeAgrees ==
    (\A c \in Client : reader[c] \in {"none", "reading", "ended"} /\ (reader[c] = "reading" => c \in clients))
        => gauge = Cardinality(clients)

\* No client leaks: one that was dropped, or whose panel went away, has both its
\* goroutines ended and its connection closed in the end, and is not registered.
Released(c) ==
    /\ c \notin clients
    /\ reader[c] = "ended" /\ writer[c] = "ended" /\ conn[c] = "closed"
NoLeaks ==
    \A c \in Client : conn[c] # "none" /\ (Closed(c) \/ peer[c] = "gone") ~> Released(c)

=============================================================================
