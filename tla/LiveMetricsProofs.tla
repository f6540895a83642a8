------------------------- MODULE LiveMetricsProofs --------------------------
(***************************************************************************)
(* Proofs about the hub, for any set of clients, any capacity and any      *)
(* number of broadcasts; about the live statistics, for any requests and   *)
(* windows; and about the two together.                                    *)
(***************************************************************************)
EXTENDS LiveMetrics, SequenceTheorems, FiniteSetTheorems, TLAPS

-----------------------------------------------------------------------------
(* The channels *)

\* Why no channel is closed twice: the map says who may close it.  A client is in
\* it only after its reader has registered it and until its reader has left, and
\* its channel is open as long as it is there; a channel is open, too, before its
\* client is registered.
ChannelInv(c) ==
    /\ closes[c] \in {0, 1}
    /\ c \in clients => closes[c] = 0 /\ reader[c] \in {"registered", "reading", "leaving"}
    /\ reader[c] = "none" => closes[c] = 0

HubInv ==
    /\ closes \in [Client -> {0, 1}]
    /\ reader \in [Client -> {"none", "registered", "reading", "leaving", "left", "ended"}]
    /\ clients \subseteq Client
    /\ \A c \in Client : ChannelInv(c)

\* The actions that leave the map, the channels' states and the readers alone.
LEMMA OthersKeepChannels ==
    HubInv /\ UNCHANGED <<clients, closes, reader>> => HubInv'
BY DEF HubInv, ChannelInv

\* A step of one client.
LEMMA ClientStepKeepsChannels ==
    ASSUME HubInv, NEW c \in Client, ClientStep(c)
    PROVE  HubInv'
<1>1. CASE Register(c)
    BY <1>1 DEF HubInv, ChannelInv, Register
<1>2. CASE StartPumps(c) \/ ReadFails(c) \/ Leave(c)
    BY <1>2 DEF HubInv, ChannelInv, StartPumps, ReadFails, Leave
<1>3. CASE Unregister(c)
    BY <1>3 DEF HubInv, ChannelInv, Unregister, Unregisters
<1>4. CASE CloseDropped(c) \/ Pump(c) \/ Stall(c) \/ Vanish(c)
    <2>1. UNCHANGED <<clients, closes, reader>>
        BY <1>4 DEF CloseDropped, Pump, Take, Write, WriteFails, Drained, Stall, Vanish
    <2>2. QED  BY <2>1, OthersKeepChannels
<1>5. QED  BY <1>1, <1>2, <1>3, <1>4 DEF ClientStep, Goroutine

\* Every step of the hub keeps the invariant.
LEMMA StepKeepsChannels == HubInv /\ [Next]_vars => HubInv'
<1> SUFFICES ASSUME HubInv, [Next]_vars PROVE HubInv'
    OBVIOUS
<1>1. CASE Broadcast
    BY <1>1 DEF HubInv, ChannelInv, Broadcast, Dropped
<1>2. CASE \E c \in Client : ClientStep(c)
    BY <1>2, ClientStepKeepsChannels
<1>3. CASE UNCHANGED vars
    BY <1>3, OthersKeepChannels DEF vars
<1>4. QED  BY <1>1, <1>2, <1>3 DEF Next

\* The map says of every channel whether it is open.
LEMMA HubInvariant == Spec => []HubInv
<1>1. Init => HubInv
    BY DEF Init, HubInv, ChannelInv
<1>2. QED  BY <1>1, StepKeepsChannels, PTL DEF Spec

\* Neither Broadcast nor disconnect ever closes a channel that is closed, nor
\* does Broadcast send on one, whoever leaves, is dropped or comes meanwhile.
THEOREM ChannelsAlwaysSafe == Spec => []ChannelsSafe
<1>1. HubInv => ChannelsSafe
    BY DEF HubInv, ChannelInv, ChannelsSafe
<1>2. QED  BY <1>1, HubInvariant, PTL

-----------------------------------------------------------------------------
(* The hub keeps the promise of Feed. *)

\* The last message meant for a client, as in the mapping.
LastMeant(c) == joined[c] + Len(delivered[c]) + Len(hand[c]) + Len(buffer[c])

\* The messages a client was written, the one writePump holds and those in the
\* channel carry consecutive numbers from the one after it joined, up to the last
\* broadcast as long as it is registered.
InSequence(c) ==
    /\ hand[c] # <<>> => hand[c] = <<joined[c] + Len(delivered[c]) + 1>>
    /\ \A i \in 1..Len(buffer[c]) :
            buffer[c][i] = joined[c] + Len(delivered[c]) + Len(hand[c]) + i
    /\ c \in clients => LastMeant(c) = broadcasts

\* Where the goroutines of a client are, and what they hold there.
InPlace(c) ==
    /\ Len(buffer[c]) <= Cap
    /\ writer[c] \in {"none", "waiting"} => hand[c] = <<>>
    /\ writer[c] = "writing" => hand[c] # <<>>
    /\ reader[c] \in {"none", "registered"} => writer[c] = "none"
    /\ reader[c] = "none" => c \notin clients /\ joined[c] = 0 /\ delivered[c] = <<>> /\ buffer[c] = <<>>

QueueTypes ==
    /\ clients \subseteq Client
    /\ broadcasts \in Nat
    /\ buffer \in [Client -> Seq(Nat)]
    /\ hand \in [Client -> Seq(Nat)]
    /\ delivered \in [Client -> Seq(Nat)]
    /\ joined \in [Client -> Nat]
    /\ reader \in [Client -> {"none", "registered", "reading", "leaving", "left", "ended"}]
    /\ writer \in [Client -> {"none", "waiting", "writing", "ended"}]

QueueInv == QueueTypes /\ \A c \in Client : InSequence(c) /\ InPlace(c)

\* What the two invariants and the mapping are about.
queueVars == <<clients, broadcasts, buffer, hand, delivered, joined, reader, writer>>

\* The four numbers LastMeant is the sum of.
LEMMA Counts ==
    ASSUME QueueInv, NEW c \in Client
    PROVE  \E j \in Nat, d \in Nat, h \in Nat, b \in Nat :
                /\ j = joined[c] /\ d = Len(delivered[c]) /\ h = Len(hand[c]) /\ b = Len(buffer[c])
BY DEF QueueInv, QueueTypes

\* A step that touches no queue keeps the queues.
LEMMA OthersKeepQueues ==
    QueueInv /\ UNCHANGED queueVars => QueueInv'
BY DEF QueueInv, QueueTypes, InSequence, InPlace, LastMeant, queueVars

\* A broadcast goes to the end of every queue with room; the others are cut.
LEMMA BroadcastKeepsQueues ==
    ASSUME QueueInv, Broadcast
    PROVE  QueueInv'
<1>1. QueueTypes'
    <2>1. \A c \in Client : Append(buffer[c], broadcasts') \in Seq(Nat)
        BY DEF QueueInv, QueueTypes, Broadcast
    <2>2. QED  BY <2>1 DEF QueueInv, QueueTypes, Broadcast
<1>2. ASSUME NEW c \in Client PROVE InSequence(c)' /\ InPlace(c)'
    <2>1. CASE c \in clients /\ HasRoom(c)
        <3>1. buffer'[c] = Append(buffer[c], broadcasts + 1)
            BY <2>1 DEF Broadcast
        <3>2. /\ Len(buffer'[c]) = Len(buffer[c]) + 1
              /\ buffer'[c][Len(buffer[c]) + 1] = broadcasts + 1
              /\ \A i \in 1..Len(buffer[c]) : buffer'[c][i] = buffer[c][i]
              /\ Len(buffer[c]) \in Nat
            BY <3>1 DEF QueueInv, QueueTypes
        <3>3. /\ hand'[c] = hand[c] /\ delivered'[c] = delivered[c] /\ joined'[c] = joined[c]
              /\ writer'[c] = writer[c] /\ reader'[c] = reader[c] /\ broadcasts' = broadcasts + 1
              /\ joined[c] \in Nat /\ Len(delivered[c]) \in Nat /\ Len(hand[c]) \in Nat
              /\ broadcasts \in Nat
            BY DEF QueueInv, QueueTypes, Broadcast
        <3>4. InSequence(c) /\ LastMeant(c) = broadcasts
            BY <2>1 DEF QueueInv, InSequence
        <3>5. InSequence(c)'
            <4>1. PICK j \in Nat, d \in Nat, h \in Nat, b \in Nat :
                    j = joined[c] /\ d = Len(delivered[c]) /\ h = Len(hand[c]) /\ b = Len(buffer[c])
                BY Counts
            <4>2. broadcasts = j + d + h + b /\ Len(buffer'[c]) = b + 1
                BY <3>2, <3>4, <4>1 DEF LastMeant
            <4>3. ASSUME NEW i \in 1..(b + 1)
                  PROVE  buffer'[c][i] = j + d + h + i
                <5>1. CASE i = b + 1
                    <6>1. buffer'[c][i] = broadcasts + 1
                        BY <5>1, <3>2, <4>1
                    <6>2. QED  BY <5>1, <6>1, <4>2
                <5>2. CASE i \in 1..b
                    BY <5>2, <3>2, <3>4, <4>1 DEF InSequence
                <5>3. QED  BY <5>1, <5>2
            <4>4. LastMeant(c)' = j + d + h + (b + 1)
                BY <3>3, <4>1, <4>2 DEF LastMeant
            <4>5. LastMeant(c)' = broadcasts'
                BY <3>3, <4>2, <4>4
            <4>6. hand[c] # <<>> => hand[c] = <<joined[c] + Len(delivered[c]) + 1>>
                BY <3>4 DEF InSequence
            <4>7. QED  BY <3>3, <4>1, <4>2, <4>3, <4>5, <4>6 DEF InSequence
        <3>6. Len(buffer'[c]) <= Cap
            BY <2>1, <3>2, HubAssumption DEF HasRoom
        <3>7. InPlace(c) /\ c \in clients  BY <2>1 DEF QueueInv
        <3>8. InPlace(c)'
            BY <3>3, <3>6, <3>7 DEF InPlace
        <3>9. QED  BY <3>5, <3>8
    <2>2. CASE ~(c \in clients /\ HasRoom(c))
        <3>1. buffer'[c] = buffer[c] /\ c \notin clients'
            BY <2>2 DEF Broadcast, Dropped
        <3>2. /\ hand'[c] = hand[c] /\ delivered'[c] = delivered[c] /\ joined'[c] = joined[c]
              /\ writer'[c] = writer[c] /\ reader'[c] = reader[c]
            BY DEF Broadcast
        <3>3. InSequence(c) /\ InPlace(c)  BY DEF QueueInv
        <3>4. InSequence(c)'  BY <3>1, <3>2, <3>3 DEF InSequence
        <3>5. InPlace(c)'  BY <3>1, <3>2, <3>3 DEF InPlace
        <3>6. QED  BY <3>4, <3>5
    <2>3. QED  BY <2>1, <2>2
<1>3. QED  BY <1>1, <1>2 DEF QueueInv

\* A step of one client leaves the queues of the others alone.
LEMMA ClientStepIsLocal ==
    ASSUME QueueInv, NEW c \in Client, ClientStep(c), NEW d \in Client, d # c
    PROVE  InSequence(d)' /\ InPlace(d)'
<1>1. /\ UNCHANGED <<broadcasts>>
      /\ buffer'[d] = buffer[d] /\ hand'[d] = hand[d] /\ delivered'[d] = delivered[d]
      /\ joined'[d] = joined[d] /\ reader'[d] = reader[d] /\ writer'[d] = writer[d]
      /\ d \in clients' <=> d \in clients
    <2>1. CASE Goroutine(c)
        BY <2>1 DEF QueueInv, QueueTypes, Goroutine, StartPumps, CloseDropped, ReadFails, Unregister, Leave
    <2>2. CASE Pump(c)
        BY <2>2 DEF QueueInv, QueueTypes, Pump, Take, Write, WriteFails, Drained
    <2>3. CASE Register(c) \/ Stall(c) \/ Vanish(c)
        BY <2>3 DEF QueueInv, QueueTypes, Register, Stall, Vanish
    <2>4. QED  BY <2>1, <2>2, <2>3 DEF ClientStep
<1>2. QED  BY <1>1 DEF QueueInv, InSequence, InPlace, LastMeant

\* writePump takes the oldest message of its queue into its hand.
LEMMA TakeKeepsQueue ==
    ASSUME QueueInv, NEW c \in Client, Take(c)
    PROVE  QueueTypes' /\ InSequence(c)' /\ InPlace(c)' /\ LastMeant(c)' = LastMeant(c)
<1>1. /\ buffer[c] \in Seq(Nat) /\ buffer[c] # <<>> /\ hand[c] = <<>>
      /\ hand'[c] = <<Head(buffer[c])>> /\ buffer'[c] = Tail(buffer[c])
    BY DEF QueueInv, QueueTypes, InPlace, Take
<1>2. /\ Head(buffer[c]) = buffer[c][1] /\ Head(buffer[c]) \in Nat
      /\ Tail(buffer[c]) \in Seq(Nat)
      /\ Len(buffer[c]) \in Nat /\ Len(buffer[c]) > 0
      /\ Len(buffer'[c]) = Len(buffer[c]) - 1
      /\ \A i \in 1..Len(buffer'[c]) : buffer'[c][i] = buffer[c][i + 1]
      /\ Len(hand[c]) = 0 /\ Len(hand'[c]) = 1
    BY <1>1
<1>3. QueueTypes'
    BY <1>2 DEF QueueInv, QueueTypes, Take
<1>4. InSequence(c)' /\ LastMeant(c)' = LastMeant(c)
    <2>1. /\ delivered'[c] = delivered[c] /\ joined'[c] = joined[c] /\ clients' = clients
          /\ broadcasts' = broadcasts /\ joined[c] \in Nat /\ Len(delivered[c]) \in Nat
        BY DEF QueueInv, QueueTypes, Take
    <2>2. InSequence(c)
        BY DEF QueueInv
    <2>3. PICK j \in Nat, d \in Nat, h \in Nat, b \in Nat :
            j = joined[c] /\ d = Len(delivered[c]) /\ h = Len(hand[c]) /\ b = Len(buffer[c])
        BY Counts
    <2>4. h = 0 /\ \A i \in 1..b : buffer[c][i] = j + d + h + i
        BY <1>2, <2>2, <2>3 DEF InSequence
    <2>5. hand'[c] = <<j + d + 1>>
        BY <1>1, <1>2, <2>3, <2>4
    <2>6. Len(buffer'[c]) = b - 1 /\ b - 1 \in Nat
        BY <1>2, <2>3
    <2>7. ASSUME NEW i \in 1..(b - 1)
          PROVE  buffer'[c][i] = j + d + 1 + i
        <3>1. buffer'[c][i] = buffer[c][i + 1]
            BY <1>2, <2>6
        <3>2. buffer[c][i + 1] = j + d + h + (i + 1)
            BY <2>4, <2>6
        <3>3. QED  BY <2>4, <3>1, <3>2
    <2>8. LastMeant(c)' = j + d + 1 + (b - 1) /\ LastMeant(c) = j + d + h + b
        BY <1>2, <2>1, <2>3, <2>6 DEF LastMeant
    <2>9. LastMeant(c)' = LastMeant(c)
        BY <2>4, <2>8
    <2>10. QED
        BY <1>2, <2>1, <2>2, <2>3, <2>5, <2>6, <2>7, <2>9 DEF InSequence
<1>5. InPlace(c)'
    BY <1>1, <1>2, HubAssumption DEF QueueInv, QueueTypes, InPlace, Take
<1>6. QED  BY <1>3, <1>4, <1>5

\* What writing does to the two sequences.
LEMMA WriteMoves ==
    ASSUME QueueInv, NEW c \in Client, Write(c)
    PROVE  /\ hand[c] = <<joined[c] + Len(delivered[c]) + 1>>
           /\ delivered'[c] = Append(delivered[c], joined[c] + Len(delivered[c]) + 1)
           /\ Len(delivered'[c]) = Len(delivered[c]) + 1 /\ Len(delivered[c]) \in Nat
           /\ delivered'[c] \in Seq(Nat)
           /\ hand'[c] = <<>> /\ Len(hand'[c]) = 0 /\ Len(hand[c]) = 1
<1>1. hand[c] = <<joined[c] + Len(delivered[c]) + 1>>
    BY DEF QueueInv, InPlace, InSequence, Write
<1>2. delivered[c] \in Seq(Nat) /\ joined[c] + Len(delivered[c]) + 1 \in Nat
    BY DEF QueueInv, QueueTypes
<1>3. delivered'[c] = delivered[c] \o hand[c] /\ hand'[c] = <<>>
    BY DEF QueueInv, QueueTypes, Write
<1>4. delivered'[c] = Append(delivered[c], joined[c] + Len(delivered[c]) + 1)
    BY <1>1, <1>2, <1>3, AppendIsConcat
<1>5. QED  BY <1>1, <1>2, <1>3, <1>4

\* What writePump wrote was next in the order of the broadcasts.
LEMMA WriteKeepsQueue ==
    ASSUME QueueInv, NEW c \in Client, Write(c)
    PROVE  QueueTypes' /\ InSequence(c)' /\ InPlace(c)' /\ LastMeant(c)' = LastMeant(c)
<1>1. QueueTypes'
    BY WriteMoves DEF QueueInv, QueueTypes, Write
<1>2. /\ buffer'[c] = buffer[c] /\ joined'[c] = joined[c] /\ clients' = clients
      /\ broadcasts' = broadcasts /\ joined[c] \in Nat /\ Len(buffer[c]) \in Nat
      /\ reader'[c] = reader[c] /\ writer[c] = "writing" /\ writer'[c] = "waiting"
    BY DEF QueueInv, QueueTypes, Write
<1>3. InSequence(c) /\ InPlace(c)
    BY DEF QueueInv
<1>4. PICK j \in Nat, d \in Nat, h \in Nat, b \in Nat :
        j = joined[c] /\ d = Len(delivered[c]) /\ h = Len(hand[c]) /\ b = Len(buffer[c])
    BY Counts
<1>5. h = 1 /\ Len(delivered'[c]) = d + 1 /\ Len(hand'[c]) = 0
    BY <1>4, WriteMoves
<1>6. LastMeant(c)' = j + (d + 1) + 0 + b /\ LastMeant(c) = j + d + h + b
    BY <1>2, <1>4, <1>5 DEF LastMeant
<1>7. LastMeant(c)' = LastMeant(c)
    BY <1>5, <1>6
<1>8. ASSUME NEW i \in 1..b
      PROVE  buffer'[c][i] = j + (d + 1) + 0 + i
    <2>1. buffer[c][i] = j + d + h + i
        BY <1>3, <1>4 DEF InSequence
    <2>2. QED  BY <1>2, <1>5, <2>1
<1>9. InSequence(c)'
    BY <1>2, <1>3, <1>4, <1>5, <1>7, <1>8, WriteMoves DEF InSequence
<1>10. InPlace(c)'
    BY <1>2, <1>3, WriteMoves DEF InPlace
<1>11. QED  BY <1>1, <1>7, <1>9, <1>10

\* A step of a client keeps its queue in order and the others as they are.
LEMMA ClientStepKeepsQueues ==
    ASSUME QueueInv, NEW c \in Client, ClientStep(c)
    PROVE  QueueInv'
<1>1. QueueTypes' /\ InSequence(c)' /\ InPlace(c)'
    <2> USE DEF QueueInv, QueueTypes
    <2>a. InSequence(c) /\ InPlace(c)
        OBVIOUS
    <2>1. CASE Register(c)
        <3>1. /\ QueueTypes'
              /\ reader[c] = "none" /\ reader'[c] = "registered" /\ joined'[c] = broadcasts
              /\ broadcasts' = broadcasts /\ broadcasts \in Nat
              /\ UNCHANGED <<buffer, hand, delivered, writer>>
            BY <2>1 DEF Register
        <3>2. /\ hand[c] = <<>> /\ delivered[c] = <<>> /\ buffer[c] = <<>> /\ writer[c] = "none"
            BY <2>a, <3>1 DEF InPlace
        <3>3. Len(hand[c]) = 0 /\ Len(delivered[c]) = 0 /\ Len(buffer[c]) = 0
            BY <3>2
        <3>4. QED
            BY <3>1, <3>2, <3>3, HubAssumption DEF InSequence, InPlace, LastMeant
    <2>2. CASE StartPumps(c) \/ CloseDropped(c) \/ ReadFails(c) \/ Unregister(c) \/ Leave(c)
        <3>1. QueueTypes'
            BY <2>2 DEF StartPumps, CloseDropped, ReadFails, Unregister, Leave
        <3>2. /\ UNCHANGED <<broadcasts, buffer, hand, delivered, joined>>
              /\ c \in clients' => c \in clients
              /\ \/ reader[c] # "none" /\ reader'[c] # "none"
                 \/ reader'[c] = reader[c] /\ clients' = clients
              /\ reader'[c] = "registered" => reader[c] = "registered"
              /\ \/ writer'[c] = writer[c]
                 \/ reader[c] = "registered" /\ reader'[c] = "reading" /\ writer'[c] = "waiting"
            BY <2>2 DEF StartPumps, CloseDropped, ReadFails, Unregister, Leave
        <3>3. InSequence(c)'
            BY <2>a, <3>2 DEF InSequence, LastMeant
        <3>4. InPlace(c)'
            BY <2>a, <3>2 DEF InPlace
        <3>5. QED  BY <3>1, <3>3, <3>4
    <2>3. CASE WriteFails(c) \/ Drained(c) \/ Stall(c) \/ Vanish(c)
        <3>1. QueueTypes'
            BY <2>3 DEF WriteFails, Drained, Stall, Vanish
        <3>2. /\ UNCHANGED <<clients, broadcasts, buffer, hand, delivered, joined, reader>>
              /\ \/ writer'[c] = writer[c]
                 \/ writer[c] # "none" /\ writer'[c] = "ended"
            BY <2>3 DEF WriteFails, Drained, Stall, Vanish
        <3>3. InSequence(c)'
            BY <2>a, <3>2 DEF InSequence, LastMeant
        <3>4. InPlace(c)'
            BY <2>a, <3>2 DEF InPlace
        <3>5. QED  BY <3>1, <3>3, <3>4
    <2>4. QED
        BY <2>1, <2>2, <2>3, TakeKeepsQueue, WriteKeepsQueue DEF ClientStep, Goroutine, Pump
<1>2. QED  BY <1>1, ClientStepIsLocal DEF QueueInv

\* The queues are in order always.
LEMMA QueueInvariant == Spec => []QueueInv
<1>1. Init => QueueInv
    BY HubAssumption DEF Init, QueueInv, QueueTypes, InSequence, InPlace
<1>2. QueueInv /\ [Next]_vars => QueueInv'
    BY BroadcastKeepsQueues, ClientStepKeepsQueues, OthersKeepQueues DEF Next, vars, queueVars
<1>3. QED  BY <1>1, <1>2, PTL DEF Spec

-----------------------------------------------------------------------------
(* The mapping: each step of Hub is a step of Feed, or changes nothing there. *)

\* Two steps that agree on the mapped variables of every client change nothing.
LEMMA Unnoticed ==
    ASSUME \A d \in Client : Phase(d)' = Phase(d) /\ LastMeant(d)' = LastMeant(d),
           UNCHANGED <<broadcasts, joined, delivered>>
    PROVE  UNCHANGED Promise!feedVars
<1>1. [d \in Client |-> Phase(d)]' = [d \in Client |-> Phase(d)]
    OBVIOUS
<1>2. [d \in Client |-> LastMeant(d)]' = [d \in Client |-> LastMeant(d)]
    OBVIOUS
<1>3. QED  BY <1>1, <1>2 DEF Promise!feedVars, LastMeant

\* A registration is a subscription to what is broadcast from then on.
LEMMA RegisterSubscribes ==
    ASSUME QueueInv, NEW c \in Client, Register(c)
    PROVE  Promise!Subscribe(c)
<1>1. /\ reader[c] = "none" /\ c \notin clients
      /\ hand[c] = <<>> /\ delivered[c] = <<>> /\ buffer[c] = <<>>
    BY DEF QueueInv, InPlace, Register
<1>2. /\ reader' = [reader EXCEPT ![c] = "registered"] /\ clients' = clients \cup {c}
      /\ joined' = [joined EXCEPT ![c] = broadcasts]
      /\ UNCHANGED <<broadcasts, buffer, hand, delivered>>
    BY DEF Register
<1>3. [d \in Client |-> Phase(d)]' = [[d \in Client |-> Phase(d)] EXCEPT ![c] = "subscribed"]
    BY <1>1, <1>2 DEF QueueInv, QueueTypes, Phase
<1>4. [d \in Client |-> LastMeant(d)]' = [[d \in Client |-> LastMeant(d)] EXCEPT ![c] = broadcasts]
    <2>1. LastMeant(c)' = broadcasts
        <3>1. Len(hand'[c]) = 0 /\ Len(delivered'[c]) = 0 /\ Len(buffer'[c]) = 0
            BY <1>1, <1>2
        <3>2. joined'[c] = broadcasts /\ broadcasts \in Nat
            BY <1>2 DEF QueueInv, QueueTypes
        <3>3. QED  BY <3>1, <3>2 DEF LastMeant
    <2>2. ASSUME NEW d \in Client, d # c PROVE LastMeant(d)' = LastMeant(d)
        <3>1. joined'[d] = joined[d]
            BY <1>2, <2>2 DEF QueueInv, QueueTypes
        <3>2. QED  BY <1>2, <3>1 DEF LastMeant
    <2>3. QED  BY <2>1, <2>2
<1>5. [d \in Client |-> Phase(d)][c] = "new"
    BY <1>1 DEF Phase
<1>6. QED  BY <1>2, <1>3, <1>4, <1>5 DEF Promise!Subscribe, LastMeant

\* The mapped backlog of a client is what writePump holds and what waits.
LEMMA BehindIs ==
    ASSUME QueueInv, NEW c \in Client
    PROVE  \E h \in Nat, b \in Nat :
                /\ h = Len(hand[c]) /\ h <= 1 /\ b = Len(buffer[c])
                /\ Promise!Behind(c) = h + b
<1>1. PICK j \in Nat, d \in Nat, h \in Nat, b \in Nat :
        j = joined[c] /\ d = Len(delivered[c]) /\ h = Len(hand[c]) /\ b = Len(buffer[c])
    BY Counts
<1>2. h <= 1
    <2>1. hand[c] = <<>> \/ hand[c] = <<joined[c] + Len(delivered[c]) + 1>>
        BY DEF QueueInv, InSequence
    <2>2. CASE hand[c] = <<>>
        BY <1>1, <2>2
    <2>3. CASE hand[c] = <<joined[c] + Len(delivered[c]) + 1>>
        <3>1. \A n : Len(<<n>>) = 1
            OBVIOUS
        <3>2. Len(hand[c]) = 1
            BY <2>3, <3>1
        <3>3. QED  BY <1>1, <3>2
    <2>4. QED  BY <2>1, <2>2, <2>3
<1>3. [x \in Client |-> LastMeant(x)][c] = j + d + h + b
    BY <1>1 DEF LastMeant
<1>4. Promise!Behind(c) = [x \in Client |-> LastMeant(x)][c] - joined[c] - Len(delivered[c])
    BY DEF Promise!Behind, LastMeant
<1>5. Promise!Behind(c) = (j + d + h + b) - j - d
    BY <1>1, <1>3, <1>4
<1>6. (j + d + h + b) - j - d = h + b
    OBVIOUS
<1>7. QED  BY <1>1, <1>2, <1>5, <1>6

\* A write is the delivery of the next message.
LEMMA WriteDelivers ==
    ASSUME QueueInv, NEW c \in Client, Write(c)
    PROVE  Promise!Deliver(c)
<1>1. Promise!Behind(c) > 0
    <2>1. Len(hand[c]) = 1 /\ Len(buffer[c]) \in Nat
        BY WriteMoves DEF QueueInv, QueueTypes
    <2>2. PICK h \in Nat, b \in Nat : h = Len(hand[c]) /\ Promise!Behind(c) = h + b
        BY BehindIs
    <2>3. h = 1  BY <2>1, <2>2
    <2>4. QED  BY <2>2, <2>3
<1>2. UNCHANGED <<clients, broadcasts, buffer, joined, reader>>
    BY DEF Write
<1>3. delivered' = [delivered EXCEPT ![c] = Append(@, joined[c] + Len(@) + 1)]
    BY WriteMoves DEF QueueInv, QueueTypes, Write
<1>4. [d \in Client |-> Phase(d)]' = [d \in Client |-> Phase(d)]
    BY <1>2 DEF Phase
<1>5. [d \in Client |-> LastMeant(d)]' = [d \in Client |-> LastMeant(d)]
    <2>1. LastMeant(c)' = LastMeant(c)
        BY WriteKeepsQueue
    <2>2. ASSUME NEW d \in Client, d # c PROVE LastMeant(d)' = LastMeant(d)
        <3>1. delivered'[d] = delivered[d] /\ hand'[d] = hand[d]
            BY <2>2 DEF QueueInv, QueueTypes, Write
        <3>2. QED  BY <1>2, <3>1 DEF LastMeant
    <2>3. QED  BY <2>1, <2>2
<1>6. QED  BY <1>1, <1>2, <1>3, <1>4, <1>5 DEF Promise!Deliver, LastMeant

\* The end of a client that was still in the map is its leaving.
LEMMA UnregisterLeaves ==
    ASSUME QueueInv, NEW c \in Client, Unregister(c)
    PROVE  Promise!Leave(c) \/ UNCHANGED Promise!feedVars
<1>1. /\ reader[c] = "leaving" /\ reader' = [reader EXCEPT ![c] = "left"]
      /\ clients' = clients \ {c}
      /\ UNCHANGED <<broadcasts, buffer, hand, delivered, joined>>
    BY DEF Unregister
<1>2. [d \in Client |-> LastMeant(d)]' = [d \in Client |-> LastMeant(d)]
    BY <1>1 DEF LastMeant
<1>3. CASE c \in clients
    <2>1. [d \in Client |-> Phase(d)]' = [[d \in Client |-> Phase(d)] EXCEPT ![c] = "left"]
        BY <1>1, <1>3 DEF QueueInv, QueueTypes, Phase
    <2>2. [d \in Client |-> Phase(d)][c] = "subscribed"
        BY <1>1, <1>3 DEF Phase
    <2>3. QED  BY <1>1, <1>2, <2>1, <2>2 DEF Promise!Leave, LastMeant
<1>4. CASE c \notin clients
    <2>1. \A d \in Client : Phase(d)' = Phase(d)
        BY <1>1, <1>4 DEF QueueInv, QueueTypes, Phase
    <2>2. \A d \in Client : LastMeant(d)' = LastMeant(d)
        BY <1>1 DEF LastMeant
    <2>3. QED  BY <1>1, <2>1, <2>2, Unnoticed
<1>5. QED  BY <1>3, <1>4

\* The clients whose channel is full are those who are cut off: each has at least
\* a full buffer to read, and those who are kept have one message more at most,
\* the one writePump holds.
LEMMA BroadcastPublishes ==
    ASSUME QueueInv, Broadcast
    PROVE  Promise!Publish
<1> DEFINE Subscribed == {c \in Client : [d \in Client |-> Phase(d)][c] = "subscribed"}
<1>1. Subscribed = clients
    BY DEF QueueInv, QueueTypes, InPlace, Phase
<1>2. ASSUME NEW c \in Client
      PROVE  /\ Len(buffer[c]) >= Cap => Promise!Behind(c) >= Cap
             /\ Len(buffer[c]) < Cap => Promise!Behind(c) <= Cap
             /\ Len(buffer[c]) \in Nat
    <2>1. PICK h \in Nat, b \in Nat :
            /\ h = Len(hand[c]) /\ h <= 1 /\ b = Len(buffer[c])
            /\ Promise!Behind(c) = h + b
        BY BehindIs
    <2>2. PICK k \in Nat : k = Cap
        BY HubAssumption
    <2>3. b >= k => h + b >= k
        OBVIOUS
    <2>4. h <= 1 /\ b < k => h + b <= k
        OBVIOUS
    <2>5. QED  BY <2>1, <2>2, <2>3, <2>4
<1>3. Dropped \in SUBSET {c \in Client : [d \in Client |-> Phase(d)][c] = "subscribed"
                                        /\ Promise!Behind(c) >= Cap}
    <2>1. ASSUME NEW c \in Dropped
          PROVE  c \in Subscribed /\ Promise!Behind(c) >= Cap
        <3>1. c \in Client /\ ~(Len(buffer[c]) < Cap) /\ c \in Subscribed
            BY <1>1 DEF Dropped, HasRoom, QueueInv, QueueTypes
        <3>2. QED  BY <1>2, <3>1, HubAssumption
    <2>2. QED  BY <2>1
<1>4. \A c \in Subscribed \ Dropped : Promise!Behind(c) <= Cap
    <2>1. ASSUME NEW c \in Subscribed \ Dropped
          PROVE  Promise!Behind(c) <= Cap
        <3>1. c \in Client /\ Len(buffer[c]) < Cap
            BY <1>1 DEF Dropped, HasRoom
        <3>2. QED  BY <1>2, <3>1, HubAssumption
    <2>2. QED  BY <2>1
<1>5. /\ broadcasts' = broadcasts + 1 /\ clients' = clients \ Dropped
      /\ UNCHANGED <<hand, delivered, joined, reader>>
    BY DEF Broadcast
<1>6. [d \in Client |-> Phase(d)]' =
        [c \in Client |-> IF c \in Dropped THEN "left" ELSE [d \in Client |-> Phase(d)][c]]
    <2>1. ASSUME NEW c \in Client
          PROVE  Phase(c)' = IF c \in Dropped THEN "left" ELSE Phase(c)
        <3>1. c \in Dropped => c \in clients /\ reader[c] # "none"
            BY DEF Dropped, QueueInv, InPlace
        <3>2. QED  BY <1>5, <3>1 DEF Phase
    <2>2. QED  BY <2>1
<1>7. [d \in Client |-> LastMeant(d)]' =
        [c \in Client |-> IF c \in Subscribed \ Dropped
                            THEN broadcasts' ELSE [d \in Client |-> LastMeant(d)][c]]
    <2>1. ASSUME NEW c \in Client
          PROVE  LastMeant(c)' = IF c \in clients \ Dropped THEN broadcasts' ELSE LastMeant(c)
        <3>1. CASE c \in clients \ Dropped
            BY <1>5, <3>1, BroadcastKeepsQueues DEF QueueInv, InSequence
        <3>2. CASE c \notin clients \ Dropped
            <4>1. buffer'[c] = buffer[c]
                BY <3>2 DEF Broadcast, Dropped
            <4>2. QED  BY <1>5, <3>2, <4>1 DEF LastMeant
        <3>3. QED  BY <3>1, <3>2
    <2>2. QED  BY <1>1, <2>1
<1>8. QED
    BY <1>3, <1>4, <1>5, <1>6, <1>7 DEF Promise!Publish, LastMeant

\* A step of a client is a step of Feed for that client, or nothing to it.
LEMMA ClientStepMaps ==
    ASSUME QueueInv, NEW c \in Client, ClientStep(c)
    PROVE  [Promise!Next]_(Promise!feedVars)
<1>1. CASE Register(c)
    BY <1>1, RegisterSubscribes DEF Promise!Next
<1>2. CASE Write(c)
    BY <1>2, WriteDelivers DEF Promise!Next
<1>3. CASE Unregister(c)
    BY <1>3, UnregisterLeaves DEF Promise!Next
<1>4. CASE StartPumps(c) \/ CloseDropped(c) \/ ReadFails(c) \/ Leave(c)
    <2>1. UNCHANGED <<clients, broadcasts, buffer, hand, delivered, joined>>
        BY <1>4 DEF StartPumps, CloseDropped, ReadFails, Leave
    <2>2. ASSUME NEW d \in Client PROVE reader'[d] = "none" <=> reader[d] = "none"
        BY <1>4 DEF StartPumps, CloseDropped, ReadFails, Leave, QueueInv, QueueTypes
    <2>3. \A d \in Client : Phase(d)' = Phase(d) /\ LastMeant(d)' = LastMeant(d)
        BY <2>1, <2>2 DEF Phase, LastMeant
    <2>4. QED  BY <2>1, <2>3, Unnoticed
<1>5. CASE Take(c)
    <2>1. UNCHANGED <<clients, broadcasts, delivered, joined, reader>>
        BY <1>5 DEF Take
    <2>2. ASSUME NEW d \in Client PROVE LastMeant(d)' = LastMeant(d)
        <3>1. CASE d = c
            BY <1>5, <3>1, TakeKeepsQueue
        <3>2. CASE d # c
            <4>1. buffer'[d] = buffer[d] /\ hand'[d] = hand[d]
                BY <1>5, <3>2 DEF QueueInv, QueueTypes, Take
            <4>2. QED  BY <2>1, <4>1 DEF LastMeant
        <3>3. QED  BY <3>1, <3>2
    <2>3. \A d \in Client : Phase(d)' = Phase(d)
        BY <2>1 DEF Phase
    <2>4. QED  BY <2>1, <2>2, <2>3, Unnoticed
<1>6. CASE WriteFails(c) \/ Drained(c) \/ Stall(c) \/ Vanish(c)
    <2>1. UNCHANGED <<clients, broadcasts, buffer, hand, delivered, joined, reader>>
        BY <1>6 DEF WriteFails, Drained, Stall, Vanish
    <2>2. \A d \in Client : Phase(d)' = Phase(d) /\ LastMeant(d)' = LastMeant(d)
        BY <2>1 DEF Phase, LastMeant
    <2>3. QED  BY <2>1, <2>2, Unnoticed
<1>7. QED
    BY <1>1, <1>2, <1>3, <1>4, <1>5, <1>6 DEF ClientStep, Goroutine, Pump

\* Whatever the panels, their connections and the goroutines do, the hub keeps the
\* promise of Feed: what a panel is written is what was broadcast while it was
\* registered, in order and without a gap.
THEOREM HubKeepsFeed == Spec => KeepsFeed
<1>1. Init => Promise!Init
    <2> SUFFICES ASSUME Init PROVE Promise!Init
        OBVIOUS
    <2>2. \A d \in Client : Phase(d) = "new"
        BY DEF Init, Phase
    <2>3. ASSUME NEW d \in Client PROVE LastMeant(d) = 0
        <3>1. joined[d] = 0 /\ Len(delivered[d]) = 0 /\ Len(hand[d]) = 0 /\ Len(buffer[d]) = 0
            BY DEF Init
        <3>2. QED  BY <3>1 DEF LastMeant
    <2>4. [d \in Client |-> Phase(d)] = [d \in Client |-> "new"]
        BY <2>2
    <2>5. [d \in Client |-> LastMeant(d)] = [d \in Client |-> 0]
        BY <2>3
    <2>6. QED  BY <2>4, <2>5 DEF Init, Promise!Init, LastMeant
<1>2. QueueInv /\ [Next]_vars => [Promise!Next]_(Promise!feedVars)
    <2> SUFFICES ASSUME QueueInv, [Next]_vars PROVE [Promise!Next]_(Promise!feedVars)
        OBVIOUS
    <2>1. CASE Broadcast
        BY <2>1, BroadcastPublishes DEF Promise!Next
    <2>2. CASE \E c \in Client : ClientStep(c)
        BY <2>2, ClientStepMaps
    <2>3. CASE UNCHANGED vars
        <3>1. UNCHANGED <<clients, broadcasts, buffer, hand, delivered, joined, reader>>
            BY <2>3 DEF vars
        <3>2. \A d \in Client : Phase(d)' = Phase(d) /\ LastMeant(d)' = LastMeant(d)
            BY <3>1 DEF Phase, LastMeant
        <3>3. QED  BY <3>1, <3>2, Unnoticed
    <2>4. QED  BY <2>1, <2>2, <2>3 DEF Next
<1>3. QED  BY <1>1, <1>2, QueueInvariant, PTL DEF Spec, KeepsFeed, Promise!Spec

-----------------------------------------------------------------------------
(* Types.  Those of the queues and of the channels are in the invariants above. *)

OtherTypes ==
    /\ closing \subseteq Client
    /\ gauge \in Int
    /\ conn \in [Client -> {"none", "open", "closed"}]
    /\ peer \in [Client -> {"reading", "stalled", "gone"}]

\* The variables the queues do not hold keep their types.
LEMMA StepKeepsOtherTypes == OtherTypes /\ HubInv /\ [Next]_vars => OtherTypes'
<1> SUFFICES ASSUME OtherTypes, HubInv, [Next]_vars PROVE OtherTypes'
    OBVIOUS
<1> USE DEF OtherTypes
<1>1. CASE Broadcast
    BY <1>1 DEF Broadcast, Dropped, HubInv
<1>2. ASSUME NEW c \in Client, ClientStep(c) PROVE OtherTypes'
    <2>1. CASE Goroutine(c)
        BY <2>1 DEF Goroutine, StartPumps, CloseDropped, ReadFails, Unregister, Leave, CountedDown
    <2>2. CASE Pump(c)
        BY <2>2 DEF Pump, Take, Write, WriteFails, Drained
    <2>3. CASE Register(c) \/ Stall(c) \/ Vanish(c)
        BY <2>3 DEF Register, Stall, Vanish
    <2>4. QED  BY <1>2, <2>1, <2>2, <2>3 DEF ClientStep
<1>3. CASE UNCHANGED vars
    BY <1>3 DEF vars
<1>4. QED  BY <1>1, <1>2, <1>3 DEF Next

\* The variables keep their types, and no channel ever holds more than its capacity.
THEOREM HubTypeInvariant == Spec => []TypeOK
<1>1. Init => OtherTypes
    BY DEF Init, OtherTypes
<1>2. OtherTypes /\ HubInv /\ QueueInv => TypeOK
    <2> SUFFICES ASSUME OtherTypes, HubInv, QueueInv PROVE TypeOK
        OBVIOUS
    <2>1. closes \in [Client -> Nat]
        BY DEF HubInv
    <2>2. \A c \in Client : Len(buffer[c]) <= Cap
        BY DEF QueueInv, InPlace
    <2>3. QED  BY <2>1, <2>2 DEF TypeOK, OtherTypes, HubInv, QueueInv, QueueTypes
<1>3. QED  BY <1>1, <1>2, StepKeepsOtherTypes, HubInvariant, QueueInvariant, PTL DEF Spec

-----------------------------------------------------------------------------
(* The gauge *)

\* The clients StartPumps has counted up and Leave has not counted down.
Counted == {c \in Client : reader[c] \in {"reading", "leaving", "left"}}

GaugeInv == IsFiniteSet(Counted) /\ gauge = Cardinality(Counted)

\* The gauge counts the readers between Inc and Dec.
LEMMA StepKeepsGauge == HubInv /\ GaugeInv /\ [Next]_vars => GaugeInv'
<1> SUFFICES ASSUME HubInv, GaugeInv, [Next]_vars PROVE GaugeInv'
    OBVIOUS
<1>1. ASSUME Counted' = Counted, gauge' = gauge PROVE GaugeInv'
    BY <1>1 DEF GaugeInv
<1>2. ASSUME NEW c \in Client, StartPumps(c) PROVE GaugeInv'
    <2>1. c \notin Counted /\ Counted' = Counted \cup {c}
        BY <1>2 DEF StartPumps, Counted, HubInv
    <2>2. gauge' = gauge + 1
        BY <1>2 DEF StartPumps
    <2>3. IsFiniteSet(Counted \cup {c}) /\ Cardinality(Counted \cup {c}) = Cardinality(Counted) + 1
        BY <2>1, FS_AddElement DEF GaugeInv
    <2>4. QED  BY <2>1, <2>2, <2>3 DEF GaugeInv
<1>3. ASSUME NEW c \in Client, Leave(c) PROVE GaugeInv'
    <2>1. c \in Counted /\ Counted' = Counted \ {c}
        BY <1>3 DEF Leave, Counted, HubInv
    <2>2. gauge' = gauge - 1
        BY <1>3 DEF Leave, CountedDown
    <2>3. IsFiniteSet(Counted \ {c}) /\ Cardinality(Counted \ {c}) = Cardinality(Counted) - 1
        BY <2>1, FS_RemoveElement DEF GaugeInv
    <2>4. QED  BY <2>1, <2>2, <2>3 DEF GaugeInv
<1>4. ASSUME NEW c \in Client, Register(c) \/ ReadFails(c) \/ Unregister(c) PROVE GaugeInv'
    <2>1. Counted' = Counted
        BY <1>4 DEF Register, ReadFails, Unregister, Counted, HubInv
    <2>2. QED  BY <1>1, <1>4, <2>1 DEF Register, ReadFails, Unregister
<1>5. ASSUME NEW c \in Client, CloseDropped(c) \/ Pump(c) \/ Stall(c) \/ Vanish(c) PROVE GaugeInv'
    <2>1. reader' = reader /\ gauge' = gauge
        BY <1>5 DEF CloseDropped, Pump, Take, Write, WriteFails, Drained, Stall, Vanish
    <2>2. QED  BY <1>1, <2>1 DEF Counted
<1>6. CASE Broadcast \/ UNCHANGED vars
    <2>1. reader' = reader /\ gauge' = gauge
        BY <1>6 DEF Broadcast, vars
    <2>2. QED  BY <1>1, <2>1 DEF Counted
<1>7. QED  BY <1>2, <1>3, <1>4, <1>5, <1>6 DEF Next, ClientStep, Goroutine

\* The gauge of connected clients is the size of the map whenever no goroutine is
\* between the two, however clients came, were dropped and left before: it never
\* drifts, because a client is counted up and down once each.
THEOREM GaugeNeverDrifts == Spec => []GaugeAgrees
<1>1. Init => GaugeInv
    <2> SUFFICES ASSUME Init PROVE GaugeInv
        OBVIOUS
    <2>1. Counted = {}
        BY DEF Init, Counted
    <2>2. QED  BY <2>1, FS_EmptySet DEF Init, GaugeInv
<1>2. HubInv /\ GaugeInv => GaugeAgrees
    <2> SUFFICES ASSUME HubInv, GaugeInv,
                        \A c \in Client : /\ reader[c] \in {"none", "reading", "ended"}
                                          /\ reader[c] = "reading" => c \in clients
                 PROVE  gauge = Cardinality(clients)
        BY DEF GaugeAgrees
    <2>1. Counted = clients
        BY DEF HubInv, ChannelInv, Counted
    <2>2. QED  BY <2>1 DEF GaugeInv
<1>3. QED  BY <1>1, <1>2, StepKeepsGauge, HubInvariant, PTL DEF Spec

-----------------------------------------------------------------------------
(* The statistics *)

Requests == [consumer : Consumer, code : Status, window : Nat \ {0}]
Snapshots == [total : Nat, errors : Nat, top : Seq([consumer : Consumer, requests : Nat])]

\* The window that is open.
Open == Len(windows) + 1

AggregatorInv ==
    /\ recorded \in Seq(Requests)
    /\ windows \in Seq(Snapshots)
    /\ IsFiniteSet(DOMAIN consumers)
    /\ consumers \in [DOMAIN consumers -> Nat]
    /\ EveryRequestInOneWindow

\* The sets of requests are finite, and the windows of the requests are those so far.
LEMMA RequestsAreFew ==
    ASSUME AggregatorInv, NEW n, NEW k
    PROVE  /\ IsFiniteSet(InWindow(n)) /\ IsFiniteSet(FailedIn(n)) /\ IsFiniteSet(Of(k, n))
           /\ Cardinality(InWindow(n)) \in Nat
           /\ Cardinality(FailedIn(n)) \in Nat
           /\ Cardinality(Of(k, n)) \in Nat
<1>1. DOMAIN recorded = 1 .. Len(recorded) /\ Len(recorded) \in Nat
    BY DEF AggregatorInv
<1>2. IsFiniteSet(DOMAIN recorded)
    BY <1>1, FS_Interval
<1>3. InWindow(n) \subseteq DOMAIN recorded /\ FailedIn(n) \subseteq DOMAIN recorded
      /\ Of(k, n) \subseteq DOMAIN recorded
    BY DEF InWindow, FailedIn, Of
<1>4. IsFiniteSet(InWindow(n)) /\ IsFiniteSet(FailedIn(n)) /\ IsFiniteSet(Of(k, n))
    BY <1>2, <1>3, FS_Subset
<1>5. QED  BY <1>4, FS_CardinalityType

\* The window of a request is a closed one or the one that is open.
LEMMA OpenIsLast ==
    ASSUME AggregatorInv
    PROVE  /\ Len(windows) \in Nat /\ Open \in Nat \ {0}
           /\ DOMAIN windows = 1 .. Len(windows)
           /\ \A i \in DOMAIN recorded : recorded[i] \in Requests /\ recorded[i].window \in 1 .. Open
<1>1. Len(windows) \in Nat /\ DOMAIN windows = 1 .. Len(windows)
    BY DEF AggregatorInv
<1>2. ASSUME NEW i \in DOMAIN recorded PROVE recorded[i] \in Requests /\ recorded[i].window \in 1 .. Open
    <2>1. PICK n \in 1 .. Open : i \in InWindow(n)
        BY DEF AggregatorInv, EveryRequestInOneWindow, Open
    <2>2. recorded[i].window = n
        BY <2>1 DEF InWindow
    <2>3. recorded[i] \in Requests
        BY DEF AggregatorInv
    <2>4. QED  BY <2>2, <2>3
<1>3. QED  BY <1>1, <1>2 DEF Open

\* What a request adds to the sets.
LEMMA RecordAdds ==
    ASSUME AggregatorInv, NEW k \in Consumer, NEW code \in Status, Record(k, code)
    PROVE  \E last \in Nat :
             /\ last = Len(recorded) + 1 /\ last \notin DOMAIN recorded
             /\ recorded' \in Seq(Requests)
             /\ DOMAIN recorded' = DOMAIN recorded \cup {last}
             /\ \A i \in DOMAIN recorded : recorded'[i] = recorded[i]
             /\ recorded'[last] = [consumer |-> k, code |-> code, window |-> Open]
<1>1. [consumer |-> k, code |-> code, window |-> Open] \in Requests
    BY OpenIsLast DEF Requests
<1>2. recorded \in Seq(Requests)
      /\ recorded' = Append(recorded, [consumer |-> k, code |-> code, window |-> Open])
    BY DEF AggregatorInv, Record, Open
<1>3. /\ Len(recorded) \in Nat /\ DOMAIN recorded = 1 .. Len(recorded)
      /\ recorded' \in Seq(Requests) /\ DOMAIN recorded' = 1 .. Len(recorded) + 1
      /\ \A i \in 1 .. Len(recorded) : recorded'[i] = recorded[i]
      /\ recorded'[Len(recorded) + 1] = [consumer |-> k, code |-> code, window |-> Open]
    BY <1>1, <1>2
<1>4. 1 .. Len(recorded) + 1 = (1 .. Len(recorded)) \cup {Len(recorded) + 1}
    BY <1>3
<1>5. QED  BY <1>3, <1>4

\* A request changes the sets of the open window only, by one or not at all.
LEMMA RecordCounts ==
    ASSUME AggregatorInv, NEW k \in Consumer, NEW code \in Status, Record(k, code),
           NEW open \in Nat, open = Open
    PROVE  /\ recorded' \in Seq(Requests)
           /\ DOMAIN recorded' = UNION {InWindow(n)' : n \in 1 .. open}
           /\ \A n : n # open => /\ InWindow(n)' = InWindow(n) /\ FailedIn(n)' = FailedIn(n)
                                 /\ \A x : Of(x, n)' = Of(x, n)
           /\ Cardinality(InWindow(open)') = Cardinality(InWindow(open)) + 1
           /\ Cardinality(FailedIn(open)') = Cardinality(FailedIn(open)) + (IF Failed(code) THEN 1 ELSE 0)
           /\ \A x : Cardinality(Of(x, open)') = Cardinality(Of(x, open)) + (IF x = k THEN 1 ELSE 0)
           /\ {recorded'[i].consumer : i \in InWindow(open)'}
                = {recorded[i].consumer : i \in InWindow(open)} \cup {k}
<1>1. PICK last \in Nat :
             /\ last = Len(recorded) + 1 /\ last \notin DOMAIN recorded
             /\ recorded' \in Seq(Requests)
             /\ DOMAIN recorded' = DOMAIN recorded \cup {last}
             /\ \A i \in DOMAIN recorded : recorded'[i] = recorded[i]
             /\ recorded'[last] = [consumer |-> k, code |-> code, window |-> open]
    BY RecordAdds
<1>2. recorded'[last].consumer = k /\ recorded'[last].code = code /\ recorded'[last].window = open
    BY <1>1
<1>3. \A n : InWindow(n)' = IF n = open THEN InWindow(n) \cup {last} ELSE InWindow(n)
    BY <1>1, <1>2 DEF InWindow
<1>4. \A n : last \notin InWindow(n) /\ last \notin FailedIn(n) /\ \A x : last \notin Of(x, n)
    BY <1>1 DEF InWindow, FailedIn, Of
<1>5. \A n : FailedIn(n)' = IF n = open /\ Failed(code) THEN FailedIn(n) \cup {last} ELSE FailedIn(n)
    <2>1. \A n : \A i \in InWindow(n) : recorded'[i] = recorded[i]
        BY <1>1 DEF InWindow
    <2>2. QED  BY <1>1, <1>2, <1>3, <2>1 DEF FailedIn
<1>6. \A n, x : Of(x, n)' = IF n = open /\ x = k THEN Of(x, n) \cup {last} ELSE Of(x, n)
    <2>1. \A n : \A i \in InWindow(n) : recorded'[i] = recorded[i]
        BY <1>1 DEF InWindow
    <2>2. QED  BY <1>1, <1>2, <1>3, <2>1 DEF Of
<1>7. DOMAIN recorded' = UNION {InWindow(n)' : n \in 1 .. open}
    <2>1. DOMAIN recorded = UNION {InWindow(n) : n \in 1 .. open}
        BY DEF AggregatorInv, EveryRequestInOneWindow, Open
    <2>2. open \in 1 .. open
        BY OpenIsLast
    <2>3. QED  BY <1>1, <1>3, <2>1, <2>2
<1>8. Cardinality(InWindow(open)') = Cardinality(InWindow(open)) + 1
    BY <1>3, <1>4, RequestsAreFew, FS_AddElement
<1>9. Cardinality(FailedIn(open)') = Cardinality(FailedIn(open)) + (IF Failed(code) THEN 1 ELSE 0)
    <2>1. IsFiniteSet(FailedIn(open)) /\ Cardinality(FailedIn(open)) \in Nat
        BY RequestsAreFew
    <2>2. QED  BY <1>4, <1>5, <2>1, FS_AddElement
<1>10. ASSUME NEW x
       PROVE  Cardinality(Of(x, open)') = Cardinality(Of(x, open)) + (IF x = k THEN 1 ELSE 0)
    <2>1. IsFiniteSet(Of(x, open)) /\ Cardinality(Of(x, open)) \in Nat
        BY RequestsAreFew
    <2>2. Cardinality(Of(x, open) \cup {last}) = Cardinality(Of(x, open)) + 1
        BY <1>4, <2>1, FS_AddElement
    <2>3. CASE x = k
        BY <1>6, <2>1, <2>2, <2>3
    <2>4. CASE x # k
        BY <1>6, <2>1, <2>4
    <2>5. QED  BY <2>3, <2>4
<1>11. {recorded'[i].consumer : i \in InWindow(open)'}
                = {recorded[i].consumer : i \in InWindow(open)} \cup {k}
    <2>1. \A i \in InWindow(open) : recorded'[i] = recorded[i]
        BY <1>1 DEF InWindow
    <2>2. InWindow(open)' = InWindow(open) \cup {last}
        BY <1>3
    <2> DEFINE before == InWindow(open)
               after == InWindow(open)'
    <2> HIDE DEF before, after
    <2>3. after = before \cup {last} /\ \A i \in before : recorded'[i] = recorded[i]
        BY <2>1, <2>2 DEF before, after
    <2>4. {recorded'[i].consumer : i \in after} = {recorded[i].consumer : i \in before} \cup {k}
        BY <1>2, <2>3
    <2>5. QED  BY <2>4 DEF before, after
<1>12. QED  BY <1>1, <1>3, <1>5, <1>6, <1>7, <1>8, <1>9, <1>10, <1>11

\* Types and counts of what is open, in the terms of the lemma before.
LEMMA RecordKeeps ==
    ASSUME AggregatorInv, NEW k \in Consumer, NEW code \in Status, Record(k, code)
    PROVE  AggregatorInv'
<1>1. PICK open \in Nat : open = Open
    BY OpenIsLast
<1>2. windows' = windows /\ Open' = open
    BY <1>1 DEF Record, Open
<1>3. /\ total = Cardinality(InWindow(open))
      /\ errors = Cardinality(FailedIn(open))
      /\ DOMAIN consumers = {recorded[i].consumer : i \in InWindow(open)}
      /\ \A x \in DOMAIN consumers : consumers[x] = Cardinality(Of(x, open))
    BY <1>1 DEF AggregatorInv, EveryRequestInOneWindow, Open
<1>4. total' = Cardinality(InWindow(open)')
    BY <1>1, <1>3, RecordCounts DEF Record
<1>5. errors' = Cardinality(FailedIn(open)')
    <2>1. Cardinality(FailedIn(open)') = Cardinality(FailedIn(open)) + (IF Failed(code) THEN 1 ELSE 0)
        BY <1>1, RecordCounts
    <2>2. errors' = IF Failed(code) THEN errors + 1 ELSE errors
        BY DEF Record
    <2>3. Cardinality(FailedIn(open)) \in Nat
        BY RequestsAreFew
    <2>4. QED  BY <1>3, <2>1, <2>2, <2>3
<1>6. /\ DOMAIN consumers' = DOMAIN consumers \cup {k}
      /\ \A x \in DOMAIN consumers' :
            consumers'[x] = (IF x \in DOMAIN consumers THEN consumers[x] ELSE 0) + (IF x = k THEN 1 ELSE 0)
      /\ consumers' = [x \in DOMAIN consumers' |-> consumers'[x]]
    BY DEF Record
<1>7. DOMAIN consumers' = {recorded'[i].consumer : i \in InWindow(open)'}
    <2>1. {recorded'[i].consumer : i \in InWindow(open)'}
            = {recorded[i].consumer : i \in InWindow(open)} \cup {k}
        BY <1>1, RecordCounts
    <2>2. DOMAIN consumers' = DOMAIN consumers \cup {k}
        BY <1>6
    <2>3. DOMAIN consumers = {recorded[i].consumer : i \in InWindow(open)}
        BY <1>3
    <2>4. QED  BY <2>1, <2>2, <2>3, Zenon
<1>8. ASSUME NEW x \in DOMAIN consumers' PROVE consumers'[x] = Cardinality(Of(x, open)')
    <2>1. Cardinality(Of(x, open)') = Cardinality(Of(x, open)) + (IF x = k THEN 1 ELSE 0)
        <3>1. \A y : Cardinality(Of(y, open)') = Cardinality(Of(y, open)) + (IF y = k THEN 1 ELSE 0)
            BY <1>1, RecordCounts
        <3>2. QED  BY <3>1
    <2>2. (IF x \in DOMAIN consumers THEN consumers[x] ELSE 0) = Cardinality(Of(x, open))
        <3>1. CASE x \in DOMAIN consumers
            BY <1>3, <3>1
        <3>2. CASE x \notin DOMAIN consumers
            <4>1. Of(x, open) = {}
                BY <1>3, <3>2 DEF Of
            <4>2. QED  BY <3>2, <4>1, FS_EmptySet
        <3>3. QED  BY <3>1, <3>2
    <2>3. QED  BY <1>6, <2>1, <2>2
<1>9. ASSUME NEW n \in DOMAIN windows PROVE CountsItsRequests(n)'
    <2>1. n # open
        BY <1>1, OpenIsLast DEF Open
    <2>2. InWindow(n)' = InWindow(n) /\ FailedIn(n)' = FailedIn(n) /\ \A x : Of(x, n)' = Of(x, n)
        BY <1>1, <2>1, RecordCounts
    <2>3. CountsItsRequests(n)
        BY DEF AggregatorInv, EveryRequestInOneWindow
    <2>4. QED  BY <1>2, <2>2, <2>3 DEF CountsItsRequests
<1>10. DOMAIN recorded' = UNION {InWindow(n)' : n \in 1 .. open}
    BY <1>1, RecordCounts
<1>11. EveryRequestInOneWindow'
    BY <1>2, <1>4, <1>5, <1>7, <1>8, <1>9, <1>10 DEF EveryRequestInOneWindow, Open
<1>12. consumers' \in [DOMAIN consumers' -> Nat]
    <2>1. \A x \in DOMAIN consumers' : consumers'[x] \in Nat
        <3>1. consumers \in [DOMAIN consumers -> Nat]
            BY DEF AggregatorInv
        <3>2. QED  BY <1>6, <3>1
    <2>2. QED  BY <1>6, <2>1
<1>13. IsFiniteSet(DOMAIN consumers')
    BY <1>6, FS_AddElement DEF AggregatorInv
<1>14. recorded' \in Seq(Requests)
    BY <1>1, RecordCounts
<1>15. QED  BY <1>2, <1>11, <1>12, <1>13, <1>14 DEF AggregatorInv

\* A ranking has every consumer of the window once, and Window takes the first
\* TopN of it, or all.
LEMMA RankingMeans ==
    ASSUME AggregatorInv, NEW ranking \in Rankings
    PROVE  \E n \in Nat, m \in Nat :
             /\ n = Cardinality(DOMAIN consumers) /\ ranking \in [1 .. n -> DOMAIN consumers]
             /\ \A k \in DOMAIN consumers : \E i \in 1 .. n : ranking[i] = k
             /\ \A i, j \in 1 .. n : i < j =>
                    ranking[i] # ranking[j] /\ consumers[ranking[i]] >= consumers[ranking[j]]
             /\ m <= n /\ m <= TopN /\ (m = TopN \/ m = n)
             /\ Window(ranking).top = [i \in 1 .. m |-> [consumer |-> ranking[i], requests |-> consumers[ranking[i]]]]
<1> DEFINE S == DOMAIN consumers
<1>1. PICK n \in Nat : n = Cardinality(S) /\ IsFiniteSet(S)
    BY FS_CardinalityType DEF AggregatorInv
<1>2. /\ ranking \in [1 .. n -> S]
      /\ \A i, j \in 1 .. n : i # j => ranking[i] # ranking[j]
    BY <1>1 DEF Rankings, SetToSeqs
<1>3. \A k \in S : \E i \in 1 .. n : ranking[i] = k
    <2>1. ranking \in Injection(1 .. n, S)
        BY <1>2 DEF Injection, IsInjective
    <2>2. Cardinality(1 .. n) = n
        BY FS_Interval
    <2>3. ranking \in Surjection(1 .. n, S)
        BY <1>1, <2>1, <2>2, FS_Injection
    <2>4. QED  BY <2>3 DEF Surjection
<1>4. Len(ranking) = n
    BY <1>2
<1>5. \A i, j \in 1 .. n : i < j =>
        ranking[i] # ranking[j] /\ consumers[ranking[i]] >= consumers[ranking[j]]
    <2>1. DOMAIN ranking = 1 .. n
        BY <1>2
    <2>2. \A i, j \in 1 .. n : i < j => consumers[ranking[i]] >= consumers[ranking[j]]
        BY <2>1 DEF Rankings
    <2>3. \A i, j \in 1 .. n : i < j => i # j
        OBVIOUS
    <2>4. QED  BY <1>2, <2>2, <2>3
<1>6. PICK m \in Nat : m = Min({TopN, n}) /\ m <= n /\ m <= TopN /\ (m = TopN \/ m = n)
    <2>1. TopN \in Nat
        BY AggregatorAssumption
    <2>2. \E x \in {TopN, n} : \A y \in {TopN, n} : x <= y
        BY <2>1
    <2>3. Min({TopN, n}) \in {TopN, n} /\ \A y \in {TopN, n} : Min({TopN, n}) <= y
        BY <2>2 DEF Min
    <2>4. QED  BY <2>1, <2>3
<1>7. Window(ranking).top = [i \in 1 .. m |-> [consumer |-> ranking[i], requests |-> consumers[ranking[i]]]]
    BY <1>4, <1>6 DEF Window
<1>8. QED  BY <1>1, <1>2, <1>3, <1>5, <1>6, <1>7

\* A snapshot closes the open window with its counts and opens one with none.
LEMMA SnapshotKeeps ==
    ASSUME AggregatorInv, Snapshot
    PROVE  AggregatorInv'
<1>1. PICK open \in Nat : open = Open /\ open = Len(windows) + 1
    BY OpenIsLast DEF Open
<1>2. PICK ranking \in Rankings : windows' = Append(windows, Window(ranking))
    BY DEF Snapshot
<1>3. /\ total = Cardinality(InWindow(open))
      /\ errors = Cardinality(FailedIn(open))
      /\ DOMAIN consumers \subseteq Consumer
      /\ \A x \in DOMAIN consumers : consumers[x] = Cardinality(Of(x, open))
    <2>1. \A i \in DOMAIN recorded : recorded[i].consumer \in Consumer
        BY OpenIsLast DEF Requests
    <2>2. DOMAIN consumers = {recorded[i].consumer : i \in InWindow(open)}
        BY <1>1 DEF AggregatorInv, EveryRequestInOneWindow
    <2>3. DOMAIN consumers \subseteq Consumer
        BY <2>1, <2>2 DEF InWindow
    <2>4. QED  BY <1>1, <2>3 DEF AggregatorInv, EveryRequestInOneWindow
<1>4. PICK n \in Nat, m \in Nat :
             /\ n = Cardinality(DOMAIN consumers) /\ ranking \in [1 .. n -> DOMAIN consumers]
             /\ \A k \in DOMAIN consumers : \E i \in 1 .. n : ranking[i] = k
             /\ \A i, j \in 1 .. n : i < j =>
                    ranking[i] # ranking[j] /\ consumers[ranking[i]] >= consumers[ranking[j]]
             /\ m <= n /\ m <= TopN /\ (m = TopN \/ m = n)
             /\ Window(ranking).top = [i \in 1 .. m |-> [consumer |-> ranking[i], requests |-> consumers[ranking[i]]]]
    BY RankingMeans
<1> DEFINE w == Window(ranking)
           top == w.top
<1>5. w.total = total /\ w.errors = errors
    BY DEF Window
<1>6. /\ top \in Seq([consumer : Consumer, requests : Nat])
      /\ \A i \in DOMAIN top : top[i].requests = Cardinality(Of(top[i].consumer, open))
    <2>1. ASSUME NEW i \in 1 .. m
          PROVE  /\ top[i] = [consumer |-> ranking[i], requests |-> consumers[ranking[i]]]
                 /\ ranking[i] \in DOMAIN consumers
        <3>1. i \in 1 .. n
            BY <1>4
        <3>2. QED  BY <1>4, <3>1
    <2>2. ASSUME NEW i \in 1 .. m
          PROVE  /\ top[i] \in [consumer : Consumer, requests : Nat]
                 /\ top[i].requests = Cardinality(Of(top[i].consumer, open))
        <3>1. PICK k \in Consumer, r \in Nat :
                /\ k = ranking[i] /\ r = consumers[k] /\ r = Cardinality(Of(k, open))
            BY <1>3, <2>1, RequestsAreFew
        <3>2. top[i] = [consumer |-> k, requests |-> r]
            BY <2>1, <3>1
        <3> HIDE DEF top
        <3>3. top[i].consumer = k /\ top[i].requests = r
            BY <3>2
        <3>4. QED  BY <3>1, <3>2, <3>3
    <2>3. top = [i \in 1 .. m |-> top[i]]
        BY <1>4
    <2> HIDE DEF top
    <2>4. top \in [1 .. m -> [consumer : Consumer, requests : Nat]]
        BY <2>2, <2>3
    <2>5. top \in Seq([consumer : Consumer, requests : Nat])
        BY <2>4, \A R : \A s \in [1 .. m -> R] : s \in Seq(R)
    <2>6. DOMAIN top = 1 .. m
        BY <2>3
    <2>7. QED  BY <2>2, <2>5, <2>6
<1>7. w \in Snapshots
    <2>1. total \in Nat /\ errors \in Nat
        BY <1>3, RequestsAreFew
    <2>2. w = [total |-> total, errors |-> errors, top |-> top]
        BY DEF Window
    <2> HIDE DEF w, top
    <2>3. QED  BY <1>6, <2>1, <2>2 DEF Snapshots
<1> HIDE DEF w, top
<1>8. /\ windows' \in Seq(Snapshots) /\ Len(windows') = open /\ DOMAIN windows' = 1 .. open
      /\ windows'[open] = w /\ \A i \in DOMAIN windows : windows'[i] = windows[i]
      /\ \A i \in 1 .. open : i = open \/ i \in DOMAIN windows
    <2>1. windows \in Seq(Snapshots)
        BY DEF AggregatorInv
    <2>2. windows' = Append(windows, w)
        BY <1>2 DEF w
    <2>3. QED  BY <1>1, <1>7, <2>1, <2>2
<1>9. /\ recorded' = recorded
      /\ \A i : InWindow(i)' = InWindow(i) /\ FailedIn(i)' = FailedIn(i) /\ \A x : Of(x, i)' = Of(x, i)
    BY DEF Snapshot, InWindow, FailedIn, Of
<1>10. /\ InWindow(open + 1) = {} /\ FailedIn(open + 1) = {}
       /\ DOMAIN recorded = UNION {InWindow(i) : i \in 1 .. open}
       /\ UNION {InWindow(i) : i \in 1 .. open + 1} = UNION {InWindow(i) : i \in 1 .. open}
    <2>1. \A i \in DOMAIN recorded : recorded[i].window \in 1 .. open
        BY <1>1, OpenIsLast
    <2>2. InWindow(open + 1) = {}
        BY <2>1 DEF InWindow
    <2>3. 1 .. open + 1 = (1 .. open) \cup {open + 1}
        OBVIOUS
    <2>4. UNION {InWindow(i) : i \in 1 .. open + 1} = UNION {InWindow(i) : i \in 1 .. open}
        BY <2>2, <2>3
    <2>5. QED  BY <1>1, <2>2, <2>4 DEF AggregatorInv, EveryRequestInOneWindow, FailedIn
<1>11. total' = 0 /\ errors' = 0 /\ consumers' = <<>> /\ DOMAIN consumers' = {}
    BY DEF Snapshot, Reset
<1>12. ASSUME NEW i \in DOMAIN windows' PROVE CountsItsRequests(i)'
    <2>1. CASE i \in DOMAIN windows
        <3>1. CountsItsRequests(i)
            BY <2>1 DEF AggregatorInv, EveryRequestInOneWindow
        <3>2. windows'[i] = windows[i]
            BY <1>8, <2>1
        <3>3. QED  BY <1>9, <3>1, <3>2 DEF CountsItsRequests
    <2>2. CASE i = open
        <3>1. windows'[i] = w
            BY <1>8, <2>2
        <3>2. QED  BY <1>3, <1>5, <1>6, <1>9, <2>2, <3>1 DEF CountsItsRequests, top
    <2>3. QED  BY <1>8, <2>1, <2>2
<1>13. EveryRequestInOneWindow'
    <2>1. DOMAIN recorded' = UNION {InWindow(i)' : i \in 1 .. open + 1}
        BY <1>9, <1>10
    <2>2. Cardinality(InWindow(open + 1)') = 0 /\ Cardinality(FailedIn(open + 1)') = 0
        BY <1>9, <1>10, FS_EmptySet
    <2>3. {recorded'[i].consumer : i \in InWindow(open + 1)'} = {}
        BY <1>9, <1>10
    <2>4. QED
        BY <1>8, <1>11, <1>12, <2>1, <2>2, <2>3 DEF EveryRequestInOneWindow
<1>14. consumers' \in [DOMAIN consumers' -> Nat] /\ IsFiniteSet(DOMAIN consumers')
    BY <1>11, FS_EmptySet
<1>15. QED  BY <1>8, <1>9, <1>13, <1>14 DEF AggregatorInv

\* The broadcast loop and the clients leave the counts alone.
LEMMA LiveStepKeeps == AggregatorInv /\ [NextLive]_liveVars => AggregatorInv'
<1> SUFFICES ASSUME AggregatorInv, [NextLive]_liveVars PROVE AggregatorInv'
    OBVIOUS
<1>1. CASE RecordRequest
    BY <1>1, RecordKeeps DEF RecordRequest
<1>2. CASE TakeSnapshot
    BY <1>2, SnapshotKeeps DEF TakeSnapshot
<1>3. CASE UNCHANGED aggregatorVars
    <2>1. UNCHANGED <<total, errors, consumers, windows, recorded>>
        BY <1>3 DEF aggregatorVars
    <2>2. \A n : InWindow(n)' = InWindow(n) /\ FailedIn(n)' = FailedIn(n) /\ \A x : Of(x, n)' = Of(x, n)
        BY <2>1 DEF InWindow, FailedIn, Of
    <2>3. \A n : CountsItsRequests(n)' <=> CountsItsRequests(n)
        BY <2>1, <2>2 DEF CountsItsRequests
    <2>4. EveryRequestInOneWindow' <=> EveryRequestInOneWindow
        BY <2>1, <2>2, <2>3 DEF EveryRequestInOneWindow
    <2>5. QED  BY <2>1, <2>4 DEF AggregatorInv
<1>4. QED  BY <1>1, <1>2, <1>3 DEF NextLive, BroadcastSnapshot, liveVars

\* So every window has the requests that were recorded in it.
LEMMA AggregatorInvariant == SpecLive => []AggregatorInv
<1>1. InitAggregator => AggregatorInv
    <2> SUFFICES ASSUME InitAggregator PROVE AggregatorInv
        OBVIOUS
    <2>1. \A n : InWindow(n) = {} /\ FailedIn(n) = {}
        BY DEF InitAggregator, InWindow, FailedIn
    <2>2. Len(windows) = 0 /\ DOMAIN windows = {} /\ DOMAIN recorded = {} /\ DOMAIN consumers = {}
        BY DEF InitAggregator
    <2>3. UNION {InWindow(n) : n \in 1 .. Len(windows) + 1} = {}
        BY <2>1
    <2>4. EveryRequestInOneWindow
        BY <2>1, <2>2, <2>3, FS_EmptySet DEF InitAggregator, EveryRequestInOneWindow
    <2>5. QED  BY <2>2, <2>4, FS_EmptySet DEF InitAggregator, AggregatorInv
<1>2. QED  BY <1>1, LiveStepKeeps, PTL DEF SpecLive, InitLive

\* However requests and snapshots alternate: each snapshot counts what was recorded
\* since the one before it.
THEOREM EveryRequestCounted == SpecLive => []EveryRequestInOneWindow
<1>1. AggregatorInv => EveryRequestInOneWindow
    BY DEF AggregatorInv
<1>2. QED  BY <1>1, AggregatorInvariant, PTL

\* A ranking holds every consumer of the window once, in order, so a snapshot has
\* the first of them with their requests, and those it cuts off come after.
THEOREM RankingIsRight == SpecLive => BusiestAreRanked
<1> DEFINE Ranked ==
        Len(windows') > Len(windows) =>
            LET top == windows'[Len(windows')].top
                ranked == {top[i].consumer : i \in DOMAIN top}
                leftOut == DOMAIN consumers \ ranked
            IN  /\ ranked \subseteq DOMAIN consumers
                /\ \A i \in DOMAIN top : top[i].requests = consumers[top[i].consumer]
                /\ \A i, j \in DOMAIN top : i < j =>
                        top[i].consumer # top[j].consumer /\ top[i].requests >= top[j].requests
                /\ Len(top) <= TopN
                /\ leftOut # {} => Len(top) = TopN
                /\ \A k \in leftOut : \A i \in DOMAIN top : consumers[k] <= top[i].requests
<1>1. ASSUME AggregatorInv, Snapshot PROVE Ranked
    <2>1. PICK ranking \in Rankings : windows' = Append(windows, Window(ranking))
        BY <1>1 DEF Snapshot
    <2>2. windows'[Len(windows')] = Window(ranking)
        <3>1. windows \in Seq(Snapshots)
            BY <1>1 DEF AggregatorInv
        <3>2. QED  BY <2>1, <3>1
    <2>3. PICK n \in Nat, m \in Nat :
             /\ n = Cardinality(DOMAIN consumers) /\ ranking \in [1 .. n -> DOMAIN consumers]
             /\ \A k \in DOMAIN consumers : \E i \in 1 .. n : ranking[i] = k
             /\ \A i, j \in 1 .. n : i < j =>
                    ranking[i] # ranking[j] /\ consumers[ranking[i]] >= consumers[ranking[j]]
             /\ m <= n /\ m <= TopN /\ (m = TopN \/ m = n)
             /\ Window(ranking).top = [i \in 1 .. m |-> [consumer |-> ranking[i], requests |-> consumers[ranking[i]]]]
        BY <1>1, RankingMeans
    <2> DEFINE top == Window(ranking).top
               ranked == {top[i].consumer : i \in DOMAIN top}
               leftOut == DOMAIN consumers \ ranked
    <2>4. /\ DOMAIN top = 1 .. m /\ Len(top) = m
          /\ \A i \in 1 .. m : top[i].consumer = ranking[i] /\ top[i].requests = consumers[ranking[i]]
        BY <2>3
    <2>5. ASSUME NEW k \in leftOut
          PROVE  \E j \in 1 .. n : ranking[j] = k /\ m < j
        <3>1. PICK j \in 1 .. n : ranking[j] = k
            BY <2>3
        <3>2. ASSUME j <= m PROVE FALSE
            <4>1. j \in 1 .. m
                BY <3>2
            <4>2. top[j].consumer = k
                BY <2>4, <3>1, <4>1
            <4>3. QED  BY <2>4, <4>1, <4>2
        <3>3. QED  BY <3>1, <3>2
    <2> HIDE DEF leftOut
    <2>10. ranked \subseteq DOMAIN consumers
        <3>1. ASSUME NEW i \in DOMAIN top PROVE top[i].consumer \in DOMAIN consumers
            <4>1. i \in 1 .. n /\ top[i].consumer = ranking[i]
                BY <2>3, <2>4, <3>1
            <4>2. QED  BY <2>3, <4>1
        <3> HIDE DEF top
        <3>2. QED  BY <3>1
    <2> HIDE DEF top, ranked
    <2>11. \A i \in DOMAIN top : top[i].requests = consumers[top[i].consumer]
        BY <2>4
    <2>12. ASSUME NEW i \in DOMAIN top, NEW j \in DOMAIN top, i < j
           PROVE  top[i].consumer # top[j].consumer /\ top[i].requests >= top[j].requests
        <3>1. i \in 1 .. n /\ j \in 1 .. n /\ i \in 1 .. m /\ j \in 1 .. m
            BY <2>3, <2>4
        <3>2. ranking[i] # ranking[j] /\ consumers[ranking[i]] >= consumers[ranking[j]]
            BY <2>3, <2>12, <3>1
        <3>3. QED  BY <2>4, <3>1, <3>2
    <2>6. ASSUME leftOut # {} PROVE Len(top) = TopN
        <3>1. PICK k \in leftOut : TRUE
            BY <2>6
        <3>2. PICK j \in 1 .. n : m < j
            BY <2>5
        <3>3. m # n
            BY <3>2
        <3>4. QED  BY <2>3, <2>4, <3>3
    <2>7. ASSUME NEW k \in leftOut, NEW i \in DOMAIN top
          PROVE  consumers[k] <= top[i].requests
        <3>1. PICK j \in 1 .. n : ranking[j] = k /\ m < j
            BY <2>5
        <3>2. i \in 1 .. m /\ i \in 1 .. n /\ i < j
            BY <2>3, <2>4, <3>1
        <3>3. consumers[ranking[i]] >= consumers[ranking[j]]
            BY <2>3, <3>1, <3>2
        <3>4. consumers[ranking[i]] \in Nat /\ consumers[ranking[j]] \in Nat
            BY <1>1, <2>3, <3>1, <3>2 DEF AggregatorInv
        <3>5. QED  BY <2>4, <3>1, <3>2, <3>3, <3>4
    <2>8. Len(top) <= TopN
        BY <2>3, <2>4
    <2>9. QED  BY <2>2, <2>6, <2>7, <2>8, <2>10, <2>11, <2>12 DEF top, ranked, leftOut
<1>2. AggregatorInv /\ [NextLive]_liveVars => [Ranked]_aggregatorVars
    <2> SUFFICES ASSUME AggregatorInv, [NextLive]_liveVars PROVE [Ranked]_aggregatorVars
        OBVIOUS
    <2>1. CASE RecordRequest
        <3>1. windows' = windows /\ Len(windows) \in Nat
            BY <2>1, OpenIsLast DEF RecordRequest, Record
        <3>2. QED  BY <3>1
    <2>2. CASE TakeSnapshot
        BY <1>1, <2>2 DEF TakeSnapshot
    <2>3. CASE UNCHANGED aggregatorVars
        BY <2>3
    <2>4. QED  BY <2>1, <2>2, <2>3 DEF NextLive, BroadcastSnapshot, liveVars
<1>3. QED  BY <1>2, AggregatorInvariant, PTL DEF SpecLive, BusiestAreRanked

-----------------------------------------------------------------------------
(* From end to end *)

\* A step of the whole is a step of the hub, or leaves it alone.
LEMMA LiveImpliesHub == SpecLive => Spec
<1>1. [NextLive]_liveVars => [Next]_vars
    BY DEF NextLive, liveVars, Next, RecordRequest, TakeSnapshot, BroadcastSnapshot
<1>2. QED  BY <1>1, PTL DEF SpecLive, InitLive, Spec

\* The loop has at most one snapshot it has not broadcast.
InStep == Len(windows) \in {broadcasts, broadcasts + 1}

\* The loop broadcasts every snapshot before it takes another.
LEMMA LoopKeepsStep == InStep /\ AggregatorInv /\ QueueInv /\ [NextLive]_liveVars => InStep'
<1> SUFFICES ASSUME InStep, AggregatorInv, QueueInv, [NextLive]_liveVars PROVE InStep'
    OBVIOUS
<1>1. Len(windows) \in Nat /\ broadcasts \in Nat /\ windows \in Seq(Snapshots)
    BY OpenIsLast DEF QueueInv, QueueTypes, AggregatorInv
<1>2. CASE TakeSnapshot
    <2>1. \E w : windows' = Append(windows, w)
        BY <1>2 DEF TakeSnapshot, Snapshot
    <2>2. Len(windows') = Len(windows) + 1
        BY <1>1, <2>1, AppendProperties
    <2>3. QED  BY <1>1, <1>2, <2>2 DEF TakeSnapshot, vars, InStep
<1>3. CASE BroadcastSnapshot
    BY <1>1, <1>3 DEF BroadcastSnapshot, Broadcast, aggregatorVars, InStep
<1>4. CASE RecordRequest
    BY <1>4 DEF RecordRequest, Record, vars, InStep
<1>5. ASSUME NEW c \in Client, ClientStep(c), UNCHANGED aggregatorVars PROVE InStep'
    <2>1. broadcasts' = broadcasts
        BY <1>5 DEF ClientStep, Goroutine, Pump, Register, StartPumps, CloseDropped, ReadFails, Unregister,
                    Leave, Take, Write, WriteFails, Drained, Stall, Vanish
    <2>2. QED  BY <1>5, <2>1 DEF aggregatorVars, InStep
<1>6. CASE UNCHANGED liveVars
    BY <1>6 DEF liveVars, vars, aggregatorVars, InStep
<1>7. QED  BY <1>2, <1>3, <1>4, <1>5, <1>6 DEF NextLive

\* What a client was written carries the numbers after the one it joined at.
WrittenInv == \A c \in Client : \A i \in 1 .. Len(delivered[c]) : delivered[c][i] = joined[c] + i

\* A write goes on where the last one ended.
LEMMA StepKeepsWritten == QueueInv /\ WrittenInv /\ [Next]_vars => WrittenInv'
<1> SUFFICES ASSUME QueueInv, WrittenInv, [Next]_vars PROVE WrittenInv'
    OBVIOUS
<1>1. CASE UNCHANGED <<joined, delivered>>
    BY <1>1 DEF WrittenInv
<1>2. ASSUME NEW c \in Client, Register(c) PROVE WrittenInv'
    <2>1. delivered[c] = <<>> /\ delivered' = delivered
        BY <1>2 DEF Register, QueueInv, InPlace
    <2>2. \A d \in Client : d # c => joined'[d] = joined[d]
        BY <1>2 DEF Register, QueueInv, QueueTypes
    <2>3. Len(delivered[c]) = 0
        BY <2>1
    <2>4. QED  BY <2>1, <2>2, <2>3 DEF WrittenInv
<1>3. ASSUME NEW c \in Client, Write(c) PROVE WrittenInv'
    <2>1. joined' = joined /\ \A d \in Client : d # c => delivered'[d] = delivered[d]
        BY <1>3 DEF Write, QueueInv, QueueTypes
    <2>2. PICK j \in Nat, n \in Nat, s \in Seq(Nat) :
            /\ j = joined[c] /\ s = delivered[c] /\ n = Len(s)
            /\ delivered'[c] = Append(s, j + n + 1)
        BY <1>3, WriteMoves DEF QueueInv, QueueTypes
    <2>3. PICK t : t = Append(s, j + n + 1)
        OBVIOUS
    <2>4. Len(t) = n + 1 /\ t[n + 1] = j + n + 1 /\ \A i \in 1 .. n : t[i] = s[i]
        BY <2>2, <2>3
    <2>5. \A i \in 1 .. n : s[i] = j + i
        <3>1. \A i \in 1 .. Len(delivered[c]) : delivered[c][i] = joined[c] + i
            BY DEF WrittenInv
        <3>2. QED  BY <2>2, <3>1
    <2>6. ASSUME NEW i \in 1 .. n + 1 PROVE t[i] = j + i
        <3>1. CASE i = n + 1
            BY <2>4, <3>1
        <3>2. CASE i # n + 1
            <4>1. i \in 1 .. n
                BY <3>2
            <4>2. t[i] = s[i] /\ s[i] = j + i
                BY <2>4, <2>5, <4>1
            <4>3. QED  BY <4>2
        <3>3. QED  BY <3>1, <3>2
    <2>7. delivered'[c] = t /\ joined'[c] = j
        BY <2>1, <2>2, <2>3
    <2>8. \A i \in 1 .. Len(delivered'[c]) : delivered'[c][i] = joined'[c] + i
        BY <2>4, <2>6, <2>7
    <2>9. ASSUME NEW x \in Client, x # c
          PROVE  \A i \in 1 .. Len(delivered'[x]) : delivered'[x][i] = joined'[x] + i
        BY <2>1, <2>9 DEF WrittenInv
    <2>10. QED  BY <2>8, <2>9 DEF WrittenInv
<1>4. CASE Broadcast
    BY <1>1, <1>4 DEF Broadcast
<1>5. ASSUME NEW c \in Client, ClientStep(c), ~Register(c), ~Write(c)
      PROVE  UNCHANGED <<joined, delivered>>
    BY <1>5 DEF ClientStep, Goroutine, Pump, StartPumps, CloseDropped, ReadFails, Unregister,
                    Leave, Take, WriteFails, Drained, Stall, Vanish
<1>6. QED  BY <1>1, <1>2, <1>3, <1>4, <1>5 DEF Next, vars

\* The numbers after n, in order.
Consecutive(s, n) == \A i \in 1 .. Len(s) : s[i] = n + i

\* A stretch of numbers that goes on where another ends.
LEMMA JoinConsecutive ==
    ASSUME NEW s \in Seq(Nat), NEW t \in Seq(Nat), NEW n \in Nat, NEW m \in Nat,
           Consecutive(s, n), Consecutive(t, m), m = n + Len(s)
    PROVE  Consecutive(s \o t, n) /\ Len(s \o t) = Len(s) + Len(t) /\ s \o t \in Seq(Nat)
<1>1. /\ s \o t \in Seq(Nat) /\ Len(s) \in Nat /\ Len(t) \in Nat /\ Len(s \o t) = Len(s) + Len(t)
      /\ \A i \in 1 .. Len(s) + Len(t) : (s \o t)[i] = IF i <= Len(s) THEN s[i] ELSE t[i - Len(s)]
    BY ConcatProperties
<1>2. ASSUME NEW i \in 1 .. Len(s) + Len(t) PROVE (s \o t)[i] = n + i
    <2>1. CASE i <= Len(s)
        BY <1>1, <2>1 DEF Consecutive
    <2>2. CASE i > Len(s)
        <3>1. i - Len(s) \in 1 .. Len(t)
            BY <1>1, <2>2
        <3>2. t[i - Len(s)] = m + (i - Len(s))
            BY <3>1 DEF Consecutive
        <3>3. QED  BY <1>1, <2>2, <3>2
    <2>3. QED  BY <1>1, <2>1, <2>2
<1>3. QED  BY <1>1, <1>2 DEF Consecutive

\* Four stretches, each beginning where the one before it ends: the windows before
\* the panel came, what it was written, what writePump holds, and what waits.
LEMMA MeantForPanel ==
    ASSUME QueueInv, WrittenInv, NEW c \in clients
    PROVE  LET all == [n \in 1 .. joined[c] |-> n] \o (delivered[c] \o hand[c] \o buffer[c])
           IN  all \in Seq(Nat) /\ Len(all) = broadcasts /\ Consecutive(all, 0)
<1>1. c \in Client /\ InSequence(c)
    BY DEF QueueInv, QueueTypes
<1>2. PICK j \in Nat, d \in Seq(Nat), h \in Seq(Nat), b \in Seq(Nat) :
        j = joined[c] /\ d = delivered[c] /\ h = hand[c] /\ b = buffer[c]
    BY <1>1 DEF QueueInv, QueueTypes
<1> DEFINE before == [n \in 1 .. j |-> n]
<1>3. before \in Seq(Nat) /\ Len(before) = j /\ Consecutive(before, 0)
    BY DEF Consecutive
<1> HIDE DEF before
<1>4. Consecutive(d, j)
    BY <1>1, <1>2 DEF WrittenInv, Consecutive
<1>5. Consecutive(h, j + Len(d))
    <2>1. CASE h = <<>>
        BY <2>1 DEF Consecutive
    <2>2. CASE h # <<>>
        <3>1. h = <<j + Len(d) + 1>>
            BY <1>1, <1>2, <2>2 DEF InSequence
        <3>2. Len(h) = 1 /\ h[1] = j + Len(d) + 1
            BY <3>1
        <3>3. QED  BY <3>2 DEF Consecutive
    <2>3. QED  BY <2>1, <2>2
<1>6. Consecutive(b, j + Len(d) + Len(h))
    BY <1>1, <1>2 DEF InSequence, Consecutive
<1>7. broadcasts = j + Len(d) + Len(h) + Len(b)
    BY <1>1, <1>2 DEF InSequence, LastMeant
<1>8. /\ d \o h \in Seq(Nat) /\ Len(d \o h) = Len(d) + Len(h) /\ Consecutive(d \o h, j)
    <2>1. j + Len(d) \in Nat
        OBVIOUS
    <2>2. QED  BY <1>4, <1>5, <2>1, JoinConsecutive
<1>9. /\ d \o h \o b \in Seq(Nat) /\ Len(d \o h \o b) = Len(d) + Len(h) + Len(b)
      /\ Consecutive(d \o h \o b, j)
    <2>1. PICK s : s = d \o h
        OBVIOUS
    <2>2. s \in Seq(Nat) /\ Len(s) = Len(d) + Len(h) /\ Consecutive(s, j)
        BY <1>8, <2>1
    <2>3. PICK m \in Nat : m = j + Len(d) + Len(h) /\ m = j + Len(s)
        BY <2>2
    <2>4. Consecutive(b, m)
        BY <1>6, <2>3
    <2>5. s \o b \in Seq(Nat) /\ Len(s \o b) = Len(s) + Len(b) /\ Consecutive(s \o b, j)
        BY <2>2, <2>3, <2>4, JoinConsecutive
    <2>6. QED  BY <2>1, <2>2, <2>5
<1>10. /\ before \o (d \o h \o b) \in Seq(Nat)
       /\ Len(before \o (d \o h \o b)) = j + (Len(d) + Len(h) + Len(b))
       /\ Consecutive(before \o (d \o h \o b), 0)
    <2>1. j = 0 + Len(before) /\ 0 \in Nat
        BY <1>3
    <2> DEFINE its == d \o h \o b
    <2>2. its \in Seq(Nat) /\ Len(its) = Len(d) + Len(h) + Len(b) /\ Consecutive(its, j)
        BY <1>9
    <2> HIDE DEF its
    <2>3. /\ before \o its \in Seq(Nat) /\ Len(before \o its) = Len(before) + Len(its)
          /\ Consecutive(before \o its, 0)
        BY <1>3, <2>1, <2>2, JoinConsecutive
    <2>4. Len(before \o its) = j + (Len(d) + Len(h) + Len(b))
        BY <1>3, <2>2, <2>3
    <2>5. QED  BY <2>3, <2>4, Zenon DEF its
<1>11. Len(before \o (d \o h \o b)) = broadcasts
    <2>1. j + (Len(d) + Len(h) + Len(b)) = j + Len(d) + Len(h) + Len(b)
        OBVIOUS
    <2>2. QED  BY <1>7, <1>10, <2>1
<1>12. QED  BY <1>2, <1>10, <1>11, Zenon DEF before

\* From end to end: whatever is recorded, broadcast, dropped and written meanwhile,
\* the windows a registered panel knows of are all the windows there are, once each.
THEOREM PanelSeesAll == SpecLive => []PanelMissesNothing
<1> DEFINE LiveInv == AggregatorInv /\ QueueInv /\ WrittenInv /\ InStep
<1>1. ASSUME LiveInv, NEW c \in clients, NEW i \in DOMAIN recorded
      PROVE  LET its == delivered[c] \o hand[c] \o buffer[c]
                 next == IF Len(windows) > broadcasts THEN <<Len(windows)>> ELSE <<>>
                 all == [n \in 1 .. joined[c] |-> n] \o its \o next
                 w == recorded[i].window
             IN  Cardinality({j \in DOMAIN all : all[j] = w}) = IF w <= Len(windows) THEN 1 ELSE 0
    <2> DEFINE known == [n \in 1 .. joined[c] |-> n] \o (delivered[c] \o hand[c] \o buffer[c])
               next == IF Len(windows) > broadcasts THEN <<Len(windows)>> ELSE <<>>
               all == known \o next
    <2>1. known \in Seq(Nat) /\ Len(known) = broadcasts /\ Consecutive(known, 0)
        BY <1>1, MeantForPanel
    <2>2. broadcasts \in Nat /\ Len(windows) \in Nat /\ Len(windows) \in {broadcasts, broadcasts + 1}
        BY <1>1, OpenIsLast DEF QueueInv, QueueTypes, InStep
    <2>3. next \in Seq(Nat) /\ Len(next) = Len(windows) - broadcasts /\ Consecutive(next, broadcasts)
        <3>1. CASE Len(windows) = broadcasts
            <4>1. next = <<>>
                BY <2>2, <3>1
            <4>2. QED  BY <2>2, <3>1, <4>1 DEF Consecutive
        <3>2. CASE Len(windows) = broadcasts + 1
            <4>1. next = <<broadcasts + 1>>
                BY <2>2, <3>2
            <4>2. QED  BY <2>2, <3>2, <4>1 DEF Consecutive
        <3>3. QED  BY <2>2, <3>1, <3>2
    <2> HIDE DEF known, next
    <2>4. all \in Seq(Nat) /\ Len(all) = Len(windows) /\ Consecutive(all, 0)
        <3>1. 0 \in Nat /\ broadcasts = 0 + Len(known)
            BY <2>1, <2>2
        <3>2. /\ known \o next \in Seq(Nat) /\ Len(known \o next) = Len(known) + Len(next)
              /\ Consecutive(known \o next, 0)
            BY <2>1, <2>2, <2>3, <3>1, JoinConsecutive
        <3>3. Len(known) + Len(next) = Len(windows)
            BY <2>1, <2>2, <2>3
        <3>4. QED  BY <3>2, <3>3, Zenon
    <2>5. PICK w \in Nat : w = recorded[i].window /\ w \in 1 .. Len(windows) + 1
        <3>1. recorded[i].window \in 1 .. Open
            BY <1>1, OpenIsLast
        <3>2. Open = Len(windows) + 1
            BY DEF Open
        <3>3. QED  BY <2>2, <3>1, <3>2
    <2> HIDE DEF all
    <2>6. DOMAIN all = 1 .. Len(windows) /\ \A j \in 1 .. Len(windows) : all[j] = j
        BY <2>2, <2>4 DEF Consecutive
    <2>7. {j \in DOMAIN all : all[j] = w} = IF w <= Len(windows) THEN {w} ELSE {}
        BY <2>2, <2>5, <2>6
    <2>8. Cardinality({j \in DOMAIN all : all[j] = w}) = IF w <= Len(windows) THEN 1 ELSE 0
        BY <2>7, FS_EmptySet, FS_Singleton
    <2>9. QED  BY <2>5, <2>8 DEF all, known, next
<1>2. LiveInv => PanelMissesNothing
    BY <1>1 DEF PanelMissesNothing
<1>3. Init => WrittenInv
    BY DEF Init, WrittenInv
<1>4. InitLive => InStep
    BY DEF InitLive, Init, InitAggregator, InStep
<1>5. QED
    BY <1>2, <1>3, <1>4, LoopKeepsStep, StepKeepsWritten, LiveImpliesHub, AggregatorInvariant, QueueInvariant, PTL
       DEF SpecLive, Spec
=============================================================================
