-------------------------------- MODULE Feed --------------------------------
(***************************************************************************)
(* What the hub promises its clients, without channels, goroutines, locks  *)
(* or connections: the messages are numbered as they are published, a      *)
(* client receives those published while it was subscribed, in order and   *)
(* without a gap, and nobody waits for it: one that is behind by more than *)
(* a buffer is cut off, and no other is.                                   *)
(***************************************************************************)
EXTENDS Integers, Sequences

CONSTANTS
    Client,  \* those who may subscribe, once each
    Cap      \* how far behind a client may be

VARIABLES
    phase,      \* of a client: "new", "subscribed" or "left"
    published,  \* number of messages so far; the n-th message is n
    from,       \* the last message before the client subscribed
    until,      \* the last message meant for the client
    received    \* the messages the client was given

feedVars == <<phase, published, from, until, received>>

Behind(c) == until[c] - from[c] - Len(received[c])

Init ==
    /\ phase = [c \in Client |-> "new"]
    /\ published = 0
    /\ from = [c \in Client |-> 0]
    /\ until = [c \in Client |-> 0]
    /\ received = [c \in Client |-> <<>>]

Subscribe(c) ==
    /\ phase[c] = "new"
    /\ phase' = [phase EXCEPT ![c] = "subscribed"]
    /\ from' = [from EXCEPT ![c] = published]
    /\ until' = [until EXCEPT ![c] = published]
    /\ UNCHANGED <<published, received>>

\* A message is for every subscriber but those who are cut off for having too
\* much to read already.
Publish ==
    /\ published' = published + 1
    /\ \E cut \in SUBSET {c \in Client : phase[c] = "subscribed" /\ Behind(c) >= Cap} :
        LET kept == {c \in Client : phase[c] = "subscribed"} \ cut
        IN  /\ \A c \in kept : Behind(c) <= Cap
            /\ phase' = [c \in Client |-> IF c \in cut THEN "left" ELSE phase[c]]
            /\ until' = [c \in Client |-> IF c \in kept THEN published' ELSE until[c]]
    /\ UNCHANGED <<from, received>>

\* A client that has left may still be given what was meant for it.
Deliver(c) ==
    /\ Behind(c) > 0
    /\ received' = [received EXCEPT ![c] = Append(@, from[c] + Len(@) + 1)]
    /\ UNCHANGED <<phase, published, from, until>>

Leave(c) ==
    /\ phase[c] = "subscribed"
    /\ phase' = [phase EXCEPT ![c] = "left"]
    /\ UNCHANGED <<published, from, until, received>>

Next == Publish \/ \E c \in Client : Subscribe(c) \/ Deliver(c) \/ Leave(c)

Spec == Init /\ [][Next]_feedVars
=============================================================================
