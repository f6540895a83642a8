------------------------- MODULE SlidingWindowProofs -------------------------
(***************************************************************************)
(* The limiter keeps its promise for any number of calls and of attempts,  *)
(* any limits, and any window, lag and lead.                               *)
(*                                                                         *)
(* WithinQuota is not inductive: nothing in it says why an admission that  *)
(* still counts is still in the sorted set.  Inv adds it.  An admission m  *)
(* has a stamp now[m] >= at[m] - Lag; a script runs with a stamp           *)
(* now[c] <= clock + Lead; so what it removes, stamped now[c] - Window or  *)
(* before, was admitted at clock - Span or before.  What expires was       *)
(* admitted a whole Window ago.  Therefore every admission of the last     *)
(* Span is in the set, and ZCARD counts it.                                *)
(***************************************************************************)
EXTENDS SlidingWindow, FiniteSetTheorems, TLAPS

(* A call that has not started is unknown to Redis, one that was sent has a  *)
(* positive limit, and a stamp is never more than Lead ahead.                *)
StampInv(c) ==
    /\ pc[c] = "idle" => inflight[c] = {} /\ c \notin granted
    /\ pc[c] = "waiting" \/ inflight[c] # {} => limit[c] \in Limits /\ 0 < limit[c]
    /\ 0 <= now[c] /\ now[c] <= clock + Lead

(* An admitted call was stamped about when it was admitted, expires no       *)
(* earlier than a Window after, and is in the set while it counts.           *)
GrantInv(c) ==
    c \in granted =>
        /\ at[c] <= clock
        /\ at[c] - Lag <= now[c] /\ now[c] <= at[c] + Lead
        /\ at[c] + Window <= expireAt
        /\ clock - Span < at[c] => c \in zset

(* The invariant all the theorems rest on. *)
Inv ==
    /\ TypeOK
    /\ Lag <= clock
    /\ zset \subseteq granted
    /\ IsFiniteSet(granted)
    /\ \A c \in Call : StampInv(c) /\ GrantInv(c)

USE LimitsAssumption, TimeAssumption, AttemptsAssumption

(* The variables keep their types. *)
LEMMA TypeStep == TypeOK /\ [Next]_vars => TypeOK'
<1> SUFFICES ASSUME TypeOK, [Next]_vars PROVE TypeOK'
  OBVIOUS
<1> USE DEF TypeOK
<1>1. CASE Tick
  BY <1>1 DEF Tick
<1>2. ASSUME NEW c \in Call, Refuse(c) PROVE TypeOK'
  BY <1>2 DEF Refuse
<1>3. ASSUME NEW c \in Call, Send(c) PROVE TypeOK'
  BY <1>3 DEF Send
<1>4. ASSUME NEW c \in Call, Resend(c) PROVE TypeOK'
  BY <1>4 DEF Resend, MayResend
<1>5. ASSUME NEW c \in Call, Fail(c) PROVE TypeOK'
  BY <1>5 DEF Fail
<1>6. ASSUME NEW c \in Call, NEW a \in inflight[c], Admit(c, a) PROVE TypeOK'
  BY <1>6 DEF Admit, Reply, Kept, Live, Deadline
<1>7. ASSUME NEW c \in Call, NEW a \in inflight[c], Deny(c, a) PROVE TypeOK'
  <2>1. RetryAfter(c, Kept(c)) \subseteq Int
    BY DEF RetryAfter, Oldest, Kept, Live
  <2> QED
    BY <1>7, <2>1 DEF Deny, Reply, Kept, Live
<1>8. CASE Lose
  BY <1>8 DEF Lose, Deadline
<1>9. CASE UNCHANGED vars
  BY <1>9 DEF vars
<1> QED
  BY <1>1, <1>2, <1>3, <1>4, <1>5, <1>6, <1>7, <1>8, <1>9 DEF Next

(* The limiter's variables have their types in every state. *)
THEOREM TypeCorrect == Spec => []TypeOK
<1>1. Init => TypeOK
  BY DEF Init, TypeOK
<1> QED
  BY <1>1, TypeStep, PTL DEF Spec

(* The heart of the argument: what a script is about to count contains every *)
(* admission of the last Span, and is finite.                                *)
LEMMA KeptCovers ==
    ASSUME Inv, NEW c \in Call, NEW a \in inflight[c], Runnable(c, a)
    PROVE  /\ Admitted(clock, Span) \subseteq Kept(c)
           /\ Kept(c) \subseteq granted
           /\ IsFiniteSet(Kept(c))
<1> USE DEF Inv, TypeOK
<1>1. Kept(c) \subseteq granted
  BY DEF Kept, Live
<1>2. IsFiniteSet(Kept(c))
  BY <1>1, FS_Subset
<1>3. ASSUME NEW m \in Admitted(clock, Span) PROVE m \in Kept(c)
  <2>1. /\ m \in granted /\ m \in Call
        /\ clock - Span < at[m]
        /\ m \in zset
        /\ at[m] - Lag <= now[m]
        /\ at[m] + Window <= expireAt
    BY <1>3 DEF Admitted, GrantInv
  <2>2. now[c] <= clock + Lead
    BY DEF StampInv
  <2>3. m \in Live
    BY <2>1 DEF Live, Span
  <2>4. ~OutOfWindow(now[m], now[c])
    BY <2>1, <2>2 DEF OutOfWindow, Span
  <2> QED
    BY <2>3, <2>4 DEF Kept
<1> QED
  BY <1>1, <1>2, <1>3

(* Every step of a gateway, of Redis or of the clock preserves Inv. *)
LEMMA Inductive == Inv /\ [Next]_vars => Inv'
<1> SUFFICES ASSUME Inv, [Next]_vars PROVE Inv'
  OBVIOUS
<1>0. TypeOK'
  BY TypeStep DEF Inv
<1> USE DEF Inv, TypeOK
<1>1. CASE Tick
  BY <1>0, <1>1 DEF Tick, StampInv, GrantInv, Span
<1>2. ASSUME NEW c \in Call, Refuse(c) PROVE Inv'
  BY <1>0, <1>2 DEF Refuse, StampInv, GrantInv, Span
<1>3. ASSUME NEW c \in Call, Send(c) PROVE Inv'
  BY <1>0, <1>3 DEF Send, StampInv, GrantInv, Span
<1>4. ASSUME NEW c \in Call, Resend(c) PROVE Inv'
  BY <1>0, <1>4 DEF Resend, MayResend, StampInv, GrantInv, Span
<1>5. ASSUME NEW c \in Call, Fail(c) PROVE Inv'
  BY <1>0, <1>5 DEF Fail, StampInv, GrantInv, Span
<1>6. ASSUME NEW c \in Call, NEW a \in inflight[c], Admit(c, a) PROVE Inv'
  <2>1. /\ Admitted(clock, Span) \subseteq Kept(c)
        /\ Kept(c) \subseteq granted
    BY <1>6, KeptCovers DEF Admit
  <2>2. IsFiniteSet(granted')
    BY <1>6, FS_AddElement DEF Admit
  <2>3. zset' \subseteq granted'
    BY <1>6, <2>1 DEF Admit
  <2>4. ASSUME NEW m \in Call PROVE StampInv(m)'
    BY <1>0, <1>6, <2>4 DEF Admit, Reply, StampInv
  <2>5. ASSUME NEW m \in Call PROVE GrantInv(m)'
    <3>1. CASE m = c
      BY <1>6, <3>1 DEF Admit, Runnable, GrantInv, StampInv, Deadline
    <3>2. CASE m # c
      BY <1>6, <2>1, <3>2 DEF Admit, GrantInv, Deadline, Admitted, Span
    <3> QED
      BY <3>1, <3>2
  <2>6. Lag <= clock'
    BY <1>6 DEF Admit
  <2> QED
    BY <1>0, <2>2, <2>3, <2>4, <2>5, <2>6
<1>7. ASSUME NEW c \in Call, NEW a \in inflight[c], Deny(c, a) PROVE Inv'
  <2>1. /\ Admitted(clock, Span) \subseteq Kept(c)
        /\ Kept(c) \subseteq granted
    BY <1>7, KeptCovers DEF Deny
  <2>2. ASSUME NEW m \in Call PROVE StampInv(m)'
    BY <1>7 DEF Deny, Reply, StampInv
  <2>3. ASSUME NEW m \in Call PROVE GrantInv(m)'
    BY <1>7, <2>1 DEF Deny, GrantInv, Admitted, Span
  <2> QED
    BY <1>0, <1>7, <2>1, <2>2, <2>3 DEF Deny
<1>8. CASE Lose
  <2>1. PICK rest \in SUBSET zset : zset' = rest /\ granted' = rest
    BY <1>8 DEF Lose
  <2>2. IsFiniteSet(granted') /\ granted' \subseteq granted
    BY <2>1, FS_Subset
  <2>3. ASSUME NEW m \in Call PROVE StampInv(m)'
    BY <1>8, <2>2 DEF Lose, StampInv
  <2>4. ASSUME NEW m \in Call PROVE GrantInv(m)'
    BY <1>8, <2>1, <2>2 DEF Lose, GrantInv, Deadline, Span
  <2> QED
    BY <1>0, <1>8, <2>1, <2>2, <2>3, <2>4 DEF Lose
<1>9. CASE UNCHANGED vars
  BY <1>0, <1>9 DEF vars, StampInv, GrantInv, Span
<1> QED
  BY <1>1, <1>2, <1>3, <1>4, <1>5, <1>6, <1>7, <1>8, <1>9 DEF Next

(* Inv holds in every state that is reached. *)
LEMMA Invariance == Spec => []Inv
<1>1. Init => Inv
  BY FS_EmptySet DEF Init, Inv, TypeOK, StampInv, GrantInv
<1> QED
  BY <1>1, Inductive, PTL DEF Spec

(* Neither another gateway's stamp nor the expiry of the key loses an        *)
(* admission that still counts.                                              *)
THEOREM RecentHeldAlways == Spec => []RecentHeld
<1>1. Inv => RecentHeld
  <2> SUFFICES ASSUME Inv, NEW m \in Admitted(clock, Span) PROVE m \in Live
    BY DEF RecentHeld
  <2>1. m \in granted /\ m \in Call /\ clock - Span < at[m]
    BY DEF Admitted, Inv, TypeOK
  <2> QED
    BY <2>1 DEF Inv, TypeOK, GrantInv, Live, Span
<1> QED
  BY <1>1, Invariance, PTL

-----------------------------------------------------------------------------
(* What the promise is worth, whoever keeps it: Promise!Spec is all that is  *)
(* assumed of clock, granted and at here.                                    *)

(* INSTANCE gives the promise its own copies of these; they are the same.    *)
LEMMA SameCardinality == \A S : Promise!Cardinality(S) = Cardinality(S)
  BY DEF Promise!Cardinality, Cardinality

(* So is IsFiniteSet.                                                        *)
LEMMA SameFiniteness == \A S : Promise!IsFiniteSet(S) <=> IsFiniteSet(S)
  BY DEF Promise!IsFiniteSet, IsFiniteSet

(* All that is used of Span here.                                            *)
LEMMA SpanIsInt == Span \in Int
  BY DEF Span

(* Adding one element to a subset of a finite set that has fewer than l      *)
(* elements gives at most m: what one admission does to a window.            *)
LEMMA OneMore ==
    ASSUME NEW S, NEW T, NEW x, NEW l \in Int, NEW m \in Int,
           IsFiniteSet(S), T \subseteq S, Cardinality(S) < l, l <= m
    PROVE  Cardinality(T \cup {x}) <= m
<1>1. IsFiniteSet(T) /\ Cardinality(T) <= Cardinality(S)
  BY FS_Subset
<1>2. Cardinality(T) \in Nat /\ Cardinality(S) \in Nat
  BY <1>1, FS_CardinalityType
<1>3. Cardinality(T \cup {x}) \in {Cardinality(T), Cardinality(T) + 1}
  BY <1>1, FS_AddElement
<1> QED
  BY <1>1, <1>2, <1>3

(* Grants are finitely many, and past.                                       *)
GrantsOK ==
    /\ clock \in Nat
    /\ granted \subseteq Call
    /\ IsFiniteSet(granted)
    /\ at \in [Call -> Int]
    /\ \A c \in granted : at[c] <= clock

(* No grant yet.                                                             *)
LEMMA GrantsInit == Promise!Init => GrantsOK
  BY FS_EmptySet DEF Promise!Init, GrantsOK

(* A grant is made now, by a call.                                           *)
LEMMA GrantsStep == GrantsOK /\ [Promise!Next]_(Promise!vars) => GrantsOK'
<1> SUFFICES ASSUME GrantsOK, [Promise!Next]_(Promise!vars) PROVE GrantsOK'
  OBVIOUS
<1>1. CASE Promise!Tick
  BY <1>1 DEF Promise!Tick, GrantsOK
<1>2. ASSUME NEW c \in Call, NEW l \in Limits, Promise!Grant(c, l) PROVE GrantsOK'
  <2>1. IsFiniteSet(granted')
    BY <1>2, FS_AddElement DEF Promise!Grant, GrantsOK
  <2> QED
    BY <1>2, <2>1 DEF Promise!Grant, GrantsOK
<1>3. CASE Promise!Forget
  <2>1. IsFiniteSet(granted')
    BY <1>3, FS_Subset DEF Promise!Forget, GrantsOK
  <2> QED
    BY <1>3, <2>1 DEF Promise!Forget, GrantsOK
<1>4. CASE UNCHANGED Promise!vars
  BY <1>4 DEF Promise!vars, GrantsOK
<1> QED
  BY <1>1, <1>2, <1>3, <1>4 DEF Promise!Next

(* The variables of the promise keep their types.                            *)
THEOREM PromiseTypeCorrect == Promise!Spec => []Promise!TypeOK
<1>1. Promise!TypeOK <=> GrantsOK
  BY SameFiniteness DEF Promise!TypeOK, GrantsOK
<1> QED
  BY <1>1, GrantsInit, GrantsStep, PTL DEF Promise!Spec

(* The bound, with the Cardinality the lemmas are about.                     *)
Within == \A t \in 0 .. clock : Cardinality(Promise!Recent(t)) <= MaxLimit

(* No window of length Span holds more than MaxLimit grants.  A grant adds   *)
(* one call to the window that ends now, which had room for it, and moves it *)
(* out of the windows that ended before.                                     *)
THEOREM PromiseBounds == Promise!Spec => []Promise!WithinQuota
<1> USE SpanIsInt
<1>1. GrantsOK /\ Promise!Init => Within
  <2> SUFFICES ASSUME GrantsOK, Promise!Init, NEW t \in 0 .. clock
               PROVE  Cardinality(Promise!Recent(t)) <= MaxLimit
    BY DEF Within
  <2>1. Promise!Recent(t) = {}
    BY DEF Promise!Init, Promise!Recent
  <2> QED
    BY <2>1, FS_EmptySet
<1>2. GrantsOK /\ Within /\ [Promise!Next]_(Promise!vars) => Within'
  <2> SUFFICES ASSUME GrantsOK, Within, [Promise!Next]_(Promise!vars) PROVE Within'
    OBVIOUS
  <2>1. CASE Promise!Tick
    <3> SUFFICES ASSUME NEW t \in 0 .. clock + 1
                 PROVE  Cardinality(Promise!Recent(t)') <= MaxLimit
      BY <2>1 DEF Promise!Tick, Within, Promise!Recent
    <3>0. Promise!Recent(t)' = Promise!Recent(t)
      BY <2>1 DEF Promise!Tick, Promise!Recent
    <3>1. CASE t \in 0 .. clock
      BY <3>0, <3>1 DEF Within
    <3>2. CASE t = clock + 1
      <4>1. Promise!Recent(t) \subseteq Promise!Recent(clock)
        BY <3>2 DEF Promise!Recent, GrantsOK
      <4>2. IsFiniteSet(Promise!Recent(clock))
        BY FS_Subset DEF Promise!Recent, GrantsOK
      <4>3. /\ Cardinality(Promise!Recent(t)) <= Cardinality(Promise!Recent(clock))
            /\ Cardinality(Promise!Recent(t)) \in Nat
            /\ Cardinality(Promise!Recent(clock)) \in Nat
        BY <4>1, <4>2, FS_Subset, FS_CardinalityType
      <4>4. Cardinality(Promise!Recent(clock)) <= MaxLimit
        BY DEF Within, GrantsOK
      <4> QED
        BY <3>0, <4>3, <4>4
    <3> QED
      BY <3>1, <3>2 DEF GrantsOK
  <2>2. ASSUME NEW c \in Call, NEW l \in Limits, Promise!Grant(c, l) PROVE Within'
    <3> SUFFICES ASSUME NEW t \in 0 .. clock
                 PROVE  Cardinality(Promise!Recent(t)') <= MaxLimit
      BY <2>2 DEF Promise!Grant, Within, Promise!Recent
    <3>1. CASE t < clock
      <4>1. Promise!Recent(t)' \subseteq Promise!Recent(t)
        BY <2>2, <3>1 DEF Promise!Grant, Promise!Recent, GrantsOK
      <4>2. IsFiniteSet(Promise!Recent(t))
        BY FS_Subset DEF Promise!Recent, GrantsOK
      <4>3. /\ Cardinality(Promise!Recent(t)') <= Cardinality(Promise!Recent(t))
            /\ Cardinality(Promise!Recent(t)') \in Nat
            /\ Cardinality(Promise!Recent(t)) \in Nat
        BY <4>1, <4>2, FS_Subset, FS_CardinalityType
      <4> QED
        BY <4>3 DEF Within
    <3>2. CASE t = clock
      <4> DEFINE Others == Promise!Recent(clock) \ {c}
      <4>1. IsFiniteSet(Others)
        BY FS_Subset DEF Promise!Recent, GrantsOK
      <4>2. Cardinality(Others) < l
        BY <2>2, SameCardinality DEF Promise!Grant
      <4>3. Cardinality(Others \cup {c}) <= MaxLimit
        <5>1. l \in Int /\ MaxLimit \in Int /\ l <= MaxLimit
          OBVIOUS
        <5> HIDE DEF Others
        <5> QED
          BY <4>1, <4>2, <5>1, OneMore
      <4>4. Promise!Recent(t)' \subseteq Others \cup {c}
        BY <2>2, <3>2 DEF Promise!Grant, Promise!Recent, GrantsOK
      <4>5. IsFiniteSet(Others \cup {c})
        BY <4>1, FS_AddElement
      <4>6. /\ Cardinality(Promise!Recent(t)') <= Cardinality(Others \cup {c})
            /\ Cardinality(Promise!Recent(t)') \in Nat
            /\ Cardinality(Others \cup {c}) \in Nat
        BY <4>4, <4>5, FS_Subset, FS_CardinalityType
      <4> QED
        BY <4>3, <4>6
    <3> QED
      BY <3>1, <3>2 DEF GrantsOK
  <2>3. CASE Promise!Forget
    <3> SUFFICES ASSUME NEW t \in 0 .. clock
                 PROVE  Cardinality(Promise!Recent(t)') <= MaxLimit
      BY <2>3 DEF Promise!Forget, Within, Promise!Recent
    <3>1. Promise!Recent(t)' \subseteq Promise!Recent(t)
      BY <2>3 DEF Promise!Forget, Promise!Recent
    <3>2. IsFiniteSet(Promise!Recent(t))
      BY FS_Subset DEF Promise!Recent, GrantsOK
    <3>3. /\ Cardinality(Promise!Recent(t)') <= Cardinality(Promise!Recent(t))
          /\ Cardinality(Promise!Recent(t)') \in Nat
          /\ Cardinality(Promise!Recent(t)) \in Nat
      BY <3>1, <3>2, FS_Subset, FS_CardinalityType
    <3> QED
      BY <3>3 DEF Within
  <2>4. CASE UNCHANGED Promise!vars
    BY <2>4 DEF Promise!vars, Within, Promise!Recent
  <2> QED
    BY <2>1, <2>2, <2>3, <2>4 DEF Promise!Next
<1>3. Promise!Init => GrantsOK
  BY GrantsInit
<1>4. Within <=> Promise!WithinQuota
  BY SameCardinality DEF Within, Promise!WithinQuota
<1> QED
  BY <1>1, <1>2, <1>3, <1>4, GrantsStep, PTL DEF Promise!Spec

(* The limiter implements the promise: an admission is a grant that the      *)
(* promise allows, because the script counted every grant it must count.     *)
THEOREM Refinement == Spec => KeepsPromise
<1>1. Init => Promise!Init
  BY DEF Init, Promise!Init
<1>2. Inv /\ [Next]_vars => [Promise!Next]_(Promise!vars)
  <2> SUFFICES ASSUME Inv, [Next]_vars PROVE [Promise!Next]_(Promise!vars)
    OBVIOUS
  <2> USE DEF Promise!Next, Promise!vars
  <2>1. CASE Tick
    BY <2>1 DEF Tick, Promise!Tick
  <2>2. ASSUME NEW c \in Call, Refuse(c) \/ Send(c) \/ Resend(c) \/ Fail(c)
        PROVE  UNCHANGED Promise!vars
    BY <2>2 DEF Refuse, Send, Resend, MayResend, Fail
  <2>3. ASSUME NEW c \in Call, NEW a \in inflight[c], Admit(c, a)
        PROVE  Promise!Next
    <3> DEFINE Others == Promise!Recent(clock) \ {c}
    <3>1. /\ Admitted(clock, Span) \subseteq Kept(c)
          /\ IsFiniteSet(Kept(c))
      BY <2>3, KeptCovers DEF Admit
    <3>2. Others \subseteq Kept(c)
      BY <3>1 DEF Admitted, Promise!Recent
    <3>3. /\ Cardinality(Others) <= Cardinality(Kept(c))
          /\ Cardinality(Others) \in Nat
          /\ Cardinality(Kept(c)) \in Nat
      BY <3>1, <3>2, FS_Subset, FS_CardinalityType
    <3>4. Cardinality(Kept(c)) < limit[c]
      BY <2>3 DEF Admit, HasRoom
    <3>5. limit[c] \in Limits
      BY DEF Inv, StampInv
    <3>6. Promise!Grant(c, limit[c])
      <4>1. limit[c] \in Int
        BY DEF Inv, TypeOK
      <4>2. Cardinality(Others) < limit[c]
        BY <3>3, <3>4, <4>1
      <4> QED
        BY <2>3, <4>2, SameCardinality DEF Promise!Grant, Admit
    <3> QED
      BY <3>5, <3>6
  <2>4. ASSUME NEW c \in Call, NEW a \in inflight[c], Deny(c, a)
        PROVE  UNCHANGED Promise!vars
    BY <2>4 DEF Deny
  <2>5. CASE Lose
    <3>1. PICK rest \in SUBSET zset : granted' = rest
      BY <2>5 DEF Lose
    <3>2. rest \subseteq granted
      BY DEF Inv
    <3> QED
      BY <2>5, <3>1, <3>2 DEF Lose, Promise!Forget
  <2>6. CASE UNCHANGED vars
    BY <2>6 DEF vars
  <2> QED
    BY <2>1, <2>2, <2>3, <2>4, <2>5, <2>6 DEF Next
<1> QED
  BY <1>1, <1>2, Invariance, PTL DEF Spec, KeepsPromise, Promise!Spec

(* No Span of real time contains more than MaxLimit admissions: what the     *)
(* promise bounds, the limiter that implements it bounds.                    *)
THEOREM QuotaKept == Spec => []WithinQuota
<1>1. Promise!WithinQuota => WithinQuota
  BY SameCardinality DEF Promise!WithinQuota, WithinQuota, Promise!Recent, Admitted
<1> QED
  BY <1>1, Refinement, PromiseBounds, PTL DEF KeepsPromise

-----------------------------------------------------------------------------
(* What a denial says, and how long it lasts. *)

(* A call is denied only when its limit of admissions were executed lately:  *)
(* what the script still counts is admissions whose stamps are in the window.*)
THEOREM DenialsJustified == Spec => DeniedOnlyWhenUsed
<1>1. ASSUME Inv, [Next]_vars, NEW c \in Call, pc[c] = "waiting", pc'[c] = "denied"
      PROVE  limit[c] <= Cardinality(Admitted(clock, Window + Lag + Lead))
  <2> USE DEF Inv, TypeOK
  <2> DEFINE Lately == Admitted(clock, Window + Lag + Lead)
  <2>1. PICK a \in inflight[c] : Deny(c, a)
    BY <1>1 DEF Next, vars, Tick, Lose, Refuse, Send, Resend, MayResend, Fail, Admit, Deny, Reply
  <2>2. Kept(c) \subseteq granted /\ IsFiniteSet(Kept(c))
    BY <1>1, <2>1, KeptCovers DEF Deny
  <2>3. ASSUME NEW m \in Kept(c) PROVE m \in Lately
    <3>1. m \in granted /\ m \in Call
      BY <1>1, <2>2
    <3>2. now[c] - Window < now[m]
      BY <1>1, <2>3, <3>1 DEF Kept, OutOfWindow, StampInv
    <3>3. at[m] <= clock /\ now[m] <= at[m] + Lead
      BY <1>1, <3>1 DEF GrantInv
    <3>4. clock - now[c] <= Lag
      BY <2>1 DEF Deny, Runnable
    <3> QED
      BY <1>1, <3>1, <3>2, <3>3, <3>4 DEF Admitted
  <2>4. IsFiniteSet(Lately)
    BY <1>1, FS_Subset DEF Admitted
  <2>5. Kept(c) \subseteq Lately
    BY <2>3
  <2> HIDE DEF Lately
  <2>6. /\ Cardinality(Kept(c)) <= Cardinality(Lately)
        /\ Cardinality(Kept(c)) \in Nat
        /\ Cardinality(Lately) \in Nat
    BY <2>4, <2>5, FS_Subset, FS_CardinalityType
  <2>7. limit[c] <= Cardinality(Kept(c))
    BY <1>1, <2>1, <2>6 DEF Deny, HasRoom
  <2>8. limit[c] \in Int
    BY <1>1
  <2>9. limit[c] <= Cardinality(Lately)
    BY <2>6, <2>7, <2>8
  <2> QED
    BY <2>9 DEF Lately
<1>2. Inv /\ [Next]_vars =>
        \A c \in Call :
            pc[c] = "waiting" /\ pc'[c] = "denied" =>
                limit[c] <= Cardinality(Admitted(clock, Window + Lag + Lead))
  BY <1>1
<1> QED
  BY <1>2, Invariance, PTL DEF Spec, DeniedOnlyWhenUsed

(* Every denied call is told to wait a positive time, at most the window     *)
(* plus the skew: the oldest member counted is inside the window of the      *)
(* stamp it was judged by.                                                   *)
THEOREM RetryAfterAlwaysBounded == Spec => []RetryAfterBounded
<1>1. Init => RetryAfterBounded
  BY DEF Init, RetryAfterBounded
<1>2. Inv /\ RetryAfterBounded /\ [Next]_vars => RetryAfterBounded'
  <2> SUFFICES ASSUME Inv, RetryAfterBounded, [Next]_vars PROVE RetryAfterBounded'
    OBVIOUS
  <2> USE DEF Inv, TypeOK, RetryAfterBounded
  <2>1. ASSUME NEW c \in Call, Refuse(c) PROVE RetryAfterBounded'
    BY <2>1 DEF Refuse
  <2>2. ASSUME NEW c \in Call, NEW a \in inflight[c], Admit(c, a)
        PROVE  RetryAfterBounded'
    BY <2>2 DEF Admit, Reply
  <2>3. ASSUME NEW c \in Call, NEW a \in inflight[c], Deny(c, a)
        PROVE  RetryAfterBounded'
    <3>1. ASSUME NEW wait \in RetryAfter(c, Kept(c))
          PROVE  wait \in 1 .. Window + Lag + Lead
      <4>1. CASE Kept(c) = {}
        BY <3>1, <4>1 DEF RetryAfter
      <4>2. CASE Kept(c) # {}
        <5>1. PICK o \in Kept(c) :
                wait = IF Window - (now[c] - now[o]) < 0 THEN 0
                       ELSE Window - (now[c] - now[o])
          BY <3>1, <4>2 DEF RetryAfter, Oldest
        <5>2. o \in granted /\ o \in Call
          BY <2>3, KeptCovers DEF Deny
        <5>3. now[c] - Window < now[o]
          BY <5>2 DEF Kept, OutOfWindow, StampInv
        <5>4. now[o] <= clock + Lead /\ clock - now[c] <= Lag
          BY <2>3, <5>2 DEF Deny, Runnable, StampInv
        <5> QED
          BY <5>1, <5>2, <5>3, <5>4
      <4> QED
        BY <4>1, <4>2
    <3>2. ASSUME NEW m \in Call, m # c PROVE pc'[m] = pc[m] /\ retry'[m] = retry[m]
      BY <2>3, <3>2 DEF Deny, Reply
    <3>3. (pc' = pc /\ retry' = retry) \/ retry'[c] \in RetryAfter(c, Kept(c))
      BY <2>3 DEF Deny
    <3> QED
      BY <3>1, <3>2, <3>3
  <2>4. CASE UNCHANGED vars
    BY <2>4 DEF vars
  <2> QED
    BY <2>1, <2>2, <2>3, <2>4 DEF Next, Tick, Lose, Send, Resend, MayResend, Fail
<1> QED
  BY <1>1, <1>2, Invariance, PTL DEF Spec

-----------------------------------------------------------------------------
(* What a denied call is told, and what it holds. *)

(* A call whose command was sent once has no more than one copy under way,   *)
(* and is not in the set before that copy is executed, nor once it is denied. *)
SlotInv(c) ==
    /\ pc[c] = "waiting" => 1 <= attempt[c]
    /\ attempt[c] <= 1 =>
        /\ inflight[c] \subseteq {1}
        /\ pc[c] \in {"idle", "denied"} => inflight[c] = {} /\ c \notin zset
        /\ inflight[c] # {} => c \notin zset

(* A copy of a command, whenever it is executed, keeps SlotInv.              *)
LEMMA SlotStep ==
    ASSUME Inv, \A c \in Call : SlotInv(c), [Next]_vars
    PROVE  \A c \in Call : SlotInv(c)'
<1>0. \A c \in Call : pc[c] = "idle" => inflight[c] = {} /\ c \notin zset
  BY DEF Inv, StampInv
<1> USE DEF Inv, TypeOK, SlotInv
<1>1. CASE Tick \/ UNCHANGED vars
  BY <1>1 DEF Tick, vars
<1>2. CASE Lose
  BY <1>2 DEF Lose
<1>3. ASSUME NEW c \in Call, Refuse(c) PROVE \A d \in Call : SlotInv(d)'
  BY <1>3 DEF Refuse
<1>4. ASSUME NEW c \in Call, Send(c) PROVE \A d \in Call : SlotInv(d)'
  <2>1. /\ pc[c] = "idle" /\ pc' = [pc EXCEPT ![c] = "waiting"]
        /\ attempt' = [attempt EXCEPT ![c] = 1] /\ inflight' = [inflight EXCEPT ![c] = {1}]
        /\ zset' = zset
    BY <1>4 DEF Send
  <2> SUFFICES ASSUME NEW d \in Call PROVE SlotInv(d)'
    OBVIOUS
  <2>2. CASE d = c
    BY <1>0, <2>1, <2>2
  <2>3. CASE d # c
    BY <2>1, <2>3
  <2> QED
    BY <2>2, <2>3
<1>5. ASSUME NEW c \in Call, Resend(c) PROVE \A d \in Call : SlotInv(d)'
  <2>1. attempt[c] >= 1
    BY <1>5 DEF Resend
  <2> QED
    BY <1>5, <2>1 DEF Resend, MayResend
<1>6. ASSUME NEW c \in Call, Fail(c) PROVE \A d \in Call : SlotInv(d)'
  BY <1>6 DEF Fail
<1>7. ASSUME NEW c \in Call, NEW a \in inflight[c], Admit(c, a) PROVE \A d \in Call : SlotInv(d)'
  BY <1>7 DEF Admit, Reply, Kept, Live
<1>8. ASSUME NEW c \in Call, NEW a \in inflight[c], Deny(c, a) PROVE \A d \in Call : SlotInv(d)'
  BY <1>8 DEF Deny, Reply, Kept, Live
<1> HIDE DEF Inv, TypeOK, SlotInv
<1> QED
  BY <1>1, <1>2, <1>3, <1>4, <1>5, <1>6, <1>7, <1>8 DEF Next

(* A call that was sent once and is denied takes nothing from the quota,     *)
(* however long its command was under way and whatever Redis forgot.         *)
THEOREM DenialsTakeNoSlot == Spec => []DeniedHoldsNoSlot
<1>1. Init => \A c \in Call : SlotInv(c)
  BY DEF Init, SlotInv
<1>2. (\A c \in Call : SlotInv(c)) => DeniedHoldsNoSlot
  BY DEF SlotInv, DeniedHoldsNoSlot
<1> DEFINE Slots == \A c \in Call : SlotInv(c)
<1>3. Inv /\ Slots /\ [Next]_vars => Slots'
  BY SlotStep
<1> QED
  BY <1>1, <1>2, <1>3, Invariance, PTL DEF Spec

(* The hint of a denial is enough when one slot must come free: the oldest   *)
(* member that was counted is out of the window by then.                     *)
THEOREM HintsSuffice == Spec => RetryAfterSuffices
<1> DEFINE Left(c, later) == {m \in zset' : ~OutOfWindow(now[m], later)}
<1>1. ASSUME Inv, [Next]_vars, NEW c \in Call, pc[c] = "waiting", pc'[c] = "denied",
             Cardinality(zset') <= limit[c]
      PROVE  Cardinality(Left(c, now[c] + retry'[c])) < limit[c]
  <2> USE DEF Inv, TypeOK
  <2> DEFINE left == Left(c, now[c] + retry'[c])
  <2>1. PICK a \in inflight[c] : Deny(c, a)
    BY <1>1 DEF Next, vars, Tick, Lose, Refuse, Send, Resend, MayResend, Fail, Admit, Deny, Reply
  <2>2. Kept(c) \subseteq granted /\ IsFiniteSet(Kept(c)) /\ zset' = Kept(c)
    BY <1>1, <2>1, KeptCovers DEF Deny
  <2>3. limit[c] \in Int /\ 0 < limit[c]
    BY <1>1 DEF StampInv
  <2>4. left \subseteq Kept(c) /\ IsFiniteSet(left)
    BY <2>2, FS_Subset
  <2>5. Cardinality(Kept(c)) \in Nat /\ limit[c] <= Cardinality(Kept(c))
    BY <2>1, <2>2, <2>3, FS_CardinalityType DEF Deny, HasRoom
  <2>6. Kept(c) # {}
    BY <2>3, <2>5, FS_EmptySet
  <2>7. retry'[c] \in RetryAfter(c, Kept(c))
    BY <1>1, <2>1 DEF Deny
  <2>8. PICK o \in Kept(c) :
           retry'[c] = IF Window - (now[c] - now[o]) < 0 THEN 0
                       ELSE Window - (now[c] - now[o])
    BY <2>6, <2>7 DEF RetryAfter, Oldest
  <2>9. o \in Call /\ 0 <= now[o] /\ now[o] \in Int /\ now[c] \in Int
    <3>1. o \in Call /\ StampInv(o)
      BY <1>1, <2>2
    <3> QED
      BY <1>1, <3>1 DEF StampInv
  <2>10. OutOfWindow(now[o], now[c] + retry'[c])
    BY <2>8, <2>9 DEF OutOfWindow
  <2>11. left # Kept(c)
    BY <2>8, <2>10
  <2> HIDE DEF left
  <2>12. Cardinality(left) < Cardinality(Kept(c)) /\ Cardinality(left) \in Nat
    BY <2>2, <2>4, <2>11, FS_Subset, FS_CardinalityType
  <2>13. Cardinality(left) < limit[c]
    BY <1>1, <2>2, <2>3, <2>5, <2>12
  <2> QED
    BY <2>13 DEF left
<1>2. Inv /\ [Next]_vars =>
        [\A c \in Call :
            pc[c] = "waiting" /\ pc'[c] = "denied" /\ Cardinality(zset') <= limit[c] =>
                LET later == now[c] + retry'[c]
                IN  Cardinality({m \in zset' : ~OutOfWindow(now[m], later)}) < limit[c]]_vars
  BY <1>1
<1> QED
  BY <1>2, Invariance, PTL DEF Spec, RetryAfterSuffices
=============================================================================
