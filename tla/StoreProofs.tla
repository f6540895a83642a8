----------------------------- MODULE StoreProofs -----------------------------
(***************************************************************************)
(* Theorems about the store, for any partners, routes and policies and     *)
(* whatever the admin handlers do to them, in any order.                   *)
(***************************************************************************)
EXTENDS Store, TLAPS

(* Every operation keeps the types of the rows.                              *)
LEMMA EditKeepsTypes ==
    ASSUME StoreTypeOK, Edit
    PROVE  StoreTypeOK'
<1> USE DEF StoreTypeOK, States
<1>1. ASSUME NEW p \in PartnerId, CreatePartner(p) PROVE StoreTypeOK'
  BY <1>1 DEF CreatePartner
<1>2. ASSUME NEW p \in PartnerId, DeletePartner(p) PROVE StoreTypeOK'
  <2>1. \A i \in PolicyId : [policies[i] EXCEPT !.state = "deleted"] \in PolicyRows
    BY DEF PolicyRows
  <2>2. policies' \in [PolicyId -> PolicyRows]
    BY <1>2, <2>1 DEF DeletePartner
  <2>3. QED
    BY <1>2, <2>2 DEF DeletePartner
<1>3. ASSUME NEW p \in PartnerId, NEW state \in {"active", "inactive"},
             UpdatePartner(p, state)
      PROVE  StoreTypeOK'
  BY <1>3 DEF UpdatePartner
<1>4. ASSUME NEW r \in RouteId, DeleteRoute(r) PROVE StoreTypeOK'
  BY <1>4 DEF DeleteRoute, RouteRows
<1>5. ASSUME NEW r \in RouteId, NEW prefix \in PathPrefixes, NEW upstream \in Upstreams,
             NEW strip \in StripFlags, CreateRoute(r, prefix, upstream, strip)
      PROVE  StoreTypeOK'
  BY <1>5 DEF CreateRoute, RouteRows
<1>6. ASSUME NEW r \in RouteId, NEW state \in {"active", "inactive"},
             NEW upstream \in Upstreams, NEW strip \in StripFlags,
             UpdateRoute(r, state, upstream, strip)
      PROVE  StoreTypeOK'
  <2> DEFINE row == [routes[r] EXCEPT !.state = state, !.upstream = upstream, !.strip = strip]
  <2>1. row \in RouteRows
    BY DEF RouteRows
  <2>2. routes' = [routes EXCEPT ![r] = row]
    BY <1>6 DEF UpdateRoute
  <2>3. QED
    BY <1>6, <2>1, <2>2 DEF UpdateRoute
<1>7. ASSUME NEW i \in PolicyId, DeletePolicy(i) PROVE StoreTypeOK'
  BY <1>7 DEF DeletePolicy, PolicyRows
<1>8. ASSUME NEW i \in PolicyId, NEW p \in PartnerId, NEW r \in RouteId \cup {0},
             CreatePolicy(i, p, r)
      PROVE  StoreTypeOK'
  BY <1>8 DEF CreatePolicy, PolicyRows
<1>9. QED
  BY <1>1, <1>2, <1>3, <1>4, <1>5, <1>6, <1>7, <1>8 DEF Edit

(* No operation brings back a row that was deleted.                        *)
LEMMA EditKeepsDeleted ==
    ASSUME StoreTypeOK, Edit
    PROVE  /\ \A p \in PartnerId : partners[p] = "deleted" => partners'[p] = "deleted"
           /\ \A r \in RouteId : routes[r].state = "deleted" => routes'[r].state = "deleted"
           /\ \A i \in PolicyId : policies[i].state = "deleted" => policies'[i].state = "deleted"
<1> DEFINE Goal ==
           /\ \A p \in PartnerId : partners[p] = "deleted" => partners'[p] = "deleted"
           /\ \A r \in RouteId : routes[r].state = "deleted" => routes'[r].state = "deleted"
           /\ \A i \in PolicyId : policies[i].state = "deleted" => policies'[i].state = "deleted"
<1> USE DEF StoreTypeOK, RouteRows, PolicyRows, Stored
<1>1. ASSUME NEW p \in PartnerId, CreatePartner(p) PROVE Goal
  BY <1>1 DEF CreatePartner
<1>2. ASSUME NEW p \in PartnerId, DeletePartner(p) PROVE Goal
  BY <1>2 DEF DeletePartner
<1>3. ASSUME NEW p \in PartnerId, NEW state \in {"active", "inactive"},
             UpdatePartner(p, state)
      PROVE  Goal
  BY <1>3 DEF UpdatePartner
<1>4. ASSUME NEW r \in RouteId, DeleteRoute(r) PROVE Goal
  BY <1>4 DEF DeleteRoute
<1>5. ASSUME NEW r \in RouteId, NEW prefix \in PathPrefixes, NEW upstream \in Upstreams,
             NEW strip \in StripFlags, CreateRoute(r, prefix, upstream, strip)
      PROVE  Goal
  BY <1>5 DEF CreateRoute
<1>6. ASSUME NEW r \in RouteId, NEW state \in {"active", "inactive"},
             NEW upstream \in Upstreams, NEW strip \in StripFlags,
             UpdateRoute(r, state, upstream, strip)
      PROVE  Goal
  BY <1>6 DEF UpdateRoute
<1>7. ASSUME NEW i \in PolicyId, DeletePolicy(i) PROVE Goal
  BY <1>7 DEF DeletePolicy
<1>8. ASSUME NEW i \in PolicyId, NEW p \in PartnerId, NEW r \in RouteId \cup {0},
             CreatePolicy(i, p, r)
      PROVE  Goal
  BY <1>8 DEF CreatePolicy
<1>9. QED
  BY <1>1, <1>2, <1>3, <1>4, <1>5, <1>6, <1>7, <1>8 DEF Edit

(* With foreign keys a policy is inserted only while its partner is there, and *)
(* goes when the partner goes.                                             *)
LEMMA EditKeepsPartners ==
    ASSUME StoreTypeOK, NoOrphans, Edit
    PROVE  NoOrphans'
<1> USE DEF StoreTypeOK, PolicyRows, Stored, NoOrphans
<1>1. ASSUME NEW p \in PartnerId, CreatePartner(p) PROVE NoOrphans'
  BY <1>1 DEF CreatePartner
<1>2. ASSUME NEW p \in PartnerId, DeletePartner(p) PROVE NoOrphans'
  <2> SUFFICES ASSUME NEW i \in PolicyId, Constraints, policies'[i].state = "stored"
               PROVE  Stored(partners'[policies'[i].partner])
    OBVIOUS
  <2>1. policies'[i] = policies[i] /\ policies[i].partner # p
    BY <1>2 DEF DeletePartner
  <2>2. QED
    BY <1>2, <2>1 DEF DeletePartner
<1>3. ASSUME NEW p \in PartnerId, NEW state \in {"active", "inactive"},
             UpdatePartner(p, state)
      PROVE  NoOrphans'
  BY <1>3 DEF UpdatePartner
<1>4. ASSUME NEW r \in RouteId, DeleteRoute(r) PROVE NoOrphans'
  BY <1>4 DEF DeleteRoute
<1>5. ASSUME NEW r \in RouteId, NEW prefix \in PathPrefixes, NEW upstream \in Upstreams,
             NEW strip \in StripFlags, CreateRoute(r, prefix, upstream, strip)
      PROVE  NoOrphans'
  BY <1>5 DEF CreateRoute
<1>6. ASSUME NEW r \in RouteId, NEW state \in {"active", "inactive"},
             NEW upstream \in Upstreams, NEW strip \in StripFlags,
             UpdateRoute(r, state, upstream, strip)
      PROVE  NoOrphans'
  BY <1>6 DEF UpdateRoute
<1>7. ASSUME NEW i \in PolicyId, DeletePolicy(i) PROVE NoOrphans'
  BY <1>7 DEF DeletePolicy
<1>8. ASSUME NEW i \in PolicyId, NEW p \in PartnerId, NEW r \in RouteId \cup {0},
             CreatePolicy(i, p, r)
      PROVE  NoOrphans'
  BY <1>8 DEF CreatePolicy
<1>9. QED
  BY <1>1, <1>2, <1>3, <1>4, <1>5, <1>6, <1>7, <1>8 DEF Edit

-----------------------------------------------------------------------------

(* The types, and with the schema's keys no orphans.                         *)
LEMMA StoreInv == StoreSpec => [](StoreTypeOK /\ NoOrphans)
<1>1. InitStore => StoreTypeOK /\ NoOrphans
  BY FirstRowsAssumption DEF InitStore, StoreTypeOK, NoOrphans
<1>2. StoreTypeOK /\ NoOrphans /\ [Edit]_storeVars => (StoreTypeOK /\ NoOrphans)'
  <2>1. StoreTypeOK /\ NoOrphans /\ Edit => (StoreTypeOK /\ NoOrphans)'
    BY EditKeepsTypes, EditKeepsPartners
  <2>2. StoreTypeOK /\ NoOrphans /\ UNCHANGED storeVars => (StoreTypeOK /\ NoOrphans)'
    BY DEF storeVars, StoreTypeOK, NoOrphans
  <2>3. QED
    BY <2>1, <2>2
<1>3. QED
  BY <1>1, <1>2, PTL DEF StoreSpec

(* Oracle's policies never outlive their partners.                         *)
THEOREM PoliciesHavePartners == StoreSpec => []NoOrphans
BY StoreInv, PTL

(* Deletion is final for partners, routes and policies.                    *)
THEOREM DeletedForGood == StoreSpec => DeletionIsFinal
<1>1. StoreTypeOK /\ [Edit]_storeVars
        => [/\ \A p \in PartnerId : partners[p] = "deleted" => partners'[p] = "deleted"
            /\ \A r \in RouteId : routes[r].state = "deleted" => routes'[r].state = "deleted"
            /\ \A i \in PolicyId :
                policies[i].state = "deleted" => policies'[i].state = "deleted"]_storeVars
  BY EditKeepsDeleted
<1>2. QED
  BY <1>1, StoreInv, PTL DEF StoreSpec, DeletionIsFinal

==============================================================================
