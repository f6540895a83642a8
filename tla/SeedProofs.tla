----------------------------- MODULE SeedProofs -----------------------------
(***************************************************************************)
(* Theorems about the seed command, for any lists to make sure of, any     *)
(* number of seeds at once, any rows the store begins with, and any        *)
(* failures and edits.                                                     *)
(***************************************************************************)
EXTENDS Seed, StoreProofs, SequenceTheorems, FiniteSetTheorems

Phases == {"looking", "creating", "selecting", "stopped", "done"}

SeedTypeOK ==
    /\ StoreTypeOK
    /\ pc \in [Seeder -> Phases]
    /\ ids \in [Seeder -> Seq(Nat)]
    /\ alone \subseteq kept /\ kept \subseteq Seeder

(* Oracle's unique keys.                                                     *)
UniqueRows ==
    /\ \A p, q \in PartnerId :
        Stored(partners[p]) /\ Stored(partners[q]) /\ KeyOf[p] = KeyOf[q] => p = q
    /\ \A r, q \in RouteId :
        /\ Stored(routes[r].state) /\ Stored(routes[q].state)
        /\ routes[r].prefix = routes[q].prefix
        => r = q
    /\ \A i, j \in PolicyId : policies[i].state = "stored" /\ policies[i] = policies[j] => i = j

(* How far a seeder has come.                                                *)
Found(s) == Len(ids[s])
Progress(s) ==
    /\ Found(s) <= Jobs
    /\ pc[s] \in {"looking", "creating", "selecting"} => Found(s) < Jobs
    /\ pc[s] = "done" => Found(s) = Jobs

(* Each id it found is that of the row it looked for, and as long as nothing *)
(* is deleted the row is still there.                                        *)
PartnersReady(s) ==
    \A n \in 1 .. NP : n <= Found(s) =>
        /\ ids[s][n] \in PartnerId
        /\ s \in kept => Stored(partners[ids[s][n]]) /\ KeyOf[ids[s][n]] = WantedKeys[n]
RoutesReady(s) ==
    \A n \in 1 .. NR : NP + n <= Found(s) =>
        /\ ids[s][NP + n] \in RouteId
        /\ s \in kept => /\ Stored(routes[ids[s][NP + n]].state)
                         /\ routes[ids[s][NP + n]].prefix = WantedPrefixes[n]
PoliciesReady(s) ==
    \A n \in 1 .. Len(WantedPolicies) : NP + NR + n <= Found(s) /\ s \in kept =>
        /\ ids[s][NP + NR + n] \in PolicyId
        /\ policies[ids[s][NP + NR + n]] =
             [state |-> "stored", partner |-> PartnerOf(s, WantedPolicies[n]),
              route |-> RouteOf(s, WantedPolicies[n])]

(* What a seeder that nobody disturbed knows between its statements.         *)
Undisturbed(s) ==
    s \in alone =>
        /\ pc[s] = "creating" => Existing(Job(s)) = {}
        /\ pc[s] = "selecting" => RowsOf(Job(s)) # {}

SeederInv(s) ==
    /\ Progress(s)
    /\ PartnersReady(s)
    /\ RoutesReady(s)
    /\ PoliciesReady(s)

SeedInv ==
    /\ SeedTypeOK
    /\ UniqueRows
    /\ \A s \in Seeder : SeederInv(s) /\ Undisturbed(s)

-----------------------------------------------------------------------------
(* The lists, and what a seeder is about *)

(* The lists of what is wanted, end to end, are the jobs.                    *)
LEMMA Lengths ==
    /\ NP \in Nat /\ NR \in Nat /\ Len(WantedPolicies) \in Nat
    /\ 0 < Jobs /\ Jobs = NP + NR + Len(WantedPolicies)
<1>1. NP \in Nat /\ 0 < NP
  BY WantedAssumption, EmptySeq, SMT DEF NP
<1>2. NR \in Nat
  BY WantedAssumption DEF NR
<1>3. Len(WantedPolicies) \in Nat
  BY WantedAssumption
<1>4. QED
  BY <1>1, <1>2, <1>3 DEF Jobs

(* The positions of two lists, one after the other, are within the whole.    *)
LEMMA Within ==
    ASSUME NEW a \in Nat, NEW b \in Nat, NEW length \in Nat, a + b <= length
    PROVE  /\ \A k \in 1 .. a : k \in 1 .. length
           /\ \A k \in 1 .. b : a + k \in 1 .. length
OBVIOUS

(* Where the n-th of the third list begins, by the number of rows before it. *)
LEMMA Position ==
    ASSUME NEW a \in Nat, NEW b \in Nat, NEW n \in Nat, NEW length \in Nat,
           1 <= n, a + b + n = length + 1
    PROVE  ~(length < a) /\ ~(length < a + b) /\ length + 1 - a - b = n
OBVIOUS

(* What is wanted names partners and routes that are wanted too.             *)
LEMMA Lists ==
    /\ \A n \in 1 .. Len(WantedPolicies) :
        WantedPolicies[n].partner \in 1 .. NP /\ WantedPolicies[n].route \in 0 .. NR
    /\ \A n \in 1 .. NR : WantedPrefixes[n] \in PathPrefixes
<1>1. ASSUME NEW n \in 1 .. NR PROVE WantedPrefixes[n] \in PathPrefixes
  BY WantedAssumption DEF NR
<1>2. ASSUME NEW n \in 1 .. Len(WantedPolicies)
      PROVE  WantedPolicies[n] \in [partner : 1 .. NP, route : 0 .. NR]
  <2> DEFINE Row == [partner : 1 .. NP, route : 0 .. NR]
  <2>1. WantedPolicies \in Seq(Row)
    BY WantedAssumption DEF NP, NR
  <2> HIDE DEF Row
  <2>2. WantedPolicies[n] \in Row
    BY <2>1
  <2>3. QED
    BY <2>2 DEF Row
<1>3. QED
  BY <1>1, <1>2

IsPartnerJob(s) ==
    /\ Found(s) < NP
    /\ Job(s) = [kind |-> "partner", key |-> WantedKeys[Found(s) + 1]]
IsRouteJob(s) ==
    /\ NP <= Found(s) /\ Found(s) < NP + NR
    /\ Job(s) = [kind |-> "route", prefix |-> WantedPrefixes[Found(s) + 1 - NP]]
IsPolicyJob(s) ==
    LET policy == WantedPolicies[Found(s) + 1 - NP - NR]
    IN  /\ NP + NR <= Found(s)
        /\ Job(s) = [kind |-> "policy", partner |-> PartnerOf(s, policy),
                     route |-> RouteOf(s, policy)]

(* A job is one of the three.                                                *)
LEMMA JobKinds ==
    ASSUME SeedTypeOK, NEW s \in Seeder
    PROVE  IsPartnerJob(s) \/ IsRouteJob(s) \/ IsPolicyJob(s)
<1>1. Found(s) \in Nat
  BY DEF SeedTypeOK, Found
<1>2. CASE Found(s) < NP
  BY <1>1, <1>2, Lengths DEF IsPartnerJob, Job, Found
<1>3. CASE NP <= Found(s) /\ Found(s) < NP + NR
  <2>1. ~(Found(s) + 1 <= NP) /\ Found(s) + 1 \in NP + 1 .. NP + NR
    BY <1>1, <1>3, Lengths
  <2>2. QED
    BY <1>1, <1>3, <2>1, Lengths DEF IsRouteJob, Job, Found
<1>4. CASE NP + NR <= Found(s)
  BY <1>1, <1>4, Lengths DEF IsPolicyJob, Job, Found
<1>5. QED
  BY <1>1, <1>2, <1>3, <1>4, Lengths

(* Whatever a look-up finds has the key of the job: the effective policy is  *)
(* taken only if it is for the route itself.                                 *)
LEMMA LookupFindsRows ==
    ASSUME SeedTypeOK, NEW s \in Seeder
    PROVE  Existing(Job(s)) \subseteq RowsOf(Job(s))
<1>1. CASE IsPartnerJob(s)
  BY <1>1 DEF IsPartnerJob, Existing, RowsOf
<1>2. CASE IsRouteJob(s)
  BY <1>2 DEF IsRouteJob, Existing, RowsOf
<1>3. CASE IsPolicyJob(s)
  BY <1>3 DEF IsPolicyJob, Existing, RowsOf, FindEffective, PoliciesOf, SameRoute
<1>4. QED
  BY <1>1, <1>2, <1>3, JobKinds

(* A look-up misses a row only behind the first page of the routes.          *)
LEMMA LookupMissesNone ==
    ASSUME SeedTypeOK, NEW s \in Seeder, Existing(Job(s)) = {}, RowsOf(Job(s)) # {}
    PROVE  Cardinality(StoredRoutes) > PageLimit
<1>1. CASE IsPartnerJob(s)
  BY <1>1 DEF IsPartnerJob, Existing, RowsOf
<1>2. CASE IsPolicyJob(s)
  BY <1>2 DEF IsPolicyJob, Existing, RowsOf, FindEffective, PoliciesOf, SameRoute
<1>3. CASE IsRouteJob(s)
  <2>1. PICK r \in StoredRoutes : r \notin FirstPage
    BY <1>3 DEF IsRouteJob, Existing, RowsOf
  <2> DEFINE Before == {q \in StoredRoutes : q < r}
  <2>2. IsFiniteSet(StoredRoutes)
    BY StoreAssumption, FS_Subset DEF StoredRoutes
  <2>3. Before \subseteq StoredRoutes /\ Before # StoredRoutes
    <3>1. r \in Nat
      BY SeedAssumption DEF StoredRoutes
    <3>2. r \notin Before
      BY <3>1
    <3>3. QED
      BY <2>1, <3>2
  <2>4. Cardinality(Before) \in Nat /\ Cardinality(StoredRoutes) \in Nat
    BY <2>2, <2>3, FS_Subset, FS_CardinalityType
  <2>5. Cardinality(Before) < Cardinality(StoredRoutes)
    BY <2>2, <2>3, <2>4, FS_Subset
  <2>6. ~(Cardinality(Before) < PageLimit)
    BY <2>1 DEF FirstPage
  <2>7. QED
    BY <2>4, <2>5, <2>6, SeedAssumption
<1>4. QED
  BY <1>1, <1>2, <1>3, JobKinds

-----------------------------------------------------------------------------
(* What a seeder has found *)

(* The next job is done when a row with its key is found.                    *)
LEMMA EnsuredKeepsInv ==
    ASSUME SeedInv, NEW s \in Seeder, NEW id \in RowsOf(Job(s)), pc[s] \in {"looking", "selecting"},
           Ensured(s, id), UNCHANGED <<storeVars, alone, kept>>
    PROVE  SeedTypeOK' /\ \A t \in Seeder : SeederInv(t)' /\ Undisturbed(t)'
<1> USE DEF Found
<1>0. SeedTypeOK /\ \A t \in Seeder : SeederInv(t) /\ Undisturbed(t)
  BY DEF SeedInv
<1>1. /\ ids[s] \in Seq(Nat) /\ Len(ids[s]) \in Nat /\ Len(ids[s]) < Jobs
      /\ pc[s] # "done" /\ pc[s] # "creating"
  BY <1>0 DEF SeedTypeOK, SeederInv, Progress
<1>2. id \in Nat
  <2>1. RowsOf(Job(s)) \subseteq PartnerId \cup RouteId \cup PolicyId
    BY <1>0, JobKinds DEF IsPartnerJob, IsRouteJob, IsPolicyJob, RowsOf, StoredRoutes, PoliciesOf
  <2>2. QED
    BY <2>1, SeedAssumption
<1>3. /\ ids' = [ids EXCEPT ![s] = Append(ids[s], id)]
      /\ pc' = [pc EXCEPT ![s] = IF Len(ids'[s]) = Jobs THEN "done" ELSE "looking"]
      /\ partners' = partners /\ routes' = routes /\ policies' = policies
      /\ alone' = alone /\ kept' = kept
  BY DEF Ensured, storeVars
<1>4. SeedTypeOK'
  BY <1>0, <1>1, <1>2, <1>3, AppendProperties DEF SeedTypeOK, StoreTypeOK, Phases
<1>5. ASSUME NEW t \in Seeder, t # s PROVE SeederInv(t)' /\ Undisturbed(t)'
  <2>1. ids'[t] = ids[t] /\ pc'[t] = pc[t]
    BY <1>0, <1>3, <1>5 DEF SeedTypeOK
  <2>2. SeederInv(t)'
    <3>1. SeederInv(t)
      BY <1>0
    <3>2. Progress(t)' /\ PartnersReady(t)'
      BY <1>3, <2>1, <3>1 DEF SeederInv, Progress, PartnersReady
    <3>3. RoutesReady(t)'
      BY <1>3, <2>1, <3>1 DEF SeederInv, RoutesReady
    <3>4. PoliciesReady(t)'
      BY <1>3, <2>1, <3>1 DEF SeederInv, PoliciesReady, PartnerOf, RouteOf
    <3>5. QED
      BY <3>2, <3>3, <3>4 DEF SeederInv
  <2>3. Job(t)' = Job(t)
    BY <2>1 DEF Job, PartnerOf, RouteOf
  <2>4. RowsOf(Job(t))' = RowsOf(Job(t)) /\ Existing(Job(t))' = Existing(Job(t))
    BY <1>3, <2>3 DEF RowsOf, Existing, StoredRoutes, FirstPage, PoliciesOf, FindEffective,
                      SameRoute
  <2>5. QED
    BY <1>0, <1>3, <2>1, <2>2, <2>4 DEF Undisturbed
<1>6. /\ ids'[s] = Append(ids[s], id)
      /\ Len(ids'[s]) = Len(ids[s]) + 1
      /\ ids'[s][Len(ids[s]) + 1] = id
      /\ \A n \in 1 .. Len(ids[s]) : ids'[s][n] = ids[s][n]
  BY <1>0, <1>1, <1>2, <1>3, AppendProperties DEF SeedTypeOK
<1>7. pc'[s] = IF Len(ids'[s]) = Jobs THEN "done" ELSE "looking"
  BY <1>0, <1>3 DEF SeedTypeOK
<1>8. Progress(s)' /\ Undisturbed(s)'
  BY <1>1, <1>6, <1>7, Lengths DEF Progress, Undisturbed
<1>9. PartnersReady(s)'
  <2> SUFFICES ASSUME NEW n \in 1 .. NP, n <= Len(ids'[s])
               PROVE  /\ ids'[s][n] \in PartnerId
                      /\ s \in kept =>
                            Stored(partners[ids'[s][n]]) /\ KeyOf[ids'[s][n]] = WantedKeys[n]
    BY <1>3 DEF PartnersReady
  <2>1. CASE n <= Len(ids[s])
    BY <1>0, <1>1, <1>6, <2>1, Lengths DEF SeederInv, PartnersReady
  <2>2. CASE n = Len(ids[s]) + 1
    <3>1. IsPartnerJob(s)
      BY <1>0, <1>1, <2>2, JobKinds, Lengths DEF IsPartnerJob, IsRouteJob, IsPolicyJob
    <3>2. QED
      BY <1>6, <2>2, <3>1 DEF IsPartnerJob, RowsOf
  <2>3. QED
    BY <1>1, <1>6, <2>1, <2>2, Lengths
<1>10. RoutesReady(s)'
  <2> SUFFICES ASSUME NEW n \in 1 .. NR, NP + n <= Len(ids'[s])
               PROVE  /\ ids'[s][NP + n] \in RouteId
                      /\ s \in kept =>
                            /\ Stored(routes[ids'[s][NP + n]].state)
                            /\ routes[ids'[s][NP + n]].prefix = WantedPrefixes[n]
    BY <1>3 DEF RoutesReady
  <2>1. CASE NP + n <= Len(ids[s])
    <3>1. NP + n \in 1 .. Len(ids[s])
      BY <1>1, <2>1, Lengths
    <3>2. ids'[s][NP + n] = ids[s][NP + n]
      BY <1>6, <3>1, Zenon
    <3>3. QED
      BY <1>0, <2>1, <3>2 DEF SeederInv, RoutesReady
  <2>2. CASE NP + n = Len(ids[s]) + 1
    <3>1. IsRouteJob(s) /\ Len(ids[s]) + 1 - NP = n
      BY <1>0, <1>1, <2>2, JobKinds, Lengths DEF IsPartnerJob, IsRouteJob, IsPolicyJob
    <3>2. QED
      BY <1>6, <2>2, <3>1 DEF IsRouteJob, RowsOf, StoredRoutes
  <2>3. QED
    BY <1>1, <1>6, <2>1, <2>2, Lengths
<1>11. PoliciesReady(s)'
  <2> SUFFICES ASSUME NEW n \in 1 .. Len(WantedPolicies), NP + NR + n <= Len(ids'[s]),
                      s \in kept
               PROVE  /\ ids'[s][NP + NR + n] \in PolicyId
                      /\ policies[ids'[s][NP + NR + n]] =
                            [state |-> "stored", partner |-> PartnerOf(s, WantedPolicies[n])',
                             route |-> RouteOf(s, WantedPolicies[n])']
    BY <1>3 DEF PoliciesReady
  <2>1. NP + NR <= Len(ids[s])
    BY <1>1, <1>6, Lengths
  <2>2. /\ PartnerOf(s, WantedPolicies[n])' = PartnerOf(s, WantedPolicies[n])
        /\ RouteOf(s, WantedPolicies[n])' = RouteOf(s, WantedPolicies[n])
    <3>1. WantedPolicies[n].partner \in 1 .. NP /\ WantedPolicies[n].route \in 0 .. NR
      BY Lists
    <3>2. /\ \A k \in 1 .. NP : k \in 1 .. Len(ids[s])
          /\ \A k \in 1 .. NR : NP + k \in 1 .. Len(ids[s])
      BY <1>1, <2>1, Lengths, Within, Zenon
    <3>3. WantedPolicies[n].route # 0 => WantedPolicies[n].route \in 1 .. NR
      BY <3>1
    <3>4. ids'[s][WantedPolicies[n].partner] = ids[s][WantedPolicies[n].partner]
      BY <1>6, <3>1, <3>2, Zenon
    <3>5. WantedPolicies[n].route # 0 =>
            ids'[s][NP + WantedPolicies[n].route] = ids[s][NP + WantedPolicies[n].route]
      BY <1>6, <3>2, <3>3, Zenon
    <3>6. QED
      BY <3>4, <3>5, Zenon DEF PartnerOf, RouteOf
  <2>3. CASE NP + NR + n <= Len(ids[s])
    <3>1. NP + NR + n \in 1 .. Len(ids[s])
      BY <1>1, <2>3, Lengths
    <3>2. ids'[s][NP + NR + n] = ids[s][NP + NR + n]
      BY <1>6, <3>1, Zenon
    <3>3. QED
      <4>1. PoliciesReady(s)
        BY <1>0 DEF SeederInv
      <4>2. /\ ids[s][NP + NR + n] \in PolicyId
            /\ policies[ids[s][NP + NR + n]] =
                 [state |-> "stored", partner |-> PartnerOf(s, WantedPolicies[n]),
                  route |-> RouteOf(s, WantedPolicies[n])]
        BY <2>3, <4>1, Zenon DEF PoliciesReady
      <4>3. QED
        BY <2>2, <3>2, <4>2, Zenon
  <2>4. CASE NP + NR + n = Len(ids[s]) + 1
    <3>1. IsPolicyJob(s) /\ Len(ids[s]) + 1 - NP - NR = n
      <4>1. /\ ~(Len(ids[s]) < NP) /\ ~(Len(ids[s]) < NP + NR)
            /\ Len(ids[s]) + 1 - NP - NR = n
        <5>1. n \in Nat /\ 1 <= n
          OBVIOUS
        <5>2. NP \in Nat /\ NR \in Nat
          BY Lengths
        <5>3. Len(ids[s]) \in Nat
          BY <1>1
        <5>4. QED
          BY <2>4, <5>1, <5>2, <5>3, Position
      <4>2. ~IsPartnerJob(s) /\ ~IsRouteJob(s)
        BY <4>1, Zenon DEF IsPartnerJob, IsRouteJob
      <4>3. QED
        BY <1>0, <4>1, <4>2, JobKinds, Zenon
    <3>2. /\ id \in PolicyId /\ policies[id].state = "stored"
          /\ policies[id].partner = PartnerOf(s, WantedPolicies[n])
          /\ policies[id].route = RouteOf(s, WantedPolicies[n])
      BY <3>1 DEF IsPolicyJob, RowsOf, PoliciesOf
    <3>3. policies[id] \in PolicyRows
      BY <1>0, <3>2 DEF SeedTypeOK, StoreTypeOK
    <3>4. QED
      BY <1>6, <2>2, <2>4, <3>2, <3>3 DEF PolicyRows
  <2>5. QED
    BY <1>1, <1>6, <2>3, <2>4, Lengths
<1>12. QED
  BY <1>4, <1>5, <1>8, <1>9, <1>10, <1>11 DEF SeederInv

-----------------------------------------------------------------------------
(* The steps that find nothing *)

(* A store that only grows: rows are added, and routes put out of action.    *)
Grows ==
    /\ \A p \in PartnerId : Stored(partners[p]) => Stored(partners'[p])
    /\ \A r \in RouteId : Stored(routes[r].state) =>
        Stored(routes'[r].state) /\ routes'[r].prefix = routes[r].prefix
    /\ \A i \in PolicyId : policies[i].state = "stored" => policies'[i] = policies[i]

(* A seed keeps what it knows while the store only grows.                    *)
LEMMA GrowsKeepsInv ==
    ASSUME SeedTypeOK, NEW s \in Seeder, SeederInv(s), Progress(s)', ids'[s] = ids[s],
           s \in kept' => Grows /\ s \in kept
    PROVE  SeederInv(s)'
<1>1. PartnersReady(s)'
  BY DEF SeederInv, PartnersReady, Grows, Found
<1>2. RoutesReady(s)'
  BY DEF SeederInv, RoutesReady, Grows, Found
<1>3. PoliciesReady(s)'
  <2> SUFFICES ASSUME NEW n \in 1 .. Len(WantedPolicies), NP + NR + n <= Found(s), s \in kept'
               PROVE  /\ ids[s][NP + NR + n] \in PolicyId
                      /\ policies'[ids[s][NP + NR + n]] =
                            [state |-> "stored", partner |-> PartnerOf(s, WantedPolicies[n]),
                             route |-> RouteOf(s, WantedPolicies[n])]
    BY DEF PoliciesReady, Found, PartnerOf, RouteOf
  <2>1. /\ ids[s][NP + NR + n] \in PolicyId
        /\ policies[ids[s][NP + NR + n]] =
             [state |-> "stored", partner |-> PartnerOf(s, WantedPolicies[n]),
              route |-> RouteOf(s, WantedPolicies[n])]
    BY DEF SeederInv, PoliciesReady
  <2>2. QED
    BY <2>1 DEF Grows
<1>4. QED
  BY <1>1, <1>2, <1>3 DEF SeederInv

(* The INSERT of a seeder adds the row of its job, and no key twice.         *)
LEMMA InsertAdds ==
    ASSUME SeedTypeOK, UniqueRows, NEW s \in Seeder, SeederInv(s), Found(s) < Jobs,
           Insert(Job(s)), ids' = ids
    PROVE  StoreTypeOK' /\ UniqueRows' /\ Grows /\ RowsOf(Job(s))' # {}
<1> USE DEF SeedTypeOK
<1>1. CASE IsPartnerJob(s)
  <2> DEFINE key == WantedKeys[Found(s) + 1]
  <2>1. PICK p \in PartnerId : CreatePartner(p) /\ KeyOf[p] = key
    BY <1>1 DEF IsPartnerJob, Insert, NextPartner, First
  <2>2. \A q \in PartnerId : ~(Stored(partners[q]) /\ KeyOf[q] = key)
    BY <1>1 DEF IsPartnerJob, Insert, KeyFree, RowsOf
  <2>3. /\ partners[p] = "unborn" /\ partners' = [partners EXCEPT ![p] = "active"]
        /\ routes' = routes /\ policies' = policies
    BY <2>1 DEF CreatePartner
  <2>4. StoreTypeOK'
    BY <2>1, EditKeepsTypes DEF Edit
  <2>5. UniqueRows'
    BY <2>1, <2>2, <2>3 DEF UniqueRows, StoreTypeOK, Stored
  <2>6. Grows
    BY <2>3 DEF Grows, StoreTypeOK, Stored
  <2>7. Job(s)' = Job(s)
    BY DEF Job, PartnerOf, RouteOf
  <2>8. RowsOf(Job(s))' # {}
    <3>1. p \in RowsOf(Job(s))'
      BY <1>1, <2>1, <2>3, <2>7 DEF IsPartnerJob, RowsOf, StoreTypeOK, Stored
    <3>2. QED
      BY <3>1
  <2>9. QED
    BY <2>4, <2>5, <2>6, <2>8
<1>2. CASE IsRouteJob(s)
  <2> DEFINE prefix == WantedPrefixes[Found(s) + 1 - NP]
  <2>1. PICK r \in RouteId, u \in Upstreams, strip \in StripFlags :
           CreateRoute(r, prefix, u, strip)
    BY <1>2 DEF IsRouteJob, Insert, NextRoute, First
  <2>2. prefix \in PathPrefixes
    <3>1. Found(s) \in Nat
      BY DEF Found
    <3>2. Found(s) + 1 - NP \in 1 .. NR
      BY <1>2, <3>1, Lengths DEF IsRouteJob
    <3>3. QED
      BY <3>2, Lists
  <2>3. /\ routes[r].state = "unborn"
        /\ routes' = [routes EXCEPT ![r] =
                        [state |-> "active", prefix |-> prefix, upstream |-> u,
                         strip |-> strip]]
        /\ \A q \in RouteId : Stored(routes[q].state) => routes[q].prefix # prefix
        /\ partners' = partners /\ policies' = policies
    BY <2>1, SeedAssumption DEF CreateRoute
  <2>4. StoreTypeOK'
    BY <2>1, <2>2, EditKeepsTypes DEF Edit
  <2>5. \A q \in RouteId : q # r => routes'[q] = routes[q]
    BY <2>3 DEF StoreTypeOK
  <2>6. routes'[r].state = "active" /\ routes'[r].prefix = prefix
    BY <2>3 DEF StoreTypeOK
  <2>7. UniqueRows'
    BY <2>3, <2>5, <2>6 DEF UniqueRows
  <2>8. Grows
    BY <2>3, <2>5 DEF Grows, Stored
  <2>9. Job(s)' = Job(s)
    BY DEF Job, PartnerOf, RouteOf
  <2>10. RowsOf(Job(s))' # {}
    <3>1. r \in RowsOf(Job(s))'
      BY <1>2, <2>6, <2>9 DEF IsRouteJob, RowsOf, StoredRoutes, Stored
    <3>2. QED
      BY <3>1
  <2>11. QED
    BY <2>4, <2>7, <2>8, <2>10
<1>3. CASE IsPolicyJob(s)
  <2> DEFINE policy == WantedPolicies[Found(s) + 1 - NP - NR]
  <2>1. PICK i \in PolicyId : CreatePolicy(i, PartnerOf(s, policy), RouteOf(s, policy))
    BY <1>3 DEF IsPolicyJob, Insert, NextPolicy, First
  <2>2. Found(s) \in Nat /\ NP + NR <= Found(s) /\ Found(s) + 1 - NP - NR \in 1 .. Len(WantedPolicies)
    BY <1>3, Lengths DEF IsPolicyJob, Found
  <2>3. policy.partner \in 1 .. NP /\ policy.route \in 0 .. NR
    BY <2>2, Lists
  <2>4. PartnerOf(s, policy) \in PartnerId
    <3>1. policy.partner <= Found(s)
      BY <2>2, <2>3, Lengths
    <3>2. QED
      BY <2>3, <3>1 DEF SeederInv, PartnersReady, PartnerOf
  <2>5. RouteOf(s, policy) \in RouteId \cup {0}
    <3>1. CASE policy.route = 0
      BY <3>1 DEF RouteOf
    <3>2. CASE policy.route \in 1 .. NR
      <4>1. NP + policy.route <= Found(s) /\ policy.route # 0
        BY <2>2, <3>2, Lengths
      <4>2. QED
        BY <3>2, <4>1 DEF SeederInv, RoutesReady, RouteOf
    <3>3. QED
      BY <2>3, <3>1, <3>2, Lengths
  <2>6. StoreTypeOK'
    BY <2>1, <2>4, <2>5, EditKeepsTypes DEF Edit
  <2> HIDE DEF policy
  <2>7. PICK p \in PartnerId, r \in RouteId \cup {0} :
          p = PartnerOf(s, policy) /\ r = RouteOf(s, policy)
    BY <2>4, <2>5
  <2>8. /\ policies[i].state = "unborn"
        /\ policies' = [policies EXCEPT ![i] =
                          [state |-> "stored", partner |-> p, route |-> r]]
        /\ PoliciesOf(p, r) = {}
        /\ partners' = partners /\ routes' = routes
    BY <2>1, <2>7, SeedAssumption DEF CreatePolicy
  <2>9. /\ \A j \in PolicyId : j # i => policies'[j] = policies[j]
        /\ policies'[i] = [state |-> "stored", partner |-> p, route |-> r]
    BY <2>8 DEF StoreTypeOK
  <2>10. \A j \in PolicyId : ~(policies[j].state = "stored" /\ policies[j] = policies'[i])
    <3>1. ASSUME NEW j \in PolicyId, policies[j].state = "stored", policies[j] = policies'[i]
          PROVE  FALSE
      <4>1. policies[j].partner = p /\ policies[j].route = r
        BY <2>9, <3>1
      <4>2. j \in PoliciesOf(p, r)
        BY <3>1, <4>1, Zenon DEF PoliciesOf
      <4>3. QED
        BY <2>8, <4>2
    <3>2. QED
      BY <3>1
  <2>11. UniqueRows'
    BY <2>8, <2>9, <2>10 DEF UniqueRows
  <2>12. Grows
    BY <2>8, <2>9 DEF Grows
  <2>13. Job(s)' = Job(s)
    BY DEF Job, PartnerOf, RouteOf
  <2>14. Job(s) = [kind |-> "policy", partner |-> p, route |-> r]
    BY <1>3, <2>7 DEF IsPolicyJob, policy
  <2>15. RowsOf(Job(s))' # {}
    <3>1. i \in RowsOf(Job(s))'
      BY <2>9, <2>13, <2>14 DEF RowsOf, PoliciesOf
    <3>2. QED
      BY <3>1
  <2>16. QED
    BY <2>6, <2>11, <2>12, <2>15
<1>4. QED
  BY <1>1, <1>2, <1>3, JobKinds

(* What the admin does keeps the keys unique, and takes no row unless it is  *)
(* asked to.                                                                 *)
LEMMA AdminEdits ==
    ASSUME SeedTypeOK, UniqueRows, Admin
    PROVE  StoreTypeOK' /\ UniqueRows' /\ (kept' # {} => Grows /\ kept' = kept)
<1> USE DEF SeedTypeOK
<1>1. ASSUME NEW r \in RouteId, NEW u \in Upstreams, NEW strip \in StripFlags,
             UpdateRoute(r, "inactive", u, strip)
      PROVE  StoreTypeOK' /\ UniqueRows' /\ Grows
  <2>1. StoreTypeOK'
    BY <1>1, EditKeepsTypes DEF Edit
  <2>2. /\ Stored(routes[r].state)
        /\ routes'[r].state = "inactive" /\ routes'[r].prefix = routes[r].prefix
        /\ \A q \in RouteId : q # r => routes'[q] = routes[q]
        /\ partners' = partners /\ policies' = policies
    BY <1>1 DEF UpdateRoute, StoreTypeOK, RouteRows
  <2>3. \A q \in RouteId : /\ Stored(routes[q].state) <=> Stored(routes'[q].state)
                           /\ routes'[q].prefix = routes[q].prefix
    BY <2>2 DEF Stored
  <2>4. QED
    BY <2>1, <2>2, <2>3 DEF UniqueRows, Grows
<1>2. ASSUME NEW r \in RouteId, NEW prefix \in PathPrefixes, NEW u \in Upstreams,
             NEW strip \in StripFlags, CreateRoute(r, prefix, u, strip)
      PROVE  StoreTypeOK' /\ UniqueRows' /\ Grows
  <2>1. StoreTypeOK'
    BY <1>2, EditKeepsTypes DEF Edit
  <2>2. /\ routes[r].state = "unborn"
        /\ \A q \in RouteId : Stored(routes[q].state) => routes[q].prefix # prefix
        /\ routes'[r].state = "active" /\ routes'[r].prefix = prefix
        /\ \A q \in RouteId : q # r => routes'[q] = routes[q]
        /\ partners' = partners /\ policies' = policies
    BY <1>2, SeedAssumption DEF CreateRoute, StoreTypeOK
  <2>3. Grows
    BY <2>2 DEF Grows, Stored
  <2>4. UniqueRows'
    BY <2>2 DEF UniqueRows
  <2>5. QED
    BY <2>1, <2>3, <2>4
<1>3. ASSUME NEW p \in PartnerId, DeletePartner(p) PROVE StoreTypeOK' /\ UniqueRows'
  <2>1. StoreTypeOK'
    BY <1>3, EditKeepsTypes DEF Edit
  <2>2. \A q \in PartnerId : Stored(partners'[q]) => Stored(partners[q])
    BY <1>3 DEF DeletePartner, StoreTypeOK, Stored
  <2>3. \A i \in PolicyId : policies'[i].state = "stored" => policies'[i] = policies[i]
    BY <1>3 DEF DeletePartner, StoreTypeOK, PolicyRows
  <2>4. routes' = routes
    BY <1>3 DEF DeletePartner
  <2>5. QED
    BY <2>1, <2>2, <2>3, <2>4 DEF UniqueRows
<1>4. ASSUME NEW r \in RouteId, DeleteRoute(r) PROVE StoreTypeOK' /\ UniqueRows'
  <2>1. StoreTypeOK'
    BY <1>4, EditKeepsTypes DEF Edit
  <2>2. /\ \A q \in RouteId : Stored(routes'[q].state) => routes'[q] = routes[q]
        /\ partners' = partners /\ policies' = policies
    BY <1>4 DEF DeleteRoute, StoreTypeOK, RouteRows, Stored
  <2>3. QED
    BY <2>1, <2>2 DEF UniqueRows
<1>5. ASSUME NEW i \in PolicyId, DeletePolicy(i) PROVE StoreTypeOK' /\ UniqueRows'
  <2>1. StoreTypeOK'
    BY <1>5, EditKeepsTypes DEF Edit
  <2>2. /\ \A j \in PolicyId : policies'[j].state = "stored" => policies'[j] = policies[j]
        /\ partners' = partners /\ routes' = routes
    BY <1>5 DEF DeletePolicy, StoreTypeOK, PolicyRows
  <2>3. QED
    BY <2>1, <2>2 DEF UniqueRows
<1>6. CASE (Deactivate \/ AddRoute) /\ UNCHANGED kept
  BY <1>1, <1>2, <1>6 DEF Deactivate, AddRoute, NextRoute, First
<1>7. CASE Remove /\ kept' = {}
  BY <1>3, <1>4, <1>5, <1>7 DEF Remove
<1>8. QED
  BY <1>6, <1>7 DEF Admin

-----------------------------------------------------------------------------
(* The invariant *)

(* A step of one seeder that leaves the ids and the store alone leaves       *)
(* nothing in doubt for the others.                                          *)
LEMMA StoreUnchanged ==
    ASSUME UNCHANGED <<storeVars, ids>>
    PROVE  /\ Grows /\ (UniqueRows => UniqueRows') /\ (StoreTypeOK => StoreTypeOK')
           /\ \A s \in Seeder : /\ RowsOf(Job(s))' = RowsOf(Job(s))
                                /\ Existing(Job(s))' = Existing(Job(s))
<1> USE DEF storeVars
<1>1. Grows /\ (UniqueRows => UniqueRows') /\ (StoreTypeOK => StoreTypeOK')
  BY DEF Grows, UniqueRows, StoreTypeOK
<1>2. ASSUME NEW s \in Seeder
      PROVE  RowsOf(Job(s))' = RowsOf(Job(s)) /\ Existing(Job(s))' = Existing(Job(s))
  <2>1. Job(s)' = Job(s)
    BY DEF Job, PartnerOf, RouteOf
  <2>2. QED
    BY <2>1 DEF RowsOf, Existing, StoredRoutes, FirstPage, PoliciesOf, FindEffective, SameRoute
<1>3. QED
  BY <1>1, <1>2

(* What remains to be said of a step that finds nothing new.                 *)
LEMMA StepKeepsInv ==
    ASSUME SeedInv, ids' = ids, StoreTypeOK', UniqueRows',
           pc' \in [Seeder -> Phases], alone' \subseteq kept', kept' # {} => Grows /\ kept' = kept,
           \A s \in Seeder : Progress(s)' /\ Undisturbed(s)'
    PROVE  SeedInv'
<1>1. SeedTypeOK'
  BY DEF SeedInv, SeedTypeOK
<1>2. ASSUME NEW s \in Seeder PROVE SeederInv(s)'
  <2>1. SeedTypeOK /\ SeederInv(s)
    BY DEF SeedInv
  <2>2. s \in kept' => Grows /\ s \in kept
    OBVIOUS
  <2>3. QED
    BY <2>1, <2>2, GrowsKeepsInv
<1>3. QED
  BY <1>1, <1>2 DEF SeedInv

(* Every step of a seed, of another or of the admin preserves the invariant. *)
LEMMA SeedStep ==
    ASSUME SeedInv, [Next]_vars
    PROVE  SeedInv'
<1> USE DEF Found
<1>0. /\ SeedTypeOK /\ UniqueRows /\ pc \in [Seeder -> Phases] /\ alone \subseteq kept
      /\ \A s \in Seeder : SeederInv(s) /\ Progress(s) /\ Undisturbed(s)
  BY DEF SeedInv, SeedTypeOK, SeederInv
<1>1. ASSUME UNCHANGED vars PROVE SeedInv'
  <2>1. UNCHANGED <<storeVars, ids>> /\ UNCHANGED <<pc, alone, kept>>
    BY <1>1 DEF vars
  <2>2. StoreTypeOK' /\ UniqueRows' /\ Grows
    BY <1>0, <2>1, StoreUnchanged DEF SeedTypeOK
  <2>3. \A s \in Seeder : Progress(s)' /\ Undisturbed(s)'
    BY <1>0, <2>1, StoreUnchanged DEF Progress, Undisturbed
  <2>4. QED
    BY <1>0, <2>1, <2>2, <2>3, StepKeepsInv
<1>2. ASSUME Admin PROVE SeedInv'
  <2>1. StoreTypeOK' /\ UniqueRows' /\ (kept' # {} => Grows /\ kept' = kept)
    BY <1>0, <1>2, AdminEdits
  <2>2. pc' = pc /\ ids' = ids /\ alone' = {}
    BY <1>2 DEF Admin
  <2>3. \A s \in Seeder : Progress(s)' /\ Undisturbed(s)'
    BY <1>0, <2>2 DEF Progress, Undisturbed
  <2>4. QED
    BY <1>0, <2>1, <2>2, <2>3, StepKeepsInv
<1>3. ASSUME NEW s \in Seeder, Look(s) PROVE SeedInv'
  <2>1. UNCHANGED <<storeVars, alone, kept>> /\ UniqueRows'
    BY <1>0, <1>3 DEF Look, storeVars, UniqueRows
  <2>2. ASSUME NEW id \in Existing(Job(s)), Ensured(s, id) PROVE SeedInv'
    <3>1. id \in RowsOf(Job(s)) /\ pc[s] \in {"looking", "selecting"}
      BY <1>0, <1>3, LookupFindsRows DEF Look
    <3>2. QED
      BY <2>1, <2>2, <3>1, EnsuredKeepsInv DEF SeedInv
  <2>3. ASSUME Existing(Job(s)) = {}, Goto(s, "looking", "creating"), ids' = ids PROVE SeedInv'
    <3>1. UNCHANGED <<storeVars, ids>>
      BY <2>1, <2>3
    <3>2. pc' \in [Seeder -> Phases] /\ pc[s] = "looking" /\ pc'[s] = "creating"
          /\ \A t \in Seeder : t # s => pc'[t] = pc[t]
      BY <1>0, <2>3 DEF Goto, Phases
    <3>3. StoreTypeOK' /\ Grows
      BY <1>0, <3>1, StoreUnchanged DEF SeedTypeOK
    <3>4. \A t \in Seeder : Progress(t)' /\ Undisturbed(t)'
      BY <1>0, <2>1, <2>3, <3>1, <3>2, StoreUnchanged DEF Progress, Undisturbed
    <3>5. QED
      BY <1>0, <2>1, <2>3, <3>2, <3>3, <3>4, StepKeepsInv
  <2>4. QED
    BY <1>3, <2>2, <2>3 DEF Look
<1>4. ASSUME NEW s \in Seeder, LookFails(s) \/ CreateRefused(s) \/ Fails(s) PROVE SeedInv'
  <2>1. UNCHANGED <<storeVars, ids>> /\ kept' = kept /\ alone' \subseteq alone
    BY <1>4 DEF LookFails, CreateRefused, Fails, Fault
  <2>2. /\ pc' \in [Seeder -> Phases] /\ pc[s] \in {"looking", "creating", "selecting"}
        /\ pc'[s] = "stopped" \/ (pc[s] = "looking" /\ pc'[s] = "creating" /\ s \notin alone')
        /\ \A t \in Seeder : t # s => pc'[t] = pc[t]
    BY <1>0, <1>4 DEF LookFails, CreateRefused, Fails, Fault, Goto, Phases
  <2>3. StoreTypeOK' /\ UniqueRows' /\ Grows
    BY <1>0, <2>1, StoreUnchanged DEF SeedTypeOK
  <2>4. \A t \in Seeder : Progress(t)' /\ Undisturbed(t)'
    BY <1>0, <2>1, <2>2, StoreUnchanged DEF Progress, Undisturbed
  <2>5. QED
    BY <1>0, <2>1, <2>2, <2>3, <2>4, StepKeepsInv
<1>5. ASSUME NEW s \in Seeder, Create(s) PROVE SeedInv'
  <2>1. /\ pc[s] = "creating" /\ Insert(Job(s)) /\ ids' = ids /\ kept' = kept
        /\ \/ pc' = [pc EXCEPT ![s] = "selecting"] /\ alone' = alone \cap {s}
           \/ pc' = [pc EXCEPT ![s] = "stopped"] /\ alone' = {}
    BY <1>5 DEF Create, Goto
  <2>2. Len(ids[s]) < Jobs
    BY <1>0, <2>1 DEF Progress
  <2>3. StoreTypeOK' /\ UniqueRows' /\ Grows /\ RowsOf(Job(s))' # {}
    BY <1>0, <2>1, <2>2, InsertAdds
  <2>4. /\ pc' \in [Seeder -> Phases] /\ pc'[s] \in {"selecting", "stopped"}
        /\ \A t \in Seeder : t # s => pc'[t] = pc[t]
    BY <1>0, <2>1 DEF Phases
  <2>5. \A t \in Seeder : Progress(t)'
    BY <1>0, <2>1, <2>4 DEF Progress
  <2>6. \A t \in Seeder : Undisturbed(t)'
    BY <2>1, <2>3, <2>4 DEF Undisturbed
  <2>7. alone' \subseteq kept'
    BY <1>0, <2>1
  <2>8. QED
    BY <1>0, <2>1, <2>3, <2>4, <2>5, <2>6, <2>7, StepKeepsInv
<1>6. ASSUME NEW s \in Seeder, Select(s) PROVE SeedInv'
  <2>1. UNCHANGED <<storeVars, alone, kept>> /\ UniqueRows' /\ pc[s] = "selecting"
    BY <1>0, <1>6 DEF Select, storeVars, UniqueRows
  <2>2. ASSUME NEW id \in RowsOf(Job(s)), Ensured(s, id) PROVE SeedInv'
    BY <2>1, <2>2, EnsuredKeepsInv DEF SeedInv
  <2>3. ASSUME Goto(s, "selecting", "stopped"), ids' = ids PROVE SeedInv'
    <3>1. UNCHANGED <<storeVars, ids>>
      BY <2>1, <2>3
    <3>2. /\ pc' \in [Seeder -> Phases] /\ pc'[s] = "stopped"
          /\ \A t \in Seeder : t # s => pc'[t] = pc[t]
      BY <1>0, <2>3 DEF Goto, Phases
    <3>3. StoreTypeOK' /\ Grows
      BY <1>0, <3>1, StoreUnchanged DEF SeedTypeOK
    <3>4. \A t \in Seeder : Progress(t)' /\ Undisturbed(t)'
      BY <1>0, <2>1, <2>3, <3>1, <3>2, StoreUnchanged DEF Progress, Undisturbed
    <3>5. QED
      BY <1>0, <2>1, <2>3, <3>2, <3>3, <3>4, StepKeepsInv
  <2>4. QED
    BY <1>6, <2>2, <2>3 DEF Select
<1>7. ASSUME NEW s \in Seeder, Rerun(s) PROVE SeedInv'
  <2>1. /\ UNCHANGED storeVars /\ pc' = [pc EXCEPT ![s] = "looking"]
        /\ ids' = [ids EXCEPT ![s] = <<>>]
        /\ alone' = alone \cup {s} /\ kept' = kept \cup {s}
    BY <1>7 DEF Rerun, Goto
  <2>2. SeedTypeOK' /\ UniqueRows'
    BY <1>0, <2>1 DEF SeedTypeOK, StoreTypeOK, UniqueRows, storeVars, Phases
  <2>3. ids'[s] = <<>> /\ pc'[s] = "looking"
    BY <1>0, <2>1 DEF SeedTypeOK
  <2>4. SeederInv(s)' /\ Undisturbed(s)'
    <3>1. Len(ids'[s]) = 0
      BY <2>3
    <3>2. Progress(s)' /\ Undisturbed(s)'
      BY <2>3, <3>1, Lengths DEF Progress, Undisturbed
    <3>3. PartnersReady(s)' /\ RoutesReady(s)' /\ PoliciesReady(s)'
      BY <3>1, Lengths DEF PartnersReady, RoutesReady, PoliciesReady
    <3>4. QED
      BY <3>2, <3>3 DEF SeederInv
  <2>5. ASSUME NEW t \in Seeder, t # s PROVE SeederInv(t)' /\ Undisturbed(t)'
    <3>1. /\ ids'[t] = ids[t] /\ pc'[t] = pc[t] /\ (t \in kept' <=> t \in kept)
          /\ (t \in alone' <=> t \in alone)
      BY <1>0, <2>1, <2>5 DEF SeedTypeOK
    <3>2. Grows
      BY <2>1 DEF Grows, storeVars
    <3>3. Progress(t)'
      BY <1>0, <3>1 DEF Progress
    <3>4. SeederInv(t)'
      BY <1>0, <3>1, <3>2, <3>3, GrowsKeepsInv
    <3>5. Job(t)' = Job(t)
      BY <3>1 DEF Job, PartnerOf, RouteOf
    <3>6. RowsOf(Job(t))' = RowsOf(Job(t)) /\ Existing(Job(t))' = Existing(Job(t))
      BY <2>1, <3>5 DEF RowsOf, Existing, StoredRoutes, FirstPage, PoliciesOf, FindEffective,
                        SameRoute, storeVars
    <3>7. QED
      BY <1>0, <3>1, <3>4, <3>6 DEF Undisturbed
  <2>6. QED
    BY <2>2, <2>4, <2>5 DEF SeedInv
<1>8. QED
  BY <1>1, <1>2, <1>3, <1>4, <1>5, <1>6, <1>7 DEF Next, Command

(* So it holds always.                                                       *)
LEMMA SeedInvariant == Spec => []SeedInv
<1>1. Init => SeedInv
  <2> SUFFICES ASSUME Init PROVE SeedInv
    OBVIOUS
  <2>1. SeedTypeOK
    BY FirstRowsAssumption, EmptySeq DEF Init, InitStore, SeedTypeOK, StoreTypeOK, Phases
  <2>2. UniqueRows
    BY UniqueRowsAssumption DEF Init, InitStore, UniqueRows
  <2>3. ASSUME NEW s \in Seeder PROVE SeederInv(s) /\ Undisturbed(s)
    <3>1. Found(s) = 0 /\ pc[s] = "looking"
      BY DEF Init, Found
    <3>2. Progress(s) /\ Undisturbed(s)
      BY <3>1, Lengths DEF Progress, Undisturbed
    <3>3. PartnersReady(s) /\ RoutesReady(s) /\ PoliciesReady(s)
      BY <3>1, Lengths DEF PartnersReady, RoutesReady, PoliciesReady
    <3>4. QED
      BY <3>2, <3>3 DEF SeederInv
  <2>4. QED
    BY <2>1, <2>2, <2>3 DEF SeedInv
<1>2. SeedInv /\ [Next]_vars => SeedInv'
  BY SeedStep
<1>3. QED
  BY <1>1, <1>2, PTL DEF Spec

(* What a seeder has that has ended, unless something was deleted since.     *)
HasPartners(s) ==
    \A n \in 1 .. NP : /\ ids[s][n] \in PartnerId
                       /\ Stored(partners[ids[s][n]])
                       /\ KeyOf[ids[s][n]] = WantedKeys[n]
HasRoutes(s) ==
    \A n \in 1 .. NR : /\ ids[s][NP + n] \in RouteId
                       /\ Stored(routes[ids[s][NP + n]].state)
                       /\ routes[ids[s][NP + n]].prefix = WantedPrefixes[n]
HasPolicies(s) ==
    \A n \in 1 .. Len(WantedPolicies) :
        /\ ids[s][NP + NR + n] \in PolicyId
        /\ policies[ids[s][NP + NR + n]] =
             [state |-> "stored", partner |-> PartnerOf(s, WantedPolicies[n]),
              route |-> RouteOf(s, WantedPolicies[n])]

(* A seed that ended has been through all three lists.                       *)
LEMMA AllFound ==
    ASSUME SeedInv, NEW s \in Seeder, s \in kept, pc[s] = "done"
    PROVE  HasPartners(s) /\ HasRoutes(s) /\ HasPolicies(s)
<1>1. Found(s) = Jobs /\ PartnersReady(s) /\ RoutesReady(s) /\ PoliciesReady(s)
  BY DEF SeedInv, SeederInv, Progress
<1>2. /\ \A n \in 1 .. NP : n <= Jobs
      /\ \A n \in 1 .. NR : NP + n <= Jobs
      /\ \A n \in 1 .. Len(WantedPolicies) : NP + NR + n <= Jobs
  BY Lengths
<1>3. HasPartners(s)
  BY <1>1, <1>2, Zenon DEF PartnersReady, HasPartners
<1>4. HasRoutes(s)
  BY <1>1, <1>2, Zenon DEF RoutesReady, HasRoutes
<1>5. HasPolicies(s)
  BY <1>1, <1>2, Zenon DEF PoliciesReady, HasPolicies
<1>6. QED
  BY <1>3, <1>4, <1>5

(* A seed that has ended has made sure of every partner, route and policy it *)
(* names (ensurePartner, ensureRoute and ensurePolicy), for any lists, any   *)
(* other seeds and any failures, unless something was deleted meanwhile.     *)
THEOREM SeedEndsComplete == Spec => []SeedComplete
<1>1. SeedInv => SeedComplete
  <2>1. ASSUME SeedInv, NEW s \in kept, pc[s] = "done"
        PROVE  HasPartners(s) /\ HasRoutes(s) /\ HasPolicies(s)
    <3>1. s \in Seeder
      BY <2>1 DEF SeedInv, SeedTypeOK
    <3>2. QED
      BY <2>1, <3>1, AllFound
  <2>2. ASSUME NEW s, HasPolicies(s), NEW n \in DOMAIN WantedPolicies
        PROVE  PoliciesOf(PartnerOf(s, WantedPolicies[n]), RouteOf(s, WantedPolicies[n])) # {}
    <3>1. n \in 1 .. Len(WantedPolicies)
      BY <2>2, WantedAssumption
    <3> DEFINE id == ids[s][NP + NR + n]
    <3>2. /\ id \in PolicyId
          /\ policies[id] = [state |-> "stored", partner |-> PartnerOf(s, WantedPolicies[n]),
                             route |-> RouteOf(s, WantedPolicies[n])]
      BY <2>2, <3>1, Zenon DEF HasPolicies
    <3> HIDE DEF id
    <3>3. id \in PoliciesOf(PartnerOf(s, WantedPolicies[n]), RouteOf(s, WantedPolicies[n]))
      BY <3>2 DEF PoliciesOf
    <3>4. QED
      BY <3>3
  <2>3. QED
    BY <2>1, <2>2, Zenon DEF SeedComplete, HasPartners, HasRoutes
<1>2. QED
  BY <1>1, SeedInvariant, PTL

(* Two seeds that have ended have the same ids: what they looked for has a   *)
(* unique key, and what one of them inserted the other finds.                *)
THEOREM SeedsSpeakOfTheSame == Spec => []SeedsAgree
<1>1. SeedInv => SeedsAgree
  <2> SUFFICES ASSUME SeedInv, NEW s \in kept, NEW t \in kept, pc[s] = "done", pc[t] = "done"
               PROVE  ids[s] = ids[t]
    BY Zenon DEF SeedsAgree
  <2>1. /\ s \in Seeder /\ t \in Seeder /\ ids[s] \in Seq(Nat) /\ ids[t] \in Seq(Nat)
        /\ Len(ids[s]) = Jobs /\ Len(ids[t]) = Jobs /\ UniqueRows
    BY DEF SeedInv, SeedTypeOK, SeederInv, Progress, Found
  <2>0. /\ HasPartners(s) /\ HasRoutes(s) /\ HasPolicies(s)
        /\ HasPartners(t) /\ HasRoutes(t) /\ HasPolicies(t)
    BY <2>1, AllFound
  <2>2. \A n \in 1 .. NP : ids[s][n] = ids[t][n]
    BY <2>1, <2>0, Zenon DEF UniqueRows, HasPartners
  <2>3. ASSUME NEW n \in 1 .. NR PROVE ids[s][NP + n] = ids[t][NP + n]
    <3> DEFINE r == ids[s][NP + n]
               q == ids[t][NP + n]
    <3>1. /\ r \in RouteId /\ Stored(routes[r].state)
          /\ q \in RouteId /\ Stored(routes[q].state)
          /\ routes[r].prefix = routes[q].prefix
      BY <2>0, Zenon DEF HasRoutes
    <3> HIDE DEF r, q
    <3>2. r = q
      BY <2>1, <3>1 DEF UniqueRows
    <3>3. QED
      BY <3>2 DEF r, q
  <2>4. ASSUME NEW n \in 1 .. Len(WantedPolicies)
        PROVE  ids[s][NP + NR + n] = ids[t][NP + NR + n]
    <3>1. WantedPolicies[n].partner \in 1 .. NP /\ WantedPolicies[n].route \in 0 .. NR
      BY Lists
    <3>2. PartnerOf(s, WantedPolicies[n]) = PartnerOf(t, WantedPolicies[n])
      BY <2>2, <3>1 DEF PartnerOf
    <3>3. RouteOf(s, WantedPolicies[n]) = RouteOf(t, WantedPolicies[n])
      <4>1. CASE WantedPolicies[n].route = 0
        BY <4>1 DEF RouteOf
      <4>2. CASE WantedPolicies[n].route \in 1 .. NR
        BY <2>3, <4>2 DEF RouteOf
      <4>3. QED
        BY <3>1, <4>1, <4>2, Lengths
    <3> DEFINE i == ids[s][NP + NR + n]
               j == ids[t][NP + NR + n]
    <3>4. /\ i \in PolicyId /\ j \in PolicyId /\ policies[i] = policies[j]
          /\ policies[i] = [state |-> "stored", partner |-> PartnerOf(s, WantedPolicies[n]),
                            route |-> RouteOf(s, WantedPolicies[n])]
      BY <2>0, <3>2, <3>3, Zenon DEF HasPolicies
    <3> HIDE DEF i, j
    <3>5. policies[i].state = "stored"
      BY <3>4
    <3>6. i = j
      BY <2>1, <3>4, <3>5 DEF UniqueRows
    <3>7. QED
      BY <3>6 DEF i, j
  <2>5. \A k \in 1 .. Jobs : ids[s][k] = ids[t][k]
    <3>1. ASSUME NEW k \in 1 .. Jobs
          PROVE  \/ k \in 1 .. NP
                 \/ k - NP \in 1 .. NR /\ NP + (k - NP) = k
                 \/ /\ k - NP - NR \in 1 .. Len(WantedPolicies)
                    /\ NP + NR + (k - NP - NR) = k
      BY Lengths
    <3>2. QED
      BY <2>2, <2>3, <2>4, <3>1
  <2>6. QED
    BY <2>1, <2>5, SeqEqual
<1>2. QED
  BY <1>1, SeedInvariant, PTL

(* A seeder that meets no failure and no other writer does not stop,         *)
(* whatever earlier runs left behind, unless there are more routes than      *)
(* ensureRoute looks at.                                                     *)
THEOREM SeedMayRunAgain == Spec => RunsAgain
<1>1. ASSUME SeedInv, [Next]_vars, NEW s \in alone,
             pc[s] # "stopped", pc'[s] = "stopped", s \in alone'
      PROVE  Cardinality(StoredRoutes) > PageLimit
  <2>1. /\ SeedTypeOK /\ s \in Seeder /\ s \in kept
        /\ SeederInv(s) /\ Undisturbed(s) /\ pc \in [Seeder -> Phases]
    <3>1. SeedTypeOK /\ pc \in [Seeder -> Phases] /\ s \in kept /\ s \in Seeder
      BY <1>1 DEF SeedInv, SeedTypeOK
    <3>2. QED
      BY <1>1, <3>1 DEF SeedInv
  <2>2. CreateRefused(s) \/ (Select(s) /\ RowsOf(Job(s)) = {})
    <3>1. ASSUME NEW t \in Seeder, Command(t) PROVE CreateRefused(s) \/ (Select(s) /\ RowsOf(Job(s)) = {})
      <4>1. t = s
        BY <1>1, <2>1, <3>1 DEF Command, Look, LookFails, Create, CreateRefused, Select, Fails,
                                Rerun, Ensured, Goto, Fault
      <4>2. ~Look(s) /\ ~LookFails(s) /\ ~Rerun(s)
        BY <1>1, <2>1 DEF Look, LookFails, Rerun, Ensured, Goto
      <4>3. ~Create(s) /\ ~Fails(s)
        BY <1>1, <2>1 DEF Create, Fails, Goto, Fault
      <4>4. Select(s) => RowsOf(Job(s)) = {}
        BY <1>1, <2>1 DEF Select, Ensured
      <4>5. QED
        BY <3>1, <4>1, <4>2, <4>3, <4>4 DEF Command
    <3>2. ~Admin /\ ~UNCHANGED vars
      BY <1>1 DEF Admin, vars
    <3>3. QED
      BY <1>1, <3>1, <3>2 DEF Next
  <2>3. CreateRefused(s)
    BY <2>1, <2>2 DEF Select, Undisturbed
  <2>4. pc[s] = "creating" /\ Refused(Job(s)) /\ Existing(Job(s)) = {}
    BY <1>1, <2>1, <2>3 DEF CreateRefused, Goto, Undisturbed
  <2>5. RowsOf(Job(s)) # {}
    <3>1. ~(Job(s).kind = "policy" /\ ~Stored(partners[Job(s).partner]))
      <4>1. CASE IsPolicyJob(s)
        <5> DEFINE policy == WantedPolicies[Found(s) + 1 - NP - NR]
        <5>1. /\ Found(s) \in Nat /\ Found(s) < Jobs /\ NP + NR <= Found(s)
              /\ PartnersReady(s)
          BY <2>1, <2>4, <4>1 DEF SeedTypeOK, SeederInv, Progress, IsPolicyJob, Found
        <5>2. Found(s) + 1 - NP - NR \in 1 .. Len(WantedPolicies)
          BY <5>1, Lengths
        <5>3. policy.partner \in 1 .. NP /\ policy.partner <= Found(s)
          BY <5>1, <5>2, Lists, Lengths
        <5>4. Stored(partners[PartnerOf(s, policy)])
          BY <2>1, <5>1, <5>3 DEF PartnersReady, PartnerOf
        <5>5. QED
          BY <4>1, <5>4 DEF IsPolicyJob
      <4>2. CASE IsPartnerJob(s) \/ IsRouteJob(s)
        BY <4>2 DEF IsPartnerJob, IsRouteJob
      <4>3. QED
        BY <2>1, <4>1, <4>2, JobKinds
    <3>2. QED
      BY <2>4, <3>1 DEF Refused
  <2>6. QED
    BY <2>1, <2>4, <2>5, LookupMissesNone
<1>2. SeedInv /\ [Next]_vars
        => [\A s \in alone : pc[s] # "stopped" /\ pc'[s] = "stopped" /\ s \in alone' =>
                Cardinality(StoredRoutes) > PageLimit]_vars
  BY <1>1
<1>3. QED
  BY <1>2, SeedInvariant, PTL DEF Spec, RunsAgain
==============================================================================
