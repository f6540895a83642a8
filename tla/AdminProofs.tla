----------------------------- MODULE AdminProofs -----------------------------
(***************************************************************************)
(* Theorems about the admin handlers, for any store and any number of      *)
(* requests at once.                                                       *)
(*                                                                         *)
(* The handlers implement the store of StoreSpec: whatever a handler has   *)
(* read before, each of its steps is an operation of the store or leaves   *)
(* it alone.  This needs AdminInv, which says what a handler has in hands  *)
(* when it comes to write: the row an update has read was stored then.     *)
(* DeleteInv and HeldInv rest on it.                                       *)
(***************************************************************************)
EXTENDS Admin, StoreProofs

-----------------------------------------------------------------------------
(* The invariants *)

Copies == {Nothing} \cup [state : States] \cup RouteRows
Ids == {0} \cup PartnerId \cup RouteId \cup PolicyId

\* The copy of the row of an update, of the type of its row.
ReadRow(a, row) ==
    /\ row.state \in {"active", "inactive"}
    /\ a.op = "update route" => row.upstream \in Upstreams /\ row.strip \in StripFlags

Handling(q) ==
    /\ pc[q] = "idle" => ask[q] = Nothing
    /\ pc[q] = "reading" => ask[q] \in Updates
    /\ pc[q] \in {"checking", "checking route"} => ask[q].op = "create policy"
    /\ pc[q] = "selecting" => ask[q] \in Creations
    /\ pc[q] = "writing" /\ ask[q] \in Updates => ReadRow(ask[q], copy[q])

AdminInv ==
    /\ TypeOK
    /\ copy \in [Request -> Copies] /\ answer \in [Request -> Ids]
    /\ \A q \in Request : Handling(q)

\* What a request that deletes was asked to delete is deleted.
IsDeleted(a) ==
    \/ a.op = "delete partner" /\ partners[a.id] = "deleted"
    \/ a.op = "delete route" /\ routes[a.id].state = "deleted"
    \/ a.op = "delete policy" /\ policies[a.id].state = "deleted"

DeleteInv == \A q \in Request : status[q] = 204 => IsDeleted(ask[q])

\* The updates in held have read an inactive partner, if they have read.
HeldInv ==
    \A q \in held :
        /\ q \in Request
        /\ ask[q].op = "update partner" /\ partners[ask[q].id] = "inactive"
        /\ pc[q] = "writing" => copy[q].state = "inactive"

-----------------------------------------------------------------------------
(* What a request may ask *)

\* The parts of a request that its handler reads have their types.
LEMMA Asks ==
    ASSUME NEW a \in Asked
    PROVE  /\ a.op = "create route" =>
                a.prefix \in PathPrefixes /\ a.upstream \in Upstreams /\ a.strip \in StripFlags
           /\ a.op = "create policy" => a.partner \in PartnerId /\ a.route \in RouteId \cup {0}
           /\ a.op = "update partner" => a.id \in PartnerId /\ a.state \in Flags
           /\ a.op = "update route" =>
                /\ a.id \in RouteId /\ a.state \in Flags
                /\ a.upstream \in Upstreams \cup {Kept} /\ a.strip \in StripFlags \cup {Kept}
           /\ a.op = "delete partner" => a.id \in PartnerId
           /\ a.op = "delete route" => a.id \in RouteId
           /\ a.op = "delete policy" => a.id \in PolicyId
           /\ a \in Updates <=> a.op \in {"update partner", "update route"}
           /\ a \in Creations <=> a.op \in {"create partner", "create route", "create policy"}
<1>1. CASE a \in Creations
  BY <1>1 DEF Creations, Updates
<1>2. CASE a \in Updates
  BY <1>2 DEF Creations, Updates
<1>3. CASE a \in Deletions
  BY <1>3 DEF Creations, Updates, Deletions
<1>4. CASE a = Nothing
  BY <1>4 DEF Creations, Updates, Nothing
<1>5. QED
  BY <1>1, <1>2, <1>3, <1>4 DEF Asked

(* An update writes flags, and an upstream, of the right type.                *)
LEMMA MergedTypes ==
    ASSUME AdminInv, NEW q \in Request, pc[q] = "writing"
    PROVE  /\ ask[q].op = "update partner" => Merged(q, "state") \in {"active", "inactive"}
           /\ ask[q].op = "update route" =>
                /\ Merged(q, "state") \in {"active", "inactive"}
                /\ Merged(q, "upstream") \in Upstreams /\ Merged(q, "strip") \in StripFlags
<1>1. ask[q] \in Asked /\ Handling(q)
  BY DEF AdminInv, TypeOK
<1>2. ask[q] \in Updates => ReadRow(ask[q], copy[q])
  BY <1>1 DEF Handling
<1>3. QED
  BY <1>1, <1>2, Asks DEF Merged, ReadRow, Flags

-----------------------------------------------------------------------------
(* The handlers and the store *)

(* Every step of a handler is an operation of the store or leaves it alone.   *)
LEMMA HandlerEdits ==
    ASSUME AdminInv, NEW q \in Request, Handle(q)
    PROVE  Edit \/ UNCHANGED storeVars
<1>1. ask[q] \in Asked
  BY DEF AdminInv, TypeOK
<1>2. CASE Update(q)
  <2>1. CASE ask[q].op = "update partner"
    <3>1. UpdatePartner(ask[q].id, Merged(q, "state"))
      BY <1>2, <2>1 DEF Update
    <3>2. ask[q].id \in PartnerId /\ Merged(q, "state") \in {"active", "inactive"}
      BY <1>1, <1>2, <2>1, Asks, MergedTypes DEF Update
    <3>3. QED
      BY <3>1, <3>2 DEF Edit
  <2>2. CASE ask[q].op = "update route"
    <3>1. UpdateRoute(ask[q].id, Merged(q, "state"), Merged(q, "upstream"), Merged(q, "strip"))
      BY <1>2, <2>2 DEF Update
    <3>2. /\ ask[q].id \in RouteId /\ Merged(q, "state") \in {"active", "inactive"}
          /\ Merged(q, "upstream") \in Upstreams /\ Merged(q, "strip") \in StripFlags
      BY <1>1, <1>2, <2>2, Asks, MergedTypes DEF Update
    <3>3. QED
      BY <3>1, <3>2 DEF Edit
  <2>3. QED
    BY <1>2, <2>1, <2>2 DEF Update
<1>3. CASE Delete(q)
  BY <1>1, <1>3, Asks DEF Delete, Edit
<1>4. CASE Create(q)
  <2>1. PICK n \in PartnerId \cup RouteId \cup PolicyId : Insert(ask[q], n)
    BY <1>4 DEF Create
  <2>2. QED
    BY <1>1, <2>1, Asks DEF Insert, Edit
<1>5. CASE ~(Update(q) \/ Delete(q) \/ Create(q))
  BY <1>5 DEF Handle, Arrive, Fails, Read, ReadNothing, WriteNothing, Check, CheckRoute,
       BadReference, Select
<1>6. QED
  BY <1>2, <1>3, <1>4, <1>5

(* A step answers its request or takes it to another point.                   *)
LEMMA Moves ==
    ASSUME NEW q \in Request, Handle(q)
    PROVE  \/ \E code \in Statuses \ {0} : Answer(q, code)
           \/ \E from, to \in Points \ {"done"} : status' = status /\ Goto(q, from, to)
<1> DEFINE Goal ==
           \/ \E code \in Statuses \ {0} : Answer(q, code)
           \/ \E from, to \in Points \ {"done"} : status' = status /\ Goto(q, from, to)
<1>0. /\ 201 \in Statuses \ {0} /\ 400 \in Statuses \ {0}
      /\ 404 \in Statuses \ {0} /\ 500 \in Statuses \ {0}
      /\ "writing" \in Points \ {"done"} /\ "selecting" \in Points \ {"done"}
  BY DEF Points, Statuses
<1>1. CASE Arrive(q)
  <2> USE DEF Points
  <2>1. PICK a \in Creations \cup Updates \cup Deletions :
           Goto(q, "idle",
                CASE a \in Updates -> "reading"
                  [] a.op = "create policy" -> "checking"
                  [] OTHER -> "writing")
    BY <1>1 DEF Arrive
  <2>2. QED
    BY <1>1, <2>1 DEF Arrive
<1>2. CASE Read(q) \/ CheckRoute(q)
  BY <1>2 DEF Read, CheckRoute, Points
<1>3. CASE Check(q)
  BY <1>3 DEF Check, Points
<1>4. CASE Create(q)
  <2>1. \/ Goto(q, "writing", "selecting") /\ status' = status
        \/ Answer(q, 201)
    BY <1>4, Zenon DEF Create
  <2>2. QED
    BY <1>0, <2>1, Zenon
<1>5. CASE Update(q) \/ Delete(q)
  <2>1. PICK code \in Outcome(200) \cup Outcome(204) : Answer(q, code)
    BY <1>5 DEF Update, Delete
  <2>2. code \in Statuses \ {0}
    BY DEF Outcome, Statuses
  <2>3. QED
    BY <2>1, <2>2
<1>6. CASE Fails(q) \/ ReadNothing(q) \/ WriteNothing(q) \/ BadReference(q) \/ Select(q)
  <2>1. Answer(q, 201) \/ Answer(q, 400) \/ Answer(q, 404) \/ Answer(q, 500)
    BY <1>6, Zenon DEF Fails, ReadNothing, WriteNothing, BadReference, Select
  <2>2. QED
    BY <1>0, <2>1, Zenon
<1>7. QED
  BY <1>1, <1>2, <1>3, <1>4, <1>5, <1>6 DEF Handle

(* It gives its request something to do, a copy or an id, if anything.        *)
LEMMA Changes ==
    ASSUME NEW q \in Request, Handle(q)
    PROVE  /\ ask' = ask \/ \E a : ask' = [ask EXCEPT ![q] = a]
           /\ copy' = copy \/ \E row : copy' = [copy EXCEPT ![q] = row]
           /\ answer' = answer \/ \E n : answer' = [answer EXCEPT ![q] = n]
<1>1. CASE Arrive(q)
  BY <1>1 DEF Arrive
<1>2. CASE Read(q)
  BY <1>2 DEF Read
<1>3. CASE Create(q)
  BY <1>3 DEF Create
<1>4. CASE Select(q)
  BY <1>4 DEF Select
<1>5. CASE ~(Arrive(q) \/ Read(q) \/ Create(q) \/ Select(q))
  BY <1>5 DEF Handle, Fails, ReadNothing, Update, Delete, WriteNothing, Check, CheckRoute,
       BadReference
<1>6. QED
  BY <1>1, <1>2, <1>3, <1>4, <1>5

(* A step of one request leaves every other as it is.                         *)
LEMMA OthersKeep ==
    ASSUME AdminInv, NEW q \in Request, Handle(q), NEW o \in Request \ {q}
    PROVE  /\ pc'[o] = pc[o] /\ ask'[o] = ask[o] /\ copy'[o] = copy[o]
           /\ status'[o] = status[o] /\ answer'[o] = answer[o]
<1>1. /\ pc \in [Request -> Points] /\ status \in [Request -> Statuses]
      /\ ask \in [Request -> Asked] /\ copy \in [Request -> Copies]
      /\ answer \in [Request -> Ids]
  BY Zenon DEF AdminInv, TypeOK
<1>2. pc'[o] = pc[o] /\ status'[o] = status[o]
  BY <1>1, Moves DEF Answer, Goto
<1>3. ask'[o] = ask[o] /\ copy'[o] = copy[o] /\ answer'[o] = answer[o]
  BY <1>1, Changes
<1>4. QED
  BY <1>2, <1>3

-----------------------------------------------------------------------------
(* What a request has in hands *)

\* A step of a handler keeps the types of its request and what is known of it at
\* its point of the handler.
LEMMA RequestTypes ==
    ASSUME AdminInv, NEW q \in Request, Handle(q)
    PROVE  /\ pc' \in [Request -> Points] /\ ask' \in [Request -> Asked]
           /\ copy' \in [Request -> Copies] /\ answer' \in [Request -> Ids]
           /\ Handling(q)'
<1> DEFINE Goal ==
           /\ pc' \in [Request -> Points] /\ ask' \in [Request -> Asked]
           /\ copy' \in [Request -> Copies] /\ answer' \in [Request -> Ids]
           /\ Handling(q)'
<1> USE DEF Points
<1>1. ask[q] \in Asked
  BY DEF AdminInv, TypeOK
<1>2. /\ ask[q].op = "create policy" => ask[q] \notin Updates
      /\ ask[q].op = "update partner" => ask[q].id \in PartnerId
      /\ ask[q].op = "update route" => ask[q].id \in RouteId
      /\ ask[q] \in Updates <=> ask[q].op \in {"update partner", "update route"}
      /\ ask[q] \in Creations <=>
            ask[q].op \in {"create partner", "create route", "create policy"}
  BY <1>1, Asks
<1>3. CASE Arrive(q)
  <2>1. PICK a \in Creations \cup Updates \cup Deletions :
           /\ ask' = [ask EXCEPT ![q] = a]
           /\ Goto(q, "idle",
                   CASE a \in Updates -> "reading"
                     [] a.op = "create policy" -> "checking"
                     [] OTHER -> "writing")
    BY <1>3 DEF Arrive
  <2>2. a \in Asked /\ (a.op = "create policy" => a \notin Updates)
    BY Asks DEF Asked
  <2>3. PICK to \in {"reading", "checking", "writing"} :
           /\ pc[q] = "idle" /\ pc' = [pc EXCEPT ![q] = to]
           /\ to = "reading" <=> a \in Updates
           /\ to = "checking" => a.op = "create policy"
    BY <2>1, <2>2 DEF Goto
  <2>4. copy' = copy /\ answer' = answer
    BY <1>3 DEF Arrive
  <2>5. pc'[q] = to /\ ask'[q] = a
    BY <2>1, <2>3 DEF AdminInv, TypeOK
  <2>6. Handling(q)'
    BY <2>3, <2>5 DEF Handling
  <2>7. QED
    BY <2>1, <2>2, <2>3, <2>4, <2>6 DEF AdminInv, TypeOK
<1>4. CASE Fails(q)
  BY <1>4 DEF Fails, Answer, AdminInv, TypeOK, Handling
<1>5. CASE Read(q)
  <2>1. ask[q] \in Updates
    BY <1>5 DEF Read, Goto, AdminInv, Handling
  <2>2. /\ Found(q) \in Copies
        /\ ReadRow(ask[q], Found(q))
    <3>1. CASE ask[q].op = "update partner"
      BY <1>2, <1>5, <3>1 DEF Read, Found, RowOf, ReadRow, Stored, AdminInv, TypeOK, StoreTypeOK,
           Copies
    <3>2. CASE ask[q].op = "update route"
      BY <1>2, <1>5, <3>2 DEF Read, Found, RowOf, ReadRow, Stored, AdminInv, TypeOK, StoreTypeOK,
           RouteRows, Copies
    <3>3. QED
      BY <1>2, <2>1, <3>1, <3>2
  <2>3. QED
    BY <1>5, <2>2 DEF Read, Goto, AdminInv, TypeOK, Handling
<1>6. CASE ReadNothing(q)
  BY <1>6 DEF ReadNothing, Answer, AdminInv, TypeOK, Handling
<1>7. CASE Update(q) \/ Delete(q)
  <2>1. /\ ask' = ask /\ copy' = copy /\ answer' = answer
        /\ pc' = [pc EXCEPT ![q] = "done"]
    BY <1>7 DEF Update, Delete, Answer
  <2>2. QED
    BY <2>1 DEF AdminInv, TypeOK, Handling
<1>9. CASE WriteNothing(q)
  BY <1>9 DEF WriteNothing, Answer, AdminInv, TypeOK, Handling
<1>10. CASE Check(q)
  BY <1>2, <1>10 DEF Check, Goto, AdminInv, TypeOK, Handling
<1>11. CASE CheckRoute(q)
  BY <1>2, <1>11 DEF CheckRoute, Goto, AdminInv, TypeOK, Handling
<1>12. CASE BadReference(q)
  BY <1>12 DEF BadReference, Answer, AdminInv, TypeOK, Handling
<1>13. CASE Create(q)
  <2>1. ask[q] \in Creations
    BY <1>2, <1>13 DEF Create, Insert
  <2>2. PICK n \in Ids : answer' = [answer EXCEPT ![q] = n]
    BY <1>13 DEF Create, Ids
  <2>3. PICK to \in {"selecting", "done"} : pc' = [pc EXCEPT ![q] = to]
    BY <1>13 DEF Create, Goto, Answer
  <2>4. ask' = ask /\ copy' = copy
    BY <1>13 DEF Create
  <2>5. QED
    BY <2>1, <2>2, <2>3, <2>4 DEF AdminInv, TypeOK, Handling
<1>14. CASE Select(q)
  <2>1. PICK n \in WithKeyOf(ask[q], answer[q]) : answer' = [answer EXCEPT ![q] = n]
    BY <1>14 DEF Select
  <2>2. n \in Ids
    <3>1. ask[q].op \in {"create partner", "create route", "create policy"}
      BY <1>2, <1>14 DEF Select, AdminInv, Handling
    <3>2. QED
      BY <2>1, <3>1 DEF WithKeyOf, KnownPartner, PoliciesOf, Ids
  <2>3. QED
    BY <1>14, <2>1, <2>2 DEF Select, Answer, AdminInv, TypeOK, Handling
<1>15. QED
  BY <1>3, <1>4, <1>5, <1>6, <1>7, <1>9, <1>10, <1>11, <1>12, <1>13, <1>14 DEF Handle

\* A request gets its status in the step that ends its handler, and only there.
LEMMA StatusStep ==
    ASSUME AdminInv, NEW q \in Request, Handle(q)
    PROVE  /\ status' \in [Request -> Statuses]
           /\ \A o \in Request : status'[o] # 0 <=> pc'[o] = "done"
<1>1. /\ status \in [Request -> Statuses] /\ pc \in [Request -> Points]
      /\ \A o \in Request : status[o] # 0 <=> pc[o] = "done"
  BY Zenon DEF AdminInv, TypeOK
<1>2. ASSUME NEW code \in Statuses \ {0}, Answer(q, code)
      PROVE  /\ status' \in [Request -> Statuses]
             /\ \A o \in Request : status'[o] # 0 <=> pc'[o] = "done"
  BY <1>1, <1>2 DEF Answer
<1>3. ASSUME status' = status, NEW from, NEW to, Goto(q, from, to), from # "done", to # "done"
      PROVE  /\ status' \in [Request -> Statuses]
             /\ \A o \in Request : status'[o] # 0 <=> pc'[o] = "done"
  BY <1>1, <1>3 DEF Goto
<1>4. QED
  BY <1>2, <1>3, Moves

\* The invariant holds before any request.
LEMMA AdminInit == Init => AdminInv
<1>1. Init => StoreTypeOK
  BY FirstRowsAssumption DEF Init, InitStore, StoreTypeOK
<1>2. QED
  BY <1>1 DEF Init, AdminInv, TypeOK, Handling, Points, Statuses, Asked, Copies, Ids

\* Every step of every handler preserves the invariant.
LEMMA AdminStep ==
    ASSUME AdminInv, [Next]_vars
    PROVE  AdminInv'
<1>1. ASSUME NEW q \in Request, Handle(q) PROVE AdminInv'
  <2>1. StoreTypeOK'
    <3>1. CASE Edit
      BY <3>1, EditKeepsTypes DEF AdminInv, TypeOK
    <3>2. CASE UNCHANGED storeVars
      BY <3>2 DEF storeVars, AdminInv, TypeOK, StoreTypeOK
    <3>3. QED
      BY <1>1, <3>1, <3>2, HandlerEdits
  <2>2. \A o \in Request \ {q} : Handling(o)'
    BY <1>1, OthersKeep DEF AdminInv, Handling
  <2>3. QED
    BY <1>1, <2>1, <2>2, RequestTypes, StatusStep DEF AdminInv, TypeOK
<1>2. CASE UNCHANGED vars
  BY <1>2 DEF vars, storeVars, adminVars, AdminInv, TypeOK, StoreTypeOK, Handling
<1>3. QED
  BY <1>1, <1>2 DEF Next

\* So it holds always.
LEMMA AdminInvariant == Spec => []AdminInv
BY AdminInit, AdminStep, PTL DEF Spec

(* The types of Admin, and the status of a request given when it is answered. *)
THEOREM AdminTypeCorrect == Spec => []TypeOK
<1>1. AdminInv => TypeOK
  BY DEF AdminInv
<1>2. QED
  BY <1>1, AdminInvariant, PTL

(* The handlers, which read, check and write in steps of their own, do to the *)
(* store what StoreSpec lets them and nothing else: this is the store that    *)
(* the gateway reads (Gateway!Admin).                                         *)
THEOREM AdminImplementsStore == Spec => StoreSpec
<1>1. Init => InitStore
  BY DEF Init
<1>2. AdminInv /\ [Next]_vars => [Edit]_storeVars
  <2>1. ASSUME AdminInv, NEW q \in Request, Handle(q) PROVE Edit \/ UNCHANGED storeVars
    BY <2>1, HandlerEdits
  <2>2. QED
    BY <2>1 DEF Next, vars
<1>3. QED
  BY <1>1, <1>2, AdminInvariant, PTL DEF Spec, StoreSpec

(* No policy of Oracle outlives its partner, whatever creations, checks and   *)
(* deletions overlap.                                                         *)
THEOREM NoOrphanEver == Spec => []NoOrphans
BY AdminImplementsStore, PoliciesHavePartners, PTL

(* No update brings back a row that was deleted after it was read.            *)
THEOREM NoResurrection == Spec => DeletionIsFinal
BY AdminImplementsStore, DeletedForGood, PTL

-----------------------------------------------------------------------------
(* Deletions *)

(* A deletion that is answered 204 has deleted a row that was stored.         *)
LEMMA DeleteDeletes ==
    ASSUME AdminInv, NEW q \in Request, Delete(q)
    PROVE  ~IsDeleted(ask[q]) /\ IsDeleted(ask[q])' /\ ask' = ask
<1>1. /\ ask[q].op = "delete partner" => ask[q].id \in PartnerId
      /\ ask[q].op = "delete route" => ask[q].id \in RouteId
      /\ ask[q].op = "delete policy" => ask[q].id \in PolicyId
  BY Asks DEF AdminInv, TypeOK
<1>2. StoreTypeOK
  BY DEF AdminInv, TypeOK
<1>3. ask' = ask
  BY DEF Delete
<1>4. CASE ask[q].op = "delete partner" /\ DeletePartner(ask[q].id)
  BY <1>1, <1>2, <1>3, <1>4 DEF DeletePartner, IsDeleted, Stored, StoreTypeOK
<1>5. CASE ask[q].op = "delete route" /\ DeleteRoute(ask[q].id)
  BY <1>1, <1>2, <1>3, <1>5 DEF DeleteRoute, IsDeleted, Stored, StoreTypeOK, RouteRows
<1>6. CASE ask[q].op = "delete policy" /\ DeletePolicy(ask[q].id)
  BY <1>1, <1>2, <1>3, <1>6 DEF DeletePolicy, IsDeleted, StoreTypeOK, PolicyRows
<1>7. QED
  BY <1>4, <1>5, <1>6 DEF Delete

(* What is deleted stays so.                                                  *)
LEMMA StaysDeleted ==
    ASSUME AdminInv, NEW q \in Request, Handle(q), NEW a \in Asked, IsDeleted(a)
    PROVE  IsDeleted(a)'
<1>1. /\ a.op = "delete partner" => a.id \in PartnerId
      /\ a.op = "delete route" => a.id \in RouteId
      /\ a.op = "delete policy" => a.id \in PolicyId
  BY Asks
<1>2. CASE Edit
  <2>1. StoreTypeOK
    BY DEF AdminInv, TypeOK
  <2>2. /\ \A p \in PartnerId : partners[p] = "deleted" => partners'[p] = "deleted"
        /\ \A r \in RouteId : routes[r].state = "deleted" => routes'[r].state = "deleted"
        /\ \A i \in PolicyId : policies[i].state = "deleted" => policies'[i].state = "deleted"
    BY <1>2, <2>1, EditKeepsDeleted
  <2>3. QED
    BY <1>1, <2>2 DEF IsDeleted
<1>3. CASE UNCHANGED storeVars
  BY <1>3 DEF storeVars, IsDeleted
<1>4. QED
  BY <1>2, <1>3, HandlerEdits

(* Only a deletion is answered 204, only a creation 201.                      *)
LEMMA WhoAnswers ==
    ASSUME AdminInv, NEW q \in Request, Handle(q), status'[q] # status[q]
    PROVE  /\ status'[q] = 204 => Delete(q)
           /\ status'[q] = 201 => Create(q) \/ Select(q)
<1>1. status \in [Request -> Statuses]
  BY Zenon DEF AdminInv, TypeOK
<1>2. ASSUME NEW code, Answer(q, code) PROVE status'[q] = code
  BY <1>1, <1>2 DEF Answer
<1>3. ~Arrive(q) /\ ~Read(q) /\ ~Check(q) /\ ~CheckRoute(q)
  BY DEF Arrive, Read, Check, CheckRoute
<1>4. Create(q) => status'[q] = 201
  <2>1. Create(q) => status' = status \/ Answer(q, 201)
    BY Zenon DEF Create
  <2>2. QED
    BY <1>2, <2>1
<1>5. Update(q) => status'[q] \in {200, 500}
  <2>1. Update(q) => \E code \in Outcome(200) : Answer(q, code)
    BY Zenon DEF Update
  <2>2. \A code \in Outcome(200) : code \in {200, 500}
    BY DEF Outcome
  <2>3. QED
    BY <1>2, <2>1, <2>2
<1>6. Delete(q) => status'[q] \in {204, 500}
  <2>1. Delete(q) => \E code \in Outcome(204) : Answer(q, code)
    BY Zenon DEF Delete
  <2>2. \A code \in Outcome(204) : code \in {204, 500}
    BY DEF Outcome
  <2>3. QED
    BY <1>2, <2>1, <2>2
<1>7. Fails(q) \/ ReadNothing(q) \/ WriteNothing(q) \/ BadReference(q) =>
          status'[q] \in {400, 404, 500}
  <2>1. Fails(q) \/ ReadNothing(q) \/ WriteNothing(q) \/ BadReference(q) =>
            Answer(q, 400) \/ Answer(q, 404) \/ Answer(q, 500)
    BY Zenon DEF Fails, ReadNothing, WriteNothing, BadReference
  <2>2. QED
    BY <1>2, <2>1
<1>8. status'[q] = 204 =>
        ~(Create(q) \/ Update(q) \/ Fails(q) \/ ReadNothing(q) \/ WriteNothing(q) \/
          BadReference(q) \/ Select(q))
  <2>1. Select(q) => status'[q] = 201
    BY <1>2, Zenon DEF Select
  <2>2. QED
    BY <1>4, <1>5, <1>7, <2>1
<1>9. status'[q] = 201 =>
        ~(Update(q) \/ Delete(q) \/ Fails(q) \/ ReadNothing(q) \/ WriteNothing(q) \/
          BadReference(q))
  BY <1>5, <1>6, <1>7
<1>10. QED
  BY <1>3, <1>8, <1>9, Zenon DEF Handle

\* DeleteInv, and that no other request was told the same.
DeleteOnce == DeleteInv /\ OneDeleteWins

\* A second DELETE finds the row deleted.
LEMMA DeleteStep ==
    ASSUME AdminInv, DeleteOnce, [Next]_vars
    PROVE  DeleteOnce'
<1>1. ASSUME NEW q \in Request, Handle(q) PROVE DeleteOnce'
  <2>1. \A o \in Request : ask[o] \in Asked
    BY DEF AdminInv, TypeOK
  <2>2. \A o \in Request \ {q} : ask'[o] = ask[o] /\ status'[o] = status[o]
    BY <1>1, OthersKeep
  <2>3. \A o \in Request : status[o] = 204 => ask'[o] = ask[o]
    <3>1. \A o \in Request : status[o] # 0 <=> pc[o] = "done"
      BY Zenon DEF AdminInv, TypeOK
    <3>2. status[q] = 204 => ~Arrive(q)
      <4>1. status[q] = 204 => pc[q] # "idle"
        BY <3>1
      <4>2. Arrive(q) => pc[q] = "idle"
        BY Zenon DEF Arrive, Goto
      <4>3. QED
        BY <4>1, <4>2
    <3>3. status[q] = 204 => ask' = ask
      BY <1>1, <3>2 DEF Handle, Fails, Read, ReadNothing, Update, Delete,
           WriteNothing, Check, CheckRoute, BadReference, Create, Select
    <3>4. QED
      BY <2>2, <3>3
  <2>4. \A o \in Request : status[o] = 204 => IsDeleted(ask[o])'
    <3> SUFFICES ASSUME NEW o \in Request, status[o] = 204 PROVE IsDeleted(ask[o])'
      OBVIOUS
    <3>1. IsDeleted(ask[o]) /\ ask[o] \in Asked
      BY <2>1 DEF DeleteOnce, DeleteInv
    <3>2. PICK a \in Asked : a = ask[o] /\ IsDeleted(a)
      BY <3>1
    <3>3. IsDeleted(a)'
      BY <1>1, <3>2, StaysDeleted
    <3>4. QED
      BY <2>3, <3>2, <3>3
  <2>5. CASE status'[q] = 204 /\ status[q] # 204
    <3>1. Delete(q)
      BY <1>1, <2>5, WhoAnswers
    <3>2. ~IsDeleted(ask[q]) /\ IsDeleted(ask[q])' /\ ask' = ask
      BY <3>1, DeleteDeletes
    <3>3. \A o \in Request \ {q} : status'[o] = 204 => ask'[o] # ask'[q]
      BY <2>2, <3>2 DEF DeleteOnce, DeleteInv
    <3>4. QED
      BY <2>2, <2>4, <3>2, <3>3 DEF DeleteOnce, DeleteInv, OneDeleteWins
  <2>6. CASE ~(status'[q] = 204 /\ status[q] # 204)
    <3>1. \A o \in Request : status'[o] = 204 => status[o] = 204
      BY <2>2, <2>6
    <3>2. QED
      BY <2>3, <2>4, <3>1 DEF DeleteOnce, DeleteInv, OneDeleteWins
  <2>7. QED
    BY <2>5, <2>6
<1>2. CASE UNCHANGED vars
  <2>1. ask' = ask /\ status' = status /\ UNCHANGED storeVars
    BY <1>2 DEF vars, adminVars
  <2>2. \A o \in Request : IsDeleted(ask[o]) => IsDeleted(ask[o])'
    BY <2>1 DEF storeVars, IsDeleted
  <2>3. QED
    BY <2>1, <2>2 DEF DeleteOnce, DeleteInv, OneDeleteWins
<1>3. QED
  BY <1>1, <1>2 DEF Next

(* Of the requests to delete a row one at most is told that it did, because a *)
(* deletion finds the row stored and leaves it deleted for good.              *)
THEOREM DeletedOnce == Spec => []OneDeleteWins
<1>1. Init => DeleteOnce
  BY DEF Init, DeleteOnce, DeleteInv, OneDeleteWins
<1>2. AdminInv /\ DeleteOnce /\ [Next]_vars => DeleteOnce'
  BY DeleteStep
<1>3. DeleteOnce => OneDeleteWins
  BY DEF DeleteOnce
<1>4. QED
  BY <1>1, <1>2, <1>3, AdminInvariant, PTL DEF Spec

-----------------------------------------------------------------------------
(* Updates *)

(* An update that is in held, and whose partner is still inactive after a     *)
(* step, has read that its partner is inactive, if it has read.               *)
LEMMA HeldStep ==
    ASSUME AdminInv, HeldInv, [Next]_vars
    PROVE  HeldInv'
<1>1. ASSUME NEW q \in Request, Handle(q), Follow PROVE HeldInv'
  <2> SUFFICES ASSUME NEW o \in held'
               PROVE  /\ o \in Request
                      /\ ask'[o].op = "update partner" /\ partners'[ask'[o].id] = "inactive"
                      /\ pc'[o] = "writing" => copy'[o].state = "inactive"
    BY DEF HeldInv
  <2>1. /\ o \in Request
        /\ ask'[o].op = "update partner" /\ partners'[ask'[o].id] = "inactive"
        /\ o \in held \/ pc[o] = "idle"
    BY <1>1 DEF Follow
  <2>2. CASE o # q
    <3>1. pc'[o] = pc[o] /\ ask'[o] = ask[o] /\ copy'[o] = copy[o]
      BY <1>1, <2>1, <2>2, OthersKeep
    <3>2. o \in held
      <4>1. pc[o] = "idle" => ask[o] = Nothing
        BY <2>1 DEF AdminInv, Handling
      <4>2. Nothing.op # "update partner"
        BY DEF Nothing
      <4>3. QED
        BY <2>1, <3>1, <4>1, <4>2
    <3>3. QED
      BY <2>1, <3>1, <3>2 DEF HeldInv
  <2>3. CASE o = q
    <3> SUFFICES ASSUME pc'[q] = "writing" PROVE copy'[q].state = "inactive"
      BY <2>1, <2>3
    <3>1. CASE Arrive(q)
      <4>1. PICK a \in Creations \cup Updates \cup Deletions :
               /\ ask' = [ask EXCEPT ![q] = a]
               /\ Goto(q, "idle",
                       CASE a \in Updates -> "reading"
                         [] a.op = "create policy" -> "checking"
                         [] OTHER -> "writing")
        BY <3>1 DEF Arrive
      <4>2. a \in Updates /\ a \in Asked
        <5>1. ask'[q] = a /\ a \in Asked
          BY <4>1 DEF AdminInv, TypeOK, Asked
        <5>2. QED
          BY <2>1, <2>3, <5>1, Asks
      <4>3. pc'[q] = "reading"
        <5>1. a.op # "create policy"
          BY <4>2, Asks
        <5>2. QED
          BY <4>1, <4>2, <5>1 DEF Goto, AdminInv, TypeOK
      <4>4. QED
        BY <4>3
    <3>2. CASE Read(q)
      <4>1. q \in held /\ ask' = ask
        BY <2>1, <2>3, <3>2 DEF Read, Goto
      <4>2. copy'[q] = RowOf(ask[q])
        BY <3>2 DEF Read, Found, AdminInv
      <4>3. ask[q].op = "update partner" /\ partners[ask[q].id] = "inactive"
        BY <4>1 DEF HeldInv
      <4>4. RowOf(ask[q]) = [state |-> "inactive"]
        BY <4>3 DEF RowOf
      <4>5. QED
        BY <4>2, <4>4
    <3>3. CASE ~(Arrive(q) \/ Read(q))
      <4>1. ask'[q].op = "update partner" /\ ask' = ask
        BY <1>1, <2>1, <2>3, <3>3 DEF Handle, Fails, ReadNothing, Update, Delete, WriteNothing,
             Check, CheckRoute, BadReference, Create, Select
      <4>2. ~Check(q) /\ ~CheckRoute(q)
        BY <4>1 DEF Check, CheckRoute, Goto, AdminInv, Handling
      <4>3. ~Create(q)
        <5>1. ask[q].op = "update partner"
          BY <4>1
        <5>2. ~(\E n \in PartnerId \cup RouteId \cup PolicyId : Insert(ask[q], n))
          BY <5>1 DEF Insert
        <5>3. QED
          BY <5>2 DEF Create
      <4>4. \E code : Answer(q, code)
        BY <1>1, <3>3, <4>2, <4>3, Zenon DEF Handle, Fails, ReadNothing, Update, Delete,
           WriteNothing, BadReference, Select
      <4>5. pc'[q] # "writing"
        BY <4>4 DEF Answer, AdminInv, TypeOK
      <4>6. QED
        BY <4>5
    <3>4. QED
      BY <3>1, <3>2, <3>3
  <2>4. QED
    BY <2>2, <2>3
<1>2. CASE UNCHANGED vars
  BY <1>2 DEF vars, storeVars, adminVars, HeldInv
<1>3. QED
  BY <1>1, <1>2 DEF Next

(* An update that does not ask for it never activates a partner that has been *)
(* inactive since the update came: it writes back the flag it read.           *)
THEOREM RenamesKeepFlag == Spec => RenameDoesNotActivate
<1> DEFINE Renames ==
        \A q \in held :
            ask[q].state = Kept /\ pc[q] = "writing" /\ pc'[q] = "done" =>
                partners'[ask[q].id] # "active"
<1>1. Init => HeldInv
  BY DEF Init, HeldInv
<1>2. AdminInv /\ HeldInv /\ [Next]_vars => HeldInv'
  BY HeldStep
<1>3. AdminInv /\ HeldInv /\ [Next]_vars => [Renames]_vars
  <2> SUFFICES ASSUME AdminInv, HeldInv, NEW q \in Request, Handle(q), NEW o \in held,
                      ask[o].state = Kept, pc[o] = "writing", pc'[o] = "done"
               PROVE  partners'[ask[o].id] # "active"
    BY DEF Next
  <2>1. /\ o \in Request
        /\ ask[o].op = "update partner" /\ partners[ask[o].id] = "inactive"
        /\ copy[o].state = "inactive"
    BY DEF HeldInv
  <2>2. o = q
    <3>1. o # q => pc'[o] = pc[o]
      BY <2>1, OthersKeep
    <3>2. QED
      BY <3>1
  <2>3. CASE Update(q)
    <3>1. UpdatePartner(ask[q].id, Merged(q, "state"))
      BY <2>1, <2>2, <2>3 DEF Update
    <3>2. Merged(q, "state") = "inactive"
      BY <2>1, <2>2 DEF Merged
    <3>3. ask[q].id \in PartnerId /\ StoreTypeOK
      BY <2>1, <2>2, Asks DEF AdminInv, TypeOK
    <3>4. QED
      BY <2>2, <3>1, <3>2, <3>3 DEF UpdatePartner, StoreTypeOK
  <2>4. CASE ~Update(q)
    <3>1. ~Delete(q)
      BY <2>1, <2>2 DEF Delete
    <3>2. ~Create(q)
      BY <2>1, <2>2 DEF Create, Insert
    <3>3. partners' = partners
      BY <2>4, <3>1, <3>2 DEF Handle, Arrive, Fails, Read, ReadNothing, WriteNothing, Check,
           CheckRoute, BadReference, Select, storeVars
    <3>4. QED
      BY <2>1, <3>3
  <2>5. QED
    BY <2>3, <2>4
<1>4. QED
  BY <1>1, <1>2, <1>3, AdminInvariant, PTL DEF Spec, RenameDoesNotActivate

-----------------------------------------------------------------------------
(* Creations *)

\* The row with the id n is there and has the key of the creation a.
HasKey(a, n) ==
    /\ a.op = "create partner" => Stored(partners[n])
    /\ a.op = "create route" => Stored(routes[n].state) /\ routes[n].prefix = a.prefix
    /\ a.op = "create policy" =>
        /\ policies[n].state = "stored"
        /\ policies[n].partner = a.partner /\ policies[n].route = a.route

\* A 201 is sent in the step after which the row is there with its key.
LEMMA CreatedHasKey ==
    ASSUME AdminInv, NEW q \in Request, Handle(q), status[q] = 0, status'[q] = 201
    PROVE  /\ ask[q].op \in {"create partner", "create route", "create policy"}
           /\ ask' = ask /\ \E n : answer'[q] = n /\ HasKey(ask[q], n)'
<1>0. Create(q) \/ Select(q)
  <2>1. status'[q] # status[q] /\ status'[q] = 201
    OBVIOUS
  <2>2. QED
    BY <2>1, WhoAnswers, Zenon
<1>1. ask[q].op \in {"create partner", "create route", "create policy"} /\ ask' = ask
  <2>1. CASE Create(q)
    BY <2>1 DEF Create, Insert
  <2>2. CASE Select(q)
    <3>1. ask[q] \in Asked /\ ask[q] \in Creations /\ ask' = ask
      BY <2>2 DEF Select, AdminInv, TypeOK, Handling
    <3>2. QED
      BY <3>1, Asks
  <2>3. QED
    BY <1>0, <2>1, <2>2
<1>2. StoreTypeOK /\ answer \in [Request -> Ids]
  BY Zenon DEF AdminInv, TypeOK
<1>3. CASE Create(q)
  <2>1. PICK n : Insert(ask[q], n) /\ answer' = [answer EXCEPT ![q] = n]
    BY <1>3 DEF Create
  <2>2. answer'[q] = n
    BY <1>2, <2>1
  <2>3. CASE ask[q].op = "create partner"
    <3>1. n \in PartnerId /\ CreatePartner(n)
      BY <2>1, <2>3 DEF Insert
    <3>2. Stored(partners'[n])
      BY <1>2, <3>1 DEF CreatePartner, Stored, StoreTypeOK
    <3>3. QED
      BY <1>1, <2>2, <2>3, <3>2 DEF HasKey
  <2>4. CASE ask[q].op = "create route"
    <3>1. n \in RouteId /\ CreateRoute(n, ask[q].prefix, ask[q].upstream, ask[q].strip)
      BY <2>1, <2>4 DEF Insert
    <3>2. Stored(routes'[n].state) /\ routes'[n].prefix = ask[q].prefix
      BY <1>2, <3>1 DEF CreateRoute, Stored, StoreTypeOK
    <3>3. QED
      BY <1>1, <2>2, <2>4, <3>2 DEF HasKey
  <2>5. CASE ask[q].op = "create policy"
    <3>1. n \in PolicyId /\ CreatePolicy(n, ask[q].partner, ask[q].route)
      BY <2>1, <2>5 DEF Insert
    <3>2. /\ policies'[n].state = "stored"
          /\ policies'[n].partner = ask[q].partner /\ policies'[n].route = ask[q].route
      BY <1>2, <3>1 DEF CreatePolicy, StoreTypeOK
    <3>3. QED
      BY <1>1, <2>2, <2>5, <3>2 DEF HasKey
  <2>6. QED
    BY <1>1, <2>3, <2>4, <2>5
<1>4. CASE Select(q)
  <2>1. PICK n \in WithKeyOf(ask[q], answer[q]) : answer' = [answer EXCEPT ![q] = n]
    BY <1>4 DEF Select
  <2>2. answer'[q] = n
    BY <1>2, <2>1
  <2>3. UNCHANGED storeVars
    BY <1>4 DEF Select
  <2>4. HasKey(ask[q], n)
    BY <1>1, <2>1 DEF WithKeyOf, KnownPartner, PoliciesOf, HasKey
  <2>5. HasKey(ask[q], n)'
    BY <1>1, <2>3, <2>4 DEF HasKey, storeVars
  <2>6. QED
    BY <1>1, <2>2, <2>5
<1>5. QED
  BY <1>0, <1>3, <1>4

(* The id in a 201 answer is that of a row with the key that was asked for,   *)
(* also when Oracle has to be asked for the id and rows came and went between. *)
THEOREM CreationsAreThere == Spec => CreatedIsThere
<1> DEFINE Created ==
        \A q \in Request : status[q] = 0 /\ status'[q] = 201 =>
            LET a == ask[q] n == answer'[q]
            IN  CASE a.op = "create partner" -> Stored(partners'[n])
                  [] a.op = "create route" ->
                        Stored(routes'[n].state) /\ routes'[n].prefix = a.prefix
                  [] a.op = "create policy" ->
                        /\ policies'[n].state = "stored"
                        /\ policies'[n].partner = a.partner /\ policies'[n].route = a.route
<1>1. AdminInv /\ [Next]_vars => [Created]_vars
  <2> DEFINE There(a, n) ==
          CASE a.op = "create partner" -> Stored(partners'[n])
            [] a.op = "create route" ->
                  Stored(routes'[n].state) /\ routes'[n].prefix = a.prefix
            [] a.op = "create policy" ->
                  /\ policies'[n].state = "stored"
                  /\ policies'[n].partner = a.partner /\ policies'[n].route = a.route
  <2> SUFFICES ASSUME AdminInv, NEW q \in Request, Handle(q),
                      NEW o \in Request, status[o] = 0, status'[o] = 201
               PROVE  There(ask[o], answer'[o])
    BY DEF Next
  <2>1. o = q
    <3>1. o # q => status'[o] = status[o]
      BY OthersKeep
    <3>2. QED
      BY <3>1
  <2>2. /\ ask' = ask
        /\ ask[q].op \in {"create partner", "create route", "create policy"}
    BY <2>1, CreatedHasKey
  <2>3. PICK n : answer'[q] = n /\ HasKey(ask[q], n)'
    BY <2>1, CreatedHasKey
  <2>4. There(ask[q], n)
    BY <2>2, <2>3 DEF HasKey
  <2>5. QED
    BY <2>1, <2>3, <2>4
<1>2. QED
  BY <1>1, AdminInvariant, PTL DEF Spec, CreatedIsThere

==============================================================================
