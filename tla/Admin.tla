------------------------------- MODULE Admin -------------------------------
(***************************************************************************)
(* The admin handlers (internal/api/admin_*.go), each request in a         *)
(* goroutine of its own, over the store.  A handler is several operations  *)
(* of the store with nothing held between them: an update reads the row,   *)
(* decodes the body and writes the whole row back; the creation of a       *)
(* policy looks for its partner and its route first; and with Oracle a     *)
(* creation is an INSERT and a SELECT that finds the new id by its unique  *)
(* key.  Requests refused by validation never get here: they touch         *)
(* nothing.  The name of a partner is left out, so an update that asks for *)
(* nothing else is a rename.                                               *)
(*                                                                         *)
(* An operator named Faulty... is a wrong version of the definition after  *)
(* it, kept to show that the properties notice it; nothing uses it.        *)
(***************************************************************************)
EXTENDS Store

CONSTANTS
    Request,   \* admin requests
    Kept       \* a field that the body of an update leaves out

ASSUME AdminAssumption ==
    Kept \notin {"active", "inactive"} /\ Kept \notin Upstreams /\ Kept \notin StripFlags

VARIABLES
    pc,      \* where each request is
    ask,     \* what it asks for
    copy,    \* the row an update has read
    status,  \* the status it was answered, 0 before
    answer,  \* the id in a 201 answer
    held     \* history: updates of a partner that was inactive when they came
             \* and has been ever since

adminVars == <<pc, ask, copy, status, answer>>
vars == <<storeVars, adminVars, held>>

Flags == {Kept, "active", "inactive"}

Creations ==
    [op : {"create partner"}]
    \cup [op : {"create route"}, prefix : PathPrefixes, upstream : Upstreams,
           strip : StripFlags]
    \cup [op : {"create policy"}, partner : PartnerId, route : RouteId \cup {0}]
Updates ==
    [op : {"update partner"}, id : PartnerId, state : Flags]
    \cup [op : {"update route"}, id : RouteId, state : Flags, upstream : Upstreams \cup {Kept},
           strip : StripFlags \cup {Kept}]
Deletions ==
    [op : {"delete partner"}, id : PartnerId]
    \cup [op : {"delete route"}, id : RouteId]
    \cup [op : {"delete policy"}, id : PolicyId]

Nothing == [op |-> "none"]

Points == {"idle", "reading", "checking", "checking route", "writing", "selecting", "done"}
Statuses == {0, 200, 201, 204, 400, 404, 500}
Asked == Creations \cup Updates \cup Deletions \cup {Nothing}

Init ==
    /\ InitStore
    /\ pc = [q \in Request |-> "idle"]
    /\ ask = [q \in Request |-> Nothing]
    /\ copy = [q \in Request |-> Nothing]
    /\ status = [q \in Request |-> 0]
    /\ answer = [q \in Request |-> 0]
    /\ held = {}

Goto(q, from, to) == pc[q] = from /\ pc' = [pc EXCEPT ![q] = to]

Answer(q, code) ==
    /\ pc' = [pc EXCEPT ![q] = "done"]
    /\ status' = [status EXCEPT ![q] = code]

\* A write that Oracle carries out may still be reported as failed.
Outcome(code) == IF Constraints THEN {code, 500} ELSE {code}

-----------------------------------------------------------------------------

Arrive(q) ==
    /\ \E a \in Creations \cup Updates \cup Deletions :
        /\ ask' = [ask EXCEPT ![q] = a]
        /\ Goto(q, "idle",
                CASE a \in Updates -> "reading"
                  [] a.op = "create policy" -> "checking"
                  [] OTHER -> "writing")
    /\ UNCHANGED <<storeVars, copy, status, answer>>

\* The store fails, or a unique or foreign key forbids an INSERT.  After one that
\* was carried out the row stays, although the admin is told 500.
Fails(q) ==
    /\ Constraints
    /\ pc[q] \in {"reading", "writing", "selecting"}
    /\ Answer(q, 500)
    /\ UNCHANGED <<storeVars, ask, copy, answer>>

-----------------------------------------------------------------------------
(* Updates: GetByID, then Update with the copy changed. *)

RowOf(a) == IF a.op = "update partner" THEN [state |-> partners[a.id]] ELSE routes[a.id]

FaultyFound(q) == [RowOf(ask[q]) EXCEPT !.state = "active"]
Found(q) == RowOf(ask[q])

Read(q) ==
    /\ Goto(q, "reading", "writing")
    /\ Stored(RowOf(ask[q]).state)
    /\ copy' = [copy EXCEPT ![q] = Found(q)]
    /\ UNCHANGED <<storeVars, ask, status, answer>>

ReadNothing(q) ==
    /\ pc[q] = "reading"
    /\ ~Stored(RowOf(ask[q]).state)
    /\ Answer(q, 404)
    /\ UNCHANGED <<storeVars, ask, copy, answer>>

\* What the copy says where the body says nothing.
FaultyMerged(q, field) == ask[q][field]
Merged(q, field) == IF ask[q][field] = Kept THEN copy[q][field] ELSE ask[q][field]

Update(q) ==
    /\ pc[q] = "writing"
    /\ \/ /\ ask[q].op = "update partner"
          /\ UpdatePartner(ask[q].id, Merged(q, "state"))
       \/ /\ ask[q].op = "update route"
          /\ UpdateRoute(ask[q].id, Merged(q, "state"), Merged(q, "upstream"),
                         Merged(q, "strip"))
    /\ \E code \in Outcome(200) : Answer(q, code)
    /\ UNCHANGED <<ask, copy, answer>>

-----------------------------------------------------------------------------
(* Deletions *)

Delete(q) ==
    /\ pc[q] = "writing"
    /\ \/ ask[q].op = "delete partner" /\ DeletePartner(ask[q].id)
       \/ ask[q].op = "delete route" /\ DeleteRoute(ask[q].id)
       \/ ask[q].op = "delete policy" /\ DeletePolicy(ask[q].id)
    /\ \E code \in Outcome(204) : Answer(q, code)
    /\ UNCHANGED <<ask, copy, answer>>

\* An update or a deletion of a row that is not there (any more).
Gone(a) ==
    \/ a.op \in {"update partner", "delete partner"} /\ ~Stored(partners[a.id])
    \/ a.op \in {"update route", "delete route"} /\ ~Stored(routes[a.id].state)
    \/ a.op = "delete policy" /\ policies[a.id].state # "stored"

WriteNothing(q) ==
    /\ pc[q] = "writing"
    /\ Gone(ask[q])
    /\ Answer(q, 404)
    /\ UNCHANGED <<storeVars, ask, copy, answer>>

-----------------------------------------------------------------------------
(* Creations *)

\* The partner of a policy, and its route unless it is 0, are there.
Check(q) ==
    /\ pc[q] = "checking"
    /\ KnownPartner(ask[q].partner)
    /\ Goto(q, "checking", IF ask[q].route = 0 THEN "writing" ELSE "checking route")
    /\ UNCHANGED <<storeVars, ask, copy, status, answer>>

CheckRoute(q) ==
    /\ Goto(q, "checking route", "writing")
    /\ Stored(routes[ask[q].route].state)
    /\ UNCHANGED <<storeVars, ask, copy, status, answer>>

\* They are not, or the store failed: 400 either way.
BadReference(q) ==
    /\ pc[q] \in {"checking", "checking route"}
    /\ pc[q] = "checking" /\ ~Constraints => ~KnownPartner(ask[q].partner)
    /\ pc[q] = "checking route" /\ ~Constraints => ~Stored(routes[ask[q].route].state)
    /\ Answer(q, 400)
    /\ UNCHANGED <<storeVars, ask, copy, answer>>

\* The row that gets the id n.
Insert(a, n) ==
    \/ a.op = "create partner" /\ n \in PartnerId /\ CreatePartner(n)
    \/ a.op = "create route" /\ n \in RouteId /\ CreateRoute(n, a.prefix, a.upstream, a.strip)
    \/ a.op = "create policy" /\ n \in PolicyId /\ CreatePolicy(n, a.partner, a.route)

\* The in-memory store knows the id at once, Oracle has still to be asked.
Create(q) ==
    /\ pc[q] = "writing"
    /\ \E n \in PartnerId \cup RouteId \cup PolicyId :
        /\ Insert(ask[q], n)
        /\ answer' = [answer EXCEPT ![q] = n]
    /\ IF Constraints
       THEN Goto(q, "writing", "selecting") /\ UNCHANGED status
       ELSE Answer(q, 201)
    /\ UNCHANGED <<ask, copy>>

\* The ids of the rows with the key of a creation: the API key is the new
\* partner's own, a prefix or a pair of ids may be another row's by now.
FaultyWithKeyOf(a, n) == {n}
WithKeyOf(a, n) ==
    CASE a.op = "create partner" -> {p \in {n} : KnownPartner(p)}
      [] a.op = "create route" ->
            {r \in RouteId : Stored(routes[r].state) /\ routes[r].prefix = a.prefix}
      [] a.op = "create policy" -> PoliciesOf(a.partner, a.route)

Select(q) ==
    /\ pc[q] = "selecting"
    /\ \E n \in WithKeyOf(ask[q], answer[q]) : answer' = [answer EXCEPT ![q] = n]
    /\ Answer(q, 201)
    /\ UNCHANGED <<storeVars, ask, copy>>

-----------------------------------------------------------------------------

\* The history of held.
Follow ==
    held' = {q \in Request :
        /\ ask'[q].op = "update partner" /\ partners'[ask'[q].id] = "inactive"
        /\ q \in held \/ pc[q] = "idle"}

Handle(q) ==
    \/ Arrive(q) \/ Fails(q)
    \/ Read(q) \/ ReadNothing(q) \/ Update(q)
    \/ Delete(q) \/ WriteNothing(q)
    \/ Check(q) \/ CheckRoute(q) \/ BadReference(q)
    \/ Create(q) \/ Select(q)

Next == \E q \in Request : Handle(q) /\ Follow

Spec == Init /\ [][Next]_vars

-----------------------------------------------------------------------------
(* Properties *)

\* A request has a status exactly when it was answered, one its handler may give,
\* and the store holds rows as the domain types have them.
TypeOK ==
    /\ StoreTypeOK
    /\ pc \in [Request -> Points]
    /\ ask \in [Request -> Asked]
    /\ status \in [Request -> Statuses]
    /\ \A q \in Request : status[q] # 0 <=> pc[q] = "done"

\* Of several requests to delete one row at most one is told it did.
OneDeleteWins ==
    \A q1, q2 \in Request :
        status[q1] = 204 /\ status[q2] = 204 /\ ask[q1] = ask[q2] => q1 = q2

\* An update that does not ask for it never activates a partner that has been
\* inactive for as long as the update runs.  (One that overlaps the deactivation
\* may undo it: it writes back the flag it read.)
RenameDoesNotActivate ==
    [][\A q \in held :
        ask[q].state = Kept /\ pc[q] = "writing" /\ pc'[q] = "done" =>
            partners'[ask[q].id] # "active"]_vars

\* The id in a 201 answer is that of a row that is there when it is sent, with
\* the key that was asked for, even if the row just inserted has been deleted and
\* another has taken its key.
CreatedIsThere ==
    [][\A q \in Request : status[q] = 0 /\ status'[q] = 201 =>
        LET a == ask[q] n == answer'[q]
        IN  CASE a.op = "create partner" -> Stored(partners'[n])
              [] a.op = "create route" ->
                    Stored(routes'[n].state) /\ routes'[n].prefix = a.prefix
              [] a.op = "create policy" ->
                    /\ policies'[n].state = "stored"
                    /\ policies'[n].partner = a.partner /\ policies'[n].route = a.route]_vars

=============================================================================
