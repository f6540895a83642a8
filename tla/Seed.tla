-------------------------------- MODULE Seed --------------------------------
(***************************************************************************)
(* The seed command (cmd/seed/main.go) over the Oracle store: it makes     *)
(* sure of a list of partners, then of routes, then of policies between    *)
(* them; each is looked for, inserted if it is not found, and its id       *)
(* selected by its unique key.  Nothing is held between the statements and *)
(* nothing is undone: any error of a creation ends the process, and the    *)
(* command is run again.  Several may run at once, next to the admin.      *)
(*                                                                         *)
(* An operator named Faulty... is a wrong version of the definition after  *)
(* it, kept to show that the properties notice it; nothing uses it.        *)
(***************************************************************************)
EXTENDS Store, Sequences

CONSTANTS
    Seeder,          \* processes that run the command
    KeyOf,           \* the API key of each partner id
    WantedKeys,      \* the API keys, prefixes and policies to make sure of;
    WantedPrefixes,  \* a policy is the indices [partner, route] of the other
    WantedPolicies,  \* two lists, route 0 for the partner's default
    PageLimit,       \* how many routes ensureRoute looks at, 100
    MaxEdits,        \* bound on what the admin does
    MaxFailures      \* bound on statements that fail, or are reported to

ASSUME SeedAssumption ==
    /\ Constraints
    /\ PartnerId \cup RouteId \cup PolicyId \subseteq Nat
    /\ PageLimit \in Nat \ {0} /\ MaxEdits \in Nat /\ MaxFailures \in Nat

\* There is a partner to make sure of, and a policy is between those before it.
ASSUME WantedAssumption ==
    /\ WantedKeys \in Seq({KeyOf[p] : p \in PartnerId}) /\ WantedKeys # <<>>
    /\ WantedPrefixes \in Seq(PathPrefixes)
    /\ WantedPolicies \in
        Seq([partner : 1 .. Len(WantedKeys), route : 0 .. Len(WantedPrefixes)])

\* Oracle's unique keys hold of the rows the store begins with.
ASSUME UniqueRowsAssumption ==
    /\ \A p, q \in PartnerId :
        Stored(SeedPartners[p]) /\ Stored(SeedPartners[q]) /\ KeyOf[p] = KeyOf[q] => p = q
    /\ \A r, q \in RouteId :
        /\ Stored(SeedRoutes[r].state) /\ Stored(SeedRoutes[q].state)
        /\ SeedRoutes[r].prefix = SeedRoutes[q].prefix
        => r = q
    /\ \A i, j \in PolicyId :
        SeedPolicies[i].state = "stored" /\ SeedPolicies[i] = SeedPolicies[j] => i = j

VARIABLES
    pc,        \* "looking", "creating", "selecting", "stopped" or "done"
    ids,       \* the ids of what the seeder has made sure of, policies' too
    edits,     \* number of admin edits
    failures,  \* number of failures
    alone,     \* history: seeders that have met no failure and no other writer
               \* since they were started
    kept       \* history: seeders since whose start nothing was deleted

vars == <<storeVars, pc, ids, edits, failures, alone, kept>>

Init ==
    /\ InitStore
    /\ pc = [s \in Seeder |-> "looking"]
    /\ ids = [s \in Seeder |-> <<>>]
    /\ edits = 0 /\ failures = 0
    /\ alone = Seeder /\ kept = Seeder

-----------------------------------------------------------------------------
(* What a seeder is about, and what is there of it *)

NP == Len(WantedKeys)
NR == Len(WantedPrefixes)
Jobs == NP + NR + Len(WantedPolicies)

\* The ids that a wanted policy is about.
PartnerOf(s, policy) == ids[s][policy.partner]
RouteOf(s, policy) == IF policy.route = 0 THEN 0 ELSE ids[s][NP + policy.route]

\* What to make sure of next, with the ids found so far.
Job(s) ==
    LET n == Len(ids[s]) + 1
        policy == WantedPolicies[n - NP - NR]
    IN  CASE n <= NP -> [kind |-> "partner", key |-> WantedKeys[n]]
          [] n \in NP + 1 .. NP + NR -> [kind |-> "route", prefix |-> WantedPrefixes[n - NP]]
          [] OTHER -> [kind |-> "policy", partner |-> PartnerOf(s, policy),
                       route |-> RouteOf(s, policy)]

StoredRoutes == {r \in RouteId : Stored(routes[r].state)}

\* The row with the unique key of a job.
RowsOf(job) ==
    CASE job.kind = "partner" -> {p \in PartnerId : Stored(partners[p]) /\ KeyOf[p] = job.key}
      [] job.kind = "route" -> {r \in StoredRoutes : routes[r].prefix = job.prefix}
      [] job.kind = "policy" -> PoliciesOf(job.partner, job.route)

\* List(ctx, 1, PageLimit), ORDER BY id.
FaultyFirstPage == {r \in StoredRoutes : routes[r].state = "active"}
FirstPage == {r \in StoredRoutes : Cardinality({q \in StoredRoutes : q < r}) < PageLimit}

\* ensurePolicy accepts the effective policy only if it is for the route itself.
FaultySameRoute(i, job) == TRUE
SameRoute(i, job) == policies[i].route = job.route

\* What ensurePartner, ensureRoute and ensurePolicy find.
Existing(job) ==
    CASE job.kind = "partner" -> RowsOf(job)
      [] job.kind = "route" -> RowsOf(job) \cap FirstPage
      [] job.kind = "policy" ->
            {i \in FindEffective(job.partner, job.route) : SameRoute(i, job)}

-----------------------------------------------------------------------------
(* The command *)

Goto(s, from, to) == pc[s] = from /\ pc' = [pc EXCEPT ![s] = to]

\* The next job, or the end.
Ensured(s, id) ==
    /\ ids' = [ids EXCEPT ![s] = Append(@, id)]
    /\ pc' = [pc EXCEPT ![s] = IF Len(ids'[s]) = Jobs THEN "done" ELSE "looking"]

Fault(s) == failures < MaxFailures /\ failures' = failures + 1 /\ alone' = alone \ {s}

Look(s) ==
    /\ pc[s] = "looking"
    /\ \/ \E id \in Existing(Job(s)) : Ensured(s, id)
       \/ /\ Existing(Job(s)) = {}
          /\ Goto(s, "looking", "creating")
          /\ UNCHANGED ids
    /\ UNCHANGED <<storeVars, edits, failures, alone, kept>>

\* Any error of the look-up counts as not found.
LookFails(s) ==
    /\ Goto(s, "looking", "creating")
    /\ Fault(s)
    /\ UNCHANGED <<storeVars, ids, edits, kept>>

\* The ids, by which routes are listed, come from a sequence.
First(unborn) == {n \in unborn : \A m \in unborn : n <= m}
NextRoute == First({r \in RouteId : routes[r].state = "unborn"})
NextPartner(key) == First({p \in PartnerId : KeyOf[p] = key /\ partners[p] = "unborn"})
NextPolicy == First({i \in PolicyId : policies[i].state = "unborn"})

\* The unique key of the API keys.
FaultyKeyFree(job) == TRUE
KeyFree(job) == RowsOf(job) = {}

\* The INSERT, unless a unique or foreign key forbids it.
Insert(job) ==
    CASE job.kind = "partner" ->
            KeyFree(job) /\ \E p \in NextPartner(job.key) : CreatePartner(p)
      [] job.kind = "route" ->
            \E r \in NextRoute, u \in Upstreams, strip \in StripFlags :
                CreateRoute(r, job.prefix, u, strip)
      [] job.kind = "policy" ->
            \E i \in NextPolicy : CreatePolicy(i, job.partner, job.route)

\* A row that is inserted may still be reported as failed.
Create(s) ==
    /\ pc[s] = "creating"
    /\ Insert(Job(s))
    /\ \/ /\ Goto(s, "creating", "selecting")
          /\ alone' = alone \cap {s}
          /\ UNCHANGED failures
       \/ /\ Goto(s, "creating", "stopped")
          /\ failures < MaxFailures /\ failures' = failures + 1
          /\ alone' = {}
    /\ UNCHANGED <<ids, edits, kept>>

\* log.Fatalf: a key forbids the row.
Refused(job) ==
    \/ RowsOf(job) # {}
    \/ job.kind = "policy" /\ ~Stored(partners[job.partner])
CreateRefused(s) ==
    /\ Goto(s, "creating", "stopped")
    /\ Refused(Job(s))
    /\ UNCHANGED <<storeVars, ids, edits, failures, alone, kept>>

\* The SELECT: its row may be another's by now, or gone.
Select(s) ==
    /\ pc[s] = "selecting"
    /\ \/ \E id \in RowsOf(Job(s)) : Ensured(s, id)
       \/ /\ RowsOf(Job(s)) = {}
          /\ Goto(s, "selecting", "stopped")
          /\ UNCHANGED ids
    /\ UNCHANGED <<storeVars, edits, failures, alone, kept>>

\* The store fails a creation.
Fails(s) ==
    /\ pc[s] \in {"creating", "selecting"}
    /\ pc' = [pc EXCEPT ![s] = "stopped"]
    /\ Fault(s)
    /\ UNCHANGED <<storeVars, ids, edits, kept>>

\* The command is run again.
Rerun(s) ==
    /\ Goto(s, "stopped", "looking")
    /\ ids' = [ids EXCEPT ![s] = <<>>]
    /\ alone' = alone \cup {s}
    /\ kept' = kept \cup {s}
    /\ UNCHANGED <<storeVars, edits, failures>>

Command(s) ==
    \/ Look(s) \/ LookFails(s)
    \/ Create(s) \/ CreateRefused(s) \/ Select(s) \/ Fails(s)
    \/ Rerun(s)

\* What the admin may do meanwhile.
Deactivate ==
    \E r \in RouteId, u \in Upstreams, strip \in StripFlags :
        UpdateRoute(r, "inactive", u, strip)
AddRoute ==
    \E r \in NextRoute, prefix \in PathPrefixes, u \in Upstreams, strip \in StripFlags :
        CreateRoute(r, prefix, u, strip)
Remove ==
    \/ \E p \in PartnerId : DeletePartner(p)
    \/ \E r \in RouteId : DeleteRoute(r)
    \/ \E i \in PolicyId : DeletePolicy(i)

Admin ==
    /\ edits < MaxEdits /\ edits' = edits + 1
    /\ \/ (Deactivate \/ AddRoute) /\ UNCHANGED kept
       \/ Remove /\ kept' = {}
    /\ alone' = {}
    /\ UNCHANGED <<pc, ids, failures>>

Next == Admin \/ \E s \in Seeder : Command(s)

Spec == Init /\ [][Next]_vars

-----------------------------------------------------------------------------
(* Properties *)

\* A seed that ended has made sure of everything: every partner and every route it
\* names has its key, and every policy is there for that partner and that very
\* route, a default not being taken for the dedicated one, unless something was
\* deleted since.
SeedComplete ==
    \A s \in kept : pc[s] = "done" =>
        /\ \A n \in 1 .. NP : Stored(partners[ids[s][n]]) /\ KeyOf[ids[s][n]] = WantedKeys[n]
        /\ \A n \in 1 .. NR : LET r == ids[s][NP + n]
                            IN  Stored(routes[r].state) /\ routes[r].prefix = WantedPrefixes[n]
        /\ \A n \in DOMAIN WantedPolicies :
            LET policy == WantedPolicies[n]
            IN  PoliciesOf(PartnerOf(s, policy), RouteOf(s, policy)) # {}

\* Two seeds, side by side or one after the other, speak of the same rows: the
\* loser of a race for a key finds the winner's row or stops.
SeedsAgree ==
    \A s, t \in kept : pc[s] = "done" /\ pc[t] = "done" => ids[s] = ids[t]

\* The command may be run again whatever earlier runs left behind: one that meets
\* no failure and no other writer does not stop, as long as all routes are among
\* those that ensureRoute looks at.
RunsAgain ==
    [][\A s \in alone :
        pc[s] # "stopped" /\ pc'[s] = "stopped" /\ s \in alone' =>
            Cardinality(StoredRoutes) > PageLimit]_vars

=============================================================================
