------------------------------ MODULE Gateway ------------------------------
(***************************************************************************)
(* The gateway process: requests that go through GatewayHandler.ServeHTTP  *)
(* (internal/api/gateway.go), each in a goroutine of its own; the route    *)
(* refresh loop and the shutdown of cmd/gateway/main.go; the goroutines    *)
(* that write the audit log; and, from outside, the admin handlers that    *)
(* change the store and the upstreams that answer.  A request reads shared *)
(* state in several steps, so the store and the route table may change     *)
(* between any two of them.                                                *)
(*                                                                         *)
(* An operator named Faulty... is a wrong version of the definition after  *)
(* it, kept to show that the properties notice it; nothing uses it.        *)
(***************************************************************************)
EXTENDS Store, Router

CONSTANTS
    Request,      \* requests
    EarlyHints,   \* TRUE: upstreams may send 1xx responses first
    MaxEdits      \* bound on the changes made to the store

NoKey == 0        \* no X-API-Key header
WrongKey == -1    \* a key no partner has

ASSUME GatewayAssumption ==
    /\ EarlyHints \in BOOLEAN
    /\ MaxEdits \in Nat
    /\ PartnerId \cap {NoKey, WrongKey} = {}
    /\ \A prefix \in PathPrefixes : Len(prefix) \in Nat

VARIABLES
    proc,     \* "up", "draining" (Shutdown waits) or "down"
    loaded,   \* what the refresh loop read and has not yet set: a sequence of
              \* lists of routes, empty or with one element
    pc,       \* where each request is
    key,      \* its API key
    path,     \* its path
    route,    \* the route Match returned, a copy
    proxy,    \* the route whose proxy forwards it
    status,   \* statusRecorder.status
    wrote,    \* statusRecorder.wroteHeader
    sent,     \* the final status its client was sent, 0 if none
    counted,  \* requests Aggregator.Record was called for
    pending,  \* audit goroutines: set of [request, status]
    log,      \* audit records inserted
    failed,   \* audit records whose insert failed
    edits,    \* bound: changes made to the store
    barred,   \* history: <<request, cause>> if the cause has kept its partner out
              \* ever since it came
    actives,  \* history: every active set of routes the store has had, in order
    refreshed \* history: a refresh has succeeded since the process started

reqVars == <<key, path, route, proxy, status, wrote, sent>>
auditVars == <<pending, log, failed>>
adminVars == <<storeVars, edits, actives>>
vars == <<storeVars, routerVars, proc, loaded, pc, reqVars, counted, auditVars,
          edits, barred, actives, refreshed>>

NoStatus == 0

Ended == {"answered", "done", "aborted"}
Running == {"matching", "authenticating", "authorizing", "limiting", "picking",
            "upstream", "copying", "recording"}

-----------------------------------------------------------------------------

\* ListActive gives the active routes longest prefix first, equal ones in any order.
Listings ==
    {list \in SetToSeqs(ActiveRoutes) :
        \A i, j \in DOMAIN list : i < j => ~Longer(list[j], list[i])}

\* main: the first refresh is done, or failed, before the server listens.
Init ==
    /\ InitStore
    /\ \/ refreshed = FALSE /\ InitRouter
       \/ /\ refreshed = TRUE
          /\ \E list \in Listings :
              table = SortRoutes(list) /\ proxies = ProxiesOf(SortRoutes(list))
    /\ proc = "up"
    /\ loaded = <<>>
    /\ pc = [q \in Request |-> "idle"]
    /\ key = [q \in Request |-> NoKey]
    /\ path = [q \in Request |-> <<>>]
    /\ route = [q \in Request |-> NoRoute]
    /\ proxy = [q \in Request |-> NoRoute]
    /\ status = [q \in Request |-> NoStatus]
    /\ wrote = [q \in Request |-> FALSE]
    /\ sent = [q \in Request |-> NoStatus]
    /\ counted = {}
    /\ pending = {} /\ log = {} /\ failed = {}
    /\ edits = 0
    /\ barred = {}
    /\ actives = <<ActiveRoutes>>

-----------------------------------------------------------------------------
(* The route refresh loop: one goroutine. *)

\* ListActive is read, and nothing is locked until SetRoutes.  (After the signal
\* the loop's select may still choose the ticker.)
FaultyRefreshRead ==   \* one goroutine a tick, in any order
    /\ proc # "down" /\ Len(loaded) < 2
    /\ \E list \in Listings : loaded' = <<list>> \o loaded
    /\ UNCHANGED <<adminVars, routerVars, proc, pc, reqVars, counted, auditVars,
                   barred, refreshed>>
FaultyRefreshOnce ==   \* the loop ends after its first success
    /\ proc # "down" /\ loaded = <<>> /\ table = <<>>
    /\ \E list \in Listings : loaded' = <<list>>
    /\ UNCHANGED <<adminVars, routerVars, proc, pc, reqVars, counted, auditVars,
                   barred, refreshed>>
RefreshRead ==
    /\ proc # "down" /\ loaded = <<>>
    /\ UNCHANGED <<adminVars, routerVars, proc, pc, reqVars, counted, auditVars,
                   barred, refreshed>>
    /\ \E list \in Listings : loaded' = <<list>>

\* ListActive fails: refreshRoutes returns the error before SetRoutes, the loop
\* logs it and waits for its next tick.
FaultyRefreshFails ==   \* the error is not looked at, and no route was read
    /\ proc # "down" /\ loaded = <<>>
    /\ SetRoutes(<<>>)
    /\ UNCHANGED <<adminVars, proc, loaded, pc, reqVars, counted, auditVars,
                   barred, refreshed>>
RefreshFails ==
    /\ proc # "down" /\ loaded = <<>>
    /\ UNCHANGED vars

RefreshSet ==
    /\ proc # "down" /\ loaded # <<>>
    /\ loaded' = Tail(loaded)
    /\ UNCHANGED <<adminVars, proc, pc, reqVars, counted, auditVars, barred>>
    /\ SetRoutes(Head(loaded))
    /\ refreshed' = TRUE

-----------------------------------------------------------------------------
(* One request *)

\* What keeps a partner out: it is not an active partner, or has no policy.
Causes == {"partner", "policy"}
KeptOut(p, cause) ==
    IF cause = "partner" THEN ~(KnownPartner(p) /\ partners[p] = "active")
                         ELSE ~\E r \in RouteId \cup {0} : PoliciesOf(p, r) # {}

\* A request goes from one point of ServeHTTP to another.
Goto(q, from, to) ==
    /\ proc # "down"
    /\ pc[q] = from
    /\ pc' = [pc EXCEPT ![q] = to]
    /\ UNCHANGED <<adminVars, routerVars, proc, loaded, barred, refreshed>>

\* writeError before the proxy: the client gets the status, nothing is recorded.
Reject(q, from, code) ==
    /\ Goto(q, from, "answered")
    /\ sent' = [sent EXCEPT ![q] = code]
    /\ UNCHANGED <<key, path, route, proxy, status, wrote, counted, auditVars>>

Arrive(q) ==
    /\ proc = "up"
    /\ pc[q] = "idle"
    /\ \E k \in PartnerId \cup {NoKey, WrongKey}, p \in Paths :
        /\ key' = [key EXCEPT ![q] = k]
        /\ path' = [path EXCEPT ![q] = p]
        /\ barred' = barred \cup {<<q, cause>> : cause \in {c \in Causes : KeptOut(k, c)}}
    /\ pc' = [pc EXCEPT ![q] = "matching"]
    /\ UNCHANGED <<adminVars, routerVars, proc, loaded, route, proxy, status, wrote, sent,
                   counted, auditVars, refreshed>>

\* withCORS answers OPTIONS itself: partners' preflights never reach the proxy.
Preflight(q) ==
    /\ proc = "up"
    /\ Goto(q, "idle", "answered")
    /\ sent' = [sent EXCEPT ![q] = 204]
    /\ UNCHANGED <<key, path, route, proxy, status, wrote, counted, auditVars>>

\* Router.Match, under its read lock; then the header is looked at.
MatchRoute(q) ==
    /\ Match(path[q]) # NoRoute
    /\ key[q] # NoKey
    /\ Goto(q, "matching", "authenticating")
    /\ route' = [route EXCEPT ![q] = Match(path[q])]
    /\ UNCHANGED <<key, path, proxy, status, wrote, sent, counted, auditVars>>

NotFound(q) == Match(path[q]) = NoRoute /\ Reject(q, "matching", 404)

MissingKey(q) == Match(path[q]) # NoRoute /\ key[q] = NoKey /\ Reject(q, "matching", 401)

\* GetByAPIKey, then partner.Active of the copy it returned.
FaultyAuthenticated(k) == KnownPartner(k)
Authenticated(k) == KnownPartner(k) /\ partners[k] = "active"

Authenticate(q) ==
    /\ Authenticated(key[q])
    /\ Goto(q, "authenticating", "authorizing")
    /\ UNCHANGED <<reqVars, counted, auditVars>>

\* Not active, not found, or the store failed.
Unauthenticated(q) == Reject(q, "authenticating", 401)

Authorize(q) ==
    /\ FindEffective(key[q], route[q].id) # {}
    /\ Goto(q, "authorizing", "limiting")
    /\ UNCHANGED <<reqVars, counted, auditVars>>

\* No policy, or the store failed.
Forbidden(q) == Reject(q, "authorizing", 403)

\* The outcomes of Limiter.Allow.
Allowed(q) ==
    /\ Goto(q, "limiting", "picking")
    /\ status' = [status EXCEPT ![q] = 200]   \* newStatusRecorder
    /\ UNCHANGED <<key, path, route, proxy, wrote, sent, counted, auditVars>>

LimiterFails(q) == Reject(q, "limiting", 500)

\* recordAudit starts a goroutine that holds the record.
FaultyAudit(q, code) == pending
Audit(q, code) == pending \cup {[request |-> q, status |-> code]}

TooMany(q) ==
    /\ Goto(q, "limiting", "answered")
    /\ sent' = [sent EXCEPT ![q] = 429]
    /\ pending' = Audit(q, 429)
    /\ UNCHANGED <<key, path, route, proxy, status, wrote, counted, log, failed>>

-----------------------------------------------------------------------------
(* The proxy: Router.ServeHTTP and httputil.ReverseProxy, which write through *)
(* the statusRecorder.                                                        *)

\* statusRecorder.WriteHeader: only the first call is recorded.
FaultyRecorded(q, code) == 200
Recorded(q, code) == IF wrote[q] THEN status[q] ELSE code

WriteHeader(q, code) ==
    /\ status' = [status EXCEPT ![q] = Recorded(q, code)]
    /\ wrote' = [wrote EXCEPT ![q] = TRUE]
    /\ sent' = IF code >= 200 THEN [sent EXCEPT ![q] = code] ELSE sent

\* The proxy is looked up again, by the id of the route matched before.
FaultyProxyFor(q) == proxies[table[1].id]
ProxyFor(q) == proxies[route[q].id]

PickProxy(q) ==
    /\ route[q].id \in DOMAIN proxies
    /\ Goto(q, "picking", "upstream")
    /\ proxy' = [proxy EXCEPT ![q] = ProxyFor(q)]
    /\ UNCHANGED <<key, path, route, status, wrote, sent, counted, auditVars>>

NoProxy(q) ==
    /\ route[q].id \notin DOMAIN proxies
    /\ Goto(q, "picking", "recording")
    /\ WriteHeader(q, 502)
    /\ UNCHANGED <<key, path, route, proxy, counted, auditVars>>

\* A 1xx response of the upstream is passed on as it comes.
Informational(q) ==
    /\ EarlyHints
    /\ Goto(q, "upstream", "upstream")
    /\ WriteHeader(q, 103)
    /\ UNCHANGED <<key, path, route, proxy, counted, auditVars>>

Respond(q) ==
    /\ Goto(q, "upstream", "copying")
    /\ \E code \in {200, 503} : WriteHeader(q, code)
    /\ UNCHANGED <<key, path, route, proxy, counted, auditVars>>

\* ErrorHandler: the upstream cannot be reached, or the client has gone.
Unreachable(q) ==
    /\ Goto(q, "upstream", "recording")
    /\ WriteHeader(q, 502)
    /\ UNCHANGED <<key, path, route, proxy, counted, auditVars>>

Copied(q) ==
    /\ Goto(q, "copying", "recording")
    /\ UNCHANGED <<reqVars, counted, auditVars>>

\* The body breaks off: ReverseProxy panics with ErrAbortHandler, and what
\* follows Router.ServeHTTP in the handler never runs.
Abort(q) ==
    /\ Goto(q, "copying", "aborted")
    /\ UNCHANGED <<reqVars, counted, auditVars>>

\* Metrics, Aggregator.Record and recordAudit.
Record(q) ==
    /\ Goto(q, "recording", "done")
    /\ counted' = counted \cup {q}
    /\ pending' = Audit(q, status[q])
    /\ UNCHANGED <<reqVars, log, failed>>

-----------------------------------------------------------------------------
(* The audit goroutines *)

AuditStep(rec) ==
    /\ proc # "down"
    /\ rec \in pending
    /\ pending' = pending \ {rec}
    /\ UNCHANGED <<adminVars, routerVars, proc, loaded, pc, reqVars, counted, barred,
                   refreshed>>

Insert(rec) == AuditStep(rec) /\ log' = log \cup {rec} /\ UNCHANGED failed

\* Insert failed or took longer than 5 seconds: the error is logged.
InsertFails(rec) == AuditStep(rec) /\ failed' = failed \cup {rec} /\ UNCHANGED log

-----------------------------------------------------------------------------
(* Shutdown *)

\* SIGTERM: the refresh loop is told to end, Shutdown stops listening.
Signal ==
    /\ proc = "up"
    /\ proc' = "draining"
    /\ UNCHANGED <<adminVars, routerVars, loaded, pc, reqVars, counted, auditVars,
                   barred, refreshed>>

\* Shutdown returns when no request is running or after 10 seconds, and main
\* returns: whatever still runs, audit goroutines included, is lost.
Exit ==
    /\ proc = "draining"
    /\ proc' = "down"
    /\ UNCHANGED <<adminVars, routerVars, loaded, pc, reqVars, counted, auditVars,
                   barred, refreshed>>

-----------------------------------------------------------------------------
(* The admin handlers *)

Admin ==
    /\ edits < MaxEdits
    /\ edits' = edits + 1
    /\ Edit
    /\ UNCHANGED <<routerVars, proc, loaded, pc, reqVars, counted, auditVars, refreshed>>
    /\ actives' = IF ActiveRoutes' = ActiveRoutes THEN actives
                                                  ELSE Append(actives, ActiveRoutes')
    /\ barred' = {b \in barred : KeptOut(key[b[1]], b[2])'}

-----------------------------------------------------------------------------

\* What a request does by itself, whatever the outcome.
Step(q) ==
    \/ MatchRoute(q) \/ NotFound(q) \/ MissingKey(q)
    \/ Authenticate(q) \/ Unauthenticated(q)
    \/ Authorize(q) \/ Forbidden(q)
    \/ Allowed(q) \/ LimiterFails(q) \/ TooMany(q)
    \/ PickProxy(q) \/ NoProxy(q)
    \/ Respond(q) \/ Unreachable(q)
    \/ Copied(q) \/ Abort(q)
    \/ Record(q)

Next ==
    \/ RefreshRead \/ RefreshFails \/ RefreshSet \/ Signal \/ Exit \/ Admin
    \/ \E q \in Request : Arrive(q) \/ Preflight(q) \/ Step(q) \/ Informational(q)
    \/ \E rec \in pending : Insert(rec) \/ InsertFails(rec)

\* Once ListActive has answered, the goroutine of the loop is scheduled and takes
\* the lock that nobody keeps.  Nothing else is owed: no request has a deadline,
\* and neither Oracle nor an upstream has to answer it.
Fairness == WF_vars(RefreshSet)

\* ListActive has no deadline either: the refresh loop goes on only if the store
\* answers it, and does not fail for ever.
RefreshGoesOn == WF_vars(RefreshRead)

Spec == Init /\ [][Next]_vars
FairSpec == Spec /\ Fairness

-----------------------------------------------------------------------------
(* Properties *)

\* The variables have their types: the refresh loop has read at most one list it
\* has not set, a recorder holds a status some writer passed to it.
TypeOK ==
    /\ StoreTypeOK
    /\ proc \in {"up", "draining", "down"}
    /\ Len(loaded) <= 1
    /\ pc \in [Request -> {"idle"} \cup Running \cup Ended]
    /\ key \in [Request -> PartnerId \cup {NoKey, WrongKey}]
    /\ wrote \in [Request -> BOOLEAN]
    /\ status \in [Request -> {NoStatus, 103, 200, 502, 503}]
    /\ pending \cup log \cup failed
            \subseteq [request : Request, status : {103, 200, 429, 502, 503}]
    /\ counted \subseteq Request
    /\ barred \subseteq Request \X Causes
    /\ refreshed \in BOOLEAN

\* Revoking access works at once for what comes after it: a request whose
\* partner is unknown or inactive when it arrives, and stays so, never reaches
\* the limiter or an upstream; nor does one whose partner has no policy.  (The
\* two reads are apart: a partner deactivated after the first and given a policy
\* before the second gets through, though at no moment it had both.)
NoEntryOnceBarred ==
    \A b \in barred :
        \/ pc[b[1]] \in {"matching", "authenticating", "authorizing"}
        \/ sent[b[1]] \in {401, 403, 404}

\* The table is never a mixture of two states of the store, and a refresh that
\* fails never empties it: since the first one that succeeded it holds the active
\* routes of some one moment, and nothing before.
TableIsOneMoment ==
    IF refreshed THEN \E v \in DOMAIN actives : ToSet(table) = actives[v]
                 ELSE table = <<>>

\* Refreshes never bring back an older table than the one they replace.
TableNeverGoesBack ==
    [][table' # table /\ refreshed =>
        \E v \in DOMAIN actives : \E w \in v .. Len(actives) :
            ToSet(table) = actives[v] /\ ToSet(table') = actives[w]]_vars

\* Match and the lookup of the proxy see different tables if a refresh comes in
\* between; the request still goes where the route it was authorised for
\* points, as of then or later, and never to another route's upstream.
ForwardedAsAuthorised ==
    \A q \in Request : proxy[q] # NoRoute =>
        /\ proxy[q].id = route[q].id
        /\ \E v \in DOMAIN actives : \E w \in v .. Len(actives) :
               route[q] \in actives[v] /\ proxy[q] \in actives[w]

\* The audit trail has no more than one record of a request, for the requests
\* Record counted or the limiter rejected and for no other, with the status its
\* client was sent (when upstreams send no 1xx responses).
AuditTrailFaithful ==
    /\ \A rec \in pending \cup log \cup failed :
        /\ rec.request \in counted \/ sent[rec.request] = 429
        /\ rec.status = sent[rec.request]
    /\ pending \cap log = {} /\ (pending \cup log) \cap failed = {}

\* Until the process exits no record is lost: every request that was counted or
\* rejected by the limiter is being written, written, or known to have failed.
AuditNotForgotten ==
    \A q \in Request :
        q \in counted \/ sent[q] = 429 =>
            \E rec \in pending \cup log \cup failed : rec.request = q

\* Once the store stops changing the table catches up with it, if the process
\* lives and the store answers the refresh loop: no change of the routes is missed
\* by it, though every request may be stuck in Oracle or an upstream.
TableCatchesUp == RefreshGoesOn => <>[](proc # "up" \/ ToSet(table) = ActiveRoutes)

-----------------------------------------------------------------------------
(* What the documentation says and the code does not do. *)

\* recorder.go: "statusRecorder captura o status code final da resposta".
RecorderHasFinalStatus ==
    \A q \in Request : pc[q] = "done" => status[q] = sent[q]

=============================================================================
