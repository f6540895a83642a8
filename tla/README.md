# comporta, verified

TLA+ specifications of the comporta API gateway: what its components do, model-checked with
TLC on small instances, and, but for what must happen in the end, proved with TLAPS for
every instance.
Paths below are relative to the repository's root. Every definition says in `PROJECT.json`
(`map`) which lines it stands for.

## 1. The system

comporta is one Go process (any number of instances may run side by side), an Oracle
database or an in-memory store, a Redis, and a panel in the browser.

    partner --HTTP--> GatewayHandler --> Router.Match        (table of routes)
                            |--> Partners.GetByAPIKey, Policies.FindEffective   (store)
                            |--> Limiter.Allow               (Redis, one Lua script)
                            |--> Router.ServeHTTP --> httputil.ReverseProxy --> upstream
                            |--> Aggregator.Record           (under its mutex)
                            `--> go Audit.Insert             (store, after the answer)
    refresh loop  ---- every few seconds: Routes.ListActive, then Router.SetRoutes
    broadcast loop --- every second: Aggregator.Snapshot, then Hub.Broadcast --> panels
    admin --HTTP--> AdminHandler --> repositories of partners, routes, policies
    SIGTERM --> Shutdown waits for handlers, then main returns

| Component | State | Operations | What is hard | What makes it correct |
|---|---|---|---|---|
| Rate limiter (`internal/ratelimit`) | a sorted set and an expiry per key, in Redis | `Allow` | the stamp is taken before the script runs, by one of several clocks; go-redis sends commands again | no more admissions than the limit in a window; no denial without use; a wait that suffices |
| Route table (`internal/proxy`) | list by length of prefix, proxies by id, under an RWMutex | `SetRoutes`, `Match`, `ServeHTTP` | `Match` and the lookup of the proxy lock apart | the most specific route wins; a request goes where it was authorised to go |
| Gateway handler (`internal/api/gateway.go`, `recorder.go`) | none of its own, local copies of shared state | `ServeHTTP`, `recordAudit` | five reads of shared state at five moments; early returns; a panic of the proxy; a goroutine that outlives the request | revoked access stays revoked; one true audit record |
| Process (`cmd/gateway/main.go`) | the two loops, the signal | refresh, broadcast, shutdown | a read fails, or the store changes between read and set | the table is that of one moment, whatever fails, moves forward, catches up |
| Repositories (`internal/store`) | partners, routes, policies, audit log | create, read, update, delete, `ListActive`, `FindEffective` | Oracle's keys and cascades against the in-memory store, which has none | no orphans; what is deleted stays deleted |
| Admin handlers (`internal/api/admin_*.go`) | none | create, update and delete of the three | read, then decode a body, then write; INSERT, then SELECT | no row written behind a deletion; a 201 names a row that is there |
| Hub (`internal/wshub`) | map of clients under a mutex, a channel and two goroutines for each | `ServeWS`, `Broadcast`, both pumps, `disconnect` | three places end a client; one closes a channel another sends on | no panic, no gap, no leak, no slow panel holding up the others |
| Live statistics (`internal/stats`) | counters of the window | `Record`, `Snapshot` | concurrent requests while the window is closed | every request in one window, the busiest ranked |
| Paged lists (`domain.go`, `List` of both stores, `respond.go`) | none | normalise, slice, count | the slice's arithmetic; rows change between pages, and between COUNT and SELECT | a page is the rows of its ranks; a walk through the pages misses only what was moved meanwhile |
| Seed command (`cmd/seed`) | the ids found so far | look up, INSERT, SELECT | a failure ends it half-way; run again, run twice at once, next to the admin | what it ends with is there; it can be run again |
| Panel's socket (`frontend/composables/useMetricsSocket.ts`) | a socket, a timer, a flag | connect, reconnect, close | events and timers outlive the page; the gateway restarts | an open page is connected again in the end; a page that was left stays away |
| Admin token, validation, configuration, logging, Prometheus, mock upstreams, the panel's pages | none, or counters | | | not modelled: no state that another part reads |

## 2. The modules

| Module | Models | Notes |
|---|---|---|
| `Quota` | what `Allow` promises | abstract: time and grants only |
| `SlidingWindow` | `Limiter.Allow`, the script, Redis, go-redis | for one key; implements `Quota` |
| `Router` | `proxy.go` | algorithms as operators, the table as state |
| `Store` | the repositories | every operation an action; `Constraints` chooses Oracle or memory. `StoreSpec` is any sequence of them |
| `Gateway` | `ServeHTTP`, audit goroutines, refresh loop, shutdown | extends `Store` and `Router`; composes them |
| `Admin` | the admin handlers | extends `Store`, implements `StoreSpec` |
| `Feed` | what the hub promises its panels | abstract: messages, subscribers, who is behind |
| `Hub` | `hub.go` | implements `Feed` |
| `Aggregator` | `aggregator.go` | |
| `LiveMetrics` | `broadcastLoop` | composes `Hub` and `Aggregator` |
| `Seed` | `cmd/seed/main.go` | extends `Store` |
| `Paging` | the paged lists, and a reader of them | both stores, chosen in `Init` |
| `Panel` | `useMetricsSocket.ts` | |
| `MC...` | constants for TLC | |
| `...Proofs` | theorems about the module of that name | `SlidingWindowProofs` also about `Quota`, `GatewayProofs` about `Router`, `LiveMetricsProofs` about `Hub` and `Aggregator` |

An operator called `Faulty...` is a wrong version of the definition after it, of the kind a
slip of the hand would produce (a dropped test, a missing reset, a swapped order). Nothing
uses them; they are there to try that the properties would notice.

**How a module corresponds to the code.** A step is what the code does between two points at
which another goroutine may interfere: a critical section, one command of Redis, one
statement of SQL, one operation on a channel. `pc` (`reader`, `writer` in `Hub`) is where a
goroutine is. What a goroutine remembers from one step to the next, it has in a variable:
`route`, `proxy` and `status` in `Gateway` are copies, as `route`, the proxy and `recorder`
are in the handler; `copy` in `Admin` is the row an update read. Variables marked *history*
exist for the properties only and guard nothing.

**SlidingWindow.** Time is counted in units, `clock` is Redis's clock. A call takes a stamp
up to `Lag` behind or `Lead` ahead of it and sends a command (`Send`); the command may be
sent again (`Resend`, with the same stamp and the same member, as go-redis does), each copy
may be executed (`Admit`, `Deny`), also after the client gave up (`Fail`), and each reply
may be lost (`Reply`). `Lag` is the time from `time.Now()` to the execution plus how far the
clock may be behind; it is bounded because the client's timeouts and retries are. `zset` is
the sorted set: a call is its own member, and its score its stamp. `Lose` is a restart or a
failover of Redis: any part of the set may be gone, with the history `granted` of what Redis
still knows; in `Quota` it is `Forget`.

**Router.** Paths are sequences of characters. `Asked` is the Director: the path of the
upstream URL is put in front (`Joined`, by net/http/httputil), then, for a route whose
`strip_prefix` is set, the prefix is trimmed from the front of the whole (`Trimmed`).

**Store.** Partners, routes and policies have a life: unborn, stored (active or inactive),
deleted. An id is never used again. A partner stands for its API key. With `Constraints`
the prefix of a route and the pair of a policy are unique, a policy's partner is there and
is deleted with its policies, as `migrations/001_init.sql` has it; without, as in
`memory.go`, none of that is so. `Edit` is any operation with any arguments of the right
types: what the gateway and the seed have to expect of the admin handlers. A route's row has
its prefix, upstream and `strip_prefix`; `Listed` is what `ListActive` says of it. A policy
carries no limit here: what the limiter does with it is `SlidingWindow`'s subject, and
`Gateway` lets it allow, deny or fail.

**Gateway.** `Arrive`, then one action for each outcome of each line of `ServeHTTP` that
reads shared state or returns; `Preflight` is the OPTIONS request that `withCORS` answers
before the handler sees it. `barred` remembers which requests came when their partner was
already kept out, and for which cause; `actives` all sets of active routes there have been.
`RefreshRead` and `RefreshSet` are the two halves of `refreshRoutes`; `RefreshFails` is a
read that fails, after which the code returns before `SetRoutes` and changes nothing (its
wrong version sets the empty list). `refreshed` remembers whether a refresh has succeeded
since the start; the first one is made, or fails, before the server listens (`Init`). `Exit` is also possible while requests run:
`Shutdown` gives up after ten seconds. The code's ReverseProxy is external; it writes
headers through `statusRecorder`, calls the error handler, or panics when the body breaks
off.

**Admin.** Nothing is held between the operations of one handler, so updates interleave with
deletions and creations. With Oracle a creation is `Create` (the INSERT) and `Select`, and a
write may be carried out and yet be answered with 500.

**Seed.** A seeder's state is how many jobs it has done, as the sequence of ids found; its
next job follows from that. Each job is `Look`, `Create` (the INSERT) and `Select`. Any
error of a look-up counts as not found, as the code has it; any error of a creation, also of
one that was carried out, stops the process (`log.Fatalf`), and `Rerun` starts it again from
the first job. `Admin` deactivates, adds and deletes rows meanwhile. `alone` and `kept` say
of each seeder whether it was disturbed since it was started.

**Paging.** The arithmetic of `paginate` is that of integers of `2 * Half` values; the
reader asks for the pages one after the other, and knows the last one by its being short or
by `total_pages`. The in-memory store answers count and rows at once, Oracle first one and
then the other. A start below 0 panics in memory, and is 0 for Oracle (`Offset`). `removed`
and `torn` count the deletions since the walk began, and the insertions since the last
COUNT. Which list, which store, which reader is chosen in `Init`. There are
never so many rows that the end of a page of them is no integer (`PagingAssumption`); the
page asked for is any.

**Panel.** A visit to the page is one call of the composable, with variables of its own. A
socket that closes, for whatever reason, is `closing` until its `onclose` has run.

**Hub and LiveMetrics.** The n-th broadcast carries the message n, so that gaps and
repetitions show. `StartPumps` is a step of its own because the client is in the map before
its goroutines run. The other side of a connection reads, stalls or is gone; a stalled
panel leaves `writePump` inside a write without end, since the code sets no deadline. In
`LiveMetrics` the n-th message is the n-th snapshot, taken in one step and broadcast in
another; the history `recorded` has each request with the window it was recorded in. `Feed` has neither channels nor goroutines: `Publish` cuts off the subscribers that
are a buffer or more behind and gives the others the message, `Deliver` hands the next
message to one of them. In the refinement (`Hub!Promise`) what is meant for a panel is what
it was written, what `writePump` holds and what waits in its channel.

## 3. The runs

| Run | Shows | Instance |
|---|---|---|
| `sw_skew` | `WithinQuota`, `RecentHeld`, `RetryAfterBounded`, `DeniedOnlyWhenUsed` | 3 calls, limits 1 and 2 mixed, window 4, lead 1, sent once |
| `sw_resend` | `DeniedHoldsNoSlot`, `RetryAfterSuffices`, `KeepsPromise` | 3 calls sent up to twice, limit 1 or none, window 3, lag 1 |
| `router` | `MostSpecificAlwaysWins`, `StripsPrefix` | all lists of up to 3 routes with prefixes of up to 3 characters, all paths of up to 4 (`Paths`), upstream paths of up to 3; at most one route keeps its prefix |
| `gw_requests` | `AuditTrailFaithful`, `AuditNotForgotten`, `TableCatchesUp` | 2 requests, 1 change of the store, shutdown, Oracle, `strip_prefix` on or off, fairness |
| `gw_changes` | `NoEntryOnceBarred`, `TableIsOneMoment`, `ForwardedAsAuthorised`, `TableNeverGoesBack` | 1 request for a path of 2 routes, 3 changes, 2 upstreams, 1xx responses, in-memory store |
| `admin` | `OneDeleteWins`, `NoOrphans`, `DeletionIsFinal`, `RenameDoesNotActivate`, `CreatedIsThere` | 3 requests of any kind, Oracle |
| `hub` | `ChannelsSafe`, `GaugeAgrees`, `NoLeaks`, `KeepsFeed` | 2 panels, a buffer of 1, 3 broadcasts, fairness |
| `live_metrics` | `PanelMissesNothing`, `EveryRequestInOneWindow`, `BusiestAreRanked` | 1 panel, a buffer of 1, 2 snapshots, 4 requests, 3 consumers, a ranking of 2 |
| `seed` | `SeedComplete`, `SeedsAgree`, `RunsAgain` | 2 seeds of a partner, 2 routes and 2 policies; 2 edits, 2 failures, a first page of 2 routes |
| `paging` | `EveryRowOnItsPage`, `WalkMissesOnlyMoved` | 4 rows, pages of up to 3, integers of 4 bits |
| `panel` | `LeavesWhenWaiting`, `ReconnectsInTheEnd` | 3 visits, 4 stops or broken connections, fairness |
| `gw_earlyhints` | a counterexample, see 5 | |

The components' type invariants are checked by `sw_resend`, `gw_requests`, `admin` and `hub`.

**Why the bounds are enough to be worth something.** Three calls against a limit of two are
the least that can exceed it, and two limits the least that can disagree; the window is
longer than lag and lead together, so the promised span (3 and 2 units) is not empty, and the
clock runs long enough for admissions to leave the window and for the key to expire. Two
attempts are the least that can be executed out of order or after a reply. The route lists
contain nested, equal and disjoint prefixes in every order, with and without a slash at the
end. Three changes of the store let a partner be deactivated, reactivated and deactivated, or
a route be removed, put back and redirected, during one request with any refreshes in
between; a second request adds nothing to those, since requests share nothing but the
audit trail, the subject of the other run. Three admin requests are a read-modify-write
and two others that change what it read. A buffer of one is full after one message, and
three broadcasts fill the buffer and writePump's hand and overflow. Three consumers are the least of which two can be ranked, in order,
and one left out. Two seeds race for every
key, with a failure in each, or two in one; a route of the admin's is enough to push one of
the seed's off the first page. Four rows make up to four pages, of which the last is full or
not, and four bits are enough for the product of page and size to wrap more than once.
`StripFlags` has both values where one change of the store is enough to see them (the two
routes of `gw_requests`), and in `router` routes of both kinds are in one table; elsewhere
it has one, since the flag is copied with the rest of a route and nothing else looks at it.
`MaxClock`, `MaxEdits`, `MaxBroadcasts`, `MaxRecords`, `MaxFailures`, `MaxRows` and
`MaxTrouble` are the bounds on what never ends; nothing else is bounded. Where behaviours end at such a bound, or with the exit of the process, deadlock is
not checked; in `router` it is.

**Fairness.** `Gateway!Fairness`: once `ListActive` has answered, the loop's goroutine is
scheduled and gets the table's lock, which nobody keeps (`RefreshSet`). Nothing else is
assumed. A request waits for Oracle and for its upstream, and neither the store nor the
proxy's transport has a deadline of its own, so the code owes no request an end, and no
property says that it ends: every request may stop at any point, no request has to arrive,
no audit goroutine has to run, and the process need not exit. `ListActive` has no deadline
either. That the table catches up needs one, and says so: `RefreshGoesOn`, the premise of
`TableCatchesUp`, is that reads end and do not fail for ever.
`Hub!Fairness`: goroutines are scheduled, and a write to a panel that reads completes.
Nothing is assumed of the panels: a stalled one may stall for ever, and `NoLeaks` still
holds once the client has been dropped, since closing the connection frees the writer.
`Panel!Fairness`: the browser runs timers and delivers the events of sockets, and so a
gateway that accepts connections is connected to; nothing is assumed of the gateway.

## 4. The proofs

The theorems hold for every value of the constants that satisfies the assumptions named in
the modules, and rest on nothing else. An assumption says how a constant is to be read
(numbers, finite sets, that 0 is no route), or what the store holds at first: rows of the
right types (`FirstRowsAssumption`) that Oracle's keys hold of, since its schema has seen
to that (also `UniqueRowsAssumption` of `Seed`). TLC evaluates them in every run. Each
invariant below that is stronger than what it is for was checked with TLC on the instances
of section 3 before it was proved.

`SlidingWindowProofs`, for any set of calls, any limits up to `MaxLimit`, any window, lag,
lead and number of attempts, and a Redis that may lose any part of the set at any time:

- **TypeCorrect**: `TypeOK`.
- **RecentHeldAlways**: `RecentHeld`. Neither it nor `WithinQuota` is inductive: they do not
  say why an admission that counts is still in the set. `Inv` adds, for each call, that its
  stamp is at most `Lead` ahead (`StampInv`) and, for each admitted call, that its stamp
  was at most `Lag` behind when it was admitted, that the key lives a window longer than
  that, and that the call is in the set while it counts (`GrantInv`). So a script, whose
  stamp is at most `Lead` ahead, removes only what is at least `Window - Lag - Lead` old
  (`KeptCovers`), and that is the whole of it.
- **Refinement**: `Spec => KeepsPromise`. With `Inv` an `Admit` is a `Grant` of `Quota`
  (for a copy executed again the call itself is not counted, as in the code's ZADD), `Tick`
  is `Tick`, a `Lose` is a `Forget`, and everything else stutters.
- **PromiseBounds**: `Promise!Spec => []Promise!WithinQuota`, of `Quota` alone: granting only
  while fewer than its limit of others were granted in the last `Span` keeps *every*
  window, not only those that end at a grant, below the largest limit. `OneMore` is the
  step: a grant adds at most one, and only to windows that end now.
- **QuotaKept**: `WithinQuota`, by `Refinement` and `PromiseBounds`.
- **DenialsJustified**: `DeniedOnlyWhenUsed`: what the script counts against a call was
  admitted in the last `Window + Lag + Lead`.
- **RetryAfterAlwaysBounded**: `RetryAfterBounded`. **HintsSuffice**: `RetryAfterSuffices`:
  the oldest member that was counted is out of the window by then, so one fewer than the
  limit is left at most.
- **DenialsTakeNoSlot**: `DeniedHoldsNoSlot`. `SlotInv` adds that a call sent once has at
  most its one copy under way, and is not in the set while it has.

`StoreProofs`, for any sequence of operations with any arguments (`StoreSpec`):
**PoliciesHavePartners**, `NoOrphans`, and **DeletedForGood**, `DeletionIsFinal`. Beyond the
types of the rows nothing is needed: every operation keeps both by itself, the first because
with foreign keys the INSERT of a policy looks for the partner once more, and the DELETE of
a partner takes its policies along.

`AdminProofs`, for any number of requests of any kind, with Oracle or in memory:

- **AdminImplementsStore**: `Spec => StoreSpec`. Every step of a handler is one operation of
  the store with arguments of the right types, or none. This is what allows `Gateway` and
  `Seed` to have `Edit`, or some of it, in the place of the handlers. It needs to know what
  a handler carries from one step to the next (`AdminInv`: an update that is about to write
  has read a row of the type it writes).
- **NoOrphanEver**, **NoResurrection**: from that and `StoreProofs`.
- **AdminTypeCorrect**: `TypeOK`.
- **DeletedOnce**: `OneDeleteWins`. A count of answers says nothing about the row; `DeleteInv`
  does: after a 204 the row is deleted, and a deletion finds a row only once.
- **RenamesKeepFlag**: `RenameDoesNotActivate`. `HeldInv`: an update that came when the
  partner was inactive, and nobody has activated since, has read an inactive row.
- **CreationsAreThere**: `CreatedIsThere`: the SELECT finds the row by its key.

`GatewayProofs`, of the router, for any routes, lists and paths:

- **SortRoutesSorts**: the insertion sort of `SetRoutes` returns a sorted list of the same
  routes. `SortRoutes` is a recursive function; that it exists (`RoundsExist`) and what each
  of its rounds has done (`RoundsSort`) is shown by the least round that would be wrong
  (`LeastElement`). `InsertRouteSorts` is one round.
- **MostSpecificWins**: `MostSpecificAlwaysWins`, of any sequence of calls of `SetRoutes`
  with any lists: the table is always sorted, and of a sorted table the first route that
  starts the path has the longest prefix that does (`FirstIsMostSpecific`).
- **DirectorStripsPrefix**: `StripsPrefix`, for routes that strip their prefix and routes that
  keep it, from what `Joined` and the trimming leave at the end of a path (`SuffixMeans`,
  `JoinedMeans`, `TrimmedMeans`, `EndsWithPath`).

and of the gateway, for any number of requests, any store, any changes and any refreshes:

- **GatewayTypeCorrect**, **GatewayMostSpecific**: `TypeOK`, and `MostSpecificAlwaysWins` of the
  table the gateway serves with. `TypeInv` adds the types of what a request remembers, and
  that the table is sorted and `proxies` are its own.
- **AuditIsFaithful**: `AuditTrailFaithful` unless upstreams send 1xx responses
  (`~EarlyHints`, the hypothesis; with them it is false, see 5). **NoRecordForgotten**:
  `AuditNotForgotten`, with or without them. **OnlyHintsDiverge**: so is what `recorder.go`
  says of the status. Neither is inductive: `FlowInv` says what is set at each place of
  `ServeHTTP` (the recorder has the status that was sent as soon as one was), `AuditInv`
  that a record is of a request that ended, that no request has it in two places, and that
  each request that must have one has it.
- **RevocationWorks**: `NoEntryOnceBarred`. `BarredInv`: the cause for which a request was
  barred when it came still holds, and the request is at a place where the read that finds
  it out is still ahead or has turned it away.
- **TableOfOneMoment**, **NeverMisforwarded**, **RefreshesGoForward**: `TableIsOneMoment`,
  `ForwardedAsAuthorised`, `TableNeverGoesBack`. `HistoryInv` places them in time: there is a
  moment of the store that the table is of as soon as a refresh has succeeded (before it is
  empty), the list that was read and not yet set is of
  the same moment or a later one, and the route a request has matched is of the same or an
  earlier one. So whatever proxy the request finds by the id of its route later is of a
  moment not before.

`LiveMetricsProofs`, of the hub, for any set of clients, any capacity of the channels and any
number of broadcasts:

- **ChannelsAlwaysSafe**: `ChannelsSafe`. What it does not say, and `HubInv` adds, is who
  may still close a channel: a client is in the map only between its registration and the
  departure of its reader, and its channel is open as long as it is there.
- **HubKeepsFeed**: `Spec => KeepsFeed`. `QueueInv` says that what a client was written, what
  `writePump` holds and what is in the channel carry consecutive numbers from the one after
  it joined (`InSequence`), up to the last broadcast while it is registered, and that
  `writePump` holds at most one message, and only while it writes or after it has ended
  (`InPlace`). `Register` is then a `Subscribe`, `Write` a `Deliver`, `Broadcast` a
  `Publish` that cuts off the clients whose channel is full, `Unregister` a `Leave` unless
  the client was cut off, and everything else stutters.
- **HubTypeInvariant**: `TypeOK`, from the two invariants.
- **GaugeNeverDrifts**: `GaugeAgrees`. It speaks of the quiet states only; `GaugeInv` of all:
  the gauge is the number of the clients that were counted up and not yet down.

of the statistics, for any consumers, status codes and requests, and any length of the
ranking:

- **EveryRequestCounted**: `EveryRequestInOneWindow`. `AggregatorInv` adds the types only,
  with a finite set of consumers. A request adds one element to the sets of the open window
  that it belongs to and none to those of another (`RecordCounts`), a snapshot none at all
  (`SnapshotKeeps`), and so the counters stay the cardinalities.
- **RankingIsRight**: `BusiestAreRanked`: a ranking has every consumer once, in descending
  order of their requests (`RankingMeans`); a snapshot has the first of it, with the counts
  as they were, and who is left out comes after all that are in.

and of both together, for any interleaving of requests, snapshots, broadcasts and clients:

- **PanelSeesAll**: `PanelMissesNothing`. Four stretches of windows make up what there is: those
  before the panel came, those it was written, the one in `writePump`'s hand, those in its
  channel. `QueueInv` has the order of the last three, `WrittenInv` that what was written
  begins where the panel joined, and `InStep` that the loop has broadcast all snapshots but
  perhaps the last. So each window that is closed, the one about to be broadcast included,
  occurs exactly once (`MeantForPanel`), and by `EveryRequestCounted` each request is in one window.

`SeedProofs`, for any lists, any number of seeds at once, and any failures, reruns and edits:

- **SeedEndsComplete**: `SeedComplete`. `SeedInv` says it of a seed under way: each id found
  so far is that of the row with the key it was looked for by (`PartnersReady`,
  `RoutesReady`, `PoliciesReady`), as long as nothing was deleted since the seed began; for
  the store does nothing but grow then (`Grows`). Of a policy it is that the effective
  policy is accepted for the route itself only (`LookupFindsRows`).
- **SeedsSpeakOfTheSame**: `SeedsAgree`, since in addition no key is there twice
  (`UniqueRows`, which every INSERT keeps: `InsertAdds`).
- **SeedMayRunAgain**: `RunsAgain`. `Undisturbed`: what a seed alone found missing is missing
  still when it inserts, and what it inserted is there when it selects. A key refuses the
  row then only if the look-up missed it, which happens behind the first page and nowhere
  else (`LookupMissesNone`).

`PagingProofs`, for any rows, any sizes of pages and integers of any width:

- **PagesAreRight**: `EveryRowOnItsPage`. The ranks of the rows are the numbers from 1 to
  theirs, each once (`RankGrows`, `ListHasRanks`), so the list has each row at its rank; and a
  start that is an integer is not wrapped (`WrapIsIdentity`), so the slice is the page
  (`PageMeans`).
- **WalkMissesFew**: `WalkMissesOnlyMoved`. It says nothing of a walk under way; `WalkInv` does:
  the rows that stay, were not given yet and have a rank on the pages that were read are at
  most as many as were deleted, for a deletion moves one row at most across a rank and an
  insertion moves none back (`InsertKeepsRanks`). Between COUNT and SELECT the rows beyond
  the count are at most the records inserted, and only where the newest come first. A page
  that is not the last ends within the rows, so that the walk never gets to where the
  product wraps.

`PanelProofs`, for any visits and any number of troubles: **LeftPagesStayClosed**,
`LeavesWhenWaiting`. `RestingInv` adds why nothing can open the socket again: the visit is not
mounted anew, and its timer is not armed.

Every invariant and every safety property of a step that a run checks is proved. Only
model-checked are the liveness properties (`TableCatchesUp`, `NoLeaks`, `ReconnectsInTheEnd`): liveness under fairness, and `ENABLED`, are out of TLAPS's reach.

## 5. Where comments and code disagree

`recorder.go:5` says that the recorder captures the final status. It captures the first, and
1xx responses come first (`gw_earlyhints`): metrics and audit then have 103.

Three more comments say more than the code does; no run is spent on them:

- `ratelimit.go:66` says `limit` is the largest number of requests allowed within `window`.
  It is so for exact stamps only: with a lag of one unit two calls may be allowed within one
  window though the limit is one. What holds is `WithinQuota`, for a window shorter by the
  skew; with a minute's window and milliseconds of skew, almost all of it.
- `domain.go:42` says that attempts are audited too. Requests refused with 403, and those
  the limiter failed for, are not: `ServeHTTP` returns before `recordAudit`.
- `router.go:47` says that every path not named before it is a partner's and goes to the
  proxy. OPTIONS requests never do: `withCORS` answers them (`Preflight`), without a key,
  quota or audit, and an upstream's own answer to OPTIONS is never seen.

What the models also showed, and no comment denies:

- The partner and the policy are read one after the other. A partner deactivated after the
  first read and given a policy before the second gets through, though at no moment it had
  both. `NoEntryOnceBarred` is therefore stated for each cause by itself.
- A call that was sent twice may be denied and yet hold a slot: the first copy took it and
  its reply was lost. A wait announced to a call of one limit need not suffice if calls of
  a higher limit came in between; `RetryAfterSuffices` is for one limit.
- Redis that forgets the set (a restart, a failover) gives that much of the quota back; what
  it keeps still counts and still expires (`Lose`).
- The Director trims the prefix after the path of the upstream's URL has been put in front:
  with such a path the prefix stays, or what is trimmed is part of the upstream's own path.
  `StripsPrefix` says what is left: an absolute path that ends in what followed the prefix.
  A route with `strip_prefix` off keeps the whole path.
- A proxied body that breaks off makes ReverseProxy panic, and metrics, `Record` and the
  audit of that request are skipped. Audit goroutines still running when main returns are
  lost, and a failed `Insert` is only logged; `AuditNotForgotten` says neither happens
  silently while the process lives, for requests that were counted.
- An update of a partner that overlaps its deactivation may undo it (`RenameDoesNotActivate`
  holds for those that do not overlap). A creation answered with 500 may have been carried
  out.
- A stalled panel keeps two goroutines and a connection until its buffer overflows.
- The total of a page and its rows are of two moments in Oracle. A reader of the audit log
  that stops at `total_pages` misses one record for each that was inserted between the two
  statements of its last page; one that stops at a short page misses none, though it may see
  a record twice. A row deleted meanwhile moves the others to earlier pages, and a reader may
  miss one. `WalkMissesOnlyMoved` says that this is all it can miss.
- `page` is not bounded above: beyond the range of `int` its product with the size wraps, and
  the in-memory list panics or shows an earlier page again. Oracle gets the negative OFFSET,
  which it takes for 0.
- The seed finds its routes among the first hundred only; with more in the store it may
  insert one that is there, and stop. A look-up that fails counts as not found, and then the
  unique key stops the seed; run again it goes on, as `RunsAgain` says. The panel's form for
  policies likewise offers the first fifty partners and routes only.
- A page that is left while its socket is open or connecting leaves a reconnecting socket
  behind: `onclose` schedules a reconnection whether or not the page is there, and the
  composable of the next visit knows nothing of it. `LeavesWhenWaiting` is about the others.

## 6. What is not modelled, and why

GETs of single rows and `TopConsumers`, which no handler calls: they change nothing.
Validation of fields, the admin token, the table of static routes: no state. Rates in a
snapshot: quotients of what `EveryRequestInOneWindow` is about. The numbers in a policy:
`SlidingWindow` has limits, and `Gateway` lets the limiter answer as it likes. Prometheus
counters: only added to, except the gauge of connected clients, which `Hub` has. Failures
at start-up and the configuration: the process ends, or does not notice. (A
`WS_BROADCAST_INTERVAL` that is not positive makes `time.NewTicker` panic.) The upgrade of
a connection, pings of `writePump` that succeed: they change nothing. A connection that is
dead without the browser noticing: the panel cannot know. The panel's pages, mock
upstreams, dashboards: presentation and demonstration.

## 7. What was planned, and is done

The rate limiter, the gateway with its store and router, the admin handlers, the hub and its
promise, the statistics and their composition, the seed, the paged lists, the panel's
socket: each modelled, checked and proved as far as sections 3 and 4 say. What is left of
the components is in 6. That a request ends is not stated: it would need deadlines the code
does not set (3). A next step would be the parts of the liveness properties that are
safety: that in each state short of the goal some step that is assumed to be fair is
possible and leads nearer to it.
