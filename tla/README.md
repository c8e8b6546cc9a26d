# controlDeck, specified

controlDeck routes OpenAI-style requests to replicas of self-hosted models. One
or more *routers* (Node processes running `server/src/index.ts`) share a
Postgres database and nothing else; each answers callers, places their requests
on replicas, sweeps rows that have waited too long, and keeps the replica table
in step with the cluster. The modules here specify that machinery, TLC checks
it on small instances, and TLAPS proves the most important part of it for
instances of any size.

Paths below are relative to `server/src/` unless they begin otherwise.

## The system

| component | state it keeps | operations | what makes it hard | what makes it correct |
|---|---|---|---|---|
| request lifecycle (`http/routes/v1.ts`, `scheduler/queue.ts`, the timers of `index.ts`) | a row of `requests` per request; a handler per open connection, with the slot it holds and its deadline | enqueue, poll for a replica, mark started, record tokens, complete, fail, give up; three sweeps | handlers of several routers and sweeps interleave at every `await`; any statement may fail; a router may die; two clocks, the router's and the database's | every slot taken is counted until it is given back, once; a replica is not given more than its ceiling; the row ends as the caller was told; every row and every caller comes to an end |
| placement (`scheduler/place-request.ts`, `scheduler/affinity.ts`) | `replicas.in_flight`, throughput samples, `replica_affinity` | affinity claim, general claim, record, sweep | looked up before claimed; `SKIP LOCKED`; measurements age | a conversation goes back only to a replica with room; a replica that was slow once is measured again |
| replica reconciler (`replicas/`) | `replicas` but for `in_flight` | list, probe, upsert, delete | passes overlap, one router with itself and several with one another; what a pass has read is old when it writes | it never touches the scheduler's counts; a failing list does not wipe the fleet; the table converges to the cluster |
| scale-up signal (`adapters/keda.ts`, `metrics/`) | `scale_signals` | debounced signal, metric | shared by routers, read by polling | demand is seen until it is served |
| model registry (`registry/`) | `model_registry`, overrides, cost config; verdicts on upstream names in memory | sync at start, override, merge, check of upstream names | routers start with different lists and sync statement by statement; deletes cascade; passes of the check overlap | the registry is the whole of one list; an edit is lost only with its model; the dashboard comes to say what is so |
| model selection (`routing/`), the body sent upstream (`adapters/llama-swap.ts`) | none | capability match, complexity, choice; default prompt, merged system role | every combination of shape, name and registry | a model that can do what is asked; the caller's instructions reach it, and no others |
| backend client (`adapters/llama-swap.ts`) | a partial stream | parse the event stream, class a refusal | reads end anywhere in a frame | what the backend said is what the caller gets, once and in order |
| audit (`audit/`) | scopes, content, rows | scope resolution, content capture, retention, listing | the scope is switched while it is read; retention deletes under running requests; pages shift while they are read | content only under an enabled scope, and with its row; a listing read to its end missed nothing |
| cost (`cost/`) | cost config | compute, breakdown | rounding | |
| caller authentication (`auth/`, `http/auth-middleware.ts`) | cached keys | verify, fetch keys | key rollover, a shared fetch, a cooldown | a good token is refused only for want of its key, and not for long |
| log tail (`logs/`, `http/routes/logs.ts`) | an open stream, the redactor's block | attach, parse, redact, close | closing races attaching; two formats; a block stays open across lines | no stream outlives its viewer; content is masked and nothing else |
| token broker (`src/tools/token-broker/`) | a credential file; one shared refresh | current token, forward, login | rotation; one refresh for many callers; the process and the login may stop at any statement | a spent token is not used again by who reads the file as it is; every call ends |
| dashboard API and web application (`http/routes/dashboard.ts`, `src/src/`) | a session cookie, the cookies of a flow; switches and forms on open pages | sign-in; logging switches; the override form; proxying | tabs, links opened twice or elsewhere; writes that overtake one another | only an admin who began the flow here is signed in, once per code; a switch shows what is stored |
| traffic simulator (`sim/`) | requests in flight, a report; rows made up | live traffic, backfill | an interrupt while the driver waits for room; others delete meanwhile | load as configured, every request counted; a history that is whole |

Components meet in the database. The lifecycle calls placement, which takes a
slot by an `UPDATE` of `replicas`; `completeRequest` or `failRequest` gives it
back by the replica's id. The reconciler writes the other columns of the same
rows and inserts and deletes them; the registry's sync deletes them by a
cascade. The sweeps write rows of `requests` whose handlers may be at any
`await`, and never touch a slot: a handler that still lives is expected to.

The other components touch that machinery at one point each: authentication
before a request is enqueued, selection when it is, the backend client while it
streams, the audit when it is complete. The dashboard reaches the router through
a proxy (`src/src/app/gateway/`) that passes on a viewer's disconnect and does
not abort writes; the broker is a client of the gateway like any other.

## Modules

* `SlotLedger`: what the scheduler promises about slots and nothing else. A
  request takes one slot of a replica below its ceiling and gives it back once,
  and the count kept is the number of holders.
* `RequestLifecycle`: the detailed specification of the request lifecycle, for
  the requests of one backend. It implements `SlotLedger` (`Ledger`,
  `SlotsKeptAsPromised`) when the faults that can happen lose no slot.
* `Fleet`: the replica table under overlapping reconcile passes, claims and
  releases, syncs of the registry, and a cluster that changes.
* `Placement`: which replica `placeRequest` chooses, what it records of the
  choice, and the demand KEDA is shown.
* `TokenBroker`, `CallerAuth`, `SignIn`, `LogTail`, `AnswerStream`, `Routing`,
  `ContentAudit`, `Catalogue`, `UpstreamCheck`, `Reports`, `LiveTraffic`,
  `Backfill`: one part each, described below.
* `MCLifecycle`, `MCFleet`, `MCPlacement`, `MCServices`: instances for TLC. The
  last composes the twelve parts just named.
* `InOrder`: some of the places of a sequence, one after another, as a loop that
  passes over the others visits them. `AnswerStream`, `Backfill` and `Routing` use
  it where the code filters a list.
* Theorems and their proofs: `RequestLifecycleProofs`, `FleetProofs`,
  `PlacementProofs`, `CatalogueProofs`, `TokenBrokerProofs` of the module each is
  named after; `AccessProofs` of `SignIn` and `CallerAuth`; `AuditProofs` of
  `ContentAudit` and `Reports`; `TrafficProofs` of `Routing`, `AnswerStream`,
  `LogTail`, `LiveTraffic` and `Backfill`.

`RequestLifecycle` abstracts the whole fleet to three things (`inFlight`,
`ready`, `registered`); `Fleet` has the fleet in full and abstracts the
handler between the claim and the release. The two share the statements on
`replicas`: `Claim`, `Release`, the upsert's `status`, the sync's cascade.
`Placement` has the choice the other two leave open, and takes from them that a
slot claimed is given back. It implements `SlotLedger` too (`Ledger` and
`SlotsKeptAsPromised` of `Placement`): while its row is there a replica's load is
its `in_flight`, and of a replica that was scaled away, whose count is gone, those
still on it.

### RequestLifecycle

One action is the code of a handler from one `await` to the next. `pc[q]` names
the `await`: `waiting` (the poll loop of `waitForPlacement`), `claimed` (slot
taken, row not marked), `started` (row marked, the `affinity_hit` update under
way), `streaming` (reading the backend), `settling` (cost lookup, usage and
`completeRequest`), `auditing`, `failing` and `releasing` (the two statements of
`failRequest`), and how it ended. `slot[q]` is the handler's
`placement.replicaId`, `replicaId[q]` the column: `completeRequest` uses the
column, `failRequest` the variable. `Kind` tells apart the three handlers,
because their `try` blocks differ: where an exception goes is what `SettleFails`,
`AuditFails`, `AnswerBreaks` and `StartFails` say for each.

Time is two booleans. `overtime[q]` is the router's own clock (the queue
deadline while waiting, `generationDeadline` afterwards); `overdue[q]` is the
database's comparison in the sweep that covers the row. Either may come first.
`MaxTokens` bounds the tokens a backend generates.

`Faults` chooses, for each run, which awaits may fail: a placement query, a
statement after the claim, the start update, the backend, settling, auditing,
a release, a router crash, the removal of the model. Theorems hold for every
choice unless they name one.

### Fleet

`Passes` are the executions of `reconcileReplicas` that may be under way at
once. A pass reads the registry (`todo`), takes one model after the other,
lists its pods (`candidates`; `ListFails` falls back on the table), collects the
probes in any order (`answers`), upserts them one by one, and deletes what it
has not seen (`seen`). `Break` is any statement that fails, or the router; it
leaves the table as it is. `Sync` is `syncModelsFromConfig`, a transaction.
`Claim` and `Release` are the scheduler's statements; `at[q]` is the replica
whose slot a handler holds, whether or not a row is left to count it. A pod's
name is not used again (`retired`), as Kubernetes generates them.

### Placement

A request is a caller who sends one turn after another, with the key of a
conversation or with none (`KeyOf`). `pc[q]` names the statement it is at:
`lookup`, `aimed` (the affinity was read, its replica not yet claimed),
`general`, then `record` before `signal`, or after an affine claim `hitSignal`
before `hitRecord`, as in the code; `placed`, and `committing`, which is
`completeRequest` from its `UPDATE` of the replica to its `COMMIT`. Meanwhile the
row is locked and `SKIP LOCKED` passes over it (`Locked`).

A reading (`rate`) is a number up to `MaxRate` or none; `fresh` and `live` are
the comparisons with `THROUGHPUT_FRESH_MS` and `AFFINITY_TTL_MS`, each of which
may turn at any time. `load_pct` and `id` break the last ties; any of the tied
replicas may be chosen. The signal and the polls of KEDA share one clock, up to
`Window`: `Tick` lets at most `PollEvery` pass between the beginnings of two
polls, whose two queries are `PollSignal` and `PollDemand`. `last`, `recent`,
`unseen` and `owed` are history: the properties speak of them and no guard
reads them.

### TokenBroker

`at[t]` is where `currentToken` and the forwarding after it have got to for a
caller, or for the check before the broker listens (`Boot`); `held[t]` is what
`loadState` returned, used after an `await`. `inFlight` is the shared refresh,
`refreshing[t]` how far it is: asked, granted, the file truncated (`writeFileSync`
truncates before it writes), written, failed. `Exit` is the end of the process,
by `die`, by a rejection nothing catches or from outside. The identity provider
is external: it rotates a refresh token when it exchanges one, may revoke one, and
its answer may be lost or garbled. `lost` is history: tokens exchanged for one
that never reached the disk.

### CallerAuth

`check[c]` follows `verifyBearerToken` to its verdict, over the key set
`createRemoteJWKSet` keeps: `cacheAge` is its age (cooling down, warm, old), and
`fetch` the one request that every waiting check shares. `RollKey` and `DropKey`
are the provider's. `sample` is the set the provider put in an answer that may
arrive after it has rolled.

### SignIn

A flow is a state and its verifier, named by a number; `flowCookie` and `session`
are what a browser keeps, and the dashboard keeps nothing. `Callback` compares
the cookies when the request comes in, `ExchangeCode` is the provider's token
endpoint, `Grant` sets the cookies of the answer: between the three anything may
happen in other tabs and handlers. Claims may be missing from a token.

### LogTail

`route[v]` is the handler of `/api/logs`: opening, streaming or none. The close of
a client is seen by the handler if it has attached its listener by then; a tail
opened after that is an orphan. A line is one of the kinds the parser and the
redactor tell apart (`LineKinds`).

### AnswerStream

`sent` are the frames of the backend, `readTo` the halves of frames the client
has read: a read may end in the middle of one, and the client takes each read's
lines by themselves. `forwarded` is what the caller got and `reply` how the turn
was closed.

### Routing

No state of its own: `Ask` chooses a request and a registry, `Route` selects the
model and builds the messages. `SelectionAsPromised` is the reference definition
of the one, `InstructionsKept` of the other. A text is named by the number of the
message it came in with, the operator's default prompt by 0; `Said` are the places
of a list of messages where there is a text.

### ContentAudit

`enabled` is `audit_logging_config`; `knob[s]` what a switch on an open page shows
and `write[w]` the writes under way. `call[r]` is a handler between its answer,
the check of the scopes and the stored content. `lastSet`, `muddled` and `everOn`
are history.

### Catalogue

`syncModelsFromConfig` of each router statement by statement: `done[r]` entries
upserted, then the rows its `DELETE` saw (`doomed`); `wrote[r]` is what its open
transaction has written and so locked. Overrides are set by a form that sends
every field, or by a `PATCH` of one.

### UpstreamCheck, Reports, LiveTraffic, Backfill

The check of upstream names by reconcile passes that overlap (verdicts are kept
in memory); the audit listing read page by page while rows arrive, change and
go; the live driver of the simulator over the demo registry, whose requests are
routed by `Routing`; the backfill in its statements.

## What the runs check

| run | instance | shows |
|---|---|---|
| `lifecycle_faults` | one streamed, one plain and one embeddings request, two routers, one replica with two slots; every fault but a failing audit | `CeilingRespected`, `NoOversubscription`, `SlotsCovered`, `ServedRowOpen`, `AnswerMatchesRow` |
| `lifecycle_exact` | a streamed and a plain request, two replicas with a slot each; failing polls and backends | `SlotsExact`, and the refinement `SlotsKeptAsPromised` |
| `lifecycle_liveness` | a streamed and an embeddings request, one slot; every fault but removal, under fairness | `EveryRowSettles`, `EveryCallerAnswered` |
| `fleet_single` | one pass at a time, two workloads, ceilings 1 and 2 or none reported, two callers | `ClaimsFindRoom`, `ListedRowsStay` |
| `placement` | the turns of one conversation and single requests, two replicas of one slot, no debounce, a poll at least every 1, window 2, under fairness | `QueuedOnlyWhenFull`, `HitsAreReturns`, `FirstRequestsAreSeen`, `EveryReplicaRetried` |
| `fleet_converges` | two overlapping passes, a model taken out and put back, under fairness | `CapacityNeverLost`, `FleetConverges` |
| `services` | the twelve parts below, each by itself, under the fairness of each | the properties of the next table |

| part | instance in `services` | shows |
|---|---|---|
| `TokenBroker` | two callers, the check at start, the login, two grants | `RefreshesAlone`, `ReuseNeedsStaleRead`, `CallsEnd` |
| `CallerAuth` | two callers, a key and its successor | `RefusedOnlyWhenUnknown`, `RolloverPickedUp` |
| `SignIn` | two browsers, two users of whom one is in the admin group, two handlers, two flows, two codes | `SessionsBegunHere`, `OneSessionPerCode` |
| `LogTail` | one viewer, three lines of any kinds, one orphan | `RedactionExact`, `TailReleased` |
| `AnswerStream` | up to two frames of any kinds before the finish reason | `OutputInOrder`, `TurnClosedTruly` |
| `Routing` | three registries, explicit names and `auto`, up to three messages | `SelectionAsPromised`, `InstructionsKept` |
| `ContentAudit` | one request, two switches of the global scope that spell its key differently, two writes | `OneSwitchPerScope`, `ContentAllowed`, `KnobTellsTruth` |
| `Catalogue` | two routers, two readable lists that share a model and one that is not readable, one administrator | `WholeConfiguration`, `EditsOutliveSyncs` |
| `UpstreamCheck` | two passes, one model, two images with other names, or no listing | `VerdictsSettle` |
| `Reports` | three rows, pages of one | `PagesMissNothing` |
| `LiveTraffic` | two at once, three requests | `LoadIsReal`, `TrafficAsExpected` |
| `Backfill` | up to five rows, two to a statement, an earlier row and one of somebody else | `HistoryWhole` |

and five runs that refute what the documentation or a comment states:

| run | refuted | how |
|---|---|---|
| `lifecycle_leak` | `IdleMeansFree` | the embeddings handler has no `catch`: a backend error keeps the slot for ever |
| `lifecycle_double_release` | `NoOversubscription` | an audit write that fails after `completeRequest` gives the slot back again |
| `lifecycle_late_placement` | `QueueTimeoutIsFinal` | `markStreamStarted` has no status guard and reopens a row the sweep has failed |
| `lifecycle_removed_model` | `EveryRowSettles` | the first-token sweep joins `model_registry` and passes over rows of a removed model |
| `fleet_overlap` | `ClaimsFindRoom` | the final `DELETE` of one pass drops a row another has inserted; it returns with `in_flight` 0 |

*Bounds.* Three requests for two slots are the fewest that queue while both
slots are taken, and they are of the three kinds because the handlers differ.
Two routers, so that one can die while the other serves. One token suffices:
the code tells a row with a first token from one without, and nothing counts
them. Two passes, because each pair of passes interacts only through the table;
two pods, so that one row can be written or deleted while the other is not;
reported ceilings 1 and 2, so that a probe can lower the ceiling below the load.
One conversation displaced by one other caller is all an affinity can meet: it
names one replica, which has room or not. One rate is enough, for only fresh
and stale are told apart by the properties. The clock of the signal keeps the
inequality the code depends on, that the window outlasts the debounce and the
polling interval together (0 + 1 < 2 for 1 s + 15 s < 30 s); the theorem is for
every debounce.

The parts of `services` share no variable, so a behaviour of their composition
would be an interleaving of theirs that none can notice; a run per part would
say the same. `part` therefore chooses one of them initially and the others stay
where they begin. Two of whatever races is used throughout: refreshes, handlers
of one link, writes of one scope, transactions of two releases, passes. Two grants
let one be spent while the other is on its way or lost; two keys are a rollover;
three lines are an opener, its content and what ends or follows it; two frames
before the finish reason are a tool call or a text and what was cut; pages of one
row shift with every arrival; two chunks of two rows and a rest are begun and left.
`arrived_at` is taken to be different for each row of `Reports`: the listing has
no other order. `Concurrency` is taken to be positive in `LiveTraffic`: with zero
the driver waits for ever, and its command line defaults to eight.

*Deadlock* is not checked in `lifecycle_faults` and `lifecycle_removed_model`:
once the model is removed and every request has ended nothing is left to
happen. Nor is it in `services`, whose parts stop: a request is routed, a walk
ends, a bound is reached. In every other run replicas may always be probed.

*Fairness.* `RequestLifecycle` assumes that the sweeps go on (`setInterval` of a
router; one that crashes is restarted), that time passes, and that a handler
that lives gets past its own statements. Nothing is assumed of callers or of
backends: `Token`, `AnswerEnds` and `Claim` have no fairness, and `AnswerBreaks`
only once the deadline has aborted the stream. `Fleet` assumes that passes are
started and get to their next `await` (`setInterval` again, and a bounded wait
for each probe). `FleetConverges` is conditional on the cluster, the registry
and the network coming to rest, a fault that makes a pass do what it would have
done anyway excepted. `Placement` assumes that callers go on sending, that answers
end and that a reading grows old if there has been a placement since it was
taken. `EveryReplicaRetried` is conditional on `~Lull`: at low traffic, when all
readings are stale before the next placement or answers are too short to be
measured, ties go by `load_pct` and `id`, and the last replica may stay idle.
What place-request.ts:86-87 says of expiry holds of a fleet that is measured.

In `services` the event loop of the broker runs what is ready, and the provider
and the gateway end what they begin (`fetch` gives up on a server that sends
nothing). A check of a caller runs, the cooldown ends, a caller with a token tries
again, and of the fetches a caller waits for not every one fails (strong
fairness, for each may). Streams of the log are told of a close that the proxy has
passed on. Reconcile passes begin and go on. Fairness is asked of actions of one
part only, which are not enabled where that part stays, so that composing the
parts assumes nothing more. `RolloverPickedUp` is conditional on the token staying
good and its key staying published; `VerdictsSettle` on the world coming to rest
with a ready replica.

Each property of a passing run has a mutant, the definition a plausible mistake
in the code would give, placed above the definition it stands for: dropping the
floor of `in_flight`, an off-by-one in the ceiling, an upsert that resets the
load, a failing list taken for an empty one, a sweep that frees slots its
handlers free too, and so on. TLC refutes the property under it.

## What is proved

For constants of any size, from the assumption each module names: that its
constants have their types (`LifecycleAssumption`, `FleetAssumption`,
`PlacementAssumption`, `BrokerAssumption`, `SignInAssumption`, `AuditAssumption`,
`AuthAssumption`, `ReportsAssumption`, `LogAssumption`), with `Requests` finite, and

* `CatalogueAssumption`: every two lists that can be read have a model in common;
* `RegistryAssumption`: the models of a listing have different ids, as `id` is the
  primary key of `model_registry` (`db/migrations/001_init.sql:4`);
* `BackfillAssumption`: a row the backfill makes up is none of those that were
  there, as ids are drawn (`randomUUID`, `sim/backfill.ts:163`), and a statement
  takes a row or more;
* `LiveAssumption`: `Concurrency` is positive, see above.

A bound (`MaxRequests`, `MaxPrinted` and the like) is any number. The theorems on
types, `TypeCorrect` and those named `...TypeCorrect` in a module about several
specifications, are proved and not run. Every invariant and every action property
of a passing run is stated by a theorem.

* `RequestLifecycleProofs`
  * `TypeCorrect`, `CeilingHolds`, `ServedRowsAreOpen`, `AnswersMatchRows`:
    under every set of faults.
  * `SlotsAreCovered`, `NeverOversubscribed`: if `NoDoubleRelease`, that is, if
    no streaming handler can fail after it has completed. That condition is
    exactly what `lifecycle_double_release` breaks.
  * `SlotsAreExact`, `LifecycleImplementsLedger`: if `Lossless`, that is, if no
    fault falls between a claim and the block that gives the slot back. The
    remaining faults each have a way to lose a slot (`lifecycle_leak` is one).
* `FleetProofs`
  * `TypeCorrect`, `CapacityIsNeverLost`: under any overlap of passes, any
    configurations and any faults.
  * `ListedRowsAreKept`: if passes do not overlap (`OnePass`).
  * `ClaimsAlwaysFindRoom`: if moreover all routers have one configuration
    (`OneConfig`). `fleet_overlap` shows that the first condition is needed.

* `PlacementProofs`
  * `TypeCorrect`, `CeilingsHold`, `WaitsOnlyWhenFull`, `HitsReturn`: for any
    number of callers, conversations and replicas.
  * `FirstRequestsSeen`: for any debounce, window and polling interval, if
    `PollsOften`, that is, if the window outlasts the other two together.
  * `PlacementImplementsLedger`: under any choice of replicas and while they are
    scaled away, a step takes one slot below the ceiling, gives one back, or
    touches none.

* `TokenBrokerProofs`
  * `TypeCorrect`, `OneRefreshAtATime`, `ReuseOnlyWhenStale`: for any number of
    callers and grants, wherever the process or the login is stopped.
* `CatalogueProofs`
  * `TypeCorrect`, `AlwaysOneConfiguration`, `EditsAreKept`: for any number of
    routers, models, lists and administrators.
* `AccessProofs`
  * `TypeCorrect`, `SignedInByOwnFlow`, `CodesMakeOneSession`: for any number of
    browsers, users, handlers, flows and codes, with either, both or no check
    configured.
  * `CallerTypeCorrect`, `RefusedOnlyForWantOfKeys`: for any number of callers and
    keys.
* `AuditProofs`
  * `TypeCorrect`, `SwitchesAreOne`, `ContentKeptAsAllowed`, `KnobsTellTruth`: for
    any requests, teams, models, switches and writes.
  * `ReportsTypeCorrect`, `ListingMissesNothing`: for tables and pages of any size,
    whatever arrives, changes or is deleted between two pages.
* `TrafficProofs`
  * `RoutingKeepsPromise`, `InstructionsReachTheModel`: for any registry, and for
    conversations of any length and any roles.
  * `AnswerTypeCorrect`, `OutputKeepsOrder`, `TurnsClosedTruly`: for bodies of any
    length, wherever reads end.
  * `LogTypeCorrect`, `ContentStaysMasked`: for any number of viewers and lines.
  * `LiveTypeCorrect`, `LoadKept`, `MixAnsweredAsBuilt`: for any load and number of
    requests.
  * `BackfillTypeCorrect`, `HistoryIsWhole`: for histories and statements of any
    size, whatever others delete meanwhile.

*The argument for the lifecycle.* `SlotKnown` ties the handler's variable to
the row: a handler that holds a slot has one, and from `started` on the row
names the same replica, so the two ways of giving it back agree. `StepEffect` is
the one case split over `Next` that slots need: each step takes a slot below the
ceiling for one request, gives one back, loses one (the handler ends, the count
stays), removes the model, or touches no slot. From it the counting invariants
follow by `TakesCounts` and `GivesCounts`, which are about cardinalities. The
claim `SlotsCovered` is not inductive for oversubscription once the model may be
removed, since `in_flight` is then gone: `HoldersFit` bounds the holders
themselves, and `RemovedHasNoRoom` keeps claims away. `RowFollowsHandler` says
what each row may be at each `await` and gives `ServedRowOpen` and
`AnswerMatchesRow`.

*The argument for the fleet.* A row counts at most its holders: claims add one
to both, releases take one from both, everything else removes a row or inserts
it with zero (`CountStep`). For a single pass, `KnownPods` says that a row and
anything a pass has in hand is of a pod that is or was listed, and
`RowsAccounted` that every row of a listed pod is either seen already or will be:
its model is still to do, or its probe is in hand. A final `DELETE` therefore
finds such a row seen. `SlotsCounted` adds that a row that is there counts all
its holders, and that a pod whose row is gone was retired with it (`GoneStays`),
so that no row comes back with 0 while a request is on its replica.

*The argument for placement.* Only requests with a key reach the statements of
the affinity (`Keyed`, needed for the types of the table). `Remembered` says what
the table holds for a conversation with one sender at each statement: between a
claim and its record the slot is where the last turn is, otherwise the row is,
or there is none. `SeenInv` bounds the age of a signal that no poll has begun
after by the debounce plus the time since the last beginning, so that the next
poll reads it as fresh; before the signal is given the row is still queued.

The ledger needs `SlotInv`: a handler has a slot from its claim to the end of its
answer, and a replica that is there counts its handlers. `SlotStep` is the one case
split over `Next` for slots, as `StepEffect` is in the lifecycle; `HeldTaken` and
`HeldGiven` count. The floor of `in_flight` at zero is never reached by a release of
a replica that is there, so a return takes exactly one.

*The argument for the broker.* `Refreshers` and `RefreshesAlone` are shown together
with the types (`BaseInv`): who refreshes waits, with an issued token, and
`inFlight` names it, so that nobody waits when it is cleared. `SpentInFile` says
how a spent token can still be in the file: its replacement is granted and not yet
stored, or it is lost. It needs `ReplacementUnspent`, and for the login, which
writes the same file unasked, `LoginUnspent`: its token is known to nobody until
it is stored. A refresh begins only where none is under way, so the first case is
out and the second is what the property says.

*The argument for the registry.* `WroteInv` says what a transaction has written,
`LockInv` that a row has one writer. Two transactions that have upserted all of
their lists would both have written the model the lists share (`OneIsThrough`),
so between the `DELETE` of one and its commit no other commits, and the rows the
`DELETE` saw are the rows there are (`DeleteInv`). Without a common model two
routers could leave a mixture; the assumption names that. A commit thus leaves
exactly its list (`CommitLeavesList`), and nothing else writes the registry.

*The argument for sign-in.* `BegunInv` carries the browser of a flow from its
cookies to the callback and to the session, and the claims from the token to the
verdict. `ExchangedOnce`: a code that can still be exchanged has led to nothing,
and one handler at most has it between the exchange and the answer.

*The argument for content.* `StoredAsSaid` holds of every scope because two scopes
are stored as one exactly if they are meant as one (`SameRowSameScope`).
`ContentInv` then follows the request: a scope that is on while it runs puts it
in `everOn`, and a check that succeeds does so by such a scope. `Truthful` is what
makes a switch's knob inductive: unless writes of its scope overlapped, there is at
most one under way, its own, the knob shows what that is to set, and the stored
value is the opposite until it has been applied; then either answer leaves both
alike.

*The argument for the listing.* `WalkInv` counts: of the rows that matched all
along and are before the present offset, so many at most have not been shown as
have left the listing since the walk began. The newest come
first, so an arrival, or a row that comes to match, pushes rows past the offset and
pulls none before it; a deletion takes from the end; a row whose status leaves the
listing pulls at most one before the offset, and is counted; and a page shows all
from one offset to the next.

*The argument for callers* is local to a step once it is known that a check moves
by itself or with all that wait (`OthersStay`).

*The argument for selection.* What is chosen depends on the request and the listing
alone (`RouteInv`), so the lemmas `AutoPromise` and `ExplicitPromise` are about
operators: the first of a set of places is one of them, and of a class if the class
has any; a name stands for one model because ids are keys. `LiveTraffic` applies the
same lemmas to the demo registry (`MixIsRight`): no request of the mix is refused but
those that are built to be, and what a request is answered by is of its class.

*The argument for the body.* The list that is sent is the caller's, or that with the
operator's default before it; in both the i-th message has the text i, or one less,
or none (`Numbered`). `Tells` says what is to be kept of such a list: every text,
nothing else, the instructions and the conversation each in their order. A list
tells itself; a merged one does because a filter keeps the order of what it keeps
(`InOrderProperties`) and `Folded` says where each text of either filter has gone,
into a turn of its own (`OwnTurnFolded`) or before the text of the first user turn
(`FirstTurnFolded`). That no text is there twice follows from the order.

*The argument for the answer.* What the reads up to a place have brought whole are
the frames before it that were not cut (`Heard`), and what was forwarded is the
output among them, ascending. A read adds the frames of its own, which come after
all those: `AscendingConcat`.

*The argument for the log* is that the redactor's one bit is the right one.
`Dump` (in `TrafficProofs`) defines from the lines since the connection was opened
whether a block is open; `LogInv` says that the bit of each open stream is that,
and that what it has shown is what should be. It needs that the tail never runs
ahead of what is printed.

*The argument for the simulator.* `LiveInv` has the tally count every ticket that
is settled once, and the load at most `Concurrency`, exceeded by nothing: after an
interrupt one request more may be begun, by the driver that was waiting for room, and
then it waits no longer. `BackfillInv` has what each statement of the run has left
behind: rows sent are stored or were deleted, and content is there with its row.

*Only model-checked*: all liveness properties (`EveryRowSettles`,
`EveryCallerAnswered`, `FleetConverges`, `EveryReplicaRetried`, `CallsEnd`,
`RolloverPickedUp`, `TailReleased`, `VerdictsSettle`), which are beyond the prover,
and the refutations, which are behaviours of one instance.

## Where text and code disagree

The five refutations above are runs. Others were met on the way and are modelled
as the code has them:

* `controldeck-token-broker.mjs:233` says that a caller that goes away stops the
  generation; the broker goes on reading the answer to its end (`StreamEnds`).
* `values.yaml:5` says that Helm always wins; an override wins over Helm's value
  when a model is read (`registry/merge.ts`, `Merged`).
* The dashboard offers to delete "the last" days of history; what is deleted is
  what is older (`DeleteAuditHistory`), rows of running requests included.
* `routing/` answers `model_not_found` for a name that is not registered, where
  the comment of `sim/build-request.ts:149` expects `capability_mismatch`.
* `llama-swap.ts:183` puts the system role into the first user turn; if that turn
  has an image, it becomes the text of its JSON (`MergeSystem`).
* The backfill may give a row that timed out in the queue an end in the future
  (`sim/backfill.ts:169`), and `--reset` deletes what the live driver asked too.

## What is not modelled

* In the lifecycle: a client that disconnects (the handler goes on to the end of
  the answer), an answer to `COMMIT` that is lost, `error_code`, `duration_ms`
  and the other columns no decision reads.
* In the fleet: CPU, memory and restart figures, `load_pct`, and registry entries
  that share a workload (`backendModelId`).
* In placement: how the key of a conversation is derived, failures between a
  claim and its release (they are in `RequestLifecycle`, which in turn lets a
  claim choose any replica with room), the moving average itself (a new reading
  may be any), rows locked by anything but `completeRequest`.
* In the registry: the cost config, which has the shape of the overrides, and
  columns no reader merges.
* In the backend client: `embed`, `checkReady`, the fake adapter. In the log tail:
  the bytes of a line, and a line cut between reads. In authentication and
  sign-in: cryptography (a token names its key and its flaw), the demo session.
* In the audit: the key scope, which no handler asks for, and the CSV export,
  which like the key figures of the page covers the entries loaded.
* Cost and usage: one product of a row's figures and aggregate SQL over rows that
  are finished; no steps, and nothing to relate that the code does not compute in
  one expression. Scaling status only reads.
* Pages that render, the migrations and the seed (one-shot statements; the seed's
  registry is in `LiveTraffic`), charts and end-to-end tests. The mock services are
  the environment of `AnswerStream`, `LogTail`, `SignIn` and `CallerAuth`, without
  their fault controls.

## Plan

1. *Done*: `SlotLedger`, `RequestLifecycle`, `Fleet`, `Placement`, their runs and
   theorems.
2. *Done*: the other components, a module each, in the run `services`, and proofs
   for those whose properties are of steps rather than of data.
3. *Done*: the refinement of `SlotLedger` by `Placement`, and a theorem for every
   safety property that is run.
4. Left: the disconnect of a client in the lifecycle; entries that share a workload;
   that `Fleet` keeps the ledger while passes do not overlap.
