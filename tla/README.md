# Railway bridge defect priority: a verification project

TLA+ specifications of the bridge defect platform, its server and its web
client, the TLC configurations that check them on small instances, and TLAPS
proofs of their main theorems. Paths are relative to `src/`; `backend/` stands for
`backend/internal/` where no other directory is given.

## 1. Inventory

### The system

A Go service (Gin, GORM; PostgreSQL, MySQL or SQLite; Redis if configured) keeps
four kinds of records behind a JSON API and a Vue application shows them. Every
HTTP request is served by a goroutine of its own. There is no lock and no shared
memory between handlers, the rate limiter's map excepted: handlers meet in the
database only, statement by statement, and a request is a *sequence* of
statements of which only some share a transaction.

| Component | State | Operations | Correct when |
|---|---|---|---|
| Priority decisions (`service/`, `repository/`, `handler/priority_decision.go`) | `priority_decisions` (current row, version, preparer, soft delete), `priority_decision_revisions` (append-only) | create, update draft, transition (finalize), delete, get, list | the history is complete and append-only; a final decision never changes; the finalizer is an independent reviewer; answers are durable and coherent |
| Bridges, inspections, defects (`service/bridge_asset.go`, ...) over `repository/base.go` | one table each: row, version, soft delete | create, update, transition, delete, get, list | a status moves along its graph only; no update is lost; a version counts the changes |
| Status graphs (`constants/status.go`) | constants | `CanTransition` | unknown statuses are refused |
| Roles (`middleware/auth.go`) | role claim of a token | `RequireMinimumRole`, `RequireRoles` | a guard is never passed by a lower rank |
| Audit log (`service/security.go`, `repository/security.go`) | `audit_logs` | append; list, summary, entity history | truthful, complete, one entry per change |
| Login and session (`service/security.go`, `middleware/auth.go`) | nothing on the server: a signed token | login, authenticate | a token is honoured until it expires, with the role it was issued with |
| Rate limiter (`middleware/ratelimit.go`) | a Redis counter per key and minute; a local map under a mutex | count a request, fall back, clean up | no more than the limit per window and key |
| Startup (`database/database.go`, `cmd/server/main.go`) | all tables | connect with retries, migrate, seed; graceful shutdown | a started server has its demo data and can start again |
| Paging and system reads (`handler/system.go`, `repository/base.go`, `repository/security.go`) | none | list, overview, audits, audit summary | a row that nobody touches is on some page; the parts of a summary agree |
| Configuration (`config/config.go`) | none | parse, default, validate | what is accepted can be run |
| Web client (`frontend/src/stores/factory.ts`, `components/EntityPage.vue`, `hooks/useAuth.ts`, `api/client.ts`, `utils/format.ts`) | the shown list, a pending transition, the session in the tab and in the storage all tabs share | sign in and out, load, create, transition | what was confirmed is what happens; what is offered is accepted; nothing ends silently or never |
| Request context (`middleware/request.go`) | none | request id, headers, log | - |
| Nginx, Compose, MinIO | - | proxy, supervise | - |

### How they interact

* A handler calls its service, the service its repository, the repository the
  database. Services share only the audit log and the pure status graphs.
* Two requests on the same record interact through its row: one loads it, another
  one writes it, and the version the *client* sent decides whose write counts.
* The audit entry of a change is a statement after the change's transaction, so
  a crash, a failing insert or another request fits between the two.
* The rate limiter stands before the authentication of every `/api` route. Its
  counters in Redis are shared by all server processes; the local map is not.
* The web client talks to the API only; it sends the version of the row its dialog
  shows. Tabs share the stored session: each request takes its token from there,
  while the page goes by the session its tab has loaded.
* Server processes meet in the database while they start: each counts and fills
  the tables itself. A supervisor (`docker-compose.yml`) starts them again.

### Hard behaviours

* **Check then act.** Every write is preceded by a read in another statement; the
  check uses the row read, the compare-and-swap the client's version.
* **Whole-row writes.** `Store.Update` and `UpdateWithRevision` write *all* columns
  but id, code, creation and deletion times, from a copy that may be old.
* **Partial failure.** Statements fail one by one; the acknowledgement of a commit
  can be lost; Create and Update ignore a failing audit, Transition and Delete
  report it.
* **Crash.** The process can end between any two statements. What was committed
  stays, what was not is gone, and no request is resumed.
* **Ordering.** Audit entries are inserted in an order of their own; an answer is
  read by two more queries after the change.
* **Answers from several queries.** A list is read page by page and a summary from
  five queries, while rows are written and move to the front.
* **Two copies of one truth.** Roles in tokens and in the users table, graphs and
  ranks in the server and in the client, the session in the tab and in the storage.
* **Starting and stopping.** Retries, restarts, outages, a database that is half
  seeded or emptied, a shutdown with a timeout.
* **Boundaries.** Minutes that change between reading the clock and counting; a
  full map; a code that is free although its record is deleted (it is not).

## 2. Modules

| Module | Models | State |
|---|---|---|
| `StatusGraphs` | the four graphs of `constants/status.go`, `CanTransition` | - |
| `Roles` | `RequireMinimumRole`, `RequireRoles` | - |
| `Answers` | `handleError`: which HTTP answer an error becomes | - |
| `DecisionData` | rows and revisions of a decision, the demo data | - |
| `DecisionLedger` | *abstract*: a decision is its append-only history | `ledger`, `withdrawn` |
| `PriorityDecision` | the workflow, one statement per step | `decision`, `revisions`, `audit`, `req` |
| `RecordData` | rows of the other three tables, the demo data | - |
| `RecordRegister` | *abstract*: a record is a register with atomic edits and moves | `register` |
| `AggregateRecord` | bridges, inspection rounds, defect findings, one statement per step | `row`, `audit`, `req` |
| `RateLimiter` | the limiter: Redis, the local map, the fallback | `now`, `redis`, `local`, `req`, ... |
| `Configuration` | `config.Load` and `Validate` as operators | - |
| `Startup` | `main` and `database.Open` for several processes on one database, their supervisor, outages | `config`, `up`, `table`, `server` |
| `Reads` | lists read page by page and the audit summary, under writes | `stamp`, `client`, `now` |
| `Session` | accounts, tokens, `Login`, `Authenticate` | `account`, `now` |
| `WebClient` | one tab, two calls at a time, with the server behind it; extends `Session` | `stored`, `session`, `item`, `loading`, `error`, `pending`, `call`, `record` |
| `PriorityDecisionProofs`, `PriorityAnswersProofs` | proofs: the decisions' tables; their answers and audit log | |
| `AggregateRecordProofs`, `AuditTrailProofs` | proofs: the other records; what their audit log retells | |
| `RateLimiterProofs`, `StartupProofs`, `WebClientProofs`, `ReadsProofs` | proofs about the module of the same name | |
| `MCPriorityDecision`, `MCAggregateRecord`, `MCRateLimiter`, `MCStartup`, `MCReads`, `MCWebClient` | instances for TLC | |

`PriorityDecision` and `AggregateRecord` refine `DecisionLedger` and `RecordRegister`;
`WebClient` composes the session, the status graphs of both sides and a record that
changes in single steps. That these are the steps the services are shown to look like
is a refinement too: for bridges, rounds and findings `WebClient` implements
`RecordRegister` as well (`registered` maps its record to a row), and its other clients
may do whatever the register allows but remove the record (`OthersAreFree`).

### Correspondence to the code

**Steps.** `req[p]` is the goroutine of request `p`; its `pc` names the statement it
runs next. Everything a handler computes between two statements belongs to the
step of the statement before it, since nobody else sees local variables.

| `pc` | Code | Actions |
|---|---|---|
| `idle` | role middleware, parsing, first `Get`, checks in the service's order | `Create`, `Update`, `Transition`, `Delete`, `Get` |
| `commit` | `CreateWithRevision` / `UpdateWithRevision` / `Delete`, or `Store.*` | `Commit`, `Refuse` |
| `audit` | `AppendAudit` | `WriteAudit`, `AuditFails` |
| `row` | row query of the final `Get` | `ReadRow` |
| `revisions` | the preload of the revisions (decisions only) | `ReadRevisions` |
| `done`, `failed` | the answer | `Deliver` |

A transaction is one step: the database gives the row lock of an `UPDATE` to one
writer at a time, re-evaluates the `WHERE` for the next one, and undoes the
transaction when its revision violates the unique index. `StatementFails` is a
failing query, `CommitUnreported` a commit whose acknowledgement is lost, `Crash`
the end of the process.

**Data.** A record is named by its code, which the unique index never frees. Of the
business fields one value is kept (`evidence`, `fields`), with one more for what the
validation refuses. A revision keeps version, status, evidence, actor and request;
the snapshot is a function of the row and is left out. Which account acts matters
to decisions, where it is stored and compared; of the other aggregates it is only
checked against the route's guard. Malformed requests (400) end before the first
statement and change nothing.

**Versions a client sends.** The API promises nothing about where a client got
`expectedVersion`. `Sendable` is therefore a parameter: with `PredictVersions =
FALSE` a client sends versions that exist when the request arrives (what the web
client does), with `TRUE` any version at all.

**Rate limiter.** `Arrive` reads the clock and names the Redis counter; `Increment`,
`IncrementUnreported` and `IncrementFails` are the three ends of the Redis
transaction; `IncrementLocal` is the whole critical section of the mutex.
`admitted` and `refused` are history variables: what each source of counts let
through and turned away, by key and minute. The key is opaque. Left out: the
expiry of Redis counters (two minutes; no increment comes that late), the
response headers, and clocks that step back or differ between processes.

**Startup.** `pc` of a process: `connect` (the loop of twenty attempts), `count` and
`insert` (the two statements of each seeding step, `at` the table), `redis`,
`listening` (requests are served, signals are not caught yet), `serving`, `draining`,
and `down` (the supervisor starts it again) or `stopped` (nobody does). A table is
its three demo rows, taken as one that is visible until the last of them is deleted,
and whether it has other visible rows. `AutoMigrate` can be repeated and is not a
step. A second process that inserts the same demo rows violates the unique index of
their codes and gives up, as the code does; it finds them there when it is restarted.

**Reads.** A row is its id and the time it is sorted by. That time is taken before the
write commits, so rows may tie or appear below newer ones; `Orders` are all orders the
database may choose from. `Find` is one page; its count is left out, since it is a
query before the one of the rows and says nothing of them. `touched` and `left` are
history: rows written and whether one has left since the client began. A failing
query ends in an error and the client asks for the page again. A client that asks for
the summary is the struct `SummarizeAudits` fills in: its fields have the names of
`AuditSummary`'s, and `pc` is the next of the five queries. A failing query ends it
without a summary, which is to take no further step.

**Session and web client.** A token is its user, its role and its expiry; who holds one
cannot change it. Accounts change in the database only (`Administer`), as there is no
operation on users. `held` is history: when an account last had a role. Of a call the
tab has under way, `answer` is what the server has said, and `Heard` adds that it, or
the request, was lost; a list that is cut off after its status 200 leaves an error and
nothing listed (`Listed`). `loading`, `error`, `items` and `pending` are the fields of the
same names. `transition` awaits `load`, whose error it never sees; `op = "reload"` is
that load. The server's `Verdict` lists its checks in order; that they and the write
are one step here is what `AggregateRecord` and `PriorityDecision` justify, and `ImplementsRegister` checks.

## 3. Runs

All runs end within three minutes on two workers. Two requests at a time are enough
for every pairwise race and symmetry makes them interchangeable; a request id is used
again after its answer, so longer sequences of requests are covered too, up to the
version bound.

| Run | Question | Bounds |
|---|---|---|
| `PD_faulty` | finality, separation of duty, durable and coherent answers, truthful audit, append-only history, inductive invariant and refinement of the ledger under faults | 1 seeded decision, 3 roles, 2 requests, versions up to 3 |
| `PD_free` | creation, racing creations, re-use of a code; complete history and audit; ledger; a finalization reaches the audit log | 1 free code, two evidence values, no faults, fair scheduling, versions up to 2 |
| `AR_bridge` | no lost update, durable answers, refinement of the register, inductive invariant | 1 seeded bridge, faults, versions up to 3 |
| `AR_trail` | creation, deletion, writes to deleted rows; every write follows the graph; the audit log retells a record | 1 free defect finding, no faults |
| `RL_windows` | limit, no early refusal, bounded maps, with Redis failing, replies lost, restarts | 2 processes, 3 keys, cap 2, limit 2, 2 minutes, 5 arrivals |
| `ST_start` | seeding, coming back, stopping, configuration | 2 servers, 16 environments, 2 attempts, 2 changes, 2 faults |
| `RD_reads` | paging and the audit summary under writes, inductive invariant | 4 rows, sizes none/largest/too large, clock up to 3 |
| `WC_tab` | confirmed is applied, offered is accepted, recent roles, no silent end, loading ends, refinement of the register, inductive invariant | 4 pages, 2 accounts, 2 calls, versions up to 3, 4 events |
| `PD_delete_race`, `PD_predicted_version`, `PD_audit_lost`, `ST_emptied` | the findings of section 6 | each violates its one property |

Version 3 is the first at which a decision can have been drafted, amended and
finalized, and at which one request can overtake another that overtook a third.
Versions are capped by what clients may send (`0..MaxVersion-1`). One record per run
is enough because no step of the code reads two records. A limit of 2 with a cap of 2
and three keys makes the maps overflow with and without stale buckets; five arrivals
pass the limit of one source and reach another.

`ST_start`: two faults are a crash during a crash or an outage during a restart; two
changes delete the demo row of a table that has another row, or create and delete one.
Two attempts stand for twenty: the first that fails and the last. `MayEmpty = FALSE`
keeps the last visible row of a table from being deleted; without that `ComesBack` is
false, which is finding `ST_emptied`. `RD_reads`: sizes 1 and 2 with four rows give up
to four pages and a last one that is full or not. `WC_tab`: four events are, for
example, two loads and a transition confirmed twice, or a login, an account that is
demoted, a tick and a request; closing dialogs, signing out and other users' changes
are not counted. The bounds are `MaxVersion`, `MaxWindow`, `MaxArrivals`, `MaxChanges`,
`MaxFaults`, `MaxClock` and `MaxEvents`. `CHECK_DEADLOCK` is off in `RL_windows` and
`RD_reads` only, where time and work are bounded and end; in the others something can
always go on or begin.

**Each property is shown to depend on the code**: for each of them the modules hold
a faulty version of an operator (named after it, marked "Fault"), and the property
fails when that version replaces the operator.

For decisions and clients that send versions they were shown, two guards of the code
are redundant with each other: the unique index on (decision, version) stops a second
writer even without the version comparison, and the other way round. A client that
predicts versions shows the comparison to be needed: what the invariant, the append-only
history and the separation of duty say of such clients is proved (section 4).

### Fairness

* `PD_free` assumes weak fairness of each goroutine's next statement (`Step(p)`): the
  Go scheduler runs every runnable goroutine, and without faults the database answers.
  It assumes nothing of clients and nothing of `Deliver`. With faults the property is
  false, which is finding `PD_audit_lost`.
* `ST_start` assumes that the main goroutine of a process goes on (`Step(s)`), that the
  supervisor starts what went down by itself ("unless-stopped"), and that an outage
  ends. It assumes nothing of handlers, which may hang (so a shutdown has to end without
  them), of signals, or of who starts a stopped server.
* `WC_tab` assumes that every call ends, with its answer or an error: when the server does
  not answer, the read timeout of the Nginx in front of it (`frontend/nginx.conf`; the
  default, as none is set) ends the call. Go's own `WriteTimeout` would not end a handler
  that hangs. It assumes nothing of the user or the server.

## 4. Proofs

`tlapm` checks every proof. They hold for every set of users, codes, requests,
records, processes, servers, environments, keys, calls and rows, and for every bound;
the assumptions on the constants are the named `ASSUME`s of the modules and nothing
else. Those assumptions say that sets are of the right kind and bounds are numbers,
that an absent value (`NoItem`, `NoToken`, ...) is none of the values it stands in for,
and that a table has finitely many rows (`Id`).

Every safety property of the passing runs is a theorem. Each rests on an
inductive invariant, called `IInv` in each module, which TLC checks in one of the runs
(as `IInv`, or through the properties it is made of) and `Invariance` proves.
Some theorems have a hypothesis, which is always a condition on what the environment
does and never on the code: `~PredictVersions`, clients send versions they were shown;
`~Faults`, no statement fails, no acknowledgement is lost and no process crashes.
Without it each of them is false, as the findings show.

| Theorem | Says | For |
|---|---|---|
| `SeparationOfDuty`, `HistoryIsComplete`, `HistoryIsAppendOnly` | `IndependentReview`, `RevisionChain`, `AppendOnly` | all behaviours |
| `FinalDecisionsAreImmutable`, `WorkflowImplementsLedger` | `FinalIsLast`, `ImplementsLedger` | `~PredictVersions` |
| `AnswersAreDurable`, `AnswersAreCoherent` | `AcknowledgedIsDurable`, `AnswerIsCoherent` | all behaviours |
| `AuditTellsTheTruth` | `AuditIsTruthful` | `~PredictVersions` |
| `AuditMissesNothing`, `FinalizationsAreAudited` | `AuditIsComplete`, `StatusChangesAudited` | `~Faults` |
| `AnswersAreDurable` (`AggregateRecordProofs`) | `AcknowledgedIsDurable` | all behaviours |
| `NothingIsLost`, `StatusesFollowTheGraph`, `AggregatesImplementRegister` | `NoLostUpdate`, `StatusFollowsGraph`, `ImplementsRegister` | `~PredictVersions` |
| `TheLogTellsTheRecord` | `AuditRetellsTheRecord` | `~PredictVersions`, `~Faults` |
| `LimitIsKept`, `RefusalsAreDue`, `MapsAreBounded` | `WindowLimit`, `NoEarlyRefusal`, `TrackedIsBounded` | all behaviours |
| `ServersAreSeeded`, `DeletedDataStaysDeleted`, `AcceptedConfigurationsAreUsable` | `ServingIsSeeded`, `DeletedStaysDeleted`, `AcceptedIsUsable` | all behaviours |
| `ConfirmedHappens`, `OffersAreAccepted`, `RolesAreRecent`, `NothingIsOverUnseen` | `ConfirmedIsApplied`, `OfferedIsAccepted`, `RoleIsRecent`, `OverIsShown` | all behaviours |
| `EntriesAreLostInThreeWays` | without its entry a finalization is left by a crash, a lost acknowledgement or a failing insert only | all behaviours |
| `ServerImplementsRegister` | `ImplementsRegister` (of `WebClient`) | all behaviours |
| `NothingIsSkipped`, `PartsAddUp` | `UntouchedIsListed`, `SummaryAddsUp` | all behaviours |

**Priority decisions, the tables** (`PriorityDecisionProofs`). `TablesInv` is the
conjunction of
* `TypeOK` and `RevisionChain` (one revision per version, the newest agrees with the
  row): preserved because a commit writes row and revision in one transaction;
* `DraftAuthors` and `IndependentReview`: a final revision's author differs from the
  preparer *now*, because the preparer never changes, and wrote no draft, because
  drafts are the preparer's or an administrator's;
* `LoadedRowIsPast`: the copy a handler holds is a past state of its row, so equal
  versions mean equal contents. This is what makes check-then-act sound: the
  compare-and-swap succeeds only if the row is still the row that was checked;
* `LoadedRowIsChecked`: what the checks established of the copy;
* `FinalIsLast`, under `~PredictVersions`: then the version sent is not beyond the
  version loaded, a successful swap means that it equals it, and the status that was
  checked is the status that is overwritten.

The refinement maps `ledger <- revisions`; each step is a step of the ledger or a
stutter.

**Priority decisions, answers and audit** (`PriorityAnswersProofs`). `IInv` adds what a
request that has committed may still say. `WorkIsKept`: from its commit on, its revision
is in the history (`HasWritten`), from its audit on also its entry (`IsAudited`), and the
row it shows is one the history reaches (`Reflects`). Both can be established once and
never lost, because the history and the log only grow (`HistoryIsAppendOnly`). An entry is
written after the commit it tells of, from the copy loaded before it: `AuditIsTruthful`
therefore needs `NextEntryIsTruthful`, that the entry about to be written is already true.
`AuditIsComplete` is a count. The lemmas show of each step how the number of entries, of
requests about to write one, and of revisions change by at most one and together;
`IsCountable` keeps the sets finite, which cardinalities are of no use without.

Four theorems say how far the findings of section 6 go. `EntriesAreLostInThreeWays`:
a step that leaves a finalization without its entry is a crash, the lost acknowledgement of
its own commit, or the failing insert of its own entry; no other statement and no other
request can do that, because the request that made it does nothing else before it writes
the entry (`IsRetold`, which remembers of a final revision the request, the actor and the
decision). So without faults none is lost (`FinalizationsAreAudited`). `FinalsAreDeletedInRacesOnly`: a
final decision is deleted by a request that has read it as a draft, or not at all, whatever
clients send and whatever fails. `NotFoundMeansDeleted`: a 404 after the commit does not
mean that nothing was done, but that the change is in the history of a decision that was
deleted meanwhile.

**Bridges, inspections, defects** (`AggregateRecordProofs`). The same argument without a
history: `LoadedRowIsPast` and `LoadedRowIsChecked` for the copy, `WriteIsKept` for what
was written: the row has at least the version that the request wrote, and if it has just
that version it says what the request wrote. So a write that is accepted replaces the row
that was read (`NothingIsLost`) and its status is the one that was checked
(`StatusesFollowTheGraph`), and every commit is one step of the register (`register <- row`).
`AuditTrailProofs` counts: `Tells(e)` is what an entry says (the record changed; it
entered a status; it left one), and a commit adds one to what is told by requests about to write
their entry, which `WriteAudit` moves over to the log. The first status of the walk is
named once and never changes, so the equation holds after each step if it held before.

**Rate limiter** (`RateLimiterProofs`). `Invariance` proves that every local source has
let through exactly what its bucket of the current minute has counted, cut off at
the limit, nothing in the future, and that Redis has counted at least what it let
through (exactly that when no reply is lost). `LimitIsKept` and `RefusalsAreDue`
follow. Cleaning up keeps the count because it drops buckets of past minutes only.
`MapsAreBounded` needs that the tracked keys are finitely many (`MapInv`): a map at its cap is
cleaned of all past minutes before a key is added.

**Startup** (`StartupProofs`). `Invariance` proves `IInv`: types; no record but the demo
rows is ever the first of its table; a process that is at a table has seen to all before
it, one that is past the seeding to all of them. Seeing to a table means finding a
visible row, which is or follows a demo row, or inserting the demo rows; and a table that
has had demo rows once keeps them, visible or deleted (`Grows`), whichever process does
what in between. So `ServersAreSeeded` and `DeletedDataStaysDeleted` follow for any number
of servers, crashes and outages. `AcceptedConfigurationsAreUsable` holds for every
environment: defaults replace what does not parse or is not positive before `Validate`
looks at it.

**Web client** (`WebClientProofs`). Everything the tab knows was true once: `IsPast` of the
listed record and of the dialog (an equal version means an equal record), `IsIssued` of
every token (its role was held until its login), `IsOffered` of what a dialog asks for.
These survive whatever other tabs and clients do because versions and times only grow. A
call under way carries them along (`CallInv`): `IsConfirmed` ties what a transition sends to
what its dialog said, so that a server that finds the expected version has before it the
very record that was shown; `IsAfter` says that the load after a transition sees a newer
record than the dialog did. `OffersAreAccepted` is where the client's copies of graphs and
ranks are compared with the server's, case by case. `ServerImplementsRegister` goes through
the steps that change the record: each adds one to its version and keeps the status or
moves it along the graph (`RecordSteps`), thus is an edit or a move of its row.
`OthersAreFree` is the other direction: an edit or a move is something `Others` may do.
Together they say that the tab is checked against the very environment the services give
it: no step is hidden between the two models, and none but the removal is missing.

**Reads** (`ReadsProofs`). `UnseenIsAhead`: a row not seen yet, that nobody touched, has at
least as many rows above it as the pages read so far hold. Reading a page either finds
it or leaves at least a page more above it, so that a page that is not full cannot come
before it is found; a write adds to what is above it and takes nothing away. The lemmas
relate places in an order the database chooses (`Orders`) to cardinalities
(`PlaceInOrder`, `PageHolds`). `SummaryIsBehind`: what the summary has counted so far is
no more than there is now, because entries only enter the window it looks at; so each
query finds at least what the ones before it have found (`PartsAddUp`). A sum of counts is
defined as the size of a disjoint union, so that it equals the number of entries by a
bijection (`SumOfCounts`), where a fold would need induction over data.

**Model-checked only**
* Liveness: `FinalEventuallyAudited`, `ComesBack`, `StopsWhenTold`, `LoadingEnds`. It rests
  on fairness, thus on ENABLED, which the prover cannot reason about.
* The four violations of section 6.

## 5. Not modelled

* `middleware/request.go`: the request id is an opaque value, headers and the log line
  are presentation, and a panic that is caught ends like a failing statement.
* The status overview (four independent counts), the echoes of session and runtime, and
  the history of one entity (one query): no two of their steps depend on each other.
* The client's audit page, which loads once, its metrics and badges, and the creation of
  demo records, which takes the course of a transition without a version.
* Signatures, password hashes, the trusted proxies and the address a limiter key is made
  of: opaque values. Formatting, Nginx, Compose (but for the restart policy) and MinIO
  (no code of the repository talks to it), and the contents of business fields.
* Page numbers so large that the offset overflows.

## 6. Findings

1. `PD_delete_race`: `Delete` checks the status of a row it loaded and then deletes
   by id. A finalization between the two is deleted, although
   "final priority decisions are immutable" (`service/errors.go:10`). There is no other
   way (`FinalsAreDeletedInRacesOnly`).
2. `PD_predicted_version`: the status is checked on the loaded row, the version on
   the one the client sent. A client that predicts the version a concurrent
   finalization writes appends to a final decision. By the same gap an *update* of a
   bridge, inspection or defect undoes a concurrent transition; `StatusFollowsGraph`
   and `ImplementsRegister` therefore assume clients that send versions they were shown.
3. `PD_audit_lost`: `README.md:42` promises an audit entry for every status change. A
   commit whose acknowledgement is lost is a failure to `Transition`
   (`service/priority_decision.go:131`): it answers 500 and never reaches the audit, while
   the finalization is durable. This is the run's counterexample. A failing insert of the
   entry and a crash between commit and audit have the same effect; there is no fourth
   way (`EntriesAreLostInThreeWays`).
4. `ST_emptied`: the seeding counts visible rows but the unique index holds deleted ones
   too. When the demo bridges, inspections or defects have been deleted and there are no
   others, no server can start on the database any more (`docker-compose.yml:63`).

Observations no text contradicts: audit entries of the same moment have no order, so
paging may repeat or skip them (`repository/security.go:58`); a tab acts with the token
of the last login of any tab (`api/client.ts:22`); a SIGTERM that arrives before
`signal.Notify` cuts handlers off.

## 7. Plan

1. Creation in `WebClient`, with what a retry after a lost answer does.
2. Removal of the record in `WebClient`, and its decisions as steps of the ledger; the roles
   in `DecisionLedger` would then have to be those of the tokens, which change.
3. An abstract specification of a sliding list that `Reads` implements.
