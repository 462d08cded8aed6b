# Auto_BI in TLA+

Auto_BI turns a dialogue about a data warehouse into a dashboard in Superset or
DataLens. A user talks to an agent, approves a dashboard spec, and a build
thread of the server creates datasets, charts and a dashboard in the BI system
while SQLite rows record what it did. This directory holds TLA+ modules of that
program, TLC configurations that check them on small instances, and proofs the
TLAPS proof system checks for every instance.

## Inventory

| Component | State | Operations | Talks to |
|---|---|---|---|
| `store/db.py` Store | SQLite rows: sessions, specs, build_attempts, builds, bi_artifacts, traces, llm_calls, users | one transaction per method, under one lock | everything below calls it |
| `agent/pipeline.py` build pipeline | none of its own (a thread's locals) | `compile_and_build`, `_commit_delivery`, `reconcile_interrupted_builds` | Store, BI adapter |
| `agent/cleanup.py` prune | none | delete the artifacts of prior revisions after a rebuild | Store, BI adapter |
| `api/app.py`, `api/sessions.py` | registry of `ManagedSession` (status, event buffer, lock), build slots | start, reply, approve, delete, state, events | agent, pipeline, Store |
| `api/ratelimit.py` | sliding windows, strikes, lockouts, stream places | `check`, `acquire`, `release` | – |
| `cli.py` | none | `serve` (startup recovery, then the server), `build`, `auto`, `raw`, `chat`, `prune` | Store, pipeline |
| `adapters/superset` | none; the BI system holds the state | `build`, `reconcile_build_attempt`, `delete_artifact` | HTTP |
| `adapters/datalens` | the same, plus work-in-progress names promoted at the end | the same | HTTP |
| `agent/machine.py`, `propose.py` | phase, clarification rounds, candidate spec | `start`, `reply`, `adopt_spec`, `approve` | LLM, Store |
| `llm/` | usage rows | `complete_with_repair`, `LLMBudget.check`, providers | HTTP, Store |
| `ir/`, `semantic/model.py` | none | the spec, `validate_spec`, lookups | – |
| `agent/normalize, dataset_plan, sqlgen, query_plan, sql_guard` | the `PlanCache` of one build | functions of a spec and a model; the gate | warehouse |
| `advisor/`, `agent/autospec.py` | none | rules over plans; the overview of a mart | warehouse |
| `introspect/`, `dmcr/`, `auth`, `eval/`, `web/` | none that outlives a call | catalogue reads, texts, tokens, scoring, browser code | – |

What makes it hard: the process may die between any remote call and any
commit; a remote call may be performed although its answer is lost, or be
performed late; a Store call may raise in the middle of error handling; idle
sessions are dropped from memory and rebuilt from their rows; several
interrupted builds meet one startup; users edit and approve while a build runs;
sessions of one user spend one budget; and what a spec means is decided again
in many places (scope of a filter, alias of a column, whether a LIMIT stays),
which have to agree. The hazards, each at its line, are in `PROJECT.json`.

What makes each part correct: the BI system never holds an artifact nobody
accounts for, and nothing twice (pipeline); one turn and one build per session
at a time, memory equal to rows (API); a resumed dialogue is the lost one
(agent); limits bound what they say they bound (limiter, gate, budget); a
delivered version survives until its successor is complete (adapters); and
what validates can be planned, what is built was gated, charts and controls
name columns that exist (planning).

## Modules

### The life of a build

`BuildStore` – the durable half of a build. One operator per transaction of
`Store`, so a transaction happens whole or not at all. A build token is the
pair of a session and the number of its spec row (`stable_build_token` derives
it from both ids). `builds` rows are kept as what later code asks of them: the
newest status of a token (`row`), of a session (`lastRow`), whether a token has
a failed row (`failedRow`) or a pending one (`pending`). `bi_artifacts` is the
set of kinds a token has live rows for (`ledger`).

`BuildPipeline` – the process around it. `pc[s]` is where the build thread of a
session is in `compile_and_build`; each action is one Store or BI call with the
code up to the next one. `remote[t][k]` counts the objects of kind `k` a token
has in the BI system: datasets are looked up and updated, charts and dashboards
are POSTed and so counted. Every BI call may be refused, or performed with its
answer lost. A Store call may raise at the sites in `Faults`. `mem[s]` is
`ManagedSession.build_status`; `Hydrate` rebuilds it from rows. `Crash` empties
the process at any step, also during recovery. `Boot`, `AbortPrepared`,
`Discover`, `DeleteOwned`, `Cleaned`, `CleanupFails`, `Reconciled`, `Reap` and
`Audit` are the startup of `_serve` in its order, after which the server serves.

`ArtifactOwnership` – the abstract specification: a revision's objects are
written and erased only while the revision is claimed, one claim per session; a
claim ends with all objects in place (held) or none (free); a held revision
loses objects only while a newer one is complete. `BuildRefinement` maps the
pipeline to it. `BuildInvariants` states the inductive invariants; `BuildProofs`
proves what becomes of artifacts, the refinement, and what rows and memory say
of a delivery; `MCBuildPipeline` gives the instances.

`DataLensBuild` – the other adapter's way of not losing a dashboard. `entry` is
the workbook: what is under each scope and name, canonical or temporary
(`__wip`); the workbook refuses a second entry of a name. `op` walks dataset
and widget of each chart, then the dashboard, in the order of `build`; `upto` is
`wip_created`, `made` the ids the build remembers. `Drop` and `Rename` are the
two calls of `_promote_to_canonical`, `Sweep` is `_cleanup_wip`, `Reconcile` and
`DeleteFound` are `reconcile_build_attempt`. A call may be refused, performed
with its answer lost, or, for a create, performed later (`late`, `Land`).
`DataLensProofs` holds the proofs, `MCDataLensBuild` the instances.

### Sessions and limits

`SessionService` – the HTTP side as concurrent threads. `heap` holds the
`ManagedSession` objects, `reg` the objects in the registry `_sessions` and
`older` their insertion order, `ref[th]` the object a handler looked up and
keeps. A request goes through
`_owned` (`Get`: a hit, or the steps of a hydration and the second look at the
registry), takes the object's lock where the handler does (`Lock`), and ends in
one of the handler's answers; `approve` goes on as the build thread
(`BeginBuild`, `MarkBuilding`, `Built`, `Settle`). `slots` is the semaphore
`_build_slots`. `open` holds the sessions whose failed build left an attempt for
the next startup. A stream is on the list it pinned: `follow` if a build had
begun by then, `early` if an approve has yet to reset the events. `KeepPinned`
is what `reset_events` does to the streams of a build that is over.
`Restart` empties memory and reconciles: the session of an interrupted or open
attempt gets its status written over, a tombstone too. How a build ends is
chosen from `Results`: what it does to the BI system is `BuildPipeline`.
`SessionInvariants` states what
the service keeps true of its objects, `SessionProofs` proves the bound of the
slots and the properties of memory; `MCSessionService` gives the instances.

`RateLimits` – the sliding-window limiter and the gate of the event streams.
Time is kept as ages and as what is left of a lockout, so that it may pass for
ever: `attempts` says how many entries of `_attempts` have each age, `granted`
how many requests of that age were let through and are still inside the window,
`idle` is the age of `_last_seen`. `check` is `Refused`, `Strike` or `Admit`,
each with the purge it may begin with; `FloatExp` stands for the 1024 strikes at
which `2 **` overflows a float. The gate's place is taken by the handler
(`Connect`) and given back by the generator (`Close`), which a vanished client
may keep from ever starting (`Vanish`): the place stays taken. A policy is the
login's or a day quota's. `RateLimitsProofs` holds the proofs.

`LLMCalls` – the calls of a turn: the validation loop of a proposal around the
repair loop of one answer around the retries of one request, with the budget
read before every attempt (`Check`) and the row written after it, best effort
(`Log`). `used` and `recent` are what the two ledger queries sum; rows leave the
window (`Age`) and the table (`Sweep`). Answers are classed as `Broken`,
`Invalid` or good, and equal answers are told apart from new ones, because the
loops are. `LLMCallsProofs` holds the proofs.

### The dialogue

`AgentMachine` – the dialogue of one session. A turn is one request; its calls
to the LLM (`pc` in `LlmPc`) and to the Store (`StorePc`) are steps, each of
which may fail. The rows are `said` (user messages), `traced` (trace events of
kind `clarify`), `specs` and `filed` (dm_change_requests per key); the fields of
`AgentSession` have their names. `Lose` is an eviction or a restart, `Restore`
is `_hydrate`. A spec is what it says and its target: `_apply_target_bi`
(`Stamped`) sets the target in memory, the LLM resets it. `known`, `asked`,
`shown` and `built` are what client and build thread have seen. `hurt` says that
a Store call of the object has failed, so rows and object may disagree. A turn
assigns its spec before the advisor reviews it, and the review raises on a
content in `Faulty` (a list under a scalar operator, which validates but has no
SQL): `ProposeRaises` and `PatchRaises` end such a turn, and `strayed` says that
the spec in memory is one no turn has stored.
`AgentProofs` holds the proofs, `MCAgentMachine` the instance.

### From a spec to a dashboard

These modules are functions of a spec and a semantic model, and one state
machine that runs them in the order of the program.

`SpecIR` – the spec and `validate_spec`, each rule a predicate. A name is a
sequence of words (`sum_revenue` is two), so that an alias put together from
parts can meet a name somebody wrote; that is where most of the mistakes live.

`Normalize` – `apply_label_joins` and `apply_chart_defaults`. `DatasetPlan` –
which charts share the source dataset of their mart, what that dataset carries,
which charts a dashboard filter reaches, the filters the advisor adds.

`SqlGen` – the SQL of a chart or source dataset as a record of clauses, not as
text: tables, items with aliases, filters, groups, order, limit, one subquery
level. `Plannable` is what EXPLAIN decides on ClickHouse: every name resolves to
exactly one column or alias, what is selected is grouped or aggregated, an
order names an output.

`SupersetCharts` and `DataLensCharts` – what the adapters make of a spec: the
datasets with or without their LIMIT, chart parameters and configs, native
filters and selectors, scaling by magnitude, the grid. A native filter of the
kind `select` names its dataset column (`target`); a time filter names none, and
a chart moves by the `granularity` of its own form data. `AutoSpec` – the overview
of a mart (`build_auto_spec`).

`Planning` – a spec on its way: `Validate`, then what the user is shown
(`ShowPreview`) or the one-shot paths of the CLI with the advisor's plans in the
cache (`OneShot`, `Operator`), `Normalise` with the second validation, `Gate`
statement by statement through `PlanCache`, `Build` by the adapter. An overview
skips `Validate`, as `adopt_spec` does. The warehouse may refuse any statement,
the trial may or may not see all rows, numbers may or may not reach thousands.
`PlanInvariants` states the properties, `MCPlanning` a warehouse of seven tables
and the proposals over it. `PlanProofs` proves what is built, `StatementProofs`
that statements plan, what a top-N ranks by and what an overview promises.

Four assumptions say what the IR guarantees of its inputs: the columns of a
table are a list in which each has a name of its own, as the warehouse has them
(`TablesAssumption`), the caps of the top-N rules are positive
(`TopNAssumption`), a proposal has the types of `DashboardSpec` and
`ChartQuery` (`ProposalsAssumption`, `IsSpec`: the lists are lists, a viz is one
of ten, a LIMIT is at least one, a chart has SQL or a measure), and a proposal
with the ids of an overview was put together by `build_auto_spec`, from a mart
of the semantic model (`OverviewsAssumption`: the ids mark the overviews among
the proposals; what an edit makes of one is a proposal like any other, under
other ids, since validation looks at it). Nothing is assumed of what names,
joins or filters say: that is what validation is for.

Definitions whose name ends in an underscore and a word, with a comment that
begins "Slip:", are plausible mistakes in the code they stand beside. No
specification uses them; each shows that one property can fail.

## Runs

| Run | Instance | Shows |
|---|---|---|
| `pipeline_faults` | 1 session, 2 revisions, all Store faults, fair threads | nothing is left behind unaccounted for (`OrphanFree`), nothing is created twice, no session stays building after startup, every step is an ownership step (`ImplementsOwnership`), every build ends, a server that stops crashing serves |
| `pipeline_single` | 1 session, 3 revisions, faults at `prepare`, `start`, `success`, `orphans`, `prune_delete` | the newest delivered dashboard stays complete; an approved revision without a delivery can be approved again; eviction and hydration are invisible to the user |
| `pipeline_two` | 2 sessions, 1 revision each, pruning off, an operator who restarts | several interrupted attempts meet one startup, and every attempt is settled |
| `service_races` | 2 sessions, a registry of 1, 2 threads that start, approve and delete, 2 build slots | evictions, hydrations, deletes and restarts in every order: slots bound the builds, a deleted session that nobody handles and that owes no cleanup stays gone |
| `service_quiet` | 1 session, 3 threads that edit, approve and watch, 1 slot, every outcome | without eviction or delete one session is one object: turns are serialised, memory agrees with the rows, a stream that joined a build running or over gets its end, an early one came for an approve under way |
| `dialogue` | 3 contents, one of which the review raises on, 2 change requests, 2 revisions, one lost trace; the LLM, the Store and the process fail at any point | questions are capped also across restarts, a resumed session is the one that was lost and a build stands for the approved row (but for a spec whose turn raised), change requests are filed once, a proposal comes |
| `llm_budget` | 2 sessions of one owner, attempts that cost 1 or 2, every loop bound 1 | a session exceeds its budget by less than one attempt, an owner by at most one attempt per session, requests stay within the product of the loop bounds, every turn ends |
| `limits` | 2 clients under each policy, 2 watchers of 2 sessions | what one window lets through, also around a lockout; a purge drops nothing that could still refuse; every open stream has a place of its own under the caps |
| `datalens` | 2 charts, 2 builds, any failure at any call | a delivered board stays whole until the next promotion, nothing temporary stays, the next build succeeds over any remains |
| `planning` | 4,415 specs over seven tables, both targets | the properties of `PlanInvariants`: below |
| `find_slots`, `find_filters` | as small as the case allows, and the instance of `planning` | where the code breaks what its comments say, below |

`planning` checks that every statement of a valid spec plans and every dataset
built can be planned without its LIMIT (`EveryStatementPlans`); that every
dataset passed the gate (`BuiltWasGated`); that charts name columns of their
dataset (`ChartsBindDataset`); that a chart loses its LIMIT exactly when a
control moves it (`LimitMatchesWiring`); that a control that names a column
names, in each dataset of its scope, the one it was asked for, that a period
moves by its column each chart that has no other time column to move by, and
that the scopes of a board without joins are those of the preview
(`ControlReaches`); that a divisor is applied to the number it was measured on,
from a trial that saw all of it (`MagnitudeIsMeasured`); that tiles are placed
once and disjoint (`GridHolds`); that an overview is buildable, unchanged by
normalisation and on one period throughout (`OverviewHolds`); that a default
top-N ranks by the measure drawn first (`RankedByPrimary`). Where the code is
known to accept what it cannot build, the property says so by name (`Excused`,
`Unbuildable`), and the case is in the list further down.

### Bounds

`MaxRev` bounds how often a user edits. Two revisions give a rebuild
and a prune of the one before; three give a prune of two revisions at once and
a prune after a failed build in between. The sessions of one server share only
the startup, which two sessions exercise; the proofs cover any number. Nothing
else is bounded: crashes, retries and lost answers happen any number of times.
`pipeline_single` leaves out the five fault sites of `UnrecordedFaults`, where a
build ends without a row that says how. With `pending` a delivery is recorded
nowhere, with the consequence described below; with `begin`, `owner`, `failure`
or `status` memory and rows disagree until the next start. The theorems leave
out the same sites, `DeliverySurvives` and `ApprovalRetries` only `pending`.
`pipeline_faults` has all of them.

`Threads` bounds the requests under way, never how many are made. Two threads
and a registry of one are enough for a lookup that an eviction and a hydration
overtake; three threads for two hydrations and a stream. The build slots are as
many as needed for two builds of one session (`service_races`) or for a refusal
at capacity (`service_quiet`). Threads are symmetric, as are the clients and the
watchers of `limits`.

`MaxEdits` bounds the revisions of a dialogue; with two, an older approved row
competes with the newest. User messages are counted up to `MaxSaid`, three: the
request and an answer to each round. `MaxLost` bounds the traces that fail.
`dialogue` does not look for deadlocks: a session whose only round left no trace
stops for good.

`MaxBuilds`, two, gives a build over what another left, with reconciles and late
creates between. Windows and lockouts of `limits` are two to six ticks: what
matters is that the login's first lockout is shorter than its window and the
second is not, and that a quota's equals its window. Ages stop where they make
no difference. With every loop of a turn bounded by one, each is entered, is
repeated and runs out.

The proposals of `planning` hold one chart of every shape and kind of measure
with every kind of control, pairs whose datasets and scopes meet, boards of
three tiles, and the overview of every mart; the warehouse has a label table
reached by two keys, a key without a join, a key to its own table, a column
named as a dataset names the column of a join, and marts without measures, with
and without a time column first in their key. `DefaultTopN`, `PieTopN` and
`TrialLimit` are small numbers in the order they have in the code.

### Fairness

In `BuildPipeline`, `FairSpec` assumes that a build thread keeps running (a
Python thread whose calls have timeouts), that a stopped server is started
again, and that its startup code runs. `RecoverySpec` assumes more about the
environment: an operator restarts a server in which an attempt blocks a session,
and neither the process nor the BI system fails every time. The code cannot
promise that; the liveness of an attempt's cleanup depends on it, as ADR 0002
says. `FairSpec` of the dialogue assumes that the user answers and that neither
the LLM, the Store nor the process fails every time; nothing is assumed of what
the LLM answers: every request may stay unclear. `FairSpec` of `LLMCalls`
assumes that the thread of a turn runs on, because every request to a provider
has a timeout.

## Findings

* `find_slots` – `approve` takes a build slot and looks the session up before
  the `try` that returns it: each 404 loses a slot for good.
* `find_filters` – a Superset chart that reads the source dataset has no WHERE:
  its own `query.filters` are dropped, on a board where no control takes them,
  while the comment at `adapters/superset/adapter.py:770` says that they still
  constrain the data.

Six more statements of the repository are written as formulas beside the
properties, with a configuration each. They are not among the runs: the passing
runs hold what remains true of each, with the exception named.

| Configuration | Module | Refutes | What remains true |
|---|---|---|---|
| `find_revival.cfg` | `MCSessionService` | `TombstoneHolds` | `DeletedStaysGone` |
| `find_streams.cfg` | `MCSessionService` | `EveryStreamCloses` | `StreamHasWriter` |
| `find_patch.cfg` | `MCAgentMachine` | `EditsAreRows` | `BuiltIsStored`, `ResumeLosesNothing` |
| `find_places.cfg` | `MCRateLimits` | `PlacesReturned` | `StreamsCapped` |
| `find_periods.cfg` | `MCPlanning` | `PeriodsReach` | `ControlReaches` |
| `find_scopes.cfg` | `MCPlanning` | `PreviewKept` | `ControlReaches` |

* `TombstoneHolds` – a deleted session whose failed build left an attempt comes
  back: the startup that reconciles the attempt sets the session's status to
  failed whatever it was (`store/db.py:650`), although a tombstone is there "so
  lazy hydration (X-4) never resurrects it" (`api/app.py:515`).
* `EveryStreamCloses` – a client that opens the event stream between
  `agent.approve()` and `reset_events` (`api/app.py:734-738`) pins a list that
  is replaced before anything is written to it: heartbeats for ever, against
  `api/sessions.py:399`.
* `EditsAreRows` – a turn assigns its spec (`agent/machine.py:251`) before the
  advisor reviews it (`341-347`). On a list under `=` or `>=`, which
  `validate_spec` accepts, the review raises (`agent/sqlgen.py:140-141`): the
  edited spec stays in memory without a row although no Store call failed. The
  next approve marks the old revision approved and builds the edited one under
  its token; a restart drops it. `machine.py:215-217` says that each edit is a
  row.
* `PlacesReturned` – a client that vanishes before the generator of its stream
  takes its first step keeps a place until the process restarts: the handler
  takes it (`api/app.py:985`), and a generator that never started runs no
  `finally`, on which `api/ratelimit.py:126-127` relies.
* `PeriodsReach` – a period on a Superset dashboard names no column
  (`targets: [{}]`, `adapters/superset/native_filters.py:230`): a chart in its
  scope that is drawn over a joined time column moves by that one, while the
  header of the file (lines 4-5) speaks of a WHERE by the column's alias.
* `PreviewKept` – label joins come after the preview (`agent/pipeline.py:341`):
  a chart grouped by a key is then grouped by the label, and a control on the
  label's column moves it although the preview said it would not, while
  `agent/machine.py:86-87` says that the built dashboard "never silently
  differs from the preview".

Seen while modelling. These are traces of the models or readings of the code;
each either is left out of a property by name, or is in the reach of an action
no property forbids.

Delivery and recovery:

* `_commit_delivery` reads the session row before its `try` (`agent/pipeline.py:504`,
  fault site `owner`): if that raises, a delivered dashboard is reported failed
  and the next start deletes it, although its docstring says it never raises.
* The prior revision is pruned although the new one could not be recorded; if
  both commits failed (`success`, `pending`), the next start deletes the new one
  too. After a refused chart delete the prune deletes the dataset the chart reads
  (`agent/cleanup.py`).
* A crash between the approve and the build of a second revision leaves a
  session that shows built, is approved, and answers 409 to an approve
  (`api/sessions.py:382`, against `406-408`).
* A handler that looked its session up before an eviction works on the old
  object while another works on the hydrated one (`api/sessions.py:268`).
* A rebuild that fails keeps the `dashboard_url` of the build before it.
* A build may start between the status check of a delete and its tombstone
  (`api/app.py:513`).
* Approving a degraded session again returns the old delivery instead of
  rebuilding (`agent/pipeline.py:297`, `api/app.py:727`), and the startup audit
  repeats a pending ledger after a later rebuild (`store/db.py:865`, `917`).

Dialogue:

* In a DataLens session an edit that changes nothing is announced, and saved, as
  a new proposal: memory carries the session's target, the LLM's answer the
  default one (`agent/machine.py:234-237`, `api/app.py:270-271`).
* A clarification round whose trace failed is not counted after a restart, and a
  session whose only round left no trace is unknown for good, although the
  client has its id (`api/sessions.py:333-337`; `AskUntraced`, then `Lose`).
* When `save_spec` fails, the patched spec stays in memory without a row; an
  approve then builds it under the row, and so the token, of the spec before it.
  When `set_spec_status` fails in `approve`, the session is approved in memory,
  proposed on record, and refuses to be approved until an edit or a restart.
* An answer to a reply that is lost on the way leaves the client with the old
  proposal; `approve` names no revision and builds the new one.
* `purge_retention` deletes the trace events `_hydrate` counts rounds by, and the
  `llm_calls` rows the "all-time" session budget sums (`store/db.py:1250-1288`,
  `llm/budget.py:15`).
* Users with restricted schemas get a deep copy of the model: enrichment edits do
  not reach their open sessions, although `api/app.py:520-521` says agent
  sessions read the same object. `update_table` and `update_column` change the
  model in memory before they write it to disk.

Limits:

* The login's first lockout (30 s) is shorter than its window (60 s): two full
  batches fit into one window. After 1025 strikes `2 **` raises `OverflowError`
  with the strike counted and the attempts not emptied.

Specs the build cannot keep:

* An overview is not validated (`agent/autospec.py:288` says it would pass). A
  mart without measures whose sorting key starts with a time column gets a count
  over it, which `validate_spec` refuses (`ir/validate.py:264`); so it does a
  reference into the base table through a key to itself (`ir/validate.py:200`).
  An expression in a sorting key (`toYYYYMM(date)`) is not a column, and a
  modelled `agg` may be a sum over a column that is not additive. The user
  approves what can only fail (`Unbuildable`). With fewer charts than headline
  numbers the last row may hold several narrow tiles.
  The proof that every other overview validates found three more reasons: a key
  to a column the model does not describe, a grain with no column at all, and an
  axis whose column is named like the aggregate it is drawn with.
* `apply_label_joins` can produce a spec that validation refuses: a measure whose
  label is the label column's name. Two keys to one table become two joins of
  that table (`JoinsTwice`, `agent/normalize.py:252-257`).
* `compare` over a column of another table, or with filters through joins, is
  accepted, but its SQL never joins (`LeavesTable`; `ir/validate.py:413`,
  `agent/sqlgen.py:608`). A list for `=` or `>=` validates and raises in
  `sqlgen` (`ListForScalar`).
* DataLens matches selectors by bare name, so one for `dm.products.name` is
  wired to a chart of `dm.stores.name`. With two marts one native filter has one
  name for all (`name` against `stores_name`) and does nothing on the other.
* `granularity_sqla` on a source chart with a joined time dimension uses the bare
  name (excused in `FormHolds`). Pie, table, pivot and heatmap never carry it:
  what a period does to them is left to Superset and the main time column it
  detects in the dataset.
* Two measures over one described column share a display name, and so a column
  format (`adapters/superset/form_data.py:324-326`). A measure whose raw column
  is an earlier one's alias takes its place in an order (`SharesName`;
  `_order_targets`, `agent/sqlgen.py:164-167`): `sum(qty)` labelled "revenue"
  beside `avg(revenue)` is cut to the largest averages.
* The generator's own names are not reserved. A warehouse column `mn` or `w`
  read by a histogram, `p_cur` or `p_prev` by a comparison, or a dimension
  `__src_0` or `__den_0` beside a derived measure meets the subquery's column of
  that name and the statement does not resolve (`TakesGivenName`;
  `agent/sqlgen.py:507-508`, `612-628`, `664-719`).
* DataLens sorts horizontal bars and pies of a running share in descending
  order: a Pareto read backwards. Two filters over one column get one control id
  (`adapters/datalens/adapter.py:336-338`). Two charts of one title meet under
  one temporary name: no such board is ever delivered (`Title <- Same`).
* A trial of a statement with a small LIMIT counts as complete while the dataset
  of a filtered chart has no LIMIT: `MagnitudeIsMeasured` can only promise that
  the trial saw every row of the statement with its LIMIT.
* A filter is emitted with its bare column: with a truncated time column or a
  histogram ClickHouse binds it to the SELECT alias, so a histogram's `<=` piles
  rows into the last bucket.
* `pipeline` gates in ClickHouse's dialect while DataLens builds in the engine's.
  The docstring of `advisor/effective.py` describes an earlier rule.
* `ensure_database` of DataLens is outside the `try` of `build`. A late create
  can leave a temporary entry behind a clean reconcile; the next build of these
  names sweeps it.

## Proofs

For every value of the constants, assuming only the named ASSUMEs of the modules
and what is said here:

* `Invariance` – `IInv` of the pipeline is inductive;
* `TypeCorrect`, `ArtifactsAccounted` (`OrphanFree`), `CreatedOnce`
  (`NoDuplicateArtifact`), `WritesAreIntended` (`WriteNeedsIntent`: no remote
  create without a durable BUILDING), `NobodyStuck` (`NoStuckSession`);
* `Refinement` – the pipeline implements `ArtifactOwnership`;
* `RowsAgree` (`RowInv`) – rows, attempts and session status tell one story;
* `DeliverySurvives` (`DeliveredStaysUp`) and `ApprovalRetries`
  (`ApprovedIsRetryable`), if the commit of a pending delivery does not fail;
  `EvictionUnnoticed` (`EvictionInvisible`), if none of `UnrecordedFaults`
  happens: with the others each of the three is false;
* `SlotsBoundBuilds` (`CapacityBounded`) – for any number of threads, sessions
  and slots;
* `DeletionIsFinal` (`DeletedStaysGone`: of a session that owes no cleanup),
  `StreamsAreServed` (`StreamHasWriter`: of a stream that joined when a build had
  begun, and that an early one came for an approve under way) – with every
  request, eviction and restart; the traces that refute `TombstoneHolds` and
  `EveryStreamCloses` are what they leave out;
* `TurnsAreSerialised` (`OneTurnPerSession`), `MemoryIsRecoverable`
  (`MemoryAgreesWithStore`) – under `NoEviction`: nobody deletes, and the
  registry has room for every session, as in a server below `MAX_SESSIONS`.
  Without it both are false, as the list above says;
* `Questions` (`QuestionsBounded`), `Resume` (`ResumeLosesNothing`), `Stored`
  (`BuiltIsStored`), `Filed` (`FiledOnce`) – for any specs, change requests,
  targets and bounds of the dialogue, whatever the review raises on; `Resume` and
  `Stored` except the spec of a turn that raised (`strayed`, which refutes
  `EditsAreRows`);
* `SessionBudgetHolds`, `DayOvershootHolds`, `RequestsBoundedHolds` – for any
  finite set of sessions, any owners, limits, costs and loop bounds;
* `GrantsBoundedHolds`, `PurgeDropsNothing` (`PurgeDropsNothingLive`) – for any
  clients and policies; `StreamsCappedHolds` (`StreamsCapped`) – for any finite
  sets of sessions and consumers and any caps;
* `BuiltGated` (`BuiltWasGated`), `LimitsMatch` (`LimitMatchesWiring`),
  `MagnitudeMeasured` (`MagnitudeIsMeasured`), `ChartsBound`
  (`ChartsBindDataset`), `ControlsReach` (`ControlReaches`) – on both targets
  (the last one on Superset, which has the preview), for any semantic model and
  any proposal of the types of the IR;
* `GridSound` (`GridHolds`) – on both targets, for any number of charts of any
  size and row hint;
* `StatementsPlan` (`EveryStatementPlans`), `RanksPrimary` (`RankedByPrimary`) –
  for any semantic model whose tables name each column once, outside the
  exceptions the properties name;
* `OverviewsHold` (`OverviewHolds`) – on both targets, for any semantic model, any
  mart of it and any number of charts, unless the model names a reason to refuse
  the overview (`Unbuildable`, for its first part only);
* `StaysWhole` (`DeliveredWhole`), `NothingTemporary` (`NoWipLeft`),
  `BuildsOverAnything` (`SelfHeals`) – for any number of charts and builds, if
  the titles of the board differ.

None of the properties is inductive. `OrphanFree` says nothing of an artifact
whose attempt is about to be closed, so `IInv` adds what each attempt status
means for the BI system (`BlankAttempts`, `LedgerCovers`), what a thread at each
position has built so far (`BuiltSoFar`) under which attempt (`IntentDurable`)
and for which revision (`TokenHeld`), that a session has one open attempt
(`OneAttempt`), what a prune still holds (`PruneRows`) and what the startup has
found (`RecoveryStage`). The proof goes by the kind of step: a request changes
none of it; a thread's step concerns its own session (`ThreadOwn`,
`OtherThread`); the startup runs without threads. The refinement needs
`IsLatestApproved` of a thread's token: it makes the pruned revisions older.
`NoStuckSession` adds `Settled`: the reaper passes over a session with an open
attempt, so each attempt the reconcile leaves open must already show as failed.

What a user sees of a delivery rests on `IInv` in three further layers. `RowInv`
says that a builds row tells how the attempt of its token ended
(`RowsSettled`), that an open attempt is its session's newest (`OpenIsNewest`)
and that the last row of a session is that of its newest built revision
(`LastIsNewest`). `DeliveryInv` adds that past its commit a thread has its
delivery on record (`Recorded`), which is where a failed `pending` commit would
break in, and that a session at rest without a delivery shows a failure
(`ShowsFailure`). `StatusInv` adds that an open attempt nobody works on has
failed its session, so that memory shows what `_hydrate` would read.

`CapacityBounded` needs that positions, requests and outcomes are functions of
threads and that a build thread came from an approve (`SlotInv`). A step moves a
thread without touching a slot (`Moves`), takes one (`Arrive`), hands it to the
settling of a failure (`FailureKeeps`) or gives it back (`Returns`).

The properties of memory start from `MemInv`: a thread refers to an object of
the session it handles, the registry has one object per session, an object under
construction is nobody else's, and a session without a row is unknown. A
hydration and a start find a free object because there is one per session and
one per thread (`ObjectsAssumption`). `LockInv` and `BuildInv` say that a lock
belongs to the thread at work on its object and that an object is building
exactly while one build thread is on it; `StreamInv` that an object past its
build has its terminal event, that a list somebody waits on has it, or a build
or an approve on its way to one, and that a stream that joined a build stays
with it (`FollowInv`). `Gone` survives a startup because only an open attempt or
a build under way brings it to a session's row. `OpenInv` adds that a session
that owes a cleanup has failed, as the startup will write again. `QuietInv` says
under `NoEviction` what a thread at each position knows of rows and registry, so
that the registered object is the only one and shows what the rows say.

In the dialogue, `Shape` says which phase goes with which step and that the
rounds in memory are never behind those on record: that is what bounds the
questions after a restart. `Whole` is `ResumeLosesNothing` in the middle of a
turn, with the same exception for a spec that strayed, which lasts until the next
`SaveSpec`. `Filing` adds to `FiledOnce` that what is on file is remembered.
`Stored` also needs that an approved newest row is the one `BuildOf` picks
(`NewestIsBuilt`).

`SessionBudget` holds after a row is written because the usage was within the
limit when its attempt was admitted, which nothing but that session changes
(`AdmittedWithin`). The usage of an owner is the number of its units
(`DayUnits`): an admission finds it within the limit and each session then adds
at most one attempt, also when several were admitted on one reading.
`RequestsBounded` needs the count at every point of the loops: `Sent` is what
the rounds and attempts that are over may have sent, and a reset of an inner
counter pays for the step of the outer one (`RequestsCounted`).

A limiter forgets the attempts of a client with each strike, so what was let
through can exceed what is counted. `KeyInv` follows both: without a lockout
they differ by at most one batch, older than the base lockout (`OpenInv`); while
a lockout runs, at most two batches are inside the window and the older one
leaves it before the lockout ends (`LockedInv`); from the second strike on, or
when the first lockout covers the window, one batch is left (`BatchInv`). The
lengths of lockouts are powers of two, and that they grow is proved from a
smallest counterexample (`PowersGrow`). `SeenInv` says that nothing is inside
the window that is younger than `_last_seen`: so what the purge forgets has
nothing left. The proof needs `FloatExp` to be at least two (it is 1024): a
limiter whose second strike raised would never reach the long lockout.

The planning theorems rest on `GateInv`: from the gate on, the specification is
valid and has its types, each statement it needs is still to be gated or has
passed, and a build is what the adapter compiles from it (`Compiled`). Keeping
it needs that normalisation leaves a specification one (`NormalisedShape`) and
that every chart's dataset is among the statements of the gate
(`StatementsCover`). The rest is about the functions that compile a
specification. They select from lists, which the provers know only as a
recursive definition: so a selection is written as a flattening (`Only`,
`Distinct` in `SpecIR`), whose range is proved once from its prefixes, by the
smallest counterexample (`FlattenRange`). `LimitOnly` and `LimitOf` say that the
two ways a chart's statement is written differ in nothing but the LIMIT;
`ChartItems` that whatever kind a statement has, its outputs are the fields of
its query, and `Carries` that each group column reaches them; `SourceItems` does
the same for a source dataset. `FormWithin` and `ConfigBinds` go through the
parameters of every kind of chart and bound the columns they name by those
outputs. A time column of a join is excused on a source dataset
(`FormHolds`, see Findings).

A control is chosen by the first chart that takes it, and a selection that keeps
anything starts with its smallest position (`FirstKept`): with one mart that
chart gives every dataset the same name (`BindingAlias`), so a select filter
names its column everywhere (`BindingNames`). A period is followed through the
form data instead: its granularity is one of the chart's own time columns
(`FormTime`), so it is the one asked for where there is no other
(`PeriodNames`). That a built control
moves what the preview said needs `ShownInv`, because the build normalises the
specification after it was shown. Normalisation changes a scope only by joining
a label (`Unjoined`: a chart whose columns were replaced has a join), and charts
with the same ids, tables and columns have the same scopes (`SameScope`). With a
label join the preview may be wrong (`PreviewKept`): hence the premise on joins.

In the DataLens adapter, `Bound` says what each entry made so far is made of,
`Undisturbed` that while no call has failed the temporary names hold it,
`Promoted` that the canonical names of the ops already promoted hold it too:
the last rename makes a whole board out of that. `Swept` follows the two loops
that free temporary names, `Found` what a reconcile has yet to delete. The
titles must differ because a name has to belong to one op (`Names`).

That a statement plans is a matter of names (`StatementProofs`). Its sources are
distinct unless two joins name one table (`SourcesApart`), its outputs because
validation keeps the aliases apart and the names the generator adds are numbered
(`KeyedConcat`, `FeedsApart`); a reference of a valid query is a column of the
table it names, once, because a table names a column once (`ReadsResolve`); an
order is a group column or finds a measure (`TargetIsOutput`). From there each
form of statement goes its own way: flat (`FlatPlans`), with the aggregates of
a window below (`WindowedPlans`), a comparison (`ComparePlans`), a histogram
(`HistogramPlans`), a source dataset (`SourcePlans`) and the scaling of DataLens
(`ScaledPlans`). A build rests on `PlanInv`: what is remembered to plan does,
and what passed the gate does; `UnlimitedPlans` carries it over the LIMIT that a
control drops. The exceptions are real: the premises of these lemmas fail
without `JoinsTwice`, `LeavesTable`, `ListForScalar` or `TakesGivenName`.
`RanksPrimary` follows the order of a top-N through label joins: a label is
neither a measure nor a time column (`LabelIsNoTime`), so a chart that needs a
top-N still does (`StillUnranked`), and the order finds the first measure unless
a later one reads a column of that name (`PrimaryTarget`).

The grids are loops over the charts, written as functions of the number of
charts placed so far (`Packing`, `Placing`), so that what holds of the state
after each chart is proved by induction. For Superset: the rows so far and the
current one hold the charts placed, each once, and none is wider than the grid;
for DataLens: the tiles so far are disjoint, those of the current shelf end at
the pen, the others above it. A shelf's height must be that of its tallest
tile: with the last one's, the invariant is not inductive and the tiles overlap
(the mutant of `GridHolds`).

`OverviewsHold` begins with what `build_auto_spec` makes: every chart reads one
measure of the mart, alone, over time or along a breakdown it is ranked by
(`Drawn`), and the charts are a board of the mart with one period (`Board`,
`OverviewDrawn`). `OriginInv` carries that through the pipeline: the
normalisation gives no other specification the ids of an overview and leaves an
overview as it is (`OverviewNormal`: what it draws needs neither a label nor a
top-N, so the loops of both passes change nothing). A board then validates kind
of chart by kind of chart (`DrawnOk`), with `Unbuildable` listing exactly what
the semantic model can say against it; a time condition of its filters is in the
statement of every chart, scaled or not, or its source dataset exposes the
column, the control has the chart in its scope and the chart moves by that very
column: the period of an overview is the first time column of its mart, which is
the only one a chart of it can carry (`DrawnMoves`, `BuildShows`). The last row
is a matter of three loops: `_fill_trailing_row`, `_pack_rows` and
`build_dashboard_data` wrap at the same charts when none has a row hint, which
is proved by induction over the charts placed (`SameRow`, `SameShelf`), so a row
that the first found alone and widened is alone on either grid (`BuildFills`).

Only model-checked: liveness (`BuildEnds`, `StartupCompletes`, `AttemptSettles`,
`TurnEnds` and the others of the fair specifications), which the prover cannot
handle. Every safety invariant and action property of a passing run is a theorem.

## Abstractions

One artifact per kind stands for all of that kind a build makes. A session has
one build thread: `approve` answers 409 while one runs. A Store that fails
during startup stops the process and is `Crash`. Builds without an approved
revision (a random token, used by the CLI and tests) are not in `BuildPipeline`.
There a create that reaches the BI system after the startup has searched for its
token is not modelled: no code could clean it up.

In `DataLensBuild` all builds have the same titles; a changed title is another
namespace. Probes of magnitude change no entry. The connection is found or made
and never deleted.

In `SessionService` a client uses the ids it was given in an answer to its
start. The hydration is two steps, the reads before `builds` and that one.
`AgentSession` is its phase; a patch of the shared semantic model that makes a
spec invalid is the refusal `ApproveDenied` may always choose. A stream sees
whether its list ends, not its lines. The release of a failed build's slot goes
with the settling just before it, and a refusal because a quota is used up is
no step at all: `RateLimits` has the quotas.

In `AgentMachine` a call with its loops is one step that succeeds or fails:
`LLMCalls` has the loops. The advisor finds the same in the same content; a user
message that cannot be recorded is no step; a first turn that fails leaves rows
nobody asks for, and the client starts anew (`Abandoned`). Whether a build
failed, so that `Rebuild` is allowed, is left open. `deleted` rows and other
users are in `SessionService`.

In `LLMCalls` usage is a number, of calls or of tokens; both are limited the
same way. In `RateLimits` one key's checks are not interleaved: the limiter has
a lock.

In the planning modules names are words, values are the kinds the code tells
apart (a scalar, a list, an empty list, a relative date), row counts are what
the semantic model recorded. ClickHouse is the only dialect. Titles, formats,
colours, number scales below "a divisor or none", and error texts are left out.
`Plannable` knows one subquery level, which is what `sqlgen` writes.

## Not modelled

Introspection, authentication and settings, change request texts, the web UI,
the evaluation harness and scripts: reads, pure texts, or code outside the
server process, without state that outlives a call. Of the modelled components:
model editing and enrichment in the API (one locked write each), the selection
of context for a prompt and dbt import in `semantic/`, the advisor's thresholds,
insights and the seed, the operator's read-only commands, number formats and
captions of the adapters. `PROJECT.json` says it for each component.

## Plan

1. The build protocol, its refinement and proofs: done.
2. `SessionService` and the proofs of slots, memory and streams: done.
3. `AgentMachine` and its proofs: done.
4. Limits, budget and loops, with their proofs: done.
5. DataLens names and promotion, with proofs: done.
6. Planning from spec to dashboard: done for ClickHouse, with proofs of what
   is gated and built. Left: the other dialects of `sqlgen`, and the selection of
   prompt context.
7. `SharedStore`: a CLI build or prune against the Store a server starts on.
