# TLA+ models of utask

This directory holds TLA+ models of the parts of utask (a task-orchestration
engine, see `spec.md`) whose source is in `src/`. The models are checked with TLC.
`PROJECT.json` lists the components, the runs, the mutants, and which source
lines each definition translates (`map`). It also lists the findings and the
hazards the properties aim at.

## 1. The system and what is in `src/`

The spec describes a resolution engine. The engine drives a *resolution*
(the execution state of one *task*) through a DAG of steps. It takes a
per-resolution advisory lock in the database, runs the steps, persists the
transitions and emits notifications. Retries and crashes are picked up by
collectors. The engine itself (scheduler, step state machine, retry collector,
resource semaphores, persistence gateway) is **not** under `src/`. `src/` holds
the code around it:

| Component | Source | State it keeps | Operations | Interacts with |
|---|---|---|---|---|
| Subtask parent resumption | `pkg/taskutils/taskutils.go` `ShouldResumeParentTask` | none of its own; reads the task rows of the batch, the parent task and the parent's resolution | called by the engine when a task ends; returns the parent to run or nil | engine (caller, then runs the parent's resolution under its lock), `batchutils.RunningTasks` |
| Task creation | `taskutils.go` `CreateTask`; `pkg/notify/init/init.go` second file (`auth`) | task row, comment row, resolution row (through the caller's transaction) | create task, add comment, refuse a blocked template or a bad delay, send a validation notification, create a resolution if the caller may | auth predicates, notification bus, persistence |
| Authorization | `init.go` second file: `IsAdmin`, `IsRequester`, `IsWatcher`, `IsResolutionManager`, `IsTemplateOwner` | admin users/groups, set once by `Init` | pure predicates over the caller's identity and groups | task creation, HTTP middleware |
| HTTP API | `api/metrics.go` second file: `Server.build`, `requireAdmin`, `maintenanceMode`, plugin routes, `ListenAndServe` | the built handler; `utask.FMaintenanceMode` | one gin handler chain per route | every handler, auth |
| Metrics | `api/metrics.go` first file: `updateMetrics`, `collectMetrics`, `Stats` | the `utask_task_state` gauge vector | a refresh every 5 s from `LoadStateCountResolverGroup`, stopped by the context; `Stats` parses `tag=value` filters | database aggregation, server shutdown |
| Notification bus | `pkg/notify/notify.go`, `pkg/notify/init/init.go` | the registry of senders with their strategies, the actions config | `RegisterSender`, `Send` (one goroutine per deliverable backend), `Init` validating and normalising strategies | engine (emits), senders |
| Builtin runners | `unnamed/part_001` (`Register`), `unnamed/part_000` (apiovh runner) | the runner registry (write-once) | register at boot; validate config, declare resources, exec one HTTP call | engine, resource semaphores |
| Compression registry | `pkg/compress/gzip/gzip_test.go` (+ `compress/init`) | algorithm registry (write-once) | register at boot | persistence |
| Vendored JSON grammar, lint configs | `vendor/.../parser.y`, `.golangci.yml`, `unnamed/part_002` | — | test tooling and configuration | — |

### What is hard in this code

* **Sibling completion.** A batch's children end concurrently. Each child's
  engine pass commits the task's final state, then asks `ShouldResumeParentTask`.
  The comment at `taskutils.go:95` claims this race is harmless. That is a claim
  about interleavings, and no unit test reaches it.
* **The parent's own pass.** The parent may be in the middle of a pass when a
  child wakes it. The wake-up then meets the advisory lock, which drops requests
  when the lock is held (spec 4.E).
* **The gin handler loop.** A middleware stops a chain only by `Abort`. A
  middleware that writes an error and returns lets the loop go on.
* **Concurrent delivery.** `notify.Send` starts a goroutine per backend and per
  message. The order in which a backend receives messages is not the order they
  were sent in.
* **Stale gauges.** `updateMetrics` overwrites only the label sets the query
  returns.
* **Set-up order.** `Server.build` runs once and captures the auth
  middleware and the plugin routes. Later set-up calls return normally and
  have no effect.
* **Partial failure.** `CreateTask` can fail after it has written rows. A read in
  `ShouldResumeParentTask` can fail after the child's state is committed.

### Properties that make each component correct

* Subtask resumption: once every child is final, the parent is eventually
  resolved (unless a user paused it). The siblings' checks never all miss the
  parent. Two passes of the parent never undo each other's commit.
* HTTP API: a refused request (401/405) has had no effect. A server built
  with an auth provider serves secured routes only to authenticated callers,
  and admin-only routes only to admins.
* Task creation: a resolution is created only for an authorized caller. A
  failed creation leaves no task behind once the caller rolls back.
* Notification bus: no accepted config uses `failure_only`/`failure_or_done`
  for `task_validation` (spec 8.7). Each backend gets exactly the messages its
  strategy selects. Delivery order follows emission order (spec 5).
* Metrics: once the task table is stable, the gauge eventually equals the
  counts in the database. `/unsecured/stats` filters by exactly the tags it
  was given, and never queries with a malformed one.

## 2. Modules

### `SubtaskResume` (+ `MC_SubtaskResume`)

State:
* `childTask[c]`: the committed task state of each child.
* `childPc[c]`: `running`, `resume_check`, `finished` or `check_failed`.
* `parentTask` and `parentRes`: the parent's task and resolution states.
* `lock`: the holder of the parent resolution's advisory lock.
* `runner[r]`: one attempt to run a pass of the parent. `"engine"` is the
  parent's own pass; each child may start one.
* `seen[r]`: what the pass read of the children.
* `resumeRequested`: a history of the checks that returned the parent.
* `crashes`: crashes so far, bounded by `MaxCrashes`. `CrashPoints` says
  where a crash may happen.

Actions:

| Action | Code |
|---|---|
| `ChildResolve` | engine: commit the child task's state for its resolution's end (`TaskStateOf`: DONE→DONE, CANCELLED→CANCELLED, BLOCKED_*→BLOCKED) |
| `ResumeCheck` | the engine calls `ShouldResumeParentTask` (an operator translating `taskutils.go:78-136`, with `RunningTasks` as in batchutils) and runs the returned parent |
| `ResumeCheckFails` | one of its database reads fails (`taskutils.go:100-128` error returns) |
| `TryLock` | spec 4.E Acquire/Guard: take the advisory lock or drop the request; stop on DONE/CANCELLED/CRASHED/PAUSED; else mark RUNNING |
| `Evaluate` | the subtask/batch step reads the children's task rows |
| `Commit` | persist DONE if all children were final, WAITING otherwise; keep PAUSED; release the lock |
| `Pause` | the API pause |
| `CrashPass` | an engine instance dies during a pass of the parent: its lock session ends and the resolution stays RUNNING (spec 4.E) |
| `CrashCheck` | a child's engine dies after committing the child task and before its check |
| `Recover` | engine start-up: a RUNNING resolution whose lock nobody holds becomes CRASHED |
| `Collect` | retry collector: a CRASHED resolution is reclassified TO_RETRY and submitted (runner `"collector"`) |

Fairness is weak fairness on every engine step: child completion, check, lock,
evaluate and commit. These are goroutines of the engine that run to completion
once started. The engine's restart (`Recover`) and the collector's ticks
(`Collect`) are also weakly fair. `Pause` is a user's action and crashes are
failures, so neither is fair.

### `ParentWait`: the abstract specification

`ParentWait` states what the subtask protocol promises, with atomic steps:
* `ChildEnds`: a child becomes final or blocked;
* `Wake`: WAITING→RUNNING;
* `Resolve`: RUNNING→DONE, only if every child is final;
* `Park`: RUNNING→WAITING;
* `Pause`.

`SubtaskResume` instantiates it as `Abstract`:
* `child` maps to the child task's state class (`AbstractChild`);
* `parent` maps to `parentRes`.

`ImplementsParentWait == Abstract!Spec` is checked as a property. The mapping
of steps:
* a successful `TryLock` is `Wake`;
* `Commit` is `Resolve` or `Park`, or a stutter when the parent is paused;
* `Evaluate` and the resume checks are stutters.

The point is that a pass reads the children in `Evaluate` and writes in
`Commit`, with other steps in between. The refinement shows the snapshot can
never let the parent become DONE while a child is not final.

### `ApiRouting` (+ `MC_ApiRouting`)

Each route registered by `Server.build` is a chain of gin handlers. The module
keeps the route table itself, one operator per route group of the code
(`TemplateRoutes`, `TaskRoutes`, `CommentRoutes`, `ResolutionRoutes`,
`MiscRoutes`, `UnsecuredRoutes`). Each maps a route's fizz ID to the
middlewares registered before its handler:
* `Read`: handler;
* `Write`: maintenanceMode, handler;
* `AdminWrite` (DeleteTask, EditTaskResolution, EditTaskResolutionStep):
  requireAdmin, maintenanceMode, handler;
* `Admin` (ReencryptData, `/key-rotate`): requireAdmin, handler. It is the
  one route that rewrites rows and has no maintenanceMode (listed as a hazard).

`RouteChains` puts the `authRoutes` group's auth middleware in front of every
route but the three `/unsecured/...` ones. Plugin routes get
`[maintenanceMode][auth] handler`, built from the route's flags. A request
slot records which route it was sent to. `AdminDocumented` lists the routes the
code documents as admin-only: the fizz descriptions "Admin rights required" and
"Admin users only.", and the `// admin` comment on key-rotate.
`ServedCallerIsAuthorized` checks the table against that list.

`server` holds the `Server` fields the chains depend on: the auth middleware
(`NewServer`'s no-op default, or the one `WithAuth`/`WithGroupAuth` set for a
non-nil provider) and the registered plugin routes. `RegisterPluginRoutes`
takes a group of up to two routes and refuses the whole group if one has no
handler. `build` (called by `Handler(ctx)` and by `ListenAndServe`) only acts
the first time (`if s.httpHandler == nil`): it copies the auth middleware and
the plugin routes into `httpHandler`. Requests are only served by the built
router and see what it captured. The set-up calls may also happen after
`build`; they then change `server` and nothing else.

`slot[q]` holds one request: its route's chain and whether the route is meant
to be secured, the caller, gin index, abort flag, the status written, and
whether the handler ran. Each middleware is one action. With the no-op auth
middleware no identity is put in the context, so `auth.IsAdmin` fails for
every caller (`Identity`).

`Stats` is the handler of the `Stats` route. tonic binds the query's `tag`
parameters into `StatsIn` when the handler is called, so the tag list is
chosen in that action (`StatsInputs`). A tag is represented by what
`strings.Split(t, "=")` returns, and that list determines the tag string.
`ParseTags` is the loop at `metrics.go:80-90`: the first tag without exactly
two non-empty parts ends it with a 400 (`errors.BadRequestf`). A later tag
with the same key overwrites the earlier one (`@@` puts the new pair first).
`NewDBProvider` failing gives a 500 before any parsing. `LoadStateCount`,
outside `src/`, may fail with a 500. `TagFilterOf` is the reference for the
loop: the key/value pairs of the whole list, the last value winning.
`Ping` (`pingHandler`) answers 500 when the DB provider, `SELECT 1` or its
value fails, else 200. `KeyRotate` runs the three rotations in order and
returns the first error. `slot.rotated` counts the rotations that returned
nil, so a 500 answer after a partial rotation is visible in a trace.

gin's loop runs the next handler unless `Abort` was called. The first status
written is the one sent. Every middleware calls `c.Next()` as its last
statement, so a nested `Next` is the same as returning to the loop. That is why
one step per handler is faithful.

### `NotifyBus` (+ `MC_NotifyBus`)

State:
* `cfg[n]`: each backend's config as the config store holds it. It is chosen
  in `Init` from `ConfigSpace`. A config is a record of type, default strategy
  map and template strategy lists.
* `phase`: `boot`, `running`, or `aborted` when `Init` returned an error.
* `toInit`: the backends the `Init` loop has not reached yet. Go map order is
  any order.
* `senders`: `notify.senders`, a map from name to the normalised strategies.
* `sent`: the messages passed to `notify.Send`.
* `goroutines[<<n, k>>]`: sender goroutines started for message `k` that have
  not run yet.
* `delivered[n]`: the message numbers backend `n` received, in order.

| Definition | Code |
|---|---|
| `validateActionName`, `validateStrategyForAction` | `init.go:161-191`, case by case |
| `validateAndNormalizeNotificationStrategy` | `init.go:118-159`: every check of the three loops, with `always` filled in for missing actions (`NormalizedDefault`) |
| `InitBackend` | one iteration of the loop at `init.go:28-111`: validate, switch on the type, `RegisterSender`, or abort |
| `RegisterSender` | `notify.go:34-40`: the registry entry for a name, replaced if present |
| `InitDone` | `RegisterActions`, `init.go:113` |
| `Send`, `Spawned` | `notify.go:62-88`: nothing if disabled; one goroutine per accepting sender if the list is empty; else one per list entry naming an accepting sender |
| `Deliver` | a goroutine runs `sender.Send` |
| `EffectiveStrategy`, `checkIfDeliverMessage` | not under `src/`, from spec 4.G: the default, overridden by the first matching template entry |

Fairness: weak fairness on `InitBackend`, `InitDone` and on each `Deliver`.
The Go scheduler eventually runs a runnable goroutine. The engine's emission
(`Send`) is not fair, because the engine may stop emitting.

### `TaskCreation` (+ `MC_TaskCreation`)

The POST /task and POST /batch handlers are not under `src/`. Following spec
4.H, each is modelled as one transaction: it calls `CreateTask` for each item
in turn, rolls back on the first error, and commits after the last item.
`CreateTask` itself has no concurrency and runs inside that transaction, so one
call is one action (`CreateTaskItem`). The operator `CreateTask(k, in, f)`
translates `taskutils.go:19-76`. It returns:
* the error result;
* the rows written before returning, which include rows written before an
  error;
* whether a validation notification was sent.

`f` picks which database call fails, if any.

State:
* the template flags `tt`;
* `admin`;
* the inputs `items`;
* the item counter `i`;
* the open transaction `tx`;
* the committed rows `db`;
* `notified`;
* `status`.

The auth predicates keep their names. The requester of a new task is always
the caller, so `IsRequester` is `TRUE`.

### `MetricsCollector` (+ `MC_MetricsCollector`)

State:
* `db[k]`: the number of tasks with label set `k`, where a label set is
  (state, template, group);
* `gauge`: the GaugeVec's label sets and their values;
* `pc`: `init`, `running`, `stopped` or `nodb`;
* `cancelled`: the server context was cancelled;
* `changes`: a bounded counter of task writes.

| Definition | Code |
|---|---|
| `LoadStateCountResolverGroup` | the GROUP BY aggregation (not under `src/`): only label sets with tasks |
| `updateMetrics` | `metrics.go:23-36`: `Set` each returned row; nothing on a query error |
| `collectMetrics` | `metrics.go:38-48`: DB provider failure returns; else one refresh and the goroutine |
| `Tick`, `Stop` | the `select` at `metrics.go:50-58` |
| `Cancel` | `ListenAndServe`'s signal goroutine calls `cancel()` |
| `CreateTask`, `MoveTask` | task writes by the engine and the API |

Fairness is weak fairness on `collectMetrics`, on a *successful* `Tick` and on
`Stop`. The ticker fires every 5 s, and a query that fails is assumed to
succeed again eventually. Task writes and shutdown are not fair.

## 3. Runs

| Run | Expect | What it shows |
|---|---|---|
| `subtask_safety` | pass | Four children end as DONE, CANCELLED or BLOCKED in every order, against the parent's in-flight pass, with failed reads, pauses and up to three crashes, of a pass (the engine's or the collector's retry) or of a check. (`TypeOK`) The task rows stay well typed. (`SiblingsWakeParent`) Once all children are final and have run their check without error, at least one check returned the parent, unless it was already DONE, paused or CRASHED, or a stale RUNNING resolution still awaits crash recovery. (`ImplementsParentWait`) Every behaviour is a behaviour of `ParentWait`. In particular two overlapping passes, as two siblings that both return the parent would start without the lock, fail it: one commits WAITING over the other's DONE. 312,972 distinct states, using child symmetry; the mapping treats children alike. |
| `subtask_wakeup` | pass | Three children. The parent's pass has committed WAITING before they end, and up to two passes of the parent may crash, the collector's retry included; 34,838 states. (`ParentEventuallyResolved`) Under weak fairness the parent always ends DONE (or paused). This is the case the code comment reasons about. After a crash the checks return nothing (`taskutils.go:130`), and the restart and the collector finish the parent. |
| `subtask_lost_wakeup` | **violation** | Same, but the parent's own pass is still evaluating when a child ends. TLC finds the lost wake-up: the pass reads a running child, the child commits and its resume request meets the held lock and is dropped, then the pass commits WAITING. Nothing wakes the parent again. |
| `api_normal` | pass | `WithAuth`, `WithGroupAuth` (nil or not) and `RegisterPluginRoutes` (any group of up to two plugin routes) interleaved with `build` and with a request on every route from every caller, maintenance off; 551,199 states. (`TypeOK`) The server fields and the request stay well formed. (`RefusedRequestHasNoEffect`) A 401 answer always means the handler never ran. (`ServedCallerIsAuthorized`) A handler runs only for a caller its route admits: on a server built with an auth provider no secured handler, fixed or plugin, runs for an unauthenticated caller, whatever the plugin route's flags; a handler of a route the code documents as admin-only (`AdminDocumented`) runs only for an admin identity, so for nobody when no provider was set before `build`; set-up calls after `build` change neither. (`StatsFiltersByItsTags`) `Stats` calls `LoadStateCount` only for a well-formed tag list, with the filter that list means, and answers 400 only for a malformed list. The recursive tag loop is checked against a definition over the whole list, for every list of up to two tags. |
| `api_maintenance` | **violation** | Maintenance on. A write route answers 405 and its handler runs: `maintenanceMode` never calls `c.Abort()`. |
| `notify_configs` | pass | Every config of one backend over the valid keys and strategies plus a bogus one, with template entries that match or not, and with an unknown type: 52,272 initial states. (`TypeOK`) An accepted backend's default map is total. (`ValidationNeverFailureFiltered`) No started service filters `task_validation` by failure, for any template (spec 8.7). |
| `notify_delivery` | pass | Two backends with fixed configs: two matching template entries, an empty backend list, a one-name list and a two-name list. Two messages of any action, template and outcome. (`SelectedBackendsReceive`) Each message eventually reaches, exactly once, each backend that the spec 4.G selection picks, and no other backend. |
| `notify_order` | **violation** | A backend receives message 2 before message 1: the goroutines of two `Send` calls run in either order. |
| `creation_batch` | pass | A three-task batch over every template flag, caller, input and failing write (55,296 initial states, 200,904 states). (`CreationAllOrNothing`) After the handler returns, either there are no rows, or every item has its task, comment, resolution exactly when it auto-runs, and a validation notification otherwise. |
| `creation_notify` | **violation** | No database failure is needed. Task 1 needs validation, so its notification is sent. Task 2 lists the caller as resolver and has an unparsable delay, so the handler rolls back. The notified task does not exist. |
| `metrics_catchup` | pass | Two label sets, three task writes, failing DB and queries, shutdown at any time. (`GaugeCatchesUp`) Once writes stop, a serving exporter eventually shows the right count for every label set that has tasks. |
| `metrics_zero` | **violation** | A task moves from `k1` to `k2`. The gauge keeps `k1 = 1` for ever, because the aggregation no longer returns `k1` and nothing resets it. |

Bounds:
* Up to two crashes (`MaxCrashes = 2`) may hit any crash point in any
  state in the liveness run. Two is the least that crashes the collector's
  retry after a first crash of the engine's pass. The safety run allows
  three, so a child's check can also crash after both passes did.
* Two or three children are enough for every order of "commit, check" between
  siblings. A third child adds the case where one sibling is still running
  while two others finish. The safety run uses four, under symmetry (about
  20 s): two siblings can then finish while two are still running, one of
  them blocked, with three crashes spread over them. The liveness runs stay
  at three children, since symmetry is not used there.
* One backend and one template are enough for the config space. The checks
  are per backend and per action. `task_state_update` is validated like
  `task_step_update`, so the space uses one of the two.
* Two messages and two backends give every order of two deliveries.
* Three batch items: two are the least that shows a later item undoing an
  earlier one; the third lets an item that needs validation sit between an
  auto-run item and a failing one. Every combination of inputs is enumerated.
* Two label sets and three writes reach a count going up, then down to zero,
  and a refresh between any two writes.
* One request slot: requests share nothing but the built router, so a
  single slot, arriving at any point of the set-up calls, covers every chain.
  Plugin groups of up to two routes show the all-or-nothing refusal.
  `Stats` takes up to two tags from six split shapes: well-formed with two
  values of one key (so a repeated key occurs), no `=`, two `=`, an empty
  key and an empty value. That reaches every exit of the tag loop.

Each passing property has a mutant that breaks it (`PROJECT.json` "mutants"):
* counting only DONE siblings as finished;
* an evaluation that looks for *some* final child instead of all children;
* writing the resolution state into the task row;
* not resuming a WAITING parent;
* a `requireAdmin` that does not abort;
* a `RegisterPluginRoutes` that appends the group without checking handlers;
* a plugin route loop that adds auth only when the route is not in
  maintenance (`else if`);
* `DELETE /task/:id` registered without `requireAdmin` (a second mutant of
  `ServedCallerIsAuthorized`);
* a tag loop without the empty key/value check;
* leaving out the `always` fill-in of missing default actions;
* accepting `failure_or_done` for `task_validation`;
* a `Send` that ignores the `notify_backends` list;
* a collector that submits a crashed resolution without reclassifying it
  (breaks `ParentEventuallyResolved` too; not the listed mutant);
* a `CreateTask` that does not return the comment insert's error;
* a refresh loop that returns after a failed query.

## 4. Findings

1. **`maintenanceMode` does not stop the request** (`api/metrics.go:655`). It
   writes 405 and returns without `c.Abort()`. gin then runs the route's
   handler, so writes happen in maintenance mode. `requireAdmin`, next to it,
   uses `AbortWithStatus`.
2. **A parent can miss its wake-up** (`taskutils.go:95`, with spec 4.E and
   4.F). The comment's argument covers two siblings racing each other. It does
   not cover a sibling racing the parent's own pass. The advisory lock drops the
   resume request, the pass commits WAITING, and no collector retries WAITING
   resolutions. The same end state follows if a child's engine crashes
   between committing the child task and running the check.

3. **Receipt order is not emission order** (`notify.go:71`, spec gap). Spec 5
   promises that notifications are *emitted* in the order transitions are
   persisted. `Send` hands each message to a fresh goroutine, so a backend may
   receive them in the other order. The spec does not say which order
   receivers see.

4. **Notification for a rolled-back task** (`taskutils.go:53`, spec gap).
   `NotifyValidationRequired` runs inside the caller's open transaction. In a
   batch, a later item's error rolls back a task whose validation
   notification was already sent.

5. **Stale gauge at zero** (`api/metrics.go:31`, divergence from spec 6).
   `updateMetrics` never resets label sets the aggregation stopped
   returning. A (state, template, group) whose last task left keeps its old
   count.

## 5. Plan

In order of importance:

1. `SubtaskResume` — done.
2. `ApiRouting` — done.
3. `NotifyBus` — done. Sender transport failures (logged and not retried)
   are outside `src/`.
4. `TaskCreation` — done.
5. `MetricsCollector` — done. The `Stats` handler is an action of
   `ApiRouting` (its route is there); its count query is outside `src/`.
6. Refinement of `SubtaskResume` to `ParentWait` — done (safety).
7. Crashes composed into `SubtaskResume` — done. Next: add liveness to
   `ParentWait` once a fix of the lost wake-up is modelled, for example a
   lock that queues requests or a collector that also picks up WAITING.
8. `ApiRouting` server set-up (`NewServer`, the auth setters, plugin route
   registration, build-once) — done. Set-up calls after `build` are legal and
   silently ignored; no property says they should work (see the hazards).
   Next: shutdown ordering in `ListenAndServe` (`cancel()` before `Shutdown`).

## 6. Not modelled

* The engine's scheduler internals are not under `src/`. They are modelled from
  the spec only where src code composes with them.
* Runner/compression registration: write-once registries filled at boot,
  without concurrency.
* The apiovh runner: one HTTP call.
* The vendored grammar and the lint configs.
* Static file serving, OpenAPI generation, the dashboard path setters and
  `generateBaseHref`/`generatePathPrefixAPI` (which format those config
  strings into the dashboard's static files; no property is about the text),
  logging and formatting.
* `WithCustomMiddlewares`: `build` puts the plugins' custom middlewares in
  front of every API route (`router.Use`). What they do is plugin code,
  outside `src/`, so they are left out of the chains.
* What `keyRotate`'s rotations write: they are outside `src/`. `KeyRotate`
  keeps their order and early returns, so a 500 after completed rotations
  is reachable, but no property says what a retry should find (listed as a
  hazard).
