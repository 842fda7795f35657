# A TLA+ verification of healthcheck-monitor

The monitor reads the state of cloud resources through providers, judges it, compares
each judgement with what it knew before, and announces transitions: a finding is new,
worsened, stale, recovered or removed. A server shows them, keeps their history and
imports what the resources cost. This directory holds models of the parts that decide
these things, the TLC configurations that check them on small instances, and proofs,
for every instance, of the properties that matter most.

Paths below are relative to `src/`.

## 1. The system

```
 configuration ──► monitor (runtime/supervise.rs) ◄── stop, reload (SIGHUP)
                      │ watch channel        ▲ bounded channel of results
                      ▼                      │
                  scheduler ──spawns──► collection ──► router ──► providers, integrations
                  (core/scheduler.rs)                  caches      admission budgets

 monitor ──► State::apply / expire ──► transitions ──► Publisher ──► evidence directory
             (core/state.rs)                │          (core/publication.rs, storage.rs)
                                            └─► Bus (server) ──► recorder ──► Journal ──► PostgreSQL
                                                 │                            (history)    ▲
                                                 └─► views ──► API ◄───────────────────────┤
                                                       dashboard, connect       billing worker
```

One task owns the comparison state; everything that could block it (collections, disk,
database) runs elsewhere and is bounded. The hard behaviours all come from that split:
results arrive late, twice or incomplete, writers lag behind, a reload replaces what
tasks in flight were started for, and the process may stop at any point.

### Inventory

| Component | State and operations | What is hard | What makes it correct | Model |
|---|---|---|---|---|
| **Finding state** `crates/core/src/state.rs`, `state_lifecycle.rs`, `partial_results.rs`, `bounds.rs` | results, findings, confirmations, health; `apply`, `expire`, `reconfigured` with `retain_scope`, `begin_run` | cached readings served twice, partial and truncated results, the limit reached in the middle of a result, reloads | recovery and removal only on distinct, complete evidence; the limit is kept; transitions tell one story | `Findings`, `Episodes` |
| **Publication, evidence store** `crates/core/src/publication.rs`, `storage.rs` | queued transitions, the write under way, backoff, the files | transitions queued during a write, a slow disk, failing steps, a crash between files, the shutdown deadline | nothing is lost uncounted; the marker never shows what is not recorded | `Publication`, `Evidence` (partly: not `retain` of old files, the lock, symbolic links) |
| **Scheduler** `crates/core/src/scheduler.rs` | due times, tasks, slots per scope, cursor | reload while tasks run, a full result channel, cancellation | no check twice at once, ceilings, it stops | `Scheduler` |
| **Supervisor** `crates/runtime/src/supervise.rs` | the `select!` loop of `monitor` | the order of ticks, results, reload, stop | covered by what it drives | split over `Publication`, `Scheduler`, `Findings` (partly: not exit codes and reading the file) |
| **Budget** `crates/core/src/budget.rs` | `used`, `limit`, FIFO turn, notification | compare-and-swap against resize, lost wake-ups | what is charged is what is held; waiters are served | `Budget` |
| **Remote admission** `crates/integrations/src/admission.rs`, `transport.rs`, `process.rs` | budgets of the process, of each scope, of helpers | order of budgets, a scope replaced while it is used, retries | ceilings hold; a hanging scope blocks no other | `Admission` |
| **Router and caches** `crates/providers/src/router.rs`, `router_lifecycle.rs`, `inventory_cache.rs` | clients, listings, log cursors | shared listings, reload and renewed credentials during a load | a listing counts once per check; the client is the current one | `Caches`, `LogCursor` |
| **Log windows** `crates/integrations/src/log_window.rs`, `log_dedup.rs` | cursor, fingerprints | crash, failure, cancellation between read and commit; late lines | no line hidden or counted twice, outages reported | `LogCursor`, `Reading` |
| **History journal** `crates/history/src/journal.rs`, `journal_worker.rs` | channel, byte budget, counters; `submit`, worker, `flush` | full queue, retries of a committed write, rejected batches, flush against the worker | every record written, on its way or counted; losses become gaps | `Journal` |
| **Bus, recorder, views** `crates/server/src/bus.rs`, `query_recorder.rs`, `view.rs` | current view, revision channel, open intervals | coalescing, records that the journal dropped, restart | the history agrees with the findings; readers never go back | `Recorder`, `Reads`, `View` |
| **Scope response cache** `crates/server/src/scope_cache.rs` | bounded map of responses | loads that finish in any order | no answer older than its request | `Reads` |
| **Cost accounting** `crates/history/src/cost_*.rs` | imports, partitions, reservations | restart within an import, midnight, paid query jobs | visible days are whole; spend is bounded | `Costs` (partly: not the sums of `aggregate`, the cursor of `query`) |
| **Billing worker** `crates/server/src/cost_worker.rs`, `crates/providers/src/billing_*.rs` | the pass over sources | failures, jobs that ended in error | the current period is imported | `Costs` (partly: other providers' requests are one step) |
| **History queries, retention** `crates/history/src/` | tables, watermarks | trimming between statements, lists that change while walked | complete windows are complete | `Retention`, `Pages`, `Assessment` (partly: not pool and schema) |
| **Query model** `crates/query/src/` | none | several statements see several states | a verdict says no more than was observed | `Assessment` |
| **Server API, security** `crates/server/src/` | keys, views | key rotation, shutdown order | a key is trusted while it is published | `Credentials`, `Pages`, `Reads`, `Journal` (partly: not the claims of a token, trusted peers, connection limits) |
| **Connect client** `crates/connect/src/` | token, credential store | several calls and processes, rotated refresh tokens | a login is asked for only when needed | `Connector` |
| **Capacity pressure, flow progress** `crates/core/src/capacity.rs`, `flows.rs` | runs of samples | gaps, changed thresholds, counters reset | what is sustained was seen for as long | `Signals` |
| **Health policies** `crates/core/src/*policy.rs`, `recovery.rs` | none | unknown and contradictory values | nothing is claimed without evidence | `Policies` |
| **Releases, provenance, images, log recovery** `crates/core/src/` | none | several sources of unequal age | an origin is verified only on evidence | `Releases`, `Policies` |
| **Provider adapters** `crates/providers/src/` | fan-out, pages, metrics | limits and cancellation in the middle | complete means read | `Fanout`, `Reading`, `Measures`, `Credentials` (partly: not the projection of rows of single services) |
| **Integrations** `crates/integrations/src/` | attempts, helper processes, sessions | timeouts, retries, children that outlive | deadlines, permits, nothing left running | `Calls`, `Helpers`, `Reading`, `Credentials` (partly, likewise) |
| **Configuration, reports, CLI, benchmarks, dashboard** | | none of concurrency or failure | table tests | not modelled |

`PROJECT.json` lists each with its status, and under `hazards` the places in this code
where something could go wrong that a test would hardly reach, with the properties that
watch them or the reason there is none.

## 2. The modules

A module models one part, in the code's names where TLA+ allows them, one action per
operation or handler. `Episodes` and `Evidence` are the abstract specifications that
`Findings` and `Publication` implement. `MC…` modules give constants their values and put
parts with unrelated state side by side: `part` says which of them moves, so the states of
a run are the union of the parts' states and not their product. `…Proofs` modules hold the
theorems. `PROJECT.json` maps each definition to the lines it stands for.

Some definitions come in pairs, such as `FitsOver` and `Fits` of `Findings`. One of the pair
is the code; the other is the same place with a plausible mistake in it, is used by no
specification, and is listed in `PROJECT.json` under `mutants`. Put in the place of the
first it must break the property it is listed with, which shows that the property depends
on that line of the code.

### Findings: the comparison state

| Model | Code |
|---|---|
| `results`, `findings`, `retired`, `confirmations`, `health` | the maps of `Snapshot` in `core/src/model.rs` that `State` compares |
| `Check(j)` | a collection of job `j` followed by `State::apply` (`state.rs:47-291`): merging with what was known (`partial_results.rs`), the bounds (`bounds.rs`), the comparison per finding, recovery, removal, health, expiry of retired entries |
| `Expire` | `State::expire` (`state_lifecycle.rs`) |
| `Reconfigure(c)` | the reload in `supervise.rs` with `State::reconfigured` and `retain_scope`; a configuration whose open findings exceed the new limit is refused |
| `BeginRun`, `Tick` | `State::begin_run` of a one-off run; time |

The reading an operation returned is `[complete, at]`: whether the provider listed
everything, and when it did. `at` may lie in the past, and it may be the one the job saw
before: the inventory cache hands one listing to several checks and keeps its time. What
the policies say of an observation is any value they may return. `history` is a ghost: the
distinct times at which a finding was faulty, clean or absent, which the code does not
keep and against which its counters are judged. Findings of resources are identified by
resource and rule; text, regions and samples are left out, and the freshness of each rule
is one constant.

`Episodes` reads the transitions of each finding in order: opened by `new` or
`reappeared`, closed by exactly one of `recovered` or `removed`, worsened or stale in
between. `Findings` implements it with a mapping from where a finding is kept and what the
last step returned (`StoryTold`).

### Publication and Evidence

| Model | Code |
|---|---|
| `monitor` | the snapshot and the transitions `supervise.rs` holds, and the `Publisher`: `requested`, `waiting` (backoff), `task` |
| `latest`, `newest`, `recorded` | `monitor-latest.json`, the youngest snapshot file, and the union of the events files |
| `Collect` | a result was applied: `append` queues its transitions, bounded, counting what does not fit |
| `HistoryTick`, `DiskTick`, `BackoffEnds` | the arms of the `select!` that ask for a publication, start it, end the backoff |
| `Write`, `Fault` | one step of `Store::publish` in the blocking thread, or its failure |
| `Stop`, `Finish`, `Settle`, `Close`, `Timeout` | `Publisher::finish` under the cleanup deadline |
| `Exit`, `Restart` | the process is gone at any point, also during a write; `latest()` on the next start |

`Evidence` promises the reader of the directory that the marker moves only forward and
that what it reflects is in an events file or counted as dropped. A snapshot is the pair of
sets of transitions it reflects and counts as dropped; `recorded` is what was ever written.

### Scheduler

One action per pass of each part of `drive`: `Admit` (the scan of admission from the
cursor), `EndLoop`, the arms of the `select!` (`Wake`, `Update`, `Join`, `Drain`), `Send`,
`End` and `Abort`. `Gather(t)`, `GiveUp(t)`, `Elapse(k)` are the spawned tasks and the
timers; `Reload(c)`, `SignalStop`, `Receive` are the monitor's ends of the channels. The
`select!` is `biased`, so an arm is guarded by the negation of those before it where that
is visible. Interval lengths and jitter are left out: a job becomes due.

### Budget and Admission

In `Budget`, `pc` is where each caller is between two atomic operations: `Load`, `Compare`,
`Exchange` (compare-and-swap, which fails when `used` moved), `Recheck`, `TakeBack`,
`Refuse`, then `Release` and `Return`. A waiter is `Enqueue`d for the turn, `Arm`s the
notification, and parks when refused. `Store` and `Announce` are the two halves of
`resize`. A bulk caller asks for its amount once.

`Admission` takes the budgets of the process, of the helpers and of each scope with the
promise that `Budget` shows in detail: first come first served, and no grant beyond the
limit. A caller takes its `Context` (the scope's budget at that moment), then `Request`s,
`Take`s permits in the order of the code, is `Answer`ed, `Retry`s without giving up its
context, runs into its `Deadline`, or `Leave`s. `Replace` is the reload that exchanges the
map of scopes (`Resize` comes first), under which a removed scope's callers finish with the old budget.

### Caches, LogCursor, Reading, Measures, Fanout

`Caches` follows one listing of a target and its client: `Start` of a check with the scope
it finds, `Client` and `Loaded` under the lock, `Take` and `Answers` of the listing,
`Finish`, `Drop` (cancelled anywhere), `Age` (a listing expires), `Reload`, `Rotate`
(the credential is renewed outside). The inventory cache keeps complete listings and asks
for its client first; the Kubernetes cache keeps what it got and asks with its lock held.

| LogCursor | Code |
|---|---|
| `log_cursor`, `table` | the target's entry of `log_cursors` (`router.rs`), the fingerprints of its scope (`log_dedup.rs`) |
| `Start`, `Open` | `collect` fixes the end of the windows and takes the cursor, then, after admission, gets the scope of its revision |
| `Read(w)` | one window: `Begins` and `Gap` are `Window::new`, `Suppressed` is `Dedupe::accept`; it is read to its end or not |
| `Finish`, `Fail` | the cursor moves if every window was complete and the revision is current; or the result has no windows |
| `Deliver`, `Persist` | the monitor applies a result of its revision; the snapshot reaches the disk |
| `Reload(rev)`, `Restart(rev)` | `Router::reload` clears cursors and scopes; `restore_logs` takes the cursor of a stored complete result; `reconfigured` forgets the result of a job that changed |

Results wait in a channel (`Capacity`) while the next collection runs; a reload cancels a
collection only if its job changed. The ghosts are of the monitor: the lines counted in
results it applied, the time from which all of them must be, the lines that share a table,
and intervals that were passed over. They survive a restart as far as their snapshot does.
One target; a line is a time; two collections never end at the same instant; the table
does not evict.

`Reading` is how a list is read page by page by each of the readers, `Measures` what is
made of several answers (metrics, queues, probes, changes), both as operators from the
answers of a provider to the operations that are reported. `Fanout` is one collection of
an inventory with its branches, what they discover, and the limits that cut it.

### Journal, Recorder, Reads, Pages, Retention

In `Journal` a record is an ordinal, its size one byte of the budget. `Admit(n)` and `Send`
are the two halves of `submit`; the worker goes through `Start`, `Rest`, `Maintain`,
`Gather`, `Receive`, `Swap`, `Write`/`Fault`/`Reject`/`GiveUp` and `End`; `Ask`, `Count`,
`Decide`, `Expire` are the loads of `flush` one by one, and `Stop` follows it as in
`server/src/serve.rs`. A write may commit and yet be reported as failed. The database is
what was committed: records with idempotent keys, and the gaps.

`Recorder` turns each publication into intervals (`Publish`, with the journal's refusal),
which a queue carries to the rows (`Write`); `Save` is what a `Restart` resumes from.
`Reads` has a publication in its three steps `Build`, `Store`, `Announce`, and requests
that `Ask`, `Lock` the flight of their key, `Read`, `Respond` and `Leave`, so that loads overlap
with each other and with publications. `Pages` is a walk through a list, a `Turn` at a time,
while it `Change`s. `Retention` is the writer and the trimming, statement by statement.

### Costs, Connector, Signals, Calls, Helpers, Credentials

`Costs` follows the imports of one source: `Worker` is one step of the pass (schedule,
reserve, begin or resume, stage the rows of a day, publish, clean up), with `Fault`,
`Restart`, `Tick` to the next day and `JobEnds` of the paid query; `ReadStatus`,
`ReadRows`, `Respond` are a dashboard request that reads the store meanwhile.
`Connector` is concurrent tool calls that share an ID token and refresh it under a lock
while other processes log in and out. `Signals` is one `Pressure` or one `Progress`.
`Calls` is the attempts of one call, `Helpers` one run of a helper command from its permit
to the reaping of its children, `Credentials` what is kept until it expires behind a mutex.

### Policies, Assessment, View, Releases

These are functions of their inputs in the code, and operators here: what one observation
says of its resource, the verdict on a deployment from what each of seven statements saw,
what the dashboard is shown, the release of each image in use with its origin. `MCRules`,
`MCQueries`, `MCReleases` and `MCReading` enumerate families of inputs in each of which
one part of the evidence varies. The settings of the policies are the constant
`RuleSettings`, which the proofs leave open and the run `story` gives as `StoryRules`.

`VerifiedIsEvidenced` of `Releases` asks for a build of each digest whose revision is that
of the commit, *or names none*: `enrich` collects the revisions of those builds that have
one (`releases.rs:134-143`) and compares only these, so of two images that run, one may be
vouched for by a build of unknown revision. The family `ByDigests` contains such results.

## 3. The runs

| Run | Parts and bounds | Properties |
|---|---|---|
| `answers` | `Findings`: two resources compete for one place, one check, two confirmations of each kind; complete, incomplete, truncated, fresh and cached readings, so overflow, withdrawal and a second attempt occur. `Pages`: three rows, one change, one expiry. `Retention`: a batch beyond the cap, a trim that removes fewer than there are. `Credentials`: two transports, two keys, two rotations, five units of time with a validity of two. Input families of assessments, views, releases, lists (three pages, two rows each), measurements | `TypeOK`, `RecoveryConfirmed`, `RemovalConfirmed`, `HealthySupported`, `WalksHold`, `RetentionHolds`, `CredentialsHold`, `AnswersAreObserved`, `OriginsAreEvidenced`, `CompleteMeansRead` |
| `shared` | `Findings`: two checks of one listing, a reload may deselect one | `CountsAreEvidence` |
| `story` | `Findings`: one check, one-off runs, two severities, staleness; reloads to smaller limits, other scopes, deselection. `Recorder`: one finding with two contents, a queue of two, a restart. `Connector`: two calls, three tries, one fault of the store. `Signals`: freshness 2, sustain 3. `Fanout`: three endpoints that ask for each other; in each of seven settings another limit binds. `Calls`: three attempts within three attempt times. `Helpers`: one run. Rules over their inputs | `WithinLimit`, `StoryTold`, `HistoryAgrees`, `LoginOnlyWhenNeeded`, `FaultsAreSustained`, `NothingOmitted`, `CallsAreOrderly`, `EvidenceDecides` |
| `services` | `Costs`: two days, an allowance of two, sizes one and two, a fault and restarts. `Admission`: three callers in two scopes of which one hangs, one helper, two attempts, two reloads. `Caches`: two checks, two revisions, one renewal, one rotation. `Reads`: two readers, two generations, one mark of the journal, one entry | `NeverPartial`, `SpendBounded`, `ResponseUnmixed`, `CurrentImported`, `ScopeCeiling`, `OthersProceed`, `SharedIsSound`, `ReadersGoForward` |
| `watch` | `Publication`: four transitions, a batch at the queue's limit, two faults, a crash at any point and the restart. `Scheduler`: two jobs in one or two scopes, a channel of one, two reloads that move, remove and lower; or two samples of each check | `NothingLost`, `CleanEnd`, `EvidenceKept`, `QueueDrains`, `TasksMatchSlots`, `RemovedAreCancelled`, `SignalsReached` |
| `accounts` | `Journal`: four records, a queue of one batch, three bytes, one fault, two rejects, the flush at any point. `Budget`: two waiters, a bulk caller for two units, limits 1 to 3, two resizes | `LossesAccounted`, `GapsAreReported`, `PermitsAccounted`, `AcquireEnds` |
| `lines` | `LogCursor`: windows of one and two units with an overlap of one, a line that comes late, two results waiting, one reload or restart over three revisions of which one changes the job | `CountedExactlyOnce`, `OutageReported` |
| `first`, `flush`, `stuck`, `outage`, `unmeasured` | *violated*, see below | one each |

The bounds are chosen for the cases: a limit needs one more than fits, a confirmation
count of two needs three readings, a race needs each actor once in its window and once
outside it. Every action and disjunct of each next-state relation fires in a passing run.
All configurations say `CHECK_DEADLOCK FALSE`, as clocks, records and faults are bounded
and all of these programs may stop. Symmetry is used only in runs without liveness, over
resources, checks and revisions that no constant tells apart.

`AcquireEnds` is claimed of behaviours in which the bulk callers are idle from some time
on: `try_acquire_many_owned` takes units without a turn and could overtake a waiter for
ever, but no budget of this code has callers of both kinds. `lines` is claimed with
`Returns = FALSE`, see the observations.

### Findings about the code

* `first`. In a directory where nothing was published yet, a crash or failing step after
  the snapshot file of the first publication leaves that file and no marker. `latest()`
  (`core/src/storage.rs:138`) falls back to it, so the restart resumes from transitions that
  no events file has, although `storage.rs:103` calls `monitor-latest.json` the publication
  marker. Once a marker exists this cannot happen, which is what is proved.
* `flush`. `journal.rs:31` counts queued and in-flight work together "so shutdown cannot
  race a dequeue". `flush` loads that count first and the pending losses after it
  (`journal.rs:95-97`). Between the loads the worker may take the pending losses into a batch
  of its own; `flush` then succeeds and the stop drops the gap. Records cannot be lost that
  way (`LossesAccounted`).
* `stuck`. `cost_begin` (`history/src/cost_write.rs:56`) resumes the youngest unpublished
  import whatever period is due, and a paid query job that ended with an error is found
  again by its name on every pass. That source imports nothing any more, also not the
  current period that `docs/plans/2026-09-07-dashboard-billing-operations.md:66` gives
  priority.
* `outage`. `docs/architecture/be/design.md:34` says each window reports missing history. A
  reload clears all log cursors (`router_lifecycle.rs:33`), even one that changes nothing,
  and a restart restores only the cursor of a stored complete result. After either, a window
  has no cursor, and an interval without complete collections that is longer than the window
  is skipped without a word. With its cursor the same window would report it.
* `unmeasured`. An empty page sets the outcome of a list to zero records
  (`providers/src/endpoint_scan.rs:114`), so a list whose last page is empty counts as a
  successful empty inventory, which suppresses the metrics of the service
  (`aws_metric_inventory.rs:1`), although its observations are kept.

### Observations

No sentence of the repository promises otherwise of the following, so no run states it; a
reader of the code should know of it.

* **Log windows.** A reload to a configuration and back, while a result of the first is
  waiting and the next collection has started from its cursor, drops the result and applies
  the collection: the interval between is lost unreported. Revisions are content hashes, and
  tasks whose job did not change are not cancelled. `Returns` says whether this may happen.
* **Findings.** A reload that drops the check whose complete listing made a resource healthy
  leaves it healthy until the next result or expiry (`state_lifecycle.rs:251`), although
  another check sees it only in incomplete listings; `HealthySupported` is checked with one
  check for this reason. An older cached reading of another check can raise a recovered
  finding again. `retain_scope` drops findings with no transition, and `supervise.rs:117`
  publishes that with no transitions, so rows of the history stay open (`astray` of
  `Recorder`). An observation has one verdict, and one fault can mask another.
* **Scheduler.** The cursor moves on every pass (`scheduler.rs:137`), also on one that
  admits nothing; with more due jobs than slots nothing keeps the turn from falling to the
  same job each time a slot is free.
* **Collections.** `azure_logs.rs:32` and `changes.rs` cut with `take(max_series)` and report
  no limit; unknown aggregation types, rows without identity (`discovery.rs`, `github.rs`)
  and unnamed rows of a registry are skipped silently, where other readers report them as
  malformed. A cancellation within the consumer loop of `nats_collect` ends it silently.
* **Retention.** `evicted_through` is set to the end of the last evicted row, not the
  greatest, and may move back (`behind` of `Retention`); gap rows are trimmed without a
  watermark; one pass removes at most 2048 rows where a batch may add 20000.
* **Server.** A page without rows gives no cursor in either direction; cursors of the checks
  are not bound to filters. A check without an earlier run has no gap, and the gap of a
  removed check lasts until its rows expire. `valid_until` of a release leaves out facts
  about owner and workload. A failed refresh of a key at its expiry refuses everybody for up
  to 60 seconds.
* **Credentials.** `kube_auth.rs:73-95` sets the expiry before the new client is built; if
  that fails the old client is used on. The expiry of Azure and AWS tokens is compared with
  the time before the fetch.
* **Costs.** `reserve` counts imports that were started today or are unpublished;
  `aggregate` drops the amount of a prior day that has no current rows.
* **Locks.** Cache mutexes, scope budget, process budget and helper permits are taken in one
  order everywhere: there is no cycle.

## 4. Fairness

* `Publication`: the ticks of the monitor's loop are timers, the blocking thread runs, and
  disk faults are finitely many. Weak fairness of ticks, writer and backoff.
* `Scheduler`: weak fairness of the loop, of collections, of timers and of the monitor's
  `Receive`; strong fairness of `Join` and `Update`, because the sleep they compete with
  lasts at least ten milliseconds and the biased `select!` takes a ready arm before it.
* `Budget`: weak fairness of each caller's steps. A compare-and-swap that fails means
  another one succeeded; strong fairness of a successful `Exchange` stands for a caller that
  is not overtaken for ever. Permits are dropped when the operation ends.
* `Journal`: weak fairness of the worker's steps, strong fairness of `Receive`: the
  maintenance tick is one of two ready arms only once per period.
* `Costs`: the worker's timer comes round, and a query job ends in one way or another.
* `Admission`: the reload that was begun ends, a free permit is taken by the first in the
  queue, a cancelled task leaves, helper calls have a timeout. The provider of a scope in
  `Stuck` need not answer.
* `Caches`: collections are started and their calls have timeouts; strong fairness where a
  mutex is awaited, which tokio grants in order.
* The other parts have safety only.

No fairness is assumed of providers, of operators, of faults, or of crashes.

## 5. What is proved

TLAPS checks the following for every value of the constants under the named `ASSUME`s of
the modules (finite sets where the code has finite maps, positive confirmations and
capacities, an overlap within each window as `limits.rs:12` demands, and a `None` that is
none of the values). Each theorem is of the component's own specification; the run of the
same property checks it on a small instance.

| Theorem | States | Argument |
|---|---|---|
| **`FindingsProofs`** `TypeCorrect` | `TypeOK` | what `Check` builds from readings is well formed (`CheckInput`), and `apply` maps well-formed states and inputs to well-formed states (`ApplyType`) |
| `RecoveryIsConfirmed` | `RecoveryConfirmed` | a counter in a finding must be tied to the ghost: `ClearsAreEvidence` says it never exceeds the number of distinct clean readings. `Counting` is the step where a counter rises by one and a new time joins the set |
| `RemovalIsConfirmed` | `RemovalConfirmed` | likewise with `AbsencesAreEvidence`, over complete listings of one check |
| `CountersAreEvidence` | `CountsAreEvidence` | from both |
| `LimitHolds` | `WithinLimit` | inductive with `TypeOK`; cardinalities through overflow, withdrawal, and reloads to smaller limits |
| `StoryIsTold` | `StoryTold` | each step is a step of `Episodes` or a stutter, while open and retired findings are apart (`Apart`) |
| `HealthIsSupported` | `HealthySupported`, of a target with one check | `Dated`: what a complete operation lists was read with it, so that whatever expires the operation expires the health of its resources |
| **`MonitorProofs`** `NothingIsLost` | `NothingLost` | a crash forgets the queue and a late acknowledgement removes from it; `IInv` adds what the write under way carries (`Captured`), the queue relative to it (`Kempt`) and the disk (`DiskInv`) |
| `EvidenceIsKept` | `EvidenceKept` | each step is a step of `Evidence` or a stutter, by the order of the files in `publish` (`TaskStep`) |
| `EndIsClean` | `CleanEnd` | `Final`: while closing, the write under way is the final snapshot with all that is queued |
| `TasksAgree` | `TasksMatchSlots` | `Bookkept`: tasks are unique, the running jobs are theirs, slots are counted by job; lemmas on the round-robin scan (`EveryEntryComes`) |
| `RemovedStop` | `RemovedAreCancelled` | inductive with the types |
| **`AccountsProofs`** `PermitsFit` | `PermitsAccounted` | `LastSaw`: of any callers that are charged, one of them since the last resize, the last to come has seen the others; `Compared` is what the compare-and-swap knows |
| `NothingEscapes` | `LossesAccounted` | `Located` says where each record is, `Books` what the counters and gaps say of those that are nowhere, through writes that are committed and not confirmed |
| **`CostsProofs`** `PartitionsAreWhole` | `NeverPartial` | inductive with `TypeOK`; extremum lemmas for the import that is resumed |
| `SpendIsBounded` | `SpendBounded` | `Allowed`: what is paid for, and what is charged to a day |
| `ResponsesAreUnmixed` | `ResponseUnmixed` | `Noticed`: a publication between status and rows changes the status that is read again |
| **`LogCursorProofs`** `OutageIsReported`, `LinesAreCounted` | `OutageReported`, `CountedExactlyOnce` | `Order` (results in the channel are in order, the cursor is of the latest), `Once`, and under `~Returns` `Reaching`, `NoSilence`, `Sound`, `Evident` |
| `NoLineTwice` | | the half of `CountedExactlyOnce` that needs no condition on reloads |
| **`SharingProofs`** `CeilingHolds` | `ScopeCeiling` | a property of steps, from `AdmissionInv`: where a caller stands, and which budget is charged for it |
| `SharingIsSound` | `SharedIsSound` | `Made` and `Rightful`: which revision a client was made for, and who may hold which scope |
| `ReadersNeverGoBack` | `ReadersGoForward` | `Published`, entries no older than their keys, and what each request was promised |
| **`SafetyProofs`** `LoginIsNeeded` | `LoginOnlyWhenNeeded` | `Held`: the lock goes with the exchange; `Renewed`: once a call had a token refused, the process has only tokens issued since; `Intact`: what is stored is granted, or about to be replaced by what is |
| `HistoryIsTrue` | `HistoryAgrees` | `OneOpen` of what is written, and `Follows`: the last batch under way that names a finding, or else the rows, tells what the recorder has open, unless the finding is `astray` |
| `CallsStayOrderly` | `CallsAreOrderly` | `CallInv`: before the end no answer was conclusive and an attempt is left during a pause; `HelperInv`: which phases hold the permit, and what may run in each |
| `CompleteIsWhole` | `NothingOmitted` | `Uncut` and `FollowedUp`: while nothing was cut, all that was taken is an operation or a branch, and what the rows of a complete operation ask for was taken or waits; `Learned`: nothing else was taken (`ReachableIs`) |
| `AnnouncedIsSustained` | `FaultsAreSustained` | `Tracked`: a clock that runs began with a `Run` of readings without gap; a run begins, goes on, or has its last reading judged again |
| `VerdictsAreOrdered` | `VerdictsFollowEvidence`, for any settings and any prior observation | one lemma for each policy and each field it compares: another value of one field leaves the others (`FieldChanged`), so the verdict is compared along the branches |
| `PointsJoin`, `AlertsClear` | recovery points and log findings, in any number and order | folds over a sequence, see below |
| `EvidenceAlwaysDecides` | `EvidenceDecides` | the three above, on every input of `MCRules` |
| **`AnswersProofs`** `CredentialsAreSound` | `CredentialsHold` | `Asking`: what may be answered was published since the request began, which has its time; `Kept`: no key outlasts the last publication by more than keys are kept |
| `BoundaryIsHonest` | `RetentionHolds` | `Gone`: what is missing has expired, or ended before the watermark and before all that is left, so a watermark that moves back after an interruption stays beyond it; `Chosen` between marking and deleting |
| `AssessmentIsObserved` | what `AnswersAreObserved` says of an assessment, for any records | what the seven statements selected are records of the world as it is (`SeenIs`, `WindowsAre`), within their windows; an outcome is then traced to the records that each of its conditions saw, and what a window left out was not complete |
| `ViewIsObserved` | what it says of a view, for any snapshot | the best of any number are there to be taken (`TopExists`), so what is left out of the five problems is no worse; the previews are a fold over findings, of which `ShowingShortens` says what each step keeps |
| `AnswersStayObserved` | `AnswersAreObserved` | `Answerable`: the inputs are `Coherent` records or a `Snapshot`, and stay so |
| `OriginIsEvidenced` | what `OriginsAreEvidenced` says, for any published results | a fact is an observation that nobody tried to read since (`FactIs`); of two facts that agree there is one revision (`OneIs`, `RevisionIs`), so a fault rests on a row or a build that contradicts, and the expiry is a minimum over the sources (`EarliestIs`) |
| `OriginsStayEvidenced` | `OriginsAreEvidenced` | `Traceable`: every family of inputs is `Published` (finite lists, times in `Nat`), and stays so |
| `WalksComeToAll` | `WalksHold` | rows have ranks (`InOrderIs`), an answer holds the next ranks up to its new cursor (`Continues`), so `Shown`: what is due was shown once if its place is passed and not yet if it is ahead |

Three assumptions are more than the shape of the data. `HealthIsSupported` is of one check:
with several the property is not invariant, as observed above. The first three theorems of `MonitorProofs`
assume `Marked`, that a publication was once completed in the directory; without it the
run `first` shows the violation. `OutageIsReported` and `LinesAreCounted` say
`~Returns => …`; with it the first observation above is the counterexample, and the state
in which a reload returns to an earlier configuration is left out by nothing else.

### Folds

Recovery points, log findings and the previews of a view are folds over sequences or sets.
No induction rule can be cited for them, because those of the library take an operator as a
parameter. Two things replace it. The folds of the library are recursive functions on the
subsets of what is folded, and that such a function exists is proved by least
counterexample: the sizes up to which there is none, if there are any, have a least member
(from the well-foundedness of `Nat`), and from the function for the size before it one for
that size is put together (`FoldExists`, `ShowingExists`). What the fold has done after `n`
items is one formula, an invariant of the fold, and the least size at which it fails is
refuted by the lemma about one step (`JoiningKeeps`, `ClearingKeeps`, `ShowingShortens`).
What the code selects with a sort and a cut, the models select with a `CHOOSE` of a greatest
or least member, and the proofs show that there is one (`Greatest`, `LatestIs`,
`EarliestIs`, `TopExists`).

The hypotheses of these theorems (`Coherent`, `Snapshot`, `Published`) say that lists end and
that times and limits are numbers; that every input of the suite satisfies them is proved
too, and is the inductive invariant of the theorems about its behaviours.

### Model-checked only

* Liveness (`QueueDrains`, `SignalsReached`, `AcquireEnds`, `GapsAreReported`,
  `CurrentImported`, `OthersProceed`) needs `ENABLED` and fairness, which are beyond the
  prover.
* `CompleteMeansRead` is of some twenty readers and measurements, most of them a
  fold of its own over pages or answers; the argument above would be needed for each.

## 6. Not modelled, and why

Wording, formatting, report layout, HTTP, SQL text and the claims of tokens. Parsing,
layering and validation of configuration is sequential and has table tests; the models
take resolved configurations. The projection of the rows of single services, the schema
and pool of the database, the lock of the evidence directory and the deletion of old files
are left out. The command line, benchmarks and the dashboard hold no state of their own.

## 7. Plan

1. `CompleteMeansRead`, reader by reader, by the argument of section 5.
2. `HealthySupported` of several checks holds up to the next result or expiry after a reload;
   a history of reloads would be needed to state that.
