# getitdone: a TLA+ model of the task queue

`getitdone` turns a MongoDB collection into a request/response mailbox: a
*caller* writes a task document and waits for it to be finished, *workers* claim
documents, run a handler under a heartbeat lease and write the result back.
There is no server of its own: every guarantee rests on the filters of single
document updates and on what the processes remember between two awaits. That is
what this project models, checks with TLC and proves with TLAPS.

## 1. Inventory

| Component | Source | State | Operations |
| --- | --- | --- | --- |
| Task collection | `worker.rs`, `caller.rs` | one document per `task_id`: `status`, `task_input`, `worker_state`, `task_output` or `error_reason` | the updates of the two roles, each atomic |
| Enqueueing | `caller.rs` | none besides the builder | `upsert_task` (insert or reset), `enqueue_only`, `dispatch`, `send` |
| Waiting | `caller.rs` | position in `wait_for_result`, change stream | `inspect_task`, `watch_for_result`, `evaluate_document`, timeout |
| Claiming | `worker.rs` | semaphore, `InFlightRegistry`, claim under way | `pump_available_tasks` (Ready, StaleRecovery), `pump_expired_tasks`, `claim_*`, `spawn_claimed_task` |
| Task execution | `worker.rs` | position in `process_task`, guard, permit | setup, handler, completion write, `mark_task_failed` |
| Heartbeats | `worker.rs` | one detached loop per claim, `hb_stop` and `lost_ownership` channels | beat, superseded, transient error, stop |
| Worker life cycle | `worker.rs` | `worker_loop`: change stream, `JoinSet`, tracker, ticker; `WorkerHandle` | `run`, open and reconnect, the six arms of the select, stop, drain, drop |
| Expiry tracker | `worker/expiry.rs` | `tasks`, `deadlines`, `pending_may_exist` | `upsert`, `remove`, `pop_due`, `defer`, refresh, change events |
| Configuration, storage, tracing, metrics, errors | the other files | values, client, meters | builders, index warnings, spans, counters |

How they interact. Callers and workers share only the collection. Inside a
worker, `worker_loop` is one task that awaits its pumps inline; each claimed
document becomes a `process_task` in its `JoinSet`, and each `process_task`
starts a heartbeat loop that is detached from it. They meet in the semaphore, in
the in-flight registry and in two oneshot channels.

What is hard. Claims, heartbeats, results and resets of several processes
interleave in any order, also under one `worker_id`; ids and timestamps are read
before an await and used after it; any database call may fail, or be applied and
lose its reply; a process may stop, be dropped or die between any two steps; a
change stream shows a document later than the event it is about. The full list,
with the line where each hazard bites, is under `hazards` in `PROJECT.json`.

What makes the parts correct:

* collection: a task gets one answer per submission, and it answers that
  submission, whatever superseded claims are still running;
* claiming: a written claim is started, no process runs a task twice, no permit
  is lost, no lease is broken early;
* execution and heartbeats: "superseded" is never a false alarm, a superseded
  handler stops, and only a superseded handler is aborted;
* waiting: no stale answer, every wait ends;
* expiry tracker: its two indexes agree, and it forgets a task that runs
  elsewhere only at the few places where the code drops an entry on purpose;
* worker loop: a pending task and a free permit do not wait for each other, an
  abandoned task is run again, a stop signal is served;
* lease timing: a healthy owner is never found expired.

## 2. Modules

```
TaskMailbox              abstract: requests and answers
  ^ implemented by         ^ used by
WorkerClaims             CallerWait
  ^ MCWorkerClaims         (TLC runs it directly)
  ^ WorkerClaims_proofs    ^ CallerWait_proofs
  ^ WorkerCapacity_proofs

ExpiryTracker            the tracker as operators
  ^ WorkerLoop             the event loop that uses it
      ^ MCWorkerLoop
      ^ WorkerLoop_proofs
          ^ LoopTracking_proofs
          ^ LoopWakeup_proofs

LeaseTiming              one lease in real time
  ^ LeaseTiming_proofs
```

**TaskMailbox** says what the collection promises: a task holds one request, gets
at most one answer to it, and only a resetting submission replaces an answered
request.

**WorkerClaims** is the core. Its state is the documents (`status`, `task_input`,
`worker_state`, `outcome`), per process the loop's life cycle, the claim attempt
it awaits, the registry and the free permits, and per claim token the
`process_task` and the heartbeat loop of that claim. One action per operation:

| Action | Code |
| --- | --- |
| `upsert_task` | the upsert of `caller.rs`; the reset arm asks for a finished status |
| `run`, `stop_received`, `drained`, `abort` | `Worker::run`, the stop arm, the drain loop, `WorkerHandle::drop`, loop error or death |
| `pump_ready`, `pump_stale`, `pump_expired` | one turn of a pump: permit, snapshot of ids and time, send the claim |
| `claim_won`, `claim_missed`, `claim_failed`, `claim_unanswered` | the reply, including `spawn_claimed_task` and the second filter of `ClaimMode::Ready` |
| `setup_*` | payload and the confirming heartbeat of `process_task`; a switch timeout of zero makes the heartbeat loop panic as it starts |
| `handler_returns`, `handler_lost`, `handler_aborted` | the select of `process_task`, panic, output that does not serialize |
| `complete`, `mark_task_failed`, `finish_error` | the final writes |
| `beat`, `beat_superseded`, `beat_error`, `beat_stopped` | the heartbeat loop |

Abstractions: a payload is the submission it came with; `outcome` is the claim
whose result the document holds; the sort of a claim is a free choice among the
matching documents; what triggers a pump is left open, so a live worker may pump
at any time (more than the code does, so the safety results carry over). Kept:
the snapshot of ids and time across the await, both ways for a database call to
fail, the permit and guard on every path. A write that reaches the server after
its sender saw an error or was aborted is the same step taken just before that.
A process runs once; a restart is another process with the same `WorkerId`. A
killed process is `abort` followed at once by `beat_stopped` of its loops. There
is one clock for all processes. A heartbeat is stamped with any time since the
last one, because its timestamp is taken before it is sent. `abort` empties the
registry; the code would keep the id of a `process_task` that was never polled,
but only the statistics of a dead worker could still read it. `complete` and
`mark_task_failed` apply the final write and drop guard and permit in one step
(`finish`), although the code awaits the reply in between. That hides nothing here:
a superseded claim already gives an id in flight beside a document that is finished,
reset or claimed by somebody else, and no other process reads guard or permit.
`WorkerLoop`, whose tracker asks the registry, has the two as two steps.

**CallerWait** builds on `TaskMailbox` and adds the events of the change streams:
a stream starts where it is opened, and the document of an event is looked up
when the event is processed (`lookup`) and delivered later (`next_event`). Whether
a reset predicate matches the document is a free choice. What the value
deserializes to, and the kind of a stored failure, are not told apart: both are
"the answer". A payload that does not serialize returns before anything happens
and is left out.

**ExpiryTracker** has no variables: every method of the struct, the two refreshes
and the change events are operators from tracker to tracker. A map is a function
on its keys, the clock an argument. A change event carries what the written
fields carry: a claim the claimer's `switch_timeout_ms`, a heartbeat nothing but
its time. `IndexesAgree` says when the two maps fit together.

**WorkerLoop** is `worker_loop` of one worker, with its handlers, a peer, callers
and operators around it. `pc` is the await the loop stands at, so that everybody
else may act there:

| `pc` | Actions | Code |
| --- | --- | --- |
| `open` | `open_change_stream`, `open_fails`, `open_unsupported` | startup and the head of the loop |
| `scan`, `probe` | `scan`, `scan_fails`, `probe`, `probe_fails` | `refresh_running_expirations`, `refresh_pending_tasks` |
| `pump` | `pump_claims`, `pump_tries_own`, `pump_misses`, `pump_fails` | `pump_available_tasks` with the two filters of `ClaimMode::Ready` |
| `expired` | `expired_*` | the loop of `pump_expired_tasks` over what `pop_due` returned |
| `select` | `select_*` | the arms of the select |
| `draining` | `drain` | joining the `JoinSet` |

A pump takes its permit and the snapshot of in-flight ids when it sends a claim;
the claim meets the collection when it is answered. The end of a `process_task` is
two steps: `handler_completes` applies the final write, `handler_returns` drops
guard and permit once the write is answered, or once it matched nothing or was not
tried because the claim no longer owns the document. In between the id is in flight
beside a finished document, which a caller may reset and the peer claim
(`overtaken`). An error comes in two kinds, applied or not. The stream holds the events between their write and the loop
reading them; `select_stream_lost` loses them. `open_unsupported` ends the loop
and drops its `JoinSet`.

Time is relative. `Now` is a constant and `Tick` makes everything that is stored
one tick older, down to 0; no timeout exceeds `Now`, so a time of 0 has expired
whatever its timeout. Clocks run for ever and the state stays finite, which the
liveness properties need.

Other awaits are one step, where nobody can tell the difference. A won claim is
applied and answered at once: tracker, registry and permits are read by the loop
alone, which is waiting for the reply, so whatever the others do before the reply
they could as well do after the step; the same holds for a claim that finds nothing.
A scan reads all documents at one moment: the stream is open by then, so whatever
changes during the real scan has an event that is read after it.

What the relative time gives up: a claim reads the time when it
is answered, not when it is sent (`WorkerClaims` keeps that difference), and there
is one clock (`LeaseTiming` has two).
The peer is a worker reduced to its writes. `WorkerHandle::drop` is `abort` in
`WorkerClaims`. `Arms` and the tracker's `named` flag tell whether a `task_id` is
known: an entry installed by an update event has only the document id.

**LeaseTiming** follows one lease: the claim, the heartbeat that confirms it, and
the beats of the loop, each sent, applied and answered within given bounds.
`Poll`, `Apply`, `Reply` and `Skew` bound how late the runtime polls a ready
loop, how long a write takes to arrive and to be answered, and how far another
worker's clock is ahead. Time stops where something is overdue: that is what
"healthy" means here.

Operators whose comment says "Mutant" are deliberately wrong versions of the
definition below them; `PROJECT.json` names the property each one breaks.

## 3. Runs

| Run | Checks | Instance |
| --- | --- | --- |
| `claims_shared_id` | results, supersession, start of claims, registry, permits, both inductive invariants, refinement of `TaskMailbox` | 2 processes with one identity, 2 permits each, 1 task, 2 submissions (one resets), 3 claims, timeouts 1 and then 0 |
| `claims_lease` | type, `StolenOnlyAfterSilence`, `SupersededHandlerStops` | 2 identities with 1 permit each, timeout 1, clock to 2, one malformed payload, 2 claims, fair heartbeat loops |
| `caller_answers` | type, `NoStaleAnswer`, `SendsSeeNoPast`, `AnswerReachesWatcher`, `OnlyLateWatchStrands` | a timed send, a resetting send, 1 `await_response`, 6 writes |
| `loop_tracking` | type, `TrackerConsistent`, `MissMeansNews`, `OnlyDropsForget`, the inductive `ViewInvariant` | 2 tasks, 2 permits, a peer, 1 reset, no faults, 2 unread events |
| `loop_single_permit` | `PendingHasWakeup`, `PendingIsPickedUp`, `TimerRecovers`, `StopIsServed` | 2 tasks, 1 permit (the setting of `docs/single-inflight-pending-wakeup-incident.md`), a stop signal at any time |
| `loop_recovery` | `PendingIsPickedUp`, `TimerRecovers`, `AbandonedIsRecovered` | 1 task, 2 permits, a peer that steals, 1 reset, 1 fault |
| `lease_timing` | `HealthyLeaseKept`, `LeaseInvariant` | timeout 12, reply 5, skew 4, clock to 40 |
| `loop_stranded` | violated: `NoPendingIsStranded` | 1 task, 1 fault, every arm fair |
| `claims_abort` | violated: `AbortedOnlyIfSuperseded` | 1 process |
| `claims_shutdown` | violated: `StoppedWorkerHoldsNothing` | 1 process |
| `caller_gap` | violated: `EveryWaitEnds` | 1 send, fairness |
| `caller_database` | violated: `DatabaseErrorMeansNothingPersisted` | 1 send |

Why the bounds are enough to be interesting. A late write of a superseded claim
can only do harm across a reset, which needs three claims (the old one, the one
that finished, the one after the reset) and two submissions. Two processes with
one identity are the case the `claim_token` exists for. Two permits let a process
pump while a task is in flight. The first submission of `claims_shared_id` has a
timeout of one tick under a still clock: the tasks change hands through the
shared identity and live heartbeat loops are superseded. The second has a timeout
of zero, is found expired at any moment, and its heartbeat loops panic. The
arithmetic of the lease is the business of `claims_lease`. The proofs remove
all of these bounds.

In `WorkerLoop`, `room` bounds the unread events (`MaxEvents`): the others wait
while the stream is full, the loop never does. `joinable` bounds the process tasks
that are over and not joined, `MaxFaults` the errors, `MaxResets` the resets. Two
tasks and two permits let the loop claim one task while events of the other wait,
and let a reset task be claimed by the peer while the loop still has its id in
flight. Two unread events of the others are enough there: completions come on top,
and every disjunct of `drops` that is not a fault is reached. With two permits a
reset task can be tried while a stolen handler of it still runs. `lease_timing`
runs over three timeouts, with a reply that is slower than the interval.

The README of the repository says that "dead-worker pickup does not depend on a
frequent polling sweep" (`README.md:117`) and that the periodic path is "a safety
resync, not the normal scheduler" (`README.md:180`). The code keeps that promise
with four exceptions, where the tracker lets go of a task that still runs:

* an operation fails: a scan that breaks off, a targeted claim that errs
  (`worker.rs:939`);
* the task was *overtaken*: the peer runs it while a `process_task` of an earlier
  claim is still in flight here, because it was stolen or because it was reset
  behind the final write. Its entry is skipped (`worker.rs:861`), or excluded from
  its own targeted claim;
* a popped list is *cut short*: `pop_due` takes out all due entries, and without a
  permit `pump_expired_tasks` defers one and drops the rest (`worker.rs:878`);
* the task asks for a longer switch timeout than the workers have (the negation of
  `TimeoutsCover`). The tracker computes a deadline from the claimer's or the
  observer's timeout (`expiry.rs:326`, `:340`), the claim filter from the
  document's. The entry is popped early, the claim matches nothing, and no event is
  under way that would track the task again.

`OnlyDropsForget` says that there is no other place: every step after which the loop
neither tracks a task of the peer nor has an event for it is one of `drops` (under
`TimeoutsCover`, and without broken scans). `TimerRecovers` says that outside these
cases the timer alone recovers what a dead worker left; each of them is a premise.
`loop_single_permit` has two tasks for one permit, so lists are really cut short
there, and without the premise `~cut_short` the property fails. In all four cases
the ticker remains: `AbandonedIsRecovered` rests on it alone.

Deadlock is not checked: the instances run out of
submissions and claim tokens (`Tokens`, `MaxTime` and `MaxEvents` are the bounds),
and a queue with nothing to do rests.

Symmetry is used for tokens and processes in `claims_shared_id` and for tasks in
`loop_tracking`; it is off in the runs with liveness properties.

Fairness. `HeartbeatFairness` asks for the heartbeat loop's tick to be served and
for the select of `process_task` to act on the notice: both are ready futures of
the Tokio runtime. In `CallerWait` and `WorkerLoop` each liveness property names
the fairness it needs as its premise, so that one run shows which mechanism each
rests on. `Served` is that some worker finishes each task and that the database
answers this caller.

In `WorkerLoop` the base (`Driven`) is that the loop is driven through its awaits
and that handlers return, both weakly fair, and that the change stream can be
opened some time (strongly fair, since it may fail in between). `tokio::select!`
polls its arms in random order, so an arm that is ready again and again is taken
some time: strong fairness per arm, assumed only of the arms a property needs.
`PickupFairness` needs events and completions, `TimerFairness` events and the
tracker's timer, `TickerFairness` completions and the ticker, `StopFairness` the
stop arm. `loop_stranded` has all of them fair, and is violated all the same.

### What the violations show

* **claims_abort.** `TransientError` makes the heartbeat loop leave, which drops
  `lost_ownership_tx`. The receiver then resolves with an error, and the arm
  `_ = &mut lost_ownership_rx` takes it: the handler is dropped although the claim
  still owns the document. The comments at `HeartbeatOutcome` say this must never
  happen.
* **claims_shutdown.** A drained worker leaves a document running when a handler
  panicked or its output did not serialize. No code marks tasks failed on
  shutdown.
* **caller_gap.** A result written after `inspect_task` and before the stream is
  open produces no later event. There is no polling fallback, so a send without a
  timeout, and every `await_response`, may wait for ever.
* **loop_stranded.** An error of the claim uses up the event that asked for it.
  From then on the periodic branch finds the pending task every ten minutes, sets
  the hint, and pumps `StaleRecovery`; nothing reads the hint. An idle worker
  leaves the task until another event, a completion or a reconnect. Without
  faults `PendingIsPickedUp` holds, and `WakeupNeverLost` shows that no other
  fault leaves the loop at rest beside a pending task with no wake-up to come.
* **caller_database.** A `Database` error also comes from a lost reply of the
  upsert and from the wait that follows it, with the task in the collection.

## 4. Proofs

All for arbitrary sets of tasks, requests, processes, identities and tokens, under
the assumptions `ConstantsAssumption` and `CallerAssumption` (the null values are
not ordinary values; timeouts and bounds are naturals) and those named below.

* `WorkerClaims_proofs`: `TypeCorrect`; `ClaimsCorrect`, the inductive
  `ClaimInvariant`; from it `ResultsMatch`, `SupersededForGood` and
  `CollectionIsMailbox`, the refinement of `TaskMailbox`.
  `ResultMatchesRequest` is not inductive: the completion write checks the token
  in the document, so one must know that a running document is held by a claim
  made on this task for the payload it *still* holds. A reset asks for a finished
  document, hence never swaps the payload under a running claim. For
  `SupersededIsDefinitive` one must know that an unused token has no heartbeat
  loop: a claim writes a fresh token, so a token that has left a document never
  returns to it.
* `WorkerCapacity_proofs`: `CapacityCorrect`, the inductive `CapacityInvariant`;
  from it `OneHandler`, `ClaimsStart`, `PermitsBalance`, and `NoEarlySteal`.
  `ClaimedTaskIsStarted` needs that the snapshot of a pump still covers the
  registry when the reply arrives: only the loop itself adds to the registry, and
  it is awaiting the claim. `PermitsConserved` counts active claims, so the
  invariant carries that their set is finite. `NoEarlySteal` also needs that the
  time a pump read is not in the future, and that a change of identity cannot come
  from the own-task filter.
* `LeaseTiming_proofs`: `LeaseInvariantHolds` and `LeaseIsKept`, for every timeout
  and every delay within `HealthyAssumption`: a third of the timeout, or one slow
  reply, plus polling, delivery and skew, stays below the timeout. The invariant
  says in each phase how far the document may lag: while a beat is under way the
  document still holds the one before, whose age is what decides.
* `WorkerLoop_proofs`: `LoopTypes` and `TrackerStaysConsistent`, both from the
  inductive `LoopInvariant`, under `TimeoutAssumption` and `LoopAssumption`. One
  lemma per operation of `ExpiryTracker` says that it keeps a tracker well formed
  (`IsTracker`: types, and the two indexes agree). `insert`, and with it `defer`,
  needs an id that is not tracked, so the invariant adds that popped entries exist
  only inside `pump_expired_tasks`, that they are not tracked, and that the task
  the loop is trying to claim is not among them: nothing but the loop writes the
  tracker, and a won claim tracks a task that has left the popped ones.
* `LoopTracking_proofs`, on top of `LoopInvariant`: what the loop knows about the
  running tasks.
  - `ViewStaysRight`, the inductive `ViewInvariant`, and from it `MissesMeanNews`,
    under `TimeoutsCover` and for behaviours in which no scan fails. A scan that
    breaks off leaves a tracker that agrees with nothing, and the code has no
    answer to that but the next scan; every other fault is allowed, and so is a
    peer that steals.
  - `ForgottenOnlyWhenDropped`, that is `OnlyDropsForget`, under the same
    conditions. Claims of the pumps may fail, handlers be lost, streams break,
    tasks be stolen or reset behind their final write.
  - `RunningStaysTracked`: in a behaviour in which nothing is dropped, no task of
    the peer is ever forgotten.
  - `QuietLoopTracksAll`: the same from the constants alone, with a permit per
    task, no faults, no resets and a peer that takes only pending tasks. What is in
    flight, or was when a claim was sent, is then run by this worker, finished or
    deleted for good, and without a permit everything is in flight. With resets it
    would be false: a reset behind a final write overtakes the task.

  Why `ViewInvariant` is what it is. While an event about a document is unread,
  the tracker may be arbitrarily wrong about that document: the loop scans after
  it opened the stream and claims while events wait, so it applies old events over
  newer facts. Hence the invariant speaks of the *last* unread event, which must
  tell the document as it is, and of the tracker only where no event is unread:
  whatever is in view there runs, and its lease is over by the deadline. Reading
  the last event restores the second from the first, except for a pending event,
  which leaves the tracker alone: a stale entry would survive it. `EntriesGo`
  closes that gap. A document becomes pending only from finished or from nothing,
  so either an unread finished event stands right before, or nothing was in view.
  For `OnlyDropsForget` the case to watch is a targeted claim that misses: by the
  invariant it has news, unless the exclusion, a snapshot, holds its own target.
* `LoopWakeup_proofs`, on top of `LoopInvariant`: `WakeupNeverLost`, the safety
  half of `PendingIsPickedUp`. In every behaviour in which no claim of a pump
  fails, a loop that sits in its select beside a pending task has an event for it
  unread, a completion to join, its id in flight, or every permit taken. Thefts,
  lost handlers, broken streams, failed scans, probes and targeted claims are all
  allowed; the one hypothesis is the step `loop_stranded` turns on.

  The inductive `WakeInvariant` extends this from the select to every *resting*
  position, one from which the loop does not reach a pump over pending tasks by
  itself: the popped entries, the periodic scan and probe, a pump that has given up
  on pending tasks. What makes it inductive is the snapshot of excluded ids. A pump
  that finds nothing has looked at every pending task but the excluded ones, and
  their handlers may have ended since the claim was sent; the invariant says that
  then a completion is still to be joined, which starts the next pump.
* `CallerWait_proofs`: `CallerTypes`; `SendsOnlySeeFuture`, the inductive
  `SendsSeeNoPast`; from it `SendsNeverStale`. Submissions are numbered as they
  are accepted; the task a send waits for holds its own number or a later one, and
  so does what its stream has looked up. `StreamsLoseNoResult` is
  `OnlyLateWatchStrands`, from the invariant that no stream is ahead of its
  document: a result adds an event, so it finds every open stream behind, and the
  lookup for the last event sees it. What is left is the gap of `caller_gap`.

Only model-checked: the liveness properties (`SupersededHandlerStops`,
`AnswerReachesWatcher`, `PendingIsPickedUp`, `TimerRecovers`,
`AbandonedIsRecovered`, `StopIsServed`), which are outside what TLAPS proves, and
the five violations. Every invariant and every action property of a passing run
is also a theorem.

## 5. Not modelled

* A collection without the unique index on `task_id`: the README demands it and
  the code warns; the models keep one document per task.
* Retries inside the Mongo driver: a call fails, or is applied and fails.
* Documents written by something else, with missing or malformed fields: the
  early returns of `schedule_expiration_from_task`, the `$ifNull` fallbacks.
* The sort of a claim: any matching document may be taken.
* Configuration (a builder of values), storage (opens the client, logs warnings),
  tracing and metrics (no decision reads them), error types, the example program.
* A change stream that resumes: the driver hides it, and what the loop sees is
  either the next event or `select_stream_lost`.

## 6. Plan

1. `CallerWait` composed with `WorkerClaims` through the proved refinement, so that
   `NoStaleAnswer` speaks of the handler that ran.
2. A second observer with its own, shorter timeout in `WorkerLoop`, to follow an
   entry that `expiry.rs:340` pops too early through to the next sweep.
