---------------------------- MODULE WorkerClaims ----------------------------
(***************************************************************************)
(* How workers claim tasks from the shared Mongo collection, run them      *)
(* under a heartbeat lease and write the result back (worker.rs), together *)
(* with the enqueue write that feeds them (upsert_task in caller.rs).      *)
(*                                                                         *)
(* Every database operation is one atomic step, as Mongo guarantees for a  *)
(* single document.  What a worker computes before an await and uses after *)
(* it (the excluded ids, the timestamps) is kept in the state in between.  *)
(* A database operation may fail in two ways: it never reached the server, *)
(* or it was applied and only the reply was lost.                          *)
(*                                                                         *)
(* When a pump is triggered (change stream, timer, completion) is left     *)
(* open here: a live worker may start one at any time.                     *)
(***************************************************************************)
EXTENDS Integers, FiniteSets

CONSTANTS
  Tasks,          \* task ids, which are also the idempotency keys
  Requests,       \* submissions; each one is enqueued at most once
  Resets,         \* the submissions that carry a reset predicate
  Malformed,      \* the submissions whose payload is no valid TInput
  SwitchTimeout,  \* worker_switch_timeout of each submission, in clock ticks
  Procs,          \* worker processes (one call of Worker::run each)
  WorkerIds,      \* worker identities
  WorkerId,       \* the identity of each process; a restart may reuse one
  Tokens,         \* claim tokens (UUIDs); bounds the number of claims
  MaxInflight,    \* permits of each process's semaphore
  MaxTime,        \* bound on the clock
  NoRequest, NoProc, NoWorker, NoTask, NoToken

ASSUME ConstantsAssumption ==
  /\ Resets \subseteq Requests
  /\ Malformed \subseteq Requests
  /\ SwitchTimeout \in [Requests -> Nat]
  /\ WorkerId \in [Procs -> WorkerIds]
  /\ MaxInflight \in Nat
  /\ MaxTime \in Nat
  /\ NoRequest \notin Requests
  /\ NoProc \notin Procs
  /\ NoWorker \notin WorkerIds
  /\ NoTask \notin Tasks
  /\ NoToken \notin Tokens

VARIABLES
  \* The task documents, one field each.
  status,         \* "absent" while there is no document
  task_input,     \* the submission whose payload the document holds
  worker_state,   \* worker_id, claim_token and heartbeat_at of the claim
  outcome,        \* the claim that wrote task_output or error_reason
  \* The worker processes.
  mode,           \* life cycle of the worker loop
  pump,           \* the claim attempt the loop is awaiting, if any
  in_flight,      \* InFlightRegistry: task ids with a live process_task
  permits,        \* free permits of the semaphore
  \* The claims, by token.
  job,            \* the process_task a claim started, and where it stands
  heartbeat_loop, \* the heartbeat loop of a claim
  \* The environment.
  submitted,      \* submissions already enqueued
  now             \* wall clock, the same for all processes

collection == <<status, task_input, worker_state, outcome>>
loops      == <<mode, pump>>
capacity   == <<in_flight, permits>>
environment == <<submitted, now>>
vars == <<status, task_input, worker_state, outcome, mode, pump, in_flight,
          permits, job, heartbeat_loop, submitted, now>>

-----------------------------------------------------------------------------
Finished == {"succeeded", "failed"}
Statuses == {"absent", "pending", "running"} \cup Finished
Modes    == {"off", "up", "draining", "stopped", "aborted"}

\* The find_one_and_update a pump is about to send or is waiting for.
Arms == {"pending", "own", "stale"}
NoAttempt == [arm |-> "none", targets |-> {}, excluded |-> {}, at |-> 0]

\* Where a claim stands.  "unanswered": the write was applied, the worker saw
\* an error.  "skipped": spawn_claimed_task refused to start it.
Active == {"setup", "handling", "completing", "failing"}
Phases == Active \cup {"unused", "unanswered", "skipped", "ended", "aborted"}
NoJob == [phase |-> "unused", proc |-> NoProc, task |-> NoTask,
          request |-> NoRequest]

\* "superseded": the loop sent on lost_ownership_tx.  "failed": it left after
\* a database error, which drops lost_ownership_tx without a send.
LoopStates == {"off", "on", "stopped", "superseded", "failed"}

NoState == [worker_id |-> NoWorker, claim_token |-> NoToken, heartbeat_at |-> 0]

TypeOK ==
  /\ status \in [Tasks -> Statuses]
  /\ task_input \in [Tasks -> Requests \cup {NoRequest}]
  /\ worker_state \in [Tasks -> [worker_id    : WorkerIds \cup {NoWorker},
                                 claim_token  : Tokens \cup {NoToken},
                                 heartbeat_at : Nat]]
  /\ outcome \in [Tasks -> Tokens \cup {NoToken}]
  /\ mode \in [Procs -> Modes]
  /\ pump \in [Procs -> [arm      : Arms \cup {"none"},
                         targets  : SUBSET Tasks,
                         excluded : SUBSET Tasks,
                         at       : Nat]]
  /\ in_flight \in [Procs -> SUBSET Tasks]
  /\ permits \in [Procs -> Nat]
  /\ job \in [Tokens -> [phase   : Phases,
                         proc    : Procs \cup {NoProc},
                         task    : Tasks \cup {NoTask},
                         request : Requests \cup {NoRequest}]]
  /\ heartbeat_loop \in [Tokens -> LoopStates]
  /\ submitted \subseteq Requests
  /\ now \in Nat

Init ==
  /\ status = [t \in Tasks |-> "absent"]
  /\ task_input = [t \in Tasks |-> NoRequest]
  /\ worker_state = [t \in Tasks |-> NoState]
  /\ outcome = [t \in Tasks |-> NoToken]
  /\ mode = [p \in Procs |-> "off"]
  /\ pump = [p \in Procs |-> NoAttempt]
  /\ in_flight = [p \in Procs |-> {}]
  /\ permits = [p \in Procs |-> MaxInflight]
  /\ job = [k \in Tokens |-> NoJob]
  /\ heartbeat_loop = [k \in Tokens |-> "off"]
  /\ submitted = {}
  /\ now = 0

-----------------------------------------------------------------------------
(* Enqueueing                                                              *)

\* Mutant: the reset arm of the filter forgets to ask for a finished status.
upsert_task_resets_any(r, t) ==
  /\ r \notin submitted
  /\ status[t] = "absent" \/ r \in Resets
  /\ submitted' = submitted \cup {r}
  /\ status' = [status EXCEPT ![t] = "pending"]
  /\ task_input' = [task_input EXCEPT ![t] = r]
  /\ worker_state' = [worker_state EXCEPT ![t] = NoState]
  /\ outcome' = [outcome EXCEPT ![t] = NoToken]
  /\ UNCHANGED <<loops, capacity, job, heartbeat_loop, now>>

\* upsert_task: one upsert.  Its filter matches no document (insert) or a
\* finished one that satisfies the reset predicate (reset); otherwise the
\* unique index rejects the insert and nothing changes.
upsert_task(r, t) ==
  /\ r \notin submitted
  /\ \/ status[t] = "absent"
     \/ r \in Resets /\ status[t] \in Finished
  /\ submitted' = submitted \cup {r}
  /\ status' = [status EXCEPT ![t] = "pending"]
  /\ task_input' = [task_input EXCEPT ![t] = r]
  /\ worker_state' = [worker_state EXCEPT ![t] = NoState]
  /\ outcome' = [outcome EXCEPT ![t] = NoToken]
  /\ UNCHANGED <<loops, capacity, job, heartbeat_loop, now>>

-----------------------------------------------------------------------------
(* The life of a worker loop                                               *)

\* Worker::run spawns the loop.
run(p) ==
  /\ mode[p] = "off"
  /\ mode' = [mode EXCEPT ![p] = "up"]
  /\ UNCHANGED <<collection, pump, capacity, job, heartbeat_loop, environment>>

\* The loop receives the stop signal, which it only looks at between pumps,
\* and goes on to drain its JoinSet.
stop_received(p) ==
  /\ mode[p] = "up"
  /\ pump[p] = NoAttempt
  /\ mode' = [mode EXCEPT ![p] = "draining"]
  /\ UNCHANGED <<collection, pump, capacity, job, heartbeat_loop, environment>>

\* Every process_task has been joined: worker_loop returns Ok.
drained(p) ==
  /\ mode[p] = "draining"
  /\ \A k \in Tokens : job[k].proc = p => job[k].phase \notin Active
  /\ mode' = [mode EXCEPT ![p] = "stopped"]
  /\ UNCHANGED <<collection, pump, capacity, job, heartbeat_loop, environment>>

\* The loop is gone at once: WorkerHandle dropped, loop returned an error, or
\* process killed.  The JoinSet aborts every process_task, whose guards and
\* permits drop; detached heartbeat loops notice the closed stop channel later.
\* A killed process is the case in which they notice it immediately.
abort(p) ==
  /\ mode[p] \in {"up", "draining"}
  /\ mode' = [mode EXCEPT ![p] = "aborted"]
  /\ pump' = [pump EXCEPT ![p] = NoAttempt]
  /\ in_flight' = [in_flight EXCEPT ![p] = {}]
  /\ permits' = [permits EXCEPT ![p] = MaxInflight]
  /\ job' = [k \in Tokens |->
               IF job[k].proc = p /\ job[k].phase \in Active
               THEN [job[k] EXCEPT !.phase = "ended"]
               ELSE job[k]]
  /\ UNCHANGED <<collection, heartbeat_loop, environment>>

-----------------------------------------------------------------------------
(* Claiming                                                                *)

\* Mutant: the pump does not look whether a permit is free.
attempt_without_permit(p, arm, targets) ==
  /\ mode[p] = "up"
  /\ pump[p] = NoAttempt
  /\ permits' = [permits EXCEPT ![p] = @ - 1]
  /\ pump' = [pump EXCEPT ![p] = [arm |-> arm, targets |-> targets,
                                  excluded |-> in_flight[p], at |-> now]]
  /\ UNCHANGED <<collection, mode, in_flight, job, heartbeat_loop, environment>>

\* One turn of a pump: take a permit, snapshot the in-flight ids and the time,
\* send the claim.
attempt(p, arm, targets) ==
  /\ mode[p] = "up"
  /\ pump[p] = NoAttempt
  /\ permits[p] > 0
  /\ permits' = [permits EXCEPT ![p] = @ - 1]
  /\ pump' = [pump EXCEPT ![p] = [arm |-> arm, targets |-> targets,
                                  excluded |-> in_flight[p], at |-> now]]
  /\ UNCHANGED <<collection, mode, in_flight, job, heartbeat_loop, environment>>

\* pump_available_tasks in ClaimMode::Ready and ClaimMode::StaleRecovery.
pump_ready(p) == attempt(p, "pending", Tasks)
pump_stale(p) == attempt(p, "stale", Tasks)

\* pump_expired_tasks for one due entry of the expiry tracker.  An entry whose
\* task id is known and locally in flight is skipped; one whose task id is not
\* known is sent with the exclusion in the filter.
pump_expired(p, t, task_id_known) ==
  /\ task_id_known => t \notin in_flight[p]
  /\ attempt(p, "stale", {t})

\* The per-task switch timeout; upsert_task always stores one, so the two
\* $ifNull fallbacks of stale_claim_filter are never reached.
task_switch_timeout(t) == SwitchTimeout[task_input[t]]

\* Mutants: the filter loses its $nin, and the stale arm its timeout.
claim_filter_no_nin(p, t) ==
  /\ t \in pump[p].targets
  /\ \/ pump[p].arm = "pending" /\ status[t] = "pending"
     \/ /\ pump[p].arm \in {"own", "stale"}
        /\ status[t] = "running"
        /\ pump[p].arm = "own" => worker_state[t].worker_id = WorkerId[p]

claim_filter_no_timeout(p, t) ==
  /\ t \in pump[p].targets \ pump[p].excluded
  /\ \/ pump[p].arm = "pending" /\ status[t] = "pending"
     \/ /\ pump[p].arm = "own"
        /\ status[t] = "running"
        /\ worker_state[t].worker_id = WorkerId[p]
     \/ /\ pump[p].arm = "stale"
        /\ status[t] = "running"
        /\ worker_state[t].heartbeat_at <= pump[p].at

\* The filter of the claim that p is sending matches document t.
claim_filter(p, t) ==
  /\ t \in pump[p].targets \ pump[p].excluded
  /\ \/ /\ pump[p].arm = "pending"
        /\ status[t] = "pending"
     \/ /\ pump[p].arm = "own"
        /\ status[t] = "running"
        /\ worker_state[t].worker_id = WorkerId[p]
     \/ /\ pump[p].arm = "stale"
        /\ status[t] = "running"
        /\ worker_state[t].heartbeat_at + task_switch_timeout(t) <= pump[p].at

\* The update of the claim, applied to document t under a new token.
claim_update(p, t, k) ==
  /\ job[k].phase = "unused"
  /\ status' = [status EXCEPT ![t] = "running"]
  /\ worker_state' = [worker_state EXCEPT
       ![t] = [worker_id |-> WorkerId[p], claim_token |-> k,
               heartbeat_at |-> pump[p].at]]
  /\ UNCHANGED <<task_input, outcome>>

claimed_job(p, t, phase) ==
  [phase |-> phase, proc |-> p, task |-> t, request |-> task_input[t]]

\* The permit goes back and the pump ends (or turns to its next entry).
release_attempt(p) ==
  /\ permits' = [permits EXCEPT ![p] = @ + 1]
  /\ pump' = [pump EXCEPT ![p] = NoAttempt]

\* A document matched.  spawn_claimed_task registers the task id and starts
\* process_task, unless the id is already registered: then the permit drops and
\* nothing runs for the claim that was just written.
claim_won(p, t, k) ==
  /\ pump[p] # NoAttempt
  /\ claim_filter(p, t)
  /\ claim_update(p, t, k)
  /\ IF t \in in_flight[p]
     THEN /\ job' = [job EXCEPT ![k] = claimed_job(p, t, "skipped")]
          /\ release_attempt(p)
          /\ UNCHANGED in_flight
     ELSE /\ job' = [job EXCEPT ![k] = claimed_job(p, t, "setup")]
          /\ in_flight' = [in_flight EXCEPT ![p] = @ \cup {t}]
          /\ pump' = [pump EXCEPT ![p] = NoAttempt]
          /\ UNCHANGED permits
  /\ UNCHANGED <<mode, heartbeat_loop, environment>>

\* Mutant: the permit is dropped after the first filter and after the second.
claim_missed_drops_twice(p) ==
  /\ pump[p] # NoAttempt
  /\ \A t \in Tasks : ~claim_filter(p, t)
  /\ permits' = [permits EXCEPT ![p] = @ + 1]
  /\ pump' = IF pump[p].arm = "pending" THEN [pump EXCEPT ![p].arm = "own"]
             ELSE [pump EXCEPT ![p] = NoAttempt]
  /\ UNCHANGED <<collection, mode, in_flight, job, heartbeat_loop, environment>>

\* No document matched.  In ClaimMode::Ready the same permit, exclusions and
\* timestamps go on to the second filter, the worker's own abandoned tasks.
claim_missed(p) ==
  /\ pump[p] # NoAttempt
  /\ \A t \in Tasks : ~claim_filter(p, t)
  /\ IF pump[p].arm = "pending"
     THEN /\ pump' = [pump EXCEPT ![p].arm = "own"]
          /\ UNCHANGED permits
     ELSE release_attempt(p)
  /\ UNCHANGED <<collection, mode, in_flight, job, heartbeat_loop, environment>>

\* The claim fails without reaching the server.
claim_failed(p) ==
  /\ pump[p] # NoAttempt
  /\ release_attempt(p)
  /\ UNCHANGED <<collection, mode, in_flight, job, heartbeat_loop, environment>>

\* The claim is applied but its reply is lost: the worker handles it as an
\* error and never starts the task it now owns.
claim_unanswered(p, t, k) ==
  /\ pump[p] # NoAttempt
  /\ claim_filter(p, t)
  /\ claim_update(p, t, k)
  /\ job' = [job EXCEPT ![k] = claimed_job(p, t, "unanswered")]
  /\ release_attempt(p)
  /\ UNCHANGED <<mode, in_flight, heartbeat_loop, environment>>

-----------------------------------------------------------------------------
(* process_task                                                            *)

\* Mutant: the filter asks for the worker and not for the claim.
owns_by_worker(k) ==
  LET t == job[k].task IN
  /\ status[t] = "running"
  /\ worker_state[t].worker_id = WorkerId[job[k].proc]

\* The filter shared by heartbeat, mark_task_failed and the completion write:
\* the document is running under exactly this claim.
owns(k) ==
  LET t == job[k].task IN
  /\ status[t] = "running"
  /\ worker_state[t].worker_id = WorkerId[job[k].proc]
  /\ worker_state[t].claim_token = k

enter(k, phase) == job' = [job EXCEPT ![k].phase = phase]

\* Mutant: process_task has no InFlightGuard.
leave_unguarded(k, phase) ==
  /\ enter(k, phase)
  /\ UNCHANGED in_flight
  /\ permits' = [permits EXCEPT ![job[k].proc] = @ + 1]

\* process_task returns: InFlightGuard and permit are dropped.
leave(k, phase) ==
  LET p == job[k].proc IN
  /\ enter(k, phase)
  /\ in_flight' = [in_flight EXCEPT ![p] = @ \ {job[k].task}]
  /\ permits' = [permits EXCEPT ![p] = @ + 1]

\* heartbeat() applied to the document the claim owns.  The timestamp was taken
\* before the write was sent, at some moment since the previous heartbeat.
heartbeat(k) ==
  \E sent \in worker_state[job[k].task].heartbeat_at .. now :
    worker_state' = [worker_state EXCEPT ![job[k].task].heartbeat_at = sent]

\* The payload does not deserialize.
setup_bad_payload(k) ==
  /\ job[k].phase = "setup"
  /\ job[k].request \in Malformed
  /\ enter(k, "failing")
  /\ UNCHANGED <<collection, loops, capacity, heartbeat_loop, environment>>

\* A heartbeat loop starts.  A switch timeout of zero gives its ticker a zero
\* period, on which time::interval panics: the detached loop is gone at once,
\* and lost_ownership_tx with it.
start_heartbeat_loop(k) ==
  heartbeat_loop' = [heartbeat_loop EXCEPT
    ![k] = IF SwitchTimeout[job[k].request] = 0 THEN "failed" ELSE "on"]

\* The heartbeat that confirms ownership before the handler starts.
setup_confirmed(k) ==
  /\ job[k].phase = "setup"
  /\ job[k].request \notin Malformed
  /\ owns(k)
  /\ heartbeat(k)
  /\ enter(k, "handling")
  /\ start_heartbeat_loop(k)
  /\ UNCHANGED <<status, task_input, outcome, loops, capacity, environment>>

setup_worker_gone(k) ==
  /\ job[k].phase = "setup"
  /\ job[k].request \notin Malformed
  /\ ~owns(k)
  /\ leave(k, "ended")
  /\ UNCHANGED <<collection, loops, heartbeat_loop, environment>>

\* That heartbeat fails, applied or not: the task is to be marked failed.
setup_error(k) ==
  /\ job[k].phase = "setup"
  /\ job[k].request \notin Malformed
  /\ \/ owns(k) /\ heartbeat(k)
     \/ UNCHANGED worker_state
  /\ enter(k, "failing")
  /\ UNCHANGED <<status, task_input, outcome, loops, capacity, heartbeat_loop,
                 environment>>

\* The handler returns Ok and its output serializes, or returns Err.
handler_returns(k) ==
  /\ job[k].phase = "handling"
  /\ \E phase \in {"completing", "failing"} : enter(k, phase)
  /\ UNCHANGED <<collection, loops, capacity, heartbeat_loop, environment>>

\* The handler panics, or its output does not serialize: process_task is over
\* and the document is left as it is.
handler_lost(k) ==
  /\ job[k].phase = "handling"
  /\ leave(k, "ended")
  /\ UNCHANGED <<collection, loops, heartbeat_loop, environment>>

\* lost_ownership_rx resolves, by a send or because the sender is gone: the
\* select arm binds the result to _, so it takes either, and drops the handler.
lost_ownership_fires(k) == heartbeat_loop[k] \in {"superseded", "failed"}

handler_aborted(k) ==
  /\ job[k].phase = "handling"
  /\ lost_ownership_fires(k)
  /\ leave(k, "aborted")
  /\ UNCHANGED <<collection, loops, heartbeat_loop, environment>>

\* The final write of a claim: task_output with "succeeded", or error_reason
\* with "failed" (mark_task_failed).  It changes the document only if the claim
\* still owns it; process_task returns in any case.
finish(k, phase, final) ==
  /\ job[k].phase = phase
  /\ IF owns(k)
     THEN /\ status' = [status EXCEPT ![job[k].task] = final]
          /\ outcome' = [outcome EXCEPT ![job[k].task] = k]
     ELSE UNCHANGED <<status, outcome>>
  /\ leave(k, "ended")
  /\ UNCHANGED <<task_input, worker_state, loops, heartbeat_loop, environment>>

complete(k) == finish(k, "completing", "succeeded")
mark_task_failed(k) == finish(k, "failing", "failed")

\* The final write never reaches the server.
finish_error(k) ==
  /\ job[k].phase \in {"completing", "failing"}
  /\ leave(k, "ended")
  /\ UNCHANGED <<collection, loops, heartbeat_loop, environment>>

-----------------------------------------------------------------------------
(* The heartbeat loop of a claim.  It is detached from process_task and may *)
(* still have a heartbeat under way after the handler has returned.         *)

beat(k) ==
  /\ heartbeat_loop[k] = "on"
  /\ owns(k)
  /\ heartbeat(k)
  /\ UNCHANGED <<status, task_input, outcome, loops, capacity, job,
                 heartbeat_loop, environment>>

\* Mutant: a heartbeat that matched nothing is ignored.
beat_superseded_ignored(k) ==
  /\ heartbeat_loop[k] = "on"
  /\ ~owns(k)
  /\ UNCHANGED vars

beat_superseded(k) ==
  /\ heartbeat_loop[k] = "on"
  /\ ~owns(k)
  /\ heartbeat_loop' = [heartbeat_loop EXCEPT ![k] = "superseded"]
  /\ UNCHANGED <<collection, loops, capacity, job, environment>>

\* Mutant: a transient error is reported as lost ownership.
beat_error_signals(k) ==
  /\ heartbeat_loop[k] = "on"
  /\ heartbeat_loop' = [heartbeat_loop EXCEPT ![k] = "superseded"]
  /\ UNCHANGED <<collection, loops, capacity, job, environment>>

\* A transient error, whether or not the heartbeat was applied.
beat_error(k) ==
  /\ heartbeat_loop[k] = "on"
  /\ \/ owns(k) /\ heartbeat(k)
     \/ UNCHANGED worker_state
  /\ heartbeat_loop' = [heartbeat_loop EXCEPT ![k] = "failed"]
  /\ UNCHANGED <<status, task_input, outcome, loops, capacity, job, environment>>

\* hb_stop_rx resolves: process_task sent the stop or is gone.
beat_stopped(k) ==
  /\ heartbeat_loop[k] = "on"
  /\ job[k].phase # "handling"
  /\ heartbeat_loop' = [heartbeat_loop EXCEPT ![k] = "stopped"]
  /\ UNCHANGED <<collection, loops, capacity, job, environment>>

-----------------------------------------------------------------------------
Tick ==
  /\ now < MaxTime
  /\ now' = now + 1
  /\ UNCHANGED <<collection, loops, capacity, job, heartbeat_loop, submitted>>

LoopStep(p) ==
  \/ run(p) \/ stop_received(p) \/ drained(p) \/ abort(p)
  \/ pump_ready(p) \/ pump_stale(p)
  \/ \E t \in Tasks, known \in BOOLEAN : pump_expired(p, t, known)
  \/ \E t \in Tasks, k \in Tokens : claim_won(p, t, k) \/ claim_unanswered(p, t, k)
  \/ claim_missed(p) \/ claim_failed(p)

JobStep(k) ==
  \/ setup_bad_payload(k) \/ setup_confirmed(k) \/ setup_worker_gone(k)
  \/ setup_error(k)
  \/ handler_returns(k) \/ handler_lost(k) \/ handler_aborted(k)
  \/ complete(k) \/ mark_task_failed(k) \/ finish_error(k)

BeatStep(k) ==
  \/ beat(k) \/ beat_superseded(k) \/ beat_error(k) \/ beat_stopped(k)

Next ==
  \/ \E r \in Requests, t \in Tasks : upsert_task(r, t)
  \/ \E p \in Procs : LoopStep(p)
  \/ \E k \in Tokens : JobStep(k) \/ BeatStep(k)
  \/ Tick

Spec == Init /\ [][Next]_vars

\* The tick of a heartbeat loop and the select that waits on it are driven by
\* the runtime: a superseded claim is noticed, and the notice is acted on.
HeartbeatFairness ==
  \A k \in Tokens : WF_vars(beat_superseded(k)) /\ WF_vars(handler_aborted(k))

FairSpec == Spec /\ HeartbeatFairness

-----------------------------------------------------------------------------
(* What the claims promise                                                 *)

ActiveJobs(p) == {k \in Tokens : job[k].proc = p /\ job[k].phase \in Active}

\* Claim k was made on task t for the payload that t holds.
HeldBy(t, k) ==
  /\ k \in Tokens
  /\ job[k].phase # "unused"
  /\ job[k].task = t
  /\ job[k].request = task_input[t]

\* A finished document holds the result of a claim that ran on exactly the
\* payload the document holds: no superseded handler, and no handler of the
\* submission before a reset, ever writes its result.  (The claim_token in the
\* filters of the completion write and of mark_task_failed.)
ResultMatchesRequest ==
  \A t \in Tasks : status[t] \in Finished => HeldBy(t, outcome[t])

\* HeartbeatOutcome::Superseded is definitive: once the heartbeat loop of a
\* claim has signalled lost ownership, the claim does not own its document, now
\* or later.
SupersededIsDefinitive ==
  \A k \in Tokens : heartbeat_loop[k] = "superseded" => ~owns(k)

\* spawn_claimed_task never refuses a claim that was just written: the ids the
\* claim excluded, snapshot before the await, still cover what is in flight
\* after it.  A refused claim would leave a document running under a token that
\* no handler and no heartbeat serves.
ClaimedTaskIsStarted ==
  \A k \in Tokens : job[k].phase # "skipped"

\* A process runs at most one process_task for a task, whatever becomes of the
\* claims behind them, and the in-flight registry names exactly those tasks.
OneHandlerPerTask ==
  \A p \in Procs :
    /\ in_flight[p] = {job[k].task : k \in ActiveJobs(p)}
    /\ \A j, k \in ActiveJobs(p) : job[j].task = job[k].task => j = k

\* Each permit of the semaphore is free, held by the claim attempt under way or
\* held by one process_task: no path through a pump or through process_task
\* loses one or returns one twice.
PermitsConserved ==
  \A p \in Procs :
    permits[p] + Cardinality(ActiveJobs(p))
               + (IF pump[p] = NoAttempt THEN 0 ELSE 1) = MaxInflight

\* A running document passes to another worker identity only when its heartbeat
\* has been silent for the switch timeout of its own submission, although the
\* claimer compares with a time it read before the claim was sent.
StolenOnlyAfterSilence ==
  [][\A t \in Tasks :
       /\ status[t] = "running"
       /\ status'[t] = "running"
       /\ worker_state'[t].worker_id # worker_state[t].worker_id
       => worker_state[t].heartbeat_at + task_switch_timeout(t) <= now]_vars

\* The submission whose handler wrote the result that a task holds.
answered == [t \in Tasks |-> IF status[t] \in Finished
                             THEN job[outcome[t]].request ELSE NoRequest]

Mailbox == INSTANCE TaskMailbox WITH
  request <- task_input, answer <- answered, seen <- submitted

\* The collection is a mailbox: upserts, claims, steals, heartbeats and final
\* writes together do nothing a caller could tell from TaskMailbox, with the
\* submission whose handler wrote the result as the answer.
ImplementsMailbox == Mailbox!Spec

\* A handler whose claim was superseded does not run on: the heartbeat loop
\* finds out and process_task drops the handler.
SupersededHandlerStops ==
  \A k \in Tokens :
    (job[k].phase = "handling" /\ ~owns(k)) ~> (job[k].phase # "handling")

-----------------------------------------------------------------------------
(* Why they hold: two inductive invariants                                 *)

\* What ties a document to its claim.  A running document is held by a claim
\* that was made on this task, by this worker, for the payload the document
\* still holds; a finished one was written by such a claim; and an unused token
\* has left no trace, so that a superseded claim can never come to own again.
ClaimInvariant ==
  /\ \A k \in Tokens :
       /\ job[k].phase = "unused" => heartbeat_loop[k] = "off"
       /\ job[k].phase # "unused" =>
            job[k].proc \in Procs /\ job[k].task \in Tasks /\ job[k].request \in Requests
  /\ \A t \in Tasks :
       /\ status[t] = "absent" <=> task_input[t] = NoRequest
       /\ status[t] = "running" => HeldBy(t, worker_state[t].claim_token)
       /\ status[t] \in Finished => HeldBy(t, outcome[t])
  /\ SupersededIsDefinitive

\* What ties the permits and the in-flight registry to the running
\* process_tasks.  Between the snapshot of a pump and its reply only the
\* process_tasks touch the registry, and they only remove: the snapshot still
\* covers it.
CapacityInvariant ==
  /\ \A p \in Procs :
       /\ IsFiniteSet(ActiveJobs(p))
       /\ pump[p] # NoAttempt => /\ in_flight[p] \subseteq pump[p].excluded
                                 /\ pump[p].at <= now
  /\ OneHandlerPerTask
  /\ ClaimedTaskIsStarted
  /\ PermitsConserved

-----------------------------------------------------------------------------
(* What the comments and the documents say, and the code does not do       *)

\* "Only Superseded may ever trigger aborting the running handler;
\* TransientError must never be treated the same way" (HeartbeatOutcome).
AbortedOnlyIfSuperseded ==
  \A k \in Tokens : job[k].phase = "aborted" => heartbeat_loop[k] = "superseded"

\* "Workers automatically mark their in-flight tasks as failed (with a shutdown
\* reason) before a graceful shutdown" (docs/implementation.md): a worker loop
\* that has drained leaves no document running under a claim it had started.
StoppedWorkerHoldsNothing ==
  \A k \in Tokens :
    /\ job[k].phase \in {"ended", "aborted"}
    /\ mode[job[k].proc] = "stopped"
    => ~owns(k)
=============================================================================
