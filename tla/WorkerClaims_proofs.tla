------------------------- MODULE WorkerClaims_proofs ------------------------
(***************************************************************************)
(* Proofs, for any tasks, submissions, processes and tokens, of the        *)
(* invariants that MCWorkerClaims checks on small instances.               *)
(***************************************************************************)
EXTENDS WorkerClaims, TLAPS

WorkerStates == [worker_id    : WorkerIds \cup {NoWorker},
                 claim_token  : Tokens \cup {NoToken},
                 heartbeat_at : Nat]

Jobs == [phase   : Phases,
         proc    : Procs \cup {NoProc},
         task    : Tasks \cup {NoTask},
         request : Requests \cup {NoRequest}]

Attempts == [arm : Arms \cup {"none"}, targets : SUBSET Tasks,
             excluded : SUBSET Tasks, at : Nat]

\* heartbeat() writes a time not later than now, and touches no other field.
LEMMA HeartbeatEffect ==
  ASSUME NEW k \in Tokens, TypeOK, heartbeat(k)
  PROVE  /\ worker_state' \in [Tasks -> WorkerStates]
         /\ \A t \in Tasks :
              /\ worker_state'[t].worker_id = worker_state[t].worker_id
              /\ worker_state'[t].claim_token = worker_state[t].claim_token
<1> DEFINE t0 == job[k].task
<1>1. PICK sent \in worker_state[t0].heartbeat_at .. now :
        worker_state' = [worker_state EXCEPT ![t0].heartbeat_at = sent]
  BY DEF heartbeat
<1>2. ASSUME NEW t \in Tasks
      PROVE  /\ worker_state'[t] \in WorkerStates
             /\ worker_state'[t].worker_id = worker_state[t].worker_id
             /\ worker_state'[t].claim_token = worker_state[t].claim_token
  <2>0. worker_state \in [Tasks -> WorkerStates] /\ now \in Nat
    BY DEF TypeOK, WorkerStates
  <2>1. CASE t = t0
    <3>1. worker_state[t].heartbeat_at \in Nat
      BY <2>0 DEF WorkerStates
    <3>2. sent \in Nat
      BY <3>1, <2>0, <2>1
    <3>3. worker_state'[t] = [worker_state[t] EXCEPT !.heartbeat_at = sent]
      BY <1>1, <2>0, <2>1
    <3> QED BY <3>2, <3>3, <2>0 DEF WorkerStates
  <2>2. CASE t # t0
    BY <1>1, <2>0, <2>2
  <2> QED BY <2>1, <2>2
<1>3. worker_state' = [t \in Tasks |-> worker_state'[t]]
  BY <1>1 DEF TypeOK
<1> QED BY <1>2, <1>3

\* Every step of process_task changes the phase of its own claim and no other
\* part of what a claim was made for.
LEMMA EnterEffect ==
  ASSUME NEW k \in Tokens, NEW phase \in Phases, TypeOK, enter(k, phase)
  PROVE  /\ job' \in [Tokens -> Jobs]
         /\ \A j \in Tokens :
              /\ job'[j].proc = job[j].proc
              /\ job'[j].task = job[j].task
              /\ job'[j].request = job[j].request
              /\ job'[j].phase = IF j = k THEN phase ELSE job[j].phase
<1>1. job \in [Tokens -> Jobs]
  BY DEF TypeOK, Jobs
<1>2. job' = [job EXCEPT ![k] = [job[k] EXCEPT !.phase = phase]]
  BY DEF enter
<1>3. job'[k] = [job[k] EXCEPT !.phase = phase]
  BY <1>1, <1>2
<1>4. \A j \in Tokens \ {k} : job'[j] = job[j]
  BY <1>1, <1>2
<1>5. job'[k] \in Jobs
  BY <1>1, <1>3 DEF Jobs
<1>6. job' \in [Tokens -> Jobs]
  BY <1>1, <1>2, <1>3, <1>5
<1> QED BY <1>1, <1>3, <1>4, <1>6 DEF Jobs

\* Typing of the variables a worker loop or process_task writes through the
\* shared sub-actions.
LEMMA LeaveType ==
  ASSUME NEW k \in Tokens, NEW phase \in Phases, TypeOK, leave(k, phase)
  PROVE  /\ job' \in [Tokens -> Jobs]
         /\ in_flight' \in [Procs -> SUBSET Tasks]
         /\ permits' \in [Procs -> Nat]
<1>1. job' \in [Tokens -> Jobs]
  BY EnterEffect DEF leave
<1> DEFINE p == job[k].proc
<1>2. /\ in_flight' = [in_flight EXCEPT ![p] = in_flight[p] \ {job[k].task}]
      /\ permits' = [permits EXCEPT ![p] = permits[p] + 1]
  BY DEF leave
<1>3. in_flight \in [Procs -> SUBSET Tasks] /\ permits \in [Procs -> Nat]
  BY DEF TypeOK
<1> HIDE DEF p
<1>4. in_flight' \in [Procs -> SUBSET Tasks]
  BY <1>2, <1>3
<1>5. permits' \in [Procs -> Nat]
  <2>1. CASE p \in Procs
    BY <1>2, <1>3, <2>1
  <2>2. CASE p \notin Procs
    <3>1. permits' = permits
      BY <1>2, <1>3, <2>2
    <3> QED BY <1>3, <3>1
  <2> QED BY <2>1, <2>2
<1> QED BY <1>1, <1>4, <1>5

LEMMA AttemptType ==
  ASSUME NEW p \in Procs, NEW arm \in Arms, NEW targets \in SUBSET Tasks,
         TypeOK, attempt(p, arm, targets)
  PROVE  TypeOK'
<1>1. pump \in [Procs -> Attempts]
  BY DEF TypeOK, Attempts
<1>2. [arm |-> arm, targets |-> targets, excluded |-> in_flight[p], at |-> now]
        \in Attempts
  BY DEF TypeOK, Attempts
<1>3. pump' \in [Procs -> Attempts]
  BY <1>1, <1>2 DEF attempt
<1>4. permits' \in [Procs -> Nat]
  BY DEF attempt, TypeOK
<1> QED BY <1>3, <1>4 DEF attempt, TypeOK, Attempts, collection, environment

LEMMA ReleaseType ==
  ASSUME NEW p \in Procs, TypeOK, release_attempt(p)
  PROVE  /\ pump' \in [Procs -> Attempts]
         /\ permits' \in [Procs -> Nat]
<1>1. NoAttempt \in Attempts
  BY DEF NoAttempt, Attempts
<1>2. pump \in [Procs -> Attempts]
  BY DEF TypeOK, Attempts
<1> QED BY <1>1, <1>2 DEF release_attempt, TypeOK

LEMMA ClaimType ==
  ASSUME NEW p \in Procs, NEW t \in Tasks, NEW k \in Tokens, TypeOK,
         claim_update(p, t, k)
  PROVE  /\ status' \in [Tasks -> Statuses]
         /\ task_input' \in [Tasks -> Requests \cup {NoRequest}]
         /\ worker_state' \in [Tasks -> WorkerStates]
         /\ outcome' \in [Tasks -> Tokens \cup {NoToken}]
         /\ \A phase \in Phases : claimed_job(p, t, phase) \in Jobs
<1>1. pump[p].at \in Nat
  BY DEF TypeOK
<1>2. [worker_id |-> WorkerId[p], claim_token |-> k, heartbeat_at |-> pump[p].at]
        \in WorkerStates
  BY <1>1, ConstantsAssumption DEF WorkerStates
<1>3. worker_state \in [Tasks -> WorkerStates]
  BY DEF TypeOK, WorkerStates
<1>4. worker_state' \in [Tasks -> WorkerStates]
  BY <1>2, <1>3 DEF claim_update
<1>5. status' \in [Tasks -> Statuses]
  BY DEF claim_update, TypeOK, Statuses
<1>6. \A phase \in Phases : claimed_job(p, t, phase) \in Jobs
  BY DEF claimed_job, TypeOK, Jobs
<1> QED BY <1>4, <1>5, <1>6 DEF claim_update, TypeOK

LEMMA TypeInit == Init => TypeOK
<1> SUFFICES ASSUME Init PROVE TypeOK
  OBVIOUS
<1> USE ConstantsAssumption
<1>1. worker_state \in [Tasks -> WorkerStates]
  BY DEF Init, NoState, WorkerStates
<1>2. pump \in [Procs -> Attempts]
  BY DEF Init, NoAttempt, Attempts
<1>3. job \in [Tokens -> Jobs]
  BY DEF Init, NoJob, Jobs, Phases
<1>4. /\ status \in [Tasks -> Statuses]
      /\ mode \in [Procs -> Modes]
      /\ heartbeat_loop \in [Tokens -> LoopStates]
  BY DEF Init, Statuses, Modes, LoopStates
<1>5. /\ task_input \in [Tasks -> Requests \cup {NoRequest}]
      /\ outcome \in [Tasks -> Tokens \cup {NoToken}]
      /\ in_flight \in [Procs -> SUBSET Tasks]
      /\ permits \in [Procs -> Nat]
      /\ submitted \subseteq Requests
      /\ now \in Nat
  BY DEF Init
<1> QED BY <1>1, <1>2, <1>3, <1>4, <1>5 DEF TypeOK, WorkerStates, Attempts, Jobs

LEMMA TypeNext == TypeOK /\ [Next]_vars => TypeOK'
<1> SUFFICES ASSUME TypeOK, [Next]_vars PROVE TypeOK'
  OBVIOUS
<1> USE ConstantsAssumption
<1> USE DEF collection, loops, capacity, environment
<1>0. /\ worker_state \in [Tasks -> WorkerStates]
      /\ pump \in [Procs -> Attempts]
      /\ job \in [Tokens -> Jobs]
  BY DEF TypeOK, WorkerStates, Attempts, Jobs
<1>1. ASSUME NEW r \in Requests, NEW t \in Tasks, upsert_task(r, t)
      PROVE  TypeOK'
  <2>1. NoState \in WorkerStates
    BY DEF NoState, WorkerStates
  <2>2. worker_state' \in [Tasks -> WorkerStates]
    BY <1>0, <1>1, <2>1 DEF upsert_task
  <2>3. status' \in [Tasks -> Statuses]
    BY <1>1 DEF upsert_task, TypeOK, Statuses
  <2> QED BY <1>1, <2>2, <2>3 DEF upsert_task, TypeOK, WorkerStates
<1>2. ASSUME NEW p \in Procs, run(p) \/ stop_received(p) \/ drained(p)
      PROVE  TypeOK'
  BY <1>2 DEF run, stop_received, drained, TypeOK, Modes
<1>3. ASSUME NEW p \in Procs, abort(p)
      PROVE  TypeOK'
  <2>1. NoAttempt \in Attempts
    BY DEF NoAttempt, Attempts
  <2>2. pump' \in [Procs -> Attempts]
    BY <1>0, <1>3, <2>1 DEF abort
  <2>3. \A k \in Tokens : [job[k] EXCEPT !.phase = "ended"] \in Jobs
    BY <1>0 DEF Jobs, Phases
  <2>4. job' \in [Tokens -> Jobs]
    BY <1>0, <1>3, <2>3 DEF abort
  <2> QED BY <1>3, <2>2, <2>4 DEF abort, TypeOK, Attempts, Jobs, Modes
<1>4. ASSUME NEW p \in Procs, NEW t \in Tasks, NEW known \in BOOLEAN,
             pump_ready(p) \/ pump_stale(p) \/ pump_expired(p, t, known)
      PROVE  TypeOK'
  BY <1>4, AttemptType DEF pump_ready, pump_stale, pump_expired, Arms
<1>4a. ASSUME NEW p \in Procs, pump_ready(p) \/ pump_stale(p)
       PROVE  TypeOK'
  BY <1>4a, AttemptType DEF pump_ready, pump_stale, Arms
<1>5. ASSUME NEW p \in Procs, NEW t \in Tasks, NEW k \in Tokens, claim_won(p, t, k)
      PROVE  TypeOK'
  <2>1. claim_update(p, t, k)
    BY <1>5 DEF claim_won
  <2>2. NoAttempt \in Attempts
    BY DEF NoAttempt, Attempts
  <2>3. /\ claimed_job(p, t, "skipped") \in Jobs
        /\ claimed_job(p, t, "setup") \in Jobs
    BY <2>1, ClaimType DEF Phases, Active
  <2>4. job' \in [Tokens -> Jobs]
    BY <1>0, <1>5, <2>3 DEF claim_won
  <2>5. /\ pump' \in [Procs -> Attempts]
        /\ permits' \in [Procs -> Nat]
        /\ in_flight' \in [Procs -> SUBSET Tasks]
    <3>1. CASE t \in in_flight[p]
      <4>1. release_attempt(p) /\ UNCHANGED in_flight
        BY <1>5, <3>1 DEF claim_won
      <4> QED BY <4>1, ReleaseType DEF TypeOK
    <3>2. CASE t \notin in_flight[p]
      <4>1. /\ in_flight' = [in_flight EXCEPT ![p] = in_flight[p] \cup {t}]
            /\ pump' = [pump EXCEPT ![p] = NoAttempt]
            /\ permits' = permits
        BY <1>5, <3>2 DEF claim_won
      <4>2. in_flight[p] \cup {t} \in SUBSET Tasks
        BY DEF TypeOK
      <4>3. in_flight' \in [Procs -> SUBSET Tasks]
        BY <4>1, <4>2 DEF TypeOK
      <4> QED BY <1>0, <2>2, <4>1, <4>3 DEF TypeOK
    <3> QED BY <3>1, <3>2
  <2> HIDE DEF collection, loops, capacity
  <2> QED BY <1>5, <2>1, <2>4, <2>5, ClaimType
          DEF claim_won, TypeOK, WorkerStates, Attempts, Jobs
<1>6. ASSUME NEW p \in Procs, NEW t \in Tasks, NEW k \in Tokens,
             claim_unanswered(p, t, k)
      PROVE  TypeOK'
  <2>1. claim_update(p, t, k) /\ release_attempt(p)
    BY <1>6 DEF claim_unanswered
  <2>2. claimed_job(p, t, "unanswered") \in Jobs
    BY <2>1, ClaimType DEF Phases
  <2>3. job' \in [Tokens -> Jobs]
    BY <1>0, <1>6, <2>2 DEF claim_unanswered
  <2> QED BY <1>6, <2>1, <2>3, ClaimType, ReleaseType
          DEF claim_unanswered, TypeOK, WorkerStates, Attempts, Jobs
<1>7. ASSUME NEW p \in Procs, claim_missed(p) \/ claim_failed(p)
      PROVE  TypeOK'
  <2>1. pump' \in [Procs -> Attempts] /\ permits' \in [Procs -> Nat]
    <3>1. CASE release_attempt(p)
      BY <3>1, ReleaseType
    <3>2. CASE pump' = [pump EXCEPT ![p].arm = "own"] /\ UNCHANGED permits
      <4>1. [pump[p] EXCEPT !.arm = "own"] \in Attempts
        BY <1>0 DEF Attempts, Arms
      <4>2. pump' = [pump EXCEPT ![p] = [pump[p] EXCEPT !.arm = "own"]]
        BY <3>2
      <4> QED BY <1>0, <3>2, <4>1, <4>2 DEF TypeOK
    <3> QED BY <1>7, <3>1, <3>2 DEF claim_missed, claim_failed
  <2> QED BY <1>7, <2>1 DEF claim_missed, claim_failed, TypeOK, Attempts
<1>8. ASSUME NEW k \in Tokens, JobStep(k)
      PROVE  TypeOK'
  <2>1. CASE setup_bad_payload(k)
    <3>1. job' \in [Tokens -> Jobs]
      BY <2>1, EnterEffect DEF setup_bad_payload, Phases, Active
    <3> QED BY <2>1, <3>1 DEF setup_bad_payload, TypeOK, Jobs
  <2>2. CASE setup_confirmed(k)
    <3>1. job' \in [Tokens -> Jobs]
      BY <2>2, EnterEffect DEF setup_confirmed, Phases, Active
    <3>2. worker_state' \in [Tasks -> WorkerStates]
      BY <2>2, HeartbeatEffect DEF setup_confirmed
    <3>3. heartbeat_loop' \in [Tokens -> LoopStates]
      BY <2>2 DEF setup_confirmed, start_heartbeat_loop, TypeOK, LoopStates
    <3> QED BY <2>2, <3>1, <3>2, <3>3 DEF setup_confirmed, TypeOK, Jobs, WorkerStates
  <2>3. CASE setup_error(k)
    <3>1. job' \in [Tokens -> Jobs]
      BY <2>3, EnterEffect DEF setup_error, Phases, Active
    <3>2. worker_state' \in [Tasks -> WorkerStates]
      BY <1>0, <2>3, HeartbeatEffect DEF setup_error
    <3> QED BY <2>3, <3>1, <3>2 DEF setup_error, TypeOK, Jobs, WorkerStates
  <2>4. CASE handler_returns(k)
    <3>1. job' \in [Tokens -> Jobs]
      BY <2>4, EnterEffect DEF handler_returns, Phases, Active
    <3> QED BY <2>4, <3>1 DEF handler_returns, TypeOK, Jobs
  <2>5. CASE setup_worker_gone(k) \/ handler_lost(k) \/ handler_aborted(k) \/ finish_error(k)
    <3>1. \E phase \in Phases : leave(k, phase)
      BY <2>5 DEF setup_worker_gone, handler_lost, handler_aborted, finish_error, Phases
    <3>2. /\ job' \in [Tokens -> Jobs]
          /\ in_flight' \in [Procs -> SUBSET Tasks]
          /\ permits' \in [Procs -> Nat]
      BY <3>1, LeaveType
    <3>3. UNCHANGED <<collection, loops, heartbeat_loop, environment>>
      BY <2>5 DEF setup_worker_gone, handler_lost, handler_aborted, finish_error
    <3> QED BY <3>2, <3>3 DEF TypeOK, Jobs
  <2>6. CASE complete(k) \/ mark_task_failed(k)
    <3>1. PICK phase \in Phases, final \in Finished : finish(k, phase, final)
      BY <2>6 DEF complete, mark_task_failed, Phases, Active, Finished
    <3>2. /\ job' \in [Tokens -> Jobs]
          /\ in_flight' \in [Procs -> SUBSET Tasks]
          /\ permits' \in [Procs -> Nat]
      BY <3>1, LeaveType DEF finish, Phases
    <3>3. status' \in [Tasks -> Statuses] /\ outcome' \in [Tasks -> Tokens \cup {NoToken}]
      <4>1. CASE owns(k)
        <5>1. /\ status' = [status EXCEPT ![job[k].task] = final]
              /\ outcome' = [outcome EXCEPT ![job[k].task] = k]
          BY <3>1, <4>1 DEF finish
        <5>2. final \in Statuses
          BY DEF Statuses
        <5> QED BY <5>1, <5>2 DEF TypeOK
      <4>2. CASE ~owns(k)
        BY <3>1, <4>2 DEF finish, TypeOK
      <4> QED BY <4>1, <4>2
    <3> QED BY <3>1, <3>2, <3>3 DEF finish, TypeOK, Jobs
  <2> QED BY <1>8, <2>1, <2>2, <2>3, <2>4, <2>5, <2>6 DEF JobStep
<1>9. ASSUME NEW k \in Tokens, BeatStep(k)
      PROVE  TypeOK'
  <2>1. worker_state' \in [Tasks -> WorkerStates]
    BY <1>0, <1>9, HeartbeatEffect
       DEF BeatStep, beat, beat_superseded, beat_error, beat_stopped
  <2>2. heartbeat_loop' \in [Tokens -> LoopStates]
    BY <1>9 DEF BeatStep, beat, beat_superseded, beat_error, beat_stopped, TypeOK, LoopStates
  <2>3. UNCHANGED <<status, task_input, outcome, loops, capacity, job, environment>>
    BY <1>9 DEF BeatStep, beat, beat_superseded, beat_error, beat_stopped
  <2> QED BY <2>1, <2>2, <2>3 DEF TypeOK, WorkerStates
<1>10. CASE Tick
  BY <1>10 DEF Tick, TypeOK
<1>11. CASE UNCHANGED vars
  BY <1>11 DEF vars, TypeOK
<1> QED
  <2>1. ASSUME NEW p \in Procs, LoopStep(p) PROVE TypeOK'
    BY <2>1, <1>2, <1>3, <1>4, <1>4a, <1>5, <1>6, <1>7 DEF LoopStep
  <2> QED BY <2>1, <1>1, <1>8, <1>9, <1>10, <1>11 DEF Next

\* Every variable keeps its type, for any number of workers, tasks and claims;
\* in particular a pump never takes a permit the semaphore does not have.
THEOREM TypeCorrect == Spec => []TypeOK
BY TypeInit, TypeNext, PTL DEF Spec

-----------------------------------------------------------------------------
(* ClaimInvariant                                                          *)

LEMMA ClaimInit == Init => ClaimInvariant
BY ConstantsAssumption
   DEF Init, ClaimInvariant, SupersededIsDefinitive, NoJob, Finished

\* A step that keeps the documents up to their heartbeats, and keeps what every
\* claim was made for, keeps ClaimInvariant; provided no heartbeat loop reports
\* a claim that still owns its document.
LEMMA ClaimFrame ==
  ASSUME TypeOK, ClaimInvariant,
         UNCHANGED <<status, task_input, outcome>>,
         \A t \in Tasks :
           /\ worker_state'[t].worker_id = worker_state[t].worker_id
           /\ worker_state'[t].claim_token = worker_state[t].claim_token,
         \A k \in Tokens :
           /\ job'[k].proc = job[k].proc
           /\ job'[k].task = job[k].task
           /\ job'[k].request = job[k].request
           /\ job'[k].phase = "unused" <=> job[k].phase = "unused"
           /\ job[k].phase = "unused" => heartbeat_loop'[k] = "off"
           /\ heartbeat_loop'[k] = "superseded" =>
                heartbeat_loop[k] = "superseded" \/ ~owns(k)
  PROVE  ClaimInvariant'
<1>1. ASSUME NEW k \in Tokens
      PROVE  /\ job'[k].phase = "unused" => heartbeat_loop'[k] = "off"
             /\ job'[k].phase # "unused" =>
                  job'[k].proc \in Procs /\ job'[k].task \in Tasks /\ job'[k].request \in Requests
  BY DEF ClaimInvariant
<1>2. ASSUME NEW t \in Tasks
      PROVE  /\ status'[t] = "absent" <=> task_input'[t] = NoRequest
             /\ status'[t] = "running" => HeldBy(t, worker_state[t].claim_token)'
             /\ status'[t] \in Finished => HeldBy(t, outcome[t])'
  BY DEF ClaimInvariant, HeldBy
<1>3. ASSUME NEW k \in Tokens, heartbeat_loop'[k] = "superseded"
      PROVE  ~owns(k)'
  <2>1. job[k].phase # "unused" /\ job[k].task \in Tasks
    BY <1>3 DEF ClaimInvariant
  <2>2. ~owns(k)
    BY <1>3 DEF ClaimInvariant, SupersededIsDefinitive
  <2> QED BY <2>1, <2>2 DEF owns
<1> QED BY <1>1, <1>2, <1>3 DEF ClaimInvariant, SupersededIsDefinitive

\* A claim, answered or not, takes a token that was never used.
LEMMA ClaimByNewToken ==
  ASSUME NEW p \in Procs, NEW t \in Tasks, NEW k \in Tokens, NEW phase \in Phases,
         TypeOK, ClaimInvariant, claim_filter(p, t), claim_update(p, t, k),
         phase # "unused",
         job' = [job EXCEPT ![k] = claimed_job(p, t, phase)],
         UNCHANGED heartbeat_loop
  PROVE  ClaimInvariant'
<1> USE DEF claim_update
<1>0. /\ job \in [Tokens -> Jobs]
      /\ worker_state \in [Tasks -> WorkerStates]
      /\ status \in [Tasks -> Statuses]
  BY DEF TypeOK, Jobs, WorkerStates
<1>1. /\ job'[k] = claimed_job(p, t, phase)
      /\ \A j \in Tokens \ {k} : job'[j] = job[j]
  BY <1>0
<1>2. /\ status'[t] = "running"
      /\ worker_state'[t] = [worker_id |-> WorkerId[p], claim_token |-> k,
                             heartbeat_at |-> pump[p].at]
      /\ \A u \in Tasks \ {t} :
           status'[u] = status[u] /\ worker_state'[u] = worker_state[u]
  BY <1>0
<1>3. status[t] \in {"pending", "running"} /\ task_input[t] \in Requests
  BY <1>0, ConstantsAssumption DEF claim_filter, ClaimInvariant, TypeOK
<1>4. ASSUME NEW j \in Tokens
      PROVE  /\ job'[j].phase = "unused" => heartbeat_loop'[j] = "off"
             /\ job'[j].phase # "unused" =>
                  job'[j].proc \in Procs /\ job'[j].task \in Tasks /\ job'[j].request \in Requests
  BY <1>1, <1>3 DEF ClaimInvariant, claimed_job
<1>5. ASSUME NEW u \in Tasks
      PROVE  /\ status'[u] = "absent" <=> task_input'[u] = NoRequest
             /\ status'[u] = "running" => HeldBy(u, worker_state[u].claim_token)'
             /\ status'[u] \in Finished => HeldBy(u, outcome[u])'
  <2>1. CASE u = t
    BY <1>1, <1>2, <1>3, <2>1, ConstantsAssumption DEF HeldBy, claimed_job, Finished
  <2>2. CASE u # t
    BY <1>1, <1>2, <2>2 DEF ClaimInvariant, HeldBy
  <2> QED BY <2>1, <2>2
<1>6. ASSUME NEW j \in Tokens, heartbeat_loop'[j] = "superseded"
      PROVE  ~owns(j)'
  <2>1. j # k /\ job'[j] = job[j] /\ job[j].task \in Tasks /\ ~owns(j)
    BY <1>1, <1>6 DEF ClaimInvariant, SupersededIsDefinitive
  <2>2. CASE job[j].task = t
    BY <1>2, <2>1, <2>2 DEF owns
  <2>3. CASE job[j].task # t
    BY <1>2, <2>1, <2>3 DEF owns
  <2> QED BY <2>2, <2>3
<1> QED BY <1>4, <1>5, <1>6 DEF ClaimInvariant, SupersededIsDefinitive

\* The final write of a claim that owns its document.
LEMMA ClaimFinish ==
  ASSUME NEW k \in Tokens, NEW phase \in Active, NEW final \in Finished,
         TypeOK, ClaimInvariant, finish(k, phase, final)
  PROVE  ClaimInvariant'
<1> DEFINE t0 == job[k].task
<1>1. /\ \A j \in Tokens :
           /\ job'[j].proc = job[j].proc
           /\ job'[j].task = job[j].task
           /\ job'[j].request = job[j].request
           /\ job'[j].phase = "unused" <=> job[j].phase = "unused"
      /\ job[k].phase # "unused"
  BY EnterEffect DEF finish, leave, Phases, Active
<1>2. /\ UNCHANGED <<task_input, worker_state, heartbeat_loop>>
      /\ t0 \in Tasks
  BY <1>1 DEF finish, ClaimInvariant
<1>3. CASE ~owns(k)
  <2>1. UNCHANGED <<status, outcome>>
    BY <1>3 DEF finish
  <2> QED BY <1>1, <1>2, <2>1, ClaimFrame DEF ClaimInvariant
<1>4. CASE owns(k)
  <2>1. /\ status'[t0] = final /\ outcome'[t0] = k
        /\ \A u \in Tasks \ {t0} : status'[u] = status[u] /\ outcome'[u] = outcome[u]
    BY <1>2, <1>4 DEF finish, TypeOK
  <2>2. HeldBy(t0, k)
    BY <1>2, <1>4 DEF ClaimInvariant, owns
  <2>3. ASSUME NEW u \in Tasks
        PROVE  /\ status'[u] = "absent" <=> task_input'[u] = NoRequest
               /\ status'[u] = "running" => HeldBy(u, worker_state[u].claim_token)'
               /\ status'[u] \in Finished => HeldBy(u, outcome[u])'
    <3>1. CASE u = t0
      <4>1. status[u] = "running" /\ task_input[u] # NoRequest
        BY <1>4, <3>1 DEF owns, ClaimInvariant
      <4> QED BY <1>1, <1>2, <2>1, <2>2, <3>1, <4>1 DEF HeldBy, Finished
    <3>2. CASE u # t0
      BY <1>1, <1>2, <2>1, <3>2 DEF ClaimInvariant, HeldBy
    <3> QED BY <3>1, <3>2
  <2>4. ASSUME NEW j \in Tokens, heartbeat_loop'[j] = "superseded"
        PROVE  ~owns(j)'
    <3>1. job'[j].task = job[j].task /\ job'[j].proc = job[j].proc
      BY <1>1
    <3>2. job[j].task \in Tasks /\ ~owns(j)
      BY <1>2, <2>4 DEF ClaimInvariant, SupersededIsDefinitive
    <3>3. CASE job[j].task = t0
      BY <2>1, <3>1, <3>3 DEF owns, Finished
    <3>4. CASE job[j].task # t0
      BY <1>2, <2>1, <3>1, <3>2, <3>4 DEF owns
    <3> QED BY <3>3, <3>4
  <2> QED BY <1>1, <1>2, <2>3, <2>4 DEF ClaimInvariant, SupersededIsDefinitive
<1> QED BY <1>3, <1>4

\* A submission takes the document away from every claim.
LEMMA ClaimUpsert ==
  ASSUME NEW r \in Requests, NEW t \in Tasks, TypeOK, ClaimInvariant, upsert_task(r, t)
  PROVE  ClaimInvariant'
<1>1. /\ status'[t] = "pending" /\ task_input'[t] = r
      /\ \A u \in Tasks \ {t} :
           /\ status'[u] = status[u] /\ task_input'[u] = task_input[u]
           /\ worker_state'[u] = worker_state[u] /\ outcome'[u] = outcome[u]
      /\ UNCHANGED <<job, heartbeat_loop>>
  BY DEF upsert_task, TypeOK
<1>2. ASSUME NEW u \in Tasks
      PROVE  /\ status'[u] = "absent" <=> task_input'[u] = NoRequest
             /\ status'[u] = "running" => HeldBy(u, worker_state[u].claim_token)'
             /\ status'[u] \in Finished => HeldBy(u, outcome[u])'
  <2>1. CASE u = t
    BY <1>1, <2>1, ConstantsAssumption DEF Finished
  <2>2. CASE u # t
    BY <1>1, <2>2 DEF ClaimInvariant, HeldBy
  <2> QED BY <2>1, <2>2
<1>3. ASSUME NEW j \in Tokens, heartbeat_loop'[j] = "superseded"
      PROVE  ~owns(j)'
  <2>1. job[j].task \in Tasks /\ ~owns(j)
    BY <1>1, <1>3 DEF ClaimInvariant, SupersededIsDefinitive
  <2>2. CASE job[j].task = t
    BY <1>1, <2>2 DEF owns
  <2>3. CASE job[j].task # t
    BY <1>1, <2>1, <2>3 DEF owns
  <2> QED BY <2>2, <2>3
<1> QED BY <1>1, <1>2, <1>3 DEF ClaimInvariant, SupersededIsDefinitive

LEMMA ClaimNext == TypeOK /\ ClaimInvariant /\ [Next]_vars => ClaimInvariant'
<1> SUFFICES ASSUME TypeOK, ClaimInvariant, [Next]_vars PROVE ClaimInvariant'
  OBVIOUS
<1> USE DEF collection, loops, capacity, environment
<1>1. ASSUME NEW r \in Requests, NEW t \in Tasks, upsert_task(r, t)
      PROVE  ClaimInvariant'
  BY <1>1, ClaimUpsert
<1>2. CASE UNCHANGED <<collection, job, heartbeat_loop>>
  BY <1>2, ClaimFrame DEF ClaimInvariant
<1>3. ASSUME NEW p \in Procs, abort(p)
      PROVE  ClaimInvariant'
  <2>1. \A k \in Tokens :
          /\ job'[k].proc = job[k].proc
          /\ job'[k].task = job[k].task
          /\ job'[k].request = job[k].request
          /\ job'[k].phase = "unused" <=> job[k].phase = "unused"
    BY <1>3 DEF abort, TypeOK, Active
  <2>2. UNCHANGED <<collection, heartbeat_loop>>
    BY <1>3 DEF abort
  <2> QED BY <2>1, <2>2, ClaimFrame DEF ClaimInvariant
<1>4. ASSUME NEW p \in Procs, NEW t \in Tasks, NEW k \in Tokens,
             claim_won(p, t, k) \/ claim_unanswered(p, t, k)
      PROVE  ClaimInvariant'
  <2>1. PICK phase \in {"skipped", "setup", "unanswered"} :
          job' = [job EXCEPT ![k] = claimed_job(p, t, phase)]
    BY <1>4 DEF claim_won, claim_unanswered
  <2>2. claim_filter(p, t) /\ claim_update(p, t, k) /\ UNCHANGED heartbeat_loop
    BY <1>4 DEF claim_won, claim_unanswered
  <2>3. phase \in Phases /\ phase # "unused"
    BY DEF Phases, Active
  <2> QED BY <2>1, <2>2, <2>3, ClaimByNewToken
<1>5. ASSUME NEW p \in Procs, LoopStep(p)
      PROVE  ClaimInvariant'
  <2>1. ASSUME NEW t \in Tasks, NEW known \in BOOLEAN, pump_expired(p, t, known)
        PROVE  ClaimInvariant'
    BY <1>2, <2>1 DEF pump_expired, attempt
  <2>2. CASE \/ run(p) \/ stop_received(p) \/ drained(p) \/ pump_ready(p)
             \/ pump_stale(p) \/ claim_missed(p) \/ claim_failed(p)
    BY <1>2, <2>2 DEF run, stop_received, drained, pump_ready, pump_stale, attempt,
                      claim_missed, claim_failed
  <2> QED BY <1>3, <1>4, <1>5, <2>1, <2>2 DEF LoopStep
<1>6. ASSUME NEW k \in Tokens, JobStep(k)
      PROVE  ClaimInvariant'
  <2>1. CASE complete(k) \/ mark_task_failed(k)
    BY <2>1, ClaimFinish DEF complete, mark_task_failed, Active, Finished
  <2>2. CASE ~(complete(k) \/ mark_task_failed(k))
    <3>1. PICK phase \in Phases \ {"unused"} : enter(k, phase)
      BY <1>6, <2>2 DEF JobStep, setup_bad_payload, setup_confirmed, setup_worker_gone,
         setup_error, handler_returns, handler_lost, handler_aborted, finish_error, leave,
         Phases, Active
    <3>2. job[k].phase # "unused"
      BY <1>6, <2>2 DEF JobStep, setup_bad_payload, setup_confirmed, setup_worker_gone,
         setup_error, handler_returns, handler_lost, handler_aborted, finish_error
    <3>3. \A j \in Tokens :
            /\ job'[j].proc = job[j].proc
            /\ job'[j].task = job[j].task
            /\ job'[j].request = job[j].request
            /\ job'[j].phase = "unused" <=> job[j].phase = "unused"
      BY <3>1, <3>2, EnterEffect
    <3>4. /\ UNCHANGED <<status, task_input, outcome>>
          /\ UNCHANGED worker_state \/ heartbeat(k)
          /\ \/ UNCHANGED heartbeat_loop
             \/ \E loop \in {"on", "failed"} :
                  heartbeat_loop' = [heartbeat_loop EXCEPT ![k] = loop]
      BY <1>6, <2>2 DEF JobStep, setup_bad_payload, setup_confirmed, setup_worker_gone,
         setup_error, handler_returns, handler_lost, handler_aborted, finish_error,
         start_heartbeat_loop
    <3>5. \A t \in Tasks :
            /\ worker_state'[t].worker_id = worker_state[t].worker_id
            /\ worker_state'[t].claim_token = worker_state[t].claim_token
      BY <3>4, HeartbeatEffect
    <3>6. \A j \in Tokens :
            /\ job[j].phase = "unused" => heartbeat_loop'[j] = "off"
            /\ heartbeat_loop'[j] = "superseded" => heartbeat_loop[j] = "superseded"
      BY <3>2, <3>4 DEF ClaimInvariant, TypeOK
    <3> QED BY <3>3, <3>4, <3>5, <3>6, ClaimFrame
  <2> QED BY <2>1, <2>2
<1>7. ASSUME NEW k \in Tokens, BeatStep(k)
      PROVE  ClaimInvariant'
  <2>1. /\ UNCHANGED <<status, task_input, outcome, job>>
        /\ UNCHANGED worker_state \/ heartbeat(k)
        /\ heartbeat_loop[k] = "on"
        /\ \/ UNCHANGED heartbeat_loop
           \/ heartbeat_loop' = [heartbeat_loop EXCEPT ![k] = "failed"]
           \/ heartbeat_loop' = [heartbeat_loop EXCEPT ![k] = "stopped"]
           \/ heartbeat_loop' = [heartbeat_loop EXCEPT ![k] = "superseded"] /\ ~owns(k)
    BY <1>7 DEF BeatStep, beat, beat_superseded, beat_error, beat_stopped
  <2>2. \A t \in Tasks :
          /\ worker_state'[t].worker_id = worker_state[t].worker_id
          /\ worker_state'[t].claim_token = worker_state[t].claim_token
    BY <2>1, HeartbeatEffect
  <2>3. \A j \in Tokens :
          /\ job[j].phase = "unused" => heartbeat_loop'[j] = "off"
          /\ heartbeat_loop'[j] = "superseded" =>
               heartbeat_loop[j] = "superseded" \/ ~owns(j)
    BY <2>1 DEF ClaimInvariant, TypeOK
  <2> QED BY <2>1, <2>2, <2>3, ClaimFrame
<1>8. CASE Tick \/ UNCHANGED vars
  BY <1>2, <1>8 DEF Tick, vars
<1> QED BY <1>1, <1>5, <1>6, <1>7, <1>8 DEF Next

\* The tie between documents and claims holds in every reachable state.
THEOREM ClaimsCorrect == Spec => []ClaimInvariant
<1>1. Spec => []TypeOK
  BY TypeCorrect
<1> QED BY <1>1, ClaimInit, ClaimNext, PTL DEF Spec

\* A finished document holds the result of a claim made for the payload it
\* holds, however many workers, restarts, steals and resets there were.
THEOREM ResultsMatch == Spec => []ResultMatchesRequest
<1>1. ClaimInvariant => ResultMatchesRequest
  BY DEF ClaimInvariant, ResultMatchesRequest
<1> QED BY <1>1, ClaimsCorrect, PTL

\* A claim whose heartbeat loop has signalled lost ownership never owns its
\* document again.
THEOREM SupersededForGood == Spec => []SupersededIsDefinitive
<1>1. ClaimInvariant => SupersededIsDefinitive
  BY DEF ClaimInvariant
<1> QED BY <1>1, ClaimsCorrect, PTL

-----------------------------------------------------------------------------
(* The collection implements TaskMailbox                                   *)

LEMMA MailboxInit == Init => Mailbox!Init
<1> SUFFICES ASSUME Init PROVE Mailbox!Init
  OBVIOUS
<1>1. answered = [t \in Tasks |-> NoRequest]
  BY DEF Init, answered, Finished
<1> QED BY <1>1 DEF Init, Mailbox!Init

\* Steps that touch neither payloads nor results stutter in the mailbox.
LEMMA MailboxFrame ==
  ASSUME TypeOK, ClaimInvariant,
         UNCHANGED <<task_input, outcome, submitted>>,
         \A t \in Tasks : (status'[t] \in Finished) <=> (status[t] \in Finished),
         \A k \in Tokens : job[k].phase # "unused" => job'[k].request = job[k].request
  PROVE  UNCHANGED Mailbox!mailbox
<1>1. \A t \in Tasks : answered'[t] = answered[t]
  BY DEF answered, ClaimInvariant, HeldBy
<1>2. answered' = answered
  BY <1>1 DEF answered
<1> QED BY <1>2 DEF Mailbox!mailbox

LEMMA MailboxNext ==
  TypeOK /\ ClaimInvariant /\ ClaimInvariant' /\ [Next]_vars
    => [Mailbox!Next]_(Mailbox!mailbox)
<1> SUFFICES ASSUME TypeOK, ClaimInvariant, ClaimInvariant', [Next]_vars
             PROVE  Mailbox!Next \/ UNCHANGED Mailbox!mailbox
  OBVIOUS
<1> USE DEF collection, loops, capacity, environment
<1>1. ASSUME NEW r \in Requests, NEW t \in Tasks, upsert_task(r, t)
      PROVE  Mailbox!Next
  <2>1. task_input[t] = NoRequest \/ (r \in Resets /\ answered[t] # NoRequest)
    <3>1. CASE status[t] = "absent"
      BY <3>1 DEF ClaimInvariant
    <3>2. CASE r \in Resets /\ status[t] \in Finished
      <4>1. HeldBy(t, outcome[t])
        BY <3>2 DEF ClaimInvariant
      <4>2. answered[t] \in Requests
        BY <3>2, <4>1 DEF answered, HeldBy, ClaimInvariant
      <4> QED BY <3>2, <4>2, ConstantsAssumption
    <3> QED BY <1>1, <3>1, <3>2 DEF upsert_task
  <2>2. answered' = [answered EXCEPT ![t] = NoRequest]
    <3>1. /\ status'[t] = "pending"
          /\ \A u \in Tasks \ {t} : status'[u] = status[u] /\ outcome'[u] = outcome[u]
          /\ UNCHANGED job
      BY <1>1 DEF upsert_task, TypeOK
    <3> QED BY <3>1 DEF answered, Finished
  <2>3. Mailbox!Submit(t, r)
    BY <1>1, <2>1, <2>2 DEF upsert_task, Mailbox!Submit
  <2> QED BY <2>3 DEF Mailbox!Next
<1>2. CASE UNCHANGED <<status, task_input, outcome, job, submitted>>
  BY <1>2, MailboxFrame
<1>3. ASSUME NEW p \in Procs, abort(p)
      PROVE  UNCHANGED Mailbox!mailbox
  <2>1. \A k \in Tokens : job'[k].request = job[k].request
    BY <1>3 DEF abort, TypeOK
  <2> QED BY <1>3, <2>1, MailboxFrame DEF abort
<1>4. ASSUME NEW p \in Procs, NEW t \in Tasks, NEW k \in Tokens,
             claim_won(p, t, k) \/ claim_unanswered(p, t, k)
      PROVE  UNCHANGED Mailbox!mailbox
  <2>1. claim_filter(p, t) /\ claim_update(p, t, k) /\ UNCHANGED submitted
    BY <1>4 DEF claim_won, claim_unanswered
  <2>2. \A j \in Tokens : job[j].phase # "unused" => job'[j] = job[j]
    BY <1>4, <2>1 DEF claim_won, claim_unanswered, claim_update, TypeOK
  <2>3. \A u \in Tasks : (status'[u] \in Finished) <=> (status[u] \in Finished)
    BY <2>1 DEF claim_filter, claim_update, Finished, TypeOK
  <2> QED BY <2>1, <2>2, <2>3, MailboxFrame DEF claim_update
<1>5. ASSUME NEW p \in Procs, LoopStep(p)
      PROVE  UNCHANGED Mailbox!mailbox
  <2>1. ASSUME NEW t \in Tasks, NEW known \in BOOLEAN, pump_expired(p, t, known)
        PROVE  UNCHANGED Mailbox!mailbox
    BY <2>1, MailboxFrame DEF pump_expired, attempt
  <2>2. CASE \/ run(p) \/ stop_received(p) \/ drained(p) \/ pump_ready(p)
             \/ pump_stale(p) \/ claim_missed(p) \/ claim_failed(p)
    BY <2>2, MailboxFrame DEF run, stop_received, drained, pump_ready, pump_stale,
       attempt, claim_missed, claim_failed
  <2> QED BY <1>3, <1>4, <1>5, <2>1, <2>2 DEF LoopStep
<1>6. ASSUME NEW k \in Tokens, JobStep(k)
      PROVE  Mailbox!Next \/ UNCHANGED Mailbox!mailbox
  <2>1. \E phase \in Phases : enter(k, phase)
    BY <1>6 DEF JobStep, setup_bad_payload, setup_confirmed, setup_worker_gone,
       setup_error, handler_returns, handler_lost, handler_aborted, finish_error,
       complete, mark_task_failed, finish, leave, Phases, Active
  <2>2. \A j \in Tokens : job'[j].request = job[j].request
    BY <2>1, EnterEffect
  <2>3. ASSUME NEW phase \in Active, NEW final \in Finished, finish(k, phase, final)
        PROVE  Mailbox!Next \/ UNCHANGED Mailbox!mailbox
    <3> DEFINE t0 == job[k].task
    <3>1. CASE ~owns(k)
      BY <2>2, <2>3, <3>1, MailboxFrame DEF finish
    <3>2. CASE owns(k)
      <4>1. t0 \in Tasks
        BY <2>3 DEF finish, ClaimInvariant, Active
      <4>2. /\ status'[t0] = final /\ outcome'[t0] = k
            /\ \A u \in Tasks \ {t0} : status'[u] = status[u] /\ outcome'[u] = outcome[u]
            /\ UNCHANGED <<task_input, submitted>>
        BY <2>3, <3>2, <4>1 DEF finish, TypeOK
      <4>3. status[t0] = "running" /\ HeldBy(t0, k)
        BY <3>2, <4>1 DEF owns, ClaimInvariant
      <4>4. task_input[t0] # NoRequest /\ answered[t0] = NoRequest
        BY <4>1, <4>3 DEF answered, ClaimInvariant, Finished
      <4>5. \A u \in Tasks : answered'[u] = IF u = t0 THEN task_input[t0] ELSE answered[u]
        BY <2>2, <4>1, <4>2, <4>3 DEF answered, HeldBy, ClaimInvariant
      <4>6. answered' = [answered EXCEPT ![t0] = task_input[t0]]
        BY <4>1, <4>5 DEF answered
      <4>7. Mailbox!Answer(t0)
        BY <4>2, <4>4, <4>6 DEF Mailbox!Answer
      <4> QED BY <4>1, <4>7 DEF Mailbox!Next
    <3> QED BY <3>1, <3>2
  <2>4. CASE complete(k) \/ mark_task_failed(k)
    BY <2>3, <2>4 DEF complete, mark_task_failed, Active, Finished
  <2>5. CASE ~(complete(k) \/ mark_task_failed(k))
    <3>1. UNCHANGED <<status, task_input, outcome, submitted>>
      BY <1>6, <2>5 DEF JobStep, setup_bad_payload, setup_confirmed, setup_worker_gone,
         setup_error, handler_returns, handler_lost, handler_aborted, finish_error
    <3> QED BY <2>2, <3>1, MailboxFrame
  <2> QED BY <2>4, <2>5
<1>7. ASSUME NEW k \in Tokens, BeatStep(k)
      PROVE  UNCHANGED Mailbox!mailbox
  BY <1>2, <1>7, MailboxFrame DEF BeatStep, beat, beat_superseded, beat_error, beat_stopped
<1>8. CASE Tick \/ UNCHANGED vars
  BY <1>8, MailboxFrame DEF Tick, vars
<1> QED BY <1>1, <1>5, <1>6, <1>7, <1>8 DEF Next

\* Whatever workers do, the collection behaves like a mailbox: each accepted
\* submission gets at most one answer, its own, which stays until a resetting
\* submission replaces it.
THEOREM CollectionIsMailbox == Spec => ImplementsMailbox
<1>1. Spec => []TypeOK /\ []ClaimInvariant
  BY TypeCorrect, ClaimsCorrect, PTL
<1> QED BY <1>1, MailboxInit, MailboxNext, PTL DEF Spec, ImplementsMailbox, Mailbox!Spec

=============================================================================
