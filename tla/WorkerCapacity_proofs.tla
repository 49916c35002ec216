------------------------ MODULE WorkerCapacity_proofs -----------------------
(***************************************************************************)
(* Proofs about the in-flight registry and the permits of a process, and   *)
(* about when a running task may change hands.                             *)
(***************************************************************************)
EXTENDS WorkerClaims_proofs, FiniteSetTheorems

\* CapacityInvariant for one process.
Balanced(q) ==
  /\ IsFiniteSet(ActiveJobs(q))
  /\ pump[q] # NoAttempt => in_flight[q] \subseteq pump[q].excluded /\ pump[q].at <= now
  /\ in_flight[q] = {job[k].task : k \in ActiveJobs(q)}
  /\ \A j, k \in ActiveJobs(q) : job[j].task = job[k].task => j = k
  /\ permits[q] + Cardinality(ActiveJobs(q))
                + (IF pump[q] = NoAttempt THEN 0 ELSE 1) = MaxInflight

LEMMA CapacityByProcess ==
  CapacityInvariant <=> (\A q \in Procs : Balanced(q)) /\ ClaimedTaskIsStarted
BY DEF CapacityInvariant, Balanced, OneHandlerPerTask, PermitsConserved

LEMMA CapacityInit == Init => CapacityInvariant
<1> SUFFICES ASSUME Init PROVE CapacityInvariant
  OBVIOUS
<1>1. ASSUME NEW q \in Procs PROVE Balanced(q)
  <2>1. ActiveJobs(q) = {}
    BY <1>1 DEF Init, ActiveJobs, NoJob, Active
  <2>2. IsFiniteSet(ActiveJobs(q)) /\ Cardinality(ActiveJobs(q)) = 0
    BY <2>1, FS_EmptySet
  <2>3. in_flight[q] = {} /\ permits[q] = MaxInflight /\ pump[q] = NoAttempt
    BY <1>1 DEF Init
  <2> QED BY <2>1, <2>2, <2>3, ConstantsAssumption DEF Balanced
<1>2. ClaimedTaskIsStarted
  BY DEF Init, ClaimedTaskIsStarted, NoJob
<1> QED BY <1>1, <1>2, CapacityByProcess

\* A process none of whose running process_tasks start or end.
LEMMA BalancedFrame ==
  ASSUME NEW q \in Procs, TypeOK, TypeOK', Balanced(q),
         \A k \in Tokens :
           /\ (k \in ActiveJobs(q)') <=> (k \in ActiveJobs(q))
           /\ k \in ActiveJobs(q) => job'[k].task = job[k].task,
         in_flight'[q] = in_flight[q],
         permits'[q] + (IF pump'[q] = NoAttempt THEN 0 ELSE 1)
           = permits[q] + (IF pump[q] = NoAttempt THEN 0 ELSE 1),
         pump'[q] # NoAttempt =>
           in_flight[q] \subseteq pump'[q].excluded /\ pump'[q].at <= now'
  PROVE  Balanced(q)'
<1>1. ActiveJobs(q)' = ActiveJobs(q)
  BY DEF ActiveJobs
<1>1a. \A k \in ActiveJobs(q) : job'[k].task = job[k].task
  BY DEF ActiveJobs
<1>2. {job'[k].task : k \in ActiveJobs(q)'} = {job[k].task : k \in ActiveJobs(q)}
  BY <1>1, <1>1a
<1>2a. \A j, k \in ActiveJobs(q)' : job'[j].task = job'[k].task => j = k
  BY <1>1, <1>1a DEF Balanced
<1>2b. IsFiniteSet(ActiveJobs(q)') /\ in_flight'[q] = {job'[k].task : k \in ActiveJobs(q)'}
  BY <1>1, <1>2 DEF Balanced
<1>3. permits'[q] + Cardinality(ActiveJobs(q)')
        + (IF pump'[q] = NoAttempt THEN 0 ELSE 1) = MaxInflight
  <2>1. Cardinality(ActiveJobs(q)) \in Nat
    BY FS_CardinalityType DEF Balanced
  <2>2. permits[q] \in Nat /\ permits'[q] \in Nat
    BY DEF TypeOK
  <2> QED BY <1>1, <2>1, <2>2 DEF Balanced
<1> QED BY <1>2a, <1>2b, <1>3 DEF Balanced

\* process_task moves on: the claim stays active.
LEMMA EnterKeepsBalance ==
  ASSUME NEW k \in Tokens, NEW phase \in Active, TypeOK, TypeOK',
         \A q \in Procs : Balanced(q), enter(k, phase), job[k].phase \in Active,
         UNCHANGED <<pump, in_flight, permits, now>>
  PROVE  \A q \in Procs : Balanced(q)'
<1> TAKE q \in Procs
<1>1. \A j \in Tokens :
        /\ job'[j].proc = job[j].proc
        /\ job'[j].task = job[j].task
        /\ job'[j].phase = IF j = k THEN phase ELSE job[j].phase
  BY EnterEffect DEF Phases
<1>2. \A j \in Tokens : (j \in ActiveJobs(q)') <=> (j \in ActiveJobs(q))
  BY <1>1 DEF ActiveJobs
<1>3. pump'[q] # NoAttempt =>
        in_flight[q] \subseteq pump'[q].excluded /\ pump'[q].at <= now'
  BY DEF Balanced
<1> QED BY <1>1, <1>2, <1>3, BalancedFrame DEF ActiveJobs

\* process_task returns: one process_task less, one permit more, and the id
\* leaves the registry.
LEMMA LeaveKeepsBalance ==
  ASSUME NEW k \in Tokens, NEW phase \in Phases \ Active, TypeOK, TypeOK',
         \A q \in Procs : Balanced(q), leave(k, phase), job[k].phase \in Active,
         job[k].proc \in Procs,
         UNCHANGED <<pump, now>>
  PROVE  \A q \in Procs : Balanced(q)'
<1> TAKE q \in Procs
<1> DEFINE p == job[k].proc
<1>1. \A j \in Tokens :
        /\ job'[j].proc = job[j].proc
        /\ job'[j].task = job[j].task
        /\ job'[j].phase = IF j = k THEN phase ELSE job[j].phase
  BY EnterEffect DEF leave
<1>2. /\ in_flight' = [in_flight EXCEPT ![p] = in_flight[p] \ {job[k].task}]
      /\ permits' = [permits EXCEPT ![p] = permits[p] + 1]
      /\ in_flight \in [Procs -> SUBSET Tasks]
      /\ permits \in [Procs -> Nat]
  BY DEF leave, TypeOK
<1>3. CASE q # p
  <2>1. \A j \in Tokens : (j \in ActiveJobs(q)') <=> (j \in ActiveJobs(q))
    BY <1>1, <1>3 DEF ActiveJobs
  <2>2. in_flight'[q] = in_flight[q] /\ permits'[q] = permits[q]
    BY <1>2, <1>3
  <2>3. pump'[q] # NoAttempt =>
          in_flight[q] \subseteq pump'[q].excluded /\ pump'[q].at <= now'
    BY DEF Balanced
  <2> QED BY <1>1, <2>1, <2>2, <2>3, BalancedFrame DEF ActiveJobs
<1>4. CASE q = p
  <2>1. k \in ActiveJobs(q) /\ ActiveJobs(q)' = ActiveJobs(q) \ {k}
    BY <1>1, <1>4 DEF ActiveJobs
  <2>2. /\ IsFiniteSet(ActiveJobs(q)')
        /\ Cardinality(ActiveJobs(q)') = Cardinality(ActiveJobs(q)) - 1
        /\ Cardinality(ActiveJobs(q)) \in Nat
    BY <2>1, FS_RemoveElement, FS_CardinalityType DEF Balanced
  <2>3. in_flight'[q] = in_flight[q] \ {job[k].task} /\ permits'[q] = permits[q] + 1
    BY <1>2, <1>4
  <2>4. in_flight'[q] = {job'[j].task : j \in ActiveJobs(q)'}
    <3>1. {job'[j].task : j \in ActiveJobs(q)'} = {job[j].task : j \in ActiveJobs(q) \ {k}}
      BY <1>1, <2>1 DEF ActiveJobs
    <3>2. {job[j].task : j \in ActiveJobs(q) \ {k}}
            = {job[j].task : j \in ActiveJobs(q)} \ {job[k].task}
      BY <2>1 DEF Balanced
    <3> QED BY <2>3, <3>1, <3>2 DEF Balanced
  <2>5. \A i, j \in ActiveJobs(q)' : job'[i].task = job'[j].task => i = j
    <3>1. \A i \in ActiveJobs(q)' : i \in ActiveJobs(q) /\ job'[i].task = job[i].task
      BY <1>1, <2>1 DEF ActiveJobs
    <3>2. \A i, j \in ActiveJobs(q) : job[i].task = job[j].task => i = j
      BY DEF Balanced
    <3> QED BY <3>1, <3>2
  <2>6. permits'[q] + Cardinality(ActiveJobs(q)')
          + (IF pump'[q] = NoAttempt THEN 0 ELSE 1) = MaxInflight
    <3>1. permits[q] \in Nat
      BY <1>2
    <3> QED BY <2>2, <2>3, <3>1 DEF Balanced
  <2>7. pump'[q] # NoAttempt =>
          in_flight'[q] \subseteq pump'[q].excluded /\ pump'[q].at <= now'
    BY <2>3 DEF Balanced
  <2> QED BY <2>2, <2>4, <2>5, <2>6, <2>7 DEF Balanced
<1> QED BY <1>3, <1>4

\* A pump sends a claim: the permit moves to the attempt.
LEMMA AttemptKeepsBalance ==
  ASSUME NEW p \in Procs, NEW arm \in Arms, NEW targets \in SUBSET Tasks,
         TypeOK, TypeOK', \A q \in Procs : Balanced(q), attempt(p, arm, targets)
  PROVE  \A q \in Procs : Balanced(q)'
<1> TAKE q \in Procs
<1>1. UNCHANGED <<in_flight, job, now>>
  BY DEF attempt, environment
<1>2. \A k \in Tokens : (k \in ActiveJobs(q)') <=> (k \in ActiveJobs(q))
  BY <1>1 DEF ActiveJobs
<1>3. CASE q # p
  <2>1. pump'[q] = pump[q] /\ permits'[q] = permits[q]
    BY <1>3 DEF attempt, TypeOK
  <2>2. pump'[q] # NoAttempt =>
          in_flight[q] \subseteq pump'[q].excluded /\ pump'[q].at <= now'
    BY <1>1, <2>1 DEF Balanced
  <2> QED BY <1>1, <1>2, <2>1, <2>2, BalancedFrame
<1>4. CASE q = p
  <2>1. /\ pump[q] = NoAttempt
        /\ pump'[q] = [arm |-> arm, targets |-> targets,
                       excluded |-> in_flight[q], at |-> now]
        /\ permits'[q] = permits[q] - 1
        /\ permits[q] \in Nat /\ now \in Nat
    BY <1>4 DEF attempt, TypeOK
  <2>2. pump'[q].arm # NoAttempt.arm
    BY <2>1 DEF NoAttempt, Arms
  <2>3. /\ pump'[q] # NoAttempt
        /\ in_flight[q] \subseteq pump'[q].excluded /\ pump'[q].at <= now'
    BY <1>1, <2>1, <2>2
  <2>4. permits'[q] + (IF pump'[q] = NoAttempt THEN 0 ELSE 1)
          = permits[q] + (IF pump[q] = NoAttempt THEN 0 ELSE 1)
    BY <2>1, <2>3
  <2> QED BY <1>1, <1>2, <2>3, <2>4, BalancedFrame
<1> QED BY <1>3, <1>4

\* The attempt ends without a process_task: the permit is free again.
LEMMA ReleaseKeepsBalance ==
  ASSUME NEW p \in Procs, TypeOK, TypeOK', \A q \in Procs : Balanced(q),
         pump[p] # NoAttempt, release_attempt(p), UNCHANGED <<in_flight, now>>,
         \A q \in Procs, k \in Tokens :
           /\ (k \in ActiveJobs(q)') <=> (k \in ActiveJobs(q))
           /\ k \in ActiveJobs(q) => job'[k].task = job[k].task
  PROVE  \A q \in Procs : Balanced(q)'
<1> TAKE q \in Procs
<1>1. CASE q # p
  <2>1. pump'[q] = pump[q] /\ permits'[q] = permits[q]
    BY <1>1 DEF release_attempt, TypeOK
  <2>2. pump'[q] # NoAttempt =>
          in_flight[q] \subseteq pump'[q].excluded /\ pump'[q].at <= now'
    BY <2>1 DEF Balanced
  <2> QED BY <2>1, <2>2, BalancedFrame
<1>2. CASE q = p
  <2>1. pump'[q] = NoAttempt /\ permits'[q] = permits[q] + 1 /\ permits[q] \in Nat
    BY <1>2 DEF release_attempt, TypeOK
  <2>2. permits'[q] + (IF pump'[q] = NoAttempt THEN 0 ELSE 1)
          = permits[q] + (IF pump[q] = NoAttempt THEN 0 ELSE 1)
    BY <1>2, <2>1
  <2> QED BY <2>1, <2>2, BalancedFrame
<1> QED BY <1>1, <1>2

\* A claim is never refused by spawn_claimed_task: what is in flight is still
\* excluded.
LEMMA ClaimedNotInFlight ==
  ASSUME NEW p \in Procs, NEW t \in Tasks, Balanced(p), pump[p] # NoAttempt,
         claim_filter(p, t)
  PROVE  t \notin in_flight[p]
BY DEF Balanced, claim_filter

\* A claim starts a process_task, which takes over the permit of the attempt.
LEMMA ClaimKeepsBalance ==
  ASSUME NEW p \in Procs, NEW t \in Tasks, NEW k \in Tokens,
         TypeOK, TypeOK', \A q \in Procs : Balanced(q), claim_won(p, t, k)
  PROVE  /\ \A q \in Procs : Balanced(q)'
         /\ job' = [job EXCEPT ![k] = claimed_job(p, t, "setup")]
<1>1. t \notin in_flight[p] /\ pump[p] # NoAttempt /\ job[k].phase = "unused"
  BY ClaimedNotInFlight DEF claim_won, claim_update
<1>2. /\ job' = [job EXCEPT ![k] = claimed_job(p, t, "setup")]
      /\ in_flight' = [in_flight EXCEPT ![p] = in_flight[p] \cup {t}]
      /\ pump' = [pump EXCEPT ![p] = NoAttempt]
      /\ UNCHANGED <<permits, now>>
  BY <1>1 DEF claim_won, environment
<1>3. /\ job'[k] = claimed_job(p, t, "setup")
      /\ \A j \in Tokens \ {k} : job'[j] = job[j]
  BY <1>2 DEF TypeOK
<1>4. ASSUME NEW q \in Procs, q # p PROVE Balanced(q)'
  <2>1. \A j \in Tokens : /\ (j \in ActiveJobs(q)') <=> (j \in ActiveJobs(q))
                          /\ j \in ActiveJobs(q) => job'[j].task = job[j].task
    BY <1>1, <1>3, <1>4 DEF ActiveJobs, claimed_job, Active
  <2>2. pump'[q] = pump[q] /\ permits'[q] = permits[q] /\ in_flight'[q] = in_flight[q]
    BY <1>2, <1>4 DEF TypeOK
  <2>3. pump'[q] # NoAttempt =>
          in_flight[q] \subseteq pump'[q].excluded /\ pump'[q].at <= now'
    BY <1>2, <2>2, <1>4 DEF Balanced
  <2> QED BY <2>1, <2>2, <2>3, <1>4, BalancedFrame
<1>5. Balanced(p)'
  <2>1. ActiveJobs(p)' = ActiveJobs(p) \cup {k} /\ k \notin ActiveJobs(p)
    BY <1>1, <1>3 DEF ActiveJobs, claimed_job, Active
  <2>2. Balanced(p)
    OBVIOUS
  <2>3. /\ IsFiniteSet(ActiveJobs(p)')
        /\ Cardinality(ActiveJobs(p)') = Cardinality(ActiveJobs(p)) + 1
        /\ Cardinality(ActiveJobs(p)) \in Nat
    BY <2>1, <2>2, FS_AddElement, FS_CardinalityType DEF Balanced
  <2>4. /\ in_flight'[p] = in_flight[p] \cup {t}
        /\ pump'[p] = NoAttempt
        /\ permits'[p] = permits[p]
        /\ permits[p] \in Nat
    BY <1>2 DEF TypeOK
  <2>5. /\ job'[k].task = t
        /\ \A j \in ActiveJobs(p) : job'[j].task = job[j].task
    BY <1>3, <2>1 DEF claimed_job, ActiveJobs
  <2>6. in_flight'[p] = {job'[j].task : j \in ActiveJobs(p)'}
    <3>1. {job'[j].task : j \in ActiveJobs(p)'} = {job[j].task : j \in ActiveJobs(p)} \cup {t}
      BY <2>1, <2>5
    <3> QED BY <2>2, <2>4, <3>1 DEF Balanced
  <2>7. \A i, j \in ActiveJobs(p)' : job'[i].task = job'[j].task => i = j
    <3>1. \A j \in ActiveJobs(p) : job[j].task # t
      BY <1>1, <2>2 DEF Balanced
    <3>2. \A i, j \in ActiveJobs(p) : job[i].task = job[j].task => i = j
      BY <2>2 DEF Balanced
    <3> QED BY <2>1, <2>5, <3>1, <3>2
  <2>8. permits'[p] + Cardinality(ActiveJobs(p)')
          + (IF pump'[p] = NoAttempt THEN 0 ELSE 1) = MaxInflight
    BY <1>1, <2>2, <2>3, <2>4 DEF Balanced
  <2> QED BY <2>3, <2>4, <2>6, <2>7, <2>8 DEF Balanced
<1> QED BY <1>2, <1>4, <1>5

\* The loop is gone: no process_task, no attempt, all permits free.
LEMMA AbortKeepsBalance ==
  ASSUME NEW p \in Procs, TypeOK, TypeOK', \A q \in Procs : Balanced(q), abort(p)
  PROVE  \A q \in Procs : Balanced(q)'
<1>1. \A k \in Tokens :
        /\ job'[k].proc = job[k].proc
        /\ job'[k].task = job[k].task
        /\ job'[k].phase = IF job[k].proc = p /\ job[k].phase \in Active
                           THEN "ended" ELSE job[k].phase
  BY DEF abort, TypeOK
<1> TAKE q \in Procs
<1>2. CASE q # p
  <2>1. \A j \in Tokens : (j \in ActiveJobs(q)') <=> (j \in ActiveJobs(q))
    BY <1>1, <1>2 DEF ActiveJobs, Active
  <2>2. /\ pump'[q] = pump[q] /\ permits'[q] = permits[q]
        /\ in_flight'[q] = in_flight[q] /\ now' = now
    BY <1>2 DEF abort, TypeOK, environment
  <2>3. pump'[q] # NoAttempt =>
          in_flight[q] \subseteq pump'[q].excluded /\ pump'[q].at <= now'
    BY <2>2 DEF Balanced
  <2> QED BY <1>1, <2>1, <2>2, <2>3, BalancedFrame
<1>3. CASE q = p
  <2>1. ActiveJobs(q)' = {}
    BY <1>1, <1>3 DEF ActiveJobs, Active
  <2>2. IsFiniteSet(ActiveJobs(q)') /\ Cardinality(ActiveJobs(q)') = 0
    BY <2>1, FS_EmptySet
  <2>3. pump'[q] = NoAttempt /\ in_flight'[q] = {} /\ permits'[q] = MaxInflight
    BY <1>3 DEF abort, TypeOK
  <2> QED BY <2>1, <2>2, <2>3, ConstantsAssumption DEF Balanced
<1> QED BY <1>2, <1>3

LEMMA CapacityNext ==
  TypeOK /\ TypeOK' /\ ClaimInvariant /\ CapacityInvariant /\ [Next]_vars
    => CapacityInvariant'
<1> SUFFICES ASSUME TypeOK, TypeOK', ClaimInvariant, CapacityInvariant, [Next]_vars
             PROVE  (\A q \in Procs : Balanced(q)') /\ ClaimedTaskIsStarted'
  BY DEF CapacityInvariant, Balanced, OneHandlerPerTask, PermitsConserved
<1> DEFINE AllBalanced == \A q \in Procs : Balanced(q)'
<1>0. (\A q \in Procs : Balanced(q)) /\ ClaimedTaskIsStarted
  BY CapacityByProcess
<1> USE DEF collection, loops, capacity, environment
<1>1. CASE /\ UNCHANGED <<pump, in_flight, permits, job>>
           /\ now <= now'
  <2>1. ASSUME NEW q \in Procs PROVE Balanced(q)'
    <3>1. pump'[q] # NoAttempt =>
            in_flight[q] \subseteq pump'[q].excluded /\ pump'[q].at <= now'
      BY <1>0, <1>1, <2>1 DEF Balanced, TypeOK
    <3> QED BY <1>0, <1>1, <2>1, <3>1, BalancedFrame DEF ActiveJobs
  <2> QED BY <1>0, <1>1, <2>1 DEF ClaimedTaskIsStarted
<1>2. ASSUME NEW p \in Procs, LoopStep(p)
      PROVE  AllBalanced /\ ClaimedTaskIsStarted'
  <2>1. CASE run(p) \/ stop_received(p) \/ drained(p)
    <3>1. UNCHANGED <<pump, in_flight, permits, job, now>>
      BY <2>1 DEF run, stop_received, drained
    <3>2. now <= now'
      BY <3>1 DEF TypeOK
    <3> QED BY <1>1, <3>1, <3>2
  <2>2. CASE abort(p)
    <3>1. ClaimedTaskIsStarted'
      BY <1>0, <2>2 DEF abort, ClaimedTaskIsStarted, TypeOK
    <3> QED BY <1>0, <2>2, <3>1, AbortKeepsBalance
  <2>3. ASSUME NEW arm \in Arms, NEW targets \in SUBSET Tasks, attempt(p, arm, targets)
        PROVE  AllBalanced /\ ClaimedTaskIsStarted'
    <3>1. ClaimedTaskIsStarted'
      BY <1>0, <2>3 DEF attempt, ClaimedTaskIsStarted
    <3> QED BY <1>0, <2>3, <3>1, AttemptKeepsBalance
  <2>4. ASSUME NEW t \in Tasks, NEW k \in Tokens, claim_won(p, t, k)
        PROVE  AllBalanced /\ ClaimedTaskIsStarted'
    <3>1. AllBalanced /\ job' = [job EXCEPT ![k] = claimed_job(p, t, "setup")]
      BY <1>0, <2>4, ClaimKeepsBalance
    <3>2. ClaimedTaskIsStarted'
      BY <1>0, <3>1 DEF ClaimedTaskIsStarted, claimed_job, TypeOK
    <3> QED BY <3>1, <3>2
  <2>5. ASSUME NEW t \in Tasks, NEW k \in Tokens, claim_unanswered(p, t, k)
        PROVE  AllBalanced /\ ClaimedTaskIsStarted'
    <3>1. /\ job[k].phase = "unused"
          /\ job'[k] = claimed_job(p, t, "unanswered")
          /\ \A j \in Tokens \ {k} : job'[j] = job[j]
      BY <2>5 DEF claim_unanswered, claim_update, TypeOK
    <3>2. ASSUME NEW q \in Procs, NEW j \in Tokens
          PROVE  /\ (j \in ActiveJobs(q)') <=> (j \in ActiveJobs(q))
                 /\ j \in ActiveJobs(q) => job'[j].task = job[j].task
      BY <3>1 DEF ActiveJobs, claimed_job, Active
    <3>3. ClaimedTaskIsStarted'
      BY <1>0, <3>1 DEF ClaimedTaskIsStarted, claimed_job
    <3>4. pump[p] # NoAttempt /\ release_attempt(p) /\ UNCHANGED <<in_flight, now>>
      BY <2>5 DEF claim_unanswered
    <3> QED BY <1>0, <3>2, <3>3, <3>4, ReleaseKeepsBalance
  <2>6. CASE claim_missed(p) \/ claim_failed(p)
    <3>1. UNCHANGED <<in_flight, job, now>> /\ pump[p] # NoAttempt
      BY <2>6 DEF claim_missed, claim_failed
    <3>2. ClaimedTaskIsStarted'
      BY <1>0, <3>1 DEF ClaimedTaskIsStarted
    <3>3. \A q \in Procs, k \in Tokens :
            /\ (k \in ActiveJobs(q)') <=> (k \in ActiveJobs(q))
            /\ k \in ActiveJobs(q) => job'[k].task = job[k].task
      BY <3>1 DEF ActiveJobs
    <3>4. CASE release_attempt(p)
      BY <1>0, <3>1, <3>2, <3>3, <3>4, ReleaseKeepsBalance
    <3>5. CASE pump' = [pump EXCEPT ![p].arm = "own"] /\ UNCHANGED permits
      <4>1. ASSUME NEW q \in Procs
            PROVE  /\ (pump'[q] = NoAttempt) <=> (pump[q] = NoAttempt)
                   /\ pump'[q].excluded = pump[q].excluded
                   /\ pump'[q].at = pump[q].at
        <5>0. pump \in [Procs -> Attempts]
          BY DEF TypeOK, Attempts
        <5>1. CASE q = p
          <6>1. pump'[q] = [pump[q] EXCEPT !.arm = "own"]
            BY <3>5, <5>0, <5>1
          <6>2. pump'[q].arm = "own"
            BY <5>0, <6>1 DEF Attempts
          <6>3. pump'[q] # NoAttempt
            BY <6>2 DEF NoAttempt
          <6> QED BY <3>1, <5>0, <5>1, <6>1, <6>3 DEF Attempts
        <5>2. CASE q # p
          BY <3>5, <5>0, <5>2
        <5> QED BY <5>1, <5>2
      <4>2. ASSUME NEW q \in Procs PROVE Balanced(q)'
        <5>1. pump'[q] # NoAttempt =>
                in_flight[q] \subseteq pump'[q].excluded /\ pump'[q].at <= now'
          BY <1>0, <3>1, <4>1, <4>2 DEF Balanced
        <5>2. permits'[q] + (IF pump'[q] = NoAttempt THEN 0 ELSE 1)
                = permits[q] + (IF pump[q] = NoAttempt THEN 0 ELSE 1)
          <6>1. permits'[q] = permits[q] /\ permits[q] \in Nat
            BY <3>5, <4>2 DEF TypeOK
          <6>2. CASE pump[q] = NoAttempt
            BY <4>1, <4>2, <6>1, <6>2
          <6>3. CASE pump[q] # NoAttempt
            BY <4>1, <4>2, <6>1, <6>3
          <6> QED BY <6>2, <6>3
        <5> QED BY <1>0, <3>1, <3>3, <4>2, <5>1, <5>2, BalancedFrame
      <4> QED BY <3>2, <4>2
    <3> QED BY <2>6, <3>4, <3>5 DEF claim_missed, claim_failed
  <2>7. CASE pump_ready(p) \/ pump_stale(p)
    BY <2>3, <2>7 DEF pump_ready, pump_stale, Arms
  <2>8. ASSUME NEW t \in Tasks, NEW known \in BOOLEAN, pump_expired(p, t, known)
        PROVE  AllBalanced /\ ClaimedTaskIsStarted'
    <3>1. attempt(p, "stale", {t}) /\ "stale" \in Arms /\ {t} \in SUBSET Tasks
      BY <2>8 DEF pump_expired, Arms
    <3> QED BY <2>3, <3>1
  <2> HIDE DEF AllBalanced
  <2> QED BY <1>2, <2>1, <2>2, <2>4, <2>5, <2>6, <2>7, <2>8 DEF LoopStep
<1>3. ASSUME NEW k \in Tokens, JobStep(k)
      PROVE  AllBalanced /\ ClaimedTaskIsStarted'
  <2>1. job[k].phase \in Active
    BY <1>3 DEF JobStep, setup_bad_payload, setup_confirmed, setup_worker_gone,
       setup_error, handler_returns, handler_lost, handler_aborted, finish_error,
       complete, mark_task_failed, finish, Active
  <2>2. job[k].proc \in Procs /\ UNCHANGED <<pump, now>>
    BY <1>3, <2>1 DEF ClaimInvariant, JobStep, setup_bad_payload, setup_confirmed,
       setup_worker_gone, setup_error, handler_returns, handler_lost, handler_aborted,
       finish_error, complete, mark_task_failed, finish, Active
  <2>3. \/ \E phase \in Active : enter(k, phase) /\ UNCHANGED <<in_flight, permits>>
        \/ \E phase \in {"ended", "aborted"} : leave(k, phase)
    BY <1>3 DEF JobStep, setup_bad_payload, setup_confirmed, setup_worker_gone,
       setup_error, handler_returns, handler_lost, handler_aborted, finish_error,
       complete, mark_task_failed, finish, Active
  <2>4. AllBalanced
    <3>1. {"ended", "aborted"} \subseteq Phases \ Active
      BY DEF Phases, Active
    <3> QED BY <1>0, <2>1, <2>2, <2>3, <3>1, EnterKeepsBalance, LeaveKeepsBalance
  <2>5. \E phase \in Phases \ {"skipped"} : enter(k, phase)
    BY <2>3 DEF leave, Phases, Active
  <2>6. ClaimedTaskIsStarted'
    BY <1>0, <2>5, EnterEffect DEF ClaimedTaskIsStarted
  <2> QED BY <2>4, <2>6
<1>4. ASSUME NEW k \in Tokens, BeatStep(k)
      PROVE  AllBalanced /\ ClaimedTaskIsStarted'
  <2>1. UNCHANGED <<pump, in_flight, permits, job, now>>
    BY <1>4 DEF BeatStep, beat, beat_superseded, beat_error, beat_stopped
  <2>2. now <= now'
    BY <2>1 DEF TypeOK
  <2> QED BY <1>1, <2>1, <2>2
<1>5. CASE \/ \E r \in Requests, t \in Tasks : upsert_task(r, t)
           \/ UNCHANGED vars
  <2>1. UNCHANGED <<pump, in_flight, permits, job, now>>
    BY <1>5 DEF upsert_task, vars
  <2>2. now <= now'
    BY <2>1 DEF TypeOK
  <2> QED BY <1>1, <2>1, <2>2
<1>6. CASE Tick
  <2>1. UNCHANGED <<pump, in_flight, permits, job>> /\ now <= now'
    BY <1>6 DEF Tick, TypeOK
  <2> QED BY <1>1, <2>1
<1> QED BY <1>2, <1>3, <1>4, <1>5, <1>6 DEF Next

\* The registry and the permits of every process match its running
\* process_tasks in every reachable state.
THEOREM CapacityCorrect == Spec => []CapacityInvariant
<1>1. Spec => []TypeOK /\ []ClaimInvariant
  BY TypeCorrect, ClaimsCorrect, PTL
<1> QED BY <1>1, CapacityInit, CapacityNext, PTL DEF Spec

\* A process never runs two handlers for one task, and its registry names
\* exactly the tasks it runs.
THEOREM OneHandler == Spec => []OneHandlerPerTask
<1>1. CapacityInvariant => OneHandlerPerTask
  BY DEF CapacityInvariant
<1> QED BY <1>1, CapacityCorrect, PTL

\* spawn_claimed_task never drops a claim it has just written.
THEOREM ClaimsStart == Spec => []ClaimedTaskIsStarted
<1>1. CapacityInvariant => ClaimedTaskIsStarted
  BY DEF CapacityInvariant
<1> QED BY <1>1, CapacityCorrect, PTL

\* No permit of the semaphore is lost or returned twice, so that at most
\* max_inflight process_tasks run at any time.
THEOREM PermitsBalance == Spec => []PermitsConserved
<1>1. CapacityInvariant => PermitsConserved
  BY DEF CapacityInvariant
<1> QED BY <1>1, CapacityCorrect, PTL

-----------------------------------------------------------------------------
(* When a running task changes hands                                       *)

LEMMA StealNext ==
  ASSUME TypeOK, ClaimInvariant, CapacityInvariant, [Next]_vars
  PROVE  \A t \in Tasks :
           /\ status[t] = "running"
           /\ status'[t] = "running"
           /\ worker_state'[t].worker_id # worker_state[t].worker_id
           => worker_state[t].heartbeat_at + task_switch_timeout(t) <= now
<1> USE DEF collection, loops, capacity, environment
<1> SUFFICES ASSUME NEW t \in Tasks, status[t] = "running", status'[t] = "running",
                    worker_state'[t].worker_id # worker_state[t].worker_id
             PROVE  worker_state[t].heartbeat_at + task_switch_timeout(t) <= now
  OBVIOUS
<1>1. ASSUME NEW r \in Requests, NEW u \in Tasks, upsert_task(r, u)
      PROVE  FALSE
  BY <1>1 DEF upsert_task, TypeOK, Finished
<1>2. ASSUME NEW p \in Procs, NEW u \in Tasks, NEW k \in Tokens,
             claim_won(p, u, k) \/ claim_unanswered(p, u, k)
      PROVE  worker_state[t].heartbeat_at + task_switch_timeout(t) <= now
  <2>1. claim_filter(p, u) /\ claim_update(p, u, k) /\ pump[p] # NoAttempt
    BY <1>2 DEF claim_won, claim_unanswered
  <2>2. u = t /\ worker_state'[t].worker_id = WorkerId[p]
    BY <2>1 DEF claim_update, TypeOK
  <2>3. worker_state[t].heartbeat_at + task_switch_timeout(t) <= pump[p].at
    BY <2>1, <2>2 DEF claim_filter
  <2>4. pump[p].at <= now /\ pump[p].at \in Nat /\ now \in Nat
    BY <2>1 DEF CapacityInvariant, TypeOK
  <2>5. worker_state[t].heartbeat_at \in Nat /\ task_switch_timeout(t) \in Nat
    <3>1. task_input[t] \in Requests
      BY ConstantsAssumption DEF ClaimInvariant, TypeOK
    <3> QED BY <3>1, ConstantsAssumption DEF TypeOK, task_switch_timeout
  <2> QED BY <2>3, <2>4, <2>5
<1>3. ASSUME NEW k \in Tokens, heartbeat(k)
      PROVE  FALSE
  BY <1>3, HeartbeatEffect
<1>4. CASE UNCHANGED worker_state
  BY <1>4
<1>5. ASSUME NEW p \in Procs, LoopStep(p)
      PROVE  worker_state[t].heartbeat_at + task_switch_timeout(t) <= now
  BY <1>2, <1>4, <1>5 DEF LoopStep, run, stop_received, drained, abort, pump_ready,
     pump_stale, pump_expired, attempt, claim_missed, claim_failed
<1>6. ASSUME NEW k \in Tokens, JobStep(k) \/ BeatStep(k)
      PROVE  FALSE
  <2>1. heartbeat(k) \/ UNCHANGED worker_state
    BY <1>6 DEF JobStep, BeatStep, setup_bad_payload, setup_confirmed, setup_worker_gone,
       setup_error, handler_returns, handler_lost, handler_aborted, finish_error,
       complete, mark_task_failed, finish, beat, beat_superseded, beat_error, beat_stopped
  <2> QED BY <1>3, <2>1
<1>7. CASE Tick \/ UNCHANGED vars
  BY <1>7 DEF Tick, vars
<1> QED BY <1>1, <1>5, <1>6, <1>7 DEF Next

\* A running task changes worker identity only after its heartbeat has been
\* silent for the switch timeout its submission asked for.
THEOREM NoEarlySteal == Spec => StolenOnlyAfterSilence
<1>1. Spec => []TypeOK /\ []ClaimInvariant /\ []CapacityInvariant
  BY TypeCorrect, ClaimsCorrect, CapacityCorrect, PTL
<1> QED BY <1>1, StealNext, PTL DEF Spec, StolenOnlyAfterSilence

=============================================================================
