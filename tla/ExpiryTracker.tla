--------------------------- MODULE ExpiryTracker ---------------------------
(***************************************************************************)
(* The in-memory expiry tracker of a worker (worker/expiry.rs), as         *)
(* operators on a tracker value: the running tasks by document id, an      *)
(* index of them by deadline, and the hint that pending work may exist.    *)
(*                                                                         *)
(* A HashMap or BTreeMap is a function whose domain is the set of keys.    *)
(* The time is an argument wherever the code reads the clock.              *)
(***************************************************************************)
EXTENDS Integers, Functions

CONSTANTS
  Ids,            \* document ids
  SwitchTimeout,  \* worker_switch_timeout stored in each document
  OwnTimeout      \* worker_switch_timeout of the worker that keeps the tracker

ASSUME TimeoutAssumption ==
  /\ SwitchTimeout \in [Ids -> Nat]
  /\ OwnTimeout \in Nat

\* An ExpiringTask.  named: its task_id is known.
Entry == [named : BOOLEAN, expires_at : Nat]

\* A change event as expiry_change_stream_pipeline lets it through.  An update
\* carries the fields that were written: a claim its status, heartbeat and
\* switch_timeout_ms, a heartbeat its time and nothing else.
NoTimeout == -1
ChangeEvent == [operation : {"insert", "update", "delete"},
                id : Ids,
                status : {"none", "pending", "running", "finished"},
                heartbeat_at : Nat,
                switch_timeout : Nat \cup {NoTimeout}]

put(map, key, value) ==
  [k \in DOMAIN map \cup {key} |-> IF k = key THEN value ELSE map[k]]
without(map, key) == Restrict(map, DOMAIN map \ {key})

-----------------------------------------------------------------------------
EmptyMap == [k \in {} |-> {}]
NewTracker ==
  [tasks |-> EmptyMap, deadlines |-> EmptyMap, pending_may_exist |-> FALSE]

clear_running(tracker) ==
  [tracker EXCEPT !.tasks = EmptyMap, !.deadlines = EmptyMap]

set_pending_may_exist(tracker, exists) ==
  [tracker EXCEPT !.pending_may_exist = exists]
mark_pending(tracker) == set_pending_may_exist(tracker, TRUE)

\* Mutant: the entry goes and its place in the deadline index stays.
remove_leaves_deadline(tracker, id) ==
  [tracker EXCEPT !.tasks = without(@, id)]

remove(tracker, id) ==
  IF id \notin DOMAIN tracker.tasks THEN tracker
  ELSE LET deadline == tracker.tasks[id].expires_at
           ids      == tracker.deadlines[deadline] \ {id}
       IN  [tracker EXCEPT
              !.tasks = without(@, id),
              !.deadlines = IF ids = {} THEN without(@, deadline)
                                        ELSE put(@, deadline, ids)]

\* The tail of upsert, and all of defer: an entry and its place in the index.
\* What the index holds of the id under another deadline is not looked for.
insert(tracker, id, named, expires_at) ==
  LET ids == IF expires_at \in DOMAIN tracker.deadlines
             THEN tracker.deadlines[expires_at] ELSE {}
  IN  [tracker EXCEPT
         !.tasks = put(@, id, [named |-> named, expires_at |-> expires_at]),
         !.deadlines = put(@, expires_at, ids \cup {id})]

upsert(tracker, id, named, heartbeat_at, timeout) ==
  LET known == id \in DOMAIN tracker.tasks /\ tracker.tasks[id].named
  IN  insert(remove(tracker, id), id, named \/ known, heartbeat_at + timeout)

\* pop_due, its result and what it leaves behind.
due_ids(tracker, now) ==
  UNION {tracker.deadlines[d] : d \in {x \in DOMAIN tracker.deadlines : x <= now}}
popped(tracker, now) ==
  Restrict(tracker.tasks, due_ids(tracker, now) \cap DOMAIN tracker.tasks)
pop_due(tracker, now) ==
  [tracker EXCEPT
     !.tasks = Restrict(@, DOMAIN @ \ due_ids(tracker, now)),
     !.deadlines = Restrict(@, {d \in DOMAIN @ : d > now})]

\* Mutant: a popped task for which there is no permit is let go.
defer_forgets(tracker, id, task, now) == tracker

\* Put a popped task back, a second (one tick) from now.
defer(tracker, id, task, now) == insert(tracker, id, task.named, now + 1)

\* next_delay is zero: the first deadline has come.
has_due(tracker, now) == \E d \in DOMAIN tracker.deadlines : d <= now

-----------------------------------------------------------------------------
\* The timeout is the one stored in the document.
schedule_expiration_from_task(tracker, id, status, heartbeat_at) ==
  CASE status = "running" ->
         upsert(tracker, id, TRUE, heartbeat_at, SwitchTimeout[id])
    [] status = "pending" -> mark_pending(tracker)
    [] OTHER -> remove(tracker, id)

\* refresh_running_expirations over the running documents it got to read.
refresh_running_expirations(tracker, ids, heartbeat_at) ==
  [clear_running(tracker) EXCEPT
     !.tasks = [t \in ids |-> [named |-> TRUE,
                               expires_at |-> heartbeat_at[t] + SwitchTimeout[t]]],
     !.deadlines = [d \in {heartbeat_at[t] + SwitchTimeout[t] : t \in ids} |->
                      {t \in ids : heartbeat_at[t] + SwitchTimeout[t] = d}]]

\* The timeout the update carries, or else that of the observing worker.
expiration_timeout(event) ==
  IF event.switch_timeout = NoTimeout THEN OwnTimeout ELSE event.switch_timeout

\* Mutants: an update without a status is not looked at; one that names the
\* running status is taken for the end of the task.
apply_change_event_no_beats(tracker, event) ==
  CASE event.operation = "insert" ->
         schedule_expiration_from_task(tracker, event.id, event.status,
                                       event.heartbeat_at)
    [] event.operation = "delete" -> remove(tracker, event.id)
    [] event.operation = "update" /\ event.status = "none" -> tracker
    [] event.operation = "update" /\ event.status = "pending" ->
         mark_pending(tracker)
    [] event.operation = "update" /\ event.status = "finished" ->
         remove(tracker, event.id)
    [] OTHER -> upsert(tracker, event.id, FALSE, event.heartbeat_at,
                       expiration_timeout(event))

apply_change_event_forgets_claims(tracker, event) ==
  CASE event.operation = "insert" ->
         schedule_expiration_from_task(tracker, event.id, event.status,
                                       event.heartbeat_at)
    [] event.operation = "delete" -> remove(tracker, event.id)
    [] event.operation = "update" /\ event.status = "pending" ->
         mark_pending(tracker)
    [] event.operation = "update" /\ event.status # "none" ->
         remove(tracker, event.id)
    [] OTHER -> upsert(tracker, event.id, FALSE, event.heartbeat_at,
                       expiration_timeout(event))

apply_change_event_to_expirations(tracker, event) ==
  CASE event.operation = "insert" ->
         schedule_expiration_from_task(tracker, event.id, event.status,
                                       event.heartbeat_at)
    [] event.operation = "delete" -> remove(tracker, event.id)
    [] event.operation = "update" /\ event.status = "pending" ->
         mark_pending(tracker)
    [] event.operation = "update" /\ event.status = "finished" ->
         remove(tracker, event.id)
    [] OTHER -> upsert(tracker, event.id, FALSE, event.heartbeat_at,
                       expiration_timeout(event))

\* Its result: the event makes a task ready to be claimed.
announces_ready(event) == event.status = "pending"

-----------------------------------------------------------------------------
\* The two maps of a tracker agree: every task stands in the bucket of its
\* deadline and in no other, and no bucket is empty.
IndexesAgree(tracker) ==
  /\ \A id \in DOMAIN tracker.tasks :
       /\ tracker.tasks[id].expires_at \in DOMAIN tracker.deadlines
       /\ id \in tracker.deadlines[tracker.tasks[id].expires_at]
  /\ \A d \in DOMAIN tracker.deadlines :
       /\ tracker.deadlines[d] # {}
       /\ \A id \in tracker.deadlines[d] :
            id \in DOMAIN tracker.tasks /\ tracker.tasks[id].expires_at = d
=============================================================================
