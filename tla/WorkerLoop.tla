----------------------------- MODULE WorkerLoop -----------------------------
(***************************************************************************)
(* The event loop of one worker (worker_loop in worker.rs): when it opens  *)
(* the change stream, scans, pumps and joins, how it keeps its expiry      *)
(* tracker in step with the collection, and how it stops.  WorkerClaims    *)
(* leaves open when a pump runs; this module is about exactly that.        *)
(*                                                                         *)
(* Around the loop stand its own handlers, a peer worker that may die, and *)
(* callers that submit, reset and delete tasks.  Every await of the loop   *)
(* is a point where they may act.                                          *)
(*                                                                         *)
(* Time passes for ever but the state stays finite: `Now' is the present,  *)
(* and Tick makes everything that is stored one tick older, down to 0.     *)
(* Timeouts are at most Now, so what is stored as 0 has surely expired.    *)
(***************************************************************************)
EXTENDS ExpiryTracker, Sequences, FiniteSets

CONSTANTS
  PeerTimeout,  \* worker_switch_timeout of the peer
  Now,          \* the present
  MaxInflight,  \* permits of the semaphore
  Peer,         \* the peer: "none", one that "claims" pending tasks, or one
                \* that also "steals" the expired leases of this worker
  Stops,        \* whether this worker may be asked to stop
  MaxResets,    \* bound on the resets of finished tasks
  MaxFaults,    \* bound on the database errors and lost handlers
  MaxEvents     \* bound on the events waiting in the change stream

ASSUME LoopAssumption ==
  /\ PeerTimeout \in Nat /\ Now \in Nat
  /\ \A t \in Ids : SwitchTimeout[t] <= Now
  /\ MaxInflight \in Nat /\ MaxResets \in Nat /\ MaxFaults \in Nat
  /\ MaxEvents \in Nat /\ Stops \in BOOLEAN
  /\ Peer \in {"none", "claims", "steals"}

VARIABLES
  doc,        \* the documents: status, and owner and heartbeat of a claim
  alive,      \* whether the peer is alive
  resets,     \* resets so far
  faults,     \* faults so far
  pc,         \* where the loop stands
  trigger,    \* why it refreshes: "reconnect" (or startup) or "periodic"
  claim,      \* the find_one_and_update it is awaiting, if any
  due,        \* the rest of what pop_due returned
  tracker,    \* its ExpiryTracker
  connected,  \* change_stream is Some
  stream,     \* the events it has not read yet
  in_flight,  \* InFlightRegistry
  unjoined,   \* finished process_tasks the loop has not joined
  stop        \* WorkerHandle::shutdown has sent the stop signal

collection == <<doc, alive, resets>>
tasks_run  == <<in_flight, unjoined>>
position   == <<pc, trigger, claim, due>>
events     == <<connected, stream>>
vars == <<doc, alive, resets, faults, pc, trigger, claim, due, tracker,
          connected, stream, in_flight, unjoined, stop>>

Phases == {"open", "scan", "probe", "pump", "expired", "select",
           "draining", "stopped", "failed"}
Gone   == {"stopped", "failed"}
Arms   == {"none", "pending", "own", "stale", "expired"}

NoDoc(status) == [status |-> status, owner |-> "none", heartbeat_at |-> 0]
Claimed(owner) == [status |-> "running", owner |-> owner, heartbeat_at |-> Now]

NoClaim == [arm |-> "none", targets |-> {}, excluded |-> {}]

TypeOK ==
  /\ doc \in [Ids -> [status : {"absent", "pending", "running", "finished",
                                "deleted"},
                      owner : {"none", "me", "peer"},
                      heartbeat_at : 0 .. Now]]
  /\ alive \in BOOLEAN
  /\ resets \in 0 .. MaxResets
  /\ faults \in 0 .. MaxFaults
  /\ pc \in Phases
  /\ trigger \in {"reconnect", "periodic"}
  /\ claim \in [arm : Arms, targets : SUBSET Ids, excluded : SUBSET Ids]
  /\ DOMAIN due \subseteq Ids
  /\ \A t \in DOMAIN due : due[t] \in Entry
  /\ DOMAIN tracker.tasks \subseteq Ids
  /\ \A t \in DOMAIN tracker.tasks : tracker.tasks[t] \in Entry
  /\ \A d \in DOMAIN tracker.deadlines :
       d \in Nat /\ tracker.deadlines[d] \subseteq Ids
  /\ tracker.pending_may_exist \in BOOLEAN
  /\ connected \in BOOLEAN
  /\ stream \in Seq(ChangeEvent)
  /\ in_flight \subseteq Ids
  /\ unjoined \in Nat
  /\ stop \in BOOLEAN

\* A running document may be left from an earlier run of this worker.
Init ==
  /\ doc \in [Ids -> {NoDoc("absent"),
                      [status |-> "running", owner |-> "me", heartbeat_at |-> 0]}]
  /\ alive = (Peer # "none")
  /\ resets = 0
  /\ faults = 0
  /\ pc = "open"
  /\ trigger = "reconnect"
  /\ claim = NoClaim
  /\ due = EmptyMap
  /\ tracker = NewTracker
  /\ connected = FALSE
  /\ stream = <<>>
  /\ in_flight = {}
  /\ unjoined = 0
  /\ stop = FALSE

-----------------------------------------------------------------------------
(* The collection and its change stream                                    *)

Event(operation, t, status, heartbeat_at, timeout) ==
  [operation |-> operation, id |-> t, status |-> status,
   heartbeat_at |-> heartbeat_at, switch_timeout |-> timeout]

\* Document t becomes d, and an open change stream gets the event.
write(t, d, event) ==
  /\ doc' = [doc EXCEPT ![t] = d]
  /\ stream' = IF connected THEN Append(stream, event) ELSE stream
  /\ UNCHANGED connected

claim_by(t, owner, timeout) ==
  write(t, Claimed(owner), Event("update", t, "running", Now, timeout))
beat_by(t) ==
  write(t, [doc[t] EXCEPT !.heartbeat_at = Now],
        Event("update", t, "none", Now, NoTimeout))
finish_of(t) ==
  write(t, NoDoc("finished"), Event("update", t, "finished", 0, NoTimeout))

running(t, owner) == doc[t].status = "running" /\ doc[t].owner = owner
lease_expired(t)  == doc[t].heartbeat_at + SwitchTimeout[t] <= Now

free == MaxInflight - Cardinality(in_flight)

\* Bound: the others leave room in the stream for the claims the loop can
\* still make with its free permits.  The loop and its handlers are not bound.
room == connected => Len(stream) + free < MaxEvents

fault == faults < MaxFaults /\ faults' = faults + 1

-----------------------------------------------------------------------------
(* Where the loop goes next                                                *)

\* The top of the loop: reconnect or select.
top == /\ pc' = IF connected' THEN "select" ELSE "open"
       /\ trigger' = "reconnect"
       /\ claim' = NoClaim
       /\ due' = EmptyMap

\* A turn of pump_available_tasks: take a permit, snapshot the in-flight ids
\* and send the claim; without a permit the pump is over.
pump(arm) ==
  IF Cardinality(in_flight') < MaxInflight
  THEN /\ pc' = "pump"
       /\ claim' = [arm |-> arm, targets |-> Ids, excluded |-> in_flight']
       /\ trigger' = "reconnect"
       /\ due' = EmptyMap
  ELSE top

-----------------------------------------------------------------------------
(* Startup, reconnect and the periodic refresh                             *)

open_change_stream ==
  /\ pc = "open"
  /\ connected' = TRUE
  /\ stream' = <<>>
  /\ pc' = "scan"
  /\ UNCHANGED <<collection, faults, trigger, claim, due, tracker, tasks_run, stop>>

\* An error other than "unsupported" leaves None, and the loop goes on.
open_fails ==
  /\ pc = "open"
  /\ pc' = "scan"
  /\ UNCHANGED <<collection, faults, trigger, claim, due, tracker, events,
                 tasks_run, stop>>

\* is_change_stream_unsupported: worker_loop returns the error, and with its
\* JoinSet drops the process_tasks.
open_unsupported ==
  /\ pc = "open"
  /\ fault
  /\ pc' = "failed"
  /\ in_flight' = {}
  /\ unjoined' = 0
  /\ UNCHANGED <<collection, trigger, claim, due, tracker, events, stop>>

\* refresh_running_expirations: one find over the running documents.
scan ==
  /\ pc = "scan"
  /\ tracker' = refresh_running_expirations(
                  tracker, {t \in Ids : doc[t].status = "running"},
                  [t \in Ids |-> doc[t].heartbeat_at])
  /\ pc' = "probe"
  /\ UNCHANGED <<collection, faults, trigger, claim, due, events, tasks_run, stop>>

\* The find fails and the tracker stays, or the cursor fails half way and the
\* tracker, already cleared, holds what had been read.
scan_fails ==
  /\ pc = "scan"
  /\ fault
  /\ \/ UNCHANGED tracker
     \/ \E some \in SUBSET {t \in Ids : doc[t].status = "running"} :
          tracker' = refresh_running_expirations(
                       tracker, some, [t \in Ids |-> doc[t].heartbeat_at])
  /\ pc' = "probe"
  /\ UNCHANGED <<collection, trigger, claim, due, events, tasks_run, stop>>

\* Mutant: the periodic refresh too is followed by a ready pump.
probe_always_ready ==
  /\ pc = "probe"
  /\ tracker' = set_pending_may_exist(tracker,
                  \E t \in Ids : doc[t].status = "pending")
  /\ UNCHANGED <<collection, faults, events, tasks_run, stop>>
  /\ pump("pending")

pump_of_trigger ==
  pump(IF trigger = "periodic" THEN "stale" ELSE "pending")

\* refresh_pending_tasks, then the pump that the trigger asks for.
probe ==
  /\ pc = "probe"
  /\ tracker' = set_pending_may_exist(tracker,
                  \E t \in Ids : doc[t].status = "pending")
  /\ UNCHANGED <<collection, faults, events, tasks_run, stop>>
  /\ pump_of_trigger

probe_fails ==
  /\ pc = "probe"
  /\ fault
  /\ UNCHANGED <<collection, tracker, events, tasks_run, stop>>
  /\ pump_of_trigger

-----------------------------------------------------------------------------
(* Claiming                                                                *)

claim_filter(t) ==
  /\ t \in claim.targets \ claim.excluded
  /\ CASE claim.arm = "pending" -> doc[t].status = "pending"
       [] claim.arm = "own"     -> running(t, "me")
       [] claim.arm \in {"stale", "expired"} ->
            doc[t].status = "running" /\ lease_expired(t)
       [] OTHER -> FALSE

\* What a won claim does to document, tracker and registry.
won(t) ==
  /\ claim_filter(t)
  /\ claim_by(t, "me", OwnTimeout)
  /\ tracker' = schedule_expiration_from_task(tracker, t, "running", Now)
  /\ in_flight' = in_flight \cup {t}

nothing_to_claim == \A t \in Ids : ~claim_filter(t)

\* pump_available_tasks: a task was claimed, on to the next permit.
pump_claims(t) ==
  /\ pc = "pump"
  /\ won(t)
  /\ UNCHANGED <<alive, resets, faults, unjoined, stop>>
  /\ pump(IF claim.arm = "stale" THEN "stale" ELSE "pending")

\* No ready task, on to the worker's own abandoned ones.
pump_tries_own ==
  /\ pc = "pump"
  /\ claim.arm = "pending"
  /\ nothing_to_claim
  /\ claim' = [claim EXCEPT !.arm = "own"]
  /\ UNCHANGED <<collection, faults, pc, trigger, due, tracker, events,
                 tasks_run, stop>>

pump_misses ==
  /\ pc = "pump"
  /\ claim.arm \in {"own", "stale"}
  /\ nothing_to_claim
  /\ tracker' = IF claim.arm = "own" THEN set_pending_may_exist(tracker, FALSE)
                                     ELSE tracker
  /\ UNCHANGED <<collection, faults, events, tasks_run, stop>>
  /\ top

\* A claim fails, applied or not, and the pump is over.
pump_fails ==
  /\ pc = "pump"
  /\ fault
  /\ \/ UNCHANGED <<doc, events>>
     \/ \E t \in Ids : claim_filter(t) /\ claim_by(t, "me", OwnTimeout)
  /\ UNCHANGED <<alive, resets, tracker, tasks_run, stop>>
  /\ top

-----------------------------------------------------------------------------
(* pump_expired_tasks, over what pop_due returned, earliest deadline first *)

next_due(t) ==
  /\ pc = "expired"
  /\ claim = NoClaim
  /\ t \in DOMAIN due
  /\ \A u \in DOMAIN due : due[t].expires_at <= due[u].expires_at

expired_skips(t) ==
  /\ next_due(t)
  /\ due[t].named /\ t \in in_flight
  /\ due' = without(due, t)
  /\ UNCHANGED <<collection, faults, pc, trigger, claim, tracker, events,
                 tasks_run, stop>>

\* No permit: this entry is deferred, and the loop over the others left.
expired_defers(t) ==
  /\ next_due(t)
  /\ ~(due[t].named /\ t \in in_flight)
  /\ free = 0
  /\ tracker' = defer(tracker, t, due[t], Now)
  /\ UNCHANGED <<collection, faults, events, tasks_run, stop>>
  /\ top

\* The stale filter on one document, without the ids in flight.
claim_expired_task_by_id(t) ==
  [arm |-> "expired", targets |-> {t}, excluded |-> in_flight]

expired_attempts(t) ==
  /\ next_due(t)
  /\ ~(due[t].named /\ t \in in_flight)
  /\ free > 0
  /\ claim' = claim_expired_task_by_id(t)
  /\ due' = without(due, t)
  /\ UNCHANGED <<collection, faults, pc, trigger, tracker, events, tasks_run,
                 stop>>

expired_claims(t) ==
  /\ pc = "expired"
  /\ won(t)
  /\ claim' = NoClaim
  /\ UNCHANGED <<alive, resets, faults, pc, trigger, due, unjoined, stop>>

expired_misses ==
  /\ pc = "expired"
  /\ claim # NoClaim
  /\ nothing_to_claim
  /\ claim' = NoClaim
  /\ UNCHANGED <<collection, faults, pc, trigger, due, tracker, events,
                 tasks_run, stop>>

expired_fails ==
  /\ pc = "expired"
  /\ claim # NoClaim
  /\ fault
  /\ \/ UNCHANGED <<doc, events>>
     \/ \E t \in Ids : claim_filter(t) /\ claim_by(t, "me", OwnTimeout)
  /\ claim' = NoClaim
  /\ UNCHANGED <<alive, resets, pc, trigger, due, tracker, tasks_run, stop>>

expired_done ==
  /\ pc = "expired"
  /\ claim = NoClaim
  /\ DOMAIN due = {}
  /\ UNCHANGED <<collection, faults, tracker, events, tasks_run, stop>>
  /\ top

-----------------------------------------------------------------------------
(* The arms of the select                                                  *)

\* Mutant: the stop signal waits until nothing is in flight.
select_stop_when_idle ==
  /\ pc = "select" /\ stop /\ in_flight = {} /\ unjoined = 0
  /\ pc' = "draining"
  /\ connected' = FALSE
  /\ stream' = <<>>
  /\ UNCHANGED <<collection, faults, trigger, claim, due, tracker, tasks_run, stop>>

\* The loop breaks and reads no further event.
select_stop ==
  /\ pc = "select" /\ stop
  /\ pc' = "draining"
  /\ connected' = FALSE
  /\ stream' = <<>>
  /\ UNCHANGED <<collection, faults, trigger, claim, due, tracker, tasks_run, stop>>

\* The sleep until the first deadline is over.
select_timer ==
  /\ pc = "select"
  /\ has_due(tracker, Now)
  /\ due' = popped(tracker, Now)
  /\ tracker' = pop_due(tracker, Now)
  /\ pc' = "expired"
  /\ UNCHANGED <<collection, faults, trigger, claim, events, tasks_run, stop>>

\* stale_recovery_ticker, every ten minutes.
select_ticker ==
  /\ pc = "select"
  /\ pc' = "scan"
  /\ trigger' = "periodic"
  /\ UNCHANGED <<collection, faults, claim, due, tracker, events, tasks_run, stop>>

\* Mutant: a completion is followed by a pump only if the hint is set.
select_join_if_hinted ==
  /\ pc = "select"
  /\ unjoined > 0
  /\ unjoined' = unjoined - 1
  /\ UNCHANGED <<collection, faults, tracker, events, in_flight, stop>>
  /\ IF tracker.pending_may_exist THEN pump("pending") ELSE top

\* Mutants: a completion is followed by no pump at all; join_next is polled
\* although the JoinSet is empty.
select_join_rests ==
  /\ pc = "select"
  /\ unjoined > 0
  /\ unjoined' = unjoined - 1
  /\ UNCHANGED <<collection, faults, tracker, events, in_flight, stop>>
  /\ top

select_join_of_empty ==
  /\ pc = "select"
  /\ unjoined' = unjoined - 1
  /\ UNCHANGED <<collection, faults, tracker, events, in_flight, stop>>
  /\ pump("pending")

\* A process_task is over, and its permit free again.
select_join ==
  /\ pc = "select"
  /\ unjoined > 0
  /\ unjoined' = unjoined - 1
  /\ UNCHANGED <<collection, faults, tracker, events, in_flight, stop>>
  /\ pump("pending")

select_event ==
  /\ pc = "select"
  /\ stream # <<>>
  /\ tracker' = apply_change_event_to_expirations(tracker, Head(stream))
  /\ stream' = Tail(stream)
  /\ UNCHANGED <<collection, faults, connected, tasks_run, stop>>
  /\ IF announces_ready(Head(stream)) THEN pump("pending") ELSE top

\* The stream fails or ends, with whatever it had not delivered.
select_stream_lost ==
  /\ pc = "select"
  /\ connected' = FALSE
  /\ stream' = <<>>
  /\ UNCHANGED <<collection, faults, tracker, tasks_run, stop>>
  /\ top

-----------------------------------------------------------------------------
(* After the loop: every process_task is joined                            *)

drain ==
  /\ pc = "draining"
  /\ IF unjoined > 0
     THEN unjoined' = unjoined - 1 /\ UNCHANGED pc
     ELSE in_flight = {} /\ pc' = "stopped" /\ UNCHANGED unjoined
  /\ UNCHANGED <<collection, faults, trigger, claim, due, tracker, events,
                 in_flight, stop>>

-----------------------------------------------------------------------------
(* The worker's own process_tasks, as far as the loop notices them         *)

handler_over(t) ==
  /\ in_flight' = in_flight \ {t}
  /\ unjoined' = unjoined + 1

\* Bound: process_tasks that are over and not joined.
joinable == unjoined <= MaxInflight

own_beats(t) ==
  /\ t \in in_flight /\ running(t, "me")
  /\ room
  /\ beat_by(t)
  /\ UNCHANGED <<alive, resets, faults, position, tracker, tasks_run, stop>>

\* The final write of process_task, result or failure, is applied.  Its reply
\* is still to come, and until then the id stays in flight.
handler_completes(t) ==
  /\ t \in in_flight /\ running(t, "me")
  /\ finish_of(t)
  /\ UNCHANGED <<alive, resets, faults, position, tracker, tasks_run, stop>>

\* process_task returns: the final write was answered, or matched nothing or was
\* not tried because the claim no longer owns the document.
handler_returns(t) ==
  /\ t \in in_flight /\ ~running(t, "me")
  /\ joinable
  /\ handler_over(t)
  /\ UNCHANGED <<collection, faults, position, tracker, events, stop>>

\* The handler is over and the document stays as it is: a panic, an output
\* that does not serialize, a final write that failed.
handler_lost(t) ==
  /\ t \in in_flight
  /\ joinable
  /\ fault
  /\ handler_over(t)
  /\ UNCHANGED <<collection, position, tracker, events, stop>>

-----------------------------------------------------------------------------
(* The others                                                              *)

submit(t) ==
  /\ room
  /\ \/ /\ doc[t].status = "absent"
        /\ write(t, NoDoc("pending"), Event("insert", t, "pending", 0, NoTimeout))
        /\ UNCHANGED resets
     \/ /\ doc[t].status = "finished"
        /\ resets < MaxResets
        /\ resets' = resets + 1
        /\ write(t, NoDoc("pending"), Event("update", t, "pending", 0, NoTimeout))
  /\ UNCHANGED <<alive, faults, position, tracker, tasks_run, stop>>

peer_claims(t) ==
  /\ alive /\ room
  /\ \/ doc[t].status = "pending"
     \/ Peer = "steals" /\ running(t, "me") /\ lease_expired(t)
  /\ claim_by(t, "peer", PeerTimeout)
  /\ UNCHANGED <<alive, resets, faults, position, tracker, tasks_run, stop>>

peer_beats(t) ==
  /\ alive /\ running(t, "peer") /\ room
  /\ beat_by(t)
  /\ UNCHANGED <<alive, resets, faults, position, tracker, tasks_run, stop>>

peer_finishes(t) ==
  /\ alive /\ running(t, "peer") /\ room
  /\ finish_of(t)
  /\ UNCHANGED <<alive, resets, faults, position, tracker, tasks_run, stop>>

peer_dies ==
  /\ alive
  /\ alive' = FALSE
  /\ UNCHANGED <<doc, resets, faults, position, tracker, events, tasks_run, stop>>

\* A document is deleted by hand.
delete(t) ==
  /\ doc[t].status \notin {"absent", "deleted"} /\ room
  /\ write(t, NoDoc("deleted"), Event("delete", t, "none", 0, NoTimeout))
  /\ UNCHANGED <<alive, resets, faults, position, tracker, tasks_run, stop>>

shutdown ==
  /\ Stops /\ ~stop /\ pc \notin Gone
  /\ stop' = TRUE
  /\ UNCHANGED <<collection, faults, position, tracker, events, tasks_run>>

-----------------------------------------------------------------------------
older(time) == IF time = 0 THEN 0 ELSE time - 1

aged(map) == [t \in DOMAIN map |-> [map[t] EXCEPT !.expires_at = older(@)]]

Tick ==
  /\ doc' = [t \in Ids |-> [doc[t] EXCEPT !.heartbeat_at = older(@)]]
  /\ due' = aged(due)
  /\ tracker' = [tracker EXCEPT
       !.tasks = aged(@),
       !.deadlines = [d \in {older(x) : x \in DOMAIN tracker.deadlines} |->
                        UNION {tracker.deadlines[x] :
                                 x \in {y \in DOMAIN tracker.deadlines : older(y) = d}}]]
  /\ stream' = [i \in DOMAIN stream |-> [stream[i] EXCEPT !.heartbeat_at = older(@)]]
  /\ UNCHANGED <<alive, resets, faults, pc, trigger, claim, connected, tasks_run,
                 stop>>

\* What the loop does once it has started on something.
Work ==
  \/ scan \/ probe
  \/ \E t \in Ids : pump_claims(t) \/ expired_skips(t) \/ expired_defers(t)
                      \/ expired_attempts(t) \/ expired_claims(t)
  \/ pump_tries_own \/ pump_misses \/ expired_misses \/ expired_done
  \/ drain

Select ==
  \/ select_stop \/ select_timer \/ select_ticker \/ select_join
  \/ select_event \/ select_stream_lost

Faults ==
  \/ open_fails \/ open_unsupported \/ scan_fails \/ probe_fails
  \/ pump_fails \/ expired_fails
  \/ \E t \in Ids : handler_lost(t)

Others ==
  \/ \E t \in Ids : \/ own_beats(t) \/ handler_completes(t) \/ handler_returns(t)
                    \/ submit(t) \/ delete(t)
                    \/ peer_claims(t) \/ peer_beats(t) \/ peer_finishes(t)
  \/ peer_dies \/ shutdown

Next == open_change_stream \/ Work \/ Select \/ Faults \/ Others \/ Tick

Spec == Init /\ [][Next]_vars

\* The runtime drives the loop through its awaits, and handlers return.
\* tokio::select! polls its arms in random order, so that none that is ready
\* again and again is passed over for ever.  Each property assumes this only of
\* the arms it needs, and that the change stream can be opened again some time.
Driven ==
  /\ WF_vars(Work)
  /\ SF_vars(open_change_stream)
  /\ \A t \in Ids : WF_vars(handler_completes(t)) /\ WF_vars(handler_returns(t))

PickupFairness == Driven /\ SF_vars(select_event) /\ SF_vars(select_join)
TimerFairness  == Driven /\ SF_vars(select_event) /\ SF_vars(select_timer)
                         /\ WF_vars(Tick)
TickerFairness == Driven /\ SF_vars(select_join) /\ SF_vars(select_ticker)
                         /\ WF_vars(Tick)
StopFairness   == Driven /\ SF_vars(select_stop)

FairSpec == Spec /\ PickupFairness /\ TimerFairness /\ TickerFairness
                 /\ StopFairness

-----------------------------------------------------------------------------
(* What the loop promises                                                  *)

\* The deadline index of the tracker agrees with its tasks, and what pop_due
\* took out is in neither until it is dealt with: defer, which inserts without
\* a remove, never leaves a task under two deadlines.
TrackerConsistent ==
  /\ IndexesAgree(tracker)
  /\ DOMAIN due \cap DOMAIN tracker.tasks = {}

\* Document ids with an event that the loop has not read.
announced == {stream[i].id : i \in DOMAIN stream}

\* The document ids the loop has in view: tracked, popped, or being claimed
\* after their deadline.
targeted == IF pc = "expired" THEN claim.targets ELSE {}
in_view  == DOMAIN tracker.tasks \cup DOMAIN due \cup targeted

\* The tracker has been filled since the change stream was opened.
watching == connected /\ pc # "scan"

\* Every deadline that a claim or a heartbeat installs is at or after the end of
\* the lease, because no task asks for a longer switch timeout than the workers'.
TimeoutsCover ==
  \A t \in Ids : SwitchTimeout[t] <= OwnTimeout /\ SwitchTimeout[t] <= PeerTimeout

\* The peer runs the task, and the connected loop neither has it in view nor
\* will learn of it from an event still unread.
forgotten(t) ==
  watching /\ running(t, "peer") /\ t \notin in_view \cup announced

\* Where pump_expired_tasks lets go of a popped entry for good: its id is still in
\* flight here under an earlier claim, so that it is skipped, or excluded from its
\* own targeted claim; it stands behind one that found no permit; its claim fails.
drops(t) ==
  \/ expired_skips(t)
  \/ expired_misses /\ t \in claim.targets \cap claim.excluded
  \/ t \in DOMAIN due /\ \E u \in Ids \ {t} : expired_defers(u)
  \/ expired_fails /\ t \in claim.targets

\* "Workers keep an in-memory expiry map for running tasks" (README.md): once in
\* the map, or announced, a task of the peer is forgotten at those places only,
\* whatever the order of scans, claims, completions, resets and reconnects.
OnlyDropsForget ==
  [][\A t \in Ids : forgotten(t)' => forgotten(t) \/ drops(t)]_vars

\* "Its matching change-stream event will install the newer deadline or remove
\* the entry" (pump_expired_tasks): a targeted claim that finds its task not
\* expired leaves the task untracked, but an event about it is still unread.
MissMeansNews ==
  [][expired_misses => claim.targets \subseteq announced \cup claim.excluded]_vars

\* The last unread event about its document.
is_last(i) == \A j \in DOMAIN stream : j > i => stream[j].id # stream[i].id

\* An event that describes document d as it is; the deadline that a claim or a
\* heartbeat installs is not before the end of the lease.
tells(event, d) ==
  \/ /\ d.status = "running"
     /\ event.operation = "update" /\ event.status \in {"running", "none"}
     /\ event.heartbeat_at = d.heartbeat_at
     /\ SwitchTimeout[event.id] <= expiration_timeout(event)
  \/ /\ d.status \in {"pending", "finished"}
     /\ event.operation \in {"insert", "update"} /\ event.status = d.status
  \/ d.status = "deleted" /\ event.operation = "delete"

\* The document runs, and its lease is over at that time if not before.
over_by(t, time) ==
  /\ doc[t].status = "running"
  /\ doc[t].heartbeat_at = 0 \/ doc[t].heartbeat_at + SwitchTimeout[t] <= time

up_to_date(t) ==
  /\ t \in DOMAIN tracker.tasks => over_by(t, tracker.tasks[t].expires_at)
  /\ t \in DOMAIN due => over_by(t, due[t].expires_at)
  /\ t \in targeted => over_by(t, Now)

\* A pending event leaves the tracker alone.  Either an unread finished event,
\* the one before it about its document, will remove the entry, or it is the
\* only event about the document, which is not in view.
entry_goes(i) ==
  \/ \E j \in DOMAIN stream :
       /\ j < i /\ stream[j].id = stream[i].id /\ stream[j].status = "finished"
       /\ \A k \in DOMAIN stream :
            j < k /\ k < i => stream[k].id # stream[i].id
  \/ /\ \A k \in DOMAIN stream : k < i => stream[k].id # stream[i].id
     /\ watching => stream[i].id \notin in_view

ViewShape ==
  /\ ~connected => stream = <<>>
  /\ pc \in {"select", "expired"} => connected
  /\ \A t \in DOMAIN due : due[t].expires_at <= Now

LastEventTells ==
  \A t \in announced : \E i \in DOMAIN stream :
    stream[i].id = t /\ is_last(i) /\ tells(stream[i], doc[t])

ViewUpToDate == watching => \A t \in Ids \ announced : up_to_date(t)

EntriesGo ==
  \A i \in DOMAIN stream :
    is_last(i) /\ stream[i].status = "pending" => entry_goes(i)

\* Why the comment of MissMeansNews is right, as an inductive invariant: the
\* last unread event about a document tells what the document is, and about a
\* document without one the tracker is up to date: whatever it has in view
\* runs, and its lease is over by the deadline.
ViewInvariant == ViewShape /\ LastEventTells /\ ViewUpToDate /\ EntriesGo

\* The worker is shutting down, or gone.
leaving == pc \in Gone \cup {"draining"}

\* An event that makes the task ready is still unread.
heralded(t) ==
  \E i \in DOMAIN stream : stream[i].id = t /\ announces_ready(stream[i])

\* Something will make the loop pump with the task claimable: its event, or the
\* end of a process_task, be it the one that holds the id back, any one when all
\* permits are taken, or one that is over and not joined yet.
wakes(t) ==
  \/ heralded(t) \/ t \in in_flight \/ Cardinality(in_flight) >= MaxInflight
  \/ unjoined > 0

\* The incident of docs/single-inflight-pending-wakeup-incident.md, as a state
\* that must not exist: the loop sits in its select, a task is pending, a permit
\* free, and neither event nor completion is to come.
PendingHasWakeup ==
  pc = "select" => \A t \in Ids : doc[t].status = "pending" => wakes(t)

picked_up(t) == doc[t].status # "pending" \/ leaving

\* No pending task is left lying while the database answers: events and
\* completions alone see to it that this worker or the peer takes it, whatever
\* the order of its event, of completions and of reconnects.
PendingIsPickedUp ==
  PickupFairness /\ [](faults = 0) =>
    \A t \in Ids : (doc[t].status = "pending") ~> picked_up(t)

\* Nobody runs the document any more.
abandoned(t) ==
  \/ running(t, "peer") /\ ~alive
  \/ running(t, "me") /\ t \notin in_flight

recovered(t) == ~abandoned(t) \/ leaving

\* Tasks that the peer runs although a process_task of an earlier claim is still
\* in flight here: stolen from it, or reset behind its final write.
overtaken == {t \in in_flight : running(t, "peer")}

\* No permit is free and more than one popped entry asks for one: all but the
\* first will be dropped.
cut_short ==
  /\ pc = "expired" /\ free = 0
  /\ \E t, u \in DOMAIN due :
       t # u /\ {x \in {t, u} : due[x].named /\ x \in in_flight} = {}

\* The tracker's timer alone, without the ten-minute ticker, has the task of a
\* dead worker run again, except where the code drops the entry: the database
\* fails, the task was overtaken, permits do not suffice for all that is due, or
\* the task's switch timeout is longer than a worker's.
TimerRecovers ==
  TimeoutsCover /\ TimerFairness /\ [](faults = 0 /\ overtaken = {} /\ ~cut_short) =>
    \A t \in Ids : abandoned(t) ~> recovered(t)

\* The ticker alone recovers every abandoned task: after a failed claim, a lost
\* handler, a scan that broke off or an entry that the tracker has dropped.
AbandonedIsRecovered ==
  TickerFairness => \A t \in Ids : abandoned(t) ~> recovered(t)

\* WorkerHandle::shutdown returns: the loop sees the stop signal between its
\* other arms and joins every process_task.
StopIsServed == StopFairness => (stop ~> (pc \in Gone))

(* What the comments say, and the code does not do                         *)

\* "A freed permit sits idle until the next qualifying change-stream event or
\* the 10-minute fallback tick" (worker_loop): a pending task waits no longer
\* than that, also when a claim has failed.
NoPendingIsStranded ==
  \A t \in Ids : (doc[t].status = "pending") ~> picked_up(t)
=============================================================================
