------------------------- MODULE LoopWakeup_proofs -------------------------
(***************************************************************************)
(* Proof that the worker loop never rests beside a pending task without a  *)
(* wake-up to come: PendingHasWakeup.                                      *)
(***************************************************************************)
EXTENDS WorkerLoop_proofs, FiniteSetTheorems

\* The loop is not on its way to a pump over pending tasks: what is pending now
\* it will not look for by itself.
resting ==
  \/ pc \in {"select", "expired"}
  \/ pc \in {"scan", "probe"} /\ trigger = "periodic"
  \/ pc = "pump" /\ claim.arm # "pending"

all_wake == \A t \in Ids : doc[t].status = "pending" => wakes(t)

\* The inductive invariant.  The second part of Pumping is about the snapshot of
\* in-flight ids: what a pump excludes is still in flight, or its process_task
\* is over and will be joined.
Pumping ==
  pc = "pump" => /\ claim.targets = Ids
                 /\ \A t \in claim.excluded : t \in in_flight \/ unjoined > 0

WakeInvariant ==
  /\ IsFiniteSet(in_flight)
  /\ pc \in {"select", "expired"} => connected
  /\ pc = "open" => trigger = "reconnect"
  /\ Pumping
  /\ resting /\ connected => all_wake

-----------------------------------------------------------------------------
(* What keeps a wake-up to come                                            *)

\* Nothing but the loop takes events out of the stream or joins a process_task.
stays_awake ==
  /\ \A t \in Ids : heralded(t) => heralded(t)'
  /\ \/ in_flight \subseteq in_flight' /\ unjoined' = unjoined
     \/ unjoined' > 0

\* Then every wake-up to come is still to come.
LEMMA WakesKept ==
  ASSUME LoopInvariant, LoopInvariant', IsFiniteSet(in_flight'), stays_awake,
         NEW t \in Ids, wakes(t)
  PROVE  wakes(t)'
<1>1. CASE unjoined' > 0
  BY <1>1 DEF wakes
<1>2. CASE in_flight \subseteq in_flight' /\ unjoined' = unjoined
  <2>1. /\ IsFiniteSet(in_flight) /\ Cardinality(in_flight) <= Cardinality(in_flight')
    BY <1>2, FS_Subset
  <2>2. Cardinality(in_flight) \in Nat /\ Cardinality(in_flight') \in Nat
    BY <2>1, FS_CardinalityType
  <2>3. Cardinality(in_flight) >= MaxInflight => Cardinality(in_flight') >= MaxInflight
    BY <2>1, <2>2, LoopAssumption
  <2> QED BY <1>2, <2>3 DEF wakes, stays_awake
<1> QED BY <1>1, <1>2 DEF stays_awake

\* A written event stays unread, and a pending one heralds its task.
LEMMA WriteHeralds ==
  ASSUME LoopInvariant, NEW t \in Ids, NEW d, NEW event, write(t, d, event)
  PROVE  /\ \A u \in Ids : heralded(u) => heralded(u)'
         /\ connected /\ event.id = t /\ announces_ready(event) => heralded(t)'
         /\ \A u \in Ids : doc'[u] = IF u = t THEN d ELSE doc[u]
         /\ UNCHANGED connected
<1>1. /\ doc' = [doc EXCEPT ![t] = d] /\ UNCHANGED connected
      /\ stream' = IF connected THEN Append(stream, event) ELSE stream
      /\ stream \in Seq(ChangeEvent) /\ doc \in [Ids -> DocType]
  BY DEF write, LoopInvariant, Events, Documents
<1>2. CASE connected
  <2>1. /\ \A i \in DOMAIN stream : i \in DOMAIN stream' /\ stream'[i] = stream[i]
        /\ Len(stream) + 1 \in DOMAIN stream' /\ stream'[Len(stream) + 1] = event
    BY <1>1, <1>2
  <2> QED BY <1>1, <2>1 DEF heralded
<1>3. CASE ~connected
  BY <1>1, <1>3 DEF heralded
<1> QED BY <1>2, <1>3

\* No step but a submission makes a document pending.
LEMMA OtherWrites ==
  ASSUME LoopInvariant, NEW t \in Ids,
         \/ \E owner, timeout : claim_by(t, owner, timeout)
         \/ beat_by(t) /\ doc[t].status = "running"
         \/ finish_of(t) \/ delete(t)
  PROVE  /\ \A u \in Ids : heralded(u) => heralded(u)'
         /\ \A u \in Ids : doc'[u].status = "pending" => doc[u].status = "pending"
         /\ UNCHANGED connected
<1>1. \E d, event : write(t, d, event) /\ d.status # "pending"
  <2>1. CASE beat_by(t) /\ doc[t].status = "running"
    <3>1. doc[t] \in DocType
      BY DEF LoopInvariant, Documents
    <3>2. [doc[t] EXCEPT !.heartbeat_at = Now].status = doc[t].status
      BY <3>1 DEF DocType
    <3> QED BY <2>1, <3>2 DEF beat_by
  <2>2. CASE \E owner, timeout : claim_by(t, owner, timeout)
    <3>1. PICK owner, timeout : claim_by(t, owner, timeout)
      BY <2>2
    <3>2. Claimed(owner).status # "pending"
      BY DEF Claimed
    <3> QED BY <3>1, <3>2 DEF claim_by
  <2>3. CASE finish_of(t)
    <3>1. NoDoc("finished").status # "pending"
      BY DEF NoDoc
    <3> QED BY <2>3, <3>1 DEF finish_of
  <2>4. CASE delete(t)
    <3>1. NoDoc("deleted").status # "pending"
      BY DEF NoDoc
    <3> QED BY <2>4, <3>1 DEF delete
  <2> QED BY <2>1, <2>2, <2>3, <2>4
<1>2. PICK d : \E event : write(t, d, event) /\ d.status # "pending"
  BY <1>1
<1>3. PICK event : write(t, d, event) /\ d.status # "pending"
  BY <1>2
<1> QED BY <1>3, WriteHeralds

-----------------------------------------------------------------------------
(* Where the loop goes                                                     *)

\* A step to the top of the loop, with every pending task provided for.
LEMMA TopWakes ==
  ASSUME top, IsFiniteSet(in_flight'), connected' => all_wake'
  PROVE  WakeInvariant'
  BY DEF top, WakeInvariant, Pumping, resting

\* A turn of a pump.  One over pending tasks leaves nothing to be provided for:
\* it sends a claim for all of them, or has no permit.
LEMMA TurnWakes ==
  ASSUME NEW arm \in {"pending", "stale"}, pump(arm), IsFiniteSet(in_flight'),
         LoopInvariant', arm = "stale" /\ connected' => all_wake'
  PROVE  WakeInvariant'
<1>0. Cardinality(in_flight') \in Nat /\ MaxInflight \in Nat
  BY FS_CardinalityType, LoopAssumption
<1>1. CASE Cardinality(in_flight') < MaxInflight
  <2>1. /\ pc' = "pump" /\ trigger' = "reconnect"
        /\ claim' = [arm |-> arm, targets |-> Ids, excluded |-> in_flight']
    BY <1>1 DEF pump
  <2> QED BY <2>1 DEF WakeInvariant, Pumping, resting
<1>2. CASE ~(Cardinality(in_flight') < MaxInflight)
  <2>1. Cardinality(in_flight') >= MaxInflight
    BY <1>0, <1>2
  <2>2. top /\ all_wake'
    BY <1>2, <2>1 DEF pump, all_wake, wakes
  <2> QED BY <2>2, TopWakes
<1> QED BY <1>1, <1>2

\* A step that leaves the position of the loop alone.
LEMMA StillWakes ==
  ASSUME LoopInvariant, LoopInvariant', WakeInvariant, UNCHANGED <<pc, trigger, claim>>,
         UNCHANGED connected, IsFiniteSet(in_flight'), stays_awake,
         \A t \in Ids : connected /\ doc'[t].status = "pending" =>
           doc[t].status = "pending" \/ heralded(t)'
  PROVE  WakeInvariant'
<1>1. resting' <=> resting
  BY DEF resting
<1>2. Pumping'
  BY DEF WakeInvariant, Pumping, stays_awake
<1>3. resting /\ connected => all_wake'
  <2> SUFFICES ASSUME resting, connected, NEW t \in Ids, doc'[t].status = "pending"
               PROVE  wakes(t)'
    BY DEF all_wake
  <2>1. CASE doc[t].status = "pending"
    BY <2>1, WakesKept DEF WakeInvariant, all_wake
  <2>2. CASE heralded(t)'
    BY <2>2 DEF wakes
  <2> QED BY <2>1, <2>2
<1> QED BY <1>1, <1>2, <1>3 DEF WakeInvariant

\* A step of the loop that changes neither documents nor wake-ups.
quiet == UNCHANGED <<doc, connected, stream, in_flight, unjoined>>

\* Such a step keeps what is provided for provided for.
LEMMA QuietWakes ==
  ASSUME quiet, all_wake
  PROVE  all_wake'
  BY DEF quiet, all_wake, wakes, heralded

-----------------------------------------------------------------------------
(* The actions                                                             *)

\* Startup, reconnect, refresh, the stop and the drain.
LEMMA StartWakes ==
  ASSUME LoopInvariant, LoopInvariant', WakeInvariant,
         \/ open_change_stream \/ open_fails \/ open_unsupported \/ scan \/ scan_fails
         \/ probe \/ probe_fails \/ drain \/ select_stop
  PROVE  WakeInvariant'
<1>1. CASE open_change_stream \/ open_fails
  <2>1. pc' = "scan" /\ trigger' = "reconnect" /\ UNCHANGED in_flight
    BY <1>1 DEF open_change_stream, open_fails, tasks_run, WakeInvariant
  <2> QED BY <2>1 DEF WakeInvariant, Pumping, resting
<1>2. CASE open_unsupported \/ drain \/ select_stop
  <2>1. pc' \in {"failed", "draining", "stopped"} /\ in_flight' \in {in_flight, {}}
    BY <1>2 DEF open_unsupported, drain, select_stop, tasks_run
  <2> QED BY <2>1, FS_EmptySet DEF WakeInvariant, Pumping, resting
<1>3. CASE scan \/ scan_fails
  <2>1. pc = "scan" /\ pc' = "probe" /\ UNCHANGED trigger /\ quiet
    BY <1>3 DEF scan, scan_fails, quiet, collection, events, tasks_run
  <2>2. resting' /\ connected' => all_wake'
    BY <2>1, QuietWakes DEF WakeInvariant, resting, quiet
  <2> QED BY <2>1, <2>2 DEF WakeInvariant, Pumping, quiet
<1>4. CASE probe \/ probe_fails
  <2>1. pc = "probe" /\ quiet /\ pump_of_trigger
    BY <1>4 DEF probe, probe_fails, quiet, collection, events, tasks_run
  <2>2. IsFiniteSet(in_flight')
    BY <2>1 DEF WakeInvariant, quiet
  <2>3. CASE trigger = "periodic"
    <3>1. pump("stale")
      BY <2>1, <2>3 DEF pump_of_trigger
    <3>2. connected' => all_wake'
      BY <2>1, <2>3, QuietWakes DEF WakeInvariant, resting, quiet
    <3> QED BY <2>2, <3>1, <3>2, TurnWakes
  <2>4. CASE trigger # "periodic"
    <3>1. pump("pending")
      BY <2>1, <2>4 DEF pump_of_trigger
    <3> QED BY <2>2, <3>1, TurnWakes
  <2> QED BY <2>3, <2>4
<1> QED BY <1>1, <1>2, <1>3, <1>4

\* A won claim registers its task and leaves the others waiting as they were.
LEMMA WonWakes ==
  ASSUME LoopInvariant, LoopInvariant', IsFiniteSet(in_flight), NEW t \in Ids, won(t),
         UNCHANGED unjoined
  PROVE  /\ IsFiniteSet(in_flight') /\ UNCHANGED connected /\ stays_awake
         /\ \A u \in Ids : doc'[u].status = "pending" => doc[u].status = "pending"
         /\ all_wake => all_wake'
<1>1. in_flight' = in_flight \cup {t} /\ claim_by(t, "me", OwnTimeout)
  BY DEF won
<1>2. IsFiniteSet(in_flight')
  BY <1>1, FS_AddElement
<1>3. /\ \A u \in Ids : heralded(u) => heralded(u)'
      /\ \A u \in Ids : doc'[u].status = "pending" => doc[u].status = "pending"
      /\ UNCHANGED connected
  BY <1>1, OtherWrites
<1>4. stays_awake
  BY <1>1, <1>3 DEF stays_awake
<1>5. all_wake => all_wake'
  BY <1>2, <1>3, <1>4, WakesKept DEF all_wake
<1> QED BY <1>2, <1>3, <1>4, <1>5

\* pump_available_tasks.  When it gives up on pending tasks, those it did not
\* look for were in flight when it sent the claim.
LEMMA PumpWakes ==
  ASSUME LoopInvariant, LoopInvariant', WakeInvariant,
         (\E t \in Ids : pump_claims(t)) \/ pump_tries_own \/ pump_misses
  PROVE  WakeInvariant'
<1>1. ASSUME NEW t \in Ids, pump_claims(t)
      PROVE  WakeInvariant'
  <2>1. /\ pc = "pump" /\ won(t) /\ UNCHANGED unjoined
    BY <1>1 DEF pump_claims
  <2>2. /\ IsFiniteSet(in_flight') /\ UNCHANGED connected
        /\ all_wake => all_wake'
    BY <2>1, WonWakes DEF WakeInvariant
  <2>3. CASE claim.arm = "stale"
    <3>1. pump("stale") /\ (connected' => all_wake')
      BY <1>1, <2>1, <2>2, <2>3 DEF pump_claims, WakeInvariant, resting
    <3> QED BY <2>2, <3>1, TurnWakes
  <2>4. CASE claim.arm # "stale"
    <3>1. pump("pending")
      BY <1>1, <2>4 DEF pump_claims
    <3> QED BY <2>2, <3>1, TurnWakes
  <2> QED BY <2>3, <2>4
<1>2. CASE pump_tries_own
  <2>1. /\ pc = "pump" /\ claim.arm = "pending" /\ nothing_to_claim /\ quiet
        /\ UNCHANGED <<pc, trigger>> /\ claim' = [claim EXCEPT !.arm = "own"]
    BY <1>2 DEF pump_tries_own, quiet, collection, events, tasks_run
  <2>2. all_wake
    <3> SUFFICES ASSUME NEW t \in Ids, doc[t].status = "pending"
                 PROVE  wakes(t)
      BY DEF all_wake
    <3>1. t \in claim.excluded
      BY <2>1 DEF nothing_to_claim, claim_filter, WakeInvariant, Pumping
    <3> QED BY <2>1, <3>1 DEF WakeInvariant, Pumping, wakes
  <2>3. claim'.targets = claim.targets /\ claim'.excluded = claim.excluded
    BY <2>1 DEF LoopInvariant, Position
  <2> QED BY <2>1, <2>2, <2>3, QuietWakes DEF WakeInvariant, Pumping, quiet
<1>3. CASE pump_misses
  <2>1. /\ pc = "pump" /\ claim.arm # "pending" /\ quiet /\ top
    BY <1>3 DEF pump_misses, quiet, collection, events, tasks_run
  <2>2. connected' => all_wake'
    BY <2>1, QuietWakes DEF WakeInvariant, resting, quiet
  <2> QED BY <2>1, <2>2, TopWakes DEF WakeInvariant, quiet
<1> QED BY <1>1, <1>2, <1>3

\* pump_expired_tasks.
LEMMA ExpiredWakes ==
  ASSUME LoopInvariant, LoopInvariant', WakeInvariant,
         \/ \E t \in Ids : \/ expired_skips(t) \/ expired_defers(t)
                           \/ expired_attempts(t) \/ expired_claims(t)
         \/ expired_misses \/ expired_fails \/ expired_done
  PROVE  WakeInvariant'
<1>0. pc = "expired" /\ connected /\ all_wake /\ IsFiniteSet(in_flight)
  BY DEF expired_skips, expired_defers, expired_attempts, next_due, expired_claims,
         expired_misses, expired_fails, expired_done, WakeInvariant, resting
<1>1. ASSUME pc' = "expired", UNCHANGED connected, IsFiniteSet(in_flight'), all_wake'
      PROVE  WakeInvariant'
  BY <1>0, <1>1 DEF WakeInvariant, Pumping
<1>2. ASSUME quiet, pc' = "expired" \/ top
      PROVE  WakeInvariant'
  BY <1>0, <1>1, <1>2, QuietWakes, TopWakes DEF quiet
<1>3. ASSUME NEW t \in Ids, \/ expired_skips(t) \/ expired_defers(t)
                            \/ expired_attempts(t)
      PROVE  WakeInvariant'
  BY <1>0, <1>2, <1>3 DEF expired_skips, expired_defers, expired_attempts, quiet,
                          collection, events, tasks_run
<1>4. CASE expired_misses \/ expired_done
  BY <1>0, <1>2, <1>4 DEF expired_misses, expired_done, quiet, collection, events,
                          tasks_run
<1>5. ASSUME NEW t \in Ids, expired_claims(t)
      PROVE  WakeInvariant'
  <2>1. won(t) /\ UNCHANGED <<unjoined, pc>>
    BY <1>5 DEF expired_claims
  <2> QED BY <1>0, <1>1, <2>1, WonWakes
<1>6. ASSUME expired_fails, NEW t \in Ids, claim_by(t, "me", OwnTimeout)
      PROVE  WakeInvariant'
  <2>1. UNCHANGED <<pc, in_flight, unjoined>>
    BY <1>6 DEF expired_fails, tasks_run
  <2>2. /\ \A u \in Ids : heralded(u) => heralded(u)'
        /\ \A u \in Ids : doc'[u].status = "pending" => doc[u].status = "pending"
        /\ UNCHANGED connected
    BY <1>6, OtherWrites
  <2>3. stays_awake
    BY <2>1, <2>2 DEF stays_awake
  <2>4. all_wake'
    BY <1>0, <2>1, <2>2, <2>3, WakesKept DEF all_wake
  <2> QED BY <1>0, <1>1, <2>1, <2>2, <2>4
<1>7. CASE expired_fails /\ UNCHANGED <<doc, events>>
  BY <1>0, <1>2, <1>7 DEF expired_fails, quiet, events, tasks_run
<1> QED BY <1>3, <1>4, <1>5, <1>6, <1>7 DEF expired_fails

\* The arms of the select: an event that makes a task ready, and every
\* completion, is followed by a pump.
LEMMA SelectWakes ==
  ASSUME LoopInvariant, LoopInvariant', WakeInvariant, Select
  PROVE  WakeInvariant'
<1>0. IsFiniteSet(in_flight) /\ (pc = "select" => connected /\ all_wake)
  BY DEF WakeInvariant, resting
<1>1. CASE select_stop
  BY <1>1, StartWakes
<1>2. CASE select_timer
  <2>1. pc = "select" /\ pc' = "expired" /\ quiet
    BY <1>2 DEF select_timer, quiet, collection, events, tasks_run
  <2> QED BY <1>0, <2>1, QuietWakes DEF WakeInvariant, Pumping, quiet
<1>3. CASE select_ticker
  <2>1. pc = "select" /\ pc' = "scan" /\ quiet
    BY <1>3 DEF select_ticker, quiet, collection, events, tasks_run
  <2> QED BY <1>0, <2>1, QuietWakes DEF WakeInvariant, Pumping, quiet
<1>4. CASE select_join
  <2>1. pump("pending") /\ UNCHANGED in_flight
    BY <1>4 DEF select_join
  <2> QED BY <1>0, <2>1, TurnWakes
<1>5. CASE select_event
  <2>1. /\ pc = "select" /\ stream # <<>> /\ stream' = Tail(stream)
        /\ UNCHANGED <<doc, connected, in_flight, unjoined>>
        /\ stream \in Seq(ChangeEvent)
    BY <1>5 DEF select_event, collection, tasks_run, LoopInvariant, Events
  <2>2. CASE announces_ready(Head(stream))
    <3>1. pump("pending")
      BY <1>5, <2>2 DEF select_event
    <3> QED BY <1>0, <2>1, <3>1, TurnWakes
  <2>3. CASE ~announces_ready(Head(stream))
    <3>1. ASSUME NEW t \in Ids, heralded(t)
          PROVE  heralded(t)'
      <4>1. PICK i \in DOMAIN stream : stream[i].id = t /\ announces_ready(stream[i])
        BY <3>1 DEF heralded
      <4>2. i \in Nat /\ i >= 1 /\ (i = 1 => stream[i] = Head(stream))
        BY <2>1
      <4>3. i # 1
        BY <2>3, <4>1, <4>2
      <4>4. i - 1 \in DOMAIN stream' /\ stream'[i - 1] = stream[i]
        BY <2>1, <4>2, <4>3
      <4> QED BY <4>1, <4>4 DEF heralded
    <3>2. stays_awake
      BY <2>1, <3>1 DEF stays_awake
    <3>3. IsFiniteSet(in_flight')
      BY <1>0, <2>1
    <3>4. all_wake'
      BY <1>0, <2>1, <3>2, <3>3, WakesKept DEF all_wake
    <3>5. top
      BY <1>5, <2>3 DEF select_event
    <3> QED BY <3>3, <3>4, <3>5, TopWakes
  <2> QED BY <2>2, <2>3
<1>6. CASE select_stream_lost
  <2>1. top /\ ~connected' /\ UNCHANGED in_flight
    BY <1>6 DEF select_stream_lost, tasks_run
  <2> QED BY <1>0, <2>1, TopWakes
<1> QED BY <1>1, <1>2, <1>3, <1>4, <1>5, <1>6 DEF Select

\* Handlers, the peer, callers and time.  A handler that is over leaves a
\* process_task to join, whatever became of its document.
LEMMA OthersWake ==
  ASSUME LoopInvariant, LoopInvariant', WakeInvariant,
         \/ Others \/ Tick \/ UNCHANGED vars \/ \E t \in Ids : handler_lost(t)
  PROVE  WakeInvariant'
<1>0. IsFiniteSet(in_flight)
  BY DEF WakeInvariant
<1>1. ASSUME UNCHANGED <<position, connected, tasks_run>>,
             \A t \in Ids : heralded(t) => heralded(t)',
             \A t \in Ids : connected /\ doc'[t].status = "pending" =>
               doc[t].status = "pending" \/ heralded(t)'
      PROVE  WakeInvariant'
  <2>1. stays_awake /\ UNCHANGED <<pc, trigger, claim, in_flight>>
    BY <1>1 DEF stays_awake, position, tasks_run
  <2> QED BY <1>0, <1>1, <2>1, StillWakes
<1>2. ASSUME NEW t \in Ids, \/ own_beats(t) \/ peer_beats(t) \/ peer_claims(t)
                            \/ handler_completes(t) \/ peer_finishes(t) \/ delete(t)
      PROVE  WakeInvariant'
  <2>1. /\ UNCHANGED <<position, tasks_run>>
        /\ \/ \E owner, timeout : claim_by(t, owner, timeout)
           \/ beat_by(t) /\ doc[t].status = "running"
           \/ finish_of(t) \/ delete(t)
    BY <1>2 DEF own_beats, peer_beats, peer_claims, handler_completes, peer_finishes,
                delete, running
  <2> QED BY <1>1, <2>1, OtherWrites
<1>3. ASSUME NEW t \in Ids, submit(t)
      PROVE  WakeInvariant'
  <2>1. PICK operation : write(t, NoDoc("pending"), Event(operation, t, "pending", 0, NoTimeout))
    BY <1>3 DEF submit
  <2> DEFINE event == Event(operation, t, "pending", 0, NoTimeout)
  <2>2. event.id = t /\ announces_ready(event)
    BY DEF Event, announces_ready
  <2>3. UNCHANGED <<position, tasks_run>>
    BY <1>3 DEF submit
  <2> HIDE DEF event
  <2>4. write(t, NoDoc("pending"), event)
    BY <2>1 DEF event
  <2> QED BY <1>1, <2>2, <2>3, <2>4, WriteHeralds
<1>4. ASSUME NEW t \in Ids, handler_over(t), UNCHANGED <<position, connected>>,
             \A u \in Ids : heralded(u) => heralded(u)',
             \A u \in Ids : doc'[u].status = "pending" => doc[u].status = "pending"
      PROVE  WakeInvariant'
  <2>1. /\ in_flight' = in_flight \ {t} /\ unjoined' > 0
    BY <1>4 DEF handler_over, LoopInvariant, Counters
  <2>2. IsFiniteSet(in_flight')
    BY <1>0, <2>1, FS_Subset
  <2>3. stays_awake /\ UNCHANGED <<pc, trigger, claim>>
    BY <1>4, <2>1 DEF stays_awake, position
  <2> QED BY <1>4, <2>2, <2>3, StillWakes
<1>5. ASSUME NEW t \in Ids, handler_returns(t) \/ handler_lost(t)
      PROVE  WakeInvariant'
  <2>1. handler_over(t) /\ UNCHANGED <<position, doc, connected, stream>>
    BY <1>5 DEF handler_returns, handler_lost, collection, events
  <2> QED BY <1>4, <2>1 DEF heralded
<1>6. CASE peer_dies \/ shutdown \/ UNCHANGED vars
  <2>1. UNCHANGED <<position, doc, connected, stream, tasks_run>>
    BY <1>6 DEF peer_dies, shutdown, vars, collection, events, position, tasks_run
  <2> QED BY <1>1, <2>1 DEF heralded
<1>7. CASE Tick
  <2>1. \A t \in Ids : doc'[t].status = doc[t].status
    <3> TAKE t \in Ids
    <3>1. doc[t] \in DocType /\ doc'[t] = [doc[t] EXCEPT !.heartbeat_at = older(@)]
      BY <1>7 DEF Tick, LoopInvariant, Documents
    <3> QED BY <3>1 DEF DocType
  <2>2. \A t \in Ids : heralded(t) => heralded(t)'
    BY <1>7, StreamAges DEF LoopInvariant, heralded, announces_ready
  <2>3. UNCHANGED <<pc, trigger, claim, connected, in_flight, unjoined>>
    BY <1>7 DEF Tick, tasks_run
  <2>4. stays_awake
    BY <2>2, <2>3 DEF stays_awake
  <2> QED BY <1>0, <2>1, <2>3, <2>4, StillWakes
<1> QED BY <1>2, <1>3, <1>5, <1>6, <1>7 DEF Others

-----------------------------------------------------------------------------
\* Every step but a failed claim of a pump keeps the invariant.
LEMMA WakeStep ==
  LoopInvariant /\ LoopInvariant' /\ WakeInvariant /\ [Next]_vars /\ [~pump_fails]_vars
    => WakeInvariant'
<1> SUFFICES ASSUME LoopInvariant, LoopInvariant', WakeInvariant, [Next]_vars,
                    [~pump_fails]_vars
             PROVE  WakeInvariant'
  OBVIOUS
<1>1. CASE UNCHANGED vars
  BY <1>1, OthersWake
<1>2. CASE Next /\ ~pump_fails
  <2>1. CASE open_change_stream \/ Work
    BY <2>1, StartWakes, PumpWakes, ExpiredWakes DEF Work
  <2>2. CASE Faults
    BY <1>2, <2>2, StartWakes, ExpiredWakes, OthersWake DEF Faults
  <2> QED BY <1>2, <2>1, <2>2, SelectWakes, OthersWake DEF Next
<1> QED BY <1>1, <1>2

\* The recorded incident cannot happen any more, for any number of tasks and
\* permits, with thefts, resets, lost handlers, broken streams and failed scans:
\* unless a claim of a pump fails, the loop never sits in its select beside a
\* pending task and a free permit without an event or a completion to come.
THEOREM WakeupNeverLost == Spec /\ [][~pump_fails]_vars => []PendingHasWakeup
<1>1. Init => LoopInvariant /\ WakeInvariant
  <2>1. Init => WakeInvariant
    BY FS_EmptySet DEF Init, WakeInvariant, Pumping, resting
  <2> QED BY <2>1, LoopInit
<1>2. LoopInvariant /\ WakeInvariant /\ [Next]_vars /\ [~pump_fails]_vars
        => LoopInvariant' /\ WakeInvariant'
  BY LoopStep, WakeStep
<1>3. WakeInvariant => PendingHasWakeup
  BY DEF WakeInvariant, PendingHasWakeup, resting, all_wake
<1> QED BY <1>1, <1>2, <1>3, PTL DEF Spec
=============================================================================
