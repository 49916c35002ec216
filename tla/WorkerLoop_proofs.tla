------------------------- MODULE WorkerLoop_proofs -------------------------
(***************************************************************************)
(* Proofs about the expiry tracker and the worker loop that keeps it.      *)
(***************************************************************************)
EXTENDS WorkerLoop, TLAPS

\* A well-formed tracker: a record of the right type whose indexes agree.
IsTracker(tr) ==
  /\ tr = [tasks |-> tr.tasks, deadlines |-> tr.deadlines,
           pending_may_exist |-> tr.pending_may_exist]
  /\ DOMAIN tr.tasks \subseteq Ids
  /\ \A t \in DOMAIN tr.tasks : tr.tasks[t] \in Entry
  /\ \A d \in DOMAIN tr.deadlines : d \in Nat /\ tr.deadlines[d] \subseteq Ids
  /\ tr.pending_may_exist \in BOOLEAN
  /\ IndexesAgree(tr)

-----------------------------------------------------------------------------
(* The operations of the tracker                                           *)

\* ExpiryTracker::default is well formed.
LEMMA NewTrackerIs == IsTracker(NewTracker)
  BY DEF IsTracker, NewTracker, EmptyMap, IndexesAgree

\* set_pending_may_exist touches nothing but the hint.
LEMMA HintIs ==
  ASSUME NEW tr, IsTracker(tr), NEW b \in BOOLEAN
  PROVE  /\ IsTracker(set_pending_may_exist(tr, b))
         /\ set_pending_may_exist(tr, b).tasks = tr.tasks
  BY DEF IsTracker, set_pending_may_exist, IndexesAgree

\* ExpiryTracker::remove keeps the indexes in agreement.
LEMMA RemoveIs ==
  ASSUME NEW tr, IsTracker(tr), NEW id \in Ids
  PROVE  /\ IsTracker(remove(tr, id))
         /\ DOMAIN remove(tr, id).tasks = DOMAIN tr.tasks \ {id}
<1>1. CASE id \notin DOMAIN tr.tasks
  BY <1>1 DEF remove
<1>2. CASE id \in DOMAIN tr.tasks
  <2> DEFINE deadline == tr.tasks[id].expires_at
             ids      == tr.deadlines[deadline] \ {id}
             new      == remove(tr, id)
  <2>1. /\ deadline \in DOMAIN tr.deadlines
        /\ new.tasks = [k \in DOMAIN tr.tasks \ {id} |-> tr.tasks[k]]
        /\ new.deadlines = IF ids = {} THEN without(tr.deadlines, deadline)
                                       ELSE put(tr.deadlines, deadline, ids)
        /\ new.pending_may_exist = tr.pending_may_exist
        /\ new = [tasks |-> new.tasks, deadlines |-> new.deadlines,
                  pending_may_exist |-> new.pending_may_exist]
    BY <1>2 DEF remove, IsTracker, IndexesAgree, without, Restrict
  <2>2. /\ DOMAIN new.deadlines =
             IF ids = {} THEN DOMAIN tr.deadlines \ {deadline} ELSE DOMAIN tr.deadlines
        /\ \A d \in DOMAIN new.deadlines :
             new.deadlines[d] = IF d = deadline THEN ids ELSE tr.deadlines[d]
    <3> HIDE DEF new, ids, deadline
    <3>1. CASE ids = {}
      BY <2>1, <3>1 DEF without, Restrict
    <3>2. CASE ids # {}
      BY <2>1, <3>2 DEF put
    <3> QED BY <3>1, <3>2
  <2>3. IndexesAgree(new)
    <3> HIDE DEF new
    <3>1. \A k \in DOMAIN new.tasks :
            /\ new.tasks[k].expires_at \in DOMAIN new.deadlines
            /\ k \in new.deadlines[new.tasks[k].expires_at]
      <4> TAKE k \in DOMAIN new.tasks
      <4> DEFINE e == tr.tasks[k].expires_at
      <4>1. /\ k \in DOMAIN tr.tasks /\ k # id
            /\ new.tasks[k].expires_at = e
        BY <2>1
      <4>2. e \in DOMAIN tr.deadlines /\ k \in tr.deadlines[e]
        BY <4>1 DEF IsTracker, IndexesAgree
      <4> HIDE DEF e
      <4>3. CASE e = deadline
        BY <2>2, <4>1, <4>2, <4>3
      <4>4. CASE e # deadline
        BY <2>2, <4>1, <4>2, <4>4
      <4> QED BY <4>3, <4>4
    <3>2. \A d \in DOMAIN new.deadlines :
            /\ new.deadlines[d] # {}
            /\ \A k \in new.deadlines[d] :
                 k \in DOMAIN new.tasks /\ new.tasks[k].expires_at = d
      <4> TAKE d \in DOMAIN new.deadlines
      <4>1. /\ d \in DOMAIN tr.deadlines
            /\ \A k \in tr.deadlines[d] :
                 k \in DOMAIN tr.tasks /\ tr.tasks[k].expires_at = d
            /\ tr.deadlines[d] # {}
        BY <2>1, <2>2 DEF IsTracker, IndexesAgree
      <4>2. CASE d = deadline
        <5>1. new.deadlines[d] = ids /\ ids # {}
          BY <2>2, <4>2
        <5>2. \A k \in ids : k \in tr.deadlines[d] /\ k # id
          BY <4>2
        <5> HIDE DEF ids
        <5> QED BY <2>1, <4>1, <5>1, <5>2
      <4>3. CASE d # deadline
        <5>1. new.deadlines[d] = tr.deadlines[d]
          BY <2>2, <4>3
        <5>2. id \notin tr.deadlines[d]
          BY <4>1, <4>3
        <5> QED BY <2>1, <4>1, <5>1, <5>2
      <4> QED BY <4>2, <4>3
    <3> QED BY <3>1, <3>2 DEF IndexesAgree
  <2> HIDE DEF new
  <2> QED BY <2>1, <2>2, <2>3 DEF IsTracker, new
<1> QED BY <1>1, <1>2

\* An id that is not tracked is entered under one deadline.
LEMMA InsertIs ==
  ASSUME NEW tr, IsTracker(tr), NEW id \in Ids, id \notin DOMAIN tr.tasks,
         NEW named \in BOOLEAN, NEW expires_at \in Nat
  PROVE  /\ IsTracker(insert(tr, id, named, expires_at))
         /\ DOMAIN insert(tr, id, named, expires_at).tasks = DOMAIN tr.tasks \cup {id}
<1> DEFINE new == insert(tr, id, named, expires_at)
           ids == IF expires_at \in DOMAIN tr.deadlines
                  THEN tr.deadlines[expires_at] ELSE {}
<1>a. tr = [tasks |-> tr.tasks, deadlines |-> tr.deadlines,
            pending_may_exist |-> tr.pending_may_exist]
  BY DEF IsTracker
<1>b. new = [tr EXCEPT
        !.tasks = put(tr.tasks, id, [named |-> named, expires_at |-> expires_at]),
        !.deadlines = put(tr.deadlines, expires_at, ids \cup {id})]
  BY DEF insert
<1> HIDE DEF new, ids
<1>1. /\ new.tasks = put(tr.tasks, id, [named |-> named, expires_at |-> expires_at])
      /\ new.deadlines = put(tr.deadlines, expires_at, ids \cup {id})
      /\ new.pending_may_exist = tr.pending_may_exist
      /\ new = [tasks |-> new.tasks, deadlines |-> new.deadlines,
                pending_may_exist |-> new.pending_may_exist]
  BY <1>a, <1>b
<1> USE DEF ids
<1>2. /\ DOMAIN new.tasks = DOMAIN tr.tasks \cup {id}
      /\ \A k \in DOMAIN new.tasks :
           new.tasks[k] = IF k = id THEN [named |-> named, expires_at |-> expires_at]
                                    ELSE tr.tasks[k]
      /\ DOMAIN new.deadlines = DOMAIN tr.deadlines \cup {expires_at}
      /\ \A d \in DOMAIN new.deadlines :
           new.deadlines[d] = IF d = expires_at THEN ids \cup {id} ELSE tr.deadlines[d]
  BY <1>1 DEF put
<1>3. IndexesAgree(new)
  <2>0. IndexesAgree(tr)
    BY DEF IsTracker
  <2>1. \A k \in DOMAIN new.tasks :
          /\ new.tasks[k].expires_at \in DOMAIN new.deadlines
          /\ k \in new.deadlines[new.tasks[k].expires_at]
    BY <1>2, <2>0 DEF IndexesAgree
  <2>2. \A d \in DOMAIN new.deadlines :
          /\ new.deadlines[d] # {}
          /\ \A k \in new.deadlines[d] :
               k \in DOMAIN new.tasks /\ new.tasks[k].expires_at = d
    <3> TAKE d \in DOMAIN new.deadlines
    <3>1. CASE d # expires_at
      BY <1>2, <2>0, <3>1 DEF IndexesAgree
    <3>2. CASE d = expires_at
      <4>1. new.deadlines[d] = ids \cup {id}
        BY <1>2, <3>2
      <4>2. \A k \in ids : k \in DOMAIN tr.tasks /\ tr.tasks[k].expires_at = d
        BY <2>0, <3>2 DEF IndexesAgree
      <4> HIDE DEF ids
      <4> QED BY <1>2, <3>2, <4>1, <4>2
    <3> QED BY <3>1, <3>2
  <2> QED BY <2>1, <2>2 DEF IndexesAgree
<1>4. /\ DOMAIN new.tasks \subseteq Ids
      /\ \A t \in DOMAIN new.tasks : new.tasks[t] \in Entry
      /\ \A d \in DOMAIN new.deadlines : d \in Nat /\ new.deadlines[d] \subseteq Ids
  BY <1>2 DEF IsTracker, Entry
<1> QED BY <1>1, <1>2, <1>3, <1>4 DEF IsTracker, new

\* ExpiryTracker::upsert moves the id to its new deadline.
LEMMA UpsertIs ==
  ASSUME NEW tr, IsTracker(tr), NEW id \in Ids, NEW named \in BOOLEAN,
         NEW heartbeat_at \in Nat, NEW timeout \in Nat
  PROVE  /\ IsTracker(upsert(tr, id, named, heartbeat_at, timeout))
         /\ DOMAIN upsert(tr, id, named, heartbeat_at, timeout).tasks
              = DOMAIN tr.tasks \cup {id}
<1> DEFINE known == id \in DOMAIN tr.tasks /\ tr.tasks[id].named
<1>1. /\ IsTracker(remove(tr, id))
      /\ DOMAIN remove(tr, id).tasks = DOMAIN tr.tasks \ {id}
  BY RemoveIs
<1>2. (named \/ known) \in BOOLEAN
  OBVIOUS
<1>3. upsert(tr, id, named, heartbeat_at, timeout)
        = insert(remove(tr, id), id, named \/ known, heartbeat_at + timeout)
  BY DEF upsert
<1>4. heartbeat_at + timeout \in Nat
  OBVIOUS
<1> DEFINE new(n) == insert(remove(tr, id), id, n, heartbeat_at + timeout)
<1>5. \A n \in BOOLEAN : /\ IsTracker(new(n))
                         /\ DOMAIN new(n).tasks = DOMAIN tr.tasks \cup {id}
  BY <1>1, <1>4, InsertIs
<1> HIDE DEF known, new
<1>6. /\ IsTracker(new(named \/ known))
      /\ DOMAIN new(named \/ known).tasks = DOMAIN tr.tasks \cup {id}
  BY <1>2, <1>5, Zenon
<1> QED BY <1>3, <1>6, Zenon DEF new

\* ExpiryTracker::defer, of an id that pop_due took out.
LEMMA DeferIs ==
  ASSUME NEW tr, IsTracker(tr), NEW id \in Ids, id \notin DOMAIN tr.tasks,
         NEW task \in Entry, NEW now \in Nat
  PROVE  IsTracker(defer(tr, id, task, now))
  BY InsertIs DEF defer, Entry

\* ExpiryTracker::pop_due takes whole buckets and exactly their tasks.
LEMMA PopIs ==
  ASSUME NEW tr, IsTracker(tr), NEW now \in Nat
  PROVE  /\ IsTracker(pop_due(tr, now))
         /\ DOMAIN pop_due(tr, now).tasks \cap DOMAIN popped(tr, now) = {}
         /\ DOMAIN popped(tr, now) \subseteq Ids
         /\ \A t \in DOMAIN popped(tr, now) : popped(tr, now)[t] \in Entry
<1> DEFINE new == pop_due(tr, now)
           out == due_ids(tr, now)
<1>1. /\ new.tasks = [k \in DOMAIN tr.tasks \ out |-> tr.tasks[k]]
      /\ new.deadlines = [d \in {x \in DOMAIN tr.deadlines : x > now} |-> tr.deadlines[d]]
      /\ new.pending_may_exist = tr.pending_may_exist
      /\ new = [tasks |-> new.tasks, deadlines |-> new.deadlines,
                pending_may_exist |-> new.pending_may_exist]
  <2>1. tr = [tasks |-> tr.tasks, deadlines |-> tr.deadlines,
              pending_may_exist |-> tr.pending_may_exist]
    BY DEF IsTracker
  <2>2. new = [tr EXCEPT
          !.tasks = [k \in DOMAIN tr.tasks \ out |-> tr.tasks[k]],
          !.deadlines = [d \in {x \in DOMAIN tr.deadlines : x > now} |-> tr.deadlines[d]]]
    BY DEF pop_due, Restrict
  <2> HIDE DEF new, out
  <2> QED BY <2>1, <2>2
<1>2. \A k : k \in out <=> \E d \in DOMAIN tr.deadlines : d <= now /\ k \in tr.deadlines[d]
  BY DEF due_ids
<1> HIDE DEF new, out
<1>3. IndexesAgree(new)
  <2>1. \A k \in DOMAIN new.tasks :
          /\ new.tasks[k].expires_at \in DOMAIN new.deadlines
          /\ k \in new.deadlines[new.tasks[k].expires_at]
    BY <1>1, <1>2 DEF IsTracker, IndexesAgree, Entry
  <2>2. \A d \in DOMAIN new.deadlines :
          /\ new.deadlines[d] # {}
          /\ \A k \in new.deadlines[d] :
               k \in DOMAIN new.tasks /\ new.tasks[k].expires_at = d
    BY <1>1, <1>2 DEF IsTracker, IndexesAgree, Entry
  <2> QED BY <2>1, <2>2 DEF IndexesAgree
<1>4. IsTracker(new)
  BY <1>1, <1>3 DEF IsTracker
<1>5. popped(tr, now) = [k \in out \cap DOMAIN tr.tasks |-> tr.tasks[k]]
  BY DEF popped, Restrict, out
<1> QED BY <1>1, <1>4, <1>5 DEF IsTracker, new

\* The document of a claim is tracked from its claim on.
LEMMA ScheduleIs ==
  ASSUME NEW tr, IsTracker(tr), NEW id \in Ids, NEW status, NEW heartbeat_at \in Nat
  PROVE  /\ IsTracker(schedule_expiration_from_task(tr, id, status, heartbeat_at))
         /\ DOMAIN schedule_expiration_from_task(tr, id, status, heartbeat_at).tasks
              \subseteq DOMAIN tr.tasks \cup {id}
<1> DEFINE new == schedule_expiration_from_task(tr, id, status, heartbeat_at)
<1>1. CASE status = "running"
  <2>1. SwitchTimeout[id] \in Nat
    BY TimeoutAssumption
  <2>2. new = upsert(tr, id, TRUE, heartbeat_at, SwitchTimeout[id])
    BY <1>1 DEF schedule_expiration_from_task
  <2> HIDE DEF new
  <2> DEFINE tracked(n) == upsert(tr, id, n, heartbeat_at, SwitchTimeout[id])
  <2>a. \A n \in BOOLEAN : /\ IsTracker(tracked(n))
                           /\ DOMAIN tracked(n).tasks = DOMAIN tr.tasks \cup {id}
    BY <2>1, UpsertIs
  <2> HIDE DEF tracked
  <2>b. TRUE \in BOOLEAN
    OBVIOUS
  <2>c. IsTracker(tracked(TRUE)) /\ DOMAIN tracked(TRUE).tasks = DOMAIN tr.tasks \cup {id}
    BY <2>a, <2>b, Zenon
  <2>3. IsTracker(new) /\ DOMAIN new.tasks = DOMAIN tr.tasks \cup {id}
    BY <2>2, <2>c, Zenon DEF tracked
  <2> QED BY <2>3 DEF new
<1>2. CASE status = "pending"
  <2>1. new = set_pending_may_exist(tr, TRUE)
    BY <1>2 DEF schedule_expiration_from_task, mark_pending
  <2> HIDE DEF new
  <2>2. IsTracker(new) /\ new.tasks = tr.tasks
    BY <2>1, HintIs
  <2> QED BY <2>2 DEF new
<1>3. CASE status \notin {"running", "pending"}
  <2>1. new = remove(tr, id)
    BY <1>3 DEF schedule_expiration_from_task
  <2> HIDE DEF new
  <2>2. IsTracker(new) /\ DOMAIN new.tasks = DOMAIN tr.tasks \ {id}
    BY <2>1, RemoveIs
  <2> QED BY <2>2 DEF new
<1> QED BY <1>1, <1>2, <1>3

\* A scan builds both indexes from the documents it read.
LEMMA RefreshIs ==
  ASSUME NEW tr, IsTracker(tr), NEW ids \in SUBSET Ids,
         NEW heartbeat_at \in [Ids -> Nat]
  PROVE  IsTracker(refresh_running_expirations(tr, ids, heartbeat_at))
<1> DEFINE new  == refresh_running_expirations(tr, ids, heartbeat_at)
           e(t) == heartbeat_at[t] + SwitchTimeout[t]
<1>1. tr = [tasks |-> tr.tasks, deadlines |-> tr.deadlines,
            pending_may_exist |-> tr.pending_may_exist]
  BY DEF IsTracker
<1>2. /\ clear_running(tr) = [tr EXCEPT !.tasks = EmptyMap, !.deadlines = EmptyMap]
  BY DEF clear_running
<1>a. DOMAIN clear_running(tr) = {"tasks", "deadlines", "pending_may_exist"}
  BY <1>1, <1>2
<1>b. clear_running(tr).pending_may_exist = tr.pending_may_exist
  BY <1>1, <1>2
<1>3. new = [clear_running(tr) EXCEPT
        !.tasks = [t \in ids |-> [named |-> TRUE, expires_at |-> e(t)]],
        !.deadlines = [d \in {e(t) : t \in ids} |-> {t \in ids : e(t) = d}]]
  BY DEF refresh_running_expirations
<1>4. \A t \in ids : e(t) \in Nat
  BY TimeoutAssumption
<1> DEFINE tasks == [t \in ids |-> [named |-> TRUE, expires_at |-> e(t)]]
           deadlines == [d \in {e(t) : t \in ids} |-> {t \in ids : e(t) = d}]
<1>c. new = [clear_running(tr) EXCEPT !.tasks = tasks, !.deadlines = deadlines]
  BY <1>3
<1> HIDE DEF new, e, tasks, deadlines
<1>5. /\ new.tasks = tasks /\ new.deadlines = deadlines
      /\ new.pending_may_exist = tr.pending_may_exist
      /\ new = [tasks |-> new.tasks, deadlines |-> new.deadlines,
                pending_may_exist |-> new.pending_may_exist]
  BY <1>a, <1>b, <1>c
<1>6. IndexesAgree(new)
  BY <1>5 DEF IndexesAgree, tasks, deadlines
<1>7. IsTracker(new)
  <2>1. /\ DOMAIN new.tasks \subseteq Ids
        /\ \A t \in DOMAIN new.tasks : new.tasks[t] \in Entry
    BY <1>4, <1>5 DEF Entry, tasks
  <2>2. \A d \in DOMAIN new.deadlines : d \in Nat /\ new.deadlines[d] \subseteq Ids
    BY <1>4, <1>5 DEF deadlines
  <2> QED BY <1>5, <1>6, <2>1, <2>2 DEF IsTracker
<1> QED BY <1>7 DEF new

\* A change event, whichever fields it carries.
LEMMA ApplyIs ==
  ASSUME NEW tr, IsTracker(tr), NEW event \in ChangeEvent
  PROVE  IsTracker(apply_change_event_to_expirations(tr, event))
<1> USE DEF apply_change_event_to_expirations
<1>0. /\ event.id \in Ids /\ event.heartbeat_at \in Nat
      /\ expiration_timeout(event) \in Nat
      /\ event.operation \in {"insert", "update", "delete"}
  BY TimeoutAssumption DEF ChangeEvent, expiration_timeout, NoTimeout
<1>1. CASE event.operation = "insert"
  BY <1>0, <1>1, ScheduleIs
<1>2. CASE event.operation = "delete"
  BY <1>0, <1>2, RemoveIs
<1>3. CASE event.operation = "update" /\ event.status = "pending"
  BY <1>3, HintIs DEF mark_pending
<1>4. CASE event.operation = "update" /\ event.status = "finished"
  BY <1>0, <1>4, RemoveIs
<1>5. CASE event.operation = "update" /\ event.status \notin {"pending", "finished"}
  BY <1>0, <1>5, UpsertIs
<1> QED BY <1>0, <1>1, <1>2, <1>3, <1>4, <1>5

\* Everything grows older by one tick; buckets may merge at 0.
LEMMA AgedIs ==
  ASSUME NEW tr, IsTracker(tr), NEW new,
         new = [tr EXCEPT
           !.tasks = aged(@),
           !.deadlines = [d \in {older(x) : x \in DOMAIN tr.deadlines} |->
                            UNION {tr.deadlines[x] :
                              x \in {y \in DOMAIN tr.deadlines : older(y) = d}}]]
  PROVE  /\ IsTracker(new) /\ DOMAIN new.tasks = DOMAIN tr.tasks
         /\ \A k \in DOMAIN tr.tasks :
              new.tasks[k].expires_at = older(tr.tasks[k].expires_at)
<1>1. tr = [tasks |-> tr.tasks, deadlines |-> tr.deadlines,
            pending_may_exist |-> tr.pending_may_exist]
  BY DEF IsTracker
<1> DEFINE deadlines == [d \in {older(x) : x \in DOMAIN tr.deadlines} |->
                           UNION {tr.deadlines[x] :
                             x \in {y \in DOMAIN tr.deadlines : older(y) = d}}]
<1>a. new = [tr EXCEPT !.tasks = aged(tr.tasks), !.deadlines = deadlines]
  OBVIOUS
<1> HIDE DEF deadlines
<1>2. /\ new.tasks = aged(tr.tasks) /\ new.deadlines = deadlines
      /\ new.pending_may_exist = tr.pending_may_exist
      /\ new = [tasks |-> new.tasks, deadlines |-> new.deadlines,
                pending_may_exist |-> new.pending_may_exist]
  BY <1>1, <1>a
<1>3. /\ DOMAIN new.tasks = DOMAIN tr.tasks
      /\ \A k \in DOMAIN tr.tasks : /\ new.tasks[k] \in Entry
                                    /\ new.tasks[k].expires_at = older(tr.tasks[k].expires_at)
  <2>1. DOMAIN new.tasks = DOMAIN tr.tasks
    BY <1>2 DEF aged
  <2>2. ASSUME NEW k \in DOMAIN tr.tasks
        PROVE  /\ new.tasks[k] \in Entry
               /\ new.tasks[k].expires_at = older(tr.tasks[k].expires_at)
    <3>1. new.tasks[k] = [tr.tasks[k] EXCEPT !.expires_at = older(@)]
      BY <1>2 DEF aged
    <3>2. tr.tasks[k] \in Entry
      BY DEF IsTracker
    <3>3. older(tr.tasks[k].expires_at) \in Nat
      BY <3>2 DEF older, Entry
    <3> QED BY <3>1, <3>2, <3>3 DEF Entry
  <2> QED BY <2>1, <2>2
<1>4. \A d : d \in DOMAIN new.deadlines <=> \E x \in DOMAIN tr.deadlines : older(x) = d
  BY <1>2 DEF deadlines
<1>5. \A d \in DOMAIN new.deadlines : \A k :
        k \in new.deadlines[d] <=>
          \E x \in DOMAIN tr.deadlines : older(x) = d /\ k \in tr.deadlines[x]
  <2> SUFFICES ASSUME NEW d \in DOMAIN deadlines, NEW k
               PROVE  k \in deadlines[d] <=>
                        \E x \in DOMAIN tr.deadlines : older(x) = d /\ k \in tr.deadlines[x]
    BY <1>2
  <2>1. deadlines[d] = UNION {tr.deadlines[x] :
                              x \in {y \in DOMAIN tr.deadlines : older(y) = d}}
    BY DEF deadlines
  <2> QED BY <2>1
<1>6. \A x \in DOMAIN tr.deadlines : older(x) \in Nat
  BY DEF older, IsTracker
<1>7. IndexesAgree(new)
  <2>1. \A k \in DOMAIN new.tasks :
          /\ new.tasks[k].expires_at \in DOMAIN new.deadlines
          /\ k \in new.deadlines[new.tasks[k].expires_at]
    BY <1>3, <1>4, <1>5 DEF IsTracker, IndexesAgree
  <2>2. \A d \in DOMAIN new.deadlines :
          /\ new.deadlines[d] # {}
          /\ \A k \in new.deadlines[d] :
               k \in DOMAIN new.tasks /\ new.tasks[k].expires_at = d
    <3> TAKE d \in DOMAIN new.deadlines
    <3>1. new.deadlines[d] # {}
      <4>1. PICK x \in DOMAIN tr.deadlines : older(x) = d
        BY <1>4
      <4>2. PICK k : k \in tr.deadlines[x]
        BY DEF IsTracker, IndexesAgree
      <4> QED BY <1>5, <4>1, <4>2
    <3>2. \A k \in new.deadlines[d] :
            k \in DOMAIN new.tasks /\ new.tasks[k].expires_at = d
      BY <1>3, <1>5 DEF IsTracker, IndexesAgree
    <3> QED BY <3>1, <3>2
  <2> QED BY <2>1, <2>2 DEF IndexesAgree
<1>8. \A d \in DOMAIN new.deadlines : d \in Nat /\ new.deadlines[d] \subseteq Ids
  BY <1>4, <1>5, <1>6 DEF IsTracker
<1>9. /\ new = [tasks |-> new.tasks, deadlines |-> new.deadlines,
                pending_may_exist |-> new.pending_may_exist]
      /\ new.pending_may_exist \in BOOLEAN
  BY <1>2 DEF IsTracker
<1> QED BY <1>3, <1>7, <1>8, <1>9 DEF IsTracker

-----------------------------------------------------------------------------
(* The inductive invariant, in the groups of variables it is about         *)

DocType == [status : {"absent", "pending", "running", "finished", "deleted"},
            owner : {"none", "me", "peer"}, heartbeat_at : 0 .. Now]

Documents == /\ doc \in [Ids -> DocType]
             /\ alive \in BOOLEAN
             /\ resets \in 0 .. MaxResets
Events    == connected \in BOOLEAN /\ stream \in Seq(ChangeEvent)
Counters  == /\ faults \in 0 .. MaxFaults /\ stop \in BOOLEAN
             /\ in_flight \subseteq Ids /\ unjoined \in Nat

\* Popped entries exist only inside pump_expired_tasks, and none of them is the
\* target of the claim under way, which is for a single task; the select awaits
\* no claim.
Position == /\ pc \in Phases
            /\ trigger \in {"reconnect", "periodic"}
            /\ claim \in [arm : Arms, targets : SUBSET Ids, excluded : SUBSET Ids]
            /\ DOMAIN due \subseteq Ids
            /\ \A t \in DOMAIN due : due[t] \in Entry
            /\ pc # "expired" => DOMAIN due = {}
            /\ pc = "select" => claim = NoClaim
            /\ DOMAIN due \cap claim.targets = {}
            /\ pc = "expired" =>
                 \/ claim = NoClaim
                 \/ claim.arm = "expired" /\ \E t \in Ids : claim.targets = {t}

Tracking == IsTracker(tracker) /\ DOMAIN due \cap DOMAIN tracker.tasks = {}

LoopInvariant == Documents /\ Events /\ Counters /\ Position /\ Tracking

\* What the invariant is for.
LEMMA InvariantGives == LoopInvariant => TypeOK /\ TrackerConsistent
  BY DEF LoopInvariant, Documents, Events, Counters, Position, Tracking, DocType,
         TypeOK, TrackerConsistent, IsTracker

-----------------------------------------------------------------------------
(* What the helpers of the actions keep                                    *)

\* One document and at most one event change in a write.
LEMMA WriteKeeps ==
  ASSUME Documents, Events, NEW t \in Ids, NEW d \in DocType,
         NEW event \in ChangeEvent, write(t, d, event)
  PROVE  doc' \in [Ids -> DocType] /\ Events'
  BY DEF Documents, Events, write

\* A claim writes a legal document and event.
LEMMA ClaimKeeps ==
  ASSUME Documents, Events, NEW t \in Ids, NEW owner \in {"me", "peer"},
         NEW timeout \in Nat, claim_by(t, owner, timeout)
  PROVE  doc' \in [Ids -> DocType] /\ Events'
<1>1. Claimed(owner) \in DocType
  BY LoopAssumption DEF Claimed, DocType
<1>2. Event("update", t, "running", Now, timeout) \in ChangeEvent
  BY LoopAssumption DEF Event, ChangeEvent
<1> QED BY <1>1, <1>2, WriteKeeps DEF claim_by

\* So does a heartbeat.
LEMMA BeatKeeps ==
  ASSUME Documents, Events, NEW t \in Ids, beat_by(t)
  PROVE  doc' \in [Ids -> DocType] /\ Events'
<1>1. [doc[t] EXCEPT !.heartbeat_at = Now] \in DocType
  BY LoopAssumption DEF Documents, DocType
<1>2. Event("update", t, "none", Now, NoTimeout) \in ChangeEvent
  BY LoopAssumption DEF Event, ChangeEvent
<1> QED BY <1>1, <1>2, WriteKeeps DEF beat_by

\* And so does the final write.
LEMMA FinishKeeps ==
  ASSUME Documents, Events, NEW t \in Ids, finish_of(t)
  PROVE  doc' \in [Ids -> DocType] /\ Events'
<1>1. NoDoc("finished") \in DocType
  BY LoopAssumption DEF NoDoc, DocType
<1>2. Event("update", t, "finished", 0, NoTimeout) \in ChangeEvent
  BY DEF Event, ChangeEvent
<1> QED BY <1>1, <1>2, WriteKeeps DEF finish_of

\* Wherever the loop goes next, the popped entries are dealt with.
LEMMA TopKeeps ==
  ASSUME top
  PROVE  Position' /\ DOMAIN due' = {}
<1>1. /\ pc' \in {"select", "open"} /\ trigger' = "reconnect"
      /\ claim' = NoClaim /\ due' = EmptyMap
  BY DEF top
<1>2. NoClaim \in [arm : Arms, targets : SUBSET Ids, excluded : SUBSET Ids]
  BY DEF NoClaim, Arms
<1>3. DOMAIN EmptyMap = {}
  BY DEF EmptyMap
<1> QED BY <1>1, <1>2, <1>3 DEF Position, Phases

\* A turn of pump_available_tasks, with or without a permit.
LEMMA PumpKeeps ==
  ASSUME NEW arm \in Arms, in_flight' \subseteq Ids, pump(arm)
  PROVE  Position' /\ DOMAIN due' = {}
<1>1. CASE top
  BY <1>1, TopKeeps
<1>2. CASE ~top
  <2>1. /\ pc' = "pump" /\ trigger' = "reconnect" /\ due' = EmptyMap
        /\ claim' = [arm |-> arm, targets |-> Ids, excluded |-> in_flight']
    BY <1>2 DEF pump
  <2>2. DOMAIN EmptyMap = {}
    BY DEF EmptyMap
  <2> QED BY <2>1, <2>2 DEF Position, Phases
<1> QED BY <1>1, <1>2

\* Faults stay within their bound.
LEMMA FaultKeeps ==
  ASSUME Counters, fault
  PROVE  faults' \in 0 .. MaxFaults
  BY LoopAssumption DEF Counters, fault

\* A won claim tracks its task and registers it.
LEMMA WonKeeps ==
  ASSUME LoopInvariant, NEW t \in Ids, won(t)
  PROVE  /\ doc' \in [Ids -> DocType] /\ Events'
         /\ in_flight' \subseteq Ids
         /\ IsTracker(tracker')
         /\ DOMAIN tracker'.tasks \subseteq DOMAIN tracker.tasks \cup {t}
         /\ t \in claim.targets
<1>1. doc' \in [Ids -> DocType] /\ Events'
  BY TimeoutAssumption, ClaimKeeps DEF LoopInvariant, won
<1>2. Now \in Nat /\ IsTracker(tracker)
  BY LoopAssumption DEF LoopInvariant, Tracking
<1>3. IsTracker(tracker') /\ DOMAIN tracker'.tasks \subseteq DOMAIN tracker.tasks \cup {t}
  BY <1>2, ScheduleIs DEF won
<1> QED BY <1>1, <1>3 DEF won, claim_filter, LoopInvariant, Counters

\* A failed claim, applied or not.
LEMMA FailedClaimKeeps ==
  ASSUME LoopInvariant,
         \/ UNCHANGED <<doc, events>>
         \/ \E t \in Ids : claim_filter(t) /\ claim_by(t, "me", OwnTimeout)
  PROVE  doc' \in [Ids -> DocType] /\ Events'
<1>1. CASE UNCHANGED <<doc, events>>
  BY <1>1 DEF LoopInvariant, Documents, Events, events
<1>2. CASE \E t \in Ids : claim_filter(t) /\ claim_by(t, "me", OwnTimeout)
  BY <1>2, TimeoutAssumption, ClaimKeeps DEF LoopInvariant
<1> QED BY <1>1, <1>2

-----------------------------------------------------------------------------
(* The actions                                                             *)

\* Unchanged variables keep their part of the invariant.
LEMMA Same ==
  /\ Documents /\ UNCHANGED collection => Documents'
  /\ Events /\ UNCHANGED events => Events'
  /\ Counters /\ UNCHANGED <<faults, tasks_run, stop>> => Counters'
  /\ Position /\ UNCHANGED position => Position'
  /\ Tracking /\ UNCHANGED <<tracker, due>> => Tracking'
  BY DEF Documents, Events, Counters, Position, Tracking, collection, events,
         tasks_run, position

\* No popped entry is left, so the tracker cannot hold one.
LEMMA TrackingAfter ==
  ASSUME IsTracker(tracker'), DOMAIN due' = {}
  PROVE  Tracking'
  BY DEF Tracking

\* Opening the stream, scanning and probing keep the invariant.
LEMMA StartKeeps ==
  ASSUME LoopInvariant,
         \/ open_change_stream \/ open_fails \/ open_unsupported
         \/ scan \/ scan_fails \/ probe \/ probe_fails
  PROVE  LoopInvariant'
<1> USE DEF LoopInvariant
<1>1. CASE open_change_stream
  <2>1. Events'
    BY <1>1 DEF open_change_stream, Events
  <2>2. Position'
    BY <1>1 DEF open_change_stream, Position, Phases
  <2> QED BY <1>1, <2>1, <2>2, Same DEF open_change_stream
<1>2. CASE open_fails
  <2>1. Position'
    BY <1>2 DEF open_fails, Position, Phases
  <2> QED BY <1>2, <2>1, Same DEF open_fails
<1>3. CASE open_unsupported
  <2>1. Position'
    BY <1>3 DEF open_unsupported, Position, Phases
  <2>2. Counters'
    BY <1>3, FaultKeeps DEF open_unsupported, Counters
  <2> QED BY <1>3, <2>1, <2>2, Same DEF open_unsupported
<1>4. ASSUME pc = "scan", pc' = "probe", UNCHANGED <<trigger, claim, due>>,
             \/ UNCHANGED tracker
             \/ \E ids \in SUBSET {t \in Ids : doc[t].status = "running"} :
                  tracker' = refresh_running_expirations(
                               tracker, ids, [t \in Ids |-> doc[t].heartbeat_at])
      PROVE  Position' /\ Tracking'
  <2>1. Position' /\ DOMAIN due' = {}
    BY <1>4 DEF Position, Phases
  <2>2. [t \in Ids |-> doc[t].heartbeat_at] \in [Ids -> Nat]
    BY LoopAssumption DEF Documents, DocType
  <2>3. IsTracker(tracker')
    BY <1>4, <2>2, RefreshIs DEF Tracking
  <2> QED BY <2>1, <2>3, TrackingAfter
<1>5. CASE scan
  BY <1>4, <1>5, Same DEF scan
<1>6. CASE scan_fails
  <2>1. Counters'
    BY <1>6, FaultKeeps DEF scan_fails, Counters, tasks_run
  <2> QED BY <1>4, <1>6, <2>1, Same DEF scan_fails
<1>7. ASSUME pump_of_trigger, UNCHANGED in_flight
      PROVE  Position' /\ DOMAIN due' = {}
  <2>1. in_flight' \subseteq Ids
    BY <1>7 DEF Counters
  <2> QED BY <1>7, <2>1, PumpKeeps DEF pump_of_trigger, Arms
<1>8. CASE probe
  <2>1. Position' /\ DOMAIN due' = {}
    BY <1>7, <1>8 DEF probe, tasks_run
  <2>2. IsTracker(tracker')
    <3> DEFINE found == \E t \in Ids : doc[t].status = "pending"
    <3>1. found \in BOOLEAN
      OBVIOUS
    <3>2. tracker' = set_pending_may_exist(tracker, found)
      BY <1>8 DEF probe
    <3>3. \A b \in BOOLEAN : IsTracker(set_pending_may_exist(tracker, b))
      BY HintIs DEF Tracking
    <3> HIDE DEF found
    <3> QED BY <3>1, <3>2, <3>3, Zenon
  <2>3. Tracking'
    BY <2>1, <2>2, TrackingAfter
  <2> QED BY <1>8, <2>1, <2>3, Same DEF probe
<1>9. CASE probe_fails
  <2>1. Position' /\ DOMAIN due' = {}
    BY <1>7, <1>9 DEF probe_fails, tasks_run
  <2>2. Counters'
    BY <1>9, FaultKeeps DEF probe_fails, Counters, tasks_run
  <2>3. Tracking'
    BY <1>9, <2>1, TrackingAfter DEF probe_fails, Tracking
  <2> QED BY <1>9, <2>1, <2>2, <2>3, Same DEF probe_fails
<1> QED BY <1>1, <1>2, <1>3, <1>5, <1>6, <1>8, <1>9

\* So do the steps of pump_available_tasks.
LEMMA PumpStepKeeps ==
  ASSUME LoopInvariant,
         \/ \E t \in Ids : pump_claims(t)
         \/ pump_tries_own \/ pump_misses \/ pump_fails
  PROVE  LoopInvariant'
<1> USE DEF LoopInvariant
<1>1. ASSUME NEW t \in Ids, pump_claims(t)
      PROVE  LoopInvariant'
  <2>1. /\ doc' \in [Ids -> DocType] /\ Events' /\ in_flight' \subseteq Ids
        /\ IsTracker(tracker')
    BY <1>1, WonKeeps DEF pump_claims
  <2>2. Position' /\ DOMAIN due' = {}
    BY <1>1, <2>1, PumpKeeps DEF pump_claims, Arms
  <2>3. Documents' /\ Counters'
    BY <1>1, <2>1 DEF pump_claims, Documents, Counters
  <2> QED BY <2>1, <2>2, <2>3, TrackingAfter
<1>2. CASE pump_tries_own
  <2>1. Position'
    BY <1>2 DEF pump_tries_own, Position, Arms
  <2> QED BY <1>2, <2>1, Same DEF pump_tries_own
<1>3. CASE pump_misses
  <2>1. Position' /\ DOMAIN due' = {}
    BY <1>3, TopKeeps DEF pump_misses
  <2>2. IsTracker(tracker')
    BY <1>3, HintIs DEF pump_misses, Tracking
  <2> QED BY <1>3, <2>1, <2>2, TrackingAfter, Same DEF pump_misses
<1>4. CASE pump_fails
  <2>1. doc' \in [Ids -> DocType] /\ Events'
    BY <1>4, FailedClaimKeeps DEF pump_fails
  <2>2. Position' /\ DOMAIN due' = {}
    BY <1>4, TopKeeps DEF pump_fails
  <2>3. Documents' /\ Counters'
    BY <1>4, <2>1, FaultKeeps DEF pump_fails, Documents, Counters, tasks_run
  <2>4. Tracking'
    BY <1>4, <2>2, TrackingAfter DEF pump_fails, Tracking
  <2> QED BY <2>1, <2>2, <2>3, <2>4
<1> QED BY <1>1, <1>2, <1>3, <1>4

\* A popped id is in neither map, so that defer enters it once; the target of a
\* claim is no longer among the popped ones.
LEMMA ExpiredKeeps ==
  ASSUME LoopInvariant,
         \/ \E t \in Ids : \/ expired_skips(t) \/ expired_defers(t)
                           \/ expired_attempts(t) \/ expired_claims(t)
         \/ expired_misses \/ expired_fails \/ expired_done
  PROVE  LoopInvariant'
<1> USE DEF LoopInvariant
<1>0. NoClaim \in [arm : Arms, targets : SUBSET Ids, excluded : SUBSET Ids]
      /\ NoClaim.targets = {}
  BY DEF NoClaim, Arms
<1>1. ASSUME NEW t \in Ids, expired_skips(t)
      PROVE  LoopInvariant'
  <2>1. due' = [k \in DOMAIN due \ {t} |-> due[k]]
    BY <1>1 DEF expired_skips, without, Restrict
  <2>2. Position' /\ Tracking'
    BY <1>1, <2>1 DEF expired_skips, next_due, Position, Tracking
  <2> QED BY <1>1, <2>2, Same DEF expired_skips
<1>2. ASSUME NEW t \in Ids, expired_defers(t)
      PROVE  LoopInvariant'
  <2>1. Position' /\ DOMAIN due' = {}
    BY <1>2, TopKeeps DEF expired_defers
  <2>2. t \in DOMAIN due /\ due[t] \in Entry /\ t \notin DOMAIN tracker.tasks
    BY <1>2 DEF expired_defers, next_due, Position, Tracking
  <2>3. IsTracker(tracker')
    BY <1>2, <2>2, DeferIs, LoopAssumption DEF expired_defers, Tracking
  <2> QED BY <1>2, <2>1, <2>3, TrackingAfter, Same DEF expired_defers
<1>3. ASSUME NEW t \in Ids, expired_attempts(t)
      PROVE  LoopInvariant'
  <2>1. /\ due' = [k \in DOMAIN due \ {t} |-> due[k]]
        /\ claim' = [arm |-> "expired", targets |-> {t}, excluded |-> in_flight]
        /\ pc = "expired" /\ UNCHANGED <<pc, trigger, tracker>>
    BY <1>3 DEF expired_attempts, claim_expired_task_by_id, next_due, without, Restrict
  <2>2. Position' /\ Tracking'
    BY <2>1 DEF Position, Tracking, Counters, Arms
  <2> QED BY <1>3, <2>2, Same DEF expired_attempts
<1>4. ASSUME NEW t \in Ids, expired_claims(t)
      PROVE  LoopInvariant'
  <2>1. /\ doc' \in [Ids -> DocType] /\ Events' /\ in_flight' \subseteq Ids
        /\ IsTracker(tracker')
        /\ DOMAIN tracker'.tasks \subseteq DOMAIN tracker.tasks \cup {t}
        /\ t \in claim.targets
    BY <1>4, WonKeeps DEF expired_claims
  <2>2. Position'
    BY <1>0, <1>4 DEF expired_claims, Position
  <2>3. Tracking'
    BY <1>4, <2>1 DEF expired_claims, Position, Tracking
  <2>4. Documents' /\ Counters'
    BY <1>4, <2>1 DEF expired_claims, Documents, Counters
  <2> QED BY <2>1, <2>2, <2>3, <2>4
<1>5. CASE expired_misses
  <2>1. Position'
    BY <1>0, <1>5 DEF expired_misses, Position
  <2> QED BY <1>5, <2>1, Same DEF expired_misses
<1>6. CASE expired_fails
  <2>1. doc' \in [Ids -> DocType] /\ Events'
    BY <1>6, FailedClaimKeeps DEF expired_fails
  <2>2. Position'
    BY <1>0, <1>6 DEF expired_fails, Position
  <2>3. Documents' /\ Counters'
    BY <1>6, <2>1, FaultKeeps DEF expired_fails, Documents, Counters, tasks_run
  <2> QED BY <1>6, <2>1, <2>2, <2>3, Same DEF expired_fails
<1>7. CASE expired_done
  <2>1. Position' /\ DOMAIN due' = {}
    BY <1>7, TopKeeps DEF expired_done
  <2>2. Tracking'
    BY <1>7, <2>1, TrackingAfter DEF expired_done, Tracking
  <2> QED BY <1>7, <2>1, <2>2, Same DEF expired_done
<1> QED BY <1>1, <1>2, <1>3, <1>4, <1>5, <1>6, <1>7

\* A lost or closed change stream is a legal one.
LEMMA DisconnectKeeps ==
  ASSUME connected' = FALSE, stream' = <<>>
  PROVE  Events'
<1>1. FALSE \in BOOLEAN /\ <<>> \in Seq(ChangeEvent)
  OBVIOUS
<1>2. connected' \in BOOLEAN
  BY <1>1
<1> QED BY <1>1, <1>2 DEF Events

\* The arms of the select, and the drain after the loop.
LEMMA SelectKeeps ==
  ASSUME LoopInvariant, Select \/ drain
  PROVE  LoopInvariant'
<1> USE DEF LoopInvariant
<1>1. CASE select_stop
  <2>1. Events'
    BY <1>1, DisconnectKeeps DEF select_stop
  <2>2. Position'
    BY <1>1 DEF select_stop, Position, Phases
  <2> QED BY <1>1, <2>1, <2>2, Same DEF select_stop
<1>2. CASE select_timer
  <2>1. /\ IsTracker(tracker')
        /\ DOMAIN tracker'.tasks \cap DOMAIN due' = {}
        /\ DOMAIN due' \subseteq Ids
        /\ \A t \in DOMAIN due' : due'[t] \in Entry
    BY <1>2, PopIs, LoopAssumption DEF select_timer, Tracking
  <2>2. Position'
    BY <1>2, <2>1 DEF select_timer, Position, Phases, NoClaim
  <2>3. Tracking'
    BY <2>1 DEF Tracking
  <2> QED BY <1>2, <2>2, <2>3, Same DEF select_timer
<1>3. CASE select_ticker
  <2>1. Position'
    BY <1>3 DEF select_ticker, Position, Phases
  <2> QED BY <1>3, <2>1, Same DEF select_ticker
<1>4. CASE select_join
  <2>1. Counters'
    BY <1>4 DEF select_join, Counters
  <2>2. Position' /\ DOMAIN due' = {}
    BY <1>4, <2>1, PumpKeeps DEF select_join, Counters, Arms
  <2>3. Tracking'
    BY <1>4, <2>2, TrackingAfter DEF select_join, Tracking
  <2> QED BY <1>4, <2>1, <2>2, <2>3, Same DEF select_join
<1>5. CASE select_event
  <2>1. Head(stream) \in ChangeEvent /\ Events'
    BY <1>5 DEF select_event, Events
  <2>2. IsTracker(tracker')
    BY <1>5, <2>1, ApplyIs DEF select_event, Tracking
  <2>3. Counters'
    BY <1>5, Same DEF select_event
  <2>4. Position' /\ DOMAIN due' = {}
    BY <1>5, <2>3, PumpKeeps, TopKeeps DEF select_event, Counters, Arms
  <2> QED BY <1>5, <2>1, <2>2, <2>3, <2>4, TrackingAfter, Same DEF select_event
<1>6. CASE select_stream_lost
  <2>1. Events'
    BY <1>6, DisconnectKeeps DEF select_stream_lost
  <2>2. Position' /\ DOMAIN due' = {}
    BY <1>6, TopKeeps DEF select_stream_lost
  <2>3. Tracking'
    BY <1>6, <2>2, TrackingAfter DEF select_stream_lost, Tracking
  <2> QED BY <1>6, <2>1, <2>2, <2>3, Same DEF select_stream_lost
<1>7. CASE drain
  <2>1. Position'
    BY <1>7 DEF drain, Position, Phases
  <2>2. Counters'
    BY <1>7 DEF drain, Counters
  <2> QED BY <1>7, <2>1, <2>2, Same DEF drain
<1> QED BY <1>1, <1>2, <1>3, <1>4, <1>5, <1>6, <1>7 DEF Select

\* Handlers, the peer and callers.
LEMMA OthersKeep ==
  ASSUME LoopInvariant, Others \/ \E t \in Ids : handler_lost(t)
  PROVE  LoopInvariant'
<1> USE DEF LoopInvariant
<1>1. ASSUME NEW t \in Ids, own_beats(t) \/ peer_beats(t)
      PROVE  LoopInvariant'
  <2>1. doc' \in [Ids -> DocType] /\ Events'
    BY <1>1, BeatKeeps DEF own_beats, peer_beats
  <2>2. Documents'
    BY <1>1, <2>1 DEF own_beats, peer_beats, Documents
  <2> QED BY <1>1, <2>1, <2>2, Same DEF own_beats, peer_beats, position
<1>2. ASSUME NEW t \in Ids, handler_over(t), UNCHANGED stop, faults' \in 0 .. MaxFaults
      PROVE  Counters'
  BY <1>2 DEF handler_over, Counters
<1>3. ASSUME NEW t \in Ids, handler_returns(t)
      PROVE  LoopInvariant'
  <2>1. faults' \in 0 .. MaxFaults
    BY <1>3 DEF handler_returns, Counters
  <2>2. Counters'
    BY <1>2, <1>3, <2>1 DEF handler_returns
  <2> QED BY <1>3, <2>2, Same DEF handler_returns, position
<1>4. ASSUME NEW t \in Ids, handler_lost(t)
      PROVE  LoopInvariant'
  <2>1. Counters'
    BY <1>2, <1>4, FaultKeeps DEF handler_lost
  <2> QED BY <1>4, <2>1, Same DEF handler_lost, position
<1>5. ASSUME NEW t \in Ids, submit(t)
      PROVE  LoopInvariant'
  <2>1. NoDoc("pending") \in DocType
    BY LoopAssumption DEF NoDoc, DocType
  <2>2. /\ Event("insert", t, "pending", 0, NoTimeout) \in ChangeEvent
        /\ Event("update", t, "pending", 0, NoTimeout) \in ChangeEvent
    BY DEF Event, ChangeEvent
  <2>3. doc' \in [Ids -> DocType] /\ Events'
    BY <1>5, <2>1, <2>2, WriteKeeps DEF submit
  <2>4. Documents'
    BY <1>5, <2>3, LoopAssumption DEF submit, Documents
  <2> QED BY <1>5, <2>3, <2>4, Same DEF submit, position
<1>6. ASSUME NEW t \in Ids, peer_claims(t)
      PROVE  LoopInvariant'
  <2>1. doc' \in [Ids -> DocType] /\ Events'
    BY <1>6, ClaimKeeps, LoopAssumption DEF peer_claims
  <2>2. Documents'
    BY <1>6, <2>1 DEF peer_claims, Documents
  <2> QED BY <1>6, <2>1, <2>2, Same DEF peer_claims, position
<1>7. ASSUME NEW t \in Ids, handler_completes(t) \/ peer_finishes(t)
      PROVE  LoopInvariant'
  <2>1. doc' \in [Ids -> DocType] /\ Events'
    BY <1>7, FinishKeeps DEF handler_completes, peer_finishes
  <2>2. Documents'
    BY <1>7, <2>1 DEF handler_completes, peer_finishes, Documents
  <2> QED BY <1>7, <2>1, <2>2, Same DEF handler_completes, peer_finishes, position
<1>8. ASSUME NEW t \in Ids, delete(t)
      PROVE  LoopInvariant'
  <2>1. NoDoc("deleted") \in DocType
    BY LoopAssumption DEF NoDoc, DocType
  <2>2. Event("delete", t, "none", 0, NoTimeout) \in ChangeEvent
    BY DEF Event, ChangeEvent
  <2>3. doc' \in [Ids -> DocType] /\ Events'
    BY <1>8, <2>1, <2>2, WriteKeeps DEF delete
  <2>4. Documents'
    BY <1>8, <2>3 DEF delete, Documents
  <2> QED BY <1>8, <2>3, <2>4, Same DEF delete, position
<1>9. CASE peer_dies
  <2>1. Documents'
    BY <1>9 DEF peer_dies, Documents
  <2> QED BY <1>9, <2>1, Same DEF peer_dies, position
<1>10. CASE shutdown
  <2>1. Counters'
    BY <1>10 DEF shutdown, Counters, tasks_run
  <2> QED BY <1>10, <2>1, Same DEF shutdown, position
<1> QED BY <1>1, <1>3, <1>4, <1>5, <1>6, <1>7, <1>8, <1>9, <1>10 DEF Others

\* The events in the stream grow older and stay what they are.
LEMMA StreamAges ==
  ASSUME Events, Tick
  PROVE  /\ DOMAIN stream' = DOMAIN stream
         /\ \A i \in DOMAIN stream :
              /\ stream'[i].id = stream[i].id /\ stream[i].id \in Ids
              /\ stream'[i].operation = stream[i].operation
              /\ stream'[i].status = stream[i].status
              /\ stream'[i].switch_timeout = stream[i].switch_timeout
              /\ stream'[i].heartbeat_at = older(stream[i].heartbeat_at)
<1>1. stream' = [i \in DOMAIN stream |-> [stream[i] EXCEPT !.heartbeat_at = older(@)]]
  BY DEF Tick
<1>2. ASSUME NEW i \in DOMAIN stream
      PROVE  /\ stream'[i].id = stream[i].id /\ stream[i].id \in Ids
             /\ stream'[i].operation = stream[i].operation
             /\ stream'[i].status = stream[i].status
             /\ stream'[i].switch_timeout = stream[i].switch_timeout
             /\ stream'[i].heartbeat_at = older(stream[i].heartbeat_at)
  <2> DEFINE event == stream[i]
             time  == older(event.heartbeat_at)
             new   == [event EXCEPT !.heartbeat_at = time]
  <2>1. stream'[i] = new
    BY <1>1
  <2>2. event \in ChangeEvent
    BY DEF Events
  <2> HIDE DEF event, time
  <2>3. /\ new.id = event.id /\ event.id \in Ids
        /\ new.operation = event.operation /\ new.status = event.status
        /\ new.switch_timeout = event.switch_timeout /\ new.heartbeat_at = time
    BY <2>2 DEF ChangeEvent
  <2> HIDE DEF new
  <2> QED BY <2>1, <2>3 DEF event, time
<1>3. DOMAIN stream' = DOMAIN stream
  BY <1>1
<1> QED BY <1>2, <1>3

\* Time passes.
LEMMA TickKeeps ==
  ASSUME LoopInvariant, Tick
  PROVE  LoopInvariant'
<1> USE DEF LoopInvariant
<1>1. \A x \in Nat : older(x) \in Nat /\ older(x) <= x
  BY DEF older
<1>2. Documents'
  <2>1. doc' = [t \in Ids |-> [doc[t] EXCEPT !.heartbeat_at = older(@)]]
    BY DEF Tick
  <2>2. ASSUME NEW t \in Ids
        PROVE  [doc[t] EXCEPT !.heartbeat_at = older(@)] \in DocType
    <3>1. doc[t] \in DocType
      BY DEF Documents
    <3>2. older(doc[t].heartbeat_at) \in 0 .. Now
      BY <1>1, <3>1, LoopAssumption DEF DocType
    <3> QED BY <3>1, <3>2 DEF DocType
  <2> QED BY <2>1, <2>2 DEF Tick, Documents
<1>3. Events'
  <2>1. stream' = [i \in 1 .. Len(stream) |->
                     [stream[i] EXCEPT !.heartbeat_at = older(@)]]
    BY DEF Tick, Events
  <2>2. ASSUME NEW i \in 1 .. Len(stream)
        PROVE  [stream[i] EXCEPT !.heartbeat_at = older(@)] \in ChangeEvent
    <3>1. stream[i] \in ChangeEvent
      BY DEF Events
    <3>2. older(stream[i].heartbeat_at) \in Nat
      BY <1>1, <3>1 DEF ChangeEvent
    <3> QED BY <3>1, <3>2 DEF ChangeEvent
  <2>3. Len(stream) \in Nat
    BY DEF Events
  <2> QED BY <2>1, <2>2, <2>3 DEF Tick, Events
<1>4. Position' /\ DOMAIN due' = DOMAIN due
  <2>1. due' = [t \in DOMAIN due |-> [due[t] EXCEPT !.expires_at = older(@)]]
    BY DEF Tick, aged
  <2>2. ASSUME NEW t \in DOMAIN due
        PROVE  [due[t] EXCEPT !.expires_at = older(@)] \in Entry
    <3>1. due[t] \in Entry
      BY DEF Position
    <3>2. older(due[t].expires_at) \in Nat
      BY <1>1, <3>1 DEF Entry
    <3> QED BY <3>1, <3>2 DEF Entry
  <2> QED BY <2>1, <2>2 DEF Tick, Position
<1>5. Tracking'
  <2>1. IsTracker(tracker') /\ DOMAIN tracker'.tasks = DOMAIN tracker.tasks
    BY AgedIs DEF Tick, Tracking
  <2> QED BY <1>4, <2>1 DEF Tracking
<1>6. Counters'
  BY Same DEF Tick
<1> QED BY <1>2, <1>3, <1>4, <1>5, <1>6

\* The invariant holds at the start.
LEMMA LoopInit == Init => LoopInvariant
<1> SUFFICES ASSUME Init PROVE LoopInvariant
  OBVIOUS
<1>1. Documents
  BY LoopAssumption DEF Init, Documents, DocType, NoDoc
<1>2. Events
  <2>1. FALSE \in BOOLEAN /\ <<>> \in Seq(ChangeEvent)
    OBVIOUS
  <2>2. connected \in BOOLEAN
    BY <2>1 DEF Init
  <2> QED BY <2>1, <2>2 DEF Init, Events
<1>3. Counters
  <2>1. FALSE \in BOOLEAN
    OBVIOUS
  <2>2. stop \in BOOLEAN
    BY <2>1 DEF Init
  <2> QED BY <2>2, LoopAssumption DEF Init, Counters
<1>4. Position
  BY DEF Init, Position, Phases, NoClaim, Arms, EmptyMap
<1>5. Tracking
  BY NewTrackerIs DEF Init, Tracking, EmptyMap
<1> QED BY <1>1, <1>2, <1>3, <1>4, <1>5 DEF LoopInvariant

\* Every step keeps it.
LEMMA LoopStep == LoopInvariant /\ [Next]_vars => LoopInvariant'
<1> SUFFICES ASSUME LoopInvariant, [Next]_vars PROVE LoopInvariant'
  OBVIOUS
<1>1. CASE open_change_stream \/ Work \/ Faults
  BY <1>1, StartKeeps, PumpStepKeeps, ExpiredKeeps, SelectKeeps, OthersKeep
  DEF Work, Faults
<1>2. CASE Select
  BY <1>2, SelectKeeps
<1>3. CASE Others
  BY <1>3, OthersKeep
<1>4. CASE Tick
  BY <1>4, TickKeeps
<1>5. CASE UNCHANGED vars
  BY <1>5, Same DEF LoopInvariant, vars, collection, events, tasks_run, position
<1> QED BY <1>1, <1>2, <1>3, <1>4, <1>5 DEF Next

-----------------------------------------------------------------------------
\* Every reachable state of the worker loop is well typed, for any tasks,
\* timeouts, permits and bounds; in particular join_next is never called on an
\* empty JoinSet, and a tracker never holds an unknown id.
THEOREM LoopTypes == Spec => []TypeOK
<1>1. LoopInvariant => TypeOK
  BY InvariantGives
<1> QED BY <1>1, LoopInit, LoopStep, PTL DEF Spec

\* The tracker's two indexes agree at every moment, and no popped task is
\* tracked before it is dealt with, whatever the interleaving of scans, events,
\* claims, deferrals and deadlines.
THEOREM TrackerStaysConsistent == Spec => []TrackerConsistent
<1>1. LoopInvariant => TrackerConsistent
  BY InvariantGives
<1> QED BY <1>1, LoopInit, LoopStep, PTL DEF Spec
=============================================================================
