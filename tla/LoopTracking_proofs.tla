------------------------ MODULE LoopTracking_proofs ------------------------
(***************************************************************************)
(* Proofs that the worker loop keeps its view of the running tasks in step *)
(* with the collection: MissMeansNews and OnlyDropsForget.                 *)
(***************************************************************************)
EXTENDS WorkerLoop_proofs, FiniteSetTheorems

-----------------------------------------------------------------------------
(* What the operations of the tracker do to the entries of other tasks     *)

same_but(tr, new, id) ==
  \A u \in Ids \ {id} :
    /\ u \in DOMAIN new.tasks <=> u \in DOMAIN tr.tasks
    /\ u \in DOMAIN new.tasks => new.tasks[u] = tr.tasks[u]

\* ExpiryTracker::remove forgets one task.
LEMMA RemoveOnly ==
  ASSUME NEW tr, IsTracker(tr), NEW id \in Ids
  PROVE  same_but(tr, remove(tr, id), id) /\ id \notin DOMAIN remove(tr, id).tasks
<1>1. CASE id \notin DOMAIN tr.tasks
  BY <1>1 DEF remove, same_but
<1>2. CASE id \in DOMAIN tr.tasks
  <2>1. remove(tr, id).tasks = [k \in DOMAIN tr.tasks \ {id} |-> tr.tasks[k]]
    BY <1>2 DEF remove, IsTracker, without, Restrict
  <2> QED BY <2>1 DEF same_but
<1> QED BY <1>1, <1>2

\* An insert sets the entry of one task.
LEMMA InsertOnly ==
  ASSUME NEW tr, IsTracker(tr), NEW id \in Ids, NEW named, NEW expires_at
  PROVE  /\ same_but(tr, insert(tr, id, named, expires_at), id)
         /\ id \in DOMAIN insert(tr, id, named, expires_at).tasks
         /\ insert(tr, id, named, expires_at).tasks[id].expires_at = expires_at
<1>1. insert(tr, id, named, expires_at).tasks
        = put(tr.tasks, id, [named |-> named, expires_at |-> expires_at])
  BY DEF insert, IsTracker
<1> QED BY <1>1 DEF put, same_but

\* ExpiryTracker::upsert sets the deadline of one task.
LEMMA UpsertOnly ==
  ASSUME NEW tr, IsTracker(tr), NEW id \in Ids, NEW named,
         NEW heartbeat_at, NEW timeout
  PROVE  LET new == upsert(tr, id, named, heartbeat_at, timeout)
         IN  /\ same_but(tr, new, id)
             /\ id \in DOMAIN new.tasks
             /\ new.tasks[id].expires_at = heartbeat_at + timeout
<1> DEFINE gone == remove(tr, id)
           n    == named \/ (id \in DOMAIN tr.tasks /\ tr.tasks[id].named)
           new  == insert(gone, id, n, heartbeat_at + timeout)
<1>1. IsTracker(gone) /\ same_but(tr, gone, id)
  BY RemoveIs, RemoveOnly
<1>2. upsert(tr, id, named, heartbeat_at, timeout) = new
  BY DEF upsert
<1> HIDE DEF gone, n
<1>3. /\ same_but(gone, new, id) /\ id \in DOMAIN new.tasks
      /\ new.tasks[id].expires_at = heartbeat_at + timeout
  BY <1>1, InsertOnly
<1> HIDE DEF new
<1>4. same_but(tr, new, id)
  BY <1>1, <1>3 DEF same_but
<1> QED BY <1>2, <1>3, <1>4

\* A won claim sets the deadline of its task from the document.
LEMMA ScheduleOnly ==
  ASSUME NEW tr, IsTracker(tr), NEW id \in Ids, NEW heartbeat_at
  PROVE  same_but(tr, schedule_expiration_from_task(tr, id, "running", heartbeat_at), id)
<1>1. schedule_expiration_from_task(tr, id, "running", heartbeat_at)
        = upsert(tr, id, TRUE, heartbeat_at, SwitchTimeout[id])
  BY DEF schedule_expiration_from_task
<1> DEFINE tracked(n) == upsert(tr, id, n, heartbeat_at, SwitchTimeout[id])
<1>2. \A n : same_but(tr, tracked(n), id)
  BY UpsertOnly
<1> HIDE DEF tracked
<1>3. same_but(tr, tracked(TRUE), id)
  BY <1>2, Zenon
<1> QED BY <1>1, <1>3, Zenon DEF tracked

\* A change event touches the entry of its own document, and in which way.
LEMMA ApplyOnly ==
  ASSUME NEW tr, IsTracker(tr), NEW event \in ChangeEvent
  PROVE  LET new == apply_change_event_to_expirations(tr, event)
         IN  /\ same_but(tr, new, event.id)
             /\ event.operation = "update" /\ event.status \in {"running", "none"} =>
                  /\ event.id \in DOMAIN new.tasks
                  /\ new.tasks[event.id].expires_at
                       = event.heartbeat_at + expiration_timeout(event)
             /\ event.operation \in {"insert", "update"} /\ event.status = "pending" =>
                  new.tasks = tr.tasks
             /\ \/ event.operation \in {"insert", "update"} /\ event.status = "finished"
                \/ event.operation = "delete"
                => event.id \notin DOMAIN new.tasks
<1> DEFINE new == apply_change_event_to_expirations(tr, event)
<1>0. /\ event.id \in Ids
      /\ event.operation \in {"insert", "update", "delete"}
      /\ event.status \in {"none", "pending", "running", "finished"}
  BY DEF ChangeEvent
<1>1. CASE event.operation = "insert" /\ event.status = "running"
  <2>1. new = upsert(tr, event.id, TRUE, event.heartbeat_at, SwitchTimeout[event.id])
    BY <1>1 DEF apply_change_event_to_expirations, schedule_expiration_from_task
  <2> HIDE DEF new
  <2>2. same_but(tr, new, event.id)
    BY <1>0, <2>1, UpsertOnly
  <2> QED BY <1>1, <2>2 DEF new
<1>2. CASE event.operation \in {"insert", "update"} /\ event.status = "pending"
  <2>1. new = set_pending_may_exist(tr, TRUE)
    BY <1>2 DEF apply_change_event_to_expirations, schedule_expiration_from_task,
                mark_pending
  <2> HIDE DEF new
  <2>2. new.tasks = tr.tasks
    BY <2>1, HintIs
  <2>3. same_but(tr, new, event.id)
    BY <2>2 DEF same_but
  <2> QED BY <1>2, <2>2, <2>3 DEF new
<1>3. CASE \/ event.operation = "insert" /\ event.status = "none"
           \/ event.operation \in {"insert", "update"} /\ event.status = "finished"
           \/ event.operation = "delete"
  <2>1. new = remove(tr, event.id)
    BY <1>3 DEF apply_change_event_to_expirations, schedule_expiration_from_task
  <2> HIDE DEF new
  <2>2. same_but(tr, new, event.id) /\ event.id \notin DOMAIN new.tasks
    BY <1>0, <2>1, RemoveOnly
  <2>3. CASE event.operation = "delete"
    BY <2>2, <2>3 DEF new
  <2>4. CASE event.operation # "delete"
    BY <1>3, <2>2, <2>4 DEF new
  <2> QED BY <2>3, <2>4
<1>4. CASE event.operation = "update" /\ event.status \in {"running", "none"}
  <2>1. new = upsert(tr, event.id, FALSE, event.heartbeat_at, expiration_timeout(event))
    BY <1>4 DEF apply_change_event_to_expirations
  <2> HIDE DEF new
  <2> DEFINE timeout    == expiration_timeout(event)
             tracked(n) == upsert(tr, event.id, n, event.heartbeat_at, timeout)
             as_told(x) == /\ same_but(tr, x, event.id)
                           /\ event.id \in DOMAIN x.tasks
                           /\ x.tasks[event.id].expires_at = event.heartbeat_at + timeout
  <2>2. \A n : as_told(tracked(n))
    BY <1>0, UpsertOnly
  <2> HIDE DEF tracked, as_told
  <2>3. as_told(tracked(FALSE))
    BY <2>2, Zenon
  <2>4. as_told(new)
    BY <2>1, <2>3, Zenon DEF tracked
  <2> QED BY <1>4, <2>4 DEF new, as_told
<1> QED BY <1>0, <1>1, <1>2, <1>3, <1>4

-----------------------------------------------------------------------------
(* The stream                                                              *)

\* The events are change events of the documents.
LEMMA EventIds ==
  ASSUME stream \in Seq(ChangeEvent)
  PROVE  \A i \in DOMAIN stream : stream[i] \in ChangeEvent /\ stream[i].id \in Ids
<1>1. \A i \in DOMAIN stream : stream[i] \in ChangeEvent
  OBVIOUS
<1>2. \A event \in ChangeEvent : event.id \in Ids
  BY DEF ChangeEvent
<1> QED BY <1>1, <1>2

\* There is but one last event about a document.
LEMMA LastTells ==
  ASSUME stream \in Seq(ChangeEvent), LastEventTells,
         NEW i \in DOMAIN stream, is_last(i)
  PROVE  tells(stream[i], doc[stream[i].id])
<1>1. stream[i].id \in announced
  BY DEF announced
<1>2. PICK j \in DOMAIN stream :
        /\ stream[j].id = stream[i].id /\ is_last(j)
        /\ tells(stream[j], doc[stream[i].id])
  BY <1>1 DEF LastEventTells
<1>3. i \in Nat /\ j \in Nat
  OBVIOUS
<1>4. ~(i < j) /\ ~(j < i)
  BY <1>2, <1>3 DEF is_last
<1>5. i = j
  BY <1>3, <1>4
<1> QED BY <1>2, <1>5

\* A write appends the last event about its document.
LEMMA AppendedLast ==
  ASSUME stream \in Seq(ChangeEvent), NEW event \in ChangeEvent,
         stream' = Append(stream, event)
  PROVE  /\ DOMAIN stream' = DOMAIN stream \cup {Len(stream) + 1}
         /\ Len(stream) + 1 \notin DOMAIN stream
         /\ \A i \in DOMAIN stream : stream'[i] = stream[i]
         /\ stream'[Len(stream) + 1] = event
         /\ \A i \in DOMAIN stream : i \in Nat /\ i < Len(stream) + 1
         /\ announced' = announced \cup {event.id}
         /\ \A i \in DOMAIN stream :
              is_last(i)' <=> is_last(i) /\ stream[i].id # event.id
<1>1. /\ DOMAIN stream = 1 .. Len(stream) /\ Len(stream) \in Nat
      /\ DOMAIN stream' = 1 .. Len(stream) + 1
      /\ \A i \in DOMAIN stream : stream'[i] = stream[i]
      /\ stream'[Len(stream) + 1] = event
  OBVIOUS
<1>2. /\ DOMAIN stream' = DOMAIN stream \cup {Len(stream) + 1}
      /\ Len(stream) + 1 \notin DOMAIN stream
      /\ \A i \in DOMAIN stream : i \in Nat /\ i < Len(stream) + 1
  BY <1>1
<1>3. announced' = announced \cup {event.id}
  BY <1>1, <1>2 DEF announced
<1>4. ASSUME NEW i \in DOMAIN stream
      PROVE  is_last(i)' <=> is_last(i) /\ stream[i].id # event.id
  <2>1. is_last(i)' <=> /\ \A j \in DOMAIN stream : j > i => stream'[j].id # stream'[i].id
                        /\ Len(stream) + 1 > i => stream'[Len(stream) + 1].id # stream'[i].id
    BY <1>2 DEF is_last
  <2> QED BY <1>1, <1>2, <2>1 DEF is_last
<1> QED BY <1>1, <1>2, <1>3, <1>4

\* Reading the head of the stream.
LEMMA TailLast ==
  ASSUME stream \in Seq(ChangeEvent), stream # <<>>, stream' = Tail(stream)
  PROVE  /\ 1 \in DOMAIN stream /\ stream[1] = Head(stream)
         /\ \A i \in DOMAIN stream' :
              /\ i \in Nat /\ i + 1 \in DOMAIN stream /\ stream'[i] = stream[i + 1]
              /\ is_last(i)' <=> is_last(i + 1)
         /\ \A i \in DOMAIN stream : i \in Nat /\ (i = 1 \/ (i > 1 /\ i - 1 \in DOMAIN stream'))
         /\ announced = announced' \cup {Head(stream).id}
         /\ Head(stream).id \notin announced' => is_last(1)
<1>1. /\ DOMAIN stream = 1 .. Len(stream) /\ Len(stream) \in Nat \ {0}
      /\ DOMAIN stream' = 1 .. Len(stream) - 1
      /\ \A i \in 1 .. Len(stream) - 1 : stream'[i] = stream[i + 1]
      /\ stream[1] = Head(stream)
  OBVIOUS
<1>2. ASSUME NEW i \in 1 .. Len(stream) - 1
      PROVE  is_last(i)' <=> is_last(i + 1)
  <2>1. ASSUME is_last(i)', NEW j \in DOMAIN stream, j > i + 1
        PROVE  stream[j].id # stream[i + 1].id
    <3>1. j - 1 \in DOMAIN stream' /\ j - 1 > i /\ stream'[j - 1] = stream[j]
      BY <1>1, <2>1
    <3> QED BY <1>1, <2>1, <3>1 DEF is_last
  <2>2. ASSUME is_last(i + 1), NEW j \in DOMAIN stream', j > i
        PROVE  stream'[j].id # stream'[i].id
    <3>1. j + 1 \in DOMAIN stream /\ j + 1 > i + 1 /\ stream'[j] = stream[j + 1]
      BY <1>1, <2>2
    <3> QED BY <1>1, <2>2, <3>1 DEF is_last
  <2> QED BY <2>1, <2>2 DEF is_last
<1>3. \A i \in DOMAIN stream : i = 1 \/ (i > 1 /\ i - 1 \in DOMAIN stream' /\ stream'[i - 1] = stream[i])
  BY <1>1
<1>4. announced = announced' \cup {Head(stream).id}
  <2>1. ASSUME NEW i \in DOMAIN stream
        PROVE  stream[i].id \in announced' \cup {Head(stream).id}
    BY <1>1, <1>3 DEF announced
  <2>2. ASSUME NEW i \in DOMAIN stream'
        PROVE  stream'[i].id \in announced
    <3>1. i + 1 \in DOMAIN stream /\ stream'[i] = stream[i + 1]
      BY <1>1
    <3> QED BY <3>1 DEF announced
  <2>3. Head(stream).id \in announced
    BY <1>1 DEF announced
  <2>4. announced \subseteq announced' \cup {Head(stream).id}
    BY <2>1 DEF announced
  <2>5. announced' \subseteq announced
    BY <2>2 DEF announced
  <2> QED BY <2>3, <2>4, <2>5
<1>5. Head(stream).id \notin announced' => is_last(1)
  BY <1>1, <1>3 DEF announced, is_last
<1> QED BY <1>1, <1>2, <1>3, <1>4, <1>5

-----------------------------------------------------------------------------
(* Steps that add nothing to the view                                      *)

\* Whatever is in view of task u afterwards was so before.
shrinks_at(u) ==
  /\ u \in DOMAIN tracker'.tasks =>
       u \in DOMAIN tracker.tasks /\ tracker'.tasks[u] = tracker.tasks[u]
  /\ u \in DOMAIN due' => u \in DOMAIN due /\ due'[u] = due[u]
  /\ u \in targeted' => u \in targeted

\* The loop does not start to watch, and adds nothing to its view of tasks
\* other than those of set S.
steady(S) ==
  /\ watching' => watching
  /\ pc' \in {"select", "expired"} => connected'
  /\ \A u \in DOMAIN due' : u \in DOMAIN due /\ due'[u] = due[u]
  /\ \A u \in Ids \ S : shrinks_at(u)

\* A view of an unchanged document that shrinks stays up to date.
LEMMA ShrinkKeeps ==
  ASSUME NEW u \in Ids, shrinks_at(u), doc'[u] = doc[u]
  PROVE  /\ up_to_date(u) => up_to_date(u)'
         /\ u \in in_view' => u \in in_view
<1>1. \A time : over_by(u, time) => over_by(u, time)'
  BY DEF over_by
<1>2. ASSUME up_to_date(u)
      PROVE  up_to_date(u)'
  BY <1>1, <1>2 DEF shrinks_at, up_to_date
<1>3. u \in in_view' => u \in in_view
  BY DEF shrinks_at, in_view
<1> QED BY <1>2, <1>3

\* Steps that leave documents and stream alone.
LEMMA LookKeepsView ==
  ASSUME LoopInvariant, ViewInvariant, UNCHANGED <<doc, connected, stream>>,
         ViewShape', watching' => watching,
         \A u \in Ids : up_to_date(u) => up_to_date(u)',
         in_view' \subseteq in_view
  PROVE  ViewInvariant'
<1> USE DEF ViewInvariant
<1>1. announced' = announced /\ \A i : is_last(i)' <=> is_last(i)
  BY DEF announced, is_last
<1>2. LastEventTells'
  BY <1>1 DEF LastEventTells
<1>3. ViewUpToDate'
  BY <1>1 DEF ViewUpToDate
<1>4. EntriesGo'
  <2> SUFFICES ASSUME NEW i \in DOMAIN stream, is_last(i), stream[i].status = "pending"
               PROVE  entry_goes(i)'
    BY <1>1 DEF EntriesGo
  <2>1. entry_goes(i)
    BY DEF EntriesGo
  <2> QED BY <2>1 DEF entry_goes
<1> QED BY <1>2, <1>3, <1>4

\* In particular when the view only shrinks.
LEMMA QuietKeepsView ==
  ASSUME LoopInvariant, ViewInvariant, LoopInvariant',
         UNCHANGED <<doc, connected, stream>>, steady({})
  PROVE  ViewInvariant'
<1>1. ViewShape'
  BY DEF ViewInvariant, ViewShape, steady
<1>2. \A u \in Ids :
        /\ up_to_date(u) => up_to_date(u)'
        /\ u \in in_view' => u \in in_view
  BY ShrinkKeeps DEF steady
<1>3. in_view' \subseteq Ids
  BY DEF LoopInvariant, Position, Tracking, IsTracker, in_view, targeted
<1> QED BY <1>1, <1>2, <1>3, LookKeepsView DEF steady

\* A write whose event tells the new document.  A pending event must follow a
\* finished one, or find no other and its task out of view.
LEMMA WriteKeepsView ==
  ASSUME LoopInvariant, ViewInvariant,
         NEW t \in Ids, NEW d, NEW event \in ChangeEvent,
         write(t, d, event), event.id = t, tells(event, d), steady({t}),
         event.status = "pending" =>
           \/ t \notin announced /\ (watching' => t \notin in_view')
           \/ \E j \in DOMAIN stream :
                is_last(j) /\ stream[j].id = t /\ stream[j].status = "finished"
  PROVE  ViewInvariant'
<1> USE DEF ViewInvariant
<1>0. /\ doc' = [doc EXCEPT ![t] = d] /\ UNCHANGED connected
      /\ stream' = IF connected THEN Append(stream, event) ELSE stream
      /\ stream \in Seq(ChangeEvent) /\ doc \in [Ids -> DocType]
  BY DEF write, LoopInvariant, Events, Documents
<1>1. ViewShape'
  BY <1>0 DEF ViewShape, steady
<1>2. CASE ~connected
  <2>1. DOMAIN stream' = {} /\ ~watching'
    BY <1>0, <1>2 DEF ViewShape, watching
  <2> QED BY <1>1, <2>1 DEF LastEventTells, announced, ViewUpToDate, EntriesGo
<1>3. CASE connected
  <2>0. stream' = Append(stream, event)
    BY <1>0, <1>3
  <2>b. PICK last \in Nat : last = Len(stream) + 1
    BY <1>0
  <2>1. /\ DOMAIN stream' = DOMAIN stream \cup {last}
        /\ last \notin DOMAIN stream
        /\ \A i \in DOMAIN stream : stream'[i] = stream[i]
        /\ stream'[last] = event
        /\ \A i \in DOMAIN stream : i \in Nat /\ i < last
        /\ announced' = announced \cup {t}
        /\ \A i \in DOMAIN stream : is_last(i)' <=> is_last(i) /\ stream[i].id # t
    BY <1>0, <2>0, <2>b, AppendedLast
  <2>2. \A i \in DOMAIN stream : stream[i].id \in Ids
    BY EventIds DEF LoopInvariant, Events
  <2>3. \A u \in Ids \ {t} :
          /\ doc'[u] = doc[u]
          /\ up_to_date(u) => up_to_date(u)'
          /\ u \in in_view' => u \in in_view
    BY <1>0, ShrinkKeeps DEF steady
  <2>4. LastEventTells'
    <3> SUFFICES ASSUME NEW u \in announced'
                 PROVE  \E i \in DOMAIN stream' :
                          /\ stream'[i].id = u /\ is_last(i)'
                          /\ tells(stream'[i], doc'[u])
      BY DEF LastEventTells
    <3>1. CASE u = t
      <4>1. \A j \in DOMAIN stream' : ~(j > last)
        BY <2>1
      <4>2. is_last(last)'
        BY <4>1 DEF is_last
      <4>3. last \in DOMAIN stream' /\ stream'[last] = event /\ doc'[t] = d
        BY <1>0, <2>1
      <4> QED BY <3>1, <4>2, <4>3
    <3>2. CASE u # t
      <4>1. PICK i \in DOMAIN stream :
              stream[i].id = u /\ is_last(i) /\ tells(stream[i], doc[u])
        BY <2>1, <3>2 DEF LastEventTells
      <4>2. doc'[u] = doc[u]
        BY <2>2, <2>3, <3>2, <4>1
      <4> QED BY <2>1, <3>2, <4>1, <4>2
    <3> QED BY <3>1, <3>2
  <2>5. ViewUpToDate'
    <3> SUFFICES ASSUME watching', NEW u \in Ids \ announced'
                 PROVE  up_to_date(u)'
      BY DEF ViewUpToDate
    <3>1. u \in Ids \ {t} /\ u \notin announced /\ watching
      BY <2>1 DEF steady
    <3>2. up_to_date(u)
      BY <3>1 DEF ViewUpToDate
    <3> QED BY <2>3, <3>1, <3>2
  <2>6. EntriesGo'
    <3> SUFFICES ASSUME NEW i \in DOMAIN stream', is_last(i)',
                        stream'[i].status = "pending"
                 PROVE  entry_goes(i)'
      BY DEF EntriesGo
    <3>1. CASE i = last
      <4>1. CASE t \notin announced /\ (watching' => t \notin in_view')
        <5>1. \A k \in DOMAIN stream : stream[k].id # t
          BY <4>1 DEF announced
        <5>2. \A k \in DOMAIN stream' : k < i => stream'[k].id # stream'[i].id
          BY <2>1, <3>1, <5>1
        <5> QED BY <2>1, <3>1, <4>1, <5>2 DEF entry_goes
      <4>2. CASE \E j \in DOMAIN stream :
                   is_last(j) /\ stream[j].id = t /\ stream[j].status = "finished"
        <5>1. PICK j \in DOMAIN stream :
                is_last(j) /\ stream[j].id = t /\ stream[j].status = "finished"
          BY <4>2
        <5>2. \A k \in DOMAIN stream : j < k => stream[k].id # t
          BY <2>1, <5>1 DEF is_last
        <5>3. \A k \in DOMAIN stream' :
                j < k /\ k < i => stream'[k].id # stream'[i].id
          BY <2>1, <3>1, <5>2
        <5>4. /\ j \in DOMAIN stream' /\ j < i
              /\ stream'[j].id = stream'[i].id /\ stream'[j].status = "finished"
          BY <2>1, <3>1, <5>1
        <5> QED BY <5>3, <5>4 DEF entry_goes
      <4> QED BY <2>1, <3>1, <4>1, <4>2
    <3>2. CASE i # last
      <4>1. i \in DOMAIN stream /\ is_last(i) /\ stream[i].id # t /\ stream'[i] = stream[i]
        BY <2>1, <3>2
      <4>2. entry_goes(i)
        BY <4>1 DEF EntriesGo
      <4>3. CASE /\ \A k \in DOMAIN stream : k < i => stream[k].id # stream[i].id
                 /\ watching => stream[i].id \notin in_view
        <5>1. watching' => stream[i].id \notin in_view'
          BY <2>2, <2>3, <4>1, <4>3 DEF steady
        <5>2. \A k \in DOMAIN stream' : k < i => stream'[k].id # stream'[i].id
          BY <2>1, <4>1, <4>3
        <5> QED BY <4>1, <5>1, <5>2 DEF entry_goes
      <4>4. CASE \E j \in DOMAIN stream :
                   /\ j < i /\ stream[j].id = stream[i].id /\ stream[j].status = "finished"
                   /\ \A k \in DOMAIN stream :
                        j < k /\ k < i => stream[k].id # stream[i].id
        <5>1. PICK j \in DOMAIN stream :
                /\ j < i /\ stream[j].id = stream[i].id /\ stream[j].status = "finished"
                /\ \A k \in DOMAIN stream : j < k /\ k < i => stream[k].id # stream[i].id
          BY <4>4
        <5>2. \A k \in DOMAIN stream' :
                j < k /\ k < i => stream'[k].id # stream'[i].id
          BY <2>1, <4>1, <5>1
        <5>3. /\ j \in DOMAIN stream' /\ j < i
              /\ stream'[j].id = stream'[i].id /\ stream'[j].status = "finished"
          BY <2>1, <4>1, <5>1
        <5> QED BY <5>2, <5>3 DEF entry_goes
      <4> QED BY <4>2, <4>3, <4>4 DEF entry_goes
    <3> QED BY <3>1, <3>2
  <2> QED BY <1>1, <2>4, <2>5, <2>6
<1> QED BY <1>2, <1>3

\* A stream that is closed, or just opened and not yet scanned for.
LEMMA EmptyKeepsView ==
  ASSUME stream' = <<>>, ~watching', ViewShape'
  PROVE  ViewInvariant'
<1>1. DOMAIN stream' = {}
  OBVIOUS
<1> QED BY <1>1 DEF ViewInvariant, LastEventTells, announced, ViewUpToDate, EntriesGo

\* The tracker keeps at most what it had of the tasks outside S.
tracks_less(S) ==
  \A u \in Ids \ S : u \in DOMAIN tracker'.tasks =>
    u \in DOMAIN tracker.tasks /\ tracker'.tasks[u] = tracker.tasks[u]

\* At the top of the loop, and at each turn of a pump, nothing is popped and
\* nothing targeted any more.
LEMMA TurnIsSteady ==
  ASSUME NEW arm, NEW S, pump(arm) \/ top, pc # "scan", UNCHANGED connected,
         tracks_less(S)
  PROVE  steady(S)
<1>1. /\ pc' # "scan" /\ pc' # "expired"
      /\ due' = EmptyMap
      /\ pc' = "select" => connected'
  BY DEF pump, top
<1>2. DOMAIN due' = {} /\ targeted' = {}
  BY <1>1 DEF pump, top, EmptyMap, targeted
<1>3. watching' => watching
  BY DEF watching
<1>4. \A u \in Ids \ S : shrinks_at(u)
  BY <1>2 DEF shrinks_at, tracks_less
<1> QED BY <1>1, <1>2, <1>3, <1>4 DEF steady

\* Steps of the others leave the view alone.
LEMMA StillIsSteady ==
  ASSUME ViewInvariant, NEW S, UNCHANGED <<position, tracker, connected>>
  PROVE  steady(S)
  BY DEF steady, shrinks_at, watching, targeted, position, ViewInvariant, ViewShape

\* The steps of the loop before and around its pumps.
LEMMA AroundKeepsView ==
  ASSUME LoopInvariant, LoopInvariant', ViewInvariant,
         \/ open_change_stream \/ open_fails \/ open_unsupported
         \/ probe \/ probe_fails \/ pump_tries_own \/ pump_misses
         \/ select_stop \/ select_ticker \/ select_join \/ select_stream_lost
         \/ drain \/ peer_dies \/ shutdown \/ \E t \in Ids : handler_lost(t)
         \/ UNCHANGED vars
  PROVE  ViewInvariant'
<1>0. ASSUME NEW b \in BOOLEAN, tracker' = set_pending_may_exist(tracker, b)
      PROVE  tracks_less({})
  BY <1>0, HintIs DEF LoopInvariant, Tracking, tracks_less
<1>1. CASE open_change_stream
  <2>1. /\ stream' = <<>> /\ pc' = "scan" /\ connected' = TRUE /\ due' = due
    BY <1>1 DEF open_change_stream
  <2>2. ViewShape' /\ ~watching'
    BY <2>1 DEF ViewInvariant, ViewShape, watching
  <2> QED BY <2>1, <2>2, EmptyKeepsView
<1>2. CASE open_fails \/ open_unsupported \/ select_ticker \/ drain
  <2>1. /\ pc' \notin {"select", "expired"} /\ pc # "scan"
        /\ UNCHANGED <<doc, events, claim, due, tracker>>
    BY <1>2 DEF open_fails, open_unsupported, select_ticker, drain, collection
  <2>2. steady({})
    BY <2>1 DEF steady, shrinks_at, watching, targeted, events
  <2> QED BY <2>1, <2>2, QuietKeepsView DEF events
<1>3. CASE probe \/ probe_fails
  <2>1. tracks_less({})
    <3>1. CASE probe
      BY <1>0, <3>1 DEF probe
    <3>2. CASE probe_fails
      BY <3>2 DEF probe_fails, tracks_less
    <3> QED BY <1>3, <3>1, <3>2
  <2>2. /\ \E arm : pump(arm)
        /\ pc # "scan" /\ UNCHANGED <<doc, events>>
    BY <1>3 DEF probe, probe_fails, pump_of_trigger, collection
  <2> QED BY <2>1, <2>2, TurnIsSteady, QuietKeepsView DEF events
<1>4. CASE pump_tries_own
  <2>1. /\ pc = "pump" /\ UNCHANGED <<doc, events, pc, due, tracker>>
    BY <1>4 DEF pump_tries_own, collection
  <2>2. steady({})
    BY <2>1 DEF steady, shrinks_at, watching, targeted, events
  <2> QED BY <2>1, <2>2, QuietKeepsView DEF events
<1>5. CASE pump_misses
  <2>1. tracks_less({})
    <3>1. CASE claim.arm = "own"
      BY <1>0, <1>5, <3>1 DEF pump_misses
    <3>2. CASE claim.arm # "own"
      BY <1>5, <3>2 DEF pump_misses, tracks_less
    <3> QED BY <3>1, <3>2
  <2>2. top /\ pc # "scan" /\ UNCHANGED <<doc, events>>
    BY <1>5 DEF pump_misses, collection
  <2> QED BY <2>1, <2>2, TurnIsSteady, QuietKeepsView DEF events
<1>6. CASE select_stop \/ select_stream_lost
  <2>1. /\ stream' = <<>> /\ ~connected' /\ pc' \notin {"select", "expired"}
        /\ DOMAIN due' = {} \/ due' = due
    BY <1>6 DEF select_stop, select_stream_lost, top, EmptyMap
  <2>2. ViewShape' /\ ~watching'
    BY <2>1 DEF ViewInvariant, ViewShape, watching
  <2> QED BY <2>1, <2>2, EmptyKeepsView
<1>7. CASE select_join
  <2>1. pump("pending") /\ pc # "scan" /\ UNCHANGED <<doc, events, tracker>>
    BY <1>7 DEF select_join, collection
  <2>2. tracks_less({})
    BY <2>1 DEF tracks_less
  <2> QED BY <2>1, <2>2, TurnIsSteady, QuietKeepsView DEF events
<1>8. CASE peer_dies \/ shutdown \/ (\E t \in Ids : handler_lost(t)) \/ UNCHANGED vars
  <2>1. UNCHANGED <<doc, connected, stream, position, tracker>>
    BY <1>8 DEF peer_dies, shutdown, handler_lost, vars, collection, events, position
  <2> QED BY <2>1, StillIsSteady, QuietKeepsView
<1> QED BY <1>1, <1>2, <1>3, <1>4, <1>5, <1>6, <1>7, <1>8

\* A scan reads the running documents and the end of their leases.
LEMMA ScanKeepsView ==
  ASSUME LoopInvariant, ViewInvariant, scan
  PROVE  ViewInvariant' /\ \A t \in Ids : doc'[t].status = "running" => t \in in_view'
<1> DEFINE ids == {t \in Ids : doc[t].status = "running"}
           heartbeats == [t \in Ids |-> doc[t].heartbeat_at]
<1>1. /\ pc = "scan" /\ pc' = "probe" /\ UNCHANGED <<doc, connected, stream, due>>
      /\ tracker' = refresh_running_expirations(tracker, ids, heartbeats)
  BY DEF scan, collection, events
<1>2. tracker'.tasks = [t \in ids |-> [named |-> TRUE,
                          expires_at |-> heartbeats[t] + SwitchTimeout[t]]]
  <2>1. tracker = [tasks |-> tracker.tasks, deadlines |-> tracker.deadlines,
                   pending_may_exist |-> tracker.pending_may_exist]
    BY DEF LoopInvariant, Tracking, IsTracker
  <2>2. "tasks" \in DOMAIN clear_running(tracker)
    BY <2>1 DEF clear_running
  <2> HIDE DEF ids, heartbeats
  <2> QED BY <1>1, <2>2 DEF refresh_running_expirations
<1>3. /\ DOMAIN tracker'.tasks = ids
      /\ \A t \in ids : tracker'.tasks[t].expires_at = doc[t].heartbeat_at + SwitchTimeout[t]
  BY <1>2
<1>4. DOMAIN due' = {} /\ targeted' = {}
  BY <1>1 DEF LoopInvariant, Position, targeted
<1>5. ViewShape'
  BY <1>1, <1>4 DEF ViewInvariant, ViewShape
<1>6. LastEventTells'
  BY <1>1 DEF ViewInvariant, LastEventTells, announced, is_last
<1>7. ASSUME NEW t \in Ids
      PROVE  up_to_date(t)'
  <2>1. doc[t].heartbeat_at \in Nat /\ SwitchTimeout[t] \in Nat
    BY LoopAssumption, TimeoutAssumption DEF LoopInvariant, Documents, DocType
  <2>2. ASSUME t \in DOMAIN tracker'.tasks
        PROVE  over_by(t, tracker.tasks[t].expires_at)'
    <3>1. /\ doc'[t].status = "running"
          /\ tracker'.tasks[t].expires_at = doc'[t].heartbeat_at + SwitchTimeout[t]
      BY <1>1, <1>3, <2>2
    <3>2. doc'[t].heartbeat_at + SwitchTimeout[t] <= doc'[t].heartbeat_at + SwitchTimeout[t]
      BY <1>1, <2>1
    <3> QED BY <3>1, <3>2 DEF over_by
  <2> QED BY <1>4, <2>2 DEF up_to_date
<1>8. EntriesGo'
  <2> SUFFICES ASSUME NEW i \in DOMAIN stream', is_last(i)', stream'[i].status = "pending"
               PROVE  entry_goes(i)'
    BY DEF EntriesGo
  <2>1. tells(stream'[i], doc'[stream'[i].id])
    <3>1. i \in DOMAIN stream /\ is_last(i)
      BY <1>1 DEF is_last
    <3>2. tells(stream[i], doc[stream[i].id])
      BY <3>1, LastTells DEF LoopInvariant, Events, ViewInvariant
    <3> QED BY <1>1, <3>2
  <2>2. doc'[stream'[i].id].status # "running"
    BY <2>1 DEF tells
  <2>3. stream'[i].id \notin in_view'
    BY <1>1, <1>3, <1>4, <2>2 DEF in_view
  <2>4. entry_goes(i)
    BY <1>1 DEF ViewInvariant, EntriesGo, is_last
  <2> QED BY <1>1, <2>3, <2>4 DEF entry_goes
<1>9. \A t \in Ids : doc'[t].status = "running" => t \in in_view'
  BY <1>1, <1>3 DEF in_view
<1> QED BY <1>5, <1>6, <1>7, <1>8, <1>9 DEF ViewInvariant, ViewUpToDate

-----------------------------------------------------------------------------
(* Writes                                                                  *)

\* A claim announces the heartbeat it writes, with a timeout that covers the
\* lease.
LEMMA ClaimKeepsView ==
  ASSUME TimeoutsCover, LoopInvariant, ViewInvariant, NEW t \in Ids, NEW owner,
         NEW timeout \in {OwnTimeout, PeerTimeout},
         claim_by(t, owner, timeout), steady({t})
  PROVE  ViewInvariant'
<1> DEFINE event == Event("update", t, "running", Now, timeout)
<1>1. timeout \in Nat /\ SwitchTimeout[t] <= timeout /\ Now \in Nat
  BY TimeoutAssumption, LoopAssumption DEF TimeoutsCover
<1>2. event \in ChangeEvent /\ event.id = t /\ event.status # "pending"
  BY <1>1 DEF Event, ChangeEvent
<1>3. expiration_timeout(event) = timeout
  BY <1>1 DEF expiration_timeout, NoTimeout, Event
<1>4. tells(event, Claimed(owner))
  BY <1>1, <1>3 DEF tells, Claimed, Event
<1>5. write(t, Claimed(owner), event)
  BY DEF claim_by
<1> HIDE DEF event
<1> QED BY <1>2, <1>4, <1>5, WriteKeepsView

\* A heartbeat announces its time; the observer adds its own timeout.
LEMMA BeatKeepsView ==
  ASSUME TimeoutsCover, LoopInvariant, ViewInvariant, NEW t \in Ids,
         doc[t].status = "running", beat_by(t), steady({t})
  PROVE  ViewInvariant'
<1> DEFINE event == Event("update", t, "none", Now, NoTimeout)
           d     == [doc[t] EXCEPT !.heartbeat_at = Now]
<1>1. Now \in Nat /\ doc[t] \in DocType /\ SwitchTimeout[t] <= OwnTimeout
  BY LoopAssumption DEF LoopInvariant, Documents, TimeoutsCover
<1>2. event \in ChangeEvent /\ event.id = t /\ event.status # "pending"
  BY <1>1 DEF Event, ChangeEvent
<1>3. expiration_timeout(event) = OwnTimeout
  BY DEF expiration_timeout, Event
<1>4. d.status = "running" /\ d.heartbeat_at = Now
  BY <1>1 DEF DocType
<1>5. event.operation = "update" /\ event.status = "none" /\ event.heartbeat_at = Now
  BY DEF Event
<1>6. write(t, d, event)
  BY DEF beat_by
<1> HIDE DEF event, d
<1>7. tells(event, d)
  BY <1>1, <1>2, <1>3, <1>4, <1>5 DEF tells
<1> QED BY <1>2, <1>6, <1>7, WriteKeepsView

\* The final write announces the end.
LEMMA FinishKeepsView ==
  ASSUME LoopInvariant, ViewInvariant, NEW t \in Ids, finish_of(t), steady({t})
  PROVE  ViewInvariant'
<1> DEFINE event == Event("update", t, "finished", 0, NoTimeout)
<1>1. event \in ChangeEvent /\ event.id = t /\ event.status # "pending"
  BY DEF Event, ChangeEvent
<1>2. tells(event, NoDoc("finished"))
  BY DEF tells, NoDoc, Event
<1>3. write(t, NoDoc("finished"), event)
  BY DEF finish_of
<1> HIDE DEF event
<1> QED BY <1>1, <1>2, <1>3, WriteKeepsView

\* Only a finished or new task becomes pending, and of neither is an entry in
\* view that the stream will not remove.
LEMMA SubmitKeepsView ==
  ASSUME LoopInvariant, ViewInvariant, NEW t \in Ids, submit(t)
  PROVE  ViewInvariant'
<1>1. PICK operation \in {"insert", "update"} :
        write(t, NoDoc("pending"), Event(operation, t, "pending", 0, NoTimeout))
  BY DEF submit
<1> DEFINE event == Event(operation, t, "pending", 0, NoTimeout)
<1>2. event \in ChangeEvent /\ event.id = t
  BY DEF Event, ChangeEvent
<1>3. tells(event, NoDoc("pending"))
  BY DEF tells, NoDoc, Event
<1> HIDE DEF event
<1>4. steady({t}) /\ in_view' = in_view /\ (watching' => watching)
  <2>1. UNCHANGED <<position, tracker, connected>>
    BY DEF submit, write
  <2> QED BY <2>1, StillIsSteady DEF in_view, targeted, watching, position
<1>5. doc[t].status \in {"absent", "finished"}
  BY DEF submit
<1>6. CASE t \in announced
  <2>1. PICK j \in DOMAIN stream :
          stream[j].id = t /\ is_last(j) /\ tells(stream[j], doc[t])
    BY <1>6 DEF ViewInvariant, LastEventTells
  <2>2. stream[j].status = "finished"
    BY <1>5, <2>1 DEF tells
  <2> QED BY <1>1, <1>2, <1>3, <1>4, <2>1, <2>2, WriteKeepsView DEF event
<1>7. CASE t \notin announced
  <2>1. watching => t \notin in_view
    BY <1>5, <1>7 DEF ViewInvariant, ViewUpToDate, up_to_date, over_by, in_view
  <2>2. t \notin announced /\ (watching' => t \notin in_view')
    BY <1>4, <1>7, <2>1
  <2>3. write(t, NoDoc("pending"), event)
    BY <1>1 DEF event
  <2> QED BY <1>2, <1>3, <1>4, <2>2, <2>3, WriteKeepsView
<1> QED BY <1>6, <1>7

\* A deletion is announced too.
LEMMA DeleteKeepsView ==
  ASSUME LoopInvariant, ViewInvariant, NEW t \in Ids, delete(t)
  PROVE  ViewInvariant'
<1> DEFINE event == Event("delete", t, "none", 0, NoTimeout)
<1>1. event \in ChangeEvent /\ event.id = t /\ event.status # "pending"
  BY DEF Event, ChangeEvent
<1>2. tells(event, NoDoc("deleted"))
  BY DEF tells, NoDoc, Event
<1>3. write(t, NoDoc("deleted"), event)
  BY DEF delete
<1>4. steady({t})
  BY StillIsSteady DEF delete, write
<1> HIDE DEF event
<1> QED BY <1>1, <1>2, <1>3, <1>4, WriteKeepsView

\* Everything that handlers, the peer and callers write.
LEMMA OthersKeepView ==
  ASSUME TimeoutsCover, LoopInvariant, LoopInvariant', ViewInvariant, Others
  PROVE  ViewInvariant'
<1>1. ASSUME NEW t \in Ids, own_beats(t) \/ peer_beats(t)
      PROVE  ViewInvariant'
  <2>1. /\ doc[t].status = "running" /\ beat_by(t)
        /\ UNCHANGED <<position, tracker, connected>>
    BY <1>1 DEF own_beats, peer_beats, running, beat_by, write
  <2> QED BY <2>1, StillIsSteady, BeatKeepsView
<1>2. ASSUME NEW t \in Ids, handler_returns(t)
      PROVE  ViewInvariant'
  <2>1. UNCHANGED <<doc, connected, stream, position, tracker>>
    BY <1>2 DEF handler_returns, collection, events
  <2> QED BY <2>1, StillIsSteady, QuietKeepsView
<1>3. ASSUME NEW t \in Ids, peer_claims(t)
      PROVE  ViewInvariant'
  <2>1. claim_by(t, "peer", PeerTimeout) /\ UNCHANGED <<position, tracker, connected>>
    BY <1>3 DEF peer_claims, claim_by, write
  <2> QED BY <2>1, StillIsSteady, ClaimKeepsView
<1>4. ASSUME NEW t \in Ids, handler_completes(t) \/ peer_finishes(t)
      PROVE  ViewInvariant'
  <2>1. finish_of(t) /\ UNCHANGED <<position, tracker, connected>>
    BY <1>4 DEF handler_completes, peer_finishes, finish_of, write
  <2> QED BY <2>1, StillIsSteady, FinishKeepsView
<1> QED BY <1>1, <1>2, <1>3, <1>4, SubmitKeepsView, DeleteKeepsView,
           AroundKeepsView DEF Others

-----------------------------------------------------------------------------
(* The loop claims, pops and reads                                         *)

\* What a won claim does to the tracker.
LEMMA WonTracks ==
  ASSUME LoopInvariant, NEW t \in Ids, won(t)
  PROVE  /\ claim_by(t, "me", OwnTimeout) /\ UNCHANGED connected
         /\ same_but(tracker, tracker', t) /\ tracks_less({t})
<1>1. same_but(tracker, tracker', t)
  BY ScheduleOnly DEF won, LoopInvariant, Tracking
<1>2. tracks_less({t})
  BY <1>1 DEF same_but, tracks_less
<1> QED BY <1>1, <1>2 DEF won, claim_by, write

\* The pumps over ready and stale tasks.
LEMMA PumpKeepsView ==
  ASSUME TimeoutsCover, LoopInvariant, LoopInvariant', ViewInvariant,
         (\E t \in Ids : pump_claims(t)) \/ pump_fails
  PROVE  ViewInvariant'
<1>1. ASSUME NEW t \in Ids, pump_claims(t)
      PROVE  ViewInvariant'
  <2>1. won(t) /\ pc # "scan" /\ \E arm : pump(arm)
    BY <1>1 DEF pump_claims
  <2>2. steady({t})
    BY <2>1, WonTracks, TurnIsSteady
  <2> QED BY <2>1, <2>2, WonTracks, ClaimKeepsView
<1>2. ASSUME pump_fails, UNCHANGED <<doc, events>>
      PROVE  ViewInvariant'
  <2>1. top /\ pc # "scan" /\ tracks_less({}) /\ UNCHANGED <<doc, connected, stream>>
    BY <1>2 DEF pump_fails, tracks_less, events
  <2> QED BY <2>1, TurnIsSteady, QuietKeepsView
<1>3. ASSUME pump_fails, NEW t \in Ids, claim_by(t, "me", OwnTimeout)
      PROVE  ViewInvariant'
  <2>1. top /\ pc # "scan" /\ tracks_less({t}) /\ UNCHANGED connected
    BY <1>3 DEF pump_fails, tracks_less, claim_by, write
  <2> QED BY <1>3, <2>1, TurnIsSteady, ClaimKeepsView
<1> QED BY <1>1, <1>2, <1>3 DEF pump_fails

\* An answered claim of pump_expired_tasks targets nothing any more.
LEMMA AnsweredIsSteady ==
  ASSUME ViewInvariant, NEW S, pc = "expired", claim' = NoClaim,
         UNCHANGED <<pc, due, connected>>, tracks_less(S)
  PROVE  steady(S)
<1>1. targeted' = {}
  BY DEF targeted, NoClaim
<1> QED BY <1>1 DEF steady, shrinks_at, tracks_less, watching, ViewInvariant, ViewShape

\* pump_expired_tasks.
LEMMA ExpiredKeepsView ==
  ASSUME TimeoutsCover, LoopInvariant, LoopInvariant', ViewInvariant,
         \/ \E t \in Ids : \/ expired_skips(t) \/ expired_defers(t)
                           \/ expired_attempts(t) \/ expired_claims(t)
         \/ expired_misses \/ expired_fails \/ expired_done
  PROVE  ViewInvariant'
<1>0. \A t \in Ids : t \in DOMAIN due =>
        /\ due[t].expires_at \in Nat /\ due[t].expires_at <= Now
        /\ doc[t].heartbeat_at \in Nat /\ SwitchTimeout[t] \in Nat /\ Now \in Nat
  BY LoopAssumption, TimeoutAssumption
  DEF LoopInvariant, Position, Entry, Documents, DocType, ViewInvariant, ViewShape
<1>1. ASSUME NEW t \in Ids, expired_skips(t)
      PROVE  ViewInvariant'
  <2>1. /\ due' = [k \in DOMAIN due \ {t} |-> due[k]]
        /\ UNCHANGED <<doc, connected, stream, pc, claim, tracker>>
    BY <1>1 DEF expired_skips, next_due, without, Restrict, collection, events
  <2>2. steady({})
    BY <2>1 DEF steady, shrinks_at, watching, targeted, ViewInvariant, ViewShape
  <2> QED BY <2>1, <2>2, QuietKeepsView
<1>2. ASSUME NEW t \in Ids, expired_defers(t)
      PROVE  ViewInvariant'
  <2>1. /\ pc = "expired" /\ t \in DOMAIN due /\ top
        /\ UNCHANGED <<doc, connected, stream>>
        /\ tracker' = insert(tracker, t, due[t].named, Now + 1)
    BY <1>2 DEF expired_defers, next_due, defer, collection, events
  <2>2. /\ same_but(tracker, tracker', t)
        /\ t \in DOMAIN tracker'.tasks /\ tracker'.tasks[t].expires_at = Now + 1
    BY <2>1, InsertOnly DEF LoopInvariant, Tracking
  <2>3. steady({t})
    <3>1. tracks_less({t})
      BY <2>2 DEF same_but, tracks_less
    <3> QED BY <2>1, <3>1, TurnIsSteady
  <2>4. DOMAIN due' = {} /\ targeted' = {}
    BY <2>1 DEF top, EmptyMap, targeted
  <2>5. ASSUME up_to_date(t)
        PROVE  up_to_date(t)'
    <3>1. over_by(t, due[t].expires_at)
      BY <2>1, <2>5 DEF up_to_date
    <3>2. over_by(t, Now + 1)
      BY <1>0, <2>1, <3>1 DEF over_by
    <3>3. over_by(t, tracker.tasks[t].expires_at)'
      BY <2>1, <2>2, <3>2 DEF over_by
    <3> QED BY <2>4, <3>3 DEF up_to_date
  <2>6. \A u \in Ids : /\ up_to_date(u) => up_to_date(u)'
                       /\ u \in in_view' => u \in in_view
    <3> TAKE u \in Ids
    <3>1. CASE u = t
      BY <2>1, <2>5, <3>1 DEF in_view
    <3>2. CASE u # t
      BY <2>1, <2>3, <3>2, ShrinkKeeps DEF steady
    <3> QED BY <3>1, <3>2
  <2>7. ViewShape'
    BY <2>1, <2>3, <2>4 DEF steady, ViewInvariant, ViewShape
  <2>8. in_view' \subseteq Ids
    BY DEF LoopInvariant, Position, Tracking, IsTracker, in_view, targeted
  <2> QED BY <2>1, <2>3, <2>6, <2>7, <2>8, LookKeepsView DEF steady
<1>3. ASSUME NEW t \in Ids, expired_attempts(t)
      PROVE  ViewInvariant'
  <2>1. /\ due' = [k \in DOMAIN due \ {t} |-> due[k]] /\ t \in DOMAIN due
        /\ pc = "expired" /\ claim'.targets = {t}
        /\ UNCHANGED <<doc, connected, stream, pc, tracker>>
    BY <1>3 DEF expired_attempts, claim_expired_task_by_id, next_due, without,
                Restrict, collection, events
  <2>2. targeted' = {t}
    BY <2>1 DEF targeted
  <2>3. ASSUME NEW u \in Ids, up_to_date(u)
        PROVE  up_to_date(u)'
    <3>1. \A time : over_by(u, time)' <=> over_by(u, time)
      BY <2>1 DEF over_by
    <3>2. u = t => over_by(u, Now)
      BY <1>0, <2>1, <2>3 DEF up_to_date, over_by
    <3> QED BY <2>1, <2>2, <2>3, <3>1, <3>2 DEF up_to_date
  <2>4. in_view' \subseteq in_view
    BY <2>1, <2>2 DEF in_view
  <2>5. ViewShape' /\ (watching' => watching)
    BY <2>1 DEF ViewInvariant, ViewShape, watching
  <2> QED BY <2>1, <2>3, <2>4, <2>5, LookKeepsView
<1>4. ASSUME NEW t \in Ids, expired_claims(t)
      PROVE  ViewInvariant'
  <2>1. won(t) /\ pc = "expired" /\ claim' = NoClaim /\ UNCHANGED <<pc, due>>
    BY <1>4 DEF expired_claims
  <2> QED BY <2>1, WonTracks, AnsweredIsSteady, ClaimKeepsView
<1>5. CASE expired_misses
  <2>1. /\ pc = "expired" /\ claim' = NoClaim /\ tracks_less({})
        /\ UNCHANGED <<doc, connected, stream, pc, due>>
    BY <1>5 DEF expired_misses, tracks_less, collection, events
  <2> QED BY <2>1, AnsweredIsSteady, QuietKeepsView
<1>6. ASSUME expired_fails, UNCHANGED <<doc, events>>
      PROVE  ViewInvariant'
  <2>1. /\ pc = "expired" /\ claim' = NoClaim /\ tracks_less({})
        /\ UNCHANGED <<doc, connected, stream, pc, due>>
    BY <1>6 DEF expired_fails, tracks_less, events
  <2> QED BY <2>1, AnsweredIsSteady, QuietKeepsView
<1>7. ASSUME expired_fails, NEW t \in Ids, claim_by(t, "me", OwnTimeout)
      PROVE  ViewInvariant'
  <2>1. /\ pc = "expired" /\ claim' = NoClaim /\ tracks_less({t})
        /\ UNCHANGED <<pc, due, connected>>
    BY <1>7 DEF expired_fails, tracks_less, claim_by, write
  <2> QED BY <1>7, <2>1, AnsweredIsSteady, ClaimKeepsView
<1>8. CASE expired_done
  <2>1. /\ pc # "scan" /\ top /\ tracks_less({})
        /\ UNCHANGED <<doc, connected, stream>>
    BY <1>8 DEF expired_done, tracks_less, collection, events
  <2> QED BY <2>1, TurnIsSteady, QuietKeepsView
<1> QED BY <1>1, <1>2, <1>3, <1>4, <1>5, <1>6, <1>7, <1>8 DEF expired_fails

\* pop_due moves what is due, unchanged, and nothing else.
LEMMA PopMoves ==
  ASSUME NEW tr, IsTracker(tr), NEW now \in Nat
  PROVE  /\ \A u \in DOMAIN popped(tr, now) :
              /\ u \in DOMAIN tr.tasks /\ popped(tr, now)[u] = tr.tasks[u]
              /\ popped(tr, now)[u].expires_at <= now
         /\ \A u \in DOMAIN pop_due(tr, now).tasks :
              u \in DOMAIN tr.tasks /\ pop_due(tr, now).tasks[u] = tr.tasks[u]
         /\ DOMAIN tr.tasks \subseteq
              DOMAIN popped(tr, now) \cup DOMAIN pop_due(tr, now).tasks
<1> DEFINE out == due_ids(tr, now)
<1>1. popped(tr, now) = [k \in out \cap DOMAIN tr.tasks |-> tr.tasks[k]]
  BY DEF popped, Restrict
<1>2. pop_due(tr, now).tasks = [k \in DOMAIN tr.tasks \ out |-> tr.tasks[k]]
  <2>1. tr = [tasks |-> tr.tasks, deadlines |-> tr.deadlines,
              pending_may_exist |-> tr.pending_may_exist]
    BY DEF IsTracker
  <2> HIDE DEF out
  <2>2. pop_due(tr, now) = [tr EXCEPT
          !.tasks = [k \in DOMAIN tr.tasks \ out |-> tr.tasks[k]],
          !.deadlines = [d \in {x \in DOMAIN tr.deadlines : x > now} |-> tr.deadlines[d]]]
    BY DEF pop_due, Restrict, out
  <2> QED BY <2>1, <2>2
<1>3. \A u \in out : tr.tasks[u].expires_at <= now
  BY DEF due_ids, IsTracker, IndexesAgree
<1> HIDE DEF out
<1> QED BY <1>1, <1>2, <1>3

\* The timer arm.
LEMMA TimerKeepsView ==
  ASSUME LoopInvariant, LoopInvariant', ViewInvariant, select_timer
  PROVE  ViewInvariant' /\ in_view \subseteq in_view'
<1>1. /\ pc = "select" /\ pc' = "expired" /\ claim' = claim
      /\ due' = popped(tracker, Now) /\ tracker' = pop_due(tracker, Now)
      /\ UNCHANGED <<doc, connected, stream>>
  BY DEF select_timer, collection, events
<1>2. /\ \A u \in DOMAIN due' : /\ u \in DOMAIN tracker.tasks /\ due'[u] = tracker.tasks[u]
                               /\ due'[u].expires_at <= Now
      /\ \A u \in DOMAIN tracker'.tasks :
           u \in DOMAIN tracker.tasks /\ tracker'.tasks[u] = tracker.tasks[u]
      /\ DOMAIN tracker.tasks \subseteq DOMAIN due' \cup DOMAIN tracker'.tasks
  BY <1>1, PopMoves, LoopAssumption DEF LoopInvariant, Tracking
<1>3. targeted' = {} /\ targeted = {} /\ DOMAIN due = {}
  BY <1>1 DEF LoopInvariant, Position, targeted, NoClaim
<1>4. ViewShape' /\ watching
  BY <1>1, <1>2 DEF ViewInvariant, ViewShape, watching
<1>5. ASSUME NEW u \in Ids, up_to_date(u)
      PROVE  up_to_date(u)'
  <2>1. \A time : over_by(u, time)' <=> over_by(u, time)
    BY <1>1 DEF over_by
  <2> QED BY <1>2, <1>3, <1>5, <2>1 DEF up_to_date
<1>6. in_view' \subseteq in_view /\ in_view \subseteq in_view'
  BY <1>2, <1>3 DEF in_view
<1> QED BY <1>1, <1>4, <1>5, <1>6, LookKeepsView

\* Reading an event: the last one about a document brings the tracker up to
\* date, an earlier one may set it back, but the last one is then still unread.
LEMMA EventKeepsView ==
  ASSUME LoopInvariant, LoopInvariant', ViewInvariant, select_event
  PROVE  /\ ViewInvariant'
         /\ announced = announced' \cup {Head(stream).id}
         /\ in_view \ {Head(stream).id} \subseteq in_view'
         /\ LET t == Head(stream).id
            IN  t \notin announced' /\ doc[t].status = "running" => t \in in_view'
<1> DEFINE event == Head(stream)
           t     == event.id
<1>1. /\ pc = "select" /\ stream # <<>> /\ stream' = Tail(stream)
      /\ UNCHANGED <<doc, connected>> /\ connected
      /\ tracker' = apply_change_event_to_expirations(tracker, event)
      /\ stream \in Seq(ChangeEvent) /\ event \in ChangeEvent /\ t \in Ids
  <2>1. /\ pc = "select" /\ stream # <<>> /\ stream' = Tail(stream)
        /\ UNCHANGED <<doc, connected>>
        /\ tracker' = apply_change_event_to_expirations(tracker, event)
        /\ stream \in Seq(ChangeEvent)
    BY DEF select_event, collection, LoopInvariant, Events
  <2>2. event \in ChangeEvent
    BY <2>1
  <2>3. t \in Ids
    BY <2>2 DEF ChangeEvent
  <2> QED BY <2>1, <2>2, <2>3 DEF ViewInvariant, ViewShape
<1>2. /\ pc' # "scan" /\ pc' # "expired" /\ (pc' = "select" => connected')
      /\ DOMAIN due' = {} /\ targeted' = {}
  <2>1. CASE announces_ready(event)
    BY <2>1 DEF select_event, pump, top, EmptyMap, targeted
  <2>2. CASE ~announces_ready(event)
    BY <2>2 DEF select_event, top, EmptyMap, targeted
  <2> QED BY <2>1, <2>2
<1>3. DOMAIN due = {} /\ targeted = {} /\ watching /\ watching'
  BY <1>1, <1>2 DEF LoopInvariant, Position, targeted, watching
<1>4. /\ 1 \in DOMAIN stream /\ stream[1] = event
      /\ \A i \in DOMAIN stream' :
           /\ i \in Nat /\ i + 1 \in DOMAIN stream /\ stream'[i] = stream[i + 1]
           /\ is_last(i)' <=> is_last(i + 1)
      /\ \A i \in DOMAIN stream : i \in Nat /\ (i = 1 \/ (i > 1 /\ i - 1 \in DOMAIN stream'))
      /\ announced = announced' \cup {t}
      /\ t \notin announced' => is_last(1)
  BY <1>1, TailLast
<1>5. /\ same_but(tracker, tracker', t)
      /\ event.operation = "update" /\ event.status \in {"running", "none"} =>
           /\ t \in DOMAIN tracker'.tasks
           /\ tracker'.tasks[t].expires_at = event.heartbeat_at + expiration_timeout(event)
      /\ event.operation \in {"insert", "update"} /\ event.status = "pending" =>
           tracker'.tasks = tracker.tasks
      /\ \/ event.operation \in {"insert", "update"} /\ event.status = "finished"
         \/ event.operation = "delete"
         => t \notin DOMAIN tracker'.tasks
  BY <1>1, ApplyOnly DEF LoopInvariant, Tracking
<1> HIDE DEF event, t
<1>6. ViewShape'
  BY <1>1, <1>2 DEF ViewInvariant, ViewShape
<1>7. LastEventTells'
  <2> SUFFICES ASSUME NEW u \in announced'
               PROVE  \E i \in DOMAIN stream' :
                        /\ stream'[i].id = u /\ is_last(i)'
                        /\ tells(stream'[i], doc'[u])
    BY DEF LastEventTells
  <2>1. PICK i \in DOMAIN stream :
          stream[i].id = u /\ is_last(i) /\ tells(stream[i], doc[u])
    BY <1>4 DEF ViewInvariant, LastEventTells
  <2>2. PICK k \in DOMAIN stream' : stream'[k].id = u
    BY DEF announced
  <2>3. k + 1 \in DOMAIN stream /\ stream[k + 1].id = u /\ k \in Nat /\ k + 1 > 1
    <3>1. k \in Nat /\ k + 1 \in DOMAIN stream /\ stream'[k] = stream[k + 1]
      BY <1>4
    <3>2. k \in 1 .. Len(stream')
      BY DEF LoopInvariant, Events
    <3> QED BY <2>2, <3>1, <3>2
  <2>4. i # 1
    BY <2>1, <2>3 DEF is_last
  <2>5. i \in Nat /\ i - 1 \in DOMAIN stream' /\ (i - 1) + 1 = i
    BY <1>4, <2>4
  <2>6. stream'[i - 1] = stream[i] /\ is_last(i - 1)'
    BY <1>4, <2>1, <2>5
  <2> QED BY <1>1, <2>1, <2>5, <2>6
<1>8. ASSUME NEW u \in Ids \ announced'
      PROVE  up_to_date(u)' /\ (u = t /\ doc[u].status = "running" => u \in in_view')
  <2>1. CASE u # t
    <3>1. up_to_date(u)
      BY <1>3, <1>4, <2>1 DEF ViewInvariant, ViewUpToDate
    <3>2. u \in DOMAIN tracker'.tasks =>
            u \in DOMAIN tracker.tasks /\ tracker'.tasks[u] = tracker.tasks[u]
      BY <1>5, <2>1 DEF same_but
    <3> QED BY <1>1, <1>2, <2>1, <3>1, <3>2 DEF up_to_date, over_by
  <2>2. CASE u = t
    <3>1. tells(event, doc[t])
      BY <1>1, <1>4, <2>2, LastTells DEF ViewInvariant, t
    <3>2. CASE doc[t].status = "running"
      <4>1. /\ t \in DOMAIN tracker'.tasks
            /\ tracker'.tasks[t].expires_at = doc[t].heartbeat_at + expiration_timeout(event)
            /\ SwitchTimeout[t] <= expiration_timeout(event)
        BY <1>5, <3>1, <3>2 DEF tells, t
      <4>2. /\ doc[t].heartbeat_at \in Nat /\ SwitchTimeout[t] \in Nat
            /\ expiration_timeout(event) \in Nat
        <5>1. doc[t].heartbeat_at \in Nat
          BY <1>1, LoopAssumption DEF LoopInvariant, Documents, DocType
        <5>2. expiration_timeout(event) \in Nat
          BY <1>1, TimeoutAssumption DEF ChangeEvent, expiration_timeout, NoTimeout
        <5> QED BY <1>1, <5>1, <5>2, TimeoutAssumption
      <4>3. over_by(u, tracker.tasks[u].expires_at)'
        BY <1>1, <2>2, <3>2, <4>1, <4>2 DEF over_by
      <4> QED BY <1>2, <2>2, <4>1, <4>3 DEF up_to_date, in_view
    <3>3. CASE doc[t].status = "pending"
      <4>1. /\ event.operation \in {"insert", "update"} /\ event.status = "pending"
        BY <3>1, <3>3 DEF tells
      <4>2. entry_goes(1)
        BY <1>4, <2>2, <4>1 DEF ViewInvariant, EntriesGo
      <4>3. \A j \in DOMAIN stream : ~(j < 1)
        BY <1>4
      <4>4. t \notin in_view
        BY <1>3, <1>4, <4>2, <4>3 DEF entry_goes, t
      <4> QED BY <1>2, <1>5, <2>2, <3>3, <4>1, <4>4 DEF up_to_date, in_view
    <3>4. CASE doc[t].status \notin {"running", "pending"}
      <4>1. t \notin DOMAIN tracker'.tasks
        BY <1>5, <3>1, <3>4 DEF tells
      <4> QED BY <1>2, <2>2, <3>4, <4>1 DEF up_to_date
    <3> QED BY <3>2, <3>3, <3>4
  <2> QED BY <2>1, <2>2
<1>9. EntriesGo'
  <2> SUFFICES ASSUME NEW i \in DOMAIN stream', is_last(i)', stream'[i].status = "pending"
               PROVE  entry_goes(i)'
    BY DEF EntriesGo
  <2>1. /\ i \in Nat /\ i + 1 \in DOMAIN stream /\ stream'[i] = stream[i + 1]
        /\ entry_goes(i + 1) /\ stream[i + 1].id \in Ids
    BY <1>1, <1>4, EventIds DEF ViewInvariant, EntriesGo
  <2>2. CASE /\ \A k \in DOMAIN stream : k < i + 1 => stream[k].id # stream[i + 1].id
             /\ watching => stream[i + 1].id \notin in_view
    <3>1. stream[i + 1].id # t
      <4>1. stream[1].id = t
        BY <1>4 DEF t
      <4>2. 1 < i + 1
        BY <2>1 DEF LoopInvariant, Events
      <4> QED BY <1>4, <2>2, <4>1, <4>2
    <3>2. stream'[i].id \notin in_view'
      BY <1>2, <1>3, <1>5, <2>1, <2>2, <3>1 DEF same_but, in_view
    <3>3. \A k \in DOMAIN stream' : k < i => stream'[k].id # stream'[i].id
      BY <1>4, <2>1, <2>2
    <3> QED BY <3>2, <3>3 DEF entry_goes
  <2>3. CASE \E j \in DOMAIN stream :
               /\ j < i + 1 /\ stream[j].id = stream[i + 1].id
               /\ stream[j].status = "finished"
               /\ \A k \in DOMAIN stream :
                    j < k /\ k < i + 1 => stream[k].id # stream[i + 1].id
    <3>1. PICK j \in DOMAIN stream :
            /\ j < i + 1 /\ stream[j].id = stream[i + 1].id
            /\ stream[j].status = "finished"
            /\ \A k \in DOMAIN stream :
                 j < k /\ k < i + 1 => stream[k].id # stream[i + 1].id
      BY <2>3
    <3>2. CASE j = 1
      <4>1. event.status = "finished" /\ stream[i + 1].id = t
        BY <1>4, <3>1, <3>2 DEF t
      <4>2. event.operation \in {"insert", "update", "delete"}
        BY <1>1 DEF ChangeEvent
      <4>3. t \notin DOMAIN tracker'.tasks
        BY <1>5, <4>1, <4>2
      <4>4. stream'[i].id \notin in_view'
        BY <1>2, <2>1, <4>1, <4>3 DEF in_view
      <4>5. \A k \in DOMAIN stream' : k < i => stream'[k].id # stream'[i].id
        <5> TAKE k \in DOMAIN stream'
        <5>1. k \in Nat /\ k + 1 \in DOMAIN stream /\ stream'[k] = stream[k + 1]
          BY <1>4
        <5>2. k \in 1 .. Len(stream')
          BY DEF LoopInvariant, Events
        <5> QED BY <2>1, <3>1, <3>2, <5>1, <5>2
      <4> QED BY <4>4, <4>5 DEF entry_goes
    <3>3. CASE j # 1
      <4>1. j \in Nat /\ j - 1 \in DOMAIN stream' /\ (j - 1) + 1 = j
        BY <1>4, <3>3
      <4>2. stream'[j - 1] = stream[j] /\ j - 1 < i
        BY <1>4, <2>1, <3>1, <4>1
      <4>3. \A k \in DOMAIN stream' :
              j - 1 < k /\ k < i => stream'[k].id # stream'[i].id
        <5> TAKE k \in DOMAIN stream'
        <5>1. k \in Nat /\ k + 1 \in DOMAIN stream /\ stream'[k] = stream[k + 1]
          BY <1>4
        <5> QED BY <2>1, <3>1, <4>1, <5>1
      <4> QED BY <2>1, <3>1, <4>1, <4>2, <4>3 DEF entry_goes
    <3> QED BY <3>2, <3>3
  <2> QED BY <2>1, <2>2, <2>3 DEF entry_goes
<1>10. in_view \ {t} \subseteq in_view'
  BY <1>3, <1>5 DEF same_but, in_view, LoopInvariant, Tracking, IsTracker
<1>11. ViewInvariant'
  BY <1>6, <1>7, <1>8, <1>9 DEF ViewInvariant, ViewUpToDate
<1>12. t \notin announced' /\ doc[t].status = "running" => t \in in_view'
  BY <1>1, <1>8
<1> QED BY <1>4, <1>10, <1>11, <1>12 DEF t, event

\* A tick makes every deadline one tick older.
LEMMA TrackerAges ==
  ASSUME LoopInvariant, Tick
  PROVE  /\ DOMAIN tracker'.tasks = DOMAIN tracker.tasks
         /\ \A t \in DOMAIN tracker.tasks :
              tracker'.tasks[t].expires_at = older(tracker.tasks[t].expires_at)
<1>1. IsTracker(tracker)
  BY DEF LoopInvariant, Tracking
<1>2. tracker' = [tracker EXCEPT
        !.tasks = aged(@),
        !.deadlines = [d \in {older(x) : x \in DOMAIN tracker.deadlines} |->
                         UNION {tracker.deadlines[x] :
                           x \in {y \in DOMAIN tracker.deadlines : older(y) = d}}]]
  BY DEF Tick
<1> QED BY <1>1, <1>2, AgedIs

\* Time passes: heartbeats and deadlines grow older together.
LEMMA TickKeepsView ==
  ASSUME LoopInvariant, ViewInvariant, Tick
  PROVE  ViewInvariant' /\ in_view' = in_view /\ announced' = announced
<1> USE DEF ViewInvariant
<1>0. \A x \in Nat : older(x) \in Nat /\ older(x) <= x
  BY DEF older
<1>1. UNCHANGED <<pc, claim, connected>>
  BY DEF Tick
<1>2. \A t \in Ids : /\ doc[t] \in DocType /\ doc'[t].status = doc[t].status
                     /\ doc[t].heartbeat_at \in Nat
                     /\ doc'[t].heartbeat_at = older(doc[t].heartbeat_at)
  <2> TAKE t \in Ids
  <2>1. doc[t] \in DocType
    BY DEF LoopInvariant, Documents
  <2>2. doc'[t] = [doc[t] EXCEPT !.heartbeat_at = older(@)]
    BY DEF Tick
  <2> QED BY <2>1, <2>2, LoopAssumption DEF DocType
<1>3. /\ DOMAIN stream' = DOMAIN stream
      /\ \A i \in DOMAIN stream :
           /\ stream'[i].id = stream[i].id /\ stream[i].id \in Ids
           /\ stream'[i].operation = stream[i].operation
           /\ stream'[i].status = stream[i].status
           /\ stream'[i].switch_timeout = stream[i].switch_timeout
           /\ stream'[i].heartbeat_at = older(stream[i].heartbeat_at)
  BY StreamAges DEF LoopInvariant
<1>4. announced' = announced /\ \A i \in DOMAIN stream : is_last(i)' <=> is_last(i)
  BY <1>3 DEF announced, is_last
<1>5. /\ DOMAIN due' = DOMAIN due
      /\ \A t \in DOMAIN due : /\ due[t].expires_at \in Nat
                               /\ due'[t].expires_at = older(due[t].expires_at)
  <2>1. due' = [t \in DOMAIN due |-> [due[t] EXCEPT !.expires_at = older(@)]]
    BY DEF Tick, aged
  <2>2. \A t \in DOMAIN due : due[t] \in Entry
    BY DEF LoopInvariant, Position
  <2> QED BY <2>1, <2>2 DEF Entry
<1>6. /\ DOMAIN tracker'.tasks = DOMAIN tracker.tasks
      /\ \A t \in DOMAIN tracker.tasks :
           /\ tracker.tasks[t].expires_at \in Nat
           /\ tracker'.tasks[t].expires_at = older(tracker.tasks[t].expires_at)
  <2>1. \A t \in DOMAIN tracker.tasks : tracker.tasks[t] \in Entry
    BY DEF LoopInvariant, Tracking, IsTracker
  <2>2. /\ DOMAIN tracker'.tasks = DOMAIN tracker.tasks
        /\ \A t \in DOMAIN tracker.tasks :
             tracker'.tasks[t].expires_at = older(tracker.tasks[t].expires_at)
    BY TrackerAges
  <2> QED BY <2>1, <2>2 DEF Entry
<1>7. in_view' = in_view /\ targeted' = targeted /\ (watching' <=> watching)
  BY <1>1, <1>5, <1>6 DEF in_view, targeted, watching
<1>8. ViewShape'
  <2>1. ~connected => DOMAIN stream = {}
    BY DEF ViewShape
  <2>2. DOMAIN stream' = {} => stream' = <<>>
    BY DEF Tick
  <2>3. \A t \in DOMAIN due' : due'[t].expires_at <= Now
    BY <1>0, <1>5, LoopAssumption DEF ViewShape
  <2> QED BY <1>1, <1>3, <2>1, <2>2, <2>3 DEF ViewShape
<1>9. ASSUME NEW t \in Ids
      PROVE  /\ \A x \in Nat : over_by(t, x) =>
                  /\ doc'[t].status = "running"
                  /\ \/ doc'[t].heartbeat_at = 0
                     \/ doc'[t].heartbeat_at + SwitchTimeout[t] <= older(x)
             /\ over_by(t, Now) => over_by(t, Now)'
  <2>1. doc[t].heartbeat_at \in Nat /\ SwitchTimeout[t] \in Nat /\ Now \in Nat
    BY <1>2, LoopAssumption, TimeoutAssumption
  <2>2. \A x \in Nat : over_by(t, x) =>
          /\ doc'[t].status = "running"
          /\ \/ doc'[t].heartbeat_at = 0
             \/ doc'[t].heartbeat_at + SwitchTimeout[t] <= older(x)
    BY <1>2, <2>1 DEF over_by, older
  <2>3. \A x \in Nat : older(x) <= x
    BY <1>0
  <2>4. over_by(t, Now) => over_by(t, Now)'
    BY <1>2, <2>1 DEF over_by, older
  <2> QED BY <2>2, <2>4
<1>10. ViewUpToDate'
  <2> SUFFICES ASSUME watching', NEW t \in Ids \ announced'
               PROVE  up_to_date(t)'
    BY DEF ViewUpToDate
  <2>1. up_to_date(t)
    BY <1>4, <1>7 DEF ViewUpToDate
  <2>2. t \in DOMAIN tracker'.tasks => over_by(t, tracker.tasks[t].expires_at)'
    BY <1>6, <1>9, <2>1 DEF up_to_date, over_by
  <2>3. t \in DOMAIN due' => over_by(t, due[t].expires_at)'
    BY <1>5, <1>9, <2>1 DEF up_to_date, over_by
  <2>4. t \in targeted' => over_by(t, Now)'
    BY <1>7, <1>9, <2>1 DEF up_to_date
  <2> QED BY <2>2, <2>3, <2>4 DEF up_to_date
<1>11. LastEventTells'
  <2> SUFFICES ASSUME NEW t \in announced
               PROVE  \E i \in DOMAIN stream' :
                        stream'[i].id = t /\ is_last(i)' /\ tells(stream'[i], doc'[t])
    BY <1>4 DEF LastEventTells
  <2>1. PICK i \in DOMAIN stream :
          stream[i].id = t /\ is_last(i) /\ tells(stream[i], doc[t])
    BY DEF LastEventTells
  <2>2. expiration_timeout(stream'[i]) = expiration_timeout(stream[i])
    BY <1>3 DEF expiration_timeout
  <2>3. tells(stream'[i], doc'[t])
    BY <1>2, <1>3, <2>1, <2>2 DEF tells
  <2> QED BY <1>3, <1>4, <2>1, <2>3
<1>12. EntriesGo'
  <2> SUFFICES ASSUME NEW i \in DOMAIN stream, is_last(i), stream[i].status = "pending"
               PROVE  entry_goes(i)'
    BY <1>3, <1>4 DEF EntriesGo
  <2>1. entry_goes(i)
    BY DEF EntriesGo
  <2> QED BY <1>3, <1>7, <2>1 DEF entry_goes
<1> QED BY <1>4, <1>7, <1>8, <1>10, <1>11, <1>12

-----------------------------------------------------------------------------
(* The invariant of the view                                               *)

\* At the start the loop has nothing in view and has read nothing.
LEMMA ViewInit == Init => ViewInvariant
<1> SUFFICES ASSUME Init PROVE ViewInvariant
  OBVIOUS
<1>1. /\ stream = <<>> /\ connected = FALSE /\ pc = "open" /\ DOMAIN due = {}
  BY DEF Init, EmptyMap
<1>2. DOMAIN stream = {} /\ ~watching
  BY <1>1 DEF watching
<1> QED BY <1>1, <1>2 DEF ViewInvariant, ViewShape, LastEventTells, announced,
                          ViewUpToDate, EntriesGo

\* Every step but a failed scan keeps the invariant.
LEMMA ViewStep ==
  TimeoutsCover /\ LoopInvariant /\ LoopInvariant' /\ ViewInvariant
    /\ [Next]_vars /\ [~scan_fails]_vars => ViewInvariant'
<1> SUFFICES ASSUME TimeoutsCover, LoopInvariant, LoopInvariant', ViewInvariant,
                    [Next]_vars, [~scan_fails]_vars
             PROVE  ViewInvariant'
  OBVIOUS
<1>1. CASE UNCHANGED vars
  BY <1>1, AroundKeepsView
<1>2. CASE Next /\ ~scan_fails
  <2>1. CASE open_change_stream \/ Work
    BY <2>1, AroundKeepsView, ScanKeepsView, PumpKeepsView, ExpiredKeepsView DEF Work
  <2>2. CASE Faults
    BY <1>2, <2>2, AroundKeepsView, PumpKeepsView, ExpiredKeepsView DEF Faults
  <2>3. CASE Select
    BY <2>3, AroundKeepsView, TimerKeepsView, EventKeepsView DEF Select
  <2> QED BY <1>2, <2>1, <2>2, <2>3, OthersKeepView, TickKeepsView DEF Next
<1> QED BY <1>1, <1>2

\* Unless a scan fails, and as long as no task has a longer switch timeout than
\* the workers, the last unread event about a document tells what it is, and
\* the tracker is right about every document without one.
THEOREM ViewStaysRight ==
  ASSUME TimeoutsCover
  PROVE  Spec /\ [][~scan_fails]_vars => []ViewInvariant
<1>1. Init => LoopInvariant /\ ViewInvariant
  BY LoopInit, ViewInit
<1>2. LoopInvariant /\ ViewInvariant /\ [Next]_vars /\ [~scan_fails]_vars
        => LoopInvariant' /\ ViewInvariant'
  BY LoopStep, ViewStep
<1> QED BY <1>1, <1>2, PTL DEF Spec

\* A targeted claim that misses: without news the lease would be over, and the
\* claim would have found it so.
LEMMA MissIsNews ==
  ASSUME LoopInvariant, ViewInvariant, expired_misses
  PROVE  claim.targets \subseteq announced \cup claim.excluded
<1> SUFFICES ASSUME NEW t \in claim.targets, t \notin announced, t \notin claim.excluded
             PROVE  FALSE
  OBVIOUS
<1>1. /\ pc = "expired" /\ claim.arm = "expired" /\ t \in Ids
  BY DEF expired_misses, LoopInvariant, Position
<1>2. watching /\ t \in targeted
  BY <1>1 DEF ViewInvariant, ViewShape, watching, targeted
<1>3. over_by(t, Now)
  BY <1>1, <1>2 DEF ViewInvariant, ViewUpToDate, up_to_date
<1>4. lease_expired(t)
  BY <1>1, <1>3, LoopAssumption, TimeoutAssumption DEF over_by, lease_expired
<1>5. claim_filter(t)
  BY <1>1, <1>3, <1>4 DEF claim_filter, over_by
<1> QED BY <1>1, <1>5 DEF expired_misses, nothing_to_claim

\* "Its matching change-stream event will install the newer deadline or remove
\* the entry" (pump_expired_tasks) is right, for any number of tasks, permits and
\* faults other than a failed scan: a targeted claim that finds its task not
\* expired has an unread event about it, unless the task is in flight here.
THEOREM MissesMeanNews ==
  ASSUME TimeoutsCover
  PROVE  Spec /\ [][~scan_fails]_vars => MissMeansNews
<1>1. LoopInvariant /\ ViewInvariant /\ [Next]_vars
        => [expired_misses => claim.targets \subseteq announced \cup claim.excluded]_vars
  BY MissIsNews
<1>2. Spec => []LoopInvariant
  BY LoopInit, LoopStep, PTL DEF Spec
<1> QED BY <1>1, <1>2, ViewStaysRight, PTL DEF Spec, MissMeansNews

-----------------------------------------------------------------------------
(* What the peer runs stays in view                                        *)

\* The step forgets no task.
forgets_none == \A t \in Ids : forgotten(t)' => forgotten(t)

\* Steps that leave documents and stream alone and let go of nothing.
LEMMA QuietKeeps ==
  ASSUME UNCHANGED <<doc, connected, stream>>, watching' => watching,
         NEW t \in Ids, t \in in_view => t \in in_view' \cup announced
  PROVE  forgotten(t)' => forgotten(t)
<1>1. announced' = announced
  BY DEF announced
<1>2. running(t, "peer")' <=> running(t, "peer")
  BY DEF running
<1> QED BY <1>1, <1>2 DEF forgotten

\* A write announces its document, and lets go of no other.
LEMMA WriteForgetsNone ==
  ASSUME LoopInvariant, NEW t \in Ids, NEW d,
         NEW event \in ChangeEvent, event.id = t, write(t, d, event),
         watching' => watching,
         \A u \in Ids \ {t} : u \in in_view => u \in in_view'
  PROVE  forgets_none
<1> SUFFICES ASSUME NEW u \in Ids, forgotten(u)'
             PROVE  forgotten(u)
  BY DEF forgets_none
<1>0. watching' /\ running(u, "peer")' /\ u \notin in_view' /\ u \notin announced'
  BY DEF forgotten
<1>1. stream \in Seq(ChangeEvent) /\ stream' = Append(stream, event)
  BY <1>0 DEF LoopInvariant, Events, write, watching
<1>2. announced' = announced \cup {t}
  BY <1>1, AppendedLast
<1>3. u # t /\ u \notin announced /\ doc'[u] = doc[u]
  BY <1>0, <1>2 DEF write, LoopInvariant, Documents
<1>4. running(u, "peer")
  BY <1>0, <1>3 DEF running
<1> QED BY <1>0, <1>3, <1>4 DEF forgotten

\* Every write of a document announces it.
LEMMA WritesAnnounce ==
  ASSUME NEW t \in Ids,
         \/ \E owner : \E timeout \in {OwnTimeout, PeerTimeout} :
              claim_by(t, owner, timeout)
         \/ beat_by(t) \/ finish_of(t) \/ submit(t) \/ delete(t)
  PROVE  \E d : \E event \in ChangeEvent : event.id = t /\ write(t, d, event)
<1>0. /\ OwnTimeout \in Nat /\ PeerTimeout \in Nat /\ Now \in Nat
  BY TimeoutAssumption, LoopAssumption
<1>1. ASSUME NEW owner, NEW timeout \in {OwnTimeout, PeerTimeout},
             claim_by(t, owner, timeout)
      PROVE  \E d : \E event \in ChangeEvent : event.id = t /\ write(t, d, event)
  <2>1. /\ Event("update", t, "running", Now, timeout) \in ChangeEvent
        /\ Event("update", t, "running", Now, timeout).id = t
    BY <1>0 DEF Event, ChangeEvent
  <2> QED BY <1>1, <2>1 DEF claim_by
<1>2. CASE beat_by(t)
  <2>1. /\ Event("update", t, "none", Now, NoTimeout) \in ChangeEvent
        /\ Event("update", t, "none", Now, NoTimeout).id = t
    BY <1>0 DEF Event, ChangeEvent
  <2> QED BY <1>2, <2>1 DEF beat_by
<1>3. CASE finish_of(t)
  <2>1. /\ Event("update", t, "finished", 0, NoTimeout) \in ChangeEvent
        /\ Event("update", t, "finished", 0, NoTimeout).id = t
    BY DEF Event, ChangeEvent
  <2> QED BY <1>3, <2>1 DEF finish_of
<1>4. CASE submit(t)
  <2>1. \A operation \in {"insert", "update"} :
          /\ Event(operation, t, "pending", 0, NoTimeout) \in ChangeEvent
          /\ Event(operation, t, "pending", 0, NoTimeout).id = t
    BY DEF Event, ChangeEvent
  <2> QED BY <1>4, <2>1 DEF submit
<1>5. CASE delete(t)
  <2>1. /\ Event("delete", t, "none", 0, NoTimeout) \in ChangeEvent
        /\ Event("delete", t, "none", 0, NoTimeout).id = t
    BY DEF Event, ChangeEvent
  <2> QED BY <1>5, <2>1 DEF delete
<1> QED BY <1>1, <1>2, <1>3, <1>4, <1>5

\* Away from pump_expired_tasks nothing is popped or targeted.
LEMMA ViewElsewhere ==
  /\ LoopInvariant /\ pc # "expired" => in_view = DOMAIN tracker.tasks
  /\ LoopInvariant' /\ pc' # "expired" => in_view' = DOMAIN tracker'.tasks
  BY DEF LoopInvariant, Position, in_view, targeted

\* The steps of the loop around its pumps.
LEMMA AroundForgetsNone ==
  ASSUME LoopInvariant, LoopInvariant',
         \/ open_change_stream \/ open_fails \/ open_unsupported
         \/ probe \/ probe_fails \/ pump_tries_own \/ pump_misses
         \/ select_stop \/ select_ticker \/ select_join \/ select_stream_lost
         \/ drain \/ peer_dies \/ shutdown \/ (\E t \in Ids : handler_lost(t))
         \/ UNCHANGED vars
  PROVE  forgets_none
<1>0. ASSUME pc # "expired", pc' # "expired", pc # "scan",
             UNCHANGED <<doc, events>>, tracker'.tasks = tracker.tasks
      PROVE  forgets_none
  <2>1. in_view' = in_view /\ (watching' => watching)
    BY <1>0, ViewElsewhere DEF watching, events
  <2> QED BY <1>0, <2>1, QuietKeeps DEF forgets_none, events
<1>1. CASE open_change_stream \/ select_stop \/ select_stream_lost
  <2>1. ~watching'
    BY <1>1 DEF open_change_stream, select_stop, select_stream_lost, watching
  <2> QED BY <2>1 DEF forgets_none, forgotten
<1>2. CASE open_fails \/ open_unsupported \/ select_ticker \/ drain \/ pump_tries_own
  BY <1>0, <1>2 DEF open_fails, open_unsupported, select_ticker, drain,
                    pump_tries_own, collection
<1>3. \A arm : pump(arm) \/ top => pc' # "expired"
  BY DEF pump, top
<1>4. CASE probe
  <2>1. tracker'.tasks = tracker.tasks
    <3> DEFINE found == \E t \in Ids : doc[t].status = "pending"
    <3>1. found \in BOOLEAN
      OBVIOUS
    <3>2. tracker' = set_pending_may_exist(tracker, found)
      BY <1>4 DEF probe
    <3> HIDE DEF found
    <3>3. \A b \in BOOLEAN : set_pending_may_exist(tracker, b).tasks = tracker.tasks
      BY HintIs DEF LoopInvariant, Tracking
    <3> QED BY <3>1, <3>2, <3>3, Zenon
  <2>2. pc' # "expired"
    BY <1>3, <1>4 DEF probe, pump_of_trigger
  <2> QED BY <1>0, <1>4, <2>1, <2>2 DEF probe, collection
<1>5. CASE probe_fails \/ select_join
  BY <1>0, <1>3, <1>5 DEF probe_fails, pump_of_trigger, select_join, collection
<1>6. CASE pump_misses
  <2>1. tracker'.tasks = tracker.tasks
    BY <1>6, HintIs DEF pump_misses, LoopInvariant, Tracking
  <2> QED BY <1>0, <1>3, <1>6, <2>1 DEF pump_misses, collection
<1>7. CASE peer_dies \/ shutdown \/ (\E t \in Ids : handler_lost(t)) \/ UNCHANGED vars
  <2>1. UNCHANGED <<doc, connected, stream, position, tracker>>
    BY <1>7 DEF peer_dies, shutdown, handler_lost, vars, collection, events, position
  <2>2. in_view' = in_view /\ (watching' => watching)
    BY <2>1 DEF in_view, targeted, watching, position
  <2> QED BY <2>1, <2>2, QuietKeeps DEF forgets_none
<1> QED BY <1>1, <1>2, <1>4, <1>5, <1>6, <1>7

\* What handlers, the peer and callers write is announced.
LEMMA OthersForgetNone ==
  ASSUME LoopInvariant, LoopInvariant', Others
  PROVE  forgets_none
<1>1. ASSUME UNCHANGED <<position, tracker, connected>>
      PROVE  in_view' = in_view /\ (watching' => watching)
  BY <1>1 DEF in_view, targeted, watching, position
<1>2. ASSUME NEW t \in Ids, UNCHANGED <<position, tracker>>,
             \/ claim_by(t, "peer", PeerTimeout)
             \/ beat_by(t) \/ finish_of(t) \/ submit(t) \/ delete(t)
      PROVE  forgets_none
  <2>1. PICK d : \E event \in ChangeEvent : event.id = t /\ write(t, d, event)
    BY <1>2, WritesAnnounce
  <2>2. PICK event \in ChangeEvent : event.id = t /\ write(t, d, event)
    BY <2>1
  <2>3. in_view' = in_view /\ (watching' => watching)
    BY <1>1, <1>2, <2>2 DEF write
  <2> QED BY <2>2, <2>3, WriteForgetsNone
<1>3. ASSUME NEW t \in Ids, handler_returns(t)
      PROVE  forgets_none
  <2>1. UNCHANGED <<doc, connected, stream, position, tracker>>
    BY <1>3 DEF handler_returns, collection, events
  <2> QED BY <1>1, <2>1, QuietKeeps DEF forgets_none
<1>4. ASSUME NEW t \in Ids, \/ own_beats(t) \/ handler_completes(t) \/ submit(t)
                            \/ delete(t) \/ peer_claims(t) \/ peer_beats(t)
                            \/ peer_finishes(t)
      PROVE  forgets_none
  BY <1>2, <1>4 DEF own_beats, handler_completes, submit, delete, peer_claims,
                    peer_beats, peer_finishes
<1>5. CASE peer_dies \/ shutdown
  BY <1>5, AroundForgetsNone
<1> QED BY <1>3, <1>4, <1>5 DEF Others

\* A claim that the loop makes, whether it learns of it or not.
LEMMA PumpForgetsNone ==
  ASSUME LoopInvariant, LoopInvariant', (\E t \in Ids : pump_claims(t)) \/ pump_fails
  PROVE  forgets_none
<1>0. /\ pc = "pump" /\ pc' # "expired" /\ (watching' => watching)
  BY DEF pump_claims, pump_fails, pump, top, watching, won, claim_by, write, events
<1>1. ASSUME NEW t \in Ids, claim_by(t, "me", OwnTimeout), same_but(tracker, tracker', t)
      PROVE  forgets_none
  <2>1. PICK d : \E event \in ChangeEvent : event.id = t /\ write(t, d, event)
    BY <1>1, WritesAnnounce
  <2>2. PICK event \in ChangeEvent : event.id = t /\ write(t, d, event)
    BY <2>1
  <2>3. \A u \in Ids \ {t} : u \in in_view => u \in in_view'
    BY <1>0, <1>1, ViewElsewhere DEF same_but
  <2> QED BY <1>0, <2>2, <2>3, WriteForgetsNone
<1>2. ASSUME NEW t \in Ids, pump_claims(t)
      PROVE  forgets_none
  BY <1>1, <1>2, WonTracks DEF pump_claims
<1>3. CASE pump_fails /\ UNCHANGED <<doc, events>>
  <2>1. in_view' = in_view
    BY <1>0, <1>3, ViewElsewhere DEF pump_fails
  <2> QED BY <1>0, <1>3, <2>1, QuietKeeps DEF forgets_none, events
<1>4. ASSUME pump_fails, NEW t \in Ids, claim_by(t, "me", OwnTimeout)
      PROVE  forgets_none
  <2>1. same_but(tracker, tracker', t)
    BY <1>4 DEF pump_fails, same_but
  <2> QED BY <1>1, <1>4, <2>1
<1> QED BY <1>2, <1>3, <1>4 DEF pump_fails

\* pump_expired_tasks lets go of a task only at the places that `drops' names, or
\* when an event about it is unread.
LEMMA ExpiredForgets ==
  ASSUME LoopInvariant, LoopInvariant', ViewInvariant,
         \/ \E u \in Ids : \/ expired_skips(u) \/ expired_defers(u)
                           \/ expired_attempts(u) \/ expired_claims(u)
         \/ expired_misses \/ expired_fails \/ expired_done,
         NEW t \in Ids, ~drops(t)
  PROVE  forgotten(t)' => forgotten(t)
<1>1. ASSUME NEW u \in Ids, expired_skips(u)
      PROVE  forgotten(t)' => forgotten(t)
  <2>1. /\ due' = [k \in DOMAIN due \ {u} |-> due[k]]
        /\ UNCHANGED <<doc, connected, stream, pc, claim, tracker>>
    BY <1>1 DEF expired_skips, next_due, without, Restrict, collection, events
  <2>2. t # u
    BY <1>1 DEF drops
  <2>3. t \in in_view => t \in in_view'
    BY <2>1, <2>2 DEF in_view, targeted
  <2>4. watching' => watching
    BY <2>1 DEF watching
  <2> QED BY <2>1, <2>3, <2>4, QuietKeeps
<1>2. ASSUME NEW u \in Ids, expired_defers(u)
      PROVE  forgotten(t)' => forgotten(t)
  <2>1. /\ pc = "expired" /\ claim = NoClaim /\ pc' # "expired"
        /\ UNCHANGED <<doc, connected, stream>>
        /\ tracker' = insert(tracker, u, due[u].named, Now + 1)
    BY <1>2 DEF expired_defers, next_due, defer, collection, events, top
  <2>2. same_but(tracker, tracker', u) /\ u \in DOMAIN tracker'.tasks
    BY <2>1, InsertOnly DEF LoopInvariant, Tracking
  <2>3. t = u \/ t \notin DOMAIN due
    BY <1>2 DEF drops
  <2>4. t \in in_view => t \in in_view'
    BY <2>1, <2>2, <2>3 DEF in_view, targeted, NoClaim, same_but
  <2>5. watching' => watching
    BY <2>1 DEF watching
  <2> QED BY <2>1, <2>4, <2>5, QuietKeeps
<1>3. ASSUME NEW u \in Ids, expired_attempts(u)
      PROVE  forgotten(t)' => forgotten(t)
  <2>1. /\ due' = [k \in DOMAIN due \ {u} |-> due[k]]
        /\ pc = "expired" /\ claim = NoClaim /\ claim'.targets = {u}
        /\ UNCHANGED <<doc, connected, stream, pc, tracker>>
    BY <1>3 DEF expired_attempts, claim_expired_task_by_id, next_due, without,
                Restrict, collection, events
  <2>2. t \in in_view => t \in in_view'
    BY <2>1 DEF in_view, targeted, NoClaim
  <2>3. watching' => watching
    BY <2>1 DEF watching
  <2> QED BY <2>1, <2>2, <2>3, QuietKeeps
<1>4. ASSUME NEW u \in Ids, claim_by(u, "me", OwnTimeout), same_but(tracker, tracker', u),
             pc = "expired", claim.targets = {u}, UNCHANGED <<pc, due>>
      PROVE  forgotten(t)' => forgotten(t)
  <2>1. PICK d : \E event \in ChangeEvent : event.id = u /\ write(u, d, event)
    BY <1>4, WritesAnnounce
  <2>2. PICK event \in ChangeEvent : event.id = u /\ write(u, d, event)
    BY <2>1
  <2>3. \A v \in Ids \ {u} : v \in in_view => v \in in_view'
    BY <1>4 DEF in_view, targeted, same_but
  <2>4. watching' => watching
    BY <1>4, <2>2 DEF watching, write
  <2> QED BY <2>2, <2>3, <2>4, WriteForgetsNone DEF forgets_none
<1>5. \A u \in Ids : claim_filter(u) /\ pc = "expired" => claim.targets = {u}
  BY DEF claim_filter, LoopInvariant, Position, NoClaim
<1>6. ASSUME NEW u \in Ids, expired_claims(u)
      PROVE  forgotten(t)' => forgotten(t)
  BY <1>4, <1>5, <1>6, WonTracks DEF expired_claims, won
<1>7. ASSUME pc = "expired", claim' = NoClaim,
             UNCHANGED <<doc, connected, stream, pc, due, tracker>>,
             t \notin claim.targets \/ t \in announced
      PROVE  forgotten(t)' => forgotten(t)
  <2>1. t \in in_view => t \in in_view' \cup announced
    BY <1>7 DEF in_view, targeted
  <2>2. watching' => watching
    BY <1>7 DEF watching
  <2> QED BY <1>7, <2>1, <2>2, QuietKeeps
<1>8. CASE expired_misses
  <2>1. claim.targets \subseteq announced \cup claim.excluded
    BY <1>8, MissIsNews
  <2>2. t \notin claim.targets \cap claim.excluded
    BY <1>8 DEF drops
  <2> QED BY <1>7, <1>8, <2>1, <2>2 DEF expired_misses, collection, events
<1>9. CASE expired_fails
  <2>1. t \notin claim.targets
    BY <1>9 DEF drops
  <2>2. CASE UNCHANGED <<doc, events>>
    BY <1>7, <1>9, <2>1, <2>2 DEF expired_fails, events
  <2>3. ASSUME NEW u \in Ids, claim_filter(u), claim_by(u, "me", OwnTimeout)
        PROVE  forgotten(t)' => forgotten(t)
    <3>1. same_but(tracker, tracker', u)
      BY <1>9 DEF expired_fails, same_but
    <3> QED BY <1>4, <1>5, <1>9, <2>3, <3>1 DEF expired_fails
  <2> QED BY <1>9, <2>2, <2>3 DEF expired_fails
<1>10. CASE expired_done
  <2>1. /\ pc = "expired" /\ claim = NoClaim /\ DOMAIN due = {}
        /\ UNCHANGED <<doc, connected, stream, tracker>>
    BY <1>10 DEF expired_done, collection, events
  <2>2. t \in in_view => t \in in_view'
    BY <2>1 DEF in_view, targeted, NoClaim
  <2>3. watching' => watching
    BY <2>1 DEF watching
  <2> QED BY <2>1, <2>2, <2>3, QuietKeeps
<1> QED BY <1>1, <1>2, <1>3, <1>6, <1>8, <1>9, <1>10

\* Scans, deadlines, events and time.
LEMMA ViewForgetsNone ==
  ASSUME LoopInvariant, LoopInvariant', ViewInvariant,
         scan \/ select_timer \/ select_event \/ Tick
  PROVE  forgets_none
<1>1. CASE scan
  <2>1. \A t \in Ids : doc'[t].status = "running" => t \in in_view'
    BY <1>1, ScanKeepsView
  <2> QED BY <2>1 DEF forgets_none, forgotten, running
<1>2. CASE select_timer
  <2>1. /\ pc = "select" /\ UNCHANGED <<doc, connected, stream>>
    BY <1>2 DEF select_timer, collection, events
  <2>2. in_view \subseteq in_view'
    BY <1>2, TimerKeepsView
  <2>3. watching' => watching
    BY <2>1 DEF watching
  <2> QED BY <2>1, <2>2, <2>3, QuietKeeps DEF forgets_none
<1>3. CASE select_event
  <2>1. PICK t : t = Head(stream).id
    OBVIOUS
  <2>2. /\ announced = announced' \cup {t} /\ in_view \ {t} \subseteq in_view'
        /\ t \notin announced' /\ doc[t].status = "running" => t \in in_view'
    BY <1>3, <2>1, EventKeepsView
  <2>3. /\ pc = "select" /\ UNCHANGED <<doc, connected>>
    BY <1>3 DEF select_event, collection
  <2>4. watching' => watching
    BY <2>3 DEF watching
  <2>5. \A u \in Ids : running(u, "peer")' =>
          running(u, "peer") /\ doc[u].status = "running"
    BY <2>3 DEF running
  <2> QED BY <2>2, <2>4, <2>5 DEF forgets_none, forgotten
<1>4. CASE Tick
  <2>1. in_view' = in_view /\ announced' = announced
    BY <1>4, TickKeepsView
  <2>2. \A t \in Ids : running(t, "peer")' => running(t, "peer")
    <3> TAKE t \in Ids
    <3>1. doc[t] \in DocType /\ doc'[t] = [doc[t] EXCEPT !.heartbeat_at = older(@)]
      BY <1>4 DEF Tick, LoopInvariant, Documents
    <3>2. doc'[t].status = doc[t].status /\ doc'[t].owner = doc[t].owner
      BY <3>1 DEF DocType
    <3> QED BY <3>2 DEF running
  <2>3. watching' => watching
    BY <1>4 DEF Tick, watching
  <2> QED BY <2>1, <2>2, <2>3 DEF forgets_none, forgotten
<1> QED BY <1>1, <1>2, <1>3, <1>4

\* Every step but a failed scan.
LEMMA ForgetStep ==
  LoopInvariant /\ LoopInvariant' /\ ViewInvariant /\ [Next]_vars /\ [~scan_fails]_vars
    => \A t \in Ids : forgotten(t)' => forgotten(t) \/ drops(t)
<1> SUFFICES ASSUME LoopInvariant, LoopInvariant', ViewInvariant,
                    [Next]_vars, [~scan_fails]_vars
             PROVE  \A t \in Ids : forgotten(t)' => forgotten(t) \/ drops(t)
  OBVIOUS
<1> DEFINE allowed == \A t \in Ids : forgotten(t)' => forgotten(t) \/ drops(t)
<1>0. forgets_none => allowed
  BY DEF forgets_none
<1>1. CASE UNCHANGED vars
  BY <1>0, <1>1, AroundForgetsNone
<1>2. CASE \/ \E u \in Ids : \/ expired_skips(u) \/ expired_defers(u)
                             \/ expired_attempts(u) \/ expired_claims(u)
           \/ expired_misses \/ expired_fails \/ expired_done
  BY <1>2, ExpiredForgets
<1> HIDE DEF allowed
<1>3. CASE Next /\ ~scan_fails
  <2>1. CASE open_change_stream \/ Work
    BY <1>0, <1>2, <2>1, AroundForgetsNone, ViewForgetsNone, PumpForgetsNone DEF Work, allowed
  <2>2. CASE Faults
    BY <1>0, <1>2, <1>3, <2>2, AroundForgetsNone, PumpForgetsNone DEF Faults, allowed
  <2>3. CASE Select
    BY <1>0, <2>3, AroundForgetsNone, ViewForgetsNone DEF Select, allowed
  <2> QED BY <1>0, <1>3, <2>1, <2>2, <2>3, OthersForgetNone, ViewForgetsNone
             DEF Next, allowed
<1> QED BY <1>1, <1>3

\* Unless a scan breaks off, a task of the peer that the connected loop once knew
\* of is forgotten at the places that `drops' names and nowhere else, for any
\* number of tasks, permits, resets, faults and reconnects.
THEOREM ForgottenOnlyWhenDropped ==
  ASSUME TimeoutsCover
  PROVE  Spec /\ [][~scan_fails]_vars => OnlyDropsForget
<1>1. LoopInvariant /\ LoopInvariant' /\ ViewInvariant /\ [Next]_vars
        /\ [~scan_fails]_vars
        => [\A t \in Ids : forgotten(t)' => forgotten(t) \/ drops(t)]_vars
  BY ForgetStep
<1>2. Spec => []LoopInvariant
  BY LoopInit, LoopStep, PTL DEF Spec
<1> QED BY <1>1, <1>2, ViewStaysRight, PTL DEF Spec, OnlyDropsForget

\* While no scan breaks off and nothing is dropped, the loop knows of every task
\* that the peer runs.
THEOREM RunningStaysTracked ==
  ASSUME TimeoutsCover
  PROVE  Spec /\ [][~scan_fails]_vars /\ [][\A t \in Ids : ~drops(t)]_vars
           => [](\A t \in Ids : ~forgotten(t))
<1> DEFINE Known == \A t \in Ids : ~forgotten(t)
<1>1. Init => Known
  BY DEF Init, forgotten, watching
<1>2. Known /\ [\A t \in Ids : forgotten(t)' => forgotten(t) \/ drops(t)]_vars
        /\ [\A t \in Ids : ~drops(t)]_vars => Known'
  BY DEF vars, forgotten, watching, running, in_view, targeted, announced
<1>3. Init /\ [][\A t \in Ids : forgotten(t)' => forgotten(t) \/ drops(t)]_vars
        /\ [][\A t \in Ids : ~drops(t)]_vars => []Known
  BY <1>1, <1>2, PTL
<1> QED BY <1>3, ForgottenOnlyWhenDropped, PTL DEF Spec, OnlyDropsForget

-----------------------------------------------------------------------------
(* When nothing is dropped                                                 *)

\* Out of reach of a peer that takes only pending tasks, once resets are off.
settled(t) == running(t, "me") \/ doc[t].status \in {"finished", "deleted"}

\* Whatever this worker has in flight, or had when it sent its claim.
OwnTasks == \A t \in in_flight \cup claim.excluded : settled(t)

\* Such a document stays so, and a claim of this worker makes it so.
LEMMA SettledStays ==
  ASSUME Peer # "steals", MaxResets = 0, LoopInvariant, [Next]_vars,
         NEW t \in Ids, settled(t) \/ t \in in_flight' \ in_flight
  PROVE  settled(t)'
<1>0. /\ doc \in [Ids -> DocType] /\ resets = 0
  BY DEF LoopInvariant, Documents, Counters
<1>1. ASSUME UNCHANGED doc, in_flight' \subseteq in_flight
      PROVE  settled(t)'
  BY <1>1 DEF settled, running
<1>2. ASSUME NEW u \in Ids, NEW d, NEW event, write(u, d, event),
             in_flight' \subseteq in_flight \cup {u},
             \/ d.status = "running" /\ d.owner = "me"
             \/ d.status \in {"finished", "deleted"}
             \/ ~settled(u) /\ in_flight' \subseteq in_flight
      PROVE  settled(t)'
  <2>1. doc'[t] = IF t = u THEN d ELSE doc[t]
    BY <1>0, <1>2 DEF write
  <2> QED BY <1>2, <2>1 DEF settled, running
<1>3. ASSUME NEW u \in Ids, claim_by(u, "me", OwnTimeout),
             in_flight' \subseteq in_flight \cup {u}
      PROVE  settled(t)'
  BY <1>2, <1>3 DEF claim_by, Claimed
<1>4. CASE \/ UNCHANGED vars \/ open_change_stream \/ Select \/ shutdown \/ peer_dies
           \/ open_fails \/ open_unsupported \/ scan_fails \/ probe_fails
           \/ \E u \in Ids : handler_lost(u) \/ handler_returns(u)
  <2>1. UNCHANGED doc /\ in_flight' \subseteq in_flight
    BY <1>4 DEF vars, open_change_stream, Select, select_stop, select_timer,
         select_ticker, select_join, select_event, select_stream_lost, shutdown,
         peer_dies, open_fails, open_unsupported, scan_fails, probe_fails,
         handler_lost, handler_returns, handler_over, collection, tasks_run
  <2> QED BY <1>1, <2>1
<1>5. CASE Work
  <2>1. ASSUME NEW u \in Ids, pump_claims(u) \/ expired_claims(u)
        PROVE  settled(t)'
    BY <1>3, <2>1 DEF pump_claims, expired_claims, won
  <2>2. CASE \/ scan \/ probe \/ pump_tries_own \/ pump_misses \/ expired_misses
             \/ expired_done \/ drain
             \/ \E u \in Ids : \/ expired_skips(u) \/ expired_defers(u)
                               \/ expired_attempts(u)
    <3>1. UNCHANGED doc /\ in_flight' \subseteq in_flight
      BY <2>2 DEF scan, probe, pump_tries_own, pump_misses, expired_misses,
           expired_done, drain, expired_skips, expired_defers, expired_attempts,
           collection, tasks_run
    <3> QED BY <1>1, <3>1
  <2> QED BY <1>5, <2>1, <2>2 DEF Work
<1>6. CASE pump_fails \/ expired_fails
  <2>1. UNCHANGED in_flight
    BY <1>6 DEF pump_fails, expired_fails, tasks_run
  <2>2. UNCHANGED doc \/ \E u \in Ids : claim_by(u, "me", OwnTimeout)
    BY <1>6 DEF pump_fails, expired_fails
  <2> QED BY <1>1, <1>3, <2>1, <2>2
<1>7. ASSUME NEW u \in Ids, own_beats(u) \/ peer_beats(u)
      PROVE  settled(t)'
  <2> DEFINE d == [doc[u] EXCEPT !.heartbeat_at = Now]
  <2>1. doc[u] \in DocType
    BY <1>0
  <2>2. d.status = doc[u].status /\ d.owner = doc[u].owner
    BY <2>1 DEF DocType
  <2>3. /\ write(u, d, Event("update", u, "none", Now, NoTimeout))
        /\ UNCHANGED in_flight
        /\ running(u, "me") \/ ~settled(u)
    BY <1>7 DEF own_beats, peer_beats, beat_by, tasks_run, settled, running
  <2> HIDE DEF d
  <2> QED BY <1>2, <2>2, <2>3 DEF running
<1>8. ASSUME NEW u \in Ids, handler_completes(u) \/ peer_finishes(u)
      PROVE  settled(t)'
  BY <1>2, <1>8 DEF handler_completes, peer_finishes, finish_of, NoDoc, tasks_run
<1>9. ASSUME NEW u \in Ids, submit(u) \/ peer_claims(u)
      PROVE  settled(t)'
  <2>1. ~settled(u) /\ UNCHANGED in_flight
    BY <1>0, <1>9 DEF submit, peer_claims, tasks_run, settled, running
  <2>2. \E d, event : write(u, d, event)
    BY <1>9 DEF submit, peer_claims, claim_by
  <2> QED BY <1>2, <2>1, <2>2
<1>10. ASSUME NEW u \in Ids, delete(u)
       PROVE  settled(t)'
  BY <1>2, <1>10 DEF delete, NoDoc, tasks_run
<1>11. CASE Tick
  <2>1. doc[t] \in DocType /\ doc'[t] = [doc[t] EXCEPT !.heartbeat_at = older(@)]
    BY <1>0, <1>11 DEF Tick
  <2>2. doc'[t].status = doc[t].status /\ doc'[t].owner = doc[t].owner
    BY <2>1 DEF DocType
  <2>3. UNCHANGED in_flight
    BY <1>11 DEF Tick, tasks_run
  <2> QED BY <2>2, <2>3 DEF settled, running
<1> QED BY <1>4, <1>5, <1>6, <1>7, <1>8, <1>9, <1>10, <1>11 DEF Next, Faults, Others

\* A claim excludes ids that were in flight when it was sent.
LEMMA ExcludedWereInFlight ==
  ASSUME LoopInvariant, [Next]_vars
  PROVE  claim'.excluded \subseteq claim.excluded \cup in_flight'
<1>1. \A arm : pump(arm) \/ top => claim'.excluded \subseteq in_flight'
  BY DEF pump, top, NoClaim
<1>2. CASE \/ UNCHANGED vars \/ open_change_stream \/ Others \/ Tick
           \/ open_fails \/ open_unsupported \/ scan_fails
           \/ \E u \in Ids : handler_lost(u)
  <2>1. claim' = claim
    BY <1>2 DEF vars, open_change_stream, Others, own_beats, handler_completes,
         handler_returns, submit, delete, peer_claims, peer_beats, peer_finishes,
         peer_dies, shutdown, Tick, open_fails, open_unsupported, scan_fails,
         handler_lost, position
  <2> QED BY <2>1
<1>3. CASE probe_fails \/ pump_fails \/ expired_fails
  BY <1>1, <1>3 DEF probe_fails, pump_of_trigger, pump_fails, expired_fails, NoClaim
<1>4. CASE Select
  BY <1>1, <1>4 DEF Select, select_stop, select_timer, select_ticker, select_join,
       select_event, select_stream_lost
<1>5. CASE Work
  <2>1. ASSUME NEW u \in Ids, pump_claims(u) \/ expired_skips(u) \/ expired_defers(u)
        PROVE  claim'.excluded \subseteq claim.excluded \cup in_flight'
    BY <1>1, <2>1 DEF pump_claims, expired_skips, expired_defers
  <2>2. ASSUME NEW u \in Ids, expired_attempts(u) \/ expired_claims(u)
        PROVE  claim'.excluded \subseteq claim.excluded \cup in_flight'
    BY <2>2 DEF expired_attempts, claim_expired_task_by_id, expired_claims, NoClaim,
                tasks_run
  <2>3. CASE pump_tries_own
    BY <2>3 DEF pump_tries_own, LoopInvariant, Position
  <2>4. CASE probe
    BY <1>1, <2>4 DEF probe, pump_of_trigger
  <2>5. CASE pump_misses \/ expired_done
    <3>1. top
      BY <2>5 DEF pump_misses, expired_done
    <3> QED BY <3>1 DEF top, NoClaim
  <2>6. CASE scan \/ expired_misses \/ drain
    BY <2>6 DEF scan, expired_misses, drain, NoClaim
  <2> QED BY <1>5, <2>1, <2>2, <2>3, <2>4, <2>5, <2>6 DEF Work
<1> QED BY <1>2, <1>3, <1>4, <1>5 DEF Next, Faults

\* With a permit for every task and no fault, what is dropped is settled: without
\* a permit all tasks are in flight.
LEMMA DroppedIsSettled ==
  ASSUME LoopInvariant, OwnTasks, MaxFaults = 0, IsFiniteSet(Ids),
         Cardinality(Ids) <= MaxInflight, NEW t \in Ids, drops(t)
  PROVE  ~forgotten(t)'
<1>1. ~fault
  BY DEF LoopInvariant, Counters, fault
<1>2. ASSUME NEW u \in Ids, expired_defers(u)
      PROVE  t \in in_flight
  <2>1. in_flight \subseteq Ids
    BY DEF LoopInvariant, Counters
  <2>2. /\ IsFiniteSet(in_flight) /\ Cardinality(in_flight) <= Cardinality(Ids)
        /\ Cardinality(in_flight) = Cardinality(Ids) => in_flight = Ids
    BY <2>1, FS_Subset
  <2>3. Cardinality(in_flight) \in Nat /\ Cardinality(Ids) \in Nat /\ MaxInflight \in Nat
    BY <2>2, FS_CardinalityType, LoopAssumption
  <2>4. MaxInflight - Cardinality(in_flight) = 0
    BY <1>2 DEF expired_defers, free
  <2> QED BY <2>2, <2>3, <2>4
<1>3. t \in in_flight \cup claim.excluded
  BY <1>1, <1>2 DEF drops, expired_skips, expired_fails
<1>4. UNCHANGED doc
  BY <1>1 DEF drops, expired_skips, expired_misses, expired_defers, expired_fails,
              collection
<1>5. settled(t)
  BY <1>3 DEF OwnTasks
<1> QED BY <1>4, <1>5 DEF forgotten, settled, running

\* In particular, without resets, with a permit for every task, a peer that takes
\* only pending tasks and a database that answers, the loop knows of every task
\* that the peer runs, whatever the number of tasks, the timeouts, the deletions
\* and the reconnects.
THEOREM QuietLoopTracksAll ==
  ASSUME TimeoutsCover, Peer # "steals", MaxFaults = 0, MaxResets = 0,
         IsFiniteSet(Ids), Cardinality(Ids) <= MaxInflight
  PROVE  Spec => [](\A t \in Ids : ~forgotten(t))
<1> DEFINE Known == \A t \in Ids : ~forgotten(t)
           I     == LoopInvariant /\ ViewInvariant /\ OwnTasks /\ Known
<1>1. Init => I
  <2>1. Init => OwnTasks /\ Known
    BY DEF Init, OwnTasks, NoClaim, forgotten, watching
  <2> QED BY <2>1, LoopInit, ViewInit
<1>2. I /\ [Next]_vars => I'
  <2> SUFFICES ASSUME I, [Next]_vars PROVE I'
    OBVIOUS
  <2>1. LoopInvariant'
    BY LoopStep
  <2>2. [~scan_fails]_vars
    BY DEF scan_fails, fault, LoopInvariant, Counters
  <2>3. ViewInvariant'
    BY <2>1, <2>2, ViewStep
  <2>4. OwnTasks'
    <3> SUFFICES ASSUME NEW t \in in_flight' \cup claim'.excluded
                 PROVE  settled(t)'
      BY DEF OwnTasks
    <3>1. t \in Ids
      BY <2>1 DEF LoopInvariant, Counters, Position
    <3>2. settled(t) \/ t \in in_flight' \ in_flight
      BY ExcludedWereInFlight DEF OwnTasks
    <3> QED BY <3>1, <3>2, SettledStays
  <2>5. Known'
    BY <2>1, <2>2, ForgetStep, DroppedIsSettled
  <2> QED BY <2>1, <2>3, <2>4, <2>5
<1> QED BY <1>1, <1>2, PTL DEF Spec
=============================================================================
