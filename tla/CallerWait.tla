----------------------------- MODULE CallerWait -----------------------------
(***************************************************************************)
(* The caller's side (caller.rs): submit a task, inspect it once, then     *)
(* follow a change stream until it is finished.  The collection is the     *)
(* TaskMailbox that WorkerClaims implements; on top of it every write to a *)
(* task document is an event of its change streams.                        *)
(*                                                                         *)
(* A stream starts at the moment it is opened.  It carries no document for *)
(* an update: UpdateLookup reads the document when the server processes    *)
(* the event, and the caller gets that reading some time later.            *)
(***************************************************************************)
EXTENDS Integers, FiniteSets

CONSTANTS
  Tasks, Requests, Resets, NoRequest,
  Awaiters,    \* calls of await_response, which submit nothing
  Timed,       \* the sends that have a timeout
  MaxEvents,   \* bound on the writes to one document
  NoTask, NoView

Callers == Requests \cup Awaiters

ASSUME CallerAssumption ==
  /\ Resets \subseteq Requests
  /\ Timed \subseteq Requests
  /\ Awaiters \cap Requests = {}
  /\ MaxEvents \in Nat
  /\ NoRequest \notin Requests
  /\ NoTask \notin Tasks
  /\ NoView \notin Requests \cup {NoRequest}

VARIABLES
  request, answer, seen,  \* the mailbox
  accepted,  \* order in which the submissions were accepted, 0 if not
  events,    \* number of writes to each document
  phase,     \* where each call stands
  on,        \* the task a call waits for
  cursor,    \* events its stream has processed
  view,      \* looked-up document its stream holds: the answer, or NoView
  result     \* what the call returned

mailbox == <<request, answer, seen>>
calls   == <<phase, on, cursor, view, result>>
vars    == <<request, answer, seen, accepted, events, phase, on, cursor, view, result>>

M == INSTANCE TaskMailbox

Waiting == {"inspecting", "opening", "watching"}
Phases  == {"idle", "done"} \cup Waiting
Kinds   == {"none", "answer", "missing", "enqueued", "duplicate", "database", "timeout"}

Outcome(kind) == [kind |-> kind, from |-> NoRequest]
Answered(r)   == [kind |-> "answer", from |-> r]

TypeOK ==
  /\ request \in [Tasks -> Requests \cup {NoRequest}]
  /\ answer \in [Tasks -> Requests \cup {NoRequest}]
  /\ seen \subseteq Requests
  /\ accepted \in [Requests -> Nat]
  /\ events \in [Tasks -> Nat]
  /\ phase \in [Callers -> Phases]
  /\ on \in [Callers -> Tasks \cup {NoTask}]
  /\ cursor \in [Callers -> Nat]
  /\ view \in [Callers -> Requests \cup {NoRequest, NoView}]
  /\ result \in [Callers -> [kind : Kinds, from : Requests \cup {NoRequest}]]

Init ==
  /\ M!Init
  /\ accepted = [r \in Requests |-> 0]
  /\ events = [t \in Tasks |-> 0]
  /\ phase = [c \in Callers |-> "idle"]
  /\ on = [c \in Callers |-> NoTask]
  /\ cursor = [c \in Callers |-> 0]
  /\ view = [c \in Callers |-> NoView]
  /\ result = [c \in Callers |-> Outcome("none")]

-----------------------------------------------------------------------------
\* A write to the document.  The bound keeps one event in reserve for the
\* result, which a worker can therefore always write.
written(t, reserve) ==
  /\ events[t] + reserve < MaxEvents
  /\ events' = [events EXCEPT ![t] = @ + 1]

return(c, outcome) ==
  /\ phase' = [phase EXCEPT ![c] = "done"]
  /\ result' = [result EXCEPT ![c] = outcome]
  /\ view' = [view EXCEPT ![c] = NoView]

await(c, t) ==
  /\ phase' = [phase EXCEPT ![c] = "inspecting"]
  /\ on' = [on EXCEPT ![c] = t]
  /\ UNCHANGED <<cursor, view, result>>

\* Mutant: the reset writes the new payload and leaves the status finished.
upsert_task_keeps_status(r, t) ==
  /\ r \notin seen
  /\ request[t] = NoRequest \/ (r \in Resets /\ answer[t] # NoRequest)
  /\ request' = [request EXCEPT ![t] = r]
  /\ seen' = seen \cup {r}
  /\ accepted' = [accepted EXCEPT ![r] = Cardinality(seen) + 1]
  /\ written(t, 1)
  /\ UNCHANGED answer

\* The upsert is applied: insert, or reset of a finished task.
upsert_task(r, t) ==
  /\ M!Submit(t, r)
  /\ accepted' = [accepted EXCEPT ![r] = Cardinality(seen) + 1]
  /\ written(t, 1)

\* SendBuilder as a future: upsert_task, then wait_for_result.
send(r, t) ==
  /\ phase[r] = "idle"
  /\ upsert_task(r, t)
  /\ await(r, t)

\* enqueue_only and dispatch: the upsert alone.
enqueue_only(r, t) ==
  /\ phase[r] = "idle"
  /\ upsert_task(r, t)
  /\ return(r, Outcome("enqueued"))
  /\ UNCHANGED <<on, cursor>>

\* The unique index rejects the insert: the task exists, and it is unfinished, the
\* submission has no reset predicate or the document does not satisfy it.
send_duplicate(r, t) ==
  /\ phase[r] = "idle"
  /\ request[t] # NoRequest
  /\ return(r, Outcome("duplicate"))
  /\ UNCHANGED <<mailbox, accepted, events, on, cursor>>

\* The upsert fails: it was never applied, or only its reply was lost.
send_error(r, t) ==
  /\ phase[r] = "idle"
  /\ \/ upsert_task(r, t)
     \/ UNCHANGED <<mailbox, accepted, events>>
  /\ return(r, Outcome("database"))
  /\ UNCHANGED <<on, cursor>>

await_response(c, t) ==
  /\ c \in Awaiters
  /\ phase[c] = "idle"
  /\ await(c, t)
  /\ UNCHANGED <<mailbox, accepted, events>>

\* evaluate_document: a finished document ends the wait, a pending or running
\* one does not.  What the value deserializes to is not modelled.
evaluate_document_own(c, found) == found = c      \* mutant: skip foreign results

evaluate_document(c, found) == found # NoRequest

\* inspect_task: one find_one.
inspect_task(c) ==
  /\ phase[c] = "inspecting"
  /\ \/ /\ request[on[c]] = NoRequest
        /\ return(c, Outcome("missing"))
     \/ /\ request[on[c]] # NoRequest
        /\ evaluate_document(c, answer[on[c]])
        /\ return(c, Answered(answer[on[c]]))
     \/ /\ request[on[c]] # NoRequest
        /\ ~evaluate_document(c, answer[on[c]])
        /\ phase' = [phase EXCEPT ![c] = "opening"]
        /\ UNCHANGED <<view, result>>
  /\ UNCHANGED <<mailbox, accepted, events, on, cursor>>

\* watch_for_result opens the stream, which sees later events only.
watch_for_result(c) ==
  /\ phase[c] = "opening"
  /\ phase' = [phase EXCEPT ![c] = "watching"]
  /\ cursor' = [cursor EXCEPT ![c] = events[on[c]]]
  /\ UNCHANGED <<mailbox, accepted, events, on, view, result>>

\* The server processes the next event and looks the document up.
lookup(c) ==
  /\ phase[c] = "watching"
  /\ view[c] = NoView
  /\ cursor[c] < events[on[c]]
  /\ cursor' = [cursor EXCEPT ![c] = @ + 1]
  /\ view' = [view EXCEPT ![c] = answer[on[c]]]
  /\ UNCHANGED <<mailbox, accepted, events, phase, on, result>>

\* Mutant: the caller does not wait for the lookup.
next_event_early(c) ==
  /\ phase[c] = "watching"
  /\ return(c, Answered(view[c]))
  /\ UNCHANGED <<mailbox, accepted, events, on, cursor>>

\* stream.next() yields the looked-up document.
next_event(c) ==
  /\ phase[c] = "watching"
  /\ view[c] # NoView
  /\ \/ /\ evaluate_document(c, view[c])
        /\ return(c, Answered(view[c]))
     \/ /\ ~evaluate_document(c, view[c])
        /\ view' = [view EXCEPT ![c] = NoView]
        /\ UNCHANGED <<phase, result>>
  /\ UNCHANGED <<mailbox, accepted, events, on, cursor>>

\* find_one fails, the stream does not open, breaks or ends.
wait_error(c) ==
  /\ phase[c] \in Waiting
  /\ return(c, Outcome("database"))
  /\ UNCHANGED <<mailbox, accepted, events, on, cursor>>

\* tokio::time::timeout around wait_for_result; the upsert is outside of it.
timeout(c) ==
  /\ c \in Timed
  /\ phase[c] \in Waiting
  /\ return(c, Outcome("timeout"))
  /\ UNCHANGED <<mailbox, accepted, events, on, cursor>>

-----------------------------------------------------------------------------
\* A worker writes the result of the task.
worker_finishes(t) ==
  /\ M!Answer(t)
  /\ written(t, 0)
  /\ UNCHANGED <<accepted, calls>>

\* A worker claims the task or refreshes its heartbeat.
worker_touches(t) ==
  /\ request[t] # NoRequest /\ answer[t] = NoRequest
  /\ written(t, 1)
  /\ UNCHANGED <<mailbox, accepted, calls>>

Call(c) ==
  \/ \E t \in Tasks : await_response(c, t)
  \/ inspect_task(c) \/ watch_for_result(c) \/ lookup(c) \/ next_event(c)
  \/ wait_error(c) \/ timeout(c)

Next ==
  \/ \E r \in Requests, t \in Tasks :
       send(r, t) \/ enqueue_only(r, t) \/ send_duplicate(r, t) \/ send_error(r, t)
  \/ \E c \in Callers : Call(c)
  \/ \E t \in Tasks : worker_finishes(t) \/ worker_touches(t)

Spec == Init /\ [][Next]_vars

\* Some worker is alive and its handlers return; the driver answers the
\* requests of a caller and delivers the events of an open stream.
Served ==
  /\ \A t \in Tasks : WF_vars(worker_finishes(t))
  /\ \A c \in Callers : /\ WF_vars(inspect_task(c)) /\ WF_vars(watch_for_result(c))
                        /\ WF_vars(lookup(c)) /\ WF_vars(next_event(c))
FairSpec == Spec /\ Served

-----------------------------------------------------------------------------
\* A send never returns a result older than its own submission: neither the
\* find_one after the upsert nor a looked-up document of the stream can show
\* what the task held before.  (With resets it may return a newer one.)
NoStaleAnswer ==
  \A r \in Requests : result[r].kind = "answer" =>
    /\ result[r].from \in Requests
    /\ 0 < accepted[r] /\ accepted[r] <= accepted[result[r].from]

\* A stream that was open while the task was unfinished ends the wait, although
\* it looks documents up late and a reset may hide a result from it.
AnswerReachesWatcher ==
  Served =>
    \A c \in Callers :
      (phase[c] = "watching" /\ answer[on[c]] = NoRequest) ~> (phase[c] = "done")

\* The result is there, and nothing will show it to the call: its stream holds
\* no result and has no event left.
stranded(c) ==
  /\ phase[c] = "watching" /\ answer[on[c]] # NoRequest
  /\ cursor[c] = events[on[c]] /\ view[c] \in {NoView, NoRequest}

\* A stream loses no result.  Although it looks documents up late, so that several
\* events may show one state and a reset hide another, a wait is stranded only by
\* opening the stream after the result was written, never by following it.
OnlyLateWatchStrands ==
  [][\A c \in Callers : stranded(c)' => stranded(c) \/ watch_for_result(c)]_vars

\* Why NoStaleAnswer holds, as an inductive invariant: from the upsert on, the
\* task a send waits for holds its submission or a later one, and so does every
\* document its stream has looked up.
SendsSeeNoPast ==
  /\ IsFiniteSet(seen)
  /\ \A r \in Requests : r \in seen <=> 0 < accepted[r]
  /\ \A r \in Requests : accepted[r] <= Cardinality(seen)
  /\ \A t \in Tasks : /\ request[t] # NoRequest => request[t] \in seen
                      /\ answer[t] # NoRequest => answer[t] = request[t]
  /\ \A r \in Requests :
       /\ phase[r] = "idle" => view[r] = NoView
       /\ phase[r] \in Waiting =>
            /\ r \in seen /\ on[r] \in Tasks /\ request[on[r]] \in Requests
            /\ accepted[r] <= accepted[request[on[r]]]
       /\ view[r] \in Requests => r \in seen /\ accepted[r] <= accepted[view[r]]
  /\ NoStaleAnswer

(* What the documents say, and the code does not do                        *)

\* "Callers awaiting inline rely on Mongo change streams (with a polling
\* fallback) for notification" (docs/implementation.md): while workers finish
\* tasks and the database answers, every wait ends.
EveryWaitEnds ==
  \A c \in Callers : (phase[c] = "inspecting") ~> (phase[c] = "done")

\* "Err(RequestError::Database(_)) - nothing persisted" (README.md).
DatabaseErrorMeansNothingPersisted ==
  \A r \in Requests : result[r].kind = "database" => accepted[r] = 0
=============================================================================
