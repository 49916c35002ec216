-------------------------- MODULE CallerWait_proofs -------------------------
(***************************************************************************)
(* Proofs, for any number of callers and tasks, that a send never returns  *)
(* a result older than its own submission, and that a change stream loses  *)
(* no result once it is open.                                              *)
(***************************************************************************)
EXTENDS CallerWait, FiniteSetTheorems, TLAPS

Results == [kind : Kinds, from : Requests \cup {NoRequest}]

LEMMA CallerTypeInit == Init => TypeOK
BY CallerAssumption DEF Init, M!Init, TypeOK, Outcome, Kinds, Phases, Callers, Waiting

LEMMA SendsInit == Init => SendsSeeNoPast
<1> SUFFICES ASSUME Init PROVE SendsSeeNoPast
  OBVIOUS
<1>1. IsFiniteSet(seen) /\ Cardinality(seen) = 0
  BY FS_EmptySet DEF Init, M!Init
<1> QED BY <1>1, CallerAssumption
        DEF Init, M!Init, SendsSeeNoPast, NoStaleAnswer, Outcome, Callers, Waiting

\* A call returns: its result has the type, its stream is dropped.
LEMMA ReturnEffect ==
  ASSUME NEW c \in Callers, NEW o \in Results, TypeOK, return(c, o)
  PROVE  /\ phase' \in [Callers -> Phases]
         /\ result' \in [Callers -> Results]
         /\ view' \in [Callers -> Requests \cup {NoRequest, NoView}]
         /\ phase'[c] = "done" /\ result'[c] = o /\ view'[c] = NoView
         /\ \A d \in Callers \ {c} :
              phase'[d] = phase[d] /\ result'[d] = result[d] /\ view'[d] = view[d]
BY DEF TypeOK, return, Phases, Results

LEMMA OutcomeType ==
  /\ \A kind \in Kinds : Outcome(kind) \in Results /\ Outcome(kind).kind = kind
  /\ \A r \in Requests : /\ Answered(r) \in Results
                         /\ Answered(r).kind = "answer" /\ Answered(r).from = r
BY DEF Outcome, Answered, Results, Kinds

\* An accepted submission comes after all earlier ones.
LEMMA UpsertEffect ==
  ASSUME NEW r \in Requests, NEW t \in Tasks, TypeOK, SendsSeeNoPast, upsert_task(r, t)
  PROVE  /\ request' \in [Tasks -> Requests \cup {NoRequest}]
         /\ answer' \in [Tasks -> Requests \cup {NoRequest}]
         /\ seen' = seen \cup {r} /\ r \notin seen
         /\ accepted' \in [Requests -> Nat]
         /\ events' \in [Tasks -> Nat]
         /\ request'[t] = r /\ answer'[t] = NoRequest
         /\ \A u \in Tasks \ {t} : request'[u] = request[u] /\ answer'[u] = answer[u]
         /\ IsFiniteSet(seen') /\ Cardinality(seen') = Cardinality(seen) + 1
         /\ Cardinality(seen) \in Nat
         /\ accepted'[r] = Cardinality(seen')
         /\ \A q \in Requests \ {r} : accepted'[q] = accepted[q]
         /\ \A q \in Requests : q # r => accepted[q] < accepted'[r]
<1>1. /\ request' = [request EXCEPT ![t] = r]
      /\ answer' = [answer EXCEPT ![t] = NoRequest]
      /\ seen' = seen \cup {r} /\ r \notin seen
      /\ accepted' = [accepted EXCEPT ![r] = Cardinality(seen) + 1]
      /\ events' = [events EXCEPT ![t] = events[t] + 1]
  BY DEF upsert_task, M!Submit, written
<1>2. /\ IsFiniteSet(seen') /\ Cardinality(seen') = Cardinality(seen) + 1
      /\ Cardinality(seen) \in Nat
  BY <1>1, FS_AddElement, FS_CardinalityType DEF SendsSeeNoPast
<1>3. /\ accepted' \in [Requests -> Nat]
      /\ accepted'[r] = Cardinality(seen) + 1
      /\ \A q \in Requests \ {r} : accepted'[q] = accepted[q]
  BY <1>1, <1>2 DEF TypeOK
<1>4. \A q \in Requests : q # r => accepted[q] < accepted'[r]
  BY <1>2, <1>3 DEF SendsSeeNoPast, TypeOK
<1>5. events' \in [Tasks -> Nat]
  BY <1>1 DEF TypeOK
<1> QED BY <1>1, <1>2, <1>3, <1>4, <1>5 DEF TypeOK

\* SendsSeeNoPast in two parts: the mailbox, and one send.
OrderOK ==
  /\ IsFiniteSet(seen)
  /\ \A r \in Requests : r \in seen <=> 0 < accepted[r]
  /\ \A r \in Requests : accepted[r] <= Cardinality(seen)
  /\ \A t \in Tasks : /\ request[t] # NoRequest => request[t] \in seen
                      /\ answer[t] # NoRequest => answer[t] = request[t]

SendOK(r) ==
  /\ phase[r] = "idle" => view[r] = NoView
  /\ phase[r] \in Waiting =>
       /\ r \in seen /\ on[r] \in Tasks /\ request[on[r]] \in Requests
       /\ accepted[r] <= accepted[request[on[r]]]
  /\ view[r] \in Requests => r \in seen /\ accepted[r] <= accepted[view[r]]
  /\ result[r].kind = "answer" =>
       /\ result[r].from \in Requests
       /\ 0 < accepted[r] /\ accepted[r] <= accepted[result[r].from]

LEMMA SendsByParts == SendsSeeNoPast <=> OrderOK /\ \A r \in Requests : SendOK(r)
BY DEF SendsSeeNoPast, NoStaleAnswer, OrderOK, SendOK

\* A new submission keeps the order, and every other send.
LEMMA UpsertKeepsOrder ==
  ASSUME NEW r \in Requests, NEW t \in Tasks, TypeOK, SendsSeeNoPast, upsert_task(r, t)
  PROVE  /\ OrderOK'
         /\ \A d \in Requests \ {r} :
              /\ phase'[d] = phase[d] /\ view'[d] = view[d]
              /\ result'[d] = result[d] /\ on'[d] = on[d]
              => SendOK(d)'
<1>0. OrderOK /\ \A d \in Requests : SendOK(d)
  BY SendsByParts
<1>1. OrderOK'
  <2>1. \A q \in Requests : q \in seen' <=> 0 < accepted'[q]
    BY <1>0, UpsertEffect DEF OrderOK
  <2>2. \A q \in Requests : accepted'[q] <= Cardinality(seen')
    <3>1. /\ Cardinality(seen') = Cardinality(seen) + 1 /\ Cardinality(seen) \in Nat
          /\ accepted'[r] = Cardinality(seen')
          /\ \A q \in Requests \ {r} : accepted'[q] = accepted[q]
      BY UpsertEffect
    <3>2. \A q \in Requests : accepted[q] \in Nat /\ accepted[q] <= Cardinality(seen)
      BY <1>0 DEF OrderOK, TypeOK
    <3> QED BY <3>1, <3>2
  <2>3. \A u \in Tasks : /\ request'[u] # NoRequest => request'[u] \in seen'
                         /\ answer'[u] # NoRequest => answer'[u] = request'[u]
    BY <1>0, UpsertEffect DEF OrderOK
  <2> QED BY <2>1, <2>2, <2>3, UpsertEffect DEF OrderOK
<1>2. ASSUME NEW d \in Requests \ {r},
             phase'[d] = phase[d], view'[d] = view[d],
             result'[d] = result[d], on'[d] = on[d]
      PROVE  SendOK(d)'
  <2>1. SendOK(d) /\ accepted'[d] = accepted[d] /\ accepted[d] \in Nat
    BY <1>0, UpsertEffect DEF TypeOK
  <2>2. \A q \in Requests : 0 < accepted[q] => q # r /\ accepted'[q] = accepted[q]
    BY <1>0, UpsertEffect DEF OrderOK
  <2>3. phase[d] \in Waiting =>
          /\ d \in seen' /\ on[d] \in Tasks /\ request'[on[d]] \in Requests
          /\ accepted'[d] <= accepted'[request'[on[d]]]
    <3>1. SUFFICES ASSUME phase[d] \in Waiting
                   PROVE  /\ d \in seen' /\ on[d] \in Tasks /\ request'[on[d]] \in Requests
                          /\ accepted'[d] <= accepted'[request'[on[d]]]
      OBVIOUS
    <3>2. d \in seen' /\ on[d] \in Tasks
      BY <2>1, <3>1, UpsertEffect DEF SendOK
    <3>3. CASE on[d] = t
      BY <2>1, <3>2, <3>3, UpsertEffect DEF TypeOK
    <3>4. CASE on[d] # t
      <4>1. request'[on[d]] = request[on[d]] /\ request[on[d]] \in seen
        BY <1>0, <2>1, <3>1, <3>2, <3>4, UpsertEffect, CallerAssumption DEF SendOK, OrderOK
      <4>2. request[on[d]] \in Requests
        BY <2>1, <3>1 DEF SendOK
      <4>3. accepted'[request[on[d]]] = accepted[request[on[d]]]
        BY <1>0, <2>2, <4>1, <4>2 DEF OrderOK
      <4> QED BY <2>1, <3>1, <3>2, <4>1, <4>2, <4>3 DEF SendOK
    <3> QED BY <3>3, <3>4
  <2>4. view[d] \in Requests => d \in seen' /\ accepted'[d] <= accepted'[view[d]]
    <3>1. SUFFICES ASSUME view[d] \in Requests
                   PROVE  d \in seen' /\ accepted'[d] <= accepted'[view[d]]
      OBVIOUS
    <3>2. d \in seen /\ accepted[d] <= accepted[view[d]]
      BY <2>1, <3>1 DEF SendOK
    <3>3. 0 < accepted[view[d]]
      BY <1>0, <3>1, <3>2 DEF OrderOK, TypeOK
    <3> QED BY <2>1, <2>2, <3>1, <3>2, <3>3, UpsertEffect
  <2>5. result[d].kind = "answer" =>
          /\ result[d].from \in Requests
          /\ 0 < accepted'[d] /\ accepted'[d] <= accepted'[result[d].from]
    <3>1. SUFFICES ASSUME result[d].kind = "answer"
                   PROVE  /\ result[d].from \in Requests
                          /\ 0 < accepted'[d] /\ accepted'[d] <= accepted'[result[d].from]
      OBVIOUS
    <3>2. /\ result[d].from \in Requests
          /\ 0 < accepted[d] /\ accepted[d] <= accepted[result[d].from]
      BY <2>1, <3>1 DEF SendOK
    <3>3. 0 < accepted[result[d].from]
      BY <3>2 DEF TypeOK
    <3> QED BY <2>1, <2>2, <3>2, <3>3
  <2> QED BY <1>2, <2>1, <2>3, <2>4, <2>5 DEF SendOK
<1> QED BY <1>1, <1>2

\* A call moves and nothing else does: only that call needs an argument.
LEMMA CallFrame ==
  ASSUME NEW c \in Callers, OrderOK, \A r \in Requests : SendOK(r),
         UNCHANGED <<mailbox, accepted>>,
         \A d \in Callers \ {c} : /\ phase'[d] = phase[d] /\ view'[d] = view[d]
                                  /\ result'[d] = result[d] /\ on'[d] = on[d],
         c \in Requests => SendOK(c)'
  PROVE  SendsSeeNoPast'
<1>1. OrderOK'
  BY DEF OrderOK, mailbox
<1>2. ASSUME NEW r \in Requests, r # c PROVE SendOK(r)'
  BY <1>2 DEF SendOK, mailbox, Callers
<1> QED BY <1>1, <1>2 DEF SendsSeeNoPast, NoStaleAnswer, OrderOK, SendOK

\* A call that returns may hand out an answer it is entitled to.
LEMMA ReturnKeepsOrder ==
  ASSUME NEW c \in Callers, NEW o \in Results, TypeOK, OrderOK,
         \A r \in Requests : SendOK(r),
         UNCHANGED <<mailbox, accepted, on>>, return(c, o),
         c \in Requests /\ o.kind = "answer" =>
           /\ o.from \in Requests
           /\ 0 < accepted[c] /\ accepted[c] <= accepted[o.from]
  PROVE  SendsSeeNoPast'
<1>1. /\ phase'[c] = "done" /\ result'[c] = o /\ view'[c] = NoView
      /\ \A d \in Callers \ {c} :
           phase'[d] = phase[d] /\ result'[d] = result[d] /\ view'[d] = view[d]
  BY ReturnEffect
<1>2. ASSUME c \in Requests PROVE SendOK(c)'
  BY <1>1, <1>2, CallerAssumption DEF SendOK, Waiting
<1> QED BY <1>1, <1>2, CallFrame

\* A call that waits was given the task it waits for.
CallsHaveTasks == \A c \in Callers : phase[c] \in Waiting => on[c] \in Tasks

LEMMA CallsHaveTasksNext == TypeOK /\ CallsHaveTasks /\ [Next]_vars => CallsHaveTasks'
<1> SUFFICES ASSUME TypeOK, CallsHaveTasks, [Next]_vars PROVE CallsHaveTasks'
  OBVIOUS
<1>a. Requests \subseteq Callers
  BY DEF Callers
<1>1. ASSUME NEW c \in Callers, NEW o, return(c, o), on' = on PROVE CallsHaveTasks'
  BY <1>1 DEF CallsHaveTasks, return, TypeOK, Waiting
<1>2. ASSUME NEW c \in Callers, NEW t \in Tasks, await(c, t) PROVE CallsHaveTasks'
  BY <1>2 DEF CallsHaveTasks, await, TypeOK
<1>3. CASE UNCHANGED <<phase, on>>
  BY <1>3 DEF CallsHaveTasks
<1>4. ASSUME NEW c \in Callers, phase[c] \in Waiting, NEW p \in Waiting,
             phase' = [phase EXCEPT ![c] = p], on' = on
      PROVE  CallsHaveTasks'
  BY <1>4 DEF CallsHaveTasks, TypeOK
<1>5. ASSUME NEW r \in Requests, NEW t \in Tasks,
             send(r, t) \/ enqueue_only(r, t) \/ send_duplicate(r, t) \/ send_error(r, t)
      PROVE  CallsHaveTasks'
  BY <1>5, <1>a, <1>1, <1>2 DEF send, enqueue_only, send_duplicate, send_error
<1>6. ASSUME NEW c \in Callers, Call(c) PROVE CallsHaveTasks'
  <2>1. ASSUME NEW t \in Tasks, await_response(c, t) PROVE CallsHaveTasks'
    BY <2>1, <1>2 DEF await_response
  <2>2. CASE inspect_task(c)
    <3>1. "inspecting" \in Waiting /\ "opening" \in Waiting
      BY DEF Waiting
    <3> QED BY <2>2, <3>1, <1>1, <1>4 DEF inspect_task
  <2>3. CASE watch_for_result(c)
    <3>1. "opening" \in Waiting /\ "watching" \in Waiting
      BY DEF Waiting
    <3> QED BY <2>3, <3>1, <1>4 DEF watch_for_result
  <2>4. CASE lookup(c)
    BY <2>4, <1>3 DEF lookup
  <2>5. CASE next_event(c)
    BY <2>5, <1>1, <1>3 DEF next_event
  <2>6. CASE wait_error(c) \/ timeout(c)
    BY <2>6, <1>1 DEF wait_error, timeout
  <2> QED BY <1>6, <2>1, <2>2, <2>3, <2>4, <2>5, <2>6 DEF Call
<1>7. ASSUME NEW t \in Tasks, worker_finishes(t) \/ worker_touches(t) PROVE CallsHaveTasks'
  BY <1>7, <1>3 DEF worker_finishes, worker_touches, calls
<1>8. CASE UNCHANGED vars
  BY <1>8, <1>3 DEF vars
<1> QED BY <1>5, <1>6, <1>7, <1>8 DEF Next

LEMMA CallerNext ==
  TypeOK /\ CallsHaveTasks /\ SendsSeeNoPast /\ [Next]_vars => TypeOK' /\ SendsSeeNoPast'
<1> SUFFICES ASSUME TypeOK, CallsHaveTasks, SendsSeeNoPast, [Next]_vars
             PROVE  TypeOK' /\ SendsSeeNoPast'
  OBVIOUS
<1>0. OrderOK /\ \A r \in Requests : SendOK(r)
  BY SendsByParts
<1>a. Requests \subseteq Callers
  BY DEF Callers
<1> USE DEF mailbox, calls
\* A call that moves from one waiting phase to the next.
<1>b. ASSUME NEW c \in Callers, NEW p \in Waiting, phase[c] \in Waiting,
             phase' = [phase EXCEPT ![c] = p], cursor' \in [Callers -> Nat],
             UNCHANGED <<mailbox, accepted, events, on, view, result>>
      PROVE  TypeOK' /\ SendsSeeNoPast'
  <2>1. /\ phase' \in [Callers -> Phases] /\ phase'[c] = p /\ p # "idle"
        /\ \A d \in Callers \ {c} : phase'[d] = phase[d]
    BY <1>b DEF TypeOK, Phases, Waiting
  <2>2. TypeOK'
    BY <1>b, <2>1 DEF TypeOK
  <2>3. c \in Requests => SendOK(c)'
    BY <1>0, <1>b, <2>1 DEF SendOK
  <2> QED BY <1>0, <1>b, <2>1, <2>2, <2>3, CallFrame
\* A submission that is accepted.
<1>1. ASSUME NEW r \in Requests, NEW t \in Tasks, upsert_task(r, t), r \in Callers,
             NEW o \in Results, o.kind # "answer",
             return(r, o), UNCHANGED <<on, cursor>>
      PROVE  TypeOK' /\ SendsSeeNoPast'
  <2>1. /\ phase'[r] = "done" /\ result'[r] = o /\ view'[r] = NoView
        /\ \A d \in Callers \ {r} :
             phase'[d] = phase[d] /\ result'[d] = result[d] /\ view'[d] = view[d]
    BY <1>1, ReturnEffect
  <2>2. TypeOK'
    BY <1>1, UpsertEffect, ReturnEffect DEF TypeOK, Results
  <2>3. SendOK(r)'
    BY <1>1, <2>1, CallerAssumption DEF SendOK, Waiting
  <2>4. \A d \in Requests \ {r} : SendOK(d)'
    BY <1>1, <1>a, <2>1, UpsertKeepsOrder
  <2>5. OrderOK'
    BY <1>1, UpsertKeepsOrder
  <2> QED BY <2>2, <2>3, <2>4, <2>5 DEF SendsSeeNoPast, NoStaleAnswer, OrderOK, SendOK
<1>2. ASSUME NEW r \in Requests, NEW t \in Tasks, send(r, t)
      PROVE  TypeOK' /\ SendsSeeNoPast'
  <2>1. upsert_task(r, t) /\ phase[r] = "idle" /\ r \in Callers
    BY <1>2, <1>a DEF send
  <2>2. /\ phase'[r] = "inspecting" /\ on'[r] = t
        /\ view' = view /\ result' = result /\ cursor' = cursor
        /\ \A d \in Callers \ {r} : phase'[d] = phase[d] /\ on'[d] = on[d]
        /\ phase' \in [Callers -> Phases] /\ on' \in [Callers -> Tasks \cup {NoTask}]
    BY <1>2, <2>1 DEF send, await, TypeOK, Phases, Waiting
  <2>3. TypeOK'
    <3>1. /\ request' \in [Tasks -> Requests \cup {NoRequest}]
          /\ answer' \in [Tasks -> Requests \cup {NoRequest}]
          /\ seen' = seen \cup {r} /\ accepted' \in [Requests -> Nat]
          /\ events' \in [Tasks -> Nat]
      BY <2>1, UpsertEffect
    <3> QED BY <2>2, <3>1 DEF TypeOK
  <2>4. SendOK(r)'
    <3>1. request'[t] = r /\ r \in seen' /\ accepted'[r] \in Nat /\ r \notin seen
      BY <2>1, UpsertEffect
    <3>2. view'[r] = NoView /\ NoView \notin Requests
      BY <1>0, <2>1, <2>2, CallerAssumption DEF SendOK
    <3>3. result'[r].kind # "answer"
      BY <1>0, <2>2, <3>1 DEF SendOK, OrderOK
    <3> QED BY <2>2, <3>1, <3>2, <3>3 DEF SendOK
  <2>5. \A d \in Requests \ {r} : SendOK(d)'
    BY <1>a, <2>1, <2>2, UpsertKeepsOrder
  <2>6. OrderOK'
    BY <2>1, UpsertKeepsOrder
  <2> QED BY <2>3, <2>4, <2>5, <2>6 DEF SendsSeeNoPast, NoStaleAnswer, OrderOK, SendOK
\* A call that returns without touching the collection.
<1>3. ASSUME NEW c \in Callers, NEW o \in Results, return(c, o),
             UNCHANGED <<mailbox, accepted, events, on, cursor>>,
             c \in Requests /\ o.kind = "answer" =>
               /\ o.from \in Requests
               /\ 0 < accepted[c] /\ accepted[c] <= accepted[o.from]
      PROVE  TypeOK' /\ SendsSeeNoPast'
  <2>1. TypeOK'
    BY <1>3, ReturnEffect DEF TypeOK, Results
  <2>2. SendsSeeNoPast'
    BY <1>0, <1>3, ReturnKeepsOrder
  <2> QED BY <2>1, <2>2
<1>4. ASSUME NEW r \in Requests, NEW t \in Tasks,
             enqueue_only(r, t) \/ send_duplicate(r, t) \/ send_error(r, t)
      PROVE  TypeOK' /\ SendsSeeNoPast'
  <2>1. ASSUME NEW kind \in {"enqueued", "duplicate", "database"}
        PROVE  Outcome(kind) \in Results /\ Outcome(kind).kind # "answer"
    BY OutcomeType DEF Kinds
  <2>2. PICK kind \in {"enqueued", "duplicate", "database"} :
          /\ return(r, Outcome(kind)) /\ UNCHANGED <<on, cursor>>
          /\ upsert_task(r, t) \/ UNCHANGED <<mailbox, accepted, events>>
    BY <1>4 DEF enqueue_only, send_duplicate, send_error
  <2> QED BY <1>1, <1>3, <1>a, <2>1, <2>2
<1>5. ASSUME NEW c \in Callers, Call(c)
      PROVE  TypeOK' /\ SendsSeeNoPast'
  <2>0. NoRequest \notin Requests /\ NoView \notin Requests /\ NoView # NoRequest
    BY CallerAssumption
  <2>1. ASSUME NEW t \in Tasks, await_response(c, t)
        PROVE  TypeOK' /\ SendsSeeNoPast'
    <3>1. c \notin Requests
      BY <2>1, CallerAssumption DEF await_response
    <3>2. /\ UNCHANGED <<mailbox, accepted, events, cursor, view, result>>
          /\ \A d \in Callers \ {c} : phase'[d] = phase[d] /\ on'[d] = on[d]
          /\ phase' \in [Callers -> Phases] /\ on' \in [Callers -> Tasks \cup {NoTask}]
      BY <2>1 DEF await_response, await, TypeOK, Phases, Waiting
    <3>3. TypeOK'
      BY <3>2 DEF TypeOK
    <3>4. SendsSeeNoPast'
      BY <1>0, <3>1, <3>2, CallFrame
    <3> QED BY <3>3, <3>4
  <2>2. CASE inspect_task(c)
    <3>1. CASE return(c, Outcome("missing"))
      BY <1>3, <2>2, <3>1, OutcomeType DEF inspect_task, Kinds
    <3>2. CASE /\ request[on[c]] # NoRequest /\ answer[on[c]] # NoRequest
               /\ return(c, Answered(answer[on[c]]))
      <4>1. CASE c \in Requests
        <5>1. /\ c \in seen /\ on[c] \in Tasks /\ request[on[c]] \in Requests
              /\ accepted[c] <= accepted[request[on[c]]]
          BY <1>0, <2>2, <4>1 DEF inspect_task, SendOK, Waiting
        <5>2. answer[on[c]] = request[on[c]] /\ 0 < accepted[c]
          BY <1>0, <3>2, <4>1, <5>1 DEF OrderOK
        <5> QED BY <1>3, <2>2, <3>2, <5>1, <5>2, OutcomeType DEF inspect_task
      <4>2. CASE c \notin Requests
        <5>1. answer[on[c]] \in Requests
          BY <2>2, <3>2 DEF inspect_task, CallsHaveTasks, Waiting, TypeOK
        <5> QED BY <1>3, <2>2, <3>2, <4>2, <5>1, OutcomeType DEF inspect_task
      <4> QED BY <4>1, <4>2
    <3>3. CASE phase' = [phase EXCEPT ![c] = "opening"] /\ UNCHANGED <<view, result>>
      <4>1. /\ UNCHANGED <<mailbox, accepted, events, on, cursor, view, result>>
            /\ phase[c] \in Waiting /\ "opening" \in Waiting
        BY <2>2, <3>3 DEF inspect_task, Waiting
      <4>2. cursor' \in [Callers -> Nat]
        BY <4>1 DEF TypeOK
      <4> QED BY <1>b, <3>3, <4>1, <4>2
    <3> QED BY <2>2, <3>1, <3>2, <3>3 DEF inspect_task, evaluate_document
  <2>3. CASE watch_for_result(c)
    <3>1. /\ UNCHANGED <<mailbox, accepted, events, on, view, result>>
          /\ phase[c] \in Waiting /\ "watching" \in Waiting
          /\ phase' = [phase EXCEPT ![c] = "watching"]
          /\ cursor' = [cursor EXCEPT ![c] = events[on[c]]]
      BY <2>3 DEF watch_for_result, Waiting
    <3>2. cursor' \in [Callers -> Nat]
      BY <3>1 DEF CallsHaveTasks, TypeOK
    <3> QED BY <1>b, <3>1, <3>2
  <2>4. CASE lookup(c)
    <3>1. /\ UNCHANGED <<mailbox, accepted, events, phase, on, result>>
          /\ phase[c] \in Waiting /\ phase[c] # "idle" /\ on[c] \in Tasks
          /\ cursor' = [cursor EXCEPT ![c] = cursor[c] + 1]
          /\ view' = [view EXCEPT ![c] = answer[on[c]]]
      BY <2>4 DEF lookup, Waiting, CallsHaveTasks
    <3>2. TypeOK'
      BY <3>1 DEF TypeOK
    <3>3. ASSUME c \in Requests PROVE SendOK(c)'
      <4>1. view'[c] = answer[on[c]]
        BY <3>1 DEF TypeOK
      <4>2. answer[on[c]] \in Requests => answer[on[c]] = request[on[c]]
        BY <1>0, <2>0, <3>1 DEF OrderOK
      <4> QED BY <1>0, <3>1, <3>3, <4>1, <4>2 DEF SendOK
    <3>4. \A d \in Callers \ {c} : view'[d] = view[d]
      BY <3>1 DEF TypeOK
    <3> QED BY <1>0, <3>1, <3>2, <3>3, <3>4, CallFrame
  <2>5. CASE next_event(c)
    <3>1. CASE view[c] # NoRequest /\ return(c, Answered(view[c]))
      <4>1. view[c] \in Requests
        BY <2>5, <3>1 DEF next_event, TypeOK
      <4>2. c \in Requests => 0 < accepted[c] /\ accepted[c] <= accepted[view[c]]
        BY <1>0, <4>1 DEF SendOK, OrderOK
      <4> QED BY <1>3, <2>5, <3>1, <4>1, <4>2, OutcomeType DEF next_event
    <3>2. CASE view' = [view EXCEPT ![c] = NoView] /\ UNCHANGED <<phase, result>>
      <4>1. UNCHANGED <<mailbox, accepted, events, on, cursor, phase, result>>
        BY <2>5, <3>2 DEF next_event
      <4>2. TypeOK'
        BY <3>2, <4>1 DEF TypeOK
      <4>3. view'[c] = NoView /\ \A d \in Callers \ {c} : view'[d] = view[d]
        BY <3>2 DEF TypeOK
      <4>4. c \in Requests => SendOK(c)'
        BY <1>0, <2>0, <4>1, <4>3 DEF SendOK
      <4> QED BY <1>0, <4>1, <4>2, <4>3, <4>4, CallFrame
    <3> QED BY <2>5, <3>1, <3>2 DEF next_event, evaluate_document
  <2>6. CASE wait_error(c) \/ timeout(c)
    <3>1. \A kind \in {"database", "timeout"} :
            Outcome(kind) \in Results /\ Outcome(kind).kind # "answer"
      BY OutcomeType DEF Kinds
    <3> QED BY <1>3, <2>6, <3>1 DEF wait_error, timeout
  <2> QED BY <1>5, <2>1, <2>2, <2>3, <2>4, <2>5, <2>6 DEF Call
\* A worker writes: the requests stay where they are.
<1>6. ASSUME NEW t \in Tasks, worker_finishes(t) \/ worker_touches(t)
      PROVE  TypeOK' /\ SendsSeeNoPast'
  <2>1. /\ UNCHANGED <<request, seen, accepted, phase, on, cursor, view, result>>
        /\ events' = [events EXCEPT ![t] = events[t] + 1]
        /\ \/ answer' = answer
           \/ answer' = [answer EXCEPT ![t] = request[t]]
    BY <1>6 DEF worker_finishes, worker_touches, M!Answer, written
  <2>2. events' \in [Tasks -> Nat]
    BY <2>1 DEF TypeOK
  <2>3. /\ answer' \in [Tasks -> Requests \cup {NoRequest}]
        /\ \A u \in Tasks : answer'[u] = answer[u] \/ answer'[u] = request[u]
    BY <2>1 DEF TypeOK
  <2>4. TypeOK'
    BY <2>1, <2>2, <2>3 DEF TypeOK
  <2>5. OrderOK'
    BY <1>0, <2>1, <2>3 DEF OrderOK
  <2>6. \A r \in Requests : SendOK(r)'
    BY <1>0, <2>1 DEF SendOK
  <2> QED BY <2>4, <2>5, <2>6 DEF SendsSeeNoPast, NoStaleAnswer, OrderOK, SendOK
<1>7. CASE UNCHANGED vars
  <2>1. TypeOK'
    BY <1>7 DEF vars, TypeOK
  <2>2. OrderOK' /\ \A r \in Requests : SendOK(r)'
    BY <1>0, <1>7 DEF vars, OrderOK, SendOK
  <2> QED BY <2>1, <2>2 DEF SendsSeeNoPast, NoStaleAnswer, OrderOK, SendOK
<1> QED BY <1>2, <1>4, <1>5, <1>6, <1>7 DEF Next

\* The inductive invariant of the caller's side.
LEMMA CallerInvariant == Spec => [](TypeOK /\ CallsHaveTasks /\ SendsSeeNoPast)
<1>1. Init => TypeOK /\ CallsHaveTasks /\ SendsSeeNoPast
  <2>1. Init => CallsHaveTasks
    BY DEF Init, CallsHaveTasks, Waiting
  <2> QED BY <2>1, CallerTypeInit, SendsInit
<1>2. TypeOK /\ CallsHaveTasks /\ SendsSeeNoPast /\ [Next]_vars
        => (TypeOK /\ CallsHaveTasks /\ SendsSeeNoPast)'
  BY CallerNext, CallsHaveTasksNext
<1> QED BY <1>1, <1>2, PTL DEF Spec

\* Every reachable state of the caller's side is well typed: no call ever
\* reports a document it has not looked up.
THEOREM CallerTypes == Spec => []TypeOK
BY CallerInvariant, PTL

\* From the upsert on, the task a send waits for and every document its stream
\* looked up hold its own submission or a later one.
THEOREM SendsOnlySeeFuture == Spec => []SendsSeeNoPast
BY CallerInvariant, PTL

\* A send never returns a result older than its own submission, for any number
\* of callers, tasks, resets and late lookups (caller.rs, SendBuilder).
THEOREM SendsNeverStale == Spec => []NoStaleAnswer
<1>1. SendsSeeNoPast => NoStaleAnswer
  BY DEF SendsSeeNoPast
<1> QED BY <1>1, CallerInvariant, PTL

-----------------------------------------------------------------------------
(* A stream loses no result                                                *)

\* A stream is never ahead of its document.
CursorsBehind ==
  \A c \in Callers : phase[c] = "watching" => cursor[c] <= events[on[c]]

\* What a step does to an open stream: it rests, looks the document up for the
\* next event, or delivers a looked-up document that was not finished.
follows(c) ==
  /\ on'[c] = on[c]
  /\ \/ UNCHANGED <<cursor[c], view[c]>>
     \/ /\ cursor[c] < events[on[c]] /\ cursor'[c] = cursor[c] + 1
        /\ view'[c] = answer[on[c]] /\ UNCHANGED <<answer, events>>
     \/ UNCHANGED <<answer, events, cursor[c]>> /\ view[c] = NoRequest

\* A document that gets a result, or changes at all, gets an event.
events_grow ==
  \A t \in Tasks : \/ events'[t] = events[t] /\ answer'[t] = answer[t]
                   \/ events'[t] = events[t] + 1

\* Whoever acts, a changed document has one event more.
LEMMA EventsGrow == TypeOK /\ [Next]_vars => events_grow
<1> SUFFICES ASSUME TypeOK, [Next]_vars PROVE events_grow
  OBVIOUS
<1>1. CASE UNCHANGED <<answer, events>>
  BY <1>1 DEF events_grow
<1>2. ASSUME NEW t \in Tasks, NEW a, answer' = answer \/ answer' = [answer EXCEPT ![t] = a],
             events' = [events EXCEPT ![t] = @ + 1]
      PROVE  events_grow
  BY <1>2 DEF TypeOK, events_grow
<1>3. ASSUME NEW r \in Requests, NEW t \in Tasks, upsert_task(r, t) PROVE events_grow
  BY <1>2, <1>3 DEF upsert_task, M!Submit, written
<1>4. ASSUME NEW r \in Requests, NEW t \in Tasks,
             send(r, t) \/ enqueue_only(r, t) \/ send_duplicate(r, t) \/ send_error(r, t)
      PROVE  events_grow
  BY <1>1, <1>3, <1>4 DEF send, enqueue_only, send_duplicate, send_error, mailbox
<1>5. ASSUME NEW c \in Callers, Call(c) PROVE events_grow
  BY <1>1, <1>5 DEF Call, await_response, inspect_task, watch_for_result, lookup,
                    next_event, wait_error, timeout, mailbox
<1>6. ASSUME NEW t \in Tasks, worker_finishes(t) \/ worker_touches(t) PROVE events_grow
  BY <1>2, <1>6 DEF worker_finishes, worker_touches, M!Answer, written, mailbox
<1>7. CASE UNCHANGED vars
  BY <1>1, <1>7 DEF vars
<1> QED BY <1>4, <1>5, <1>6, <1>7 DEF Next

\* A call that did not just open its stream follows it.
LEMMA WatchersFollow ==
  ASSUME TypeOK, [Next]_vars, NEW c \in Callers, phase'[c] = "watching",
         ~watch_for_result(c)
  PROVE  phase[c] = "watching" /\ follows(c)
<1> DEFINE goal == phase[c] = "watching" /\ follows(c)
<1>a. Requests \subseteq Callers
  BY DEF Callers
<1>1. ASSUME UNCHANGED <<phase[c], on[c], cursor[c], view[c]>> PROVE goal
  BY <1>1 DEF follows
<1>2. ASSUME NEW d \in Callers, NEW o, return(d, o), UNCHANGED <<on, cursor>> PROVE goal
  <2>1. d # c
    BY <1>2 DEF return, TypeOK
  <2> QED BY <1>1, <1>2, <2>1 DEF return, TypeOK
<1>3. ASSUME NEW d \in Callers, NEW t \in Tasks, await(d, t) PROVE goal
  <2>1. d # c
    BY <1>3 DEF await, TypeOK
  <2> QED BY <1>1, <1>3, <2>1 DEF await, TypeOK
<1> HIDE DEF goal
<1>4. ASSUME NEW r \in Requests, NEW t \in Tasks,
             send(r, t) \/ enqueue_only(r, t) \/ send_duplicate(r, t) \/ send_error(r, t)
      PROVE  goal
  BY <1>a, <1>2, <1>3, <1>4 DEF send, enqueue_only, send_duplicate, send_error
<1>5. ASSUME NEW d \in Callers, Call(d) PROVE goal
  <2>1. ASSUME NEW t \in Tasks, await_response(d, t) PROVE goal
    BY <1>3, <2>1 DEF await_response
  <2>2. CASE wait_error(d) \/ timeout(d)
    BY <1>2, <2>2 DEF wait_error, timeout
  <2>3. CASE inspect_task(d)
    <3>1. ASSUME phase' = [phase EXCEPT ![d] = "opening"], UNCHANGED <<on, cursor, view>>
          PROVE  goal
      <4>1. d # c
        BY <3>1 DEF TypeOK
      <4> QED BY <1>1, <3>1, <4>1 DEF TypeOK
    <3> QED BY <1>2, <2>3, <3>1 DEF inspect_task
  <2>4. CASE watch_for_result(d)
    <3>1. d # c
      BY <2>4
    <3> QED BY <1>1, <2>4, <3>1 DEF watch_for_result, TypeOK
  <2>5. CASE lookup(d)
    <3>1. CASE d = c
      BY <2>5, <3>1 DEF lookup, mailbox, TypeOK, goal, follows
    <3>2. CASE d # c
      BY <1>1, <2>5, <3>2 DEF lookup, TypeOK
    <3> QED BY <3>1, <3>2
  <2>6. CASE next_event(d)
    <3>1. CASE d = c
      <4>1. ASSUME return(d, Answered(view[d])), UNCHANGED <<on, cursor>> PROVE goal
        BY <1>2, <4>1
      <4>2. ASSUME ~evaluate_document(d, view[d]), UNCHANGED phase PROVE goal
        BY <2>6, <3>1, <4>2 DEF next_event, evaluate_document, mailbox, goal, follows
      <4> QED BY <2>6, <4>1, <4>2 DEF next_event
    <3>2. CASE d # c
      BY <1>1, <1>2, <2>6, <3>2 DEF next_event, TypeOK
    <3> QED BY <3>1, <3>2
  <2> QED BY <1>5, <2>1, <2>2, <2>3, <2>4, <2>5, <2>6 DEF Call
<1>6. ASSUME NEW t \in Tasks, worker_finishes(t) \/ worker_touches(t) PROVE goal
  BY <1>1, <1>6 DEF worker_finishes, worker_touches, calls
<1>7. ASSUME UNCHANGED vars PROVE goal
  BY <1>1, <1>7 DEF vars
<1>8. goal
  BY <1>4, <1>5, <1>6, <1>7 DEF Next
<1> QED BY <1>8 DEF goal

\* Streams stay behind their documents.
LEMMA CursorsStayBehind ==
  TypeOK /\ CallsHaveTasks /\ CursorsBehind /\ [Next]_vars => CursorsBehind'
<1> SUFFICES ASSUME TypeOK, CallsHaveTasks, CursorsBehind, [Next]_vars,
                    NEW c \in Callers, phase'[c] = "watching"
             PROVE  cursor'[c] <= events'[on'[c]]
  BY DEF CursorsBehind
<1>0. \A t \in Tasks : events[t] \in Nat
  BY DEF TypeOK
<1>1. CASE watch_for_result(c)
  <2>1. on[c] \in Tasks
    BY <1>1 DEF watch_for_result, CallsHaveTasks, Waiting
  <2>2. cursor'[c] = events[on[c]] /\ UNCHANGED <<events, on>>
    BY <1>1 DEF watch_for_result, TypeOK
  <2> QED BY <1>0, <2>1, <2>2
<1>2. CASE ~watch_for_result(c)
  <2>1. phase[c] = "watching" /\ follows(c)
    BY <1>2, WatchersFollow
  <2>2. on[c] \in Tasks /\ cursor[c] \in Nat /\ cursor[c] <= events[on[c]]
    BY <2>1 DEF CallsHaveTasks, Waiting, TypeOK, CursorsBehind
  <2>3. events'[on[c]] = events[on[c]] \/ events'[on[c]] = events[on[c]] + 1
    BY <2>2, EventsGrow DEF events_grow
  <2> QED BY <1>0, <2>1, <2>2, <2>3 DEF follows
<1> QED BY <1>1, <1>2

\* A wait becomes stranded only by opening its stream after the result was
\* written, for any number of callers, tasks, resets, heartbeats and late
\* lookups (watch_for_result in caller.rs): every later result reaches it.
THEOREM StreamsLoseNoResult == Spec => OnlyLateWatchStrands
<1>1. TypeOK /\ CallsHaveTasks /\ CursorsBehind /\ [Next]_vars
        => [\A c \in Callers : stranded(c)' => stranded(c) \/ watch_for_result(c)]_vars
  <2> SUFFICES ASSUME TypeOK, CallsHaveTasks, CursorsBehind, [Next]_vars,
                      NEW c \in Callers, stranded(c)', ~watch_for_result(c)
               PROVE  stranded(c)
    OBVIOUS
  <2>0. /\ phase'[c] = "watching" /\ answer'[on'[c]] # NoRequest
        /\ cursor'[c] = events'[on'[c]] /\ view'[c] \in {NoView, NoRequest}
    BY DEF stranded
  <2>1. phase[c] = "watching" /\ follows(c)
    BY <2>0, WatchersFollow
  <2>2. /\ on[c] \in Tasks /\ cursor[c] \in Nat /\ events[on[c]] \in Nat
        /\ cursor[c] <= events[on[c]]
    BY <2>1 DEF CallsHaveTasks, Waiting, TypeOK, CursorsBehind
  <2>3. \/ events'[on[c]] = events[on[c]] /\ answer'[on[c]] = answer[on[c]]
        \/ events'[on[c]] = events[on[c]] + 1
    BY <2>2, EventsGrow DEF events_grow
  <2>4. CASE UNCHANGED <<cursor[c], view[c]>>
    BY <2>0, <2>1, <2>2, <2>3, <2>4 DEF follows, stranded
  <2>5. CASE view'[c] = answer[on[c]] /\ UNCHANGED <<answer, events>>
    <3>1. answer[on[c]] # NoView
      BY <2>2, CallerAssumption DEF TypeOK
    <3> QED BY <2>0, <2>1, <2>5, <3>1 DEF follows
  <2>6. CASE UNCHANGED <<answer, events, cursor[c]>> /\ view[c] = NoRequest
    BY <2>0, <2>1, <2>6 DEF follows, stranded
  <2> QED BY <2>1, <2>4, <2>5, <2>6 DEF follows
<1>2. Spec => [](TypeOK /\ CallsHaveTasks)
  BY CallerInvariant, PTL
<1>3. Init => CursorsBehind
  BY DEF Init, CursorsBehind
<1>4. TypeOK /\ CallsHaveTasks /\ CursorsBehind /\ [Next]_vars => CursorsBehind'
  BY CursorsStayBehind
<1>5. Spec => []CursorsBehind
  BY <1>2, <1>3, <1>4, PTL DEF Spec
<1> QED BY <1>1, <1>2, <1>5, PTL DEF Spec, OnlyLateWatchStrands
=============================================================================
