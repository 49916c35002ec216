---------------------------- MODULE TaskMailbox -----------------------------
(***************************************************************************)
(* What the task collection promises a caller, with workers, claims and    *)
(* heartbeats left out: a task holds one request at a time; it gets at     *)
(* most one answer, which answers exactly that request; and only a         *)
(* resetting submission may replace an answered request.                   *)
(***************************************************************************)
CONSTANTS Tasks, Requests, Resets, NoRequest

VARIABLES
  request,   \* the request each task holds, or NoRequest
  answer,    \* the request whose answer is stored, or NoRequest
  seen       \* every request ever accepted

mailbox == <<request, answer, seen>>

Init ==
  /\ request = [t \in Tasks |-> NoRequest]
  /\ answer = [t \in Tasks |-> NoRequest]
  /\ seen = {}

\* upsert_task accepts a submission: a fresh insert, or the reset of a
\* finished task.
Submit(t, r) ==
  /\ r \notin seen
  /\ \/ request[t] = NoRequest
     \/ r \in Resets /\ answer[t] # NoRequest
  /\ request' = [request EXCEPT ![t] = r]
  /\ answer' = [answer EXCEPT ![t] = NoRequest]
  /\ seen' = seen \cup {r}

\* Some worker stores the result, or the failure, of the request it holds.
Answer(t) ==
  /\ request[t] # NoRequest
  /\ answer[t] = NoRequest
  /\ answer' = [answer EXCEPT ![t] = request[t]]
  /\ UNCHANGED <<request, seen>>

Next == \E t \in Tasks : Answer(t) \/ \E r \in Requests : Submit(t, r)

Spec == Init /\ [][Next]_mailbox
=============================================================================
