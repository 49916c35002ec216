----------------------------- MODULE LeaseTiming -----------------------------
(***************************************************************************)
(* The timing of one lease: how far apart the heartbeats of a healthy      *)
(* owner are (heartbeat_interval, start_heartbeat_loop and heartbeat in    *)
(* worker.rs) and what another worker, with another clock, sees of them    *)
(* (stale_claim_filter).  WorkerClaims lets a heartbeat come late at will; *)
(* here the owner is healthy, within the bounds that are its parameters.   *)
(*                                                                         *)
(* `now' is the owner's clock.  Time advances only where nothing that is   *)
(* bound to have happened is outstanding.                                  *)
(***************************************************************************)
EXTENDS Integers

CONSTANTS
  SwitchTimeout,  \* worker_switch_timeout of the task
  Poll,           \* within this time of becoming ready the loop is polled
  Apply,          \* a write reaches the document within this time
  Reply,          \* and is answered within this one
  Skew,           \* how far the clock of another worker may be ahead
  MaxTime         \* bound on the clock

\* A beat is at most a third of the timeout, or a slow reply, after the last;
\* with polling, delivery and skew on top that is within the timeout.
ASSUME HealthyAssumption ==
  /\ SwitchTimeout \in Nat /\ Poll \in Nat /\ Apply \in Nat /\ Reply \in Nat
  /\ Skew \in Nat /\ MaxTime \in Nat
  /\ Apply <= Reply
  /\ (SwitchTimeout \div 3) + Poll + Apply + Skew < SwitchTimeout
  /\ Reply + Poll + Apply + Skew < SwitchTimeout

VARIABLES
  now,           \* the owner's clock
  heartbeat_at,  \* of the document
  stage,         \* the latest write: the claim, the setup heartbeat or a beat
  phase,         \* "sending", "applied" (reply under way) or "idle"
  sent,          \* the time stamp of that write
  next           \* when the next heartbeat is ready to be sent

vars == <<now, heartbeat_at, stage, phase, sent, next>>

TypeOK ==
  /\ now \in Nat /\ heartbeat_at \in Nat /\ sent \in Nat /\ next \in Nat
  /\ stage \in {"claim", "setup", "loop"}
  /\ phase \in {"sending", "applied", "idle"}

\* The claim is on its way.
Init ==
  /\ now = 0
  /\ heartbeat_at = 0
  /\ stage = "claim"
  /\ phase = "sending"
  /\ sent = 0
  /\ next = 0

heartbeat_interval == SwitchTimeout \div 3

\* A heartbeat is stamped and sent: the one that confirms the claim as soon as
\* the claim is answered, the first of the loop as soon as that one is, since
\* the first tick of an interval is immediate.  Under MissedTickBehavior::Delay
\* every later tick counts from the one before, when it was due or, if it was
\* missed, when it came.
heartbeat ==
  /\ phase = "idle"
  /\ now >= next
  /\ sent' = now
  /\ phase' = "sending"
  /\ stage' = IF stage = "claim" THEN "setup" ELSE "loop"
  /\ IF stage = "claim" THEN next' = now
     ELSE \E tick \in {next, now} : next' = tick + heartbeat_interval
  /\ UNCHANGED <<now, heartbeat_at>>

\* The write reaches the document.
applied ==
  /\ phase = "sending"
  /\ heartbeat_at' = sent
  /\ phase' = "applied"
  /\ UNCHANGED <<now, stage, sent, next>>

\* Mutant: the interval counts from the reply.
replied_restarts_interval ==
  /\ phase = "applied"
  /\ phase' = "idle"
  /\ next' = now + heartbeat_interval
  /\ UNCHANGED <<now, heartbeat_at, stage, sent>>

\* The write is answered, perhaps after the next tick was due: it is missed
\* and comes at once.
replied ==
  /\ phase = "applied"
  /\ phase' = "idle"
  /\ next' = IF next < now THEN now ELSE next
  /\ UNCHANGED <<now, heartbeat_at, stage, sent>>

\* Whatever is outstanding now still has time.
patient ==
  \/ phase = "sending" /\ now < sent + Apply
  \/ phase = "applied" /\ now < sent + Reply
  \/ phase = "idle"    /\ now < next + Poll

Tick ==
  /\ now < MaxTime
  /\ patient
  /\ now' = now + 1
  /\ UNCHANGED <<heartbeat_at, stage, phase, sent, next>>

Next == heartbeat \/ applied \/ replied \/ Tick

Spec == Init /\ [][Next]_vars

-----------------------------------------------------------------------------
\* The claim is in the document.
owned == stage # "claim" \/ phase # "sending"

\* What stale_claim_filter asks, with the clock that is furthest ahead.
lease_expired == heartbeat_at + SwitchTimeout <= now + Skew

\* No worker can take the task from a healthy owner: at no moment between two
\* heartbeats, a slow reply and a missed tick included, has the lease expired
\* by any clock that is at most Skew ahead.
HealthyLeaseKept == owned => ~lease_expired

\* Why: the document is never further behind than one interval or one slow
\* reply and the delays of the heartbeat that follows.
LeaseInvariant ==
  LET gap == IF heartbeat_interval < Reply THEN Reply ELSE heartbeat_interval IN
  /\ TypeOK
  /\ phase = "sending" =>
       /\ now <= sent + Apply
       /\ next <= sent + heartbeat_interval
       /\ stage # "claim" => sent <= heartbeat_at + gap + Poll
  /\ phase = "applied" =>
       /\ heartbeat_at = sent
       /\ now <= sent + Reply
       /\ next <= sent + heartbeat_interval
  /\ phase = "idle" =>
       /\ heartbeat_at = sent
       /\ now <= next + Poll
       /\ next <= sent + gap
=============================================================================
