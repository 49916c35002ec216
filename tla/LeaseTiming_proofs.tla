------------------------ MODULE LeaseTiming_proofs ------------------------
(***************************************************************************)
(* A healthy owner keeps its lease, for every switch timeout and every set *)
(* of delays that HealthyAssumption admits.                                *)
(***************************************************************************)
EXTENDS LeaseTiming, TLAPS

\* The interval is a natural number, at most the switch timeout.
LEMMA IntervalBound ==
  /\ heartbeat_interval \in Nat
  /\ heartbeat_interval + Poll + Apply + Skew < SwitchTimeout
BY HealthyAssumption DEF heartbeat_interval

\* LeaseInvariant holds when the claim is sent.
LEMMA LeaseInit == Init => LeaseInvariant
BY HealthyAssumption, IntervalBound DEF Init, LeaseInvariant, TypeOK

\* Every heartbeat, write, reply and passing of time preserves it.
LEMMA LeaseStep == LeaseInvariant /\ [Next]_vars => LeaseInvariant'
<1> SUFFICES ASSUME LeaseInvariant, [Next]_vars PROVE LeaseInvariant'
  OBVIOUS
<1> USE HealthyAssumption, IntervalBound
<1>1. CASE heartbeat
  BY <1>1 DEF heartbeat, LeaseInvariant, TypeOK
<1>2. CASE applied
  BY <1>2 DEF applied, LeaseInvariant, TypeOK
<1>3. CASE replied
  BY <1>3 DEF replied, LeaseInvariant, TypeOK
<1>4. CASE Tick
  BY <1>4 DEF Tick, patient, LeaseInvariant, TypeOK
<1>5. CASE UNCHANGED vars
  BY <1>5 DEF vars, LeaseInvariant, TypeOK
<1> QED BY <1>1, <1>2, <1>3, <1>4, <1>5 DEF Next

\* The document of a healthy owner is never further behind than its delays.
THEOREM LeaseInvariantHolds == Spec => []LeaseInvariant
BY LeaseInit, LeaseStep, PTL DEF Spec

\* No worker, with a clock at most Skew ahead, finds the lease of a healthy
\* owner expired.
THEOREM LeaseIsKept == Spec => []HealthyLeaseKept
<1>1. LeaseInvariant => HealthyLeaseKept
  BY HealthyAssumption, IntervalBound
  DEF LeaseInvariant, TypeOK, HealthyLeaseKept, owned, lease_expired
<1> QED BY <1>1, LeaseInvariantHolds, PTL
=============================================================================
