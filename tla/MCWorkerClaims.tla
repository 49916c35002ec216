--------------------------- MODULE MCWorkerClaims ---------------------------
(* Small instances of WorkerClaims for TLC.                                *)
EXTENDS WorkerClaims, TLC

CONSTANTS p1, p2, w1, w2, r1, r2

\* Two processes under one identity (a worker and its restart, or two
\* deployments configured with the same worker_id), or each under its own.
SharedId == [p \in Procs |-> w1]
OwnIds   == [p \in Procs |-> IF p = p1 THEN w1 ELSE w2]

\* Switch timeouts.  A lease of zero has expired as soon as it is written, and
\* the heartbeat loop of its claim dies as soon as it starts.
OneTick     == [r \in Requests |-> 1]
OneThenZero == [r \in Requests |-> IF r = r1 THEN 1 ELSE 0]

TokenSymmetry == Permutations(Tokens)
Symmetry      == Permutations(Tokens) \cup Permutations(Procs)
=============================================================================
