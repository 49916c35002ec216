---------------------------- MODULE MCWorkerLoop ----------------------------
(* Small instances of WorkerLoop for TLC.                                  *)
EXTENDS WorkerLoop, TLC

\* Switch timeouts, the same for all documents.
OneTick  == [t \in Ids |-> 1]
TwoTicks == [t \in Ids |-> 2]

IdSymmetry == Permutations(Ids)
=============================================================================
