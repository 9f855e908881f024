-------------------------- MODULE MCExecutorSubmit --------------------------
(* Small instances of ExecutorSubmit for TLC. *)
EXTENDS ExecutorSubmit, TLC

CONSTANTS q1, q2

\* Two graphics queues; compute and transfer fall back to them.
TwoQueuePool == [kind \in Kind |-> IF kind = "Graphics" THEN {q1, q2} ELSE {}]

Symmetry == Permutations(Executor) \cup Permutations(Resource)

\* Callers record copies and draws, each with an object to keep: a dispatch is
\* committed like a copy that keeps nothing.  So three commits stay small enough
\* for liveness, and with the third a drain has to wait and a queue to be spun for.
BusyStep(e) ==
    \/ \E r \in Resource : AddCopy(e, r) \/ AddPipeline(e, "Graphics", r)
    \/ \E other \in Executor : WaitFor(e, other)
    \/ CleanupDeferred(e) \/ WaitForDeferred(e) \/ Destroy(e)
    \/ CommitEmpty(e) \/ BeginCommit(e) \/ CommitStep(e)

\* What must run on is what must in FairSpec.
BusySpec == Init /\ [][GpuStep \/ \E e \in Executor : BusyStep(e)]_vars /\ Fairness
=============================================================================
