--------------------------- MODULE SubmissionOrder ---------------------------
(***************************************************************************)
(* What an application may rely on when it commits: every submission is    *)
(* executed, the submissions of one executor in the order it committed     *)
(* them, the graphics submissions of the device in the order in which they *)
(* were submitted, whichever executors and queues they went to.            *)
(***************************************************************************)
EXTENDS Naturals

CONSTANTS Executor, Kind

VARIABLES
    executing,  \* the submissions not completed
    submitted   \* how many there were

orderVars == <<executing, submitted>>

Submission == [owner : Executor, kind : Kind, stamp : Nat]

\* Neither may overtake the other.
Ordered(j, k) == j.owner = k.owner \/ (j.kind = "Graphics" /\ k.kind = "Graphics")

OrderInit == executing = {} /\ submitted = 0

Accept(e, kind) ==
    /\ executing' = executing \cup {[owner |-> e, kind |-> kind, stamp |-> submitted]}
    /\ submitted' = submitted + 1

Execute(j) ==
    /\ \A k \in executing : Ordered(j, k) => j.stamp <= k.stamp
    /\ executing' = executing \ {j}
    /\ UNCHANGED submitted

ExecuteSome == \E j \in executing : Execute(j)

OrderNext == (\E e \in Executor, kind \in Kind : Accept(e, kind)) \/ ExecuteSome

InOrder == OrderInit /\ [][OrderNext]_orderVars

OrderSpec == InOrder /\ WF_orderVars(ExecuteSome)
=============================================================================
