--------------------------- MODULE ExecutorSubmit ---------------------------
(***************************************************************************)
(* How HardwareExecutorVulkan turns recorded commands into GPU work: the   *)
(* executors (one thread each, they hold their storage slot for the whole  *)
(* call), the device queues they share (QueueUtils: one mutex, one command *)
(* buffer, one timeline semaphore and one atomic timelineValue each), the  *)
(* device-wide chain of graphics submissions, the deferred release of the  *)
(* objects a submission uses, and ResourceManager::destroyBuffer, which    *)
(* reads the atomic timelineValues without any queue mutex.                *)
(*                                                                         *)
(* One logical device.  The round-robin cursor of a pool only decides which*)
(* queue is tried next, so picking is a free choice among the pool's       *)
(* queues.  Commands are abstracted to their executor type and the object  *)
(* the command keeps alive.                                                *)
(***************************************************************************)
EXTENDS Integers, FiniteSets

CONSTANTS
    Executor,       \* HardwareExecutorVulkan objects
    Destroyer,      \* threads that call ResourceManager::destroyBuffer
    Queue,          \* DeviceManager::QueueUtils of the device
    Resource,       \* keep-alive objects (CopyCommandImpl, ResourceHolderCommand)
    Pool,           \* executor type -> its queues (graphicsQueues, ...)
    None,           \* null pointer, unlocked mutex
    MaxCommands,    \* bound: commands recorded between two commits
    MaxCommits,     \* bound: commits begun with a non-empty command list
    MaxFailures     \* bound: faults injected (Fault)

Kind == {"Graphics", "Compute", "Transfer"}

\* A destroyBuffer call in progress: the values read, and the submissions that
\* were in flight when it read them.
Drain == [values : [Queue -> Nat], witness : SUBSET Nat]

ASSUME PoolAssumption ==
    /\ Pool \in [Kind -> SUBSET Queue]
    /\ Executor \cap Destroyer = {}
    /\ None \notin Executor \cup Queue \cup Resource \cup Drain

ASSUME BoundAssumption ==
    MaxCommands \in Nat /\ MaxCommits \in Nat /\ MaxFailures \in Nat

VARIABLES
    pc,                    \* where each executor is in commit()
    commandList,           \* commands recorded and not yet committed
    pendingResources,      \* keep-alive objects not yet bound to a submission
    localPendingResources, \* the vector moved out by pickQueueAndCommit
    deferredReleaseQueue,  \* objects bound to a semaphore value
    waitSemaphores,        \* what the next submission will wait for
    currentRecordQueue,
    lastSignalValue,
    picked,                \* the local "queue" of pickQueueAndCommit
    queueMutex,            \* owner of each queue's mutex
    timelineValue,         \* the shared atomic of each queue
    counter,               \* value of each queue's timeline semaphore, on the GPU
    inFlight,              \* submissions the GPU has not completed
    chainMutex,            \* owner of gGraphicsSubmitChainMutex
    chain,                 \* gGraphicsSubmitChains[device]
    drain,                 \* the values a destroyBuffer call waits for
    begun, issued,         \* commits begun, submissions made
    failures

execVars  == <<commandList, pendingResources, localPendingResources,
               deferredReleaseQueue, waitSemaphores, currentRecordQueue,
               lastSignalValue>>
queueVars == <<picked, queueMutex, timelineValue>>
gpuVars   == <<counter, inFlight>>
chainVars == <<chainMutex, chain>>
vars == <<pc, execVars, queueVars, gpuVars, chainVars, drain, begun, issued, failures>>

Thread == Executor \cup Destroyer

\* A point on a queue's timeline semaphore.
Point == [queue : Queue, value : Nat]

Command == [kind : Kind, holds : Resource \cup {None}]

Job == [queue : Queue, signal : Nat, waits : SUBSET Point, owner : Executor,
        kind : Kind, uses : SUBSET Resource, stamp : Nat]

Deferred == [resource : Resource, queue : Queue, value : Nat]

NoChain == [queue |-> None, value |-> 0]

PcState == {"idle", "chain", "pick", "drain", "record", "submit", "submitted",
            "failed", "gone"}

\* Between try_lock and unlock in pickQueueAndCommit.
HoldsQueue(e) == pc[e] \in {"drain", "record", "submit"}

-----------------------------------------------------------------------------
\* Helpers of commit() and pickQueueAndCommit().

\* Any graphics command makes it graphics, else any compute command compute.
QueueType(cmds) ==
    LET kinds == {c.kind : c \in cmds}
    IN  IF "Graphics" \in kinds THEN "Graphics"
        ELSE IF "Compute" \in kinds THEN "Compute" ELSE "Transfer"

\* commit() falls back to the graphics queues when the pool is empty.
QueuesFor(kind) == IF Pool[kind] # {} THEN Pool[kind] ELSE Pool["Graphics"]

\* What RasterizerPipelineVulkan::commitCommand adds to pendingResources.
HeldByRecording(cmds) == {c.holds : c \in {x \in cmds : x.kind = "Graphics"}} \ {None}

Reached(p) == counter[p.queue] >= p.value

\* Mutant: the chain is published but never waited for.
NoChainWait == {}

\* The chain wait is added only when a graphics submission was recorded.
ChainWait == IF chain.value > 0 THEN {chain} ELSE {}

\* Mutants: the value waited for, or the next one, instead of the value signalled.
TailWaitEarly(e) ==
    {[queue |-> q, value |-> lastSignalValue[e] - 1] : q \in {currentRecordQueue[e]} \ {None}}

TailWaitLate(e) ==
    {[queue |-> q, value |-> lastSignalValue[e] + 1] : q \in {currentRecordQueue[e]} \ {None}}

\* What commit() leaves in waitSemaphores for the next submission.
TailWait(e) ==
    IF currentRecordQueue[e] = None THEN {}
    ELSE {[queue |-> currentRecordQueue[e], value |-> lastSignalValue[e]]}

\* The signal value after the "signal must exceed wait" adjustment.
SignalValue(q, waits, signal) ==
    LET own == {w.value : w \in {x \in waits : x.queue = q}}
        top == CHOOSE m \in own : \A n \in own : n <= m
    IN  IF \E v \in own : v >= signal THEN top + 1 ELSE signal

Bind(resources, q, value) ==
    {[resource |-> r, queue |-> q, value |-> value] : r \in resources}

\* Mutant: compares with the allocated values instead of the semaphore's.
CompletedWhenAllocated(e) ==
    {d \in deferredReleaseQueue[e] : d.value <= timelineValue[d.queue]}

Completed(e) ==
    {d \in deferredReleaseQueue[e] : d.value <= counter[d.queue]}

\* Mutants: destroyBuffer waits for what is already reached, or for one value more.
DrainNothing == [values |-> counter, witness |-> {j.stamp : j \in inFlight}]

DrainNext == [values |-> [q \in Queue |-> timelineValue[q] + 1],
              witness |-> {j.stamp : j \in inFlight}]

\* destroyBuffer loads every queue's timelineValue, without the queue mutex.
DrainTarget == [values |-> timelineValue, witness |-> {j.stamp : j \in inFlight}]

DrainReached(t) == \A q \in Queue : counter[q] >= drain[t].values[q]

-----------------------------------------------------------------------------
Init ==
    /\ pc = [e \in Executor |-> "idle"]
    /\ commandList = [e \in Executor |-> {}]
    /\ pendingResources = [e \in Executor |-> {}]
    /\ localPendingResources = [e \in Executor |-> {}]
    /\ deferredReleaseQueue = [e \in Executor |-> {}]
    /\ waitSemaphores = [e \in Executor |-> {}]
    /\ currentRecordQueue = [e \in Executor |-> None]
    /\ lastSignalValue = [e \in Executor |-> 0]
    /\ picked = [e \in Executor |-> None]
    /\ queueMutex = [q \in Queue |-> None]
    /\ timelineValue = [q \in Queue |-> 0]
    /\ counter = [q \in Queue |-> 0]
    /\ inFlight = {}
    /\ chainMutex = None
    /\ chain = NoChain
    /\ drain = [t \in Thread |-> None]
    /\ begun = 0
    /\ issued = 0
    /\ failures = 0

-----------------------------------------------------------------------------
\* Calls on an idle executor.

CanRecord(e) == Cardinality(commandList[e]) < MaxCommands

\* executor << CopyCommand: the command, and the object that owns it.
AddCopy(e, r) ==
    /\ pc[e] = "idle" /\ CanRecord(e)
    /\ commandList' = [commandList EXCEPT ![e] = @ \cup {[kind |-> "Transfer", holds |-> r]}]
    /\ pendingResources' = [pendingResources EXCEPT ![e] = @ \cup {r}]
    /\ UNCHANGED <<pc, localPendingResources, deferredReleaseQueue, waitSemaphores,
                   currentRecordQueue, lastSignalValue, queueVars, gpuVars,
                   chainVars, drain, begun, issued, failures>>

\* executor << pipeline: nothing is kept alive until the command is recorded;
\* a rasterizer then adds the holder r of the meshes it drew.
AddPipeline(e, kind, r) ==
    /\ pc[e] = "idle" /\ CanRecord(e)
    /\ \/ kind = "Compute" /\ r = None
       \/ kind = "Graphics"
    /\ commandList' = [commandList EXCEPT ![e] = @ \cup {[kind |-> kind, holds |-> r]}]
    /\ UNCHANGED <<pc, pendingResources, localPendingResources, deferredReleaseQueue,
                   waitSemaphores, currentRecordQueue, lastSignalValue, queueVars,
                   gpuVars, chainVars, drain, begun, issued, failures>>

\* wait(other), same device: the other executor is not inside a call, because
\* HardwareExecutor::wait holds the storage slots of both.
WaitFor(e, other) ==
    /\ e # other /\ pc[e] = "idle" /\ pc[other] = "idle"
    /\ currentRecordQueue[other] # None
    /\ waitSemaphores' = [waitSemaphores EXCEPT ![e] = @ \cup TailWait(other)]
    /\ UNCHANGED <<pc, commandList, pendingResources, localPendingResources,
                   deferredReleaseQueue, currentRecordQueue, lastSignalValue,
                   queueVars, gpuVars, chainVars, drain, begun, issued, failures>>

\* commit() with nothing recorded still rewrites waitSemaphores.
CommitEmpty(e) ==
    /\ pc[e] = "idle" /\ commandList[e] = {}
    /\ waitSemaphores' = [waitSemaphores EXCEPT ![e] = TailWait(e)]
    /\ UNCHANGED <<pc, commandList, pendingResources, localPendingResources,
                   deferredReleaseQueue, currentRecordQueue, lastSignalValue,
                   queueVars, gpuVars, chainVars, drain, begun, issued, failures>>

BeginCommit(e) ==
    /\ pc[e] = "idle" /\ commandList[e] # {}
    /\ begun < MaxCommits
    /\ begun' = begun + 1
    /\ pc' = [pc EXCEPT ![e] = IF QueueType(commandList[e]) = "Graphics"
                               THEN "chain" ELSE "pick"]
    /\ UNCHANGED <<execVars, queueVars, gpuVars, chainVars, drain, issued, failures>>

\* cleanupDeferredResources: a non-blocking sweep.
CleanupDeferred(e) ==
    /\ pc[e] = "idle"
    /\ Completed(e) # {}
    /\ deferredReleaseQueue' = [deferredReleaseQueue EXCEPT ![e] = @ \ Completed(e)]
    /\ UNCHANGED <<pc, commandList, pendingResources, localPendingResources,
                   waitSemaphores, currentRecordQueue, lastSignalValue, queueVars,
                   gpuVars, chainVars, drain, begun, issued, failures>>

\* waitForDeferredResources: returns when the GPU has reached every entry.
WaitForDeferred(e) ==
    /\ pc[e] = "idle"
    /\ deferredReleaseQueue[e] # {}
    /\ Completed(e) = deferredReleaseQueue[e]
    /\ deferredReleaseQueue' = [deferredReleaseQueue EXCEPT ![e] = {}]
    /\ UNCHANGED <<pc, commandList, pendingResources, localPendingResources,
                   waitSemaphores, currentRecordQueue, lastSignalValue, queueVars,
                   gpuVars, chainVars, drain, begun, issued, failures>>

\* The destructor drops everything; Destroy only after its wait succeeded.
DropAll(e) ==
    /\ pc' = [pc EXCEPT ![e] = "gone"]
    /\ deferredReleaseQueue' = [deferredReleaseQueue EXCEPT ![e] = {}]
    /\ pendingResources' = [pendingResources EXCEPT ![e] = {}]
    /\ UNCHANGED <<commandList, localPendingResources, waitSemaphores,
                   currentRecordQueue, lastSignalValue, queueVars, gpuVars,
                   chainVars, drain, begun, issued>>

Destroy(e) ==
    /\ pc[e] = "idle"
    /\ Completed(e) = deferredReleaseQueue[e]
    /\ DropAll(e)
    /\ UNCHANGED failures

-----------------------------------------------------------------------------
\* The steps of a commit().

\* A graphics commit holds the chain mutex until it has published its own
\* submission, and waits for the previous graphics submission.
LockChain(e) ==
    /\ pc[e] = "chain"
    /\ chainMutex = None
    /\ chainMutex' = e
    /\ waitSemaphores' = [waitSemaphores EXCEPT ![e] = @ \cup ChainWait]
    /\ pc' = [pc EXCEPT ![e] = "pick"]
    /\ UNCHANGED <<commandList, pendingResources, localPendingResources,
                   deferredReleaseQueue, currentRecordQueue, lastSignalValue,
                   queueVars, gpuVars, chain, drain, begun, issued, failures>>

\* Mutants: one submission may be outstanding; one more than was allocated.
QueueAlmostIdle(q) == counter[q] + 1 >= timelineValue[q]

QueuePastIdle(q) == counter[q] > timelineValue[q]

\* try_lock succeeded: the counter must have reached timelineValue.
QueueIdle(q) == counter[q] >= timelineValue[q]

\* The picked queue stays locked.  cleanupCompletedResources runs under the lock,
\* and where it drops the last reference to a buffer, destroyBuffer does too.
Pick(e, q) ==
    /\ pc[e] = "pick"
    /\ q \in QueuesFor(QueueType(commandList[e]))
    /\ queueMutex[q] = None
    /\ QueueIdle(q)
    /\ queueMutex' = [queueMutex EXCEPT ![q] = e]
    /\ picked' = [picked EXCEPT ![e] = q]
    /\ deferredReleaseQueue' = [deferredReleaseQueue EXCEPT ![e] = @ \ Completed(e)]
    /\ \/ /\ pc' = [pc EXCEPT ![e] = "record"]
          /\ UNCHANGED drain
       \/ /\ Completed(e) # {}
          /\ pc' = [pc EXCEPT ![e] = "drain"]
          /\ drain' = [drain EXCEPT ![e] = DrainTarget]
    /\ UNCHANGED <<commandList, pendingResources, localPendingResources,
                   waitSemaphores, currentRecordQueue, lastSignalValue,
                   timelineValue, gpuVars, chainVars, begun, issued, failures>>

\* destroyBuffer returns: all values reached, or the 2 s timeout and then
\* vkDeviceWaitIdle.
DrainDone(t) == DrainReached(t) \/ inFlight = {}

DrainInPick(e) ==
    /\ pc[e] = "drain"
    /\ DrainDone(e)
    /\ drain' = [drain EXCEPT ![e] = None]
    /\ pc' = [pc EXCEPT ![e] = "record"]
    /\ UNCHANGED <<execVars, queueVars, gpuVars, chainVars, begun, issued, failures>>

\* fetch_add: the old value is waited for, the new one is signalled.
Allocate(q) == [timelineValue EXCEPT ![q] = @ + 1]

\* The pending objects move out; the queue's one command buffer is reset and
\* recorded, which adds the holders of rasterizers; then one fetch_add gives the
\* value to wait for and the value to signal.
Record(e) ==
    LET q == picked[e]
    IN  /\ pc[e] = "record"
        /\ localPendingResources' = [localPendingResources EXCEPT ![e] = pendingResources[e]]
        /\ pendingResources' = [pendingResources EXCEPT ![e] = HeldByRecording(commandList[e])]
        /\ currentRecordQueue' = [currentRecordQueue EXCEPT ![e] = q]
        /\ waitSemaphores' = [waitSemaphores EXCEPT ![e] =
               @ \cup {[queue |-> q, value |-> timelineValue[q]]}]
        /\ timelineValue' = Allocate(q)
        /\ pc' = [pc EXCEPT ![e] = "submit"]
        /\ UNCHANGED <<commandList, deferredReleaseQueue, lastSignalValue, picked,
                       queueMutex, gpuVars, chainVars, drain, begun, issued, failures>>

NewJob(e) ==
    LET q == picked[e]
    IN  [queue |-> q,
         signal |-> SignalValue(q, waitSemaphores[e], timelineValue[q]),
         waits |-> waitSemaphores[e],
         owner |-> e,
         kind |-> QueueType(commandList[e]),
         uses |-> {c.holds : c \in commandList[e]} \ {None},
         stamp |-> issued]

\* vkQueueSubmit2 succeeded: everything held for the submission is bound to its
\* signal value before the mutex is released.
Submit(e) ==
    LET q == picked[e]
    IN  /\ pc[e] = "submit"
        /\ inFlight' = inFlight \cup {NewJob(e)}
        /\ issued' = issued + 1
        /\ lastSignalValue' = [lastSignalValue EXCEPT ![e] = timelineValue[q]]
        /\ deferredReleaseQueue' = [deferredReleaseQueue EXCEPT ![e] =
               @ \cup Bind(localPendingResources[e] \cup pendingResources[e],
                           q, timelineValue[q])]
        /\ localPendingResources' = [localPendingResources EXCEPT ![e] = {}]
        /\ pendingResources' = [pendingResources EXCEPT ![e] = {}]
        /\ waitSemaphores' = [waitSemaphores EXCEPT ![e] = {}]
        /\ queueMutex' = [queueMutex EXCEPT ![q] = None]
        /\ picked' = [picked EXCEPT ![e] = None]
        /\ pc' = [pc EXCEPT ![e] = "submitted"]
        /\ UNCHANGED <<commandList, currentRecordQueue, timelineValue, counter,
                       chainVars, drain, begun, failures>>

\* The rest of commit(): publish a graphics submission in the chain, release the
\* chain mutex, forget the commands, and leave the tail wait.
Finish(e) ==
    /\ pc[e] \in {"submitted", "failed"}
    /\ chain' = IF /\ pc[e] = "submitted"
                   /\ QueueType(commandList[e]) = "Graphics"
                THEN [queue |-> currentRecordQueue[e], value |-> lastSignalValue[e]]
                ELSE chain
    /\ chainMutex' = IF chainMutex = e THEN None ELSE chainMutex
    /\ commandList' = [commandList EXCEPT ![e] = {}]
    /\ waitSemaphores' = [waitSemaphores EXCEPT ![e] = TailWait(e)]
    /\ pc' = [pc EXCEPT ![e] = "idle"]
    /\ UNCHANGED <<pendingResources, localPendingResources, deferredReleaseQueue,
                   currentRecordQueue, lastSignalValue, queueVars, gpuVars, drain,
                   begun, issued, failures>>

-----------------------------------------------------------------------------
\* The GPU, and threads that destroy buffers.

\* A submission completes when its waits are met; its signal then sets the
\* queue's semaphore.
Complete(j) ==
    /\ j \in inFlight
    /\ \A w \in j.waits : Reached(w)
    /\ inFlight' = inFlight \ {j}
    /\ counter' = [counter EXCEPT ![j.queue] = j.signal]
    /\ UNCHANGED <<pc, execVars, queueVars, chainVars, drain, begun, issued, failures>>

StartDestroyBuffer(d) ==
    /\ drain[d] = None
    /\ drain' = [drain EXCEPT ![d] = DrainTarget]
    /\ UNCHANGED <<pc, execVars, queueVars, gpuVars, chainVars, begun, issued, failures>>

FinishDestroyBuffer(d) ==
    /\ drain[d] # None
    /\ DrainDone(d)
    /\ drain' = [drain EXCEPT ![d] = None]
    /\ UNCHANGED <<pc, execVars, queueVars, gpuVars, chainVars, begun, issued, failures>>

-----------------------------------------------------------------------------
\* Faults the code handles.

\* vkGetSemaphoreCounterValue fails while picking: the mutex is released and
\* pickQueueAndCommit returns null, with nothing recorded.
PickError(e) ==
    /\ pc[e] = "pick"
    /\ pc' = [pc EXCEPT ![e] = "failed"]
    /\ UNCHANGED <<execVars, queueVars, gpuVars, chainVars, drain, begun, issued>>

\* Mutants: the error paths forget the fetch_sub, or do it twice.
NoRollback(q) == timelineValue

RollbackTwice(q) == [timelineValue EXCEPT ![q] = @ - 2]

Rollback(q) == [timelineValue EXCEPT ![q] = @ - 1]

\* The validity check or vkQueueSubmit2 fails: the fetch_add is rolled back, the
\* waits are dropped, and the local vector goes out of scope.
SubmitError(e) ==
    LET q == picked[e]
    IN  /\ pc[e] = "submit"
        /\ timelineValue' = Rollback(q)
        /\ waitSemaphores' = [waitSemaphores EXCEPT ![e] = {}]
        /\ localPendingResources' = [localPendingResources EXCEPT ![e] = {}]
        /\ queueMutex' = [queueMutex EXCEPT ![q] = None]
        /\ picked' = [picked EXCEPT ![e] = None]
        /\ pc' = [pc EXCEPT ![e] = "failed"]
        /\ UNCHANGED <<commandList, pendingResources, deferredReleaseQueue,
                       currentRecordQueue, lastSignalValue, gpuVars, chainVars,
                       drain, begun, issued>>

\* The destructor's 5 s wait times out: it logs and drops everything anyway.
DestroyTimeout(e) ==
    /\ pc[e] = "idle"
    /\ Completed(e) # deferredReleaseQueue[e]
    /\ DropAll(e)

-----------------------------------------------------------------------------
Call(e) ==
    \/ \E r \in Resource : AddCopy(e, r)
    \/ \E kind \in Kind, r \in Resource \cup {None} : AddPipeline(e, kind, r)
    \/ \E other \in Executor : WaitFor(e, other)
    \/ CommitEmpty(e) \/ BeginCommit(e)
    \/ CleanupDeferred(e) \/ WaitForDeferred(e) \/ Destroy(e)

CommitStep(e) ==
    \/ LockChain(e)
    \/ \E q \in Queue : Pick(e, q)
    \/ DrainInPick(e) \/ Record(e) \/ Submit(e) \/ Finish(e)

DestroyBuffer(d) == StartDestroyBuffer(d) \/ FinishDestroyBuffer(d)

GpuStep == \E j \in inFlight : Complete(j)

Normal ==
    \/ \E e \in Executor : Call(e) \/ CommitStep(e)
    \/ \E d \in Destroyer : DestroyBuffer(d)
    \/ GpuStep

Fault ==
    /\ failures < MaxFailures
    /\ failures' = failures + 1
    /\ \E e \in Executor : PickError(e) \/ SubmitError(e) \/ DestroyTimeout(e)

Next == Normal \/ Fault

\* Nothing fails: the specification the theorems are about.
Spec == Init /\ [][Normal]_vars

FaultSpec == Init /\ [][Next]_vars

\* Each thread inside a call keeps running and the GPU keeps executing; nobody
\* is obliged to make a call.
Fairness ==
    /\ \A e \in Executor : WF_vars(CommitStep(e))
    /\ \A d \in Destroyer : WF_vars(FinishDestroyBuffer(d))
    /\ WF_vars(GpuStep)

FairSpec == Spec /\ Fairness

-----------------------------------------------------------------------------
\* Properties.

\* Every variable has its type, and commit() holds what its position says: the
\* state HardwareExecutorVulkan.h and QueueUtils declare.
TypeOK ==
    /\ pc \in [Executor -> PcState]
    /\ commandList \in [Executor -> SUBSET Command]
    /\ pendingResources \in [Executor -> SUBSET Resource]
    /\ localPendingResources \in [Executor -> SUBSET Resource]
    /\ deferredReleaseQueue \in [Executor -> SUBSET Deferred]
    /\ waitSemaphores \in [Executor -> SUBSET Point]
    /\ currentRecordQueue \in [Executor -> Queue \cup {None}]
    /\ lastSignalValue \in [Executor -> Nat]
    /\ picked \in [Executor -> Queue \cup {None}]
    /\ queueMutex \in [Queue -> Executor \cup {None}]
    /\ timelineValue \in [Queue -> Nat]
    /\ counter \in [Queue -> Nat]
    /\ inFlight \in SUBSET Job
    /\ chainMutex \in Executor \cup {None}
    /\ chain \in Point \cup {NoChain}
    /\ drain \in [Thread -> Drain \cup {None}]
    /\ begun \in Nat /\ issued \in Nat /\ failures \in Nat

\* The queue's single command buffer is never reset, recorded or submitted again
\* while the GPU may still execute it (pickQueueAndCommit's counter check, with
\* the mutex held until after vkQueueSubmit2).
CommandBufferFree ==
    /\ \A e \in Executor, j \in inFlight : HoldsQueue(e) => j.queue # picked[e]
    /\ \A j, k \in inFlight : j.queue = k.queue => j = k

\* A completing submission always raises its semaphore: a timeline signal that is
\* not above the current value is invalid (fetch_add, rollback and the
\* signal-above-wait adjustment together).
SignalsAdvance ==
    [][\A j \in inFlight : j \notin inFlight' => j.signal > counter[j.queue]]_vars

\* No submission the GPU is waiting to run depends on a value that nothing already
\* submitted will signal, or on a later submission: the GPU side cannot deadlock
\* (the waits commit(), wait(other) and the graphics chain collect).
NoOrphanWait ==
    \A j \in inFlight : \A w \in j.waits :
        \/ Reached(w)
        \/ \E k \in inFlight : /\ k.queue = w.queue /\ k.signal >= w.value
                               /\ k.stamp < j.stamp

\* The object a submitted command reads through stays in the owner's deferred
\* release queue, under a point not yet reached, until the GPU is done with it.
HeldWhileInFlight ==
    \A j \in inFlight : \A r \in j.uses :
        \E d \in deferredReleaseQueue[j.owner] :
            d.resource = r /\ ~Reached([queue |-> d.queue, value |-> d.value])

\* The point wait(other) takes from another executor covers all that executor
\* has submitted: once it is reached nothing of it is in flight (the pair
\* currentRecordQueue, lastSignalValue).
TailCovers ==
    \A e \in Executor :
        pc[e] = "idle" /\ (\A w \in TailWait(e) : Reached(w))
            => \A j \in inFlight : j.owner # e

\* destroyBuffer frees the buffer only after every submission that was in flight
\* when it was called, though it reads the timeline values without the mutexes.
DestroyAfterUse ==
    [][\A t \in Thread :
          drain[t] # None /\ drain'[t] = None
            => \A j \in inFlight : j.stamp \notin drain[t].witness]_vars

\* A destroyBuffer call never waits for its own caller: every value it still waits
\* for is in flight, or belongs to another executor that needs nothing more to
\* submit (the sweep runs before the caller's own fetch_add).
DrainWillEnd ==
    \A t \in Thread, q \in Queue :
        drain[t] # None /\ counter[q] < drain[t].values[q]
            => \/ \E j \in inFlight : j.queue = q /\ j.signal >= drain[t].values[q]
               \/ \E f \in Executor : f # t /\ pc[f] = "submit" /\ picked[f] = q

\* A failed submission leaves its queue usable: a queue nobody holds and nothing
\* runs on is idle for the next pick (the fetch_sub of the two error paths).
QueueReusable ==
    \A q \in Queue :
        queueMutex[q] = None /\ (\A j \in inFlight : j.queue # q) => QueueIdle(q)

\* Every commit() that starts returns, though it spins for a queue, waits for the
\* chain mutex and may run destroyBuffer with both mutexes held.
CommitReturns ==
    \A e \in Executor : pc[e] \notin {"idle", "gone"} ~> pc[e] = "idle"

-----------------------------------------------------------------------------
\* The abstract specification this one implements.

Abstracted(j) == [owner |-> j.owner, kind |-> j.kind, stamp |-> j.stamp]

Order == INSTANCE SubmissionOrder
    WITH executing <- {Abstracted(j) : j \in inFlight}, submitted <- issued

\* Submissions of one executor, and graphics submissions of the device, are
\* executed in the order they were made, on whatever queues, and all of them are
\* executed (the tail wait of commit(), the chain of graphics submissions).
Implements == Order!OrderSpec
=============================================================================
