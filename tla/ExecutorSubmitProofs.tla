------------------------ MODULE ExecutorSubmitProofs ------------------------
(***************************************************************************)
(* Proofs about ExecutorSubmit for any executors, queues, pools and bounds,*)
(* when no call fails (Spec).  The safety properties are not inductive:    *)
(* they are proved together, from the invariant IndInv.  Its parts say what*)
(* the queue mutex protects (MutexInv), how far a queue's atomic may be    *)
(* ahead of its semaphore (TimelineInv), that every point somebody may wait*)
(* for is reached or in flight (CoverInv), and what a destroyBuffer call   *)
(* has read (DrainInv).                                                    *)
(***************************************************************************)
EXTENDS ExecutorSubmit, TLAPS

-----------------------------------------------------------------------------
\* The inductive invariant.

\* An executor between try_lock and unlock owns the mutex of the queue it picked,
\* and has made it the queue it records on by the time it submits.
MutexInv ==
    \A e \in Executor :
        /\ HoldsQueue(e) => picked[e] \in Queue /\ queueMutex[picked[e]] = e
        /\ pc[e] = "submit" => currentRecordQueue[e] = picked[e]
        /\ pc[e] = "submitted" => currentRecordQueue[e] \in Queue
        /\ pc[e] # "failed"

\* A held queue has nothing in flight; timelineValue is ahead of the semaphore by
\* one exactly while a submission is in flight or its value is allocated.
TimelineInv ==
    /\ \A e \in Executor : HoldsQueue(e) =>
          /\ \A j \in inFlight : j.queue # picked[e]
          /\ timelineValue[picked[e]] =
                 counter[picked[e]] + (IF pc[e] = "submit" THEN 1 ELSE 0)
    /\ \A j \in inFlight : /\ j.signal = timelineValue[j.queue]
                           /\ j.signal = counter[j.queue] + 1
    /\ \A j, k \in inFlight : j.queue = k.queue => j = k
    /\ \A q \in Queue :
          \/ \E j \in inFlight : j.queue = q
          \/ \E e \in Executor : HoldsQueue(e) /\ picked[e] = q
          \/ counter[q] = timelineValue[q]

\* Submissions are numbered in the order they were made.
StampInv ==
    /\ \A j \in inFlight : j.stamp < issued
    /\ \A j, k \in inFlight : j.stamp = k.stamp => j = k

\* The point has been reached, or a submission in flight will signal it.
Covered(p) ==
    \/ Reached(p)
    \/ \E k \in inFlight : k.queue = p.queue /\ k.signal >= p.value

\* Every point an executor has collected, would hand to another executor, or has
\* published in the graphics chain is covered.  While it submits, an executor's
\* own pair is half updated and nobody can read it.
CoverInv ==
    /\ \A e \in Executor : \A w \in waitSemaphores[e] : Covered(w)
    /\ \A e \in Executor : pc[e] # "submit" => \A w \in TailWait(e) : Covered(w)
    /\ \A w \in ChainWait : Covered(w)

\* What a destroyBuffer call has read: no value beyond the atomics, and the signal
\* of every submission it must wait for.
DrainInv ==
    \A t \in Thread : drain[t] # None =>
        /\ t \in Executor => pc[t] = "drain"
        /\ \A q \in Queue : drain[t].values[q] <= timelineValue[q]
        /\ \A s \in drain[t].witness : s < issued
        /\ \A j \in inFlight :
              j.stamp \in drain[t].witness => j.signal <= drain[t].values[j.queue]

IndInv ==
    TypeOK /\ MutexInv /\ TimelineInv /\ StampInv /\ CoverInv /\ NoOrphanWait /\ DrainInv

-----------------------------------------------------------------------------
\* Facts about the helpers.

LEMMA QueueTypeIsKind == ASSUME NEW cmds PROVE QueueType(cmds) \in Kind
BY DEF QueueType, Kind

\* In a submission nothing it waits for on its own queue reaches the value it
\* signals, so the signal-above-wait adjustment changes nothing.
LEMMA SignalIsTimeline ==
    ASSUME TypeOK, MutexInv, TimelineInv, CoverInv,
           NEW e \in Executor, pc[e] = "submit"
    PROVE  /\ picked[e] \in Queue
           /\ SignalValue(picked[e], waitSemaphores[e], timelineValue[picked[e]])
                = timelineValue[picked[e]]
           /\ timelineValue[picked[e]] = counter[picked[e]] + 1
           /\ \A j \in inFlight : j.queue # picked[e]
<1> DEFINE q == picked[e]
<1>1. /\ q \in Queue
      /\ timelineValue[q] = counter[q] + 1
      /\ \A j \in inFlight : j.queue # q
  BY DEF MutexInv, TimelineInv, HoldsQueue
<1>2. ASSUME NEW w \in waitSemaphores[e], w.queue = q
      PROVE  ~(w.value >= timelineValue[q])
  <2>1. w \in Point
    BY DEF TypeOK
  <2>2. Covered(w)
    BY DEF CoverInv
  <2>3. counter[q] >= w.value
    BY <1>1, <1>2, <2>2 DEF Covered, Reached
  <2> QED
    BY <1>1, <2>1, <2>3 DEF TypeOK, Point
<1>3. ~\E v \in {w.value : w \in {x \in waitSemaphores[e] : x.queue = q}} :
           v >= timelineValue[q]
  BY <1>2
<1> QED
  BY <1>1, <1>3 DEF SignalValue

LEMMA NewJobType ==
    ASSUME TypeOK, MutexInv, TimelineInv, CoverInv,
           NEW e \in Executor, pc[e] = "submit"
    PROVE  /\ NewJob(e) \in Job
           /\ NewJob(e).queue = picked[e]
           /\ NewJob(e).signal = timelineValue[picked[e]]
           /\ NewJob(e).waits = waitSemaphores[e]
           /\ NewJob(e).stamp = issued
<1>1. {c.holds : c \in commandList[e]} \ {None} \in SUBSET Resource
  BY DEF TypeOK, Command
<1>2. QueueType(commandList[e]) \in Kind
  BY QueueTypeIsKind
<1> QED
  BY <1>1, <1>2, SignalIsTimeline DEF NewJob, Job, TypeOK

-----------------------------------------------------------------------------
\* Type correctness.

LEMMA TypeInit == Init => TypeOK
BY PoolAssumption DEF Init, TypeOK, PcState, NoChain, Thread

LEMMA TypeStep ==
    ASSUME TypeOK, MutexInv, TimelineInv, CoverInv, [Normal]_vars
    PROVE  TypeOK'
<1> USE DEF TypeOK, execVars, queueVars, gpuVars, chainVars
<1>1. ASSUME NEW e \in Executor, NEW r \in Resource, AddCopy(e, r)
      PROVE  TypeOK'
  <2>1. [kind |-> "Transfer", holds |-> r] \in Command
    BY DEF Command, Kind
  <2> QED
    BY <1>1, <2>1 DEF AddCopy
<1>2. ASSUME NEW e \in Executor, NEW kind \in Kind, NEW r \in Resource \cup {None},
             AddPipeline(e, kind, r)
      PROVE  TypeOK'
  <2>1. [kind |-> kind, holds |-> r] \in Command
    BY DEF Command
  <2> QED
    BY <1>2, <2>1 DEF AddPipeline
<1>3. ASSUME NEW e \in Executor, NEW other \in Executor, WaitFor(e, other)
      PROVE  TypeOK'
  <2>1. TailWait(other) \in SUBSET Point
    BY DEF TailWait, Point
  <2> QED
    BY <1>3, <2>1 DEF WaitFor
<1>4. ASSUME NEW e \in Executor, CommitEmpty(e) \/ Finish(e)
      PROVE  TypeOK'
  <2>1. TailWait(e) \in SUBSET Point
    BY DEF TailWait, Point
  <2>2. pc[e] = "submitted" =>
          [queue |-> currentRecordQueue[e], value |-> lastSignalValue[e]] \in Point
    BY DEF MutexInv, Point
  <2> QED
    BY <1>4, <2>1, <2>2 DEF CommitEmpty, Finish, PcState
<1>5. ASSUME NEW e \in Executor, BeginCommit(e) \/ LockChain(e)
      PROVE  TypeOK'
  <2>1. ChainWait \in SUBSET Point
    BY DEF ChainWait, NoChain
  <2> QED
    BY <1>5, <2>1 DEF BeginCommit, LockChain, PcState
<1>6. ASSUME NEW e \in Executor,
             CleanupDeferred(e) \/ WaitForDeferred(e) \/ Destroy(e)
      PROVE  TypeOK'
  BY <1>6 DEF CleanupDeferred, WaitForDeferred, Destroy, DropAll, Completed, PcState
<1>7. DrainTarget \in Drain
  BY DEF DrainTarget, Drain, Job
<1>8. ASSUME NEW e \in Executor, NEW q \in Queue, Pick(e, q)
      PROVE  TypeOK'
  BY <1>7, <1>8 DEF Pick, Completed, PcState, Thread
<1>9. ASSUME NEW e \in Executor, DrainInPick(e)
      PROVE  TypeOK'
  BY <1>9 DEF DrainInPick, PcState, Thread
<1>10. ASSUME NEW e \in Executor, Record(e)
       PROVE  TypeOK'
  <2>1. picked[e] \in Queue
    BY <1>10 DEF Record, Allocate, MutexInv, HoldsQueue
  <2>2. HeldByRecording(commandList[e]) \in SUBSET Resource
    BY DEF HeldByRecording, Command
  <2>3. [queue |-> picked[e], value |-> timelineValue[picked[e]]] \in Point
    BY <2>1 DEF Point
  <2> QED
    BY <1>10, <2>1, <2>2, <2>3 DEF Record, Allocate, PcState
<1>11. ASSUME NEW e \in Executor, Submit(e)
       PROVE  TypeOK'
  <2>1. NewJob(e) \in Job /\ picked[e] \in Queue
    BY <1>11, NewJobType, SignalIsTimeline DEF Submit
  <2>2. Bind(localPendingResources[e] \cup pendingResources[e], picked[e],
             timelineValue[picked[e]]) \in SUBSET Deferred
    BY <2>1 DEF Bind, Deferred
  <2>3. /\ inFlight' \in SUBSET Job
        /\ deferredReleaseQueue' \in [Executor -> SUBSET Deferred]
        /\ lastSignalValue' \in [Executor -> Nat]
    BY <1>11, <2>1, <2>2 DEF Submit
  <2>4. /\ pc' \in [Executor -> PcState]
        /\ localPendingResources' \in [Executor -> SUBSET Resource]
        /\ pendingResources' \in [Executor -> SUBSET Resource]
        /\ waitSemaphores' \in [Executor -> SUBSET Point]
        /\ queueMutex' \in [Queue -> Executor \cup {None}]
        /\ picked' \in [Executor -> Queue \cup {None}]
        /\ issued' \in Nat
    BY <1>11, <2>1 DEF Submit, PcState
  <2>5. UNCHANGED <<commandList, currentRecordQueue, timelineValue, counter,
                    chainMutex, chain, drain, begun, failures>>
    BY <1>11 DEF Submit
  <2> QED
    BY <2>3, <2>4, <2>5
<1>12. ASSUME NEW j \in inFlight, Complete(j)
       PROVE  TypeOK'
  BY <1>12 DEF Complete, Job
<1>13. ASSUME NEW d \in Destroyer, DestroyBuffer(d)
       PROVE  TypeOK'
  BY <1>7, <1>13 DEF DestroyBuffer, StartDestroyBuffer, FinishDestroyBuffer, Thread
<1>14. CASE UNCHANGED vars
  BY <1>14 DEF vars
<1> QED
  BY <1>1, <1>2, <1>3, <1>4, <1>5, <1>6, <1>8, <1>9, <1>10, <1>11, <1>12, <1>13, <1>14
  DEF Normal, Call, CommitStep, GpuStep

-----------------------------------------------------------------------------
\* The queue mutex.

LEMMA MutexInit == Init => MutexInv
BY DEF Init, MutexInv, HoldsQueue

LEMMA MutexStep ==
    ASSUME TypeOK, MutexInv, [Normal]_vars
    PROVE  MutexInv'
<1> USE DEF MutexInv, HoldsQueue, execVars, queueVars, gpuVars, chainVars
<1>1. ASSUME UNCHANGED <<pc, picked, queueMutex, currentRecordQueue>>
      PROVE  MutexInv'
  BY <1>1
<1>2. ASSUME NEW e \in Executor, BeginCommit(e) \/ LockChain(e) \/ Destroy(e)
      PROVE  MutexInv'
  BY <1>2 DEF BeginCommit, LockChain, Destroy, DropAll, TypeOK
<1>3. ASSUME NEW e \in Executor, NEW q \in Queue, Pick(e, q)
      PROVE  MutexInv'
  <2>1. \A f \in Executor : HoldsQueue(f) => picked[f] # q
    BY <1>3, PoolAssumption DEF Pick, TypeOK
  <2> QED
    BY <1>3, <2>1 DEF Pick, TypeOK
<1>4. ASSUME NEW e \in Executor, DrainInPick(e) \/ Record(e)
      PROVE  MutexInv'
  BY <1>4 DEF DrainInPick, Record, TypeOK
<1>5. ASSUME NEW e \in Executor, Submit(e)
      PROVE  MutexInv'
  BY <1>5 DEF Submit, TypeOK
<1>6. ASSUME NEW e \in Executor, Finish(e)
      PROVE  MutexInv'
  BY <1>6 DEF Finish, TypeOK
<1>7. ASSUME NEW e \in Executor, Call(e)
      PROVE  MutexInv'
  BY <1>1, <1>2, <1>7 DEF Call, AddCopy, AddPipeline, WaitFor, CommitEmpty,
     CleanupDeferred, WaitForDeferred
<1>8. ASSUME NEW d \in Destroyer, DestroyBuffer(d)
      PROVE  MutexInv'
  BY <1>1, <1>8 DEF DestroyBuffer, StartDestroyBuffer, FinishDestroyBuffer
<1>9. ASSUME GpuStep
      PROVE  MutexInv'
  BY <1>1, <1>9 DEF GpuStep, Complete
<1>10. CASE UNCHANGED vars
  BY <1>1, <1>10 DEF vars
<1> QED
  BY <1>2, <1>3, <1>4, <1>5, <1>6, <1>7, <1>8, <1>9, <1>10 DEF Normal, CommitStep

-----------------------------------------------------------------------------
\* The atomic and the semaphore of each queue.

LEMMA TimelineInit == Init => TimelineInv
BY DEF Init, TimelineInv, HoldsQueue

LEMMA TimelineStep ==
    ASSUME TypeOK, MutexInv, MutexInv', TimelineInv, CoverInv, [Normal]_vars
    PROVE  TimelineInv'
<1> USE DEF HoldsQueue, execVars, queueVars, gpuVars, chainVars
<1>1. ASSUME UNCHANGED <<pc, picked, timelineValue, counter, inFlight>>
      PROVE  TimelineInv'
  BY <1>1 DEF TimelineInv
<1>2. ASSUME NEW e \in Executor,
             BeginCommit(e) \/ LockChain(e) \/ Destroy(e) \/ Finish(e)
      PROVE  TimelineInv'
  <2>1. /\ UNCHANGED <<picked, timelineValue, counter, inFlight>>
        /\ \A f \in Executor : HoldsQueue(f)' <=> HoldsQueue(f)
        /\ \A f \in Executor : pc'[f] = "submit" <=> pc[f] = "submit"
    BY <1>2 DEF BeginCommit, LockChain, Destroy, DropAll, Finish, TypeOK
  <2> QED
    BY <2>1 DEF TimelineInv
<1>3. ASSUME NEW e \in Executor, NEW q \in Queue, Pick(e, q)
      PROVE  TimelineInv'
  <2>1. \A f \in Executor : HoldsQueue(f) => picked[f] # q
    BY <1>3, PoolAssumption DEF Pick, MutexInv
  <2>2. (\A j \in inFlight : j.queue # q) /\ timelineValue[q] = counter[q]
    BY <1>3, <2>1 DEF Pick, QueueIdle, TimelineInv, TypeOK
  <2>3. /\ UNCHANGED <<timelineValue, counter, inFlight>>
        /\ HoldsQueue(e)' /\ picked'[e] = q /\ pc'[e] # "submit"
        /\ ~HoldsQueue(e)
        /\ \A f \in Executor \ {e} : pc'[f] = pc[f] /\ picked'[f] = picked[f]
    BY <1>3 DEF Pick, TypeOK
  <2> QED
    BY <2>2, <2>3 DEF TimelineInv, TypeOK
<1>4. ASSUME NEW e \in Executor, DrainInPick(e)
      PROVE  TimelineInv'
  <2>1. /\ UNCHANGED <<picked, timelineValue, counter, inFlight>>
        /\ \A f \in Executor : HoldsQueue(f)' <=> HoldsQueue(f)
        /\ \A f \in Executor : pc'[f] = "submit" <=> pc[f] = "submit"
    BY <1>4 DEF DrainInPick, TypeOK
  <2> QED
    BY <2>1 DEF TimelineInv
<1>5. ASSUME NEW e \in Executor, Record(e)
      PROVE  TimelineInv'
  <2>1. /\ picked[e] \in Queue /\ HoldsQueue(e)
        /\ timelineValue[picked[e]] = counter[picked[e]]
        /\ \A j \in inFlight : j.queue # picked[e]
        /\ \A f \in Executor : HoldsQueue(f) /\ picked[f] = picked[e] => f = e
    BY <1>5 DEF Record, Allocate, MutexInv, TimelineInv, TypeOK
  <2>2. /\ UNCHANGED <<picked, counter, inFlight>>
        /\ pc' = [pc EXCEPT ![e] = "submit"]
        /\ timelineValue' = [timelineValue EXCEPT ![picked[e]] = @ + 1]
    BY <1>5 DEF Record, Allocate
  <2>3. \A j \in inFlight : j.queue \in Queue
    BY DEF TypeOK, Job
  <2>4. \A f \in Executor : HoldsQueue(f) => picked[f] \in Queue
    BY DEF MutexInv
  <2>5. \A f \in Executor : HoldsQueue(f)' =>
          /\ \A j \in inFlight' : j.queue # picked'[f]
          /\ timelineValue'[picked'[f]] =
                 counter'[picked'[f]] + (IF pc'[f] = "submit" THEN 1 ELSE 0)
    BY <2>1, <2>2, <2>4 DEF TimelineInv, TypeOK
  <2>6. \A j \in inFlight' : j.signal = timelineValue'[j.queue] /\ j.signal = counter'[j.queue] + 1
    BY <2>1, <2>2, <2>3 DEF TimelineInv, TypeOK
  <2>7. \A q \in Queue :
          \/ \E j \in inFlight' : j.queue = q
          \/ \E f \in Executor : HoldsQueue(f)' /\ picked'[f] = q
          \/ counter'[q] = timelineValue'[q]
    BY <2>1, <2>2 DEF TimelineInv, TypeOK
  <2> QED
    BY <2>2, <2>5, <2>6, <2>7 DEF TimelineInv
<1>6. ASSUME NEW e \in Executor, Submit(e)
      PROVE  TimelineInv'
  <2> DEFINE q == picked[e]
  <2>1. /\ q \in Queue
        /\ timelineValue[q] = counter[q] + 1
        /\ \A j \in inFlight : j.queue # q
        /\ NewJob(e).queue = q /\ NewJob(e).signal = timelineValue[q]
    BY <1>6, SignalIsTimeline, NewJobType DEF Submit
  <2>2. /\ UNCHANGED <<timelineValue, counter>>
        /\ inFlight' = inFlight \cup {NewJob(e)}
        /\ ~HoldsQueue(e)'
        /\ \A f \in Executor \ {e} : pc'[f] = pc[f] /\ picked'[f] = picked[f]
    BY <1>6 DEF Submit, TypeOK
  <2>3. \A f \in Executor \ {e} : HoldsQueue(f) => picked[f] # q
    BY <1>6 DEF MutexInv, Submit
  <2>4. \A f \in Executor : HoldsQueue(f)' =>
          /\ \A j \in inFlight' : j.queue # picked'[f]
          /\ timelineValue'[picked'[f]] =
                 counter'[picked'[f]] + (IF pc'[f] = "submit" THEN 1 ELSE 0)
    BY <2>1, <2>2, <2>3 DEF TimelineInv
  <2>5. /\ \A j \in inFlight' : j.signal = timelineValue'[j.queue] /\ j.signal = counter'[j.queue] + 1
        /\ \A j, k \in inFlight' : j.queue = k.queue => j = k
    BY <2>1, <2>2 DEF TimelineInv
  <2>6. \A p \in Queue :
          \/ \E j \in inFlight' : j.queue = p
          \/ \E f \in Executor : HoldsQueue(f)' /\ picked'[f] = p
          \/ counter'[p] = timelineValue'[p]
    BY <2>1, <2>2 DEF TimelineInv
  <2> QED
    BY <2>4, <2>5, <2>6 DEF TimelineInv
<1>7. ASSUME NEW c \in inFlight, Complete(c)
      PROVE  TimelineInv'
  <2>1. /\ UNCHANGED <<pc, picked, timelineValue>>
        /\ inFlight' = inFlight \ {c}
        /\ counter' = [counter EXCEPT ![c.queue] = c.signal]
        /\ c.queue \in Queue
    BY <1>7 DEF Complete, TypeOK, Job
  <2>2. \A j \in inFlight' : j.queue # c.queue
    BY <2>1 DEF TimelineInv
  <2>3. \A f \in Executor : HoldsQueue(f) => picked[f] # c.queue /\ picked[f] \in Queue
    BY DEF TimelineInv, MutexInv
  <2>4. \A j \in inFlight : j.queue \in Queue
    BY DEF TypeOK, Job
  <2>5. \A f \in Executor : HoldsQueue(f)' =>
          /\ \A j \in inFlight' : j.queue # picked'[f]
          /\ timelineValue'[picked'[f]] =
                 counter'[picked'[f]] + (IF pc'[f] = "submit" THEN 1 ELSE 0)
    BY <2>1, <2>3 DEF TimelineInv, TypeOK
  <2>6. \A j \in inFlight' : j.signal = timelineValue'[j.queue] /\ j.signal = counter'[j.queue] + 1
    BY <2>1, <2>2, <2>4 DEF TimelineInv, TypeOK
  <2>7. \A q \in Queue :
          \/ \E j \in inFlight' : j.queue = q
          \/ \E f \in Executor : HoldsQueue(f)' /\ picked'[f] = q
          \/ counter'[q] = timelineValue'[q]
    BY <2>1 DEF TimelineInv, TypeOK
  <2> QED
    BY <2>1, <2>5, <2>6, <2>7 DEF TimelineInv
<1>8. ASSUME NEW e \in Executor, Call(e)
      PROVE  TimelineInv'
  BY <1>1, <1>2, <1>8 DEF Call, AddCopy, AddPipeline, WaitFor, CommitEmpty,
     CleanupDeferred, WaitForDeferred
<1>9. ASSUME NEW d \in Destroyer, DestroyBuffer(d)
      PROVE  TimelineInv'
  BY <1>1, <1>9 DEF DestroyBuffer, StartDestroyBuffer, FinishDestroyBuffer
<1>10. CASE UNCHANGED vars
  BY <1>1, <1>10 DEF vars
<1> QED
  BY <1>2, <1>3, <1>4, <1>5, <1>6, <1>7, <1>8, <1>9, <1>10
  DEF Normal, CommitStep, GpuStep

-----------------------------------------------------------------------------
\* Order of submissions.

LEMMA StampInit == Init => StampInv
BY DEF Init, StampInv

LEMMA StampStep ==
    ASSUME TypeOK, MutexInv, TimelineInv, CoverInv, StampInv, [Normal]_vars
    PROVE  StampInv'
<1> USE DEF execVars, queueVars, gpuVars, chainVars
<1>1. ASSUME UNCHANGED <<inFlight, issued>>
      PROVE  StampInv'
  BY <1>1 DEF StampInv
<1>2. ASSUME NEW e \in Executor, Submit(e)
      PROVE  StampInv'
  <2>1. NewJob(e).stamp = issued
    BY <1>2, NewJobType DEF Submit
  <2> QED
    BY <1>2, <2>1 DEF Submit, StampInv, TypeOK, Job
<1>3. ASSUME NEW j \in inFlight, Complete(j)
      PROVE  StampInv'
  BY <1>3 DEF Complete, StampInv
<1>4. ASSUME NEW e \in Executor, Call(e)
      PROVE  StampInv'
  BY <1>1, <1>4 DEF Call, AddCopy, AddPipeline, WaitFor, CommitEmpty, BeginCommit,
     CleanupDeferred, WaitForDeferred, Destroy, DropAll
<1>5. ASSUME NEW e \in Executor, CommitStep(e)
      PROVE  StampInv'
  BY <1>1, <1>2, <1>5 DEF CommitStep, LockChain, Pick, DrainInPick, Record, Finish
<1>6. ASSUME NEW d \in Destroyer, DestroyBuffer(d)
      PROVE  StampInv'
  BY <1>1, <1>6 DEF DestroyBuffer, StartDestroyBuffer, FinishDestroyBuffer
<1>7. CASE UNCHANGED vars
  BY <1>1, <1>7 DEF vars
<1> QED
  BY <1>3, <1>4, <1>5, <1>6, <1>7 DEF Normal, GpuStep

-----------------------------------------------------------------------------
\* Points that may be waited for.

\* A covered point stays covered, whatever step the system takes.
LEMMA CoveredStep ==
    ASSUME TypeOK, MutexInv, TimelineInv, CoverInv, [Normal]_vars,
           NEW p \in Point, Covered(p)
    PROVE  Covered(p)'
<1> USE DEF execVars, queueVars, gpuVars, chainVars
<1>1. ASSUME UNCHANGED <<inFlight, counter>>
      PROVE  Covered(p)'
  BY <1>1 DEF Covered, Reached
<1>2. ASSUME NEW e \in Executor, Submit(e)
      PROVE  Covered(p)'
  BY <1>2 DEF Submit, Covered, Reached
<1>3. ASSUME NEW j \in inFlight, Complete(j)
      PROVE  Covered(p)'
  <2>1. /\ counter' = [counter EXCEPT ![j.queue] = j.signal]
        /\ inFlight' = inFlight \ {j}
        /\ j.queue \in Queue /\ j.signal \in Nat
    BY <1>3 DEF Complete, TypeOK, Job
  <2>2. \A q \in Queue : counter'[q] >= counter[q] /\ counter'[q] \in Nat
    BY <2>1 DEF TimelineInv, TypeOK
  <2>3. CASE Reached(p)
    BY <2>2, <2>3 DEF Covered, Reached, Point, TypeOK
  <2>4. ASSUME NEW k \in inFlight, k.queue = p.queue, k.signal >= p.value
        PROVE  Covered(p)'
    BY <2>1, <2>4 DEF Covered, Reached, TypeOK, Point
  <2> QED
    BY <2>3, <2>4 DEF Covered
<1>4. ASSUME NEW e \in Executor, Call(e)
      PROVE  Covered(p)'
  BY <1>1, <1>4 DEF Call, AddCopy, AddPipeline, WaitFor, CommitEmpty, BeginCommit,
     CleanupDeferred, WaitForDeferred, Destroy, DropAll
<1>5. ASSUME NEW e \in Executor, CommitStep(e)
      PROVE  Covered(p)'
  BY <1>1, <1>2, <1>5 DEF CommitStep, LockChain, Pick, DrainInPick, Record, Finish
<1>6. ASSUME NEW d \in Destroyer, DestroyBuffer(d)
      PROVE  Covered(p)'
  BY <1>1, <1>6 DEF DestroyBuffer, StartDestroyBuffer, FinishDestroyBuffer
<1>7. CASE UNCHANGED vars
  BY <1>1, <1>7 DEF vars
<1> QED
  BY <1>3, <1>4, <1>5, <1>6, <1>7 DEF Normal, GpuStep

LEMMA CoverInit == Init => CoverInv
BY DEF Init, CoverInv, TailWait, ChainWait, NoChain

LEMMA CoverStep ==
    ASSUME TypeOK, TypeOK', MutexInv, TimelineInv, CoverInv, [Normal]_vars
    PROVE  CoverInv'
<1> USE DEF execVars, queueVars, gpuVars, chainVars
<1> DEFINE Tail(e) == [queue |-> currentRecordQueue[e], value |-> lastSignalValue[e]]
<1>1. /\ \A e \in Executor : \A w \in waitSemaphores[e] : w \in Point /\ Covered(w)'
      /\ \A e \in Executor : pc[e] # "submit" =>
            \A w \in TailWait(e) : w \in Point /\ Covered(w)'
      /\ \A w \in ChainWait : w \in Point /\ Covered(w)'
  <2>1. \A e \in Executor : \A w \in waitSemaphores[e] : w \in Point
    BY DEF TypeOK
  <2>2. \A e \in Executor : \A w \in TailWait(e) : w \in Point
    BY DEF TypeOK, TailWait, Point
  <2>3. \A w \in ChainWait : w \in Point
    BY DEF TypeOK, ChainWait, NoChain
  <2> QED
    BY <2>1, <2>2, <2>3, CoveredStep DEF CoverInv
<1>2. ASSUME UNCHANGED <<waitSemaphores, currentRecordQueue, lastSignalValue, chain>>,
             \A e \in Executor : pc'[e] # "submit" => pc[e] # "submit"
      PROVE  CoverInv'
  BY <1>1, <1>2 DEF CoverInv, TailWait, ChainWait
<1>3. ASSUME NEW e \in Executor, NEW other \in Executor, WaitFor(e, other)
      PROVE  CoverInv'
  BY <1>1, <1>3 DEF WaitFor, CoverInv, TailWait, ChainWait, TypeOK
<1>4. ASSUME NEW e \in Executor, CommitEmpty(e)
      PROVE  CoverInv'
  BY <1>1, <1>4 DEF CommitEmpty, CoverInv, TailWait, ChainWait, TypeOK
<1>5. ASSUME NEW e \in Executor, LockChain(e)
      PROVE  CoverInv'
  BY <1>1, <1>5 DEF LockChain, CoverInv, TailWait, ChainWait, TypeOK
<1>6. ASSUME NEW e \in Executor, Record(e)
      PROVE  CoverInv'
  <2>1. picked[e] \in Queue /\ timelineValue[picked[e]] = counter[picked[e]]
    BY <1>6 DEF Record, Allocate, MutexInv, TimelineInv, HoldsQueue, TypeOK
  <2>2. \A w \in {[queue |-> picked[e], value |-> timelineValue[picked[e]]]} : Covered(w)'
    BY <1>6, <2>1 DEF Record, Allocate, Covered, Reached, TypeOK
  <2>3. \A w \in waitSemaphores'[e] : Covered(w)'
    BY <1>1, <1>6, <2>2 DEF Record, Allocate, TypeOK
  <2>4. \A f \in Executor \ {e} : /\ waitSemaphores'[f] = waitSemaphores[f]
                                  /\ pc'[f] = pc[f] /\ TailWait(f)' = TailWait(f)
    BY <1>6 DEF Record, Allocate, TailWait, TypeOK
  <2>5. pc'[e] = "submit" /\ ChainWait' = ChainWait
    BY <1>6 DEF Record, Allocate, ChainWait, TypeOK
  <2> QED
    BY <1>1, <2>3, <2>4, <2>5 DEF CoverInv
<1>7. ASSUME NEW e \in Executor, Submit(e)
      PROVE  CoverInv'
  <2>1. /\ NewJob(e).queue = picked[e] /\ NewJob(e).signal = timelineValue[picked[e]]
        /\ picked[e] \in Queue /\ currentRecordQueue[e] = picked[e]
    BY <1>7, NewJobType, SignalIsTimeline DEF Submit, MutexInv
  <2>2. \A w \in TailWait(e)' : Covered(w)'
    BY <1>7, <2>1 DEF Submit, TailWait, Covered, TypeOK
  <2>3. \A f \in Executor \ {e} : /\ waitSemaphores'[f] = waitSemaphores[f]
                                  /\ pc'[f] = pc[f] /\ TailWait(f)' = TailWait(f)
    BY <1>7 DEF Submit, TailWait, TypeOK
  <2>4. waitSemaphores'[e] = {} /\ ChainWait' = ChainWait
    BY <1>7 DEF Submit, ChainWait, TypeOK
  <2> QED
    BY <1>1, <2>2, <2>3, <2>4 DEF CoverInv
<1>8. ASSUME NEW e \in Executor, Finish(e)
      PROVE  CoverInv'
  <2>1. pc[e] = "submitted" /\ currentRecordQueue[e] \in Queue
    BY <1>8 DEF Finish, MutexInv
  <2>2. TailWait(e) = {Tail(e)} /\ \A w \in {Tail(e)} : Covered(w)'
    BY <1>1, <2>1, PoolAssumption DEF TailWait
  <2>3. \A w \in ChainWait' : w \in ChainWait \cup {Tail(e)}
    BY <1>8 DEF Finish, ChainWait
  <2>4. \A f \in Executor : /\ waitSemaphores'[f] \subseteq waitSemaphores[f] \cup TailWait(f)
                            /\ f # e => waitSemaphores'[f] = waitSemaphores[f]
                            /\ TailWait(f)' = TailWait(f)
                            /\ pc'[f] # "submit" => pc[f] # "submit"
    BY <1>8, <2>1 DEF Finish, TailWait, TypeOK
  <2> QED
    BY <1>1, <2>1, <2>2, <2>3, <2>4 DEF CoverInv
<1>9. ASSUME NEW e \in Executor, Call(e)
      PROVE  CoverInv'
  <2>1. ASSUME BeginCommit(e) \/ Destroy(e)
        PROVE  CoverInv'
    BY <1>2, <2>1 DEF BeginCommit, Destroy, DropAll, TypeOK
  <2> QED
    BY <1>2, <1>3, <1>4, <1>9, <2>1 DEF Call, AddCopy, AddPipeline,
       CleanupDeferred, WaitForDeferred
<1>10. ASSUME NEW e \in Executor, NEW q \in Queue, Pick(e, q) \/ DrainInPick(e)
       PROVE  CoverInv'
  BY <1>2, <1>10 DEF Pick, DrainInPick, TypeOK
<1>11. ASSUME NEW d \in Destroyer, DestroyBuffer(d)
       PROVE  CoverInv'
  BY <1>2, <1>11 DEF DestroyBuffer, StartDestroyBuffer, FinishDestroyBuffer
<1>12. ASSUME GpuStep
       PROVE  CoverInv'
  BY <1>2, <1>12 DEF GpuStep, Complete
<1>13. CASE UNCHANGED vars
  BY <1>2, <1>13 DEF vars
<1>14. ASSUME NEW e \in Executor, CommitStep(e)
       PROVE  CoverInv'
  <2>1. CASE DrainInPick(e)
    BY <1>2, <2>1 DEF DrainInPick, TypeOK
  <2> QED
    BY <1>5, <1>6, <1>7, <1>8, <1>10, <1>14, <2>1 DEF CommitStep
<1> QED
  BY <1>9, <1>11, <1>12, <1>13, <1>14 DEF Normal

-----------------------------------------------------------------------------
\* Waits of submissions, and of destroyBuffer.

LEMMA OrphanInit == Init => NoOrphanWait
BY DEF Init, NoOrphanWait

LEMMA OrphanStep ==
    ASSUME TypeOK, MutexInv, TimelineInv, StampInv, CoverInv, NoOrphanWait, [Normal]_vars
    PROVE  NoOrphanWait'
<1> USE DEF execVars, queueVars, gpuVars, chainVars
<1>1. ASSUME UNCHANGED <<inFlight, counter>>
      PROVE  NoOrphanWait'
  BY <1>1 DEF NoOrphanWait, Reached
<1>2. ASSUME NEW e \in Executor, Submit(e)
      PROVE  NoOrphanWait'
  <2>1. /\ inFlight' = inFlight \cup {NewJob(e)} /\ UNCHANGED counter
        /\ NewJob(e).waits = waitSemaphores[e] /\ NewJob(e).stamp = issued
    BY <1>2, NewJobType DEF Submit
  <2>2. ASSUME NEW w \in NewJob(e).waits
        PROVE  \/ Reached(w)'
               \/ \E k \in inFlight' : /\ k.queue = w.queue /\ k.signal >= w.value
                                       /\ k.stamp < NewJob(e).stamp
    <3>1. Covered(w)
      BY <2>1, <2>2 DEF CoverInv
    <3> QED
      BY <2>1, <3>1 DEF Covered, Reached, StampInv
  <2>3. ASSUME NEW j \in inFlight, NEW w \in j.waits
        PROVE  \/ Reached(w)'
               \/ \E k \in inFlight' : /\ k.queue = w.queue /\ k.signal >= w.value
                                       /\ k.stamp < j.stamp
    BY <2>1, <2>3 DEF NoOrphanWait, Reached
  <2> QED
    BY <2>1, <2>2, <2>3 DEF NoOrphanWait
<1>3. ASSUME NEW c \in inFlight, Complete(c)
      PROVE  NoOrphanWait'
  <2>1. /\ counter' = [counter EXCEPT ![c.queue] = c.signal]
        /\ inFlight' = inFlight \ {c}
        /\ c.queue \in Queue /\ c.signal \in Nat
    BY <1>3 DEF Complete, TypeOK, Job
  <2>2. ASSUME NEW j \in inFlight, NEW w \in j.waits
        PROVE  \/ Reached(w)'
               \/ \E k \in inFlight' : /\ k.queue = w.queue /\ k.signal >= w.value
                                       /\ k.stamp < j.stamp
    <3>1. w \in Point
      BY <2>2 DEF TypeOK, Job
    <3>2. CASE Reached(w)
      BY <2>1, <3>1, <3>2 DEF Reached, Point, TimelineInv, TypeOK
    <3>3. ASSUME NEW k \in inFlight, k.queue = w.queue, k.signal >= w.value, k.stamp < j.stamp
          PROVE  \/ Reached(w)'
                 \/ \E l \in inFlight' : /\ l.queue = w.queue /\ l.signal >= w.value
                                         /\ l.stamp < j.stamp
      BY <2>1, <3>1, <3>3 DEF Reached, TypeOK, Point
    <3> QED
      BY <3>2, <3>3 DEF NoOrphanWait
  <2> QED
    BY <2>1, <2>2 DEF NoOrphanWait
<1>4. ASSUME NEW e \in Executor, Call(e)
      PROVE  NoOrphanWait'
  BY <1>1, <1>4 DEF Call, AddCopy, AddPipeline, WaitFor, CommitEmpty, BeginCommit,
     CleanupDeferred, WaitForDeferred, Destroy, DropAll
<1>5. ASSUME NEW e \in Executor, CommitStep(e)
      PROVE  NoOrphanWait'
  BY <1>1, <1>2, <1>5 DEF CommitStep, LockChain, Pick, DrainInPick, Record, Finish
<1>6. ASSUME NEW d \in Destroyer, DestroyBuffer(d)
      PROVE  NoOrphanWait'
  BY <1>1, <1>6 DEF DestroyBuffer, StartDestroyBuffer, FinishDestroyBuffer
<1>7. CASE UNCHANGED vars
  BY <1>1, <1>7 DEF vars
<1> QED
  BY <1>3, <1>4, <1>5, <1>6, <1>7 DEF Normal, GpuStep

\* What a destroyBuffer call reads covers every submission in flight.
LEMMA DrainTargetCovers ==
    ASSUME TypeOK, TimelineInv, StampInv
    PROVE  /\ \A q \in Queue : DrainTarget.values[q] <= timelineValue[q]
           /\ \A s \in DrainTarget.witness : s < issued
           /\ \A j \in inFlight : j.signal <= DrainTarget.values[j.queue]
BY DEF DrainTarget, TypeOK, Job, TimelineInv, StampInv

LEMMA DrainInit == Init => DrainInv
BY DEF Init, DrainInv

LEMMA DrainStep ==
    ASSUME TypeOK, MutexInv, TimelineInv, StampInv, CoverInv, DrainInv, [Normal]_vars
    PROVE  DrainInv'
<1> USE DEF execVars, queueVars, gpuVars, chainVars
<1> DEFINE Good(t, d) ==
             /\ \A q \in Queue : d.values[q] <= timelineValue[q]
             /\ \A s \in d.witness : s < issued
             /\ \A j \in inFlight : j.stamp \in d.witness => j.signal <= d.values[j.queue]
<1>1. ASSUME UNCHANGED <<drain, timelineValue, issued, inFlight>>,
             \A e \in Executor : pc[e] = "drain" => pc'[e] = "drain"
      PROVE  DrainInv'
  BY <1>1 DEF DrainInv
<1>2. ASSUME NEW e \in Executor, Call(e)
      PROVE  DrainInv'
  <2>1. UNCHANGED <<drain, timelineValue, issued, inFlight>>
    BY <1>2 DEF Call, AddCopy, AddPipeline, WaitFor, CommitEmpty, BeginCommit,
       CleanupDeferred, WaitForDeferred, Destroy, DropAll
  <2>2. \A f \in Executor : pc[f] = "drain" => pc'[f] = "drain"
    BY <1>2 DEF Call, AddCopy, AddPipeline, WaitFor, CommitEmpty, BeginCommit,
       CleanupDeferred, WaitForDeferred, Destroy, DropAll, TypeOK
  <2> QED
    BY <1>1, <2>1, <2>2
<1>3. ASSUME NEW e \in Executor, LockChain(e) \/ Finish(e)
      PROVE  DrainInv'
  BY <1>1, <1>3 DEF LockChain, Finish, TypeOK
<1>4. ASSUME NEW e \in Executor, NEW q \in Queue, Pick(e, q)
      PROVE  DrainInv'
  <2>1. e \in Thread
    BY DEF Thread
  <2>2. CASE UNCHANGED drain
    <3>1. \A f \in Executor : pc[f] = "drain" => pc'[f] = "drain"
      BY <1>4 DEF Pick, TypeOK
    <3> QED
      BY <1>1, <1>4, <2>2, <3>1 DEF Pick
  <2>3. CASE drain' = [drain EXCEPT ![e] = DrainTarget] /\ pc' = [pc EXCEPT ![e] = "drain"]
    BY <1>4, <2>1, <2>3, DrainTargetCovers DEF Pick, DrainInv, TypeOK
  <2> QED
    BY <1>4, <2>2, <2>3 DEF Pick
<1>5. ASSUME NEW e \in Executor, DrainInPick(e)
      PROVE  DrainInv'
  BY <1>5 DEF DrainInPick, DrainInv, TypeOK, Thread
<1>6. ASSUME NEW e \in Executor, Record(e)
      PROVE  DrainInv'
  <2>1. picked[e] \in Queue
    BY <1>6 DEF Record, Allocate, MutexInv, HoldsQueue
  <2>2. \A q \in Queue : timelineValue[q] <= timelineValue'[q]
    BY <1>6, <2>1 DEF Record, Allocate, TypeOK
  <2>3. \A t \in Thread : drain[t] # None => drain[t].values \in [Queue -> Nat]
    BY DEF TypeOK, Drain
  <2>4. \A q \in Queue : timelineValue[q] \in Nat /\ timelineValue'[q] \in Nat
    BY <1>6, <2>1 DEF Record, Allocate, TypeOK
  <2>5. /\ UNCHANGED <<drain, issued, inFlight>>
        /\ \A f \in Executor : pc[f] = "drain" => pc'[f] = "drain"
    BY <1>6 DEF Record, Allocate, TypeOK
  <2> QED
    BY <2>2, <2>3, <2>4, <2>5 DEF DrainInv
<1>7. ASSUME NEW e \in Executor, Submit(e)
      PROVE  DrainInv'
  <2>1. NewJob(e).stamp = issued /\ inFlight' = inFlight \cup {NewJob(e)}
    BY <1>7, NewJobType DEF Submit
  <2>2. \A t \in Thread : drain[t] # None => issued \notin drain[t].witness
    BY DEF DrainInv, TypeOK
  <2>3. \A t \in Thread : drain[t] # None => \A s \in drain[t].witness : s \in Nat
    BY DEF TypeOK, Drain
  <2>4. /\ UNCHANGED <<drain, timelineValue>> /\ issued' = issued + 1
        /\ \A f \in Executor : pc[f] = "drain" => pc'[f] = "drain"
    BY <1>7 DEF Submit, TypeOK
  <2> QED
    BY <2>1, <2>2, <2>3, <2>4 DEF DrainInv, TypeOK
<1>8. ASSUME NEW j \in inFlight, Complete(j)
      PROVE  DrainInv'
  BY <1>8 DEF Complete, DrainInv
<1>9. ASSUME NEW d \in Destroyer, StartDestroyBuffer(d)
      PROVE  DrainInv'
  <2>1. d \in Thread /\ d \notin Executor
    BY PoolAssumption DEF Thread
  <2> QED
    BY <1>9, <2>1, DrainTargetCovers DEF StartDestroyBuffer, DrainInv, TypeOK
<1>10. ASSUME NEW d \in Destroyer, FinishDestroyBuffer(d)
       PROVE  DrainInv'
  BY <1>10 DEF FinishDestroyBuffer, DrainInv, TypeOK, Thread
<1>11. CASE UNCHANGED vars
  BY <1>1, <1>11 DEF vars
<1> QED
  BY <1>2, <1>3, <1>4, <1>5, <1>6, <1>7, <1>8, <1>9, <1>10, <1>11
  DEF Normal, CommitStep, GpuStep, DestroyBuffer

-----------------------------------------------------------------------------
\* The invariant, and the properties of the specification.

LEMMA IndInvInit == Init => IndInv
BY TypeInit, MutexInit, TimelineInit, StampInit, CoverInit, OrphanInit, DrainInit
DEF IndInv

LEMMA IndInvStep == IndInv /\ [Normal]_vars => IndInv'
<1> SUFFICES ASSUME IndInv, [Normal]_vars
             PROVE  IndInv'
  OBVIOUS
<1>1. TypeOK /\ MutexInv /\ TimelineInv /\ StampInv /\ CoverInv /\ NoOrphanWait /\ DrainInv
  BY DEF IndInv
<1>2. TypeOK'
  BY <1>1, TypeStep
<1>3. MutexInv'
  BY <1>1, MutexStep
<1>4. TimelineInv'
  BY <1>1, <1>3, TimelineStep
<1>5. StampInv'
  BY <1>1, StampStep
<1>6. CoverInv'
  BY <1>1, <1>2, CoverStep
<1>7. NoOrphanWait'
  BY <1>1, OrphanStep
<1>8. DrainInv'
  BY <1>1, DrainStep
<1> QED
  BY <1>2, <1>3, <1>4, <1>5, <1>6, <1>7, <1>8 DEF IndInv

\* The parts of the inductive invariant hold together in every reachable state of
\* a fault-free run of pickQueueAndCommit, commit and destroyBuffer.
THEOREM Invariance == Spec => []IndInv
BY IndInvInit, IndInvStep, PTL DEF Spec

\* The fields of HardwareExecutorVulkan and QueueUtils keep their types.
THEOREM TypeCorrect == Spec => []TypeOK
<1>1. IndInv => TypeOK
  BY DEF IndInv
<1> QED
  BY <1>1, Invariance, PTL

\* The one command buffer of a queue is never reset or submitted while a
\* submission that uses it is on the GPU.
THEOREM CommandBufferSafe == Spec => []CommandBufferFree
<1>1. IndInv => CommandBufferFree
  BY DEF IndInv, TimelineInv, CommandBufferFree
<1> QED
  BY <1>1, Invariance, PTL

\* No submission waits for a value that nothing submitted before it signals, so
\* the waits collected by commit, wait(other) and the graphics chain cannot
\* deadlock the GPU.
THEOREM NoGpuDeadlock == Spec => []NoOrphanWait
<1>1. IndInv => NoOrphanWait
  BY DEF IndInv
<1> QED
  BY <1>1, Invariance, PTL

\* A queue nobody holds and nothing runs on passes the counter check of the next
\* pick: no value of the timeline is lost.
THEOREM QueueStaysReusable == Spec => []QueueReusable
<1>1. IndInv => QueueReusable
  <2> SUFFICES ASSUME IndInv, NEW q \in Queue, queueMutex[q] = None,
                      \A j \in inFlight : j.queue # q
               PROVE  QueueIdle(q)
    BY DEF QueueReusable
  <2>1. \A e \in Executor : ~(HoldsQueue(e) /\ picked[e] = q)
    BY PoolAssumption DEF IndInv, MutexInv
  <2>2. counter[q] = timelineValue[q]
    BY <2>1 DEF IndInv, TimelineInv
  <2> QED
    BY <2>2 DEF QueueIdle, IndInv, TypeOK
<1> QED
  BY <1>1, Invariance, PTL

\* A destroyBuffer call never waits for a value only its own caller would signal,
\* though it may run with the queue's and the chain's mutex held.
THEOREM DrainNeverSelfWaits == Spec => []DrainWillEnd
<1>1. IndInv => DrainWillEnd
  <2> SUFFICES ASSUME IndInv, NEW t \in Thread, NEW q \in Queue, drain[t] # None,
                      counter[q] < drain[t].values[q]
               PROVE  \/ \E j \in inFlight : j.queue = q /\ j.signal >= drain[t].values[q]
                      \/ \E f \in Executor : f # t /\ pc[f] = "submit" /\ picked[f] = q
    BY DEF DrainWillEnd
  <2>1. /\ drain[t].values[q] \in Nat /\ drain[t].values[q] <= timelineValue[q]
        /\ counter[q] \in Nat /\ timelineValue[q] \in Nat
    BY DEF IndInv, DrainInv, TypeOK, Drain
  <2>2. CASE \E j \in inFlight : j.queue = q
    BY <2>1, <2>2 DEF IndInv, TimelineInv
  <2>3. ASSUME NEW f \in Executor, HoldsQueue(f), picked[f] = q
        PROVE  f # t /\ pc[f] = "submit"
    BY <2>1, <2>3 DEF IndInv, TimelineInv, DrainInv
  <2> QED
    BY <2>1, <2>2, <2>3 DEF IndInv, TimelineInv
<1> QED
  BY <1>1, Invariance, PTL

\* Every signal is above the value its semaphore has.
THEOREM SignalsAlwaysAdvance == Spec => SignalsAdvance
<1>1. IndInv /\ [Normal]_vars =>
        [\A j \in inFlight : j \notin inFlight' => j.signal > counter[j.queue]]_vars
  BY DEF IndInv, TimelineInv, TypeOK, Job
<1> QED
  BY <1>1, Invariance, PTL DEF Spec, SignalsAdvance

\* destroyBuffer returns only when every submission that was in flight when it
\* was called has completed.
THEOREM BuffersOutliveTheirUse == Spec => DestroyAfterUse
<1> DEFINE Step == \A t \in Thread :
                      drain[t] # None /\ drain'[t] = None
                        => \A j \in inFlight : j.stamp \notin drain[t].witness
<1>1. ASSUME IndInv, [Normal]_vars, NEW t \in Thread, drain[t] # None, drain'[t] = None
      PROVE  DrainDone(t)
  <2> USE <1>1 DEF execVars, queueVars, gpuVars, chainVars, IndInv, TypeOK
  <2>1. ASSUME NEW e \in Executor, Call(e) PROVE UNCHANGED drain
    BY <2>1 DEF Call, AddCopy, AddPipeline, WaitFor, CommitEmpty, BeginCommit,
       CleanupDeferred, WaitForDeferred, Destroy, DropAll
  <2>2. ASSUME NEW e \in Executor, CommitStep(e) PROVE DrainDone(t)
    <3>1. ASSUME NEW q \in Queue, Pick(e, q) PROVE drain'[t] # None
      <4>1. DrainTarget \in Drain
        BY DEF DrainTarget, Drain, Job
      <4> QED
        BY <3>1, <4>1, PoolAssumption DEF Pick, Thread
    <3>2. CASE DrainInPick(e)
      BY <3>2 DEF DrainInPick, Thread
    <3>3. CASE LockChain(e) \/ Record(e) \/ Submit(e) \/ Finish(e)
      BY <3>3 DEF LockChain, Record, Submit, Finish
    <3> QED
      BY <2>2, <3>1, <3>2, <3>3 DEF CommitStep
  <2>3. ASSUME NEW d \in Destroyer, DestroyBuffer(d) PROVE DrainDone(t)
    <3>1. DrainTarget \in Drain
      BY DEF DrainTarget, Drain, Job
    <3>2. CASE StartDestroyBuffer(d)
      BY <3>1, <3>2, PoolAssumption DEF StartDestroyBuffer, Thread
    <3>3. CASE FinishDestroyBuffer(d)
      BY <3>3 DEF FinishDestroyBuffer, Thread
    <3> QED
      BY <2>3, <3>2, <3>3 DEF DestroyBuffer
  <2>4. CASE GpuStep
    BY <2>4 DEF GpuStep, Complete
  <2>5. CASE UNCHANGED vars
    BY <2>5 DEF vars
  <2> QED
    BY <2>1, <2>2, <2>3, <2>4, <2>5 DEF Normal
<1>2. ASSUME IndInv, NEW t \in Thread, drain[t] # None, DrainDone(t),
             NEW j \in inFlight
      PROVE  j.stamp \notin drain[t].witness
  <2>1. /\ j.queue \in Queue /\ j.signal \in Nat
        /\ j.signal = counter[j.queue] + 1 /\ counter[j.queue] \in Nat
        /\ drain[t].values[j.queue] \in Nat
    BY <1>2 DEF IndInv, TypeOK, TimelineInv, Job, Drain
  <2>2. counter[j.queue] >= drain[t].values[j.queue]
    BY <1>2, <2>1 DEF DrainDone, DrainReached
  <2> QED
    BY <1>2, <2>1, <2>2 DEF IndInv, DrainInv
<1>3. IndInv /\ [Normal]_vars => [Step]_vars
  BY <1>1, <1>2
<1> QED
  BY <1>3, Invariance, PTL DEF Spec, DestroyAfterUse

-----------------------------------------------------------------------------
\* In what order submissions run, and what keeps their objects alive: no queue
\* orders the work of an executor or of the graphics chain, only the points
\* collected in waitSemaphores do.  OrderInv says of every such set of points that
\* they guard the work before them, HoldInv where the keep-alive objects are at
\* each position of commit().  Both are inductive relative to IndInv.

\* The strengthened invariants.

Of(e) == {j \in inFlight : j.owner = e}

Drawn == {j \in inFlight : j.kind = "Graphics"}

\* Every one of the jobs is, or is older than, a job the points wait for.
Guards(points, jobs) ==
    \A j \in jobs : \E m \in jobs :
        /\ j.stamp <= m.stamp
        /\ \E w \in points : w.queue = m.queue /\ w.value >= m.signal

Before(jobs, k) == {j \in jobs : j.stamp < k.stamp}

IsGraphics(e) == QueueType(commandList[e]) = "Graphics"

\* A graphics commit between taking the chain mutex and vkQueueSubmit2, and from
\* there to the publication of its submission.
InChain(e) == IsGraphics(e) /\ pc[e] \in {"pick", "drain", "record", "submit"}

Publishing(e) == IsGraphics(e) /\ pc[e] = "submitted"

\* A graphics commit holds the chain mutex until it has published.
ChainInv ==
    \A e \in Executor :
        /\ pc[e] = "chain" => IsGraphics(e)
        /\ InChain(e) \/ Publishing(e) => chainMutex = e

\* A submission waits for the older ones of its executor and, if it draws, for the
\* older ones that draw; what will become such a wait already guards them.
OrderInv ==
    /\ \A e \in Executor, k \in inFlight : k.owner = e => Guards(k.waits, Before(Of(e), k))
    /\ \A k \in Drawn : Guards(k.waits, Before(Drawn, k))
    /\ \A e \in Executor : pc[e] # "submitted" => Guards(waitSemaphores[e], Of(e))
    /\ \A e \in Executor : pc[e] # "submit" => Guards(TailWait(e), Of(e))
    /\ (\A e \in Executor : ~Publishing(e)) => Guards(ChainWait, Drawn)
    /\ \A e \in Executor : InChain(e) => Guards(waitSemaphores[e], Drawn)
    /\ \A e \in Executor : Publishing(e) => Guards(TailWait(e), Drawn)

\* The objects of a submission are bound to its own signal; those of the commands
\* still to be submitted are in one of the two vectors, except what a rasterizer
\* adds only when it is recorded.
HoldInv ==
    /\ \A j \in inFlight : \A r \in j.uses :
          [resource |-> r, queue |-> j.queue, value |-> j.signal]
              \in deferredReleaseQueue[j.owner]
    /\ \A e \in Executor : pc[e] \in {"idle", "chain", "pick", "drain", "record"} =>
          \A c \in commandList[e] :
              c.kind # "Graphics" /\ c.holds # None => c.holds \in pendingResources[e]
    /\ \A e \in Executor : pc[e] = "submit" =>
          \A c \in commandList[e] :
              c.holds # None => c.holds \in localPendingResources[e] \cup pendingResources[e]

-----------------------------------------------------------------------------
\* Facts about guards.

LEMMA GuardsMono ==
    ASSUME NEW S, NEW T, NEW jobs, S \subseteq T, Guards(S, jobs)
    PROVE  Guards(T, jobs)
BY DEF Guards

\* Once a submission may complete, nothing it had to wait for is in flight.
LEMMA NothingBefore ==
    ASSUME TypeOK, TimelineInv, NEW c \in inFlight, \A w \in c.waits : Reached(w),
           NEW jobs \in SUBSET inFlight, Guards(c.waits, jobs)
    PROVE  jobs = {}
<1> SUFFICES ASSUME NEW j \in jobs
             PROVE  FALSE
  OBVIOUS
<1>1. PICK m \in jobs : \E w \in c.waits : w.queue = m.queue /\ w.value >= m.signal
  BY DEF Guards
<1>2. PICK w \in c.waits : w.queue = m.queue /\ w.value >= m.signal
  BY <1>1
<1>3. /\ w.value \in Nat /\ m.signal \in Nat /\ m.queue \in Queue
      /\ counter[m.queue] \in Nat
  BY DEF TypeOK, Job, Point
<1>4. m.signal = counter[m.queue] + 1
  BY DEF TimelineInv
<1>5. counter[m.queue] >= w.value
  BY <1>2 DEF Reached
<1> QED
  BY <1>2, <1>3, <1>4, <1>5

\* So its completion leaves what guarded a set of jobs guarding the rest of it.
LEMMA GuardsWithout ==
    ASSUME TypeOK, StampInv, NEW c \in inFlight, NEW jobs \in SUBSET inFlight,
           c \in jobs => Before(jobs, c) = {},
           NEW S, Guards(S, jobs)
    PROVE  Guards(S, jobs \ {c})
<1> SUFFICES ASSUME NEW j \in jobs \ {c}
             PROVE  \E m \in jobs \ {c} :
                        /\ j.stamp <= m.stamp
                        /\ \E w \in S : w.queue = m.queue /\ w.value >= m.signal
  BY DEF Guards
<1>1. PICK m \in jobs : /\ j.stamp <= m.stamp
                        /\ \E w \in S : w.queue = m.queue /\ w.value >= m.signal
  BY DEF Guards
<1>2. m # c
  <2>1. SUFFICES ASSUME m = c PROVE FALSE
    OBVIOUS
  <2>2. j.stamp # c.stamp /\ j.stamp \in Nat /\ c.stamp \in Nat
    BY DEF StampInv, TypeOK, Job
  <2>3. j.stamp < c.stamp
    BY <1>1, <2>1, <2>2
  <2>4. j \in Before(jobs, c) /\ c \in jobs
    BY <2>1, <2>3 DEF Before
  <2> QED
    BY <2>4
<1> QED
  BY <1>1, <1>2

-----------------------------------------------------------------------------
\* The chain mutex.

LEMMA ChainInit == Init => ChainInv
BY DEF Init, ChainInv, InChain, Publishing

LEMMA ChainStep ==
    ASSUME TypeOK, MutexInv, ChainInv, [Normal]_vars
    PROVE  ChainInv'
<1> USE DEF ChainInv, InChain, Publishing, IsGraphics, TypeOK,
            execVars, queueVars, gpuVars, chainVars
<1>1. ASSUME NEW e \in Executor, Call(e)
      PROVE  ChainInv'
  <2>1. CASE BeginCommit(e)
    BY <2>1 DEF BeginCommit
  <2>2. CASE Destroy(e)
    BY <2>2 DEF Destroy, DropAll
  <2>3. CASE CommitEmpty(e) \/ CleanupDeferred(e) \/ WaitForDeferred(e)
    BY <2>3 DEF CommitEmpty, CleanupDeferred, WaitForDeferred
  <2>4. ASSUME NEW r \in Resource, AddCopy(e, r)
        PROVE  ChainInv'
    BY <2>4 DEF AddCopy
  <2>5. ASSUME NEW kind \in Kind, NEW r \in Resource \cup {None}, AddPipeline(e, kind, r)
        PROVE  ChainInv'
    BY <2>5 DEF AddPipeline
  <2>6. ASSUME NEW other \in Executor, WaitFor(e, other)
        PROVE  ChainInv'
    BY <2>6 DEF WaitFor
  <2> QED
    BY <1>1, <2>1, <2>2, <2>3, <2>4, <2>5, <2>6 DEF Call
<1>2. ASSUME NEW e \in Executor, LockChain(e)
      PROVE  ChainInv'
  BY <1>2, PoolAssumption DEF LockChain
<1>3. ASSUME NEW e \in Executor, NEW q \in Queue, Pick(e, q)
      PROVE  ChainInv'
  BY <1>3 DEF Pick
<1>4. ASSUME NEW e \in Executor, DrainInPick(e) \/ Record(e)
      PROVE  ChainInv'
  BY <1>4 DEF DrainInPick, Record
<1>5. ASSUME NEW e \in Executor, Submit(e)
      PROVE  ChainInv'
  BY <1>5 DEF Submit
<1>6. ASSUME NEW e \in Executor, Finish(e)
      PROVE  ChainInv'
  BY <1>6, PoolAssumption DEF Finish, QueueType
<1>7. ASSUME NEW d \in Destroyer, DestroyBuffer(d)
      PROVE  ChainInv'
  BY <1>7 DEF DestroyBuffer, StartDestroyBuffer, FinishDestroyBuffer
<1>8. ASSUME GpuStep
      PROVE  ChainInv'
  BY <1>8 DEF GpuStep, Complete
<1>9. CASE UNCHANGED vars
  BY <1>9 DEF vars
<1> QED
  BY <1>1, <1>2, <1>3, <1>4, <1>5, <1>6, <1>7, <1>8, <1>9 DEF Normal, CommitStep

-----------------------------------------------------------------------------
\* The order of submissions.

LEMMA OrderInit == Init => OrderInv
BY DEF Init, OrderInv, Guards, Of, Drawn, TailWait, InChain, Publishing

\* Steps that submit and publish nothing and take no wait away.
LEMMA OrderCalm ==
    ASSUME OrderInv, UNCHANGED <<inFlight, chain>>,
           \A f \in Executor :
               /\ waitSemaphores[f] \subseteq waitSemaphores'[f]
               /\ pc'[f] # "submitted" => pc[f] # "submitted"
               /\ pc'[f] # "submit" => pc[f] # "submit" /\ TailWait(f)' = TailWait(f)
               /\ InChain(f)' => InChain(f)
               /\ Publishing(f)' <=> Publishing(f)
    PROVE  OrderInv'
<1>1. /\ \A e \in Executor, k \in inFlight' : k.owner = e => Guards(k.waits, Before(Of(e), k))'
      /\ \A k \in Drawn' : Guards(k.waits, Before(Drawn, k))'
  BY DEF OrderInv, Guards, Before, Of, Drawn
<1>2. \A e \in Executor : Of(e)' = Of(e)
  BY DEF Of
<1>3. Drawn' = Drawn /\ ChainWait' = ChainWait
  BY DEF Drawn, ChainWait
<1>4. ASSUME NEW e \in Executor, pc'[e] # "submitted"
      PROVE  Guards(waitSemaphores[e], Of(e))'
  <2>1. Guards(waitSemaphores[e], Of(e))
    BY <1>4 DEF OrderInv
  <2> QED
    BY <1>2, <2>1 DEF Guards
<1>5. ASSUME NEW e \in Executor, pc'[e] # "submit"
      PROVE  Guards(TailWait(e), Of(e))'
  <2>1. Guards(TailWait(e), Of(e)) /\ TailWait(e)' = TailWait(e)
    BY <1>5 DEF OrderInv
  <2> QED
    BY <1>2, <2>1 DEF Guards
<1>6. ASSUME \A e \in Executor : ~Publishing(e)'
      PROVE  Guards(ChainWait, Drawn)'
  <2>1. Guards(ChainWait, Drawn)
    BY <1>6 DEF OrderInv
  <2> QED
    BY <1>3, <2>1 DEF Guards
<1>7. ASSUME NEW e \in Executor, InChain(e)'
      PROVE  Guards(waitSemaphores[e], Drawn)'
  <2>1. Guards(waitSemaphores[e], Drawn)
    BY <1>7 DEF OrderInv
  <2> QED
    BY <1>3, <2>1 DEF Guards
<1>8. ASSUME NEW e \in Executor, Publishing(e)'
      PROVE  Guards(TailWait(e), Drawn)'
  <2>1. Guards(TailWait(e), Drawn) /\ TailWait(e)' = TailWait(e)
    BY <1>8 DEF OrderInv, Publishing
  <2> QED
    BY <1>3, <2>1 DEF Guards
<1> QED
  BY <1>1, <1>4, <1>5, <1>6, <1>7, <1>8 DEF OrderInv

\* A graphics commit starts to wait for the chain, which guards all that draw.
LEMMA OrderLockChain ==
    ASSUME TypeOK, ChainInv, OrderInv, NEW e \in Executor, LockChain(e)
    PROVE  OrderInv'
<1>1. \A f \in Executor : ~Publishing(f)
  BY PoolAssumption DEF LockChain, ChainInv
<1>2. Guards(ChainWait, Drawn)
  BY <1>1 DEF OrderInv
<1>3. /\ waitSemaphores' = [waitSemaphores EXCEPT ![e] = @ \cup ChainWait]
      /\ pc[e] = "chain" /\ pc' = [pc EXCEPT ![e] = "pick"]
      /\ UNCHANGED <<inFlight, chain, currentRecordQueue, lastSignalValue, commandList>>
  BY DEF LockChain, gpuVars
<1>4. Drawn' = Drawn /\ ChainWait' = ChainWait
      /\ \A f \in Executor : Of(f)' = Of(f) /\ TailWait(f)' = TailWait(f)
  BY <1>3 DEF Drawn, ChainWait, Of, TailWait
<1>5. \A f \in Executor : waitSemaphores[f] \subseteq waitSemaphores'[f]
  BY <1>3 DEF TypeOK
<1>6. \A f \in Executor \ {e} : pc'[f] = pc[f]
  BY <1>3 DEF TypeOK
<1>7. ChainWait \subseteq waitSemaphores'[e] /\ pc'[e] = "pick"
  BY <1>3 DEF TypeOK
<1>8. /\ \A f \in Executor, k \in inFlight' : k.owner = f => Guards(k.waits, Before(Of(f), k))'
      /\ \A k \in Drawn' : Guards(k.waits, Before(Drawn, k))'
  BY <1>3 DEF OrderInv, Guards, Before, Of, Drawn
<1>9. ASSUME NEW f \in Executor, pc'[f] # "submitted"
      PROVE  Guards(waitSemaphores[f], Of(f))'
  <2>1. Guards(waitSemaphores[f], Of(f))
    BY <1>3, <1>9, <1>6 DEF OrderInv
  <2>2. waitSemaphores[f] \subseteq waitSemaphores'[f] /\ Of(f)' = Of(f)
    BY <1>4, <1>5
  <2> QED
    BY <2>1, <2>2 DEF Guards
<1>10. ASSUME NEW f \in Executor, pc'[f] # "submit"
       PROVE  Guards(TailWait(f), Of(f))'
  <2>1. Guards(TailWait(f), Of(f))
    BY <1>3, <1>10, <1>6 DEF OrderInv
  <2> QED
    BY <1>4, <2>1 DEF Guards
<1>11. Guards(ChainWait, Drawn)'
  BY <1>2, <1>4 DEF Guards
<1>12. ASSUME NEW f \in Executor, InChain(f)'
       PROVE  Guards(waitSemaphores[f], Drawn)'
  <2>1. CASE f = e
    BY <1>2, <1>4, <1>7, <2>1 DEF Guards
  <2>2. CASE f # e
    <3>1. InChain(f)
      BY <1>3, <1>12, <1>6, <2>2 DEF InChain, IsGraphics
    <3>2. Guards(waitSemaphores[f], Drawn)
      BY <3>1 DEF OrderInv
    <3>3. waitSemaphores[f] \subseteq waitSemaphores'[f] /\ Drawn' = Drawn
      BY <1>4, <1>5
    <3> QED
      BY <3>2, <3>3 DEF Guards
  <2> QED
    BY <2>1, <2>2
<1>13. \A f \in Executor : ~Publishing(f)'
  BY <1>1, <1>3, <1>7, <1>6 DEF Publishing, IsGraphics
<1> QED
  BY <1>8, <1>9, <1>10, <1>11, <1>12, <1>13 DEF OrderInv

\* commit() leaves the tail wait, which guards all the executor has submitted;
\* with nothing recorded that is all it does.
LEMMA OrderCommitEmpty ==
    ASSUME TypeOK, OrderInv, NEW e \in Executor, CommitEmpty(e)
    PROVE  OrderInv'
<1>1. /\ waitSemaphores' = [waitSemaphores EXCEPT ![e] = TailWait(e)]
      /\ pc[e] = "idle"
      /\ UNCHANGED <<pc, inFlight, chain, currentRecordQueue, lastSignalValue, commandList>>
  BY DEF CommitEmpty, gpuVars, chainVars
<1>2. /\ Drawn' = Drawn /\ ChainWait' = ChainWait
      /\ \A f \in Executor : /\ Of(f)' = Of(f) /\ TailWait(f)' = TailWait(f)
                             /\ InChain(f)' <=> InChain(f)
                             /\ Publishing(f)' <=> Publishing(f)
  BY <1>1 DEF Drawn, ChainWait, Of, TailWait, InChain, Publishing, IsGraphics
<1>3. /\ waitSemaphores'[e] = TailWait(e) /\ ~InChain(e)
      /\ \A f \in Executor \ {e} : waitSemaphores'[f] = waitSemaphores[f]
  BY <1>1 DEF TypeOK, InChain
<1>4. /\ \A f \in Executor, k \in inFlight' : k.owner = f => Guards(k.waits, Before(Of(f), k))'
      /\ \A k \in Drawn' : Guards(k.waits, Before(Drawn, k))'
  BY <1>1 DEF OrderInv, Guards, Before, Of, Drawn
<1>5. ASSUME NEW f \in Executor, pc'[f] # "submitted"
      PROVE  Guards(waitSemaphores[f], Of(f))'
  <2>1. Guards(waitSemaphores[f], Of(f)) /\ (f = e => Guards(TailWait(f), Of(f)))
    BY <1>1, <1>5 DEF OrderInv
  <2> QED
    BY <1>2, <1>3, <2>1 DEF Guards
<1>6. ASSUME NEW f \in Executor, pc'[f] # "submit"
      PROVE  Guards(TailWait(f), Of(f))'
  <2>1. Guards(TailWait(f), Of(f))
    BY <1>1, <1>6 DEF OrderInv
  <2> QED
    BY <1>2, <2>1 DEF Guards
<1>7. (\A f \in Executor : ~Publishing(f)') => Guards(ChainWait, Drawn)'
  <2>1. (\A f \in Executor : ~Publishing(f)) => Guards(ChainWait, Drawn)
    BY DEF OrderInv
  <2> QED
    BY <1>2, <2>1 DEF Guards
<1>8. ASSUME NEW f \in Executor, InChain(f)'
      PROVE  Guards(waitSemaphores[f], Drawn)'
  <2>1. Guards(waitSemaphores[f], Drawn) /\ f # e
    BY <1>2, <1>3, <1>8 DEF OrderInv
  <2> QED
    BY <1>2, <1>3, <2>1 DEF Guards
<1>9. ASSUME NEW f \in Executor, Publishing(f)'
      PROVE  Guards(TailWait(f), Drawn)'
  <2>1. Guards(TailWait(f), Drawn)
    BY <1>2, <1>9 DEF OrderInv
  <2> QED
    BY <1>2, <2>1 DEF Guards
<1> QED
  BY <1>4, <1>5, <1>6, <1>7, <1>8, <1>9 DEF OrderInv

\* The new submission is the youngest: it waits for what is before it, and the
\* pair (currentRecordQueue, lastSignalValue) now guards everything up to it.
LEMMA OrderSubmit ==
    ASSUME TypeOK, MutexInv, TimelineInv, StampInv, CoverInv, ChainInv, OrderInv,
           NEW e \in Executor, Submit(e)
    PROVE  OrderInv'
<1> DEFINE n == NewJob(e)
<1> DEFINE tail == [queue |-> picked[e], value |-> timelineValue[picked[e]]]
<1>1. /\ n \in Job /\ n.queue = picked[e] /\ n.signal = timelineValue[picked[e]]
      /\ n.waits = waitSemaphores[e] /\ n.stamp = issued
      /\ n.owner = e /\ n.kind = QueueType(commandList[e])
  BY NewJobType DEF Submit, NewJob
<1>2. /\ inFlight' = inFlight \cup {n} /\ pc[e] = "submit"
      /\ pc' = [pc EXCEPT ![e] = "submitted"]
      /\ lastSignalValue' = [lastSignalValue EXCEPT ![e] = timelineValue[picked[e]]]
      /\ waitSemaphores' = [waitSemaphores EXCEPT ![e] = {}]
      /\ UNCHANGED <<currentRecordQueue, commandList, chain, chainMutex>>
  BY DEF Submit, chainVars
<1>3. /\ pc'[e] = "submitted"
      /\ \A f \in Executor \ {e} : pc'[f] = pc[f]
  BY <1>2 DEF TypeOK
<1>4. \A f \in Executor \ {e} : waitSemaphores'[f] = waitSemaphores[f]
  BY <1>2 DEF TypeOK
<1>5. \A f \in Executor \ {e} : TailWait(f)' = TailWait(f)
  BY <1>2 DEF TypeOK, TailWait
<1>6. \A f \in Executor \ {e} :
           /\ InChain(f)' <=> InChain(f)
           /\ Publishing(f)' <=> Publishing(f)
  BY <1>2, <1>3 DEF InChain, Publishing, IsGraphics
<1>7. /\ ~InChain(e)'
      /\ Publishing(e)' <=> n.kind = "Graphics"
  BY <1>1, <1>2, <1>3 DEF InChain, Publishing, IsGraphics
<1>8. TailWait(e)' = {tail}
  BY <1>2, PoolAssumption, SignalIsTimeline DEF TailWait, MutexInv, TypeOK
<1>9. /\ Of(e)' = Of(e) \cup {n}
      /\ \A f \in Executor \ {e} : Of(f)' = Of(f)
      /\ Drawn' = IF n.kind = "Graphics" THEN Drawn \cup {n} ELSE Drawn
  BY <1>1, <1>2 DEF Of, Drawn
<1>10. /\ issued \in Nat
       /\ \A j \in inFlight : j.stamp \in Nat /\ j.stamp < issued
  BY DEF StampInv, TypeOK, Job
\* What the tail wait guards: any set of submissions that contains the new one.
<1>11. ASSUME NEW jobs \in SUBSET inFlight'
       PROVE  n \in jobs => Guards({tail}, jobs)
  <2>1. \A j \in jobs : j.stamp <= n.stamp
    BY <1>1, <1>2, <1>10
  <2>2. tail.queue = n.queue /\ tail.value >= n.signal
    BY <1>1 DEF Job
  <2> QED
    BY <2>1, <2>2 DEF Guards
<1>12. ASSUME NEW jobs \in SUBSET inFlight
       PROVE  /\ Before(jobs \cup {n}, n) = jobs
             /\ \A k \in inFlight : Before(jobs \cup {n}, k) = Before(jobs, k)
  BY <1>1, <1>10 DEF Before
<1>13. ASSUME NEW f \in Executor, NEW k \in inFlight', k.owner = f
       PROVE  Guards(k.waits, Before(Of(f), k))'
  <2>1. Of(f) \in SUBSET inFlight
    BY DEF Of
  <2>2. CASE k = n
    <3>1. f = e /\ Guards(waitSemaphores[e], Of(e))
      BY <1>1, <1>2, <1>13, <2>2 DEF OrderInv
    <3>2. Before(Of(e)', n) = Of(e)
      BY <1>9, <1>12, <2>1, <3>1
    <3> QED
      BY <1>1, <2>2, <3>1, <3>2 DEF Guards, Before
  <2>3. CASE k \in inFlight
    <3>1. Guards(k.waits, Before(Of(f), k))
      BY <1>13, <2>3 DEF OrderInv
    <3>2. Before(Of(f)', k) = Before(Of(f), k)
      BY <1>9, <1>12, <2>1, <2>3
    <3> QED
      BY <3>1, <3>2 DEF Guards, Before
  <2> QED
    BY <1>2, <2>2, <2>3
<1>14. ASSUME NEW k \in Drawn'
       PROVE  Guards(k.waits, Before(Drawn, k))'
  <2>1. Drawn \in SUBSET inFlight
    BY DEF Drawn
  <2>2. CASE k = n
    <3>1. n.kind = "Graphics"
      BY <1>14, <2>2 DEF Drawn
    <3>2. Guards(waitSemaphores[e], Drawn)
      BY <1>1, <1>2, <3>1 DEF OrderInv, InChain, IsGraphics
    <3>3. Before(Drawn', n) = Drawn
      BY <1>9, <1>12, <2>1, <3>1
    <3> QED
      BY <1>1, <2>2, <3>2, <3>3 DEF Guards, Before
  <2>3. CASE k \in inFlight
    <3>1. Guards(k.waits, Before(Drawn, k))
      BY <1>14, <2>3 DEF OrderInv, Drawn
    <3>2. Before(Drawn', k) = Before(Drawn, k)
      BY <1>9, <1>12, <2>1, <2>3
    <3> QED
      BY <3>1, <3>2 DEF Guards, Before
  <2> QED
    BY <1>2, <1>14, <2>2, <2>3 DEF Drawn
<1>15. ASSUME NEW f \in Executor, pc'[f] # "submitted"
       PROVE  Guards(waitSemaphores[f], Of(f))'
  <2>1. f # e
    BY <1>3, <1>15
  <2>2. Guards(waitSemaphores[f], Of(f))
    BY <1>3, <1>15, <2>1 DEF OrderInv
  <2>3. waitSemaphores'[f] = waitSemaphores[f] /\ Of(f)' = Of(f)
    BY <1>4, <1>9, <2>1
  <2> QED
    BY <2>2, <2>3 DEF Guards
<1>16. ASSUME NEW f \in Executor, pc'[f] # "submit"
       PROVE  Guards(TailWait(f), Of(f))'
  <2>1. CASE f = e
    <3>1. Guards({tail}, Of(e)')
      BY <1>2, <1>9, <1>11 DEF Of
    <3> QED
      BY <1>8, <2>1, <3>1 DEF Guards
  <2>2. CASE f # e
    <3>1. Guards(TailWait(f), Of(f))
      BY <1>3, <1>16, <2>2 DEF OrderInv
    <3>2. TailWait(f)' = TailWait(f) /\ Of(f)' = Of(f)
      BY <1>5, <1>9, <2>2
    <3> QED
      BY <3>1, <3>2 DEF Guards
  <2> QED
    BY <2>1, <2>2
<1>17. ASSUME \A f \in Executor : ~Publishing(f)'
       PROVE  Guards(ChainWait, Drawn)'
  <2>1. n.kind # "Graphics" /\ Drawn' = Drawn
    BY <1>7, <1>9, <1>17
  <2>2. ~Publishing(e)
    BY <1>2 DEF Publishing
  <2>3. Guards(ChainWait, Drawn)
    BY <1>6, <1>17, <2>2 DEF OrderInv
  <2> QED
    BY <1>2, <2>1, <2>3 DEF Guards, ChainWait
\* Another executor cannot be in the chain while a graphics commit submits.
<1>18. ASSUME NEW f \in Executor, f # e, InChain(f) \/ Publishing(f)
       PROVE  Drawn' = Drawn
  <2>1. n.kind = "Graphics" => InChain(e)
    BY <1>1, <1>2 DEF InChain, IsGraphics
  <2>2. n.kind # "Graphics"
    BY <1>18, <2>1 DEF ChainInv
  <2> QED
    BY <1>9, <2>2
<1>19. ASSUME NEW f \in Executor, InChain(f)'
       PROVE  Guards(waitSemaphores[f], Drawn)'
  <2>1. f # e /\ InChain(f) /\ Drawn' = Drawn
    BY <1>6, <1>7, <1>18, <1>19
  <2>2. Guards(waitSemaphores[f], Drawn)
    BY <2>1 DEF OrderInv
  <2>3. waitSemaphores'[f] = waitSemaphores[f]
    BY <1>4, <2>1
  <2> QED
    BY <2>1, <2>2, <2>3 DEF Guards
<1>20. ASSUME NEW f \in Executor, Publishing(f)'
       PROVE  Guards(TailWait(f), Drawn)'
  <2>1. CASE f = e
    <3>1. n \in Drawn' /\ Drawn' \in SUBSET inFlight'
      BY <1>9, <1>20, <1>7, <2>1 DEF Drawn
    <3>2. Guards({tail}, Drawn')
      BY <1>11, <3>1
    <3> QED
      BY <1>8, <2>1, <3>2 DEF Guards
  <2>2. CASE f # e
    <3>1. Publishing(f) /\ Drawn' = Drawn
      BY <1>6, <1>18, <1>20, <2>2
    <3>2. Guards(TailWait(f), Drawn)
      BY <3>1 DEF OrderInv
    <3> QED
      BY <1>5, <2>2, <3>1, <3>2 DEF Guards
  <2> QED
    BY <2>1, <2>2
<1> QED
  BY <1>13, <1>14, <1>15, <1>16, <1>17, <1>19, <1>20 DEF OrderInv

\* A graphics commit publishes its tail wait, and every commit waits for its own.
LEMMA OrderFinish ==
    ASSUME TypeOK, MutexInv, TimelineInv, ChainInv, OrderInv,
           NEW e \in Executor, Finish(e)
    PROVE  OrderInv'
<1>1. /\ pc[e] = "submitted" /\ pc' = [pc EXCEPT ![e] = "idle"]
      /\ commandList' = [commandList EXCEPT ![e] = {}]
      /\ waitSemaphores' = [waitSemaphores EXCEPT ![e] = TailWait(e)]
      /\ chain' = IF IsGraphics(e)
                  THEN [queue |-> currentRecordQueue[e], value |-> lastSignalValue[e]]
                  ELSE chain
      /\ UNCHANGED <<inFlight, currentRecordQueue, lastSignalValue>>
  BY DEF Finish, MutexInv, IsGraphics, gpuVars
<1>2. /\ pc'[e] = "idle" /\ waitSemaphores'[e] = TailWait(e)
      /\ \A f \in Executor \ {e} :
             /\ pc'[f] = pc[f]
             /\ waitSemaphores'[f] = waitSemaphores[f]
             /\ commandList'[f] = commandList[f]
  BY <1>1 DEF TypeOK
<1>3. /\ ~InChain(e)' /\ ~Publishing(e)'
      /\ \A f \in Executor \ {e} :
             /\ InChain(f)' <=> InChain(f)
             /\ Publishing(f)' <=> Publishing(f)
  BY <1>2 DEF InChain, Publishing, IsGraphics
<1>4. Drawn' = Drawn /\ \A f \in Executor : Of(f)' = Of(f) /\ TailWait(f)' = TailWait(f)
  BY <1>1 DEF Drawn, Of, TailWait
<1>5. /\ \A f \in Executor, k \in inFlight' : k.owner = f => Guards(k.waits, Before(Of(f), k))'
      /\ \A k \in Drawn' : Guards(k.waits, Before(Drawn, k))'
  BY <1>1 DEF OrderInv, Guards, Before, Of, Drawn
<1>6. ASSUME NEW f \in Executor, pc'[f] # "submitted"
      PROVE  Guards(waitSemaphores[f], Of(f))'
  <2>1. CASE f = e
    <3>1. Guards(TailWait(e), Of(e))
      BY <1>1 DEF OrderInv
    <3> QED
      BY <1>2, <1>4, <2>1, <3>1 DEF Guards
  <2>2. CASE f # e
    <3>1. Guards(waitSemaphores[f], Of(f)) /\ waitSemaphores'[f] = waitSemaphores[f]
      BY <1>2, <1>6, <2>2 DEF OrderInv
    <3> QED
      BY <1>4, <3>1 DEF Guards
  <2> QED
    BY <2>1, <2>2
<1>7. ASSUME NEW f \in Executor, pc'[f] # "submit"
      PROVE  Guards(TailWait(f), Of(f))'
  <2>1. pc[f] # "submit"
    BY <1>1, <1>2, <1>7
  <2>2. Guards(TailWait(f), Of(f))
    BY <2>1 DEF OrderInv
  <2> QED
    BY <1>4, <2>2 DEF Guards
<1>8. ASSUME \A f \in Executor : ~Publishing(f)'
      PROVE  Guards(ChainWait, Drawn)'
  <2>1. CASE IsGraphics(e)
    <3>1. Guards(TailWait(e), Drawn)
      BY <1>1, <2>1 DEF OrderInv, Publishing
    <3>2. CASE lastSignalValue[e] > 0
      <4>1. ChainWait' = TailWait(e)
        BY <1>1, <2>1, <3>2, PoolAssumption DEF ChainWait, TailWait, MutexInv
      <4> QED
        BY <1>4, <3>1, <4>1 DEF Guards
    <3>3. CASE ~(lastSignalValue[e] > 0)
      <4>1. lastSignalValue[e] = 0
        BY <3>3 DEF TypeOK
      <4>2. ASSUME NEW m \in inFlight, NEW w \in TailWait(e)
            PROVE  ~(w.value >= m.signal)
        BY <4>1, <4>2 DEF TailWait, TimelineInv, TypeOK, Job
      <4>3. Drawn = {}
        BY <3>1, <4>2 DEF Guards, Drawn
      <4> QED
        BY <1>4, <4>3 DEF Guards
    <3> QED
      BY <3>2, <3>3
  <2>2. CASE ~IsGraphics(e)
    <3>1. \A f \in Executor : ~Publishing(f)
      BY <1>3, <1>8, <2>2 DEF Publishing
    <3>2. Guards(ChainWait, Drawn) /\ ChainWait' = ChainWait
      BY <1>1, <2>2, <3>1 DEF OrderInv, ChainWait
    <3> QED
      BY <1>4, <3>2 DEF Guards
  <2> QED
    BY <2>1, <2>2
<1>9. ASSUME NEW f \in Executor, InChain(f)'
      PROVE  Guards(waitSemaphores[f], Drawn)'
  <2>1. InChain(f) /\ waitSemaphores'[f] = waitSemaphores[f]
    BY <1>2, <1>3, <1>9
  <2>2. Guards(waitSemaphores[f], Drawn)
    BY <2>1 DEF OrderInv
  <2> QED
    BY <1>4, <2>1, <2>2 DEF Guards
<1>10. ASSUME NEW f \in Executor, Publishing(f)'
       PROVE  Guards(TailWait(f), Drawn)'
  <2>1. Publishing(f)
    BY <1>3, <1>10
  <2>2. Guards(TailWait(f), Drawn)
    BY <2>1 DEF OrderInv
  <2> QED
    BY <1>4, <2>2 DEF Guards
<1> QED
  BY <1>5, <1>6, <1>7, <1>8, <1>9, <1>10 DEF OrderInv

\* A submission that completes is the oldest of its executor, and the oldest that
\* draws if it draws.
LEMMA OldestCompletes ==
    ASSUME TypeOK, TimelineInv, OrderInv, NEW c \in inFlight, Complete(c)
    PROVE  /\ Before(Of(c.owner), c) = {}
           /\ c.kind = "Graphics" => Before(Drawn, c) = {}
<1>1. c.owner \in Executor /\ \A w \in c.waits : Reached(w)
  BY DEF TypeOK, Job, Complete
<1>2. Guards(c.waits, Before(Of(c.owner), c)) /\ Before(Of(c.owner), c) \in SUBSET inFlight
  BY <1>1 DEF OrderInv, Before, Of
<1>3. c.kind = "Graphics" =>
        Guards(c.waits, Before(Drawn, c)) /\ Before(Drawn, c) \in SUBSET inFlight
  BY DEF OrderInv, Before, Drawn
<1> QED
  BY <1>1, <1>2, <1>3, NothingBefore

LEMMA OrderComplete ==
    ASSUME TypeOK, TimelineInv, StampInv, OrderInv, NEW c \in inFlight, Complete(c)
    PROVE  OrderInv'
<1>1. /\ inFlight' = inFlight \ {c}
      /\ UNCHANGED <<pc, commandList, waitSemaphores, currentRecordQueue, lastSignalValue, chain>>
  BY DEF Complete, execVars, chainVars
<1>2. /\ Drawn' = Drawn \ {c} /\ ChainWait' = ChainWait
      /\ \A f \in Executor : Of(f)' = Of(f) \ {c} /\ TailWait(f)' = TailWait(f)
  BY <1>1 DEF Drawn, ChainWait, Of, TailWait
<1>3. \A f \in Executor : /\ InChain(f)' <=> InChain(f)
                          /\ Publishing(f)' <=> Publishing(f)
  BY <1>1 DEF InChain, Publishing, IsGraphics
\* The sets of jobs that OrderInv speaks of lose at most their oldest element.
<1>4. ASSUME NEW f \in Executor, NEW S, Guards(S, Of(f))
      PROVE  Guards(S, Of(f)')
  <2>1. Of(f) \in SUBSET inFlight /\ (c \in Of(f) => Before(Of(f), c) = {})
    BY OldestCompletes DEF Of
  <2> QED
    BY <1>2, <1>4, <2>1, GuardsWithout
<1>5. ASSUME NEW S, Guards(S, Drawn)
      PROVE  Guards(S, Drawn')
  <2>1. Drawn \in SUBSET inFlight /\ (c \in Drawn => Before(Drawn, c) = {})
    BY OldestCompletes DEF Drawn
  <2> QED
    BY <1>2, <1>5, <2>1, GuardsWithout
<1>6. ASSUME NEW f \in Executor, NEW k \in inFlight', k.owner = f
      PROVE  Guards(k.waits, Before(Of(f), k))'
  <2> DEFINE jobs == Before(Of(f), k)
  <2>1. Guards(k.waits, jobs) /\ jobs \in SUBSET inFlight
    BY <1>1, <1>6 DEF OrderInv, Before, Of
  <2>2. c \in jobs => Before(jobs, c) = {}
    BY OldestCompletes DEF Before, Of
  <2>3. Guards(k.waits, jobs \ {c})
    BY <2>1, <2>2, GuardsWithout
  <2>4. Before(Of(f), k)' = jobs \ {c}
    BY <1>2 DEF Before
  <2> QED
    BY <2>3, <2>4 DEF Guards
<1>7. ASSUME NEW k \in Drawn'
      PROVE  Guards(k.waits, Before(Drawn, k))'
  <2> DEFINE jobs == Before(Drawn, k)
  <2>1. Guards(k.waits, jobs) /\ jobs \in SUBSET inFlight
    BY <1>2, <1>7 DEF OrderInv, Before, Drawn
  <2>2. c \in jobs => Before(jobs, c) = {}
    BY OldestCompletes DEF Before, Drawn
  <2>3. Guards(k.waits, jobs \ {c})
    BY <2>1, <2>2, GuardsWithout
  <2>4. Before(Drawn, k)' = jobs \ {c}
    BY <1>2 DEF Before
  <2> QED
    BY <2>3, <2>4 DEF Guards
<1>8. ASSUME NEW f \in Executor, pc'[f] # "submitted"
      PROVE  Guards(waitSemaphores[f], Of(f))'
  <2>1. Guards(waitSemaphores[f], Of(f))
    BY <1>1, <1>8 DEF OrderInv
  <2> QED
    BY <1>1, <1>4, <2>1 DEF Guards
<1>9. ASSUME NEW f \in Executor, pc'[f] # "submit"
      PROVE  Guards(TailWait(f), Of(f))'
  <2>1. Guards(TailWait(f), Of(f))
    BY <1>1, <1>9 DEF OrderInv
  <2>2. Guards(TailWait(f), Of(f)')
    BY <1>4, <2>1
  <2>3. TailWait(f)' = TailWait(f)
    BY <1>2
  <2> QED
    BY <2>2, <2>3 DEF Guards
<1>10. (\A f \in Executor : ~Publishing(f)') => Guards(ChainWait, Drawn)'
  <2>1. (\A f \in Executor : ~Publishing(f)) => Guards(ChainWait, Drawn)
    BY DEF OrderInv
  <2> QED
    BY <1>2, <1>3, <1>5, <2>1 DEF Guards
<1>11. ASSUME NEW f \in Executor, InChain(f)'
       PROVE  Guards(waitSemaphores[f], Drawn)'
  <2>1. Guards(waitSemaphores[f], Drawn)
    BY <1>3, <1>11 DEF OrderInv
  <2> QED
    BY <1>1, <1>5, <2>1 DEF Guards
<1>12. ASSUME NEW f \in Executor, Publishing(f)'
       PROVE  Guards(TailWait(f), Drawn)'
  <2>1. Guards(TailWait(f), Drawn)
    BY <1>3, <1>12 DEF OrderInv
  <2> QED
    BY <1>2, <1>5, <2>1 DEF Guards
<1> QED
  BY <1>6, <1>7, <1>8, <1>9, <1>10, <1>11, <1>12 DEF OrderInv

LEMMA OrderStep ==
    ASSUME TypeOK, MutexInv, TimelineInv, StampInv, CoverInv, ChainInv, OrderInv,
           [Normal]_vars
    PROVE  OrderInv'
<1> USE DEF execVars, queueVars, gpuVars, chainVars
<1>1. ASSUME UNCHANGED <<inFlight, chain, currentRecordQueue, lastSignalValue>>,
             \A f \in Executor :
                 /\ waitSemaphores[f] \subseteq waitSemaphores'[f]
                 /\ pc'[f] # "submitted" => pc[f] # "submitted"
                 /\ pc'[f] # "submit" => pc[f] # "submit"
                 /\ InChain(f)' => InChain(f)
                 /\ Publishing(f)' <=> Publishing(f)
      PROVE  OrderInv'
  <2>1. \A f \in Executor : TailWait(f)' = TailWait(f)
    BY <1>1 DEF TailWait
  <2> QED
    BY <1>1, <2>1, OrderCalm
<1>2. ASSUME NEW e \in Executor, Call(e)
      PROVE  OrderInv'
  <2> USE DEF InChain, Publishing, IsGraphics, TypeOK
  <2>1. ASSUME NEW r \in Resource, AddCopy(e, r)
        PROVE  OrderInv'
    BY <1>1, <2>1 DEF AddCopy
  <2>2. ASSUME NEW kind \in Kind, NEW r \in Resource \cup {None}, AddPipeline(e, kind, r)
        PROVE  OrderInv'
    BY <1>1, <2>2 DEF AddPipeline
  <2>3. ASSUME NEW other \in Executor, WaitFor(e, other)
        PROVE  OrderInv'
    BY <1>1, <2>3 DEF WaitFor
  <2>4. CASE CommitEmpty(e)
    BY <2>4, OrderCommitEmpty
  <2>5. CASE BeginCommit(e)
    BY <1>1, <2>5 DEF BeginCommit
  <2>6. CASE CleanupDeferred(e) \/ WaitForDeferred(e)
    BY <1>1, <2>6 DEF CleanupDeferred, WaitForDeferred
  <2>7. CASE Destroy(e)
    BY <1>1, <2>7 DEF Destroy, DropAll
  <2> QED
    BY <1>2, <2>1, <2>2, <2>3, <2>4, <2>5, <2>6, <2>7 DEF Call
<1>3. ASSUME NEW e \in Executor, NEW q \in Queue, Pick(e, q)
      PROVE  OrderInv'
  BY <1>1, <1>3 DEF Pick, InChain, Publishing, IsGraphics, TypeOK
<1>4. ASSUME NEW e \in Executor, DrainInPick(e)
      PROVE  OrderInv'
  BY <1>1, <1>4 DEF DrainInPick, InChain, Publishing, IsGraphics, TypeOK
<1>5. ASSUME NEW e \in Executor, Record(e)
      PROVE  OrderInv'
  <2>1. /\ \A f \in Executor : waitSemaphores[f] \subseteq waitSemaphores'[f]
        /\ pc[e] = "record" /\ pc' = [pc EXCEPT ![e] = "submit"]
        /\ currentRecordQueue' = [currentRecordQueue EXCEPT ![e] = picked[e]]
        /\ UNCHANGED <<inFlight, chain, commandList, lastSignalValue>>
    BY <1>5 DEF Record, Allocate, TypeOK
  <2>2. \A f \in Executor :
            /\ pc'[f] # "submitted" => pc[f] # "submitted"
            /\ InChain(f)' => InChain(f)
            /\ Publishing(f)' <=> Publishing(f)
    BY <2>1 DEF InChain, Publishing, IsGraphics, TypeOK
  <2>3. \A f \in Executor :
            pc'[f] # "submit" => pc[f] # "submit" /\ TailWait(f)' = TailWait(f)
    BY <2>1 DEF TailWait, TypeOK
  <2> QED
    BY <2>1, <2>2, <2>3, OrderCalm
<1>6. ASSUME NEW d \in Destroyer, DestroyBuffer(d)
      PROVE  OrderInv'
  <2>1. UNCHANGED <<pc, commandList, waitSemaphores, inFlight, chain,
                    currentRecordQueue, lastSignalValue>>
    BY <1>6 DEF DestroyBuffer, StartDestroyBuffer, FinishDestroyBuffer
  <2> QED
    BY <1>1, <2>1 DEF InChain, Publishing, IsGraphics
<1>7. CASE UNCHANGED vars
  BY <1>1, <1>7 DEF vars, InChain, Publishing, IsGraphics
<1> QED
  BY <1>2, <1>3, <1>4, <1>5, <1>6, <1>7, OrderLockChain, OrderSubmit, OrderFinish,
     OrderComplete
  DEF Normal, CommitStep, GpuStep

-----------------------------------------------------------------------------
\* What the deferred release keeps.

LEMMA HoldInit == Init => HoldInv
BY DEF Init, HoldInv

\* A sweep of reached entries takes nothing a submission in flight is bound to.
LEMMA SweepKeeps ==
    ASSUME TypeOK, TimelineInv, HoldInv, NEW e \in Executor, NEW j \in inFlight,
           NEW r \in j.uses, j.owner = e
    PROVE  [resource |-> r, queue |-> j.queue, value |-> j.signal]
               \in deferredReleaseQueue[e] \ Completed(e)
BY DEF HoldInv, Completed, TimelineInv, TypeOK, Job

LEMMA HoldStep ==
    ASSUME TypeOK, MutexInv, TimelineInv, CoverInv, HoldInv, [Normal]_vars
    PROVE  HoldInv'
<1> USE DEF execVars, queueVars, gpuVars, chainVars
<1>1. ASSUME UNCHANGED <<inFlight, deferredReleaseQueue, commandList, pendingResources,
                         localPendingResources>>,
             \A f \in Executor : pc'[f] = pc[f] \/
                 {pc[f], pc'[f]} \subseteq {"idle", "chain", "pick", "drain", "record"}
      PROVE  HoldInv'
  BY <1>1 DEF HoldInv, TypeOK, Job
\* Steps that only sweep.
<1>2. ASSUME NEW e \in Executor,
             UNCHANGED <<inFlight, commandList, localPendingResources>>,
             deferredReleaseQueue' = [deferredReleaseQueue EXCEPT ![e] = @ \ Completed(e)]
      PROVE  \A j \in inFlight' : \A r \in j.uses :
                 [resource |-> r, queue |-> j.queue, value |-> j.signal]
                     \in deferredReleaseQueue'[j.owner]
  <2> SUFFICES ASSUME NEW j \in inFlight, NEW r \in j.uses
               PROVE  [resource |-> r, queue |-> j.queue, value |-> j.signal]
                          \in deferredReleaseQueue'[j.owner]
    BY <1>2
  <2>1. j.owner \in Executor
    BY DEF TypeOK, Job
  <2>2. CASE j.owner = e
    BY <1>2, <2>2, SweepKeeps DEF TypeOK
  <2>3. CASE j.owner # e
    BY <1>2, <2>1, <2>3 DEF HoldInv, TypeOK
  <2> QED
    BY <2>2, <2>3
<1>3. ASSUME NEW e \in Executor, CleanupDeferred(e) \/ WaitForDeferred(e) \/ Destroy(e)
      PROVE  HoldInv'
  <2>1. /\ UNCHANGED <<inFlight, commandList, localPendingResources>>
        /\ deferredReleaseQueue' = [deferredReleaseQueue EXCEPT ![e] = @ \ Completed(e)]
        /\ \/ UNCHANGED <<pc, pendingResources>>
           \/ /\ pc' = [pc EXCEPT ![e] = "gone"]
              /\ pendingResources' = [pendingResources EXCEPT ![e] = {}]
    BY <1>3 DEF CleanupDeferred, WaitForDeferred, Destroy, DropAll, TypeOK
  <2>2. \A j \in inFlight' : \A r \in j.uses :
            [resource |-> r, queue |-> j.queue, value |-> j.signal]
                \in deferredReleaseQueue'[j.owner]
    BY <1>2, <2>1
  <2>3. CASE UNCHANGED <<pc, pendingResources>>
    BY <2>1, <2>2, <2>3 DEF HoldInv
  <2>4. CASE /\ pc' = [pc EXCEPT ![e] = "gone"]
             /\ pendingResources' = [pendingResources EXCEPT ![e] = {}]
    BY <2>1, <2>2, <2>4 DEF HoldInv, TypeOK
  <2> QED
    BY <2>1, <2>3, <2>4
<1>4. ASSUME NEW e \in Executor, NEW r \in Resource, AddCopy(e, r)
      PROVE  HoldInv'
  BY <1>4 DEF AddCopy, HoldInv, TypeOK, Job
<1>5. ASSUME NEW e \in Executor, NEW kind \in Kind, NEW r \in Resource \cup {None},
             AddPipeline(e, kind, r)
      PROVE  HoldInv'
  BY <1>5 DEF AddPipeline, HoldInv, TypeOK, Job
<1>6. ASSUME NEW e \in Executor,
             CommitEmpty(e) \/ BeginCommit(e) \/ LockChain(e) \/ DrainInPick(e)
      PROVE  HoldInv'
  BY <1>1, <1>6 DEF CommitEmpty, BeginCommit, LockChain, DrainInPick, TypeOK
<1>7. ASSUME NEW e \in Executor, NEW other \in Executor, WaitFor(e, other)
      PROVE  HoldInv'
  BY <1>1, <1>7 DEF WaitFor
<1>8. ASSUME NEW e \in Executor, NEW q \in Queue, Pick(e, q)
      PROVE  HoldInv'
  <2>1. /\ UNCHANGED <<inFlight, commandList, localPendingResources, pendingResources>>
        /\ deferredReleaseQueue' = [deferredReleaseQueue EXCEPT ![e] = @ \ Completed(e)]
        /\ pc[e] = "pick"
        /\ \E p \in {"record", "drain"} : pc' = [pc EXCEPT ![e] = p]
    BY <1>8 DEF Pick
  <2> QED
    BY <1>2, <2>1 DEF HoldInv, TypeOK
<1>9. ASSUME NEW e \in Executor, Record(e)
      PROVE  HoldInv'
  <2>1. /\ UNCHANGED <<inFlight, deferredReleaseQueue, commandList>>
        /\ pc[e] = "record" /\ pc' = [pc EXCEPT ![e] = "submit"]
        /\ localPendingResources' = [localPendingResources EXCEPT ![e] = pendingResources[e]]
        /\ pendingResources' =
               [pendingResources EXCEPT ![e] = HeldByRecording(commandList[e])]
    BY <1>9 DEF Record
  <2>2. \A c \in commandList[e] :
            c.holds # None => c.holds \in pendingResources[e] \cup HeldByRecording(commandList[e])
    BY <2>1 DEF HoldInv, HeldByRecording
  <2> QED
    BY <2>1, <2>2 DEF HoldInv, TypeOK
<1>10. ASSUME NEW e \in Executor, Submit(e)
       PROVE  HoldInv'
  <2> DEFINE held == localPendingResources[e] \cup pendingResources[e]
  <2>1. /\ NewJob(e).queue = picked[e] /\ NewJob(e).signal = timelineValue[picked[e]]
        /\ NewJob(e).owner = e /\ NewJob(e).uses \subseteq held
    BY <1>10, NewJobType DEF Submit, NewJob, HoldInv
  <2>2. /\ inFlight' = inFlight \cup {NewJob(e)} /\ UNCHANGED commandList
        /\ pc' = [pc EXCEPT ![e] = "submitted"]
        /\ deferredReleaseQueue' = [deferredReleaseQueue EXCEPT ![e] =
               @ \cup Bind(held, picked[e], timelineValue[picked[e]])]
        /\ localPendingResources' = [localPendingResources EXCEPT ![e] = {}]
        /\ pendingResources' = [pendingResources EXCEPT ![e] = {}]
    BY <1>10 DEF Submit
  <2>3. ASSUME NEW j \in inFlight', NEW r \in j.uses
        PROVE  [resource |-> r, queue |-> j.queue, value |-> j.signal]
                   \in deferredReleaseQueue'[j.owner]
    <3>1. CASE j = NewJob(e)
      BY <2>1, <2>2, <2>3, <3>1 DEF Bind, TypeOK
    <3>2. CASE j \in inFlight
      <4>1. j.owner \in Executor
        BY <3>2 DEF TypeOK, Job
      <4>2. deferredReleaseQueue[j.owner] \subseteq deferredReleaseQueue'[j.owner]
        BY <2>2, <4>1 DEF TypeOK
      <4> QED
        BY <2>3, <3>2, <4>2 DEF HoldInv
    <3> QED
      BY <2>2, <3>1, <3>2
  <2> QED
    BY <2>2, <2>3 DEF HoldInv, TypeOK
<1>11. ASSUME NEW e \in Executor, Finish(e)
       PROVE  HoldInv'
  BY <1>11 DEF Finish, HoldInv, TypeOK
<1>12. ASSUME GpuStep
       PROVE  HoldInv'
  BY <1>12 DEF GpuStep, Complete, HoldInv
<1>13. ASSUME NEW d \in Destroyer, DestroyBuffer(d)
       PROVE  HoldInv'
  BY <1>1, <1>13 DEF DestroyBuffer, StartDestroyBuffer, FinishDestroyBuffer
<1>14. CASE UNCHANGED vars
  BY <1>1, <1>14 DEF vars
<1> QED
  BY <1>3, <1>4, <1>5, <1>6, <1>7, <1>8, <1>9, <1>10, <1>11, <1>12, <1>13, <1>14
  DEF Normal, Call, CommitStep

-----------------------------------------------------------------------------
\* The invariant, and the properties of the specification.

ExtendedInv == IndInv /\ ChainInv /\ OrderInv /\ HoldInv

LEMMA ExtendedStep ==
    ASSUME ExtendedInv, [Normal]_vars
    PROVE  ExtendedInv'
<1>1. TypeOK /\ MutexInv /\ TimelineInv /\ StampInv /\ CoverInv
      /\ ChainInv /\ OrderInv /\ HoldInv
  BY DEF ExtendedInv, IndInv
<1> QED
  BY <1>1, IndInvStep, ChainStep, OrderStep, HoldStep DEF ExtendedInv

\* The chain mutex, the waits and the keep-alive objects agree with the work in
\* flight in every reachable state of a fault-free run.
THEOREM OrderInvariance == Spec => []ExtendedInv
<1>1. Init => ExtendedInv
  BY IndInvInit, ChainInit, OrderInit, HoldInit DEF ExtendedInv
<1> QED
  BY <1>1, ExtendedStep, PTL DEF Spec

\* An object a submitted command reads through is in the deferred release queue of
\* its executor, under a point not reached, until the GPU is done.
THEOREM ObjectsOutliveTheirUse == Spec => []HeldWhileInFlight
<1>1. ExtendedInv => HeldWhileInFlight
  <2> SUFFICES ASSUME ExtendedInv, NEW j \in inFlight, NEW r \in j.uses
               PROVE  \E d \in deferredReleaseQueue[j.owner] :
                          d.resource = r /\ ~Reached([queue |-> d.queue, value |-> d.value])
    BY DEF HeldWhileInFlight
  <2> DEFINE d == [resource |-> r, queue |-> j.queue, value |-> j.signal]
  <2>1. d \in deferredReleaseQueue[j.owner]
    BY DEF ExtendedInv, HoldInv
  <2>2. j.signal = counter[j.queue] + 1 /\ counter[j.queue] \in Nat
    BY DEF ExtendedInv, IndInv, TimelineInv, TypeOK, Job
  <2>3. ~Reached([queue |-> d.queue, value |-> d.value])
    BY <2>2 DEF Reached
  <2> QED
    BY <2>1, <2>3
<1> QED
  BY <1>1, OrderInvariance, PTL

\* Whoever waits for the point wait(other) takes waits for everything that
\* executor has submitted, on all its queues.
THEOREM TailWaitsCover == Spec => []TailCovers
<1>1. ExtendedInv => TailCovers
  <2> SUFFICES ASSUME ExtendedInv, NEW e \in Executor, pc[e] = "idle",
                      \A w \in TailWait(e) : Reached(w),
                      NEW j \in inFlight, j.owner = e
               PROVE  FALSE
    BY DEF TailCovers
  <2>1. j \in Of(e) /\ Guards(TailWait(e), Of(e))
    BY DEF ExtendedInv, OrderInv, Of
  <2>2. PICK m \in inFlight :
            \E w \in TailWait(e) : w.queue = m.queue /\ w.value >= m.signal
    BY <2>1 DEF Guards, Of
  <2>3. PICK w \in TailWait(e) : w.queue = m.queue /\ w.value >= m.signal
    BY <2>2
  <2>4. /\ m.signal = counter[m.queue] + 1 /\ counter[m.queue] \in Nat
        /\ w.value \in Nat
    BY DEF ExtendedInv, IndInv, TimelineInv, TypeOK, Job, TailWait
  <2>5. counter[m.queue] >= w.value
    BY <2>3 DEF Reached
  <2> QED
    BY <2>3, <2>4, <2>5
<1> QED
  BY <1>1, OrderInvariance, PTL

-----------------------------------------------------------------------------
\* The refinement of SubmissionOrder, its safety part.

Executing == {Abstracted(j) : j \in inFlight}

LEMMA SubmitAccepts ==
    ASSUME ExtendedInv, NEW e \in Executor, Submit(e)
    PROVE  \E kind \in Kind : Order!Accept(e, kind)
<1>1. /\ NewJob(e).owner = e /\ NewJob(e).kind = QueueType(commandList[e])
      /\ NewJob(e).stamp = issued
  BY DEF NewJob
<1>2. /\ Executing' = Executing \cup {Abstracted(NewJob(e))}
      /\ issued' = issued + 1
  BY DEF Submit, Executing
<1>3. QueueType(commandList[e]) \in Kind
  BY QueueTypeIsKind
<1> QED
  BY <1>1, <1>2, <1>3 DEF Order!Accept, Executing, Abstracted

LEMMA CompleteExecutes ==
    ASSUME ExtendedInv, NEW c \in inFlight, Complete(c)
    PROVE  Order!ExecuteSome
<1>1. /\ Before(Of(c.owner), c) = {}
      /\ c.kind = "Graphics" => Before(Drawn, c) = {}
  BY OldestCompletes DEF ExtendedInv, IndInv
<1>2. \A j \in inFlight : Order!Ordered(Abstracted(c), Abstracted(j)) => c.stamp <= j.stamp
  BY <1>1 DEF Order!Ordered, Abstracted, Before, Of, Drawn, ExtendedInv, IndInv, TypeOK, Job
<1>3. \A j \in inFlight : Abstracted(j) = Abstracted(c) => j = c
  BY DEF Abstracted, ExtendedInv, IndInv, StampInv
<1>4. Executing' = Executing \ {Abstracted(c)} /\ issued' = issued
  BY <1>3 DEF Complete, Executing
<1>5. \A k \in Executing : Order!Ordered(Abstracted(c), k) => Abstracted(c).stamp <= k.stamp
  BY <1>2 DEF Executing, Abstracted
<1> QED
  BY <1>4, <1>5 DEF Order!ExecuteSome, Order!Execute, Executing

\* Whatever queues they go to, the submissions of one executor and the graphics
\* submissions of the device complete in the order they were made.
THEOREM SubmissionsInOrder == Spec => Order!InOrder
<1>1. Init => Order!OrderInit
  BY DEF Init, Order!OrderInit
<1>2. ExtendedInv /\ [Normal]_vars => [Order!OrderNext]_(Order!orderVars)
  <2> SUFFICES ASSUME ExtendedInv, [Normal]_vars
               PROVE  [Order!OrderNext]_(Order!orderVars)
    OBVIOUS
  <2> USE DEF execVars, queueVars, gpuVars, chainVars
  <2>1. CASE UNCHANGED <<inFlight, issued>>
    BY <2>1 DEF Order!orderVars
  <2>2. ASSUME NEW e \in Executor, Submit(e)
        PROVE  Order!OrderNext
    BY <2>2, SubmitAccepts DEF Order!OrderNext
  <2>3. ASSUME NEW c \in inFlight, Complete(c)
        PROVE  Order!OrderNext
    BY <2>3, CompleteExecutes DEF Order!OrderNext
  <2>4. ASSUME NEW e \in Executor, Call(e)
        PROVE  UNCHANGED <<inFlight, issued>>
    BY <2>4 DEF Call, AddCopy, AddPipeline, WaitFor, CommitEmpty, BeginCommit,
       CleanupDeferred, WaitForDeferred, Destroy, DropAll
  <2>5. ASSUME NEW e \in Executor, CommitStep(e), ~Submit(e)
        PROVE  UNCHANGED <<inFlight, issued>>
    BY <2>5 DEF CommitStep, LockChain, Pick, DrainInPick, Record, Finish
  <2>6. ASSUME NEW d \in Destroyer, DestroyBuffer(d)
        PROVE  UNCHANGED <<inFlight, issued>>
    BY <2>6 DEF DestroyBuffer, StartDestroyBuffer, FinishDestroyBuffer
  <2>7. UNCHANGED vars => UNCHANGED <<inFlight, issued>>
    BY DEF vars
  <2> QED
    BY <2>1, <2>2, <2>3, <2>4, <2>5, <2>6, <2>7 DEF Normal, GpuStep
<1> QED
  BY <1>1, <1>2, OrderInvariance, PTL DEF Spec, Order!InOrder
=============================================================================
