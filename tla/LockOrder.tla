----------------------------- MODULE LockOrder ------------------------------
(***************************************************************************)
(* The locks a call of the wrapper holds at the same time: the slots of    *)
(* the executor, displayer, pipeline, buffer, image and push constant      *)
(* storages, the mutexes of the device queues and the mutex of the graphics*)
(* submit chain.  A call takes its locks one after the other, keeps them   *)
(* while its body runs and releases them all.  Where the body takes and    *)
(* releases several locks in turn (the images a command records, the       *)
(* handles a sweep drops), the call chooses one of them: only the locks    *)
(* held while waiting for another matter here.                             *)
(*                                                                         *)
(* The slot locks belong to Storage, which is external: acquire_write is   *)
(* exclusive, acquire_read is shared, neither is recursive.  The two slots *)
(* an operator= locks are in HandlePool.                                   *)
(***************************************************************************)
EXTENDS Integers, Sequences

CONSTANTS
    Caller,         \* the threads that call the wrapper
    MaxId,          \* the largest id a storage gives out
    Slot,           \* ids of the slots in use in each storage
    DeviceQueue,    \* device queues, numbered; each pool of the device is this set
    Unordered       \* the calls that follow no order of the locks, see AllSpec

ASSUME LockAssumption ==
    /\ MaxId \in Nat /\ Slot \subseteq 0..MaxId
    /\ DeviceQueue \subseteq 0..MaxId /\ DeviceQueue # {}
    /\ Unordered \subseteq {"imageToBuffer", "copyWithin", "displayRemote",
                            "assignPushConstant"}

VARIABLES
    held,           \* thread -> the locks it holds, each with its mode
    todo            \* thread -> the requests its call has still to make

lockVars == <<held, todo>>

Class == {"executor", "displayer", "pipeline", "chain", "queue", "buffer", "image",
          "pushConstant"}

\* Locked last, by bodies that wait for nothing more.
Leaf == {"buffer", "image", "pushConstant"}

Lock == [class : Class, id : 0..MaxId]

Mode == {"read", "write"}

\* A lock held in a mode; a request is for any one of a set of locks.
Grant == [lock : Lock, mode : Mode]

Request == [locks : SUBSET Lock, mode : Mode]

-----------------------------------------------------------------------------
\* Requests, as sequences of one or two.

AnyOf(class, ids, mode) == <<[locks |-> [class : {class}, id : ids], mode |-> mode]>>

Write(class, i) == AnyOf(class, {i}, "write")

Read(class, i) == AnyOf(class, {i}, "read")

\* Two slots of one storage, the smaller id first.
InIdOrder(class, src, dst) ==
    IF src < dst THEN Write(class, src) \o Write(class, dst)
    ELSE Write(class, dst) \o Write(class, src)

\* Mutant: the executor that waits before the one waited for.
SelfFirst(e, other) == Write("executor", e) \o Read("executor", other)

\* HardwareExecutor::wait: self is written, other is read.
BothExecutors(e, other) ==
    IF e < other THEN Write("executor", e) \o Read("executor", other)
    ELSE Read("executor", other) \o Write("executor", e)

\* pickQueueAndCommit spins until it can lock some queue of the pool.
PickQueue == AnyOf("queue", DeviceQueue, "write")

\* A graphics commit holds the chain mutex while it picks its queue.
ChainThenQueue == Write("chain", 0) \o PickQueue

-----------------------------------------------------------------------------
LockInit ==
    /\ held = [t \in Caller |-> {}]
    /\ todo = [t \in Caller |-> <<>>]

Idle(t) == todo[t] = <<>> /\ held[t] = {}

Begin(t, requests) ==
    /\ todo' = [todo EXCEPT ![t] = requests]
    /\ UNCHANGED held

-----------------------------------------------------------------------------
\* Calls whose locks follow one order.

\* executor << CopyCommand locks the executor's slot, then the slots of the two
\* resources of the command.
CopyBuffer(t) ==
    \E e, src, dst \in Slot :
        /\ src # dst
        /\ Begin(t, Write("executor", e) \o InIdOrder("buffer", src, dst))

CopyImage(t) ==
    \E e, src, dst \in Slot :
        /\ src # dst
        /\ Begin(t, Write("executor", e) \o InIdOrder("image", src, dst))

BufferToImage(t) ==
    \E e, src, dst \in Slot :
        Begin(t, Write("executor", e) \o Write("buffer", src) \o Write("image", dst))

\* executor << pipeline.
AddPipeline(t) ==
    \E e, p \in Slot : Begin(t, Write("executor", e) \o Read("pipeline", p))

ExecutorWait(t) ==
    \E e, other \in Slot : e # other /\ Begin(t, BothExecutors(e, other))

\* commit(): with the queue's mutex held, recording and the sweep of released
\* resources lock the slots of the objects they read or drop, one at a time.
Commit(t) ==
    \E e, r \in Slot, class \in Leaf, queues \in {PickQueue, ChainThenQueue} :
        Begin(t, Write("executor", e) \o queues \o Write(class, r))

\* displayer.wait(executor).
DisplayerWait(t) ==
    \E e, d \in Slot : Begin(t, Read("executor", e) \o Write("displayer", d))

\* displayer << image on the main device: the frame is blitted by a graphics
\* commit of the displayer's own executor, which no slot guards.
DisplayLocal(t) ==
    \E d \in Slot : Begin(t, Read("displayer", d) \o ChainThenQueue)

\* Binding a resource to a pipeline stores its descriptor, or copies a constant.
Bind(t) ==
    \E p, r \in Slot, class \in Leaf :
        Begin(t, Read("pipeline", p) \o Write(class, r))

\* The last reference to an executor or a pipeline destroys the object under its
\* slot's lock, and with it the handles the object keeps.
DropOwner(t) ==
    \E o, r \in Slot, owner \in {"executor", "pipeline"}, class \in Leaf :
        Begin(t, Write(owner, o) \o Write(class, r))

-----------------------------------------------------------------------------
\* Calls that break the order.

ImageToBuffer(t) ==
    \E e, src, dst \in Slot :
        Begin(t, Write("executor", e) \o Write("image", src) \o Write("buffer", dst))

\* A copy from a buffer or an image to itself.
CopyWithin(t) ==
    \E e, r \in Slot, class \in {"buffer", "image"} :
        Begin(t, Write("executor", e) \o InIdOrder(class, r, r))

\* displayer << image on another device: the image's slot stays locked while the
\* main device's executor commits the copy to the staging buffer.
DisplayRemote(t) ==
    \E d, i \in Slot : Begin(t, Read("displayer", d) \o Write("image", i) \o PickQueue)

\* HardwarePushConstant::operator= looks for a sub-range before it compares ids.
AssignPushConstant(t) ==
    \E self, other \in Slot :
        Begin(t, Write("pushConstant", self) \o Read("pushConstant", other))

-----------------------------------------------------------------------------
\* Taking and releasing.

Conflicts(g, lock, mode) == g.lock = lock /\ "write" \in {g.mode, mode}

Free(lock, mode) == \A u \in Caller : \A g \in held[u] : ~Conflicts(g, lock, mode)

Acquire(t) ==
    /\ todo[t] # <<>>
    /\ \E lock \in Head(todo[t]).locks :
          /\ Free(lock, Head(todo[t]).mode)
          /\ held' = [held EXCEPT ![t] = @ \cup {[lock |-> lock, mode |-> Head(todo[t]).mode]}]
    /\ todo' = [todo EXCEPT ![t] = Tail(@)]

Release(t) ==
    /\ todo[t] = <<>> /\ held[t] # {}
    /\ held' = [held EXCEPT ![t] = {}]
    /\ UNCHANGED todo

OrderedCall(t) ==
    /\ Idle(t)
    /\ \/ CopyBuffer(t) \/ CopyImage(t) \/ BufferToImage(t) \/ AddPipeline(t)
       \/ ExecutorWait(t) \/ Commit(t) \/ DisplayerWait(t) \/ DisplayLocal(t)
       \/ Bind(t) \/ DropOwner(t)

UnorderedCall(t) ==
    /\ Idle(t)
    /\ \/ "imageToBuffer" \in Unordered /\ ImageToBuffer(t)
       \/ "copyWithin" \in Unordered /\ CopyWithin(t)
       \/ "displayRemote" \in Unordered /\ DisplayRemote(t)
       \/ "assignPushConstant" \in Unordered /\ AssignPushConstant(t)

LockNext == \E t \in Caller : OrderedCall(t) \/ Acquire(t) \/ Release(t)

\* The calls that follow the order.
LockSpec == LockInit /\ [][LockNext]_lockVars

\* Every call, the chosen unordered ones included.
AllSpec == LockInit /\ [][LockNext \/ \E t \in Caller : UnorderedCall(t)]_lockVars

-----------------------------------------------------------------------------
\* Properties.

\* Every variable has its type: the slots, mutexes and modes of the calls above.
TypeOK ==
    /\ held \in [Caller -> SUBSET Grant]
    /\ todo \in [Caller -> Seq(Request)]

\* Every lock t could take next is held by a member of S in a conflicting mode.
BlockedWithin(t, S) ==
    /\ todo[t] # <<>>
    /\ \A lock \in Head(todo[t]).locks :
          \E u \in S : \E g \in held[u] : Conflicts(g, lock, Head(todo[t]).mode)

\* No set of threads waits only for its own members: no interleaving of calls
\* deadlocks, and no call waits for itself (the comments on lock order in
\* HardwareCommands.cpp, the id order in HardwareExecutor::wait).
NoDeadlock ==
    \A S \in SUBSET Caller : S # {} => \E t \in S : ~BlockedWithin(t, S)

ClassRank ==
    [c \in Class |-> CASE c = "executor" -> 1 [] c = "displayer" -> 2
                       [] c = "pipeline" -> 3 [] c = "chain" -> 4 [] c = "queue" -> 5
                       [] c = "buffer" -> 6 [] c = "image" -> 7
                       [] c = "pushConstant" -> 8]

Below(l, m) ==
    \/ ClassRank[l.class] < ClassRank[m.class]
    \/ l.class = m.class /\ l.id < m.id

\* Every lock a thread holds comes before every lock its call has still to take:
\* the one order behind NoDeadlock, which no comment of the code states.
OrderKept ==
    \A t \in Caller : \A g \in held[t] : \A i \in DOMAIN todo[t] :
        \A lock \in todo[t][i].locks : Below(g.lock, lock)
=============================================================================
