----------------------------- MODULE HandlePool -----------------------------
(***************************************************************************)
(* The reference-counted handle objects of the wrapper: HardwareBuffer,    *)
(* HardwareImage, HardwarePushConstant, HardwareDisplayer, HardwareExecutor*)
(* and the two pipeline bases all keep an atomic id of a slot of a global  *)
(* Storage, whose entry holds the Vulkan object and a refCount.  Copying,  *)
(* moving and destroying handles follow one protocol: the handle's own     *)
(* mutex (a destructor takes none), then the slot's lock, two slots in id  *)
(* order, and deallocate once no lock is held.                             *)
(*                                                                         *)
(* The Storage (allocate, acquire_write, deallocate) is external: a slot   *)
(* has one exclusive lock that is not recursive, and an allocated entry    *)
(* starts with refCount 1.  As C++ requires, a handle is constructed and   *)
(* destroyed by one thread while no other thread uses it.                  *)
(***************************************************************************)
EXTENDS Integers, FiniteSets

CONSTANTS
    Thread,
    Handle,         \* the C++ handle objects
    SlotCount,      \* entries the storage may hold; 0 is the null id
    None,           \* an unlocked mutex
    MaxOps          \* bound: operations begun

ASSUME SlotAssumption == SlotCount \in Nat /\ MaxOps \in Nat
ASSUME NoneAssumption == None \notin Thread \cup Handle
ASSUME HandleAssumption == IsFiniteSet(Handle)

VARIABLES
    live,           \* the handle objects whose lifetime has begun
    id,             \* handle -> slot, 0 for none
    allocated,      \* the slots the storage has given out
    present,        \* slots whose Vulkan object exists
    refCount,
    slotLock,       \* slot -> thread that holds its write handle
    mutex,          \* handle -> thread that holds its mutex
    pc, op,         \* the operation each thread is in
    begun

objVars  == <<live, id>>
poolVars == <<allocated, present, refCount>>
lockVars == <<slotLock, mutex>>
vars     == <<objVars, poolVars, lockVars, pc, op, begun>>

Slot == 1..SlotCount

OpKind == {"create", "copy", "destroy", "copyAssign", "moveAssign"}

\* self and other are the operands, sid and oid the ids read when both were locked.
Op == [kind : OpKind, self : Handle, other : Handle \cup {None}, sid : Slot \cup {0},
       oid : Slot \cup {0}]

PcState == {"idle", "init", "inc", "dec", "first", "second", "free", "store"}

-----------------------------------------------------------------------------
\* Helpers.

Start(t, kind, self, other, next) ==
    /\ pc' = [pc EXCEPT ![t] = next]
    /\ op' = [op EXCEPT ![t] = [kind |-> kind, self |-> self, other |-> other,
                                sid |-> id[self], oid |-> IF other = None THEN 0
                                                          ELSE id[other]]]

GoTo(t, next) == pc' = [pc EXCEPT ![t] = next]

Done(t) ==
    /\ pc' = [pc EXCEPT ![t] = "idle"]
    /\ op' = [op EXCEPT ![t] = None]

Involved(h) == \E t \in Thread : pc[t] # "idle" /\ h \in {op[t].self, op[t].other}

\* Constructed, and neither being constructed nor destroyed by some thread.
Usable(h) ==
    /\ h \in live
    /\ \A t \in Thread : pc[t] # "idle" /\ op[t].self = h
                            => op[t].kind \in {"copyAssign", "moveAssign"}

\* Mutants: drops the object with one reference left; never drops it.
LastButOne(n) == n <= 1
NeverLast(n) == FALSE

\* The decrement helpers destroy the Vulkan object on the last reference.
LastReference(n) == n = 0

\* Mutant: locks the assigned handle's slot first.
SelfFirst(sid, oid) == sid

\* operator= locks the two slots in the order of their ids.
FirstSlot(sid, oid) == IF sid < oid THEN sid ELSE oid

SecondSlot(sid, oid) == IF FirstSlot(sid, oid) = sid THEN oid ELSE sid

\* copy operator= returns at once when there is nothing to do.
AssignNeeded(s, o) == s # o

Decrement(s) ==
    /\ refCount' = [refCount EXCEPT ![s] = @ - 1]
    /\ present' = IF LastReference(refCount[s] - 1) THEN present \ {s} ELSE present

\* What the handle names when its operation ends, and the moved-from handle.
FinalId(o) == IF o.kind \in {"copyAssign", "moveAssign"} THEN o.oid ELSE 0

\* Mutant: the source of a move keeps its id.
MovedKept(o) == o.oid

MovedFrom(o) == 0

-----------------------------------------------------------------------------
\* Some handles already exist and share slots.
Init ==
    /\ id \in [Handle -> Slot \cup {0}]
    /\ live = {h \in Handle : id[h] # 0}
    /\ allocated = {id[h] : h \in live}
    /\ present = allocated
    /\ refCount = [s \in Slot |-> Cardinality({h \in Handle : id[h] = s})]
    /\ slotLock = [s \in Slot |-> None]
    /\ mutex = [h \in Handle |-> None]
    /\ pc = [t \in Thread |-> "idle"]
    /\ op = [t \in Thread |-> None]
    /\ begun = 0

Begin(t) == pc[t] = "idle" /\ begun < MaxOps /\ begun' = begun + 1

-----------------------------------------------------------------------------
\* Constructors.

\* The sizing constructors: allocate a slot, store its id, then fill the entry.
Create(t, h, s) ==
    /\ Begin(t)
    /\ h \notin live /\ ~Involved(h)
    /\ s \in Slot \ allocated
    /\ allocated' = allocated \cup {s}
    /\ refCount' = [refCount EXCEPT ![s] = 1]
    /\ id' = [id EXCEPT ![h] = s]
    /\ live' = live \cup {h}
    /\ Start(t, "create", h, None, "init")
    /\ UNCHANGED <<present, lockVars>>

InitSlot(t) ==
    LET s == id[op[t].self]
    IN  /\ pc[t] = "init"
        /\ slotLock[s] = None
        /\ present' = present \cup {s}
        /\ Done(t)
        /\ UNCHANGED <<objVars, allocated, refCount, lockVars, begun>>

\* The copy constructor holds the source's mutex; the id is stored before the
\* reference is counted.
CopyConstruct(t, h, o) ==
    /\ Begin(t)
    /\ h \notin live /\ ~Involved(h) /\ Usable(o)
    /\ mutex[o] = None
    /\ live' = live \cup {h}
    /\ id' = [id EXCEPT ![h] = id[o]]
    /\ \/ /\ id[o] = 0
          /\ UNCHANGED <<mutex, pc, op>>
       \/ /\ id[o] # 0
          /\ mutex' = [mutex EXCEPT ![o] = t]
          /\ Start(t, "copy", h, o, "inc")
    /\ UNCHANGED <<poolVars, slotLock>>

\* The move constructor only swaps ids, under the source's mutex.
MoveConstruct(t, h, o) ==
    /\ Begin(t)
    /\ h \notin live /\ ~Involved(h) /\ Usable(o)
    /\ mutex[o] = None
    /\ live' = live \cup {h}
    /\ id' = [id EXCEPT ![h] = id[o], ![o] = 0]
    /\ UNCHANGED <<poolVars, lockVars, pc, op>>

-----------------------------------------------------------------------------
\* The destructor, which takes no handle mutex, and the assignments.

Destruct(t, h) ==
    /\ Begin(t)
    /\ h \in live /\ ~Involved(h)
    /\ \/ /\ id[h] = 0
          /\ live' = live \ {h}
          /\ UNCHANGED <<pc, op>>
       \/ /\ id[h] # 0
          /\ Start(t, "destroy", h, None, "dec")
          /\ UNCHANGED live
    /\ UNCHANGED <<id, poolVars, lockVars>>

LockBoth(t, h, o) ==
    /\ Begin(t)
    /\ h # o /\ Usable(h) /\ Usable(o)
    /\ mutex[h] = None /\ mutex[o] = None
    /\ mutex' = [mutex EXCEPT ![h] = t, ![o] = t]

\* The branches of copy operator=: drop what self had, count what it gets, or
\* both with the two slots locked.
CopyAssign(t, h, o) ==
    /\ AssignNeeded(id[h], id[o])
    /\ LockBoth(t, h, o)
    /\ \/ /\ id[o] = 0
          /\ Start(t, "copyAssign", h, o, "dec")
          /\ UNCHANGED id
       \/ /\ id[h] = 0 /\ id[o] # 0
          /\ id' = [id EXCEPT ![h] = id[o]]
          /\ Start(t, "copyAssign", h, o, "inc")
       \/ /\ id[h] # 0 /\ id[o] # 0
          /\ Start(t, "copyAssign", h, o, "first")
          /\ UNCHANGED id
    /\ UNCHANGED <<live, poolVars, slotLock>>

\* Move operator= drops its own reference even if both name the same slot.
MoveAssign(t, h, o) ==
    /\ LockBoth(t, h, o)
    /\ Start(t, "moveAssign", h, o, IF id[h] = 0 THEN "store" ELSE "dec")
    /\ UNCHANGED <<objVars, poolVars, slotLock>>

-----------------------------------------------------------------------------
\* The steps of an operation.  A step that takes one slot's lock and releases it
\* before it blocks again is one action.

Unlocked(t) == [h \in Handle |-> IF mutex[h] = t THEN None ELSE mutex[h]]

Increment(t) ==
    LET s == op[t].oid
    IN  /\ pc[t] = "inc"
        /\ slotLock[s] = None
        /\ refCount' = [refCount EXCEPT ![s] = @ + 1]
        /\ mutex' = Unlocked(t)
        /\ Done(t)
        /\ UNCHANGED <<objVars, allocated, present, slotLock, begun>>

Drop(t) ==
    LET s == op[t].sid
    IN  /\ pc[t] = "dec"
        /\ slotLock[s] = None
        /\ Decrement(s)
        /\ GoTo(t, IF LastReference(refCount[s] - 1) THEN "free" ELSE "store")
        /\ UNCHANGED <<objVars, allocated, lockVars, op, begun>>

LockFirst(t) ==
    LET s == FirstSlot(op[t].sid, op[t].oid)
    IN  /\ pc[t] = "first"
        /\ slotLock[s] = None
        /\ slotLock' = [slotLock EXCEPT ![s] = t]
        /\ GoTo(t, "second")
        /\ UNCHANGED <<objVars, poolVars, mutex, op, begun>>

\* With both slots locked: count the new reference, drop the old one.
Exchange(t) ==
    LET s == op[t].sid
        o == op[t].oid
    IN  /\ pc[t] = "second"
        /\ slotLock[SecondSlot(s, o)] = None
        /\ refCount' = [refCount EXCEPT ![o] = @ + 1, ![s] = @ - 1]
        /\ present' = IF LastReference(refCount[s] - 1) THEN present \ {s} ELSE present
        /\ slotLock' = [slotLock EXCEPT ![FirstSlot(s, o)] = None]
        /\ GoTo(t, IF LastReference(refCount[s] - 1) THEN "free" ELSE "store")
        /\ UNCHANGED <<objVars, allocated, mutex, op, begun>>

\* deallocate, with no slot locked by this thread.
Deallocate(t) ==
    LET s == op[t].sid
    IN  /\ pc[t] = "free"
        /\ slotLock[s] = None
        /\ allocated' = allocated \ {s}
        /\ GoTo(t, "store")
        /\ UNCHANGED <<objVars, present, refCount, lockVars, op, begun>>

\* The last stores, and the end of the lifetime or of the handle locks.
Return(t) ==
    LET o == op[t]
    IN  /\ pc[t] = "store"
        /\ id' = IF o.kind = "moveAssign"
                 THEN [id EXCEPT ![o.self] = FinalId(o), ![o.other] = MovedFrom(o)]
                 ELSE [id EXCEPT ![o.self] = FinalId(o)]
        /\ live' = IF o.kind = "destroy" THEN live \ {o.self} ELSE live
        /\ mutex' = Unlocked(t)
        /\ Done(t)
        /\ UNCHANGED <<poolVars, slotLock, begun>>

-----------------------------------------------------------------------------
BeginOp(t) ==
    \E h \in Handle :
        \/ \E s \in Slot : Create(t, h, s)
        \/ \E o \in Handle : \/ CopyConstruct(t, h, o) \/ MoveConstruct(t, h, o)
                             \/ CopyAssign(t, h, o) \/ MoveAssign(t, h, o)
        \/ Destruct(t, h)

Step(t) ==
    \/ InitSlot(t) \/ Increment(t) \/ Drop(t) \/ LockFirst(t) \/ Exchange(t)
    \/ Deallocate(t) \/ Return(t)

Next == \E t \in Thread : BeginOp(t) \/ Step(t)

Spec == Init /\ [][Next]_vars

\* A thread inside an operation keeps running.
FairSpec == Spec /\ \A t \in Thread : WF_vars(Step(t))

-----------------------------------------------------------------------------
\* Properties.

\* Every variable has its type: the handle classes' fields and the wraps of
\* ResourcePool.h.
TypeOK ==
    /\ live \in SUBSET Handle
    /\ id \in [Handle -> Slot \cup {0}]
    /\ allocated \in SUBSET Slot /\ present \in SUBSET Slot
    /\ refCount \in [Slot -> Nat]
    /\ slotLock \in [Slot -> Thread \cup {None}]
    /\ mutex \in [Handle -> Thread \cup {None}]
    /\ pc \in [Thread -> PcState]
    /\ op \in [Thread -> Op \cup {None}]
    /\ begun \in Nat

\* The slot whose count includes this handle: its id, except while an operation
\* has changed one of the two and not yet the other.
Counted(h) ==
    IF \E t \in Thread : pc[t] = "inc" /\ op[t].self = h THEN 0
    ELSE IF \E t \in Thread : pc[t] \in {"free", "store"} /\ op[t].self = h
         THEN LET t == CHOOSE u \in Thread : pc[u] \in {"free", "store"} /\ op[u].self = h
              IN  IF op[t].kind = "copyAssign" THEN op[t].oid ELSE 0
         ELSE id[h]

\* A slot's refCount is the number of handles it has been counted for, in every
\* interleaving of copies, moves, assignments and destructions.
RefCountExact ==
    \A s \in Slot :
        IF s \in allocated
        THEN refCount[s] = Cardinality({h \in live : Counted(h) = s})
        ELSE \A h \in live : Counted(h) # s

\* A handle no operation is changing names an allocated slot whose object exists:
\* nobody destroys or deallocates what another handle still names.
HandlesValid ==
    \A h \in live : ~Involved(h) /\ id[h] # 0 => id[h] \in allocated \cap present

\* Once every thread is done, a slot that no handle names is back in the storage
\* and its object destroyed.
NoLeak ==
    (\A t \in Thread : pc[t] = "idle")
        => \A s \in allocated \cup present : \E h \in live : id[h] = s

\* Every operation returns: handle mutexes and slot locks never form a cycle (the
\* note in ~HardwareBuffer and the id order in operator=).
OperationReturns == \A t \in Thread : pc[t] # "idle" ~> pc[t] = "idle"
=============================================================================
