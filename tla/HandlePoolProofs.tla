-------------------------- MODULE HandlePoolProofs --------------------------
(***************************************************************************)
(* Proofs about HandlePool for any threads, any number of slots and any    *)
(* finite set of handle objects.  The counts are exact because no two      *)
(* operations ever touch the same handle (ExclusiveInv): the handle mutexes*)
(* see to it for copies and assignments, the C++ lifetime rules for        *)
(* constructors and destructors.  OpInv says what the ids read when the    *)
(* operands were locked are still worth at each step, PresentInv and       *)
(* FreeInv when the Vulkan object exists and who will return the slot.     *)
(***************************************************************************)
EXTENDS HandlePool, FiniteSetTheorems, TLAPS

-----------------------------------------------------------------------------
\* The inductive invariant.

Busy(t) == pc[t] # "idle"

Uses(t) == {op[t].self, op[t].other} \ {None}

Assigning(t) == op[t].kind \in {"copyAssign", "moveAssign"}

\* The operands of an operation, the ids it has read, and the mutexes it holds.
OpFine(t) ==
    /\ op[t] \in Op
    /\ Uses(t) \subseteq live
    /\ op[t].self # op[t].other
    /\ op[t].other # None => mutex[op[t].other] = t
    /\ Assigning(t) => /\ mutex[op[t].self] = t
                       /\ op[t].other # None /\ id[op[t].other] = op[t].oid
    /\ pc[t] = "init" => op[t].kind = "create" /\ id[op[t].self] # 0
    /\ pc[t] = "inc" => /\ op[t].kind \in {"copy", "copyAssign"}
                        /\ op[t].other # None /\ op[t].oid # 0
                        /\ id[op[t].self] = op[t].oid /\ id[op[t].other] = op[t].oid
    /\ pc[t] = "dec" => /\ op[t].kind = "destroy" \/ Assigning(t)
                        /\ op[t].sid # 0 /\ id[op[t].self] = op[t].sid
                        /\ op[t].kind = "copyAssign" => op[t].oid = 0
    /\ pc[t] \in {"first", "second"} =>
           /\ op[t].kind = "copyAssign"
           /\ op[t].sid # 0 /\ op[t].oid # 0 /\ op[t].sid # op[t].oid
           /\ id[op[t].self] = op[t].sid
    /\ pc[t] \in {"free", "store"} => op[t].kind = "destroy" \/ Assigning(t)
    /\ pc[t] = "free" => op[t].sid # 0

OpInv == \A t \in Thread : Busy(t) => OpFine(t)

\* No handle object takes part in two operations.
ExclusiveInv ==
    \A t, u \in Thread : t # u /\ Busy(t) /\ Busy(u) => Uses(t) \cap Uses(u) = {}

\* The slot a handle object counts for, and the handles that count for a slot.
Stake(h) == IF h \in live THEN Counted(h) ELSE 0

Sharers(s) == {h \in Handle : Stake(h) = s}

CountInv ==
    \A s \in Slot : IF s \in allocated THEN refCount[s] = Cardinality(Sharers(s))
                                      ELSE Sharers(s) = {}

\* A slot whose count is zero is on its way back to the storage, and only once.
FreeInv ==
    /\ \A t \in Thread : pc[t] = "free" =>
           op[t].sid \in allocated /\ refCount[op[t].sid] = 0
    /\ \A t, u \in Thread : pc[t] = "free" /\ pc[u] = "free" /\ op[t].sid = op[u].sid => t = u
    /\ \A s \in allocated : refCount[s] = 0 => \E t \in Thread : pc[t] = "free" /\ op[t].sid = s

\* The Vulkan object exists while the slot is counted, except that the constructor
\* that allocated the slot has not filled it yet.
PresentInv ==
    /\ \A s \in present : s \in allocated /\ refCount[s] # 0
    /\ \A h \in Handle : Stake(h) # 0 =>
           Stake(h) \in present \/ \E t \in Thread : pc[t] = "init" /\ op[t].self = h

IndInv == TypeOK /\ OpInv /\ ExclusiveInv /\ CountInv /\ FreeInv /\ PresentInv

-----------------------------------------------------------------------------
\* Which slot a handle counts for.

\* The handle an operation constructs, destroys or assigns.
Share(t) ==
    IF pc[t] = "inc" THEN 0
    ELSE IF pc[t] \in {"free", "store"}
         THEN IF op[t].kind = "copyAssign" THEN op[t].oid ELSE 0
         ELSE id[op[t].self]

LEMMA OneActor ==
    ASSUME OpInv, ExclusiveInv, NEW t \in Thread, Busy(t),
           NEW u \in Thread, Busy(u), op[u].self = op[t].self
    PROVE  u = t
BY NoneAssumption DEF OpInv, OpFine, ExclusiveInv, Uses, Op

LEMMA CountedSelf ==
    OpInv /\ ExclusiveInv => \A t \in Thread : Busy(t) => Counted(op[t].self) = Share(t)
<1> SUFFICES ASSUME OpInv, ExclusiveInv, NEW t \in Thread, Busy(t)
             PROVE  Counted(op[t].self) = Share(t)
  OBVIOUS
<1> DEFINE h == op[t].self
<1>1. \A u \in Thread : Busy(u) /\ op[u].self = h => u = t
  BY OneActor
<1>2. CASE pc[t] = "inc"
  BY <1>2 DEF Counted, Share
<1>3. CASE pc[t] \in {"free", "store"}
  <2>1. ~\E u \in Thread : pc[u] = "inc" /\ op[u].self = h
    BY <1>1, <1>3 DEF Busy
  <2>2. \A u \in Thread : (pc[u] \in {"free", "store"} /\ op[u].self = h) <=> u = t
    BY <1>1, <1>3 DEF Busy
  <2>3. (CHOOSE u \in Thread : pc[u] \in {"free", "store"} /\ op[u].self = h) = t
    BY <2>2
  <2> QED
    BY <1>3, <2>1, <2>2, <2>3 DEF Counted, Share
<1>4. CASE pc[t] \notin {"inc", "free", "store"}
  <2>1. \A u \in Thread : op[u].self = h => pc[u] \notin {"inc", "free", "store"}
    BY <1>1, <1>4 DEF Busy
  <2> QED
    BY <1>4, <2>1 DEF Counted, Share
<1> QED
  BY <1>2, <1>3, <1>4

LEMMA CountedOther ==
    \A h \in Handle : (\A t \in Thread : Busy(t) => op[t].self # h) => Counted(h) = id[h]
BY DEF Counted, Busy

SelfStakes == \A t \in Thread : Busy(t) => Stake(op[t].self) = Share(t)

OtherStakes ==
    \A h \in live :
        h \in Handle /\ (\A t \in Thread : Busy(t) => op[t].self # h) => Stake(h) = id[h]

LEMMA StakeSelf == OpInv /\ ExclusiveInv => SelfStakes
BY CountedSelf, NoneAssumption DEF SelfStakes, Stake, OpInv, OpFine, Uses, Op

LEMMA StakeOther == OtherStakes
BY CountedOther DEF OtherStakes, Stake

\* A step of one thread changes the stake of no other thread's handles.
LEMMA StakeFrame ==
    ASSUME OpInv, ExclusiveInv, OpInv', ExclusiveInv', NEW t \in Thread,
           \A u \in Thread \ {t} : pc'[u] = pc[u] /\ op'[u] = op[u],
           NEW h \in Handle, id'[h] = id[h], h \in live' <=> h \in live,
           Busy(t) => op[t].self # h, Busy(t)' => op'[t].self # h
    PROVE  Stake(h)' = Stake(h)
<1>1. SelfStakes'
  BY StakeSelf, PTL
<1>2. OtherStakes'
  BY StakeOther, PTL
<1>3. CASE h \notin live
  BY <1>3 DEF Stake
<1>4. ASSUME h \in live, NEW u \in Thread, Busy(u), op[u].self = h
      PROVE  Stake(h)' = Stake(h)
  <2>1. u # t /\ Busy(u)' /\ op'[u] = op[u] /\ pc'[u] = pc[u]
    BY <1>4 DEF Busy
  <2>2. Stake(h) = Share(u)
    BY <1>4, StakeSelf DEF SelfStakes
  <2>3. Stake(h)' = Share(u)'
    BY <1>1, <1>4, <2>1 DEF SelfStakes
  <2>4. Share(u)' = Share(u)
    BY <1>4, <2>1 DEF Share
  <2> QED
    BY <2>2, <2>3, <2>4
<1>5. CASE h \in live /\ \A u \in Thread : Busy(u) => op[u].self # h
  <2>1. \A u \in Thread : Busy(u)' => op'[u].self # h
    BY <1>5 DEF Busy
  <2>2. Stake(h) = id[h]
    BY <1>5, StakeOther DEF OtherStakes
  <2>3. Stake(h)' = id'[h]
    BY <1>2, <1>5, <2>1 DEF OtherStakes
  <2> QED
    BY <2>2, <2>3
<1> QED
  BY <1>3, <1>4, <1>5

-----------------------------------------------------------------------------
\* Exclusive operands.

\* A handle whose mutex is free and that nobody constructs or destroys, or that
\* nobody is involved with, is in no operation.
LEMMA Untouched ==
    ASSUME OpInv, NEW h \in Handle,
           ~Involved(h) \/ (Usable(h) /\ mutex[h] = None),
           NEW u \in Thread, Busy(u)
    PROVE  h \notin Uses(u)
<1>1. CASE ~Involved(h)
  BY <1>1 DEF Involved, Busy, Uses
<1>2. CASE Usable(h) /\ mutex[h] = None
  BY <1>2, NoneAssumption DEF Usable, Busy, Uses, OpInv, OpFine, Assigning
<1> QED
  BY <1>1, <1>2

\* The operations of the other threads are not disturbed by a step that changes
\* only handles they do not use and takes no mutex from them.
LEMMA OpFrame ==
    ASSUME OpInv, NEW t \in Thread, NEW touched,
           \A u \in Thread \ {t} : pc'[u] = pc[u] /\ op'[u] = op[u],
           \A u \in Thread \ {t} : Busy(u) => Uses(u) \cap touched = {},
           \A h \in Handle \ touched : id'[h] = id[h] /\ (h \in live => h \in live'),
           \A h \in Handle : mutex[h] \in Thread \ {t} => mutex'[h] = mutex[h],
           Busy(t)' => OpFine(t)'
    PROVE  OpInv'
<1> SUFFICES ASSUME NEW u \in Thread \ {t}, Busy(u)'
             PROVE  OpFine(u)'
  BY DEF OpInv
<1>1. Busy(u) /\ OpFine(u) /\ pc'[u] = pc[u] /\ op'[u] = op[u]
  BY DEF Busy, OpInv
<1>2. op[u].self \in Handle /\ (op[u].other # None => op[u].other \in Handle)
  BY <1>1 DEF OpFine, Op
<1>3. \A h \in Uses(u) : h \in Handle \ touched
  BY <1>1, <1>2 DEF Uses
<1>4. op[u].self # None
  BY <1>2, NoneAssumption
<1>5. /\ id'[op[u].self] = id[op[u].self]
      /\ op[u].other # None => id'[op[u].other] = id[op[u].other]
      /\ Uses(u) \subseteq live'
  BY <1>1, <1>3, <1>4 DEF Uses, OpFine
<1>6. /\ op[u].other # None => mutex'[op[u].other] = u
      /\ Assigning(u) => mutex'[op[u].self] = u
  BY <1>1, <1>2 DEF OpFine
<1> QED
  BY <1>1, <1>5, <1>6 DEF OpFine, Assigning, Uses

LEMMA ExclusiveFrame ==
    ASSUME ExclusiveInv, NEW t \in Thread,
           \A u \in Thread \ {t} : pc'[u] = pc[u] /\ op'[u] = op[u],
           \A u \in Thread \ {t} : Busy(u) /\ Busy(t)' => Uses(u) \cap Uses(t)' = {}
    PROVE  ExclusiveInv'
BY DEF ExclusiveInv, Busy, Uses

LEMMA OpInit == Init => OpInv /\ ExclusiveInv
BY DEF Init, OpInv, ExclusiveInv, Busy

\* A new operation takes handles no other operation has.
LEMMA OpBegin ==
    ASSUME TypeOK, OpInv, ExclusiveInv, NEW t \in Thread, BeginOp(t)
    PROVE  OpInv' /\ ExclusiveInv'
<1> USE DEF TypeOK, Begin, objVars, poolVars, lockVars
<1>1. ASSUME NEW h \in Handle, NEW s \in Slot, Create(t, h, s)
      PROVE  OpInv' /\ ExclusiveInv'
  <2>1. /\ pc' = [pc EXCEPT ![t] = "init"]
        /\ op' = [op EXCEPT ![t] = [kind |-> "create", self |-> h, other |-> None,
                                    sid |-> id[h], oid |-> 0]]
        /\ id' = [id EXCEPT ![h] = s] /\ live' = live \cup {h} /\ UNCHANGED mutex
    BY <1>1 DEF Create, Start
  <2>2. \A u \in Thread : Busy(u) => Uses(u) \cap {h} = {}
    BY <1>1, Untouched DEF Create
  <2>3. Uses(t)' = {h}
    BY <2>1, NoneAssumption DEF Uses
  <2>4. OpFine(t)'
    BY <2>1, <2>3, NoneAssumption DEF OpFine, Op, OpKind, Assigning, Slot
  <2>5. /\ \A u \in Thread \ {t} : pc'[u] = pc[u] /\ op'[u] = op[u]
        /\ \A x \in Handle \ {h} : id'[x] = id[x] /\ (x \in live => x \in live')
    BY <2>1
  <2>6. OpInv'
    BY <2>1, <2>2, <2>4, <2>5, OpFrame
  <2>7. ExclusiveInv'
    BY <2>2, <2>3, <2>5, ExclusiveFrame
  <2> QED
    BY <2>6, <2>7
<1>2. ASSUME NEW h \in Handle, NEW o \in Handle, CopyConstruct(t, h, o)
      PROVE  OpInv' /\ ExclusiveInv'
  <2>1. /\ live' = live \cup {h} /\ id' = [id EXCEPT ![h] = id[o]]
        /\ h \notin live /\ o \in live /\ pc[t] = "idle"
    BY <1>2 DEF CopyConstruct, Usable
  <2>2. \A u \in Thread \ {t} : Busy(u) => Uses(u) \cap {h, o} = {}
    BY <1>2, Untouched DEF CopyConstruct
  <2>3. \A x \in Handle \ {h, o} : id'[x] = id[x] /\ (x \in live => x \in live')
    BY <2>1
  <2>4. CASE UNCHANGED <<mutex, pc, op>>
    <3>1. ~Busy(t)' /\ \A u \in Thread \ {t} : pc'[u] = pc[u] /\ op'[u] = op[u]
      BY <2>1, <2>4 DEF Busy
    <3>2. OpInv'
      BY <2>4, <2>2, <2>3, <3>1, OpFrame
    <3>3. ExclusiveInv'
      BY <3>1, ExclusiveFrame
    <3> QED
      BY <3>2, <3>3
  <2>5. CASE /\ id[o] # 0 /\ mutex' = [mutex EXCEPT ![o] = t] /\ Start(t, "copy", h, o, "inc")
    <3>1. /\ pc' = [pc EXCEPT ![t] = "inc"]
          /\ op' = [op EXCEPT ![t] = [kind |-> "copy", self |-> h, other |-> o,
                                      sid |-> id[h], oid |-> id[o]]]
      BY <2>5, NoneAssumption DEF Start
    <3>2. Uses(t)' = {h, o}
      BY <3>1, NoneAssumption DEF Uses
    <3>3. OpFine(t)'
      BY <2>1, <2>5, <3>1, <3>2, NoneAssumption DEF OpFine, Op, OpKind, Assigning
    <3>4. \A x \in Handle : mutex[x] \in Thread \ {t} => mutex'[x] = mutex[x]
      BY <1>2, <2>5, NoneAssumption DEF CopyConstruct
    <3>5. \A u \in Thread \ {t} : pc'[u] = pc[u] /\ op'[u] = op[u]
      BY <3>1
    <3>6. OpInv'
      BY <2>2, <2>3, <3>3, <3>4, <3>5, OpFrame
    <3>7. ExclusiveInv'
      BY <2>2, <3>2, <3>5, ExclusiveFrame
    <3> QED
      BY <3>6, <3>7
  <2> QED
    BY <1>2, <2>4, <2>5 DEF CopyConstruct
<1>3. ASSUME NEW h \in Handle, NEW o \in Handle, MoveConstruct(t, h, o)
      PROVE  OpInv' /\ ExclusiveInv'
  <2>1. /\ live' = live \cup {h} /\ id' = [id EXCEPT ![h] = id[o], ![o] = 0]
        /\ UNCHANGED <<mutex, pc, op>> /\ pc[t] = "idle"
    BY <1>3 DEF MoveConstruct
  <2>2. \A u \in Thread \ {t} : Busy(u) => Uses(u) \cap {h, o} = {}
    BY <1>3, Untouched DEF MoveConstruct
  <2>3. \A x \in Handle \ {h, o} : id'[x] = id[x] /\ (x \in live => x \in live')
    BY <2>1
  <2>4. ~Busy(t)' /\ \A u \in Thread \ {t} : pc'[u] = pc[u] /\ op'[u] = op[u]
    BY <2>1 DEF Busy
  <2>5. OpInv'
    BY <2>1, <2>2, <2>3, <2>4, OpFrame
  <2>6. ExclusiveInv'
    BY <2>4, ExclusiveFrame
  <2> QED
    BY <2>5, <2>6
<1>4. ASSUME NEW h \in Handle, Destruct(t, h)
      PROVE  OpInv' /\ ExclusiveInv'
  <2>1. /\ h \in live /\ UNCHANGED <<id, mutex>> /\ pc[t] = "idle"
        /\ \A u \in Thread : Busy(u) => Uses(u) \cap {h} = {}
    BY <1>4, Untouched DEF Destruct
  <2>2. CASE live' = live \ {h} /\ UNCHANGED <<pc, op>>
    BY <2>1, <2>2, OpFrame, ExclusiveFrame DEF Busy
  <2>3. CASE id[h] # 0 /\ Start(t, "destroy", h, None, "dec") /\ UNCHANGED live
    <3>1. /\ pc' = [pc EXCEPT ![t] = "dec"]
          /\ op' = [op EXCEPT ![t] = [kind |-> "destroy", self |-> h, other |-> None,
                                      sid |-> id[h], oid |-> 0]]
      BY <2>3 DEF Start
    <3>2. Uses(t)' = {h}
      BY <3>1, NoneAssumption DEF Uses
    <3>3. OpFine(t)'
      BY <2>1, <2>3, <3>1, <3>2, NoneAssumption DEF OpFine, Op, OpKind, Assigning
    <3> QED
      BY <2>1, <2>3, <3>1, <3>2, <3>3, OpFrame, ExclusiveFrame
  <2> QED
    BY <1>4, <2>2, <2>3 DEF Destruct
\* The two assignments differ in the position they start from.
<1>5. ASSUME NEW h \in Handle, NEW o \in Handle, LockBoth(t, h, o),
             NEW kind \in {"copyAssign", "moveAssign"}, NEW next \in PcState,
             Start(t, kind, h, o, next), UNCHANGED live,
             \/ UNCHANGED id
             \/ id' = [id EXCEPT ![h] = id[o]],
             next \in {"inc", "dec", "first", "store"},
             next = "inc" => id[o] # 0 /\ id' = [id EXCEPT ![h] = id[o]] /\ kind = "copyAssign",
             next \in {"dec", "first"} => UNCHANGED id /\ id[h] # 0,
             next = "dec" /\ kind = "copyAssign" => id[o] = 0,
             next = "first" => kind = "copyAssign" /\ id[o] # 0 /\ id[h] # id[o]
      PROVE  OpInv' /\ ExclusiveInv'
  <2>1. /\ h # o /\ h \in live /\ o \in live
        /\ mutex' = [mutex EXCEPT ![h] = t, ![o] = t]
        /\ \A x \in Handle : mutex[x] \in Thread \ {t} => mutex'[x] = mutex[x]
        /\ \A u \in Thread : Busy(u) => Uses(u) \cap {h, o} = {}
    BY <1>5, Untouched, NoneAssumption DEF LockBoth, Usable
  <2>2. /\ pc' = [pc EXCEPT ![t] = next]
        /\ op' = [op EXCEPT ![t] = [kind |-> kind, self |-> h, other |-> o,
                                    sid |-> id[h], oid |-> id[o]]]
    BY <1>5, NoneAssumption DEF Start
  <2>3. Uses(t)' = {h, o}
    BY <2>2, NoneAssumption DEF Uses
  <2>4. pc'[t] = next /\ id'[o] = id[o] /\ mutex'[h] = t /\ mutex'[o] = t
    BY <1>5, <2>1, <2>2
  <2>5. op'[t] = [kind |-> kind, self |-> h, other |-> o, sid |-> id[h], oid |-> id[o]]
    BY <2>2
  <2>6. next = "inc" => id'[h] = id[o]
    BY <1>5
  <2>7. OpFine(t)'
    BY <1>5, <2>1, <2>3, <2>4, <2>5, <2>6, NoneAssumption DEF OpFine, Op, OpKind, Assigning
  <2>8. \A x \in Handle \ {h, o} : id'[x] = id[x]
    BY <1>5
  <2> QED
    BY <1>5, <2>1, <2>2, <2>3, <2>7, <2>8, OpFrame, ExclusiveFrame
<1>6. ASSUME NEW h \in Handle, NEW o \in Handle, CopyAssign(t, h, o)
      PROVE  OpInv' /\ ExclusiveInv'
  BY <1>5, <1>6 DEF CopyAssign, AssignNeeded, PcState
<1>7. ASSUME NEW h \in Handle, NEW o \in Handle, MoveAssign(t, h, o)
      PROVE  OpInv' /\ ExclusiveInv'
  BY <1>5, <1>7 DEF MoveAssign, PcState
<1> QED
  BY <1>1, <1>2, <1>3, <1>4, <1>6, <1>7 DEF BeginOp

\* The steps of an operation change only its own handles.
LEMMA OpStep ==
    ASSUME TypeOK, OpInv, ExclusiveInv, NEW t \in Thread, Step(t)
    PROVE  OpInv' /\ ExclusiveInv'
<1> USE DEF TypeOK, objVars, poolVars, lockVars
<1>1. Busy(t) /\ OpFine(t)
  BY DEF Step, InitSlot, Increment, Drop, LockFirst, Exchange, Deallocate, Return, Busy, OpInv
<1>2. \A u \in Thread \ {t} : Busy(u) => Uses(u) \cap Uses(t) = {}
  BY <1>1 DEF ExclusiveInv
<1>3. /\ op[t].self \in Uses(t) /\ op[t].self \in Handle
      /\ op[t].other # None => op[t].other \in Uses(t) /\ op[t].other \in Handle
  BY <1>1, NoneAssumption DEF Uses, OpFine, Op
\* The operation goes on: only the position changes.
<1>4. ASSUME NEW next \in PcState, GoTo(t, next), UNCHANGED <<objVars, mutex, op>>,
             next \in {"free", "store"} => op[t].kind = "destroy" \/ Assigning(t),
             next = "free" => op[t].sid # 0,
             next = "second" => pc[t] = "first",
             next \in {"second", "free", "store"}
      PROVE  OpInv' /\ ExclusiveInv'
  <2>1. pc' = [pc EXCEPT ![t] = next] /\ Uses(t)' = Uses(t)
    BY <1>4 DEF GoTo, Uses
  <2>2. OpFine(t)'
    BY <1>1, <1>4, <2>1 DEF OpFine, Assigning
  <2> QED
    BY <1>2, <1>4, <2>1, <2>2, OpFrame, ExclusiveFrame
\* The operation ends.
<1>5. ASSUME Done(t), mutex' = mutex \/ mutex' = Unlocked(t),
             \A h \in Handle \ Uses(t) : id'[h] = id[h] /\ (h \in live => h \in live')
      PROVE  OpInv' /\ ExclusiveInv'
  <2>1. ~Busy(t)' /\ \A u \in Thread \ {t} : pc'[u] = pc[u] /\ op'[u] = op[u]
    BY <1>5 DEF Done, Busy
  <2>2. \A h \in Handle : mutex[h] \in Thread \ {t} => mutex'[h] = mutex[h]
    BY <1>5 DEF Unlocked
  <2> QED
    BY <1>2, <1>5, <2>1, <2>2, OpFrame, ExclusiveFrame
<1>6. CASE InitSlot(t) \/ Increment(t)
  BY <1>5, <1>6 DEF InitSlot, Increment
<1>7. CASE Drop(t)
  BY <1>1, <1>4, <1>7 DEF Drop, OpFine, PcState
<1>8. CASE LockFirst(t)
  BY <1>4, <1>8 DEF LockFirst, PcState
<1>9. CASE Exchange(t)
  BY <1>1, <1>4, <1>9 DEF Exchange, OpFine, Assigning, PcState
<1>10. CASE Deallocate(t)
  BY <1>1, <1>4, <1>10 DEF Deallocate, OpFine, PcState
<1>11. CASE Return(t)
  <2>1. op[t].kind = "moveAssign" => op[t].other # None
    BY <1>1 DEF OpFine, Assigning
  <2>2. \A h \in Handle \ Uses(t) : id'[h] = id[h] /\ (h \in live => h \in live')
    BY <1>3, <1>11, <2>1 DEF Return
  <2> QED
    BY <1>5, <1>11, <2>2 DEF Return
<1> QED
  BY <1>6, <1>7, <1>8, <1>9, <1>10, <1>11 DEF Step

-----------------------------------------------------------------------------
\* Counting handles.

LEMMA SharersFinite == \A s : IsFiniteSet(Sharers(s)) /\ Cardinality(Sharers(s)) \in Nat
BY HandleAssumption, FS_Subset, FS_CardinalityType DEF Sharers

LEMMA StakeType == TypeOK /\ OpInv /\ ExclusiveInv => \A h \in Handle : Stake(h) \in Slot \cup {0}
<1> SUFFICES ASSUME TypeOK, OpInv, ExclusiveInv, NEW h \in Handle
             PROVE  Stake(h) \in Slot \cup {0}
  OBVIOUS
<1>1. CASE h \notin live
  BY <1>1 DEF Stake
<1>2. ASSUME NEW t \in Thread, Busy(t), op[t].self = h
      PROVE  Stake(h) \in Slot \cup {0}
  BY <1>2, StakeSelf DEF SelfStakes, Share, OpInv, OpFine, Op, TypeOK
<1>3. CASE h \in live /\ \A t \in Thread : Busy(t) => op[t].self # h
  BY <1>3, StakeOther DEF OtherStakes, TypeOK
<1> QED
  BY <1>1, <1>2, <1>3

\* A slot some handle counts for is allocated and has a positive count.
LEMMA Positive ==
    ASSUME TypeOK, OpInv, ExclusiveInv, CountInv, NEW h \in Handle, Stake(h) # 0
    PROVE  Stake(h) \in allocated /\ refCount[Stake(h)] \in Nat \ {0}
<1> DEFINE s == Stake(h)
<1>1. s \in Slot /\ h \in Sharers(s)
  BY StakeType DEF Sharers
<1>2. Cardinality(Sharers(s)) # 0
  BY <1>1, SharersFinite, FS_EmptySet
<1>3. s \in allocated /\ refCount[s] = Cardinality(Sharers(s))
  BY <1>1 DEF CountInv
<1> QED
  BY <1>2, <1>3, SharersFinite

\* One handle moves from slot a to slot b (0 for none), and both counts follow.
LEMMA CountMove ==
    ASSUME TypeOK, CountInv, NEW h \in Handle,
           NEW a \in Slot \cup {0}, NEW b \in Slot \cup {0}, a # b,
           Stake(h) = a, Stake(h)' = b, a # 0 => a \in allocated, b # 0 => b \in allocated,
           \A x \in Handle \ {h} : Stake(x)' = Stake(x), UNCHANGED allocated,
           \A s \in Slot \ {a, b} : refCount'[s] = refCount[s],
           a # 0 => refCount'[a] = refCount[a] - 1,
           b # 0 => refCount'[b] = refCount[b] + 1
    PROVE  CountInv'
<1> SUFFICES ASSUME NEW s \in Slot
             PROVE  IF s \in allocated' THEN refCount'[s] = Cardinality(Sharers(s)')
                                        ELSE Sharers(s)' = {}
  BY DEF CountInv
<1>1. s # 0
  BY SlotAssumption DEF Slot
<1>2. IsFiniteSet(Sharers(s))
  BY SharersFinite
<1>3. CASE s = a
  <2>1. Sharers(s)' = Sharers(s) \ {h} /\ h \in Sharers(s)
    BY <1>3 DEF Sharers
  <2>2. Cardinality(Sharers(s)') = Cardinality(Sharers(s)) - 1
    BY <1>2, <2>1, FS_RemoveElement
  <2> QED
    BY <1>1, <1>3, <2>2 DEF CountInv
<1>4. CASE s = b
  <2>1. Sharers(s)' = Sharers(s) \cup {h} /\ h \notin Sharers(s)
    BY <1>4 DEF Sharers
  <2>2. Cardinality(Sharers(s)') = Cardinality(Sharers(s)) + 1
    BY <1>2, <2>1, FS_AddElement
  <2> QED
    BY <1>1, <1>4, <2>2 DEF CountInv
<1>5. CASE s # a /\ s # b
  <2>1. Sharers(s)' = Sharers(s)
    BY <1>5 DEF Sharers
  <2> QED
    BY <1>5, <2>1 DEF CountInv
<1> QED
  BY <1>3, <1>4, <1>5

\* One handle takes over what another counts for.
LEMMA CountHandOver ==
    ASSUME TypeOK, CountInv, NEW h \in Handle, NEW o \in Handle, h # o,
           Stake(h) = 0, Stake(h)' = Stake(o), Stake(o)' = 0,
           \A x \in Handle \ {h, o} : Stake(x)' = Stake(x), UNCHANGED <<allocated, refCount>>
    PROVE  CountInv'
<1> SUFFICES ASSUME NEW s \in Slot
             PROVE  IF s \in allocated' THEN refCount'[s] = Cardinality(Sharers(s)')
                                        ELSE Sharers(s)' = {}
  BY DEF CountInv
<1>1. s # 0 /\ h \notin Sharers(s)
  BY SlotAssumption DEF Slot, Sharers
<1>2. IsFiniteSet(Sharers(s))
  BY SharersFinite
<1>3. CASE Stake(o) = s
  <2> DEFINE rest == Sharers(s) \ {o}
  <2>1. Sharers(s)' = rest \cup {h} /\ o \in Sharers(s) /\ h \notin rest
    BY <1>1, <1>3 DEF Sharers
  <2>2. IsFiniteSet(rest) /\ Cardinality(rest) = Cardinality(Sharers(s)) - 1
    BY <1>2, <2>1, FS_RemoveElement
  <2>3. Cardinality(Sharers(s)') = Cardinality(rest) + 1
    BY <2>1, <2>2, FS_AddElement
  <2>4. Cardinality(Sharers(s)') = Cardinality(Sharers(s))
    BY <2>2, <2>3, SharersFinite
  <2> QED
    BY <2>1, <2>4 DEF CountInv
<1>4. CASE Stake(o) # s
  <2>1. Sharers(s)' = Sharers(s)
    BY <1>1, <1>4 DEF Sharers
  <2> QED
    BY <2>1 DEF CountInv
<1> QED
  BY <1>3, <1>4

-----------------------------------------------------------------------------
\* The counts and the objects, step by step.

Counts == CountInv /\ FreeInv /\ PresentInv

\* Steps after which every handle counts for what it counted for before.
LEMMA CountsCalm ==
    ASSUME Counts, UNCHANGED poolVars, \A h \in Handle : Stake(h)' = Stake(h),
           \A u \in Thread : /\ pc'[u] = "free" <=> pc[u] = "free"
                             /\ pc[u] \in {"free", "init"} => pc'[u] = pc[u] /\ op'[u] = op[u]
    PROVE  Counts'
<1>1. CountInv'
  <2>1. \A s : Sharers(s)' = Sharers(s)
    BY DEF Sharers
  <2> QED
    BY <2>1 DEF Counts, CountInv, poolVars
<1>2. FreeInv'
  BY DEF Counts, FreeInv, poolVars
<1>3. PresentInv'
  BY DEF Counts, PresentInv, poolVars
<1> QED
  BY <1>1, <1>2, <1>3 DEF Counts

\* A move: o gives its slot to h.
LEMMA CountsHandOver ==
    ASSUME TypeOK, Counts, NEW h \in Handle, NEW o \in Handle, h # o,
           Stake(h) = 0, Stake(h)' = Stake(o), Stake(o)' = 0,
           \A x \in Handle \ {h, o} : Stake(x)' = Stake(x), UNCHANGED poolVars,
           \A u \in Thread : /\ pc'[u] = "free" <=> pc[u] = "free"
                             /\ pc[u] \in {"free", "init"} => pc'[u] = pc[u] /\ op'[u] = op[u]
                             /\ pc[u] = "init" => op[u].self # o
    PROVE  Counts'
<1>1. CountInv'
  BY CountHandOver DEF Counts, poolVars
<1>2. FreeInv'
  BY DEF Counts, FreeInv, poolVars
<1>3. PresentInv'
  <2>1. \A x \in Handle : Stake(x)' # 0 =>
            Stake(x)' \in present \/ \E t \in Thread : pc[t] = "init" /\ op[t].self = x
    BY DEF Counts, PresentInv
  <2> QED
    BY <2>1 DEF Counts, PresentInv, poolVars
<1> QED
  BY <1>1, <1>2, <1>3 DEF Counts

\* A reference to s is dropped, and with the last one the object; the handle may
\* count for b from then on.  The thread that drops it deallocates the slot.
LEMMA CountsDrop ==
    ASSUME TypeOK, OpInv, ExclusiveInv, Counts, NEW t \in Thread, NEW h \in Handle,
           NEW s \in Slot, NEW b \in Slot \cup {0}, s # b,
           Stake(h) = s, Stake(h)' = b, b # 0 => b \in present,
           \A x \in Handle \ {h} : Stake(x)' = Stake(x),
           refCount'[s] = refCount[s] - 1, b # 0 => refCount'[b] = refCount[b] + 1,
           \A r \in Slot \ {s, b} : refCount'[r] = refCount[r],
           present' = IF LastReference(refCount[s] - 1) THEN present \ {s} ELSE present,
           GoTo(t, IF LastReference(refCount[s] - 1) THEN "free" ELSE "store"),
           UNCHANGED <<allocated, op>>, op[t].sid = s, pc[t] \notin {"free", "init"}
    PROVE  Counts'
<1>1. s \in allocated /\ refCount[s] \in Nat \ {0}
  BY Positive, SlotAssumption DEF Counts, Slot
<1>2. b # 0 => b \in allocated /\ refCount[b] \in Nat \ {0}
  BY DEF Counts, PresentInv, TypeOK
<1>3. /\ pc'[t] = IF refCount[s] - 1 = 0 THEN "free" ELSE "store"
      /\ \A u \in Thread \ {t} : pc'[u] = pc[u]
  BY DEF GoTo, LastReference, TypeOK
<1>4. \A r \in Slot \ {s} : refCount'[r] = 0 <=> refCount[r] = 0
  BY <1>2, SlotAssumption DEF Slot
<1>5. CountInv'
  BY <1>1, <1>2, CountMove DEF Counts
<1>6. FreeInv'
  <2>1. \A u \in Thread : pc[u] = "free" => op[u].sid # s /\ op[u].sid \in Slot
    BY <1>1 DEF Counts, FreeInv, TypeOK
  <2>2. \A u \in Thread : pc'[u] = "free" =>
            op'[u].sid \in allocated' /\ refCount'[op'[u].sid] = 0
    BY <1>1, <1>3, <1>4, <2>1 DEF Counts, FreeInv
  <2>3. \A u, v \in Thread :
            pc'[u] = "free" /\ pc'[v] = "free" /\ op'[u].sid = op'[v].sid => u = v
    BY <1>3, <2>1 DEF Counts, FreeInv
  <2>4. ASSUME NEW r \in allocated', refCount'[r] = 0
        PROVE  \E u \in Thread : pc'[u] = "free" /\ op'[u].sid = r
    <3>1. CASE r = s
      BY <1>1, <1>3, <2>4, <3>1
    <3>2. CASE r # s
      <4>1. r \in allocated /\ refCount[r] = 0
        BY <1>4, <2>4, <3>2 DEF TypeOK
      <4>2. PICK u \in Thread : pc[u] = "free" /\ op[u].sid = r
        BY <4>1 DEF Counts, FreeInv
      <4> QED
        BY <1>3, <4>2
    <3> QED
      BY <3>1, <3>2
  <2> QED
    BY <2>2, <2>3, <2>4 DEF FreeInv
<1>7. PresentInv'
  <2>1. refCount'[s] = 0 => Sharers(s)' = {}
    <3>1. refCount'[s] = Cardinality(Sharers(s)')
      BY <1>1, <1>5 DEF CountInv
    <3>2. IsFiniteSet(Sharers(s)')
      BY HandleAssumption, FS_Subset DEF Sharers
    <3> QED
      BY <3>1, <3>2, FS_EmptySet
  <2>2. \A r \in present' : r \in allocated' /\ refCount'[r] # 0
    BY <1>1, <1>4 DEF Counts, PresentInv, LastReference, TypeOK
  <2>3. ASSUME NEW x \in Handle, Stake(x)' # 0
        PROVE  Stake(x)' \in present' \/ \E u \in Thread : pc'[u] = "init" /\ op'[u].self = x
    <3>1. CASE Stake(x)' \in present
      <4>1. CASE Stake(x)' = s
        <5>1. x \in Sharers(s)'
          BY <4>1 DEF Sharers
        <5> QED
          BY <2>1, <3>1, <4>1, <5>1 DEF LastReference
      <4>2. CASE Stake(x)' # s
        BY <3>1, <4>2
      <4> QED
        BY <4>1, <4>2
    <3>2. CASE Stake(x)' \notin present
      <4>1. x # h /\ Stake(x) = Stake(x)'
        BY <2>3, <3>2
      <4>2. PICK u \in Thread : pc[u] = "init" /\ op[u].self = x
        BY <2>3, <3>2, <4>1 DEF Counts, PresentInv
      <4> QED
        BY <1>3, <4>2
    <3> QED
      BY <3>1, <3>2
  <2> QED
    BY <2>2, <2>3 DEF PresentInv
<1> QED
  BY <1>5, <1>6, <1>7 DEF Counts

LEMMA CountsInit == Init => TypeOK /\ Counts
<1> SUFFICES ASSUME Init
             PROVE  TypeOK /\ Counts
  OBVIOUS
<1>1. \A h \in Handle : Stake(h) = id[h]
  BY DEF Init, Stake, Counted
<1>2. \A s \in Slot : Sharers(s) = {h \in Handle : id[h] = s}
  BY <1>1 DEF Sharers
<1>3. \A s \in Slot : s # 0
  BY SlotAssumption DEF Slot
<1>4. \A s \in Slot : s \in allocated <=> Sharers(s) # {}
  BY <1>2, <1>3 DEF Init
<1>5. \A s \in Slot : refCount[s] = Cardinality(Sharers(s))
  BY <1>2 DEF Init
<1>6. \A s \in Slot : refCount[s] = 0 => Sharers(s) = {}
  BY <1>5, SharersFinite, FS_EmptySet
<1>7. allocated \in SUBSET Slot
  BY DEF Init
<1>8. TypeOK
  <2>1. refCount \in [Slot -> Nat]
    BY <1>2, SharersFinite DEF Init
  <2> QED
    BY <1>7, <2>1 DEF Init, TypeOK, PcState
<1>9. CountInv
  BY <1>4, <1>5 DEF CountInv
<1>10. FreeInv
  BY <1>4, <1>6, <1>7 DEF Init, FreeInv
<1>11. PresentInv
  BY <1>1, <1>4, <1>6, <1>7 DEF Init, PresentInv
<1> QED
  BY <1>8, <1>9, <1>10, <1>11 DEF Counts

LEMMA CountsBegin ==
    ASSUME TypeOK, OpInv, ExclusiveInv, Counts, NEW t \in Thread, BeginOp(t)
    PROVE  Counts'
<1> USE DEF Begin, objVars, lockVars
<1>1. OpInv' /\ ExclusiveInv'
  BY OpBegin
<1>2. SelfStakes' /\ OtherStakes'
  BY <1>1, StakeSelf, StakeOther, PTL
<1>3. pc[t] = "idle" /\ ~Busy(t)
  BY DEF BeginOp, Create, CopyConstruct, MoveConstruct, CopyAssign, MoveAssign, Destruct,
     LockBoth, Busy
\* An operation that starts at position next on the handle h.
<1>4. ASSUME NEW h \in Handle, NEW kind, NEW other, NEW next,
             Start(t, kind, h, other, next), next # "idle"
      PROVE  /\ pc'[t] = next /\ Busy(t)' /\ op'[t].self = h /\ op'[t].kind = kind
             /\ op'[t].oid = IF other = None THEN 0 ELSE id[other]
             /\ \A u \in Thread \ {t} : pc'[u] = pc[u] /\ op'[u] = op[u]
  BY <1>4 DEF Start, TypeOK, Busy
<1>5. ASSUME NEW h \in Handle, NEW s \in Slot, Create(t, h, s)
      PROVE  Counts'
  <2>1. /\ s \notin allocated /\ allocated' = allocated \cup {s}
        /\ refCount' = [refCount EXCEPT ![s] = 1] /\ UNCHANGED present
        /\ id' = [id EXCEPT ![h] = s] /\ live' = live \cup {h} /\ h \notin live
    BY <1>5 DEF Create
  <2>2. /\ pc'[t] = "init" /\ Busy(t)' /\ op'[t].self = h
        /\ \A u \in Thread \ {t} : pc'[u] = pc[u] /\ op'[u] = op[u]
    BY <1>4, <1>5 DEF Create
  <2>3. Stake(h) = 0 /\ Stake(h)' = s
    BY <1>2, <2>1, <2>2 DEF Stake, SelfStakes, Share, TypeOK
  <2>4. \A x \in Handle \ {h} : id'[x] = id[x] /\ (x \in live' <=> x \in live)
    BY <2>1 DEF TypeOK
  <2>5. \A x \in Handle \ {h} : Stake(x)' = Stake(x)
    BY <1>1, <1>3, <2>2, <2>4, StakeFrame
  <2>6. Sharers(s) = {}
    BY <2>1 DEF Counts, CountInv
  <2>7. Sharers(s)' = {h}
    BY <2>3, <2>5, <2>6 DEF Sharers
  <2>8. \A r \in Slot \ {s} : Sharers(r)' = Sharers(r)
    <3>1. \A r \in Slot : r # 0
      BY SlotAssumption DEF Slot
    <3> QED
      BY <2>3, <2>5, <3>1 DEF Sharers
  <2>9. CountInv'
    BY <2>1, <2>7, <2>8, FS_Singleton DEF Counts, CountInv, TypeOK
  <2>10. FreeInv'
    BY <1>3, <2>1, <2>2 DEF Counts, FreeInv, TypeOK
  <2>11. PresentInv'
    BY <1>3, <2>1, <2>2, <2>3, <2>5 DEF Counts, PresentInv, TypeOK
  <2> QED
    BY <2>9, <2>10, <2>11 DEF Counts
<1>6. ASSUME NEW h \in Handle, NEW o \in Handle, CopyConstruct(t, h, o)
      PROVE  Counts'
  <2>1. /\ id' = [id EXCEPT ![h] = id[o]] /\ live' = live \cup {h} /\ h \notin live
        /\ UNCHANGED poolVars
        /\ \A u \in Thread : Busy(u) => h \notin Uses(u)
    BY <1>6, Untouched DEF CopyConstruct, poolVars
  <2>2. \A x \in Handle \ {h} : id'[x] = id[x] /\ (x \in live' <=> x \in live)
    BY <2>1 DEF TypeOK
  <2>3. Stake(h) = 0 /\ h \in live' /\ id'[h] = id[o]
    BY <2>1 DEF Stake, TypeOK
  <2>4. CASE id[o] = 0 /\ UNCHANGED <<mutex, pc, op>>
    <3>1. \A u \in Thread : Busy(u)' => op'[u].self # h
      BY <2>1, <2>4, NoneAssumption DEF Busy, Uses
    <3>2. Stake(h)' = 0
      BY <1>2, <2>3, <2>4, <3>1 DEF OtherStakes
    <3>3. \A x \in Handle \ {h} : Stake(x)' = Stake(x)
      BY <1>1, <1>3, <2>2, <2>4, StakeFrame DEF Busy
    <3> QED
      BY <2>1, <2>3, <2>4, <3>2, <3>3, CountsCalm
  <2>5. CASE Start(t, "copy", h, o, "inc")
    <3>1. /\ pc'[t] = "inc" /\ Busy(t)' /\ op'[t].self = h
          /\ \A u \in Thread \ {t} : pc'[u] = pc[u] /\ op'[u] = op[u]
      BY <1>4, <2>5
    <3>2. Stake(h)' = 0
      BY <1>2, <3>1 DEF SelfStakes, Share
    <3>3. \A x \in Handle \ {h} : Stake(x)' = Stake(x)
      BY <1>1, <1>3, <2>2, <3>1, StakeFrame
    <3> QED
      BY <1>3, <2>1, <2>3, <3>1, <3>2, <3>3, CountsCalm
  <2> QED
    BY <1>6, <2>4, <2>5 DEF CopyConstruct
<1>7. ASSUME NEW h \in Handle, NEW o \in Handle, MoveConstruct(t, h, o)
      PROVE  Counts'
  <2>1. /\ id' = [id EXCEPT ![h] = id[o], ![o] = 0] /\ live' = live \cup {h}
        /\ h \notin live /\ o \in live /\ UNCHANGED <<poolVars, pc, op>>
    BY <1>7 DEF MoveConstruct, Usable
  <2>2. \A u \in Thread : Busy(u) => h \notin Uses(u) /\ o \notin Uses(u)
    BY <1>7, Untouched DEF MoveConstruct
  <2>3. \A u \in Thread : Busy(u) => op[u].self # h /\ op[u].self # o
    BY <2>2, NoneAssumption DEF Uses
  <2>4. Stake(h) = 0 /\ Stake(o) = id[o]
    BY <2>1, <2>3, StakeOther DEF Stake, OtherStakes
  <2>5. h # o /\ id'[h] = id[o] /\ id'[o] = 0 /\ h \in live' /\ o \in live'
    BY <2>1 DEF TypeOK
  <2>6. \A u \in Thread : Busy(u)' => op'[u].self # h /\ op'[u].self # o
    BY <2>1, <2>3 DEF Busy
  <2>7. Stake(h)' = id[o] /\ Stake(o)' = 0
    BY <1>2, <2>5, <2>6 DEF OtherStakes
  <2>8. \A x \in Handle \ {h, o} : id'[x] = id[x] /\ (x \in live' <=> x \in live)
    BY <2>1 DEF TypeOK
  <2>9. \A x \in Handle \ {h, o} : Stake(x)' = Stake(x)
    BY <1>1, <1>3, <2>1, <2>8, StakeFrame DEF Busy
  <2>10. \A u \in Thread : pc[u] = "init" => op[u].self # o
    BY <2>3 DEF Busy
  <2> QED
    BY <2>1, <2>4, <2>5, <2>7, <2>9, <2>10, CountsHandOver
\* A destruction or an assignment begins: its handle counts for what it named.
<1>8. ASSUME NEW h \in Handle, h \in live, \A u \in Thread : Busy(u) => h \notin Uses(u),
             UNCHANGED <<live, poolVars>>, \A x \in Handle \ {h} : id'[x] = id[x],
             NEW kind, NEW other, NEW next, Start(t, kind, h, other, next),
             next \in {"dec", "first", "inc", "store"},
             next \in {"dec", "first"} => id'[h] = id[h],
             next \in {"inc", "store"} => id[h] = 0,
             next = "store" => kind = "moveAssign"
      PROVE  Counts'
  <2>1. /\ pc'[t] = next /\ Busy(t)' /\ op'[t].self = h /\ op'[t].kind = kind
        /\ \A u \in Thread \ {t} : pc'[u] = pc[u] /\ op'[u] = op[u]
    BY <1>4, <1>8
  <2>2. Stake(h) = id[h]
    BY <1>8, StakeOther, NoneAssumption DEF OtherStakes, Uses
  <2>3. Stake(h)' = id[h]
    BY <1>2, <1>8, <2>1 DEF SelfStakes, Share
  <2>4. \A x \in Handle \ {h} : Stake(x)' = Stake(x)
    BY <1>1, <1>3, <1>8, <2>1, StakeFrame
  <2> QED
    BY <1>3, <1>8, <2>1, <2>2, <2>3, <2>4, CountsCalm
<1>9. ASSUME NEW h \in Handle, Destruct(t, h)
      PROVE  Counts'
  <2>1. /\ h \in live /\ UNCHANGED <<id, poolVars>>
        /\ \A u \in Thread : Busy(u) => h \notin Uses(u)
    BY <1>9, Untouched DEF Destruct
  <2>2. CASE id[h] = 0 /\ live' = live \ {h} /\ UNCHANGED <<pc, op>>
    <3>1. Stake(h) = 0 /\ Stake(h)' = 0
      BY <2>1, <2>2, StakeOther, NoneAssumption DEF OtherStakes, Uses, Stake
    <3>2. \A x \in Handle \ {h} : Stake(x)' = Stake(x)
      BY <1>1, <1>3, <2>1, <2>2, StakeFrame DEF Busy
    <3> QED
      BY <2>1, <2>2, <3>1, <3>2, CountsCalm
  <2>3. CASE Start(t, "destroy", h, None, "dec") /\ UNCHANGED live
    BY <1>8, <2>1, <2>3
  <2> QED
    BY <1>9, <2>2, <2>3 DEF Destruct
<1>10. ASSUME NEW h \in Handle, NEW o \in Handle, LockBoth(t, h, o)
       PROVE  h \in live /\ \A u \in Thread : Busy(u) => h \notin Uses(u)
  BY <1>10, Untouched DEF LockBoth, Usable
<1>11. ASSUME NEW h \in Handle, NEW o \in Handle, CopyAssign(t, h, o)
       PROVE  Counts'
  <2>1. UNCHANGED <<live, poolVars>> /\ \A x \in Handle \ {h} : id'[x] = id[x]
    BY <1>11 DEF CopyAssign, TypeOK
  <2> QED
    BY <1>8, <1>10, <1>11, <2>1 DEF CopyAssign
<1>12. ASSUME NEW h \in Handle, NEW o \in Handle, MoveAssign(t, h, o)
       PROVE  Counts'
  BY <1>8, <1>10, <1>12 DEF MoveAssign
<1> QED
  BY <1>5, <1>6, <1>7, <1>9, <1>11, <1>12 DEF BeginOp

LEMMA CountsStep ==
    ASSUME TypeOK, OpInv, ExclusiveInv, Counts, NEW t \in Thread, Step(t)
    PROVE  Counts'
<1> USE DEF objVars, lockVars
<1>1. OpInv' /\ ExclusiveInv'
  BY OpStep
<1>2. SelfStakes /\ OtherStakes /\ SelfStakes' /\ OtherStakes'
  BY <1>1, StakeSelf, StakeOther, PTL
<1>3. Busy(t) /\ OpFine(t)
  BY DEF Step, InitSlot, Increment, Drop, LockFirst, Exchange, Deallocate, Return, Busy, OpInv
<1>4. PICK h \in Handle : h = op[t].self /\ h \in live /\ Stake(h) = Share(t)
  BY <1>2, <1>3, NoneAssumption DEF SelfStakes, OpFine, Op, Uses
<1>5. op[t].sid \in Slot \cup {0} /\ op[t].oid \in Slot \cup {0}
  BY <1>3 DEF OpFine, Op
\* The operand o of an operation counts for the slot it names.
<1>6. ASSUME op[t].other # None
      PROVE  /\ op[t].other \in Handle /\ op[t].other \in live /\ op[t].other # h
             /\ \A u \in Thread : Busy(u) => op[u].self # op[t].other
             /\ Stake(op[t].other) = id[op[t].other]
  <2>1. op[t].other \in Handle /\ op[t].other \in live /\ op[t].other # h
    BY <1>3, <1>4, <1>6 DEF OpFine, Op, Uses
  <2>2. \A u \in Thread : Busy(u) => op[u].self # op[t].other
    BY <1>3, <1>4, <1>6, <2>1, NoneAssumption DEF ExclusiveInv, Uses
  <2> QED
    BY <1>2, <2>1, <2>2 DEF OtherStakes
\* A step that goes on to position next.
<1>7. ASSUME NEW next, GoTo(t, next), UNCHANGED op, next # "idle"
      PROVE  /\ pc'[t] = next /\ Busy(t)' /\ op'[t] = op[t]
             /\ \A u \in Thread \ {t} : pc'[u] = pc[u] /\ op'[u] = op[u]
             /\ Stake(h)' = Share(t)'
  <2>1. /\ pc'[t] = next /\ Busy(t)' /\ op'[t] = op[t]
        /\ \A u \in Thread \ {t} : pc'[u] = pc[u] /\ op'[u] = op[u]
    BY <1>7 DEF GoTo, TypeOK, Busy
  <2> QED
    BY <1>2, <1>4, <2>1 DEF SelfStakes
\* A step that ends the operation.
<1>8. ASSUME Done(t)
      PROVE  /\ pc'[t] = "idle" /\ ~Busy(t)'
             /\ \A u \in Thread \ {t} : pc'[u] = pc[u] /\ op'[u] = op[u]
             /\ \A u \in Thread : Busy(u)' => op'[u].self # h
  <2>1. /\ pc'[t] = "idle" /\ ~Busy(t)'
        /\ \A u \in Thread \ {t} : pc'[u] = pc[u] /\ op'[u] = op[u]
    BY <1>8 DEF Done, TypeOK, Busy
  <2> QED
    BY <1>3, <1>4, <2>1, OneActor DEF Busy
<1>9. ASSUME NEW x \in Handle, x # h, id'[x] = id[x], x \in live' <=> x \in live,
             \A u \in Thread \ {t} : pc'[u] = pc[u] /\ op'[u] = op[u],
             Busy(t)' => op'[t] = op[t]
      PROVE  Stake(x)' = Stake(x)
  BY <1>1, <1>4, <1>9, StakeFrame
<1>10. CASE InitSlot(t)
  <2>1. /\ pc[t] = "init" /\ Done(t) /\ present' = present \cup {id[h]}
        /\ UNCHANGED <<live, id, allocated, refCount>>
    BY <1>4, <1>10 DEF InitSlot
  <2>2. Stake(h) = id[h] /\ Stake(h)' = id[h] /\ id[h] # 0
    BY <1>2, <1>3, <1>4, <1>8, <2>1 DEF Share, OtherStakes, OpFine
  <2>3. \A x \in Handle : Stake(x)' = Stake(x)
    BY <1>8, <1>9, <2>1, <2>2
  <2>4. \A s : Sharers(s)' = Sharers(s)
    BY <2>3 DEF Sharers
  <2>5. CountInv'
    BY <2>1, <2>4 DEF Counts, CountInv
  <2>6. FreeInv'
    BY <1>8, <2>1 DEF Counts, FreeInv
  <2>7. id[h] \in allocated /\ refCount[id[h]] # 0
    BY <1>4, <2>2, Positive DEF Counts
  <2>8. PresentInv'
    BY <1>4, <1>8, <2>1, <2>2, <2>3, <2>7 DEF Counts, PresentInv
  <2> QED
    BY <2>5, <2>6, <2>8 DEF Counts
<1>11. CASE Increment(t)
  <2> DEFINE s == op[t].oid
  <2>1. /\ pc[t] = "inc" /\ Done(t) /\ refCount' = [refCount EXCEPT ![s] = @ + 1]
        /\ UNCHANGED <<live, id, allocated, present>>
    BY <1>11 DEF Increment
  <2>2. s # 0 /\ id[h] = s /\ op[t].other # None /\ id[op[t].other] = s
    BY <1>3, <1>4, <2>1 DEF OpFine
  <2>3. Stake(h) = 0 /\ Stake(h)' = s
    BY <1>2, <1>4, <1>8, <2>1, <2>2 DEF Share, OtherStakes
  <2>4. \A x \in Handle \ {h} : Stake(x)' = Stake(x)
    BY <1>8, <1>9, <2>1
  <2>5. s \in Slot /\ s \in allocated /\ refCount[s] \in Nat \ {0}
    BY <1>5, <1>6, <2>2, Positive DEF Counts
  <2>6. CountInv'
    BY <1>4, <1>5, <2>1, <2>2, <2>3, <2>4, <2>5, CountMove DEF Counts, TypeOK
  <2>7. FreeInv'
    BY <1>8, <2>1, <2>5 DEF Counts, FreeInv, TypeOK
  <2>8. s \in present
    BY <1>6, <2>2 DEF Counts, PresentInv, Busy
  <2>9. PresentInv'
    BY <1>8, <2>1, <2>3, <2>4, <2>5, <2>8 DEF Counts, PresentInv, TypeOK
  <2> QED
    BY <2>6, <2>7, <2>9 DEF Counts
<1>12. CASE Drop(t)
  <2> DEFINE s == op[t].sid
  <2> DEFINE next == IF LastReference(refCount[s] - 1) THEN "free" ELSE "store"
  <2>1. /\ pc[t] = "dec" /\ GoTo(t, next) /\ refCount' = [refCount EXCEPT ![s] = @ - 1]
        /\ present' = IF LastReference(refCount[s] - 1) THEN present \ {s} ELSE present
        /\ UNCHANGED <<live, id, allocated, op>>
    BY <1>12 DEF Drop, Decrement
  <2>2. s # 0 /\ id[h] = s /\ (op[t].kind = "copyAssign" => op[t].oid = 0)
    BY <1>3, <1>4, <2>1 DEF OpFine
  <2>3. Stake(h) = s /\ Stake(h)' = 0
    BY <1>4, <1>7, <2>1, <2>2 DEF Share
  <2>4. \A x \in Handle \ {h} : Stake(x)' = Stake(x)
    BY <1>7, <1>9, <2>1
  <2>5. s \in Slot
    BY <1>5, <2>2
  <2>6. /\ refCount'[s] = refCount[s] - 1
        /\ \A r \in Slot \ {s, 0} : refCount'[r] = refCount[r]
    BY <2>1, <2>5 DEF TypeOK
  <2> QED
    BY <1>4, <2>1, <2>2, <2>3, <2>4, <2>5, <2>6, CountsDrop
<1>13. CASE LockFirst(t)
  <2>1. /\ pc[t] = "first" /\ GoTo(t, "second") /\ UNCHANGED <<live, id, poolVars, op>>
    BY <1>13 DEF LockFirst
  <2>2. Stake(h)' = Stake(h)
    BY <1>4, <1>7, <2>1 DEF Share
  <2>3. \A x \in Handle : Stake(x)' = Stake(x)
    BY <1>7, <1>9, <2>1, <2>2
  <2> QED
    BY <1>7, <2>1, <2>3, CountsCalm
<1>14. CASE Exchange(t)
  <2> DEFINE s == op[t].sid
  <2> DEFINE o == op[t].oid
  <2> DEFINE next == IF LastReference(refCount[s] - 1) THEN "free" ELSE "store"
  <2>1. /\ pc[t] = "second" /\ GoTo(t, next)
        /\ refCount' = [refCount EXCEPT ![o] = @ + 1, ![s] = @ - 1]
        /\ present' = IF LastReference(refCount[s] - 1) THEN present \ {s} ELSE present
        /\ UNCHANGED <<live, id, allocated, op>>
    BY <1>14 DEF Exchange
  <2>2. /\ s # 0 /\ o # 0 /\ s # o /\ id[h] = s /\ op[t].kind = "copyAssign"
        /\ op[t].other # None /\ id[op[t].other] = o
    BY <1>3, <1>4, <2>1 DEF OpFine, Assigning
  <2>3. Stake(h) = s /\ Stake(h)' = o
    BY <1>4, <1>7, <2>1, <2>2 DEF Share
  <2>4. \A x \in Handle \ {h} : Stake(x)' = Stake(x)
    BY <1>7, <1>9, <2>1
  <2>5. /\ s \in Slot /\ o \in Slot
        /\ refCount'[s] = refCount[s] - 1 /\ refCount'[o] = refCount[o] + 1
        /\ \A r \in Slot \ {s, o} : refCount'[r] = refCount[r]
    BY <1>5, <2>1, <2>2 DEF TypeOK
  <2>6. o \in present
    BY <1>6, <2>2 DEF Counts, PresentInv, Busy
  <2> QED
    BY <1>4, <2>1, <2>2, <2>3, <2>4, <2>5, <2>6, CountsDrop
<1>15. CASE Deallocate(t)
  <2> DEFINE s == op[t].sid
  <2>1. /\ pc[t] = "free" /\ GoTo(t, "store") /\ allocated' = allocated \ {s}
        /\ UNCHANGED <<live, id, present, refCount, op>>
    BY <1>15 DEF Deallocate
  <2>2. Stake(h)' = Stake(h)
    BY <1>4, <1>7, <2>1 DEF Share
  <2>3. \A x \in Handle : Stake(x)' = Stake(x)
    BY <1>7, <1>9, <2>1, <2>2
  <2>4. s \in allocated /\ s \in Slot /\ refCount[s] = 0
    BY <2>1 DEF Counts, FreeInv, TypeOK
  <2>5. Sharers(s) = {}
    BY <2>4, SharersFinite, FS_EmptySet DEF Counts, CountInv
  <2>6. \A r : Sharers(r)' = Sharers(r)
    BY <2>3 DEF Sharers
  <2>7. CountInv'
    BY <2>1, <2>5, <2>6 DEF Counts, CountInv
  <2>8. FreeInv'
    BY <1>7, <2>1 DEF Counts, FreeInv
  <2>9. PresentInv'
    BY <1>7, <2>1, <2>3, <2>4 DEF Counts, PresentInv
  <2> QED
    BY <2>7, <2>8, <2>9 DEF Counts
<1>16. CASE Return(t)
  <2>1. /\ pc[t] = "store" /\ Done(t) /\ UNCHANGED poolVars
        /\ op[t].kind = "destroy" \/ Assigning(t)
    BY <1>3, <1>16 DEF Return, OpFine
  <2>2. Stake(h) = IF op[t].kind = "copyAssign" THEN op[t].oid ELSE 0
    BY <1>4, <2>1 DEF Share
  <2>3. CASE op[t].kind = "destroy"
    <3>1. live' = live \ {h} /\ \A x \in Handle \ {h} : id'[x] = id[x]
      BY <1>4, <1>16, <2>3 DEF Return, TypeOK
    <3>2. Stake(h)' = Stake(h)
      BY <2>2, <2>3, <3>1 DEF Stake
    <3>3. \A x \in Handle : Stake(x)' = Stake(x)
      BY <1>8, <1>9, <2>1, <3>1, <3>2
    <3> QED
      BY <1>8, <2>1, <3>3, CountsCalm
  <2>4. CASE op[t].kind = "copyAssign"
    <3>1. UNCHANGED live /\ id' = [id EXCEPT ![h] = op[t].oid]
      BY <1>4, <1>16, <2>4 DEF Return, FinalId
    <3>2. Stake(h)' = op[t].oid
      BY <1>2, <1>4, <1>8, <2>1, <3>1 DEF OtherStakes, TypeOK
    <3>3. \A x \in Handle : Stake(x)' = Stake(x)
      BY <1>8, <1>9, <2>1, <2>2, <2>4, <3>1, <3>2
    <3> QED
      BY <1>8, <2>1, <3>3, CountsCalm
  <2>5. CASE op[t].kind = "moveAssign"
    <3>1. PICK o : o = op[t].other
      OBVIOUS
    <3>2. /\ o # None /\ id[o] = op[t].oid /\ UNCHANGED live
          /\ id' = [id EXCEPT ![h] = op[t].oid, ![o] = 0]
      BY <1>3, <1>4, <1>16, <2>5, <3>1 DEF Return, FinalId, MovedFrom, OpFine, Assigning
    <3>3. /\ o \in Handle /\ o \in live /\ o # h /\ Stake(o) = op[t].oid
          /\ \A u \in Thread : Busy(u) => op[u].self # o
      BY <1>6, <3>1, <3>2
    <3>4. id'[h] = op[t].oid /\ id'[o] = 0
      BY <1>4, <3>2, <3>3 DEF TypeOK
    <3>5. \A u \in Thread : Busy(u)' => op'[u].self # h /\ op'[u].self # o
      BY <1>8, <2>1, <3>3 DEF Busy
    <3>6. Stake(h)' = op[t].oid /\ Stake(o)' = 0
      BY <1>2, <1>4, <3>2, <3>3, <3>4, <3>5 DEF OtherStakes
    <3>7. \A x \in Handle \ {h, o} : id'[x] = id[x]
      BY <3>2 DEF TypeOK
    <3>8. \A x \in Handle \ {h, o} : Stake(x)' = Stake(x)
      BY <1>8, <1>9, <2>1, <3>2, <3>7
    <3>9. \A u \in Thread : pc[u] = "init" => op[u].self # o
      BY <3>3 DEF Busy
    <3> QED
      BY <1>4, <1>8, <2>1, <2>2, <2>5, <3>2, <3>3, <3>6, <3>8, <3>9, CountsHandOver
  <2> QED
    BY <2>1, <2>3, <2>4, <2>5 DEF Assigning
<1> QED
  BY <1>10, <1>11, <1>12, <1>13, <1>14, <1>15, <1>16 DEF Step

-----------------------------------------------------------------------------
\* Types, and the invariant as a whole.

LEMMA TypeBegin ==
    ASSUME TypeOK, NEW t \in Thread, BeginOp(t)
    PROVE  TypeOK'
<1> USE DEF TypeOK, Begin, objVars, poolVars, lockVars
<1>1. ASSUME NEW kind \in OpKind, NEW h \in Handle, NEW o \in Handle \cup {None},
             NEW next \in PcState, Start(t, kind, h, o, next)
      PROVE  pc' \in [Thread -> PcState] /\ op' \in [Thread -> Op \cup {None}]
  <2>1. (IF o = None THEN 0 ELSE id[o]) \in Slot \cup {0}
    OBVIOUS
  <2>2. op'[t] \in Op
    BY <1>1, <2>1 DEF Start, Op
  <2> QED
    BY <1>1, <2>2 DEF Start
<1>2. begun' \in Nat
  BY DEF BeginOp, Create, CopyConstruct, MoveConstruct, Destruct, CopyAssign, MoveAssign, LockBoth
<1>3. ASSUME NEW h \in Handle, NEW s \in Slot, Create(t, h, s)
      PROVE  TypeOK'
  BY <1>1, <1>2, <1>3 DEF Create, OpKind, PcState
<1>4. ASSUME NEW h \in Handle, NEW o \in Handle, CopyConstruct(t, h, o)
      PROVE  TypeOK'
  <2>1. pc' \in [Thread -> PcState] /\ op' \in [Thread -> Op \cup {None}]
    BY <1>1, <1>4 DEF CopyConstruct, OpKind, PcState
  <2> QED
    BY <1>2, <1>4, <2>1 DEF CopyConstruct
<1>5. ASSUME NEW h \in Handle, NEW o \in Handle, MoveConstruct(t, h, o)
      PROVE  TypeOK'
  BY <1>2, <1>5 DEF MoveConstruct
<1>6. ASSUME NEW h \in Handle, Destruct(t, h)
      PROVE  TypeOK'
  <2>1. pc' \in [Thread -> PcState] /\ op' \in [Thread -> Op \cup {None}]
    BY <1>1, <1>6 DEF Destruct, OpKind, PcState
  <2> QED
    BY <1>2, <1>6, <2>1 DEF Destruct
<1>7. ASSUME NEW h \in Handle, NEW o \in Handle, CopyAssign(t, h, o)
      PROVE  TypeOK'
  <2>1. pc' \in [Thread -> PcState] /\ op' \in [Thread -> Op \cup {None}]
    BY <1>1, <1>7 DEF CopyAssign, OpKind, PcState
  <2> QED
    BY <1>2, <1>7, <2>1 DEF CopyAssign, LockBoth
<1>8. ASSUME NEW h \in Handle, NEW o \in Handle, MoveAssign(t, h, o)
      PROVE  TypeOK'
  <2>1. pc' \in [Thread -> PcState] /\ op' \in [Thread -> Op \cup {None}]
    BY <1>1, <1>8 DEF MoveAssign, OpKind, PcState
  <2> QED
    BY <1>2, <1>8, <2>1 DEF MoveAssign, LockBoth
<1> QED
  BY <1>3, <1>4, <1>5, <1>6, <1>7, <1>8 DEF BeginOp

\* A handle about to be dropped still counts for its slot.
LEMMA DropPositive ==
    ASSUME TypeOK, OpInv, ExclusiveInv, CountInv, NEW t \in Thread, pc[t] \in {"dec", "second"}
    PROVE  op[t].sid \in Slot /\ refCount[op[t].sid] \in Nat \ {0}
<1>1. Busy(t) /\ OpFine(t)
  BY DEF Busy, OpInv
<1>2. op[t].self \in Handle /\ op[t].sid \in Slot \cup {0} /\ op[t].sid # 0
  BY <1>1 DEF OpFine, Op
<1>3. Stake(op[t].self) = op[t].sid
  BY <1>1, StakeSelf DEF SelfStakes, Share, OpFine
<1> QED
  BY <1>2, <1>3, Positive

LEMMA TypeStep ==
    ASSUME TypeOK, OpInv, ExclusiveInv, CountInv, NEW t \in Thread, Step(t)
    PROVE  TypeOK'
<1> USE DEF TypeOK, objVars, poolVars, lockVars, PcState
<1>1. op[t] \in Op
  BY DEF Step, InitSlot, Increment, Drop, LockFirst, Exchange, Deallocate, Return, Busy,
         OpInv, OpFine
<1>2. /\ op[t].self \in Handle /\ op[t].other \in Handle \cup {None}
      /\ op[t].sid \in Slot \cup {0} /\ op[t].oid \in Slot \cup {0}
  BY <1>1 DEF Op
<1>3. Unlocked(t) \in [Handle -> Thread \cup {None}]
  BY DEF Unlocked
<1>4. ASSUME NEW next \in PcState, GoTo(t, next)
      PROVE  pc' \in [Thread -> PcState]
  BY <1>4 DEF GoTo
<1>5. ASSUME Done(t)
      PROVE  pc' \in [Thread -> PcState] /\ op' \in [Thread -> Op \cup {None}]
  BY <1>5 DEF Done
<1>6. CASE InitSlot(t)
  <2>1. id[op[t].self] \in Slot
    BY <1>2, <1>6 DEF InitSlot, OpInv, OpFine, Busy
  <2> QED
    BY <1>5, <1>6, <2>1 DEF InitSlot
<1>7. CASE Increment(t)
  <2>1. op[t].oid \in Slot
    BY <1>2, <1>7 DEF Increment, OpInv, OpFine, Busy
  <2>2. refCount' = [refCount EXCEPT ![op[t].oid] = refCount[op[t].oid] + 1]
    BY <1>7 DEF Increment
  <2>3. refCount' \in [Slot -> Nat]
    BY <2>1, <2>2
  <2> QED
    BY <1>3, <1>5, <1>7, <2>3 DEF Increment
<1>8. CASE Drop(t)
  <2>1. op[t].sid \in Slot /\ refCount[op[t].sid] - 1 \in Nat
    BY <1>8, DropPositive DEF Drop
  <2>2. refCount' \in [Slot -> Nat]
    BY <1>8, <2>1 DEF Drop, Decrement
  <2> QED
    BY <1>4, <1>8, <2>2 DEF Drop, Decrement
<1>9. CASE LockFirst(t)
  BY <1>4, <1>9 DEF LockFirst
<1>10. CASE Exchange(t)
  <2> DEFINE s == op[t].sid
  <2> DEFINE o == op[t].oid
  <2>1. s \in Slot /\ refCount[s] - 1 \in Nat /\ s # o
    BY <1>10, DropPositive DEF Exchange, OpInv, OpFine, Busy
  <2>2. refCount' = [refCount EXCEPT ![o] = @ + 1, ![s] = @ - 1]
    BY <1>10 DEF Exchange
  <2> HIDE DEF s, o
  <2>3. refCount' \in [Slot -> Nat]
    BY <2>1, <2>2
  <2> QED
    BY <1>4, <1>10, <2>3 DEF Exchange
<1>11. CASE Deallocate(t)
  BY <1>4, <1>11 DEF Deallocate
<1>12. CASE Return(t)
  <2>1. FinalId(op[t]) \in Slot \cup {0}
    BY <1>2 DEF FinalId
  <2>2. id' \in [Handle -> Slot \cup {0}] /\ live' \in SUBSET Handle
    BY <1>12, <2>1 DEF Return, MovedFrom
  <2> QED
    BY <1>3, <1>5, <1>12, <2>2 DEF Return
<1> QED
  BY <1>6, <1>7, <1>8, <1>9, <1>10, <1>11, <1>12 DEF Step

LEMMA IndInvStep == IndInv /\ [Next]_vars => IndInv'
<1> SUFFICES ASSUME IndInv, [Next]_vars
             PROVE  IndInv'
  OBVIOUS
<1> USE DEF IndInv, Counts
<1>1. ASSUME NEW t \in Thread, BeginOp(t)
      PROVE  IndInv'
  BY <1>1, TypeBegin, OpBegin, CountsBegin
<1>2. ASSUME NEW t \in Thread, Step(t)
      PROVE  IndInv'
  BY <1>2, TypeStep, OpStep, CountsStep
<1>3. CASE UNCHANGED vars
  <2>1. OpInv' /\ ExclusiveInv'
    BY <1>3 DEF vars, objVars, lockVars, OpInv, ExclusiveInv, OpFine, Busy, Uses, Assigning
  <2>2. TypeOK'
    BY <1>3 DEF vars, objVars, poolVars, lockVars, TypeOK
  <2>3. \A h : Stake(h)' = Stake(h)
    BY <1>3 DEF vars, objVars, Stake, Counted
  <2>4. \A s : Sharers(s)' = Sharers(s)
    BY <2>3 DEF Sharers
  <2>5. CountInv' /\ FreeInv' /\ PresentInv'
    BY <1>3, <2>3, <2>4 DEF vars, poolVars, CountInv, FreeInv, PresentInv
  <2> QED
    BY <2>1, <2>2, <2>5
<1> QED
  BY <1>1, <1>2, <1>3 DEF Next

\* The counts of the slots, and what the operations under way still rely on, are
\* preserved by every constructor, assignment and destructor of the wrapper.
THEOREM Invariance == Spec => []IndInv
<1>1. Init => IndInv
  BY OpInit, CountsInit DEF IndInv, Counts
<1> QED
  BY <1>1, IndInvStep, PTL DEF Spec

-----------------------------------------------------------------------------
\* What the runs check, for every set of threads and handles.

\* The reference count of a slot is the number of handles counted for it, whatever
\* copies, moves, assignments and destructions run at the same time.
THEOREM CountsExact == Spec => []RefCountExact
<1>1. IndInv => RefCountExact
  <2> SUFFICES ASSUME IndInv, NEW s \in Slot
               PROVE  IF s \in allocated
                      THEN refCount[s] = Cardinality({h \in live : Counted(h) = s})
                      ELSE \A h \in live : Counted(h) # s
    BY DEF RefCountExact
  <2>1. s # 0
    BY SlotAssumption DEF Slot
  <2>2. Sharers(s) = {h \in live : Counted(h) = s}
    BY <2>1 DEF Sharers, Stake, IndInv, TypeOK
  <2> QED
    BY <2>2 DEF IndInv, CountInv
<1> QED
  BY <1>1, Invariance, PTL

\* A handle that no operation is changing names an allocated slot whose Vulkan
\* object exists: no other handle's destructor or assignment takes it away.
THEOREM HandlesStayValid == Spec => []HandlesValid
<1>1. IndInv => HandlesValid
  <2> SUFFICES ASSUME IndInv, NEW h \in live, ~Involved(h), id[h] # 0
               PROVE  id[h] \in allocated /\ id[h] \in present
    BY DEF HandlesValid
  <2> USE DEF IndInv
  <2>1. h \in Handle /\ \A t \in Thread : Busy(t) => op[t].self # h
    BY DEF Involved, Busy, TypeOK
  <2>2. Stake(h) = id[h]
    BY <2>1, StakeOther DEF OtherStakes
  <2>3. id[h] \in allocated
    BY <2>1, <2>2, Positive
  <2>4. ~\E t \in Thread : pc[t] = "init" /\ op[t].self = h
    BY <2>1 DEF Busy
  <2> QED
    BY <2>1, <2>2, <2>3, <2>4 DEF PresentInv
<1> QED
  BY <1>1, Invariance, PTL

\* Once every thread is out of the wrapper, a slot that is allocated or whose
\* object exists is named by some handle.
THEOREM NothingLeaks == Spec => []NoLeak
<1>1. IndInv => NoLeak
  <2> SUFFICES ASSUME IndInv, \A t \in Thread : pc[t] = "idle",
                      NEW s \in allocated \cup present
               PROVE  \E h \in live : id[h] = s
    BY DEF NoLeak
  <2> USE DEF IndInv
  <2>1. s \in allocated /\ s \in Slot
    BY DEF PresentInv, TypeOK
  <2>2. refCount[s] # 0
    BY <2>1 DEF FreeInv
  <2>3. Cardinality(Sharers(s)) # 0
    BY <2>1, <2>2 DEF CountInv
  <2>4. PICK h \in Handle : Stake(h) = s
    BY <2>3, FS_EmptySet DEF Sharers
  <2>5. h \in live /\ s # 0
    BY <2>1, <2>4, SlotAssumption DEF Stake, Slot
  <2>6. Stake(h) = id[h]
    BY <2>5, StakeOther DEF OtherStakes, Busy
  <2> QED
    BY <2>4, <2>5, <2>6
<1> QED
  BY <1>1, Invariance, PTL
=============================================================================
