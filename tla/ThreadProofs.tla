---------------------------- MODULE ThreadProofs ----------------------------
(***************************************************************************)
(* What threads do to each other.  The calls of LockOrder take their locks *)
(* in one order of classes and ids (OrderKept), for any number of threads, *)
(* slots and queues, and therefore never deadlock (NoDeadlock): among the  *)
(* locks held by a set of threads that waits only for itself there would be*)
(* no highest one.                                                         *)
(*                                                                         *)
(* The threads of FrameLoop, for any number of windows, frames and failures*)
(* and any depth of the queues: Control says which threads there are when, *)
(* what they own and who has yet to report a failure, FrameInv in which    *)
(* order the frames stand in the queues and hands of a window's threads.   *)
(***************************************************************************)
EXTENDS FrameLoop, LockOrder, SequenceTheorems, WellFoundedInduction, TLAPS

-----------------------------------------------------------------------------
\* Sequences of requests.

LocksIn(s) == UNION {s[i].locks : i \in DOMAIN s}

AllBelow(s, r) == \A l \in LocksIn(s), m \in LocksIn(r) : Below(l, m)

Ascending(s) ==
    \A i, j \in DOMAIN s : i < j =>
        \A l \in s[i].locks, m \in s[j].locks : Below(l, m)

\* What a call asks for: locks of the system, in ascending order.
InOrder(s) ==
    /\ s \in Seq(Request)
    /\ \A i \in DOMAIN s : s[i].locks # {}
    /\ Ascending(s)

\* A single request, as the helpers of LockOrder build it.
LEMMA Single ==
    ASSUME NEW c \in Class, NEW ids \in SUBSET (0..MaxId), ids # {}, NEW mode \in Mode
    PROVE  /\ InOrder(AnyOf(c, ids, mode))
           /\ LocksIn(AnyOf(c, ids, mode)) = [class : {c}, id : ids]
<1> DEFINE q == [locks |-> [class : {c}, id : ids], mode |-> mode]
<1>1. AnyOf(c, ids, mode) = <<q>>
  BY DEF AnyOf
<1>2. [class : {c}, id : ids] \in SUBSET Lock
  BY DEF Lock
<1>3. [class : {c}, id : ids] # {}
  <2>1. PICK i \in ids : TRUE
    OBVIOUS
  <2>2. [class |-> c, id |-> i] \in [class : {c}, id : ids]
    BY <2>1
  <2>3. QED
    BY <2>2
<1>4. q \in Request /\ q.locks # {}
  BY <1>2, <1>3 DEF Request
<1> HIDE DEF q
<1>5. <<q>> \in Seq(Request) /\ DOMAIN <<q>> = {1} /\ <<q>>[1] = q
  BY <1>4
<1>6. InOrder(<<q>>)
  <2>1. \A i \in DOMAIN <<q>> : i = 1 /\ <<q>>[i].locks # {}
    BY <1>4, <1>5
  <2>2. Ascending(<<q>>)
    BY <2>1 DEF Ascending
  <2>3. QED
    BY <1>5, <2>1, <2>2 DEF InOrder
<1>7. LocksIn(<<q>>) = q.locks
  BY <1>5 DEF LocksIn
<1>8. QED
  BY <1>1, <1>6, <1>7 DEF q

\* Two ascending sequences, the first below the second, make an ascending one.
LEMMA Append2 ==
    ASSUME NEW s, NEW r, InOrder(s), InOrder(r), AllBelow(s, r)
    PROVE  /\ InOrder(s \o r)
           /\ LocksIn(s \o r) = LocksIn(s) \cup LocksIn(r)
<1>1. s \in Seq(Request) /\ r \in Seq(Request)
  BY DEF InOrder
<1>2. /\ s \o r \in Seq(Request)
      /\ DOMAIN (s \o r) = 1..(Len(s) + Len(r))
      /\ \A i \in 1..(Len(s) + Len(r)) :
            (s \o r)[i] = IF i <= Len(s) THEN s[i] ELSE r[i - Len(s)]
      /\ DOMAIN s = 1..Len(s) /\ DOMAIN r = 1..Len(r)
      /\ Len(s) \in Nat /\ Len(r) \in Nat
  BY <1>1
<1>3. ASSUME NEW i \in DOMAIN (s \o r)
      PROVE  (s \o r)[i].locks # {}
  <2>1. CASE i <= Len(s)
    <3>1. i \in DOMAIN s /\ (s \o r)[i] = s[i]
      BY <1>2, <1>3, <2>1
    <3>2. QED
      BY <3>1 DEF InOrder
  <2>2. CASE i > Len(s)
    <3>1. i - Len(s) \in DOMAIN r /\ (s \o r)[i] = r[i - Len(s)]
      BY <1>2, <1>3, <2>2
    <3>2. QED
      BY <3>1 DEF InOrder
  <2>3. QED
    BY <1>2, <1>3, <2>1, <2>2
<1>4. Ascending(s \o r)
  <2>1. SUFFICES ASSUME NEW i \in DOMAIN (s \o r), NEW j \in DOMAIN (s \o r), i < j,
                        NEW l \in (s \o r)[i].locks, NEW m \in (s \o r)[j].locks
                 PROVE  Below(l, m)
    BY DEF Ascending
  <2>2. CASE j <= Len(s)
    <3>1. i \in DOMAIN s /\ j \in DOMAIN s /\ l \in s[i].locks /\ m \in s[j].locks
      BY <1>2, <2>1, <2>2
    <3>2. QED
      BY <2>1, <3>1 DEF InOrder, Ascending
  <2>3. CASE i > Len(s)
    <3>1. /\ i - Len(s) \in DOMAIN r /\ j - Len(s) \in DOMAIN r
          /\ i - Len(s) < j - Len(s)
          /\ l \in r[i - Len(s)].locks /\ m \in r[j - Len(s)].locks
      BY <1>2, <2>1, <2>3
    <3>2. QED
      BY <3>1 DEF InOrder, Ascending
  <2>4. CASE i <= Len(s) /\ j > Len(s)
    <3>1. i \in DOMAIN s /\ j - Len(s) \in DOMAIN r
      BY <1>2, <2>1, <2>4
    <3>2. l \in s[i].locks /\ m \in r[j - Len(s)].locks
      BY <1>2, <2>1, <2>4
    <3>3. l \in LocksIn(s) /\ m \in LocksIn(r)
      BY <3>1, <3>2 DEF LocksIn
    <3>4. QED
      BY <3>3 DEF AllBelow
  <2>5. QED
    BY <1>2, <2>1, <2>2, <2>3, <2>4
<1>5. LocksIn(s \o r) = LocksIn(s) \cup LocksIn(r)
  <2>1. ASSUME NEW l \in LocksIn(s \o r)
        PROVE  l \in LocksIn(s) \cup LocksIn(r)
    <3>1. PICK i \in DOMAIN (s \o r) : l \in (s \o r)[i].locks
      BY <2>1 DEF LocksIn
    <3>2. CASE i <= Len(s)
      <4>1. i \in DOMAIN s /\ l \in s[i].locks
        BY <1>2, <3>1, <3>2
      <4>2. QED
        BY <4>1 DEF LocksIn
    <3>3. CASE i > Len(s)
      <4>1. i - Len(s) \in DOMAIN r /\ l \in r[i - Len(s)].locks
        BY <1>2, <3>1, <3>3
      <4>2. QED
        BY <4>1 DEF LocksIn
    <3>4. QED
      BY <1>2, <3>1, <3>2, <3>3
  <2>2. ASSUME NEW l \in LocksIn(s)
        PROVE  l \in LocksIn(s \o r)
    <3>1. PICK i \in DOMAIN s : l \in s[i].locks
      BY <2>2 DEF LocksIn
    <3>2. i \in DOMAIN (s \o r) /\ (s \o r)[i] = s[i]
      BY <1>2, <3>1
    <3>3. QED
      BY <3>1, <3>2 DEF LocksIn
  <2>3. ASSUME NEW l \in LocksIn(r)
        PROVE  l \in LocksIn(s \o r)
    <3>1. PICK i \in DOMAIN r : l \in r[i].locks
      BY <2>3 DEF LocksIn
    <3>2. /\ i + Len(s) \in DOMAIN (s \o r)
          /\ (s \o r)[i + Len(s)] = r[i]
      BY <1>2, <3>1
    <3>3. QED
      BY <3>1, <3>2 DEF LocksIn
  <2>4. QED
    BY <2>1, <2>2, <2>3
<1>6. QED
  BY <1>2, <1>3, <1>4, <1>5 DEF InOrder

LEMMA Ranks ==
    /\ ClassRank["executor"] = 1 /\ ClassRank["displayer"] = 2
    /\ ClassRank["pipeline"] = 3 /\ ClassRank["chain"] = 4
    /\ ClassRank["queue"] = 5 /\ ClassRank["buffer"] = 6
    /\ ClassRank["image"] = 7 /\ ClassRank["pushConstant"] = 8
    /\ \A c \in Class : ClassRank[c] \in 1..8
BY DEF ClassRank, Class

\* One lock, taken for writing or reading.
LEMMA OneLock ==
    ASSUME NEW c \in Class, NEW i \in 0..MaxId
    PROVE  /\ InOrder(Write(c, i)) /\ InOrder(Read(c, i))
           /\ \A l \in LocksIn(Write(c, i)) \cup LocksIn(Read(c, i)) :
                 l.class = c /\ l.id = i
<1>1. {i} \in SUBSET (0..MaxId) /\ {i} # {}
  OBVIOUS
<1>2. /\ InOrder(Write(c, i)) /\ InOrder(Read(c, i))
      /\ LocksIn(Write(c, i)) = [class : {c}, id : {i}]
      /\ LocksIn(Read(c, i)) = [class : {c}, id : {i}]
  BY <1>1, Single DEF Write, Read, Mode
<1>3. QED
  BY <1>2

\* Two sequences over different classes, or the same class and ordered ids.
LEMMA ByClass ==
    ASSUME NEW s, NEW r, InOrder(s), InOrder(r),
           \A l \in LocksIn(s), m \in LocksIn(r) :
              ClassRank[l.class] < ClassRank[m.class] \/ (l.class = m.class /\ l.id < m.id)
    PROVE  /\ InOrder(s \o r)
           /\ LocksIn(s \o r) = LocksIn(s) \cup LocksIn(r)
BY Append2 DEF AllBelow, Below

LEMMA QueueLocks ==
    /\ InOrder(PickQueue) /\ InOrder(ChainThenQueue)
    /\ \A l \in LocksIn(PickQueue) \cup LocksIn(ChainThenQueue) :
          l.class \in {"chain", "queue"}
<1>1. /\ InOrder(PickQueue)
      /\ \A l \in LocksIn(PickQueue) : l.class = "queue"
  <2>1. /\ DeviceQueue \in SUBSET (0..MaxId) /\ DeviceQueue # {}
        /\ "queue" \in Class /\ "write" \in Mode
    BY LockAssumption DEF Class, Mode
  <2>2. InOrder(PickQueue) /\ LocksIn(PickQueue) = [class : {"queue"}, id : DeviceQueue]
    BY <2>1, Single DEF PickQueue
  <2>3. QED
    BY <2>2
<1>2. /\ InOrder(Write("chain", 0))
      /\ \A l \in LocksIn(Write("chain", 0)) : l.class = "chain"
  BY OneLock, LockAssumption DEF Class
<1>3. /\ InOrder(ChainThenQueue)
      /\ LocksIn(ChainThenQueue) = LocksIn(Write("chain", 0)) \cup LocksIn(PickQueue)
  BY <1>1, <1>2, ByClass, Ranks DEF ChainThenQueue
<1>4. QED
  BY <1>1, <1>2, <1>3

LEMMA IdOrderLocks ==
    ASSUME NEW c \in Class, NEW a \in 0..MaxId, NEW b \in 0..MaxId, a # b
    PROVE  /\ InOrder(InIdOrder(c, a, b))
           /\ \A l \in LocksIn(InIdOrder(c, a, b)) : l.class = c
<1>1. /\ InOrder(Write(c, a)) /\ InOrder(Write(c, b))
      /\ \A l \in LocksIn(Write(c, a)) : l.class = c /\ l.id = a
      /\ \A l \in LocksIn(Write(c, b)) : l.class = c /\ l.id = b
  BY OneLock
<1>2. CASE a < b
  BY <1>1, <1>2, ByClass DEF InIdOrder
<1>3. CASE b < a
  <2>1. InIdOrder(c, a, b) = Write(c, b) \o Write(c, a)
    BY <1>3, LockAssumption DEF InIdOrder
  <2>2. QED
    BY <1>1, <1>3, <2>1, ByClass
<1>4. a < b \/ b < a
  BY LockAssumption
<1>5. QED
  BY <1>2, <1>3, <1>4

LEMMA BothExecutorsLocks ==
    ASSUME NEW a \in 0..MaxId, NEW b \in 0..MaxId, a # b
    PROVE  InOrder(BothExecutors(a, b))
<1>1. /\ InOrder(Write("executor", a)) /\ InOrder(Read("executor", b))
      /\ \A l \in LocksIn(Write("executor", a)) : l.class = "executor" /\ l.id = a
      /\ \A l \in LocksIn(Read("executor", b)) : l.class = "executor" /\ l.id = b
  BY OneLock DEF Class
<1>2. CASE a < b
  BY <1>1, <1>2, ByClass DEF BothExecutors
<1>3. CASE b < a
  <2>1. BothExecutors(a, b) = Read("executor", b) \o Write("executor", a)
    BY <1>3, LockAssumption DEF BothExecutors
  <2>2. QED
    BY <1>1, <1>3, <2>1, ByClass
<1>4. QED
  BY <1>2, <1>3, LockAssumption

-----------------------------------------------------------------------------
\* The inductive invariant.

LockInv ==
    /\ held \in [Caller -> SUBSET Grant]
    /\ todo \in [Caller -> Seq(Request)]
    /\ \A t \in Caller : InOrder(todo[t])
    /\ OrderKept

\* Every call begins with a request list in the order.
LEMMA CallsInOrder ==
    ASSUME NEW t \in Caller, OrderedCall(t)
    PROVE  /\ Idle(t) /\ UNCHANGED held
           /\ \E s : InOrder(s) /\ todo' = [todo EXCEPT ![t] = s]
<1> USE DEF Begin
<1>i. Idle(t)
  BY DEF OrderedCall
<1> SUFFICES UNCHANGED held /\ \E s : InOrder(s) /\ todo' = [todo EXCEPT ![t] = s]
  BY <1>i
<1>0. /\ Slot \subseteq 0..MaxId
      /\ \A c \in {"executor", "displayer", "pipeline", "buffer", "image", "pushConstant"},
            i \in Slot :
            /\ c \in Class
            /\ InOrder(Write(c, i)) /\ InOrder(Read(c, i))
            /\ \A l \in LocksIn(Write(c, i)) : l.class = c /\ l.id = i
            /\ \A l \in LocksIn(Read(c, i)) : l.class = c /\ l.id = i
  BY OneLock, LockAssumption DEF Class
<1>1. CASE CopyBuffer(t)
  <2>1. PICK e \in Slot, src \in Slot, dst \in Slot :
           src # dst /\ Begin(t, Write("executor", e) \o InIdOrder("buffer", src, dst))
    BY <1>1 DEF CopyBuffer
  <2>2. /\ InOrder(InIdOrder("buffer", src, dst))
        /\ \A l \in LocksIn(InIdOrder("buffer", src, dst)) : l.class = "buffer"
    BY <1>0, <2>1, IdOrderLocks DEF Class
  <2>3. InOrder(Write("executor", e) \o InIdOrder("buffer", src, dst))
    BY <1>0, <2>2, ByClass, Ranks
  <2>4. QED
    BY <2>1, <2>3
<1>2. CASE CopyImage(t)
  <2>1. PICK e \in Slot, src \in Slot, dst \in Slot :
           src # dst /\ Begin(t, Write("executor", e) \o InIdOrder("image", src, dst))
    BY <1>2 DEF CopyImage
  <2>2. /\ InOrder(InIdOrder("image", src, dst))
        /\ \A l \in LocksIn(InIdOrder("image", src, dst)) : l.class = "image"
    BY <1>0, <2>1, IdOrderLocks DEF Class
  <2>3. InOrder(Write("executor", e) \o InIdOrder("image", src, dst))
    BY <1>0, <2>2, ByClass, Ranks
  <2>4. QED
    BY <2>1, <2>3
<1>3. CASE BufferToImage(t)
  <2>1. PICK e \in Slot, src \in Slot, dst \in Slot :
           Begin(t, Write("executor", e) \o Write("buffer", src) \o Write("image", dst))
    BY <1>3 DEF BufferToImage
  <2>2. /\ InOrder(Write("executor", e) \o Write("buffer", src))
        /\ \A l \in LocksIn(Write("executor", e) \o Write("buffer", src)) :
              l.class \in {"executor", "buffer"}
    BY <1>0, ByClass, Ranks
  <2>3. InOrder(Write("executor", e) \o Write("buffer", src) \o Write("image", dst))
    BY <1>0, <2>2, ByClass, Ranks
  <2>4. QED
    BY <2>1, <2>3
<1>4. CASE AddPipeline(t)
  <2>1. PICK e \in Slot, p \in Slot : Begin(t, Write("executor", e) \o Read("pipeline", p))
    BY <1>4 DEF AddPipeline
  <2>2. InOrder(Write("executor", e) \o Read("pipeline", p))
    BY <1>0, ByClass, Ranks
  <2>3. QED
    BY <2>1, <2>2
<1>5. CASE ExecutorWait(t)
  <2>1. PICK e \in Slot, other \in Slot : e # other /\ Begin(t, BothExecutors(e, other))
    BY <1>5 DEF ExecutorWait
  <2>2. InOrder(BothExecutors(e, other))
    BY <1>0, <2>1, BothExecutorsLocks
  <2>3. QED
    BY <2>1, <2>2
<1>6. CASE Commit(t)
  <2>1. PICK e \in Slot, r \in Slot, c \in Leaf, q \in {PickQueue, ChainThenQueue} :
           Begin(t, Write("executor", e) \o q \o Write(c, r))
    BY <1>6 DEF Commit
  <2>2. /\ c \in {"buffer", "image", "pushConstant"}
        /\ InOrder(q)
        /\ \A l \in LocksIn(q) : l.class \in {"chain", "queue"}
    BY QueueLocks DEF Leaf
  <2>3. /\ InOrder(Write("executor", e) \o q)
        /\ \A l \in LocksIn(Write("executor", e) \o q) :
              l.class \in {"executor", "chain", "queue"}
    BY <1>0, <2>2, ByClass, Ranks
  <2>4. InOrder(Write("executor", e) \o q \o Write(c, r))
    BY <1>0, <2>2, <2>3, ByClass, Ranks
  <2>5. QED
    BY <2>1, <2>4
<1>7. CASE DisplayerWait(t)
  <2>1. PICK e \in Slot, d \in Slot : Begin(t, Read("executor", e) \o Write("displayer", d))
    BY <1>7 DEF DisplayerWait
  <2>2. InOrder(Read("executor", e) \o Write("displayer", d))
    BY <1>0, ByClass, Ranks
  <2>3. QED
    BY <2>1, <2>2
<1>8. CASE DisplayLocal(t)
  <2>1. PICK d \in Slot : Begin(t, Read("displayer", d) \o ChainThenQueue)
    BY <1>8 DEF DisplayLocal
  <2>2. InOrder(Read("displayer", d) \o ChainThenQueue)
    BY <1>0, QueueLocks, ByClass, Ranks
  <2>3. QED
    BY <2>1, <2>2
<1>9. CASE Bind(t)
  <2>1. PICK p \in Slot, r \in Slot, c \in Leaf : Begin(t, Read("pipeline", p) \o Write(c, r))
    BY <1>9 DEF Bind
  <2>2. c \in {"buffer", "image", "pushConstant"}
    BY DEF Leaf
  <2>3. InOrder(Read("pipeline", p) \o Write(c, r))
    BY <1>0, <2>2, ByClass, Ranks
  <2>4. QED
    BY <2>1, <2>3
<1>10. CASE DropOwner(t)
  <2>1. PICK o \in Slot, r \in Slot, w \in {"executor", "pipeline"}, c \in Leaf :
           Begin(t, Write(w, o) \o Write(c, r))
    BY <1>10 DEF DropOwner
  <2>2. c \in {"buffer", "image", "pushConstant"}
    BY DEF Leaf
  <2>3. InOrder(Write(w, o) \o Write(c, r))
    BY <1>0, <2>2, ByClass, Ranks
  <2>4. QED
    BY <2>1, <2>3
<1>11. QED
  BY <1>1, <1>2, <1>3, <1>4, <1>5, <1>6, <1>7, <1>8, <1>9, <1>10 DEF OrderedCall

LEMMA NothingHeldInit == LockInit => LockInv
<1>1. InOrder(<< >>)
  BY DEF InOrder, Ascending
<1>2. QED
  BY <1>1 DEF LockInit, LockInv, OrderKept, InOrder

LEMMA OrderStep == LockInv /\ [LockNext]_lockVars => LockInv'
<1> SUFFICES ASSUME LockInv, [LockNext]_lockVars
             PROVE  LockInv'
  OBVIOUS
<1>1. CASE UNCHANGED lockVars
  BY <1>1 DEF LockInv, OrderKept, lockVars
<1>2. ASSUME NEW t \in Caller, OrderedCall(t)
      PROVE  LockInv'
  <2>1. PICK s : InOrder(s) /\ todo' = [todo EXCEPT ![t] = s]
    BY <1>2, CallsInOrder
  <2>2. held[t] = {} /\ held' = held
    BY <1>2, CallsInOrder DEF Idle
  <2>3. s \in Seq(Request)
    BY <2>1 DEF InOrder
  <2>4. \A u \in Caller : todo'[u] = IF u = t THEN s ELSE todo[u]
    BY <2>1 DEF LockInv
  <2>5. todo' \in [Caller -> Seq(Request)]
    BY <2>1, <2>3 DEF LockInv
  <2>6. \A u \in Caller : InOrder(todo'[u])
    BY <2>1, <2>4 DEF LockInv
  <2>7. OrderKept'
    BY <2>2, <2>4 DEF LockInv, OrderKept
  <2>8. QED
    BY <2>2, <2>5, <2>6, <2>7 DEF LockInv
<1>3. ASSUME NEW t \in Caller, Acquire(t)
      PROVE  LockInv'
  <2> DEFINE s == todo[t]
  <2>1. PICK lock \in Head(s).locks :
           held' = [held EXCEPT ![t] = @ \cup {[lock |-> lock, mode |-> Head(s).mode]}]
    BY <1>3 DEF Acquire
  <2>2. /\ s # << >> /\ s \in Seq(Request) /\ InOrder(s)
        /\ todo' = [todo EXCEPT ![t] = Tail(s)]
    BY <1>3 DEF Acquire, LockInv
  <2>3. /\ Len(s) \in Nat \ {0} /\ DOMAIN s = 1..Len(s)
        /\ Head(s) = s[1] /\ s[1] \in Request
        /\ Tail(s) \in Seq(Request)
        /\ DOMAIN Tail(s) = 1..(Len(s) - 1)
        /\ \A i \in 1..(Len(s) - 1) : Tail(s)[i] = s[i + 1]
    BY <2>2
  <2>4. \A i \in DOMAIN Tail(s) : i + 1 \in DOMAIN s /\ Tail(s)[i] = s[i + 1]
    BY <2>3
  <2>5. InOrder(Tail(s))
    <3>1. \A i \in DOMAIN Tail(s) : Tail(s)[i].locks # {}
      BY <2>2, <2>4 DEF InOrder
    <3>2. ASSUME NEW i \in DOMAIN Tail(s), NEW j \in DOMAIN Tail(s), i < j,
                 NEW l \in Tail(s)[i].locks, NEW m \in Tail(s)[j].locks
          PROVE  Below(l, m)
      <4>1. /\ i + 1 \in DOMAIN s /\ j + 1 \in DOMAIN s /\ i + 1 < j + 1
            /\ l \in s[i + 1].locks /\ m \in s[j + 1].locks
        BY <2>3, <2>4, <3>2
      <4>2. QED
        BY <2>2, <4>1 DEF InOrder, Ascending
    <3>3. QED
      BY <2>3, <3>1, <3>2 DEF InOrder, Ascending
  <2>6. [lock |-> lock, mode |-> Head(s).mode] \in Grant
    BY <2>1, <2>3 DEF Request, Grant
  <2>7. ASSUME NEW i \in DOMAIN Tail(s), NEW m \in Tail(s)[i].locks
        PROVE  Below(lock, m)
    <3>1. /\ 1 \in DOMAIN s /\ i + 1 \in DOMAIN s /\ 1 < i + 1
          /\ lock \in s[1].locks /\ m \in s[i + 1].locks
      BY <2>1, <2>3, <2>4, <2>7
    <3>2. QED
      BY <2>2, <3>1 DEF InOrder, Ascending
  <2>8. ASSUME NEW g \in held[t], NEW i \in DOMAIN Tail(s), NEW m \in Tail(s)[i].locks
        PROVE  Below(g.lock, m)
    <3>1. i + 1 \in DOMAIN todo[t] /\ m \in todo[t][i + 1].locks
      BY <2>4, <2>8
    <3>2. QED
      BY <3>1 DEF LockInv, OrderKept
  <2>9. \A u \in Caller :
           /\ todo'[u] = IF u = t THEN Tail(s) ELSE todo[u]
           /\ held'[u] = IF u = t
                         THEN held[t] \cup {[lock |-> lock, mode |-> Head(s).mode]}
                         ELSE held[u]
    BY <2>1, <2>2 DEF LockInv
  <2>10. OrderKept'
    <3>1. SUFFICES ASSUME NEW u \in Caller, NEW g \in held'[u], NEW i \in DOMAIN todo'[u],
                          NEW m \in todo'[u][i].locks
                   PROVE  Below(g.lock, m)
      BY DEF OrderKept, Below
    <3>2. CASE u = t
      <4>1. i \in DOMAIN Tail(s) /\ m \in Tail(s)[i].locks
        BY <2>9, <3>2
      <4>2. g \in held[t] \/ g.lock = lock
        BY <2>9, <3>2
      <4>3. QED
        BY <2>7, <2>8, <4>1, <4>2
    <3>3. CASE u # t
      BY <2>9, <3>3 DEF LockInv, OrderKept
    <3>4. QED
      BY <3>2, <3>3
  <2>11. held' \in [Caller -> SUBSET Grant]
    BY <2>1, <2>6 DEF LockInv
  <2>12. todo' \in [Caller -> Seq(Request)]
    BY <2>2, <2>3 DEF LockInv
  <2>13. \A u \in Caller : InOrder(todo'[u])
    BY <2>5, <2>9 DEF LockInv
  <2>14. QED
    BY <2>10, <2>11, <2>12, <2>13 DEF LockInv
<1>4. ASSUME NEW t \in Caller, Release(t)
      PROVE  LockInv'
  <2>1. /\ held' = [held EXCEPT ![t] = {}] /\ todo' = todo
        /\ \A u \in Caller : held'[u] \subseteq held[u]
    BY <1>4 DEF Release, LockInv
  <2>2. held' \in [Caller -> SUBSET Grant]
    BY <2>1 DEF LockInv
  <2>3. OrderKept'
    BY <2>1 DEF LockInv, OrderKept
  <2>4. QED
    BY <2>1, <2>2, <2>3 DEF LockInv
<1>5. QED
  BY <1>1, <1>2, <1>3, <1>4 DEF LockNext

\* Every call takes its locks in the order of classes and ids, and its requests
\* name locks that exist: for any number of threads, slots and queues.
THEOREM LockInvariance == LockSpec => []LockInv
<1>1. LockInit => LockInv
  BY NothingHeldInit
<1>2. LockInv /\ [LockNext]_lockVars => LockInv'
  BY OrderStep
<1>3. QED
  BY <1>1, <1>2, PTL DEF LockSpec

\* The locks a thread holds come before those its call has still to take: the
\* order the wrapper's calls share.
THEOREM LocksTakenInOrder == LockSpec => []OrderKept
<1>1. LockInv => OrderKept
  BY DEF LockInv
<1>2. QED
  BY <1>1, LockInvariance, PTL

\* Requests and grants are for the storages' slots and the two kinds of mutex.
THEOREM LockTypesCorrect == LockSpec => []TypeOK
<1>1. LockInv => TypeOK
  BY DEF LockInv, TypeOK
<1>2. QED
  BY <1>1, LockInvariance, PTL

-----------------------------------------------------------------------------
\* No deadlock.

LEMMA Smallest ==
    ASSUME NEW T \in SUBSET Nat, T # {}
    PROVE  \E n \in T : \A m \in T : n <= m
<1> DEFINE less == OpToRel(<, Nat)
<1>1. \E n \in T : \A m \in T : ~(<<m, n>> \in less)
  BY NatLessThanWellFounded, WFMin
<1>2. \A m, n \in Nat : <<m, n>> \in less <=> m < n
  BY DEF OpToRel
<1> HIDE DEF less
<1>3. PICK n \in T : \A m \in T : ~(<<m, n>> \in less)
  BY <1>1
<1>4. ASSUME NEW m \in T
      PROVE  n <= m
  <2>1. n \in Nat /\ m \in Nat
    OBVIOUS
  <2>2. ~(m < n)
    BY <1>2, <1>3, <2>1, Zenon
  <2>3. QED
    BY <2>1, <2>2
<1>5. QED
  BY <1>4

\* A set of locks has one that comes before none of the others.
LEMMA Highest ==
    ASSUME NEW L \in SUBSET Lock, L # {}
    PROVE  \E l \in L : \A m \in L : ~Below(l, m)
<1>1. \A l \in L : ClassRank[l.class] \in 1..8 /\ l.id \in 0..MaxId
  BY Ranks DEF Lock
<1> DEFINE A == {8 - ClassRank[l.class] : l \in L}
<1>2. A \in SUBSET Nat /\ A # {}
  BY <1>1
<1>3. PICK a \in A : \A b \in A : a <= b
  BY <1>2, Smallest
<1>4. PICK k \in L : a = 8 - ClassRank[k.class]
  BY <1>3
<1>5. ASSUME NEW m \in L
      PROVE  ClassRank[m.class] <= ClassRank[k.class]
  <2>1. 8 - ClassRank[m.class] \in A
    OBVIOUS
  <2>2. a <= 8 - ClassRank[m.class]
    BY <1>3, <2>1
  <2>3. QED
    BY <1>1, <1>4, <2>2
<1> DEFINE top == {m \in L : ClassRank[m.class] = ClassRank[k.class]}
           I == {MaxId - m.id : m \in top}
<1>6. I \in SUBSET Nat /\ I # {}
  BY <1>1, <1>4, LockAssumption
<1>7. PICK i \in I : \A j \in I : i <= j
  BY <1>6, Smallest
<1>8. PICK l \in top : i = MaxId - l.id
  BY <1>7
<1>9. ASSUME NEW m \in top
      PROVE  m.id <= l.id
  <2>1. MaxId - m.id \in I
    OBVIOUS
  <2>2. i <= MaxId - m.id
    BY <1>7, <2>1
  <2>3. QED
    BY <1>1, <1>8, <2>2, LockAssumption
<1>10. ASSUME NEW m \in L
       PROVE  ~Below(l, m)
  <2>1. ~(ClassRank[l.class] < ClassRank[m.class])
    BY <1>1, <1>5, <1>8
  <2>2. ASSUME l.class = m.class
        PROVE  ~(l.id < m.id)
    <3>1. m \in top
      BY <1>8, <2>2
    <3>2. QED
      BY <1>1, <1>8, <1>9, <3>1, LockAssumption
  <2>3. QED
    BY <2>1, <2>2 DEF Below
<1>11. QED
  BY <1>8, <1>10

\* The locks held within a set of threads that waits only for itself have no
\* highest one, so there is no such set.
LEMMA OrderPreventsDeadlock == LockInv => NoDeadlock
<1> SUFFICES ASSUME LockInv, NEW S \in SUBSET Caller, S # {},
                    \A t \in S : BlockedWithin(t, S)
             PROVE  FALSE
  BY DEF NoDeadlock
<1> DEFINE L == {l \in Lock : \E u \in S : \E g \in held[u] : g.lock = l}
<1>1. ASSUME NEW t \in S
      PROVE  \E m \in L : 1 \in DOMAIN todo[t] /\ m \in todo[t][1].locks
  <2>1. todo[t] # << >> /\ todo[t] \in Seq(Request) /\ InOrder(todo[t])
    BY <1>1 DEF BlockedWithin, LockInv
  <2>2. 1 \in DOMAIN todo[t] /\ Head(todo[t]) = todo[t][1]
    BY <2>1
  <2>3. PICK m \in todo[t][1].locks : TRUE
    BY <2>1, <2>2 DEF InOrder
  <2>4. PICK u \in S : \E g \in held[u] : g.lock = m
    BY <1>1, <2>2, <2>3 DEF BlockedWithin, Conflicts
  <2>5. m \in Lock
    BY <2>4 DEF LockInv, Grant
  <2>6. QED
    BY <2>2, <2>3, <2>4, <2>5
<1>2. L # {}
  BY <1>1
<1>3. PICK l \in L : \A m \in L : ~Below(l, m)
  <2>1. L \in SUBSET Lock
    OBVIOUS
  <2>2. QED
    BY <1>2, <2>1, Highest
<1>4. PICK u \in S : \E g \in held[u] : g.lock = l
  BY <1>3
<1>5. PICK m \in L : 1 \in DOMAIN todo[u] /\ m \in todo[u][1].locks
  BY <1>1, <1>4
<1>6. Below(l, m)
  BY <1>4, <1>5 DEF LockInv, OrderKept
<1>7. QED
  BY <1>3, <1>5, <1>6

\* No set of threads waits only for its own members, whatever calls they make,
\* for any number of threads, slots and queues.
THEOREM DeadlockFree == LockSpec => []NoDeadlock
<1>1. QED
  BY OrderPreventsDeadlock, LockInvariance, PTL

-----------------------------------------------------------------------------
(***************************************************************************)
(* Control: which threads there are, what they own, who reports.           *)
(***************************************************************************)

PcState == {"off", "begin", "loop", "tick", "push", "pop", "asleep", "error", "message",
            "stop", "closing", "end", "done", "create", "poll", "join", "shutdown",
            "terminate"}

MainState == {"create", "poll", "stop", "closing", "join", "shutdown", "terminate", "done"}

All == 3 * WindowCount

\* The position of a thread in the order of starting and joining.
Seat(t) == 3 * (t[1] - 1) + (IF t[2] = "mesh" THEN 1 ELSE IF t[2] = "render" THEN 2 ELSE 3)

ControlTyped ==
    /\ pc \in [Thread -> PcState] /\ pc[Main] \in MainState
    /\ DOMAIN objects = Window /\ objects = [w \in Window |-> objects[w]]
    /\ created \in 0 .. WindowCount /\ started \in 0 .. All /\ joined \in 0 .. All
    /\ has_error \in BOOLEAN /\ errors \in Nat

\* The workers are there from the time they are started, and over when joined; main()
\* joins all it has started, or has started none.
Attended ==
    /\ \A t \in Worker : pc[t] = "off" <=> Seat(t) > started
    /\ \A t \in Worker : Seat(t) <= joined => pc[t] = "done"
    /\ started > 0 => created = WindowCount
    /\ pc[Main] = "create" => started < All /\ joined = 0
    /\ pc[Main] \in {"poll", "stop", "closing"} => started = All /\ joined = 0
    /\ pc[Main] = "join" => started = All /\ joined < All
    /\ pc[Main] \in {"shutdown", "terminate", "done"} => started = 0 \/ joined = All

Furnished ==
    /\ pc[Main] = "create" => \A w \in 1 .. created : objects[w] = Objects
    /\ pc[Main] \in {"poll", "stop", "closing", "join"} =>
           \A w \in Window : objects[w] = Objects

\* A failure that no thread has reported yet is in the hands of the one it befell, and
\* the one that reported first writes the message.
Reported ==
    /\ \A t \in Worker : pc[t] \in {"error", "message"} => errors > 0
    /\ \A t \in Worker : pc[t] = "message" => has_error /\ t = first_error
    /\ has_error => /\ errors > 0 /\ first_error \in Worker
                    /\ pc[first_error] = "message" \/ error_message = first_error
    /\ ~has_error => first_error = None /\ error_message = None
    /\ pc[Main] # "done" =>
          /\ result \in {None, -1}
          /\ result = -1 => errors > 0 /\ pc[Main] \in {"shutdown", "terminate"}
          /\ errors > 0 => has_error \/ result = -1 \/ \E t \in Worker : pc[t] = "error"

Control == ControlTyped /\ Attended /\ Furnished /\ Reported /\ FirstErrorReported

\* main() is no worker.
LEMMA Threads ==
    /\ Main \in Thread /\ Worker \subseteq Thread
    /\ Main \notin Worker
<1> USE DEF Main, Thread, Worker, Window
<1>1. Main \notin Worker
    BY FrameLoopAssumption
<1> QED BY <1>1

\* The three threads of a window.
LEMMA ThreadsOf ==
    ASSUME NEW w \in Window
    PROVE  /\ Mesh(w) \in Worker /\ Mesh(w)[1] = w /\ Mesh(w)[2] = "mesh"
           /\ Render(w) \in Worker /\ Render(w)[1] = w /\ Render(w)[2] = "render"
           /\ Display(w) \in Worker /\ Display(w)[1] = w /\ Display(w)[2] = "display"
BY DEF Worker, Stage, Mesh, Render, Display

\* A worker is its window and its stage.
LEMMA WorkerIs ==
    ASSUME NEW t \in Worker
    PROVE  /\ t[1] \in Window /\ t[2] \in {"mesh", "render", "display"}
           /\ t = <<t[1], t[2]>>
BY DEF Worker, Stage

\* No two workers have the same position.
LEMMA SeatOf ==
    ASSUME NEW t \in Worker
    PROVE  /\ Seat(t) \in 1 .. All
           /\ \A u \in Worker : Seat(u) = Seat(t) => u = t
<1>1. t[1] \in 1 .. WindowCount /\ t[2] \in {"mesh", "render", "display"} /\ WindowCount \in Nat
    BY WorkerIs, FrameLoopAssumption DEF Window
<1>2. Seat(t) \in 1 .. All
    BY <1>1 DEF Seat, All
<1>3. ASSUME NEW u \in Worker, Seat(u) = Seat(t)
      PROVE  u = t
    <2>1. u[1] \in 1 .. WindowCount /\ u[2] \in {"mesh", "render", "display"}
        BY WorkerIs DEF Window
    <2>2. u[1] = t[1] /\ u[2] = t[2]
        BY <1>1, <1>3, <2>1 DEF Seat
    <2> QED BY <2>2, WorkerIs
<1> QED BY <1>2, <1>3

\* Workers lists every worker once, in the order of the positions.
LEMMA SeatsTaken ==
    /\ Len(Workers) = All /\ All \in Nat /\ All > 0
    /\ \A i \in 1 .. All : Workers[i] \in Worker /\ Seat(Workers[i]) = i
<1>1. WindowCount \in Nat /\ WindowCount > 0 /\ All \in Nat /\ All > 0
    BY FrameLoopAssumption DEF All
<1>2. ASSUME NEW i \in 1 .. All
      PROVE  Workers[i] \in Worker /\ Seat(Workers[i]) = i
    <2> DEFINE w == ((i - 1) \div 3) + 1
               k == ((i - 1) % 3) + 1
               stage == <<"mesh", "render", "display">>
    <2>1. Workers[i] = <<w, stage[k]>>
        BY DEF Workers, All
    <2>2. w \in 1 .. WindowCount /\ k \in 1 .. 3 /\ i = 3 * (w - 1) + k
        <3>1. i - 1 \in Nat /\ i - 1 < 3 * WindowCount
            BY <1>1 DEF All
        <3>2. /\ (i - 1) \div 3 \in Nat /\ (i - 1) % 3 \in 0 .. 2
              /\ i - 1 = 3 * ((i - 1) \div 3) + ((i - 1) % 3)
            BY <3>1
        <3> QED BY <1>1, <3>1, <3>2
    <2> HIDE DEF w, k
    <2>3. CASE k = 1
        <3>1. Workers[i] = Mesh(w)
            BY <2>1, <2>3 DEF Mesh
        <3>2. w \in Window /\ 3 * (w - 1) + 1 = i
            BY <2>2, <2>3 DEF Window
        <3>3. Mesh(w) \in Worker /\ Seat(Mesh(w)) = i
            BY <3>2, ThreadsOf DEF Seat
        <3> QED BY <3>1, <3>3
    <2>4. CASE k = 2
        <3>1. Workers[i] = Render(w)
            BY <2>1, <2>4 DEF Render
        <3>2. w \in Window /\ 3 * (w - 1) + 2 = i
            BY <2>2, <2>4 DEF Window
        <3>3. Render(w) \in Worker /\ Seat(Render(w)) = i
            BY <3>2, ThreadsOf DEF Seat
        <3> QED BY <3>1, <3>3
    <2>5. CASE k = 3
        <3>1. Workers[i] = Display(w)
            BY <2>1, <2>5 DEF Display
        <3>2. w \in Window /\ 3 * (w - 1) + 3 = i
            BY <2>2, <2>5 DEF Window
        <3>3. Display(w) \in Worker /\ Seat(Display(w)) = i
            BY <3>2, ThreadsOf DEF Seat
        <3> QED BY <3>1, <3>3
    <2> QED BY <2>2, <2>3, <2>4, <2>5
<1>3. Len(Workers) = All
    <2>1. DOMAIN Workers = 1 .. All /\ Workers = [i \in 1 .. All |-> Workers[i]]
        BY DEF Workers, All
    <2>2. Workers \in [1 .. All -> Worker]
        BY <1>2, <2>1
    <2>3. Workers \in Seq(Worker)
        BY <1>1, <2>2, SeqDef
    <2>4. DOMAIN Workers = 1 .. Len(Workers) /\ Len(Workers) \in Nat
        BY <2>3, LenProperties
    <2> QED BY <1>1, <2>1, <2>4
<1> QED BY <1>1, <1>2, <1>3

\* A tick finds its objects, and does not change them.
LEMMA ObjectsKept ==
    AfterTick(Objects) = Objects /\ ~MeshRefused(Objects) /\ ~RenderRefused(Objects)
<1> USE DEF DefaultInit, DefaultTick, DefaultPipelines, TriangleInit, TriangleTick,
            TrianglePipelines, TextureInit, TextureTick, TexturePipelines
<1>1. CASE Scenario = "default"
    BY <1>1 DEF AfterTick, Objects, MeshRefused, RenderRefused
<1>2. CASE Scenario = "triangle"
    BY <1>2 DEF AfterTick, Objects, MeshRefused, RenderRefused
<1>3. CASE Scenario = "texture"
    BY <1>3 DEF AfterTick, Objects, MeshRefused, RenderRefused
<1> QED BY <1>1, <1>2, <1>3, FrameLoopAssumption


\* A worker that has started and not ended keeps main() from shutdown().
LEMMA TicksFind == Control => TicksFindTheirObjects
<1> SUFFICES ASSUME Control, NEW t \in Worker, pc[t] \notin {"off", "done"}
             PROVE  objects[t[1]] = Objects
    BY DEF TicksFindTheirObjects
<1>1. Seat(t) \in 1 .. All /\ t[1] \in Window
    BY SeatOf, WorkerIs
<1>2. Seat(t) <= started /\ ~(Seat(t) <= joined)
    BY <1>1 DEF Control, Attended, ControlTyped
<1>3. started # 0 /\ joined # All /\ created = WindowCount
    BY <1>1, <1>2 DEF Control, Attended, ControlTyped
<1>4. pc[Main] \in {"create", "poll", "stop", "closing", "join"}
    BY <1>3 DEF Control, Attended, ControlTyped, MainState
<1> QED BY <1>1, <1>3, <1>4 DEF Control, Furnished, Window

\* A worker goes from one place of its loop to another, and nobody notices.
Moves(t, there) ==
    /\ t \in Worker /\ pc[t] \notin {"off", "done", "error", "message"}
    /\ there \in PcState \ {"off", "error", "message"}
    /\ pc' = [pc EXCEPT ![t] = there]
    /\ UNCHANGED <<errorVars, mainVars, errors>>

\* Such a step changes nothing that Control says.
LEMMA ControlMoves ==
    ASSUME Control, NEW t, NEW there, Moves(t, there)
    PROVE  Control'
<1> USE DEF Moves, errorVars, mainVars
<1>1. /\ t \in Thread /\ pc \in [Thread -> PcState] /\ pc' = [pc EXCEPT ![t] = there]
      /\ Main # t /\ Main \in Thread /\ Worker \subseteq Thread
    BY Threads DEF Control, ControlTyped
<1>2. /\ pc'[Main] = pc[Main] /\ pc'[t] = there
      /\ \A u \in Worker : u # t => pc'[u] = pc[u]
    BY <1>1
<1>3. ControlTyped'
    BY <1>1, <1>2 DEF Control, ControlTyped
<1>4. Attended'
    BY <1>1, <1>2 DEF Control, Attended
<1>5. Furnished'
    BY <1>2 DEF Control, Furnished
<1>6. Reported'
    <2> USE DEF Control, Reported
    <2>1. ASSUME NEW u \in Worker, pc'[u] \in {"error", "message"}
          PROVE  u # t /\ pc'[u] = pc[u]
        BY <1>2, <2>1
    <2>2. has_error => first_error' \in Worker
                       /\ (pc'[first_error] = "message" \/ error_message' = first_error')
        BY <1>2
    <2>3. \A u \in Worker : pc[u] = "error" => pc'[u] = "error"
        BY <1>2
    <2> QED BY <1>2, <2>1, <2>2, <2>3
<1>7. FirstErrorReported'
    BY <1>2 DEF Control, FirstErrorReported
<1> QED BY <1>3, <1>4, <1>5, <1>6, <1>7 DEF Control

\* Every step of a worker is of that kind, but for those of a failure.
LEMMA WorkerMoves ==
    ASSUME Control, NEW t \in Worker, WorkerStep(t) \/ RequestStop(t) \/ StopRequested(t)
    PROVE  \E there \in PcState : Moves(t, there)
<1> USE DEF Moves, errorVars, mainVars, Goto, PcState
<1>0. t \in Thread /\ t # Main /\ t[1] \in Window
    BY Threads, WorkerIs
<1>1. CASE RequestStop(t)
    BY <1>0, <1>1 DEF RequestStop
<1>2. CASE StopRequested(t)
    BY <1>0, <1>2 DEF StopRequested
<1>3. CASE t[2] = "mesh" /\ MeshThread(t[1])
    <2>1. t = Mesh(t[1])
        BY <1>3, WorkerIs DEF Mesh
    <2>2. CASE MeshTick(t[1])
        <3>1. objects[t[1]] = Objects
            BY <1>0, <2>1, <2>2, TicksFind DEF MeshTick, TicksFindTheirObjects
        <3> QED BY <2>1, <2>2, <3>1, ObjectsKept DEF MeshTick
    <2>3. CASE MeshLoop(t[1])
        BY <2>1, <2>3 DEF MeshLoop
    <2>4. CASE MeshPush(t[1])
        BY <2>1, <2>4 DEF MeshPush
    <2>5. CASE MeshEnd(t[1])
        BY <2>1, <2>5 DEF MeshEnd
    <2> QED BY <1>3, <2>2, <2>3, <2>4, <2>5 DEF MeshThread
<1>4. CASE t[2] = "render" /\ RenderThread(t[1])
    <2>1. t = Render(t[1])
        BY <1>4, WorkerIs DEF Render
    <2>2. CASE RenderTick(t[1])
        <3>1. objects[t[1]] = Objects
            BY <1>0, <2>1, <2>2, TicksFind DEF RenderTick, TicksFindTheirObjects
        <3>2. objects' = [objects EXCEPT ![t[1]] = Objects]
            BY <2>2, <3>1, ObjectsKept DEF RenderTick
        <3>3. objects' = objects
            BY <1>0, <3>1, <3>2 DEF Control, ControlTyped
        <3> QED BY <2>1, <2>2, <3>1, <3>3, ObjectsKept DEF RenderTick
    <2>3. CASE RenderLoop(t[1])
        BY <2>1, <2>3 DEF RenderLoop
    <2>4. CASE RenderSleep(t[1])
        BY <2>1, <2>4 DEF RenderSleep
    <2>5. CASE RenderWake(t[1])
        BY <2>1, <2>5 DEF RenderWake
    <2>6. CASE RenderPop(t[1])
        BY <2>1, <2>6 DEF RenderPop
    <2>7. CASE RenderPush(t[1])
        BY <2>1, <2>7 DEF RenderPush
    <2>8. CASE RenderEnd(t[1])
        BY <2>1, <2>8 DEF RenderEnd
    <2> QED BY <1>4, <2>2, <2>3, <2>4, <2>5, <2>6, <2>7, <2>8 DEF RenderThread
<1>5. CASE t[2] = "display" /\ DisplayThread(t[1])
    <2>1. t = Display(t[1])
        BY <1>5, WorkerIs DEF Display
    <2>2. CASE DisplayBegin(t[1])
        BY <2>1, <2>2 DEF DisplayBegin
    <2>3. CASE DisplayLoop(t[1])
        BY <2>1, <2>3 DEF DisplayLoop
    <2>4. CASE DisplayPop(t[1])
        BY <2>1, <2>4 DEF DisplayPop
    <2>5. CASE DisplayTick(t[1])
        BY <2>1, <2>5 DEF DisplayTick
    <2>6. CASE DisplayEnd(t[1])
        BY <2>1, <2>6 DEF DisplayEnd
    <2> QED BY <1>5, <2>2, <2>3, <2>4, <2>5, <2>6 DEF DisplayThread
<1> QED BY <1>1, <1>2, <1>3, <1>4, <1>5 DEF WorkerStep

\* Control is about the places of the threads and the variables of main().
LEMMA ControlSame ==
    ASSUME Control, UNCHANGED <<pc, errorVars, mainVars, errors>>
    PROVE  Control'
BY DEF errorVars, mainVars, Control, ControlTyped, Attended, Furnished, Reported,
       FirstErrorReported

\* A worker fails, and reports it.
LEMMA ControlErrors ==
    ASSUME Control, NEW t \in Worker,
           SetError(t) \/ SetMessage(t) \/ \E where \in {"begin", "tick"} : Throw(t, where)
    PROVE  Control'
<1> USE DEF Goto, mainVars, errorVars
<1> PICK there \in {"error", "message", "stop"} : pc' = [pc EXCEPT ![t] = there]
    BY DEF SetError, SetMessage, Throw
<1>1. /\ t \in Thread /\ pc \in [Thread -> PcState] /\ there \in PcState
      /\ Main # t /\ Main \in Thread /\ Worker \subseteq Thread
    BY Threads DEF Control, ControlTyped, PcState
<1>2. /\ pc'[Main] = pc[Main] /\ pc'[t] = there
      /\ \A u \in Worker : u # t => pc'[u] = pc[u]
    BY <1>1
<1>3. pc[t] \in {"error", "message", "begin", "tick"} /\ UNCHANGED mainVars
    BY DEF SetError, SetMessage, Throw
<1>4. has_error' \in BOOLEAN /\ errors' \in Nat /\ pc[Main] # "done"
    <2>1. pc[Main] # "done"
        <3>1. Seat(t) \in 1 .. All
            BY SeatOf
        <3>2. Seat(t) <= started /\ ~(Seat(t) <= joined)
            BY <1>3, <3>1 DEF Control, Attended, ControlTyped
        <3> QED BY <3>1, <3>2 DEF Control, Attended, ControlTyped
    <2>2. has_error' \in BOOLEAN /\ errors' \in Nat
        <3>1. has_error \in BOOLEAN /\ errors \in Nat
            BY DEF Control, ControlTyped
        <3>2. CASE SetError(t)
            BY <3>1, <3>2 DEF SetError
        <3>3. CASE SetMessage(t)
            BY <3>1, <3>3 DEF SetMessage
        <3>4. CASE \E where \in {"begin", "tick"} : Throw(t, where)
            <4>1. errors' = errors + 1 /\ has_error' = has_error
                BY <3>4 DEF Throw, Fails
            <4> QED BY <3>1, <4>1
        <3> QED BY <3>2, <3>3, <3>4
    <2> QED BY <2>1, <2>2
<1>5. ControlTyped'
    BY <1>1, <1>2, <1>3, <1>4 DEF Control, ControlTyped
<1>6. Attended'
    BY <1>1, <1>2, <1>3 DEF Control, Attended
<1>7. Furnished'
    BY <1>2, <1>3 DEF Control, Furnished
<1>8. FirstErrorReported'
    BY <1>2, <1>4 DEF FirstErrorReported
<1>9. Reported'
    <2> USE DEF Control, Reported
    <2>1. CASE SetError(t)
        <3>1. /\ pc[t] = "error" /\ has_error' = TRUE /\ errors' = errors /\ errors > 0
              /\ error_message' = error_message
              /\ first_error' = IF has_error THEN first_error ELSE t
              /\ pc' = [pc EXCEPT ![t] = IF ~has_error THEN "message" ELSE "stop"]
            BY <2>1 DEF SetError, FirstError
        <3>2. pc'[t] = IF ~has_error THEN "message" ELSE "stop"
            BY <1>1, <3>1
        <3>3. \A u \in Worker : pc'[u] = "message" => u = first_error'
            BY <1>2, <3>1, <3>2
        <3>4. /\ first_error' \in Worker
              /\ pc'[first_error'] = "message" \/ error_message' = first_error'
            BY <1>2, <3>1, <3>2
        <3> QED BY <1>2, <1>3, <1>4, <3>1, <3>2, <3>3, <3>4
    <2>2. CASE SetMessage(t)
        <3>1. /\ pc[t] = "message" /\ has_error /\ t = first_error /\ error_message' = t
              /\ UNCHANGED <<has_error, first_error, errors>> /\ errors > 0
              /\ pc' = [pc EXCEPT ![t] = "stop"]
            BY <2>2 DEF SetMessage
        <3>2. pc'[t] = "stop"
            BY <1>1, <3>1
        <3> QED BY <1>2, <1>3, <1>4, <3>1, <3>2
    <2>3. CASE \E where \in {"begin", "tick"} : Throw(t, where)
        <3>1. /\ pc[t] \in {"begin", "tick"} /\ errors' = errors + 1
              /\ UNCHANGED <<has_error, first_error, error_message>>
              /\ pc' = [pc EXCEPT ![t] = "error"]
            BY <2>3 DEF Throw, Fails
        <3>2. pc'[t] = "error" /\ errors' > 0
            BY <1>1, <3>1 DEF ControlTyped
        <3>3. has_error => pc'[first_error] = "message" \/ error_message = first_error
            BY <1>2, <3>1
        <3> QED BY <1>2, <1>3, <1>4, <3>1, <3>2, <3>3
    <2> QED BY <2>1, <2>2, <2>3
<1> QED BY <1>5, <1>6, <1>7, <1>8, <1>9 DEF Control

\* main() itself.
LEMMA ControlMain ==
    ASSUME Control, MainThread \/ Poll \/ Stopping(Main)
    PROVE  Control'
<1> USE DEF Goto, errorVars, mainVars
<1>0. /\ pc \in [Thread -> PcState] /\ Main \in Thread /\ Main \notin Worker
      /\ Worker \subseteq Thread /\ WindowCount \in Nat /\ WindowCount > 0
      /\ All \in Nat /\ All > 0 /\ Len(Workers) = All /\ None # -1
      /\ \A t \in Worker : Seat(t) \in 1 .. All
    BY Threads, SeatsTaken, SeatOf, FrameLoopAssumption DEF Control, ControlTyped
<1>1. ASSUME NEW there \in MainState, pc' = [pc EXCEPT ![Main] = there]
      PROVE  /\ pc'[Main] = there /\ pc' \in [Thread -> PcState]
             /\ \A t \in Worker : pc'[t] = pc[t]
    BY <1>0, <1>1 DEF MainState, PcState
<1>2. CASE CreateScenario
    <2>1. /\ pc[Main] = "create" /\ created < WindowCount /\ created' = created + 1
          /\ objects' = [objects EXCEPT ![created + 1] = Objects]
          /\ UNCHANGED <<pc, errorVars, started, joined, result, errors>>
        BY <1>2 DEF CreateScenario
    <2>2. created \in 0 .. WindowCount /\ started = 0 /\ created' \in 1 .. WindowCount
        BY <1>0, <2>1 DEF Control, ControlTyped, Attended
    <2>3. ControlTyped'
        BY <2>1, <2>2 DEF Control, ControlTyped
    <2>4. Attended'
        BY <2>1, <2>2 DEF Control, Attended
    <2>5. Furnished'
        <3>1. ASSUME NEW w \in 1 .. created'
              PROVE  objects'[w] = Objects
            <4>1. w \in Window /\ (w = created + 1 \/ w \in 1 .. created)
                BY <1>0, <2>1, <2>2, <3>1 DEF Window
            <4> QED BY <2>1, <2>2, <4>1 DEF Control, ControlTyped, Furnished
        <3> QED BY <2>1, <3>1 DEF Furnished
    <2>6. Reported' /\ FirstErrorReported'
        BY <2>1 DEF Control, Reported, FirstErrorReported
    <2> QED BY <2>3, <2>4, <2>5, <2>6 DEF Control
<1>3. CASE CreateWindowFails \/ InitFails
    <2>1. /\ pc[Main] = "create" /\ created < WindowCount /\ created' \in {created, created + 1}
          /\ \/ objects' = objects
             \/ \E left : objects' = [objects EXCEPT ![created + 1] = left]
          /\ \E there \in {"terminate", "shutdown"} : pc' = [pc EXCEPT ![Main] = there]
          /\ result' = -1 /\ errors' = errors + 1
          /\ UNCHANGED <<errorVars, started, joined>>
        BY <1>3 DEF CreateWindowFails, InitFails, Fails
    <2>2. created \in 0 .. WindowCount /\ started = 0 /\ created' \in 0 .. WindowCount
        BY <1>0, <2>1 DEF Control, ControlTyped, Attended
    <2>3. pc'[Main] \in {"terminate", "shutdown"} /\ \A t \in Worker : pc'[t] = pc[t]
        BY <1>1, <2>1 DEF MainState
    <2>4. ControlTyped'
        <3>1. pc' \in [Thread -> PcState]
            BY <1>1, <2>1 DEF MainState
        <3>2. DOMAIN objects' = Window /\ objects' = [w \in Window |-> objects'[w]]
            BY <2>1 DEF Control, ControlTyped
        <3> QED BY <2>1, <2>2, <2>3, <3>1, <3>2 DEF Control, ControlTyped, MainState
    <2>5. Attended'
        BY <2>1, <2>2, <2>3 DEF Control, Attended
    <2>6. Furnished'
        BY <2>3 DEF Furnished
    <2>7. Reported'
        <3>1. errors' > 0
            BY <2>1 DEF Control, ControlTyped
        <3>2. has_error => first_error \in Worker
            BY DEF Control, Reported
        <3> QED BY <2>1, <2>3, <3>1, <3>2 DEF Control, Reported
    <2>8. FirstErrorReported'
        BY <2>3 DEF FirstErrorReported
    <2> QED BY <2>4, <2>5, <2>6, <2>7, <2>8 DEF Control
<1>4. CASE StartNext
    <2> DEFINE t == Workers[started + 1]
               last == started + 1 = All
               there == IF t[2] = "display" THEN "begin" ELSE "loop"
    <2>1. /\ pc[Main] = "create" /\ created = WindowCount /\ started' = started + 1
          /\ pc' = IF last THEN [[pc EXCEPT ![t] = there] EXCEPT ![Main] = "poll"]
                   ELSE [pc EXCEPT ![t] = there]
          /\ UNCHANGED <<errorVars, objects, created, joined, result, errors>>
        BY <1>0, <1>4 DEF StartNext
    <2>2. started \in 0 .. All /\ started < All /\ joined = 0 /\ started + 1 \in 1 .. All
        BY <1>0, <2>1 DEF Control, ControlTyped, Attended
    <2>3. t \in Worker /\ Seat(t) = started + 1
        BY <2>2, SeatsTaken
    <2>4. there \in {"begin", "loop"}
        OBVIOUS
    <2> HIDE DEF t, there, last
    <2>5. /\ pc' \in [Thread -> PcState] /\ pc'[t] = there
          /\ pc'[Main] = IF last THEN "poll" ELSE "create"
          /\ \A u \in Worker : u # t => pc'[u] = pc[u]
        BY <1>0, <2>1, <2>3, <2>4 DEF PcState
    <2>6. ControlTyped'
        BY <2>1, <2>2, <2>5 DEF Control, ControlTyped, MainState
    <2>7. Attended'
        <3>1. ASSUME NEW u \in Worker
              PROVE  /\ pc'[u] = "off" <=> Seat(u) > started'
                     /\ Seat(u) <= joined' => pc'[u] = "done"
            <4>1. CASE u = t
                BY <1>0, <2>1, <2>2, <2>3, <2>4, <2>5, <4>1
            <4>2. CASE u # t
                <5>1. Seat(u) # started + 1 /\ Seat(u) \in 1 .. All
                    BY <1>0, <2>3, <4>2, SeatOf
                <5> QED BY <1>0, <2>1, <2>2, <2>5, <4>2, <5>1 DEF Control, Attended
            <4> QED BY <4>1, <4>2
        <3>2. IF pc'[Main] = "create" THEN started' < All ELSE started' = All
            BY <1>0, <2>1, <2>2, <2>5 DEF last
        <3>3. pc'[Main] \in {"create", "poll"} /\ created' = WindowCount /\ joined' = 0
            BY <2>1, <2>2, <2>5
        <3> QED BY <3>1, <3>2, <3>3 DEF Attended
    <2>8. Furnished'
        BY <2>1, <2>5 DEF Control, Furnished, Window
    <2>9. Reported'
        <3>1. pc[t] = "off"
            BY <1>0, <2>2, <2>3 DEF Control, Attended
        <3>2. \A u \in Worker : pc'[u] \in {"error", "message"} <=> pc[u] \in {"error", "message"}
            BY <2>4, <2>5, <3>1
        <3>3. \A u \in Worker : /\ pc'[u] = "message" <=> pc[u] = "message"
                                /\ pc'[u] = "error" <=> pc[u] = "error"
            BY <2>4, <2>5, <3>1
        <3> QED BY <2>1, <2>5, <3>2, <3>3 DEF Control, Reported
    <2>10. FirstErrorReported'
        BY <2>5 DEF FirstErrorReported
    <2> QED BY <2>6, <2>7, <2>8, <2>9, <2>10 DEF Control
<1>5. CASE Poll \/ RequestStop(Main) \/ StopRequested(Main)
    <2>1. /\ \/ pc[Main] = "poll" /\ pc' = [pc EXCEPT ![Main] = "stop"]
             \/ pc[Main] = "stop" /\ pc' = [pc EXCEPT ![Main] = "closing"]
             \/ pc[Main] = "closing" /\ pc' = [pc EXCEPT ![Main] = "join"]
          /\ UNCHANGED <<errorVars, mainVars, errors>>
        BY <1>5 DEF Poll, RequestStop, StopRequested
    <2>2. /\ \/ pc[Main] = "poll" /\ pc'[Main] = "stop"
             \/ pc[Main] = "stop" /\ pc'[Main] = "closing"
             \/ pc[Main] = "closing" /\ pc'[Main] = "join"
          /\ pc' \in [Thread -> PcState] /\ \A u \in Worker : pc'[u] = pc[u]
        BY <1>1, <2>1 DEF MainState
    <2>3. ControlTyped'
        BY <2>1, <2>2 DEF Control, ControlTyped, MainState
    <2>4. Attended'
        BY <1>0, <2>1, <2>2 DEF Control, Attended
    <2>5. Furnished'
        BY <2>1, <2>2 DEF Control, Furnished
    <2>6. Reported'
        <3>1. has_error => first_error \in Worker
            BY DEF Control, Reported
        <3> QED BY <2>1, <2>2, <3>1 DEF Control, Reported
    <2>7. FirstErrorReported'
        BY <2>2 DEF FirstErrorReported
    <2> QED BY <2>3, <2>4, <2>5, <2>6, <2>7 DEF Control
<1>6. CASE CloseNext(Main)
    BY <1>6, ControlSame DEF CloseNext
<1>7. CASE SetError(Main) \/ SetMessage(Main)
    BY <1>7 DEF SetError, SetMessage, Control, ControlTyped, MainState
<1>8. CASE JoinNext
    <2>1. /\ pc[Main] = "join" /\ pc[Workers[joined + 1]] = "done" /\ joined' = joined + 1
          /\ pc' = [pc EXCEPT ![Main] = IF joined + 1 = All THEN "shutdown" ELSE "join"]
          /\ UNCHANGED <<errorVars, objects, created, started, result, errors>>
        BY <1>0, <1>8 DEF JoinNext, Joinable
    <2>2. started = All /\ joined \in 0 .. All /\ joined < All /\ joined + 1 \in 1 .. All
        BY <1>0, <2>1 DEF Control, ControlTyped, Attended
    <2>3. /\ pc'[Main] = IF joined + 1 = All THEN "shutdown" ELSE "join"
          /\ pc' \in [Thread -> PcState] /\ \A u \in Worker : pc'[u] = pc[u]
        BY <1>1, <2>1 DEF MainState
    <2>4. ControlTyped'
        BY <1>0, <2>1, <2>2, <2>3 DEF Control, ControlTyped, MainState
    <2>5. Attended'
        <3>1. ASSUME NEW u \in Worker, Seat(u) <= joined'
              PROVE  pc'[u] = "done"
            <4>1. CASE Seat(u) = joined + 1
                <5>1. u = Workers[joined + 1]
                    BY <2>2, <4>1, SeatsTaken, SeatOf
                <5> QED BY <2>1, <2>3, <5>1
            <4>2. CASE Seat(u) <= joined
                BY <2>3, <4>2 DEF Control, Attended
            <4> QED BY <1>0, <2>1, <2>2, <3>1, <4>1, <4>2
        <3> QED BY <1>0, <2>1, <2>2, <2>3, <3>1 DEF Control, Attended
    <2>6. Furnished'
        BY <2>1, <2>3 DEF Control, Furnished
    <2>7. Reported'
        <3>1. has_error => first_error \in Worker
            BY DEF Control, Reported
        <3> QED BY <2>1, <2>3, <3>1 DEF Control, Reported
    <2>8. FirstErrorReported'
        BY <2>3 DEF FirstErrorReported
    <2> QED BY <2>4, <2>5, <2>6, <2>7, <2>8 DEF Control
<1>9. CASE ShutdownScenarios
    <2>1. /\ pc[Main] = "shutdown" /\ pc' = [pc EXCEPT ![Main] = "terminate"]
          /\ objects' = [w \in Window |-> {}]
          /\ UNCHANGED <<errorVars, created, started, joined, result, errors>>
        BY <1>9 DEF ShutdownScenarios
    <2>2. /\ pc'[Main] = "terminate"
          /\ pc' \in [Thread -> PcState] /\ \A u \in Worker : pc'[u] = pc[u]
        BY <1>1, <2>1 DEF MainState
    <2>3. ControlTyped'
        BY <2>1, <2>2 DEF Control, ControlTyped, MainState
    <2>4. Attended'
        BY <2>1, <2>2 DEF Control, Attended
    <2>5. Furnished' /\ FirstErrorReported'
        BY <2>2 DEF Furnished, FirstErrorReported
    <2>6. Reported'
        <3>1. has_error => first_error \in Worker
            BY DEF Control, Reported
        <3> QED BY <2>1, <2>2, <3>1 DEF Control, Reported
    <2> QED BY <2>3, <2>4, <2>5, <2>6 DEF Control
<1>10. CASE Terminate
    <2>1. /\ pc[Main] = "terminate" /\ pc' = [pc EXCEPT ![Main] = "done"]
          /\ result' = IF has_error THEN -1 ELSE IF result = None THEN 0 ELSE result
          /\ UNCHANGED <<errorVars, objects, created, started, joined, errors>>
        BY <1>10 DEF Terminate
    <2>2. /\ pc'[Main] = "done"
          /\ pc' \in [Thread -> PcState] /\ \A u \in Worker : pc'[u] = pc[u]
        BY <1>1, <2>1 DEF MainState
    <2>3. ControlTyped'
        BY <2>1, <2>2 DEF Control, ControlTyped, MainState
    <2>4. Attended'
        BY <2>1, <2>2 DEF Control, Attended
    <2>5. Furnished'
        BY <2>2 DEF Furnished
    <2>6. Reported'
        <3>1. has_error => first_error \in Worker
            BY DEF Control, Reported
        <3> QED BY <2>1, <2>2, <3>1 DEF Control, Reported
    <2>7. \A t \in Worker : pc[t] \in {"off", "done"}
        BY <1>0, <2>1 DEF Control, ControlTyped, Attended
    <2>8. errors' > 0 <=> has_error \/ result = -1
        BY <2>1, <2>7 DEF Control, Reported
    <2>9. result' = -1 <=> has_error \/ result = -1
        BY <1>0, <2>1 DEF Control, Reported
    <2>10. error_message' = first_error'
        BY <2>1, <2>7 DEF Control, Reported
    <2>11. FirstErrorReported'
        BY <2>8, <2>9, <2>10 DEF FirstErrorReported
    <2> QED BY <2>3, <2>4, <2>5, <2>6, <2>11 DEF Control
<1> QED BY <1>2, <1>3, <1>4, <1>5, <1>6, <1>7, <1>8, <1>9, <1>10 DEF MainThread, Stopping

\* At first only main() is there.
LEMMA ControlInit == Init => Control
<1> SUFFICES ASSUME Init PROVE Control
    OBVIOUS
<1>1. /\ All \in Nat /\ All > 0 /\ WindowCount \in Nat
      /\ \A t \in Worker : Seat(t) \in 1 .. All /\ t # Main
      /\ Worker \subseteq Thread /\ Main \in Thread
    BY SeatsTaken, SeatOf, Threads, FrameLoopAssumption
<1>2. /\ pc = [t \in Thread |-> IF t = Main THEN "create" ELSE "off"]
      /\ objects = [w \in Window |-> {}] /\ created = 0 /\ started = 0 /\ joined = 0
      /\ result = None /\ errors = 0 /\ has_error = FALSE
      /\ first_error = None /\ error_message = None
    BY DEF Init
<1>3. pc[Main] = "create" /\ \A t \in Worker : pc[t] = "off"
    BY <1>1, <1>2
<1>4. ControlTyped
    <2>1. pc \in [Thread -> PcState]
        BY <1>2 DEF PcState
    <2>2. DOMAIN objects = Window /\ objects = [w \in Window |-> objects[w]]
        BY <1>2
    <2>3. /\ created = 0 /\ started = 0 /\ joined = 0 /\ errors = 0
          /\ 0 \in 0 .. WindowCount /\ 0 \in 0 .. All
        BY <1>1, <1>2
    <2>4. has_error \in BOOLEAN
        BY <1>2
    <2> QED BY <1>3, <2>1, <2>2, <2>3, <2>4 DEF ControlTyped, MainState
<1>5. Attended
    BY <1>1, <1>2, <1>3 DEF Attended
<1>6. Furnished
    BY <1>2, <1>3 DEF Furnished
<1>7. Reported
    BY <1>2, <1>3, FrameLoopAssumption DEF Reported
<1>8. FirstErrorReported
    BY <1>3 DEF FirstErrorReported
<1> QED BY <1>4, <1>5, <1>6, <1>7, <1>8 DEF Control

\* Every step keeps Control.
LEMMA ControlStep == Control /\ [Next]_vars => Control'
<1> SUFFICES ASSUME Control, [Next]_vars PROVE Control'
    OBVIOUS
<1>1. CASE MainThread \/ Poll \/ Stopping(Main)
    BY <1>1, ControlMain
<1>2. ASSUME NEW t \in Worker,
             \/ WorkerStep(t) \/ Stopping(t)
             \/ \E where \in {"begin", "tick"} : Throw(t, where)
      PROVE  Control'
    <2>1. CASE WorkerStep(t) \/ RequestStop(t) \/ StopRequested(t)
        BY <2>1, WorkerMoves, ControlMoves
    <2>2. CASE CloseNext(t)
        BY <2>2, ControlSame DEF CloseNext
    <2>3. CASE SetError(t) \/ SetMessage(t) \/ \E where \in {"begin", "tick"} : Throw(t, where)
        BY <2>3, ControlErrors
    <2> QED BY <1>2, <2>1, <2>2, <2>3 DEF Stopping
<1>3. CASE UNCHANGED vars
    BY <1>3, ControlSame DEF vars
<1> QED BY <1>1, <1>2, <1>3 DEF Next

-----------------------------------------------------------------------------
(***************************************************************************)
(* Frames: the numbers in the queues and in the hands of the threads.      *)
(***************************************************************************)

\* The items of a queue, oldest first, all of them after one frame and up to another.
Ascends(s, after, upto) ==
    /\ \A i \in DOMAIN s : after < s[i] /\ s[i] <= upto
    /\ \A i, j \in DOMAIN s : i < j => s[i] < s[j]

FramesTyped ==
    /\ mesh_to_render \in [Window -> Queue(Nat)]
    /\ render_to_display \in [Window -> Queue(Nat)]
    /\ frame \in [Window -> [mesh : Nat, render : Nat]]
    /\ frame_id \in [Window -> Nat] /\ committed \in [Window -> Nat]
    /\ latest_frame \in [Window -> Nat] /\ latest_frame_id \in [Window -> Nat]

\* A thread has a frame in its hands that it may still push.
Carries(t) == pc[t] \in {"tick", "push"}

\* The last frame the mesh thread may have pushed.
Handed(w) == IF Carries(Mesh(w)) THEN frame_id[w] - 1 ELSE frame_id[w]

\* A frame has been committed when it is pushed to the display thread, and what is
\* shown comes before everything that waits to be shown, and that before what the
\* render thread draws, and that before what waits for it.
InTurn(w) ==
    /\ Carries(Mesh(w)) => frame[w].mesh = frame_id[w] /\ frame_id[w] > 0
    /\ frame[w].render <= Handed(w)
    /\ Ascends(mesh_to_render[w].queue, frame[w].render, Handed(w))
    /\ committed[w] <= frame[w].render
    /\ pc[Render(w)] = "push" => committed[w] = frame[w].render
    /\ Ascends(render_to_display[w].queue, latest_frame[w], committed[w])
    /\ latest_frame[w] <= committed[w] /\ latest_frame_id[w] <= latest_frame[w]
    /\ Carries(Render(w)) =>
           /\ latest_frame[w] < frame[w].render
           /\ \A i \in DOMAIN render_to_display[w].queue :
                  render_to_display[w].queue[i] < frame[w].render

FramesInTurn == \A w \in Window : InTurn(w)

FrameInv == FramesTyped /\ FramesInTurn

-----------------------------------------------------------------------------
\* Queues.

\* One more at the end.
LEMMA AscendsAppend ==
    ASSUME NEW s \in Seq(Nat), NEW n \in Nat, NEW after \in Nat, NEW upto \in Int, upto < n,
           after < n, Ascends(s, after, upto)
    PROVE  Append(s, n) \in Seq(Nat) /\ Ascends(Append(s, n), after, n)
<1>1. /\ Append(s, n) \in Seq(Nat) /\ DOMAIN Append(s, n) = 1 .. Len(s) + 1
      /\ Append(s, n)[Len(s) + 1] = n /\ Len(s) \in Nat /\ DOMAIN s = 1 .. Len(s)
      /\ \A i \in 1 .. Len(s) : Append(s, n)[i] = s[i] /\ s[i] \in Nat
    OBVIOUS
<1>2. \A i \in 1 .. Len(s) : s[i] < n
    BY <1>1 DEF Ascends
<1>3. ASSUME NEW i \in DOMAIN Append(s, n)
      PROVE  after < Append(s, n)[i] /\ Append(s, n)[i] <= n
    <2>1. i \in 1 .. Len(s) \/ i = Len(s) + 1
        BY <1>1
    <2> QED BY <1>1, <1>2, <2>1 DEF Ascends
<1>4. ASSUME NEW i \in DOMAIN Append(s, n), NEW j \in DOMAIN Append(s, n), i < j
      PROVE  Append(s, n)[i] < Append(s, n)[j]
    <2>1. i \in 1 .. Len(s) /\ (j \in 1 .. Len(s) \/ j = Len(s) + 1)
        BY <1>1, <1>4
    <2> QED BY <1>1, <1>2, <1>4, <2>1 DEF Ascends
<1> QED BY <1>1, <1>3, <1>4 DEF Ascends

\* One less at the front: all that is left comes after it.
LEMMA AscendsTail ==
    ASSUME NEW s \in Seq(Nat), s # <<>>, NEW after \in Nat, NEW upto \in Int,
           Ascends(s, after, upto)
    PROVE  /\ Tail(s) \in Seq(Nat) /\ Head(s) \in Nat
           /\ after < Head(s) /\ Head(s) <= upto
           /\ Ascends(Tail(s), Head(s), upto) /\ Ascends(Tail(s), after, upto)
<1>1. /\ Tail(s) \in Seq(Nat) /\ Head(s) = s[1] /\ Head(s) \in Nat
      /\ DOMAIN Tail(s) = 1 .. Len(s) - 1 /\ Len(s) \in Nat /\ Len(s) > 0
      /\ DOMAIN s = 1 .. Len(s)
      /\ \A i \in 1 .. Len(s) - 1 : Tail(s)[i] = s[i + 1] /\ i + 1 \in 1 .. Len(s)
      /\ \A i \in 1 .. Len(s) : s[i] \in Nat
    OBVIOUS
<1>2. after < s[1] /\ s[1] <= upto
    BY <1>1 DEF Ascends
<1>3. \A i \in 1 .. Len(s) - 1 : s[1] < s[i + 1] /\ after < s[i + 1] /\ s[i + 1] <= upto
    BY <1>1 DEF Ascends
<1>4. ASSUME NEW i \in 1 .. Len(s) - 1, NEW j \in 1 .. Len(s) - 1, i < j
      PROVE  Tail(s)[i] < Tail(s)[j]
    <2>1. i + 1 < j + 1 /\ i + 1 \in DOMAIN s /\ j + 1 \in DOMAIN s
        BY <1>1, <1>4
    <2>2. s[i + 1] < s[j + 1]
        BY <2>1 DEF Ascends
    <2> QED BY <1>1, <2>2
<1> QED BY <1>1, <1>2, <1>3, <1>4 DEF Ascends

\* Nothing is in any order.
LEMMA AscendsEmpty == \A after, upto : Ascends(<<>>, after, upto)
BY DEF Ascends

\* A push of a frame after all those in the queue, the oldest of which may go.
LEMMA PushAscends ==
    ASSUME NEW q \in Queue(Nat), NEW n \in Nat, NEW after \in Nat, NEW upto \in Int,
           Ascends(q.queue, after, upto), upto < n, after < n
    PROVE  /\ Push(q, QueueDepth, n) \in Queue(Nat)
           /\ Ascends(Push(q, QueueDepth, n).queue, after, n)
<1> DEFINE full == Len(q.queue) >= Capacity(QueueDepth)
           kept == IF full THEN Tail(q.queue) ELSE q.queue
<1>1. q.queue \in Seq(Nat) /\ q.dropped_count \in Nat /\ q.closed \in BOOLEAN
    BY DEF Queue
<1>2. full => q.queue # <<>>
    BY <1>1, FrameLoopAssumption DEF Capacity
<1>3. kept \in Seq(Nat) /\ Ascends(kept, after, upto)
    BY <1>1, <1>2, AscendsTail
<1> HIDE DEF full, kept
<1> DEFINE items == Append(kept, n)
           dropped == IF full THEN q.dropped_count + 1 ELSE q.dropped_count
<1>4. items \in Seq(Nat) /\ Ascends(items, after, n) /\ dropped \in Nat
    BY <1>1, <1>3, AscendsAppend
<1>5. Push(q, QueueDepth, n) = [q EXCEPT !.queue = items, !.dropped_count = dropped,
                                         !.asleep = FALSE]
    BY DEF Push, full, kept
<1> HIDE DEF items, dropped
<1>6. Push(q, QueueDepth, n) \in Queue(Nat) /\ Push(q, QueueDepth, n).queue = items
    BY <1>4, <1>5 DEF Queue
<1> QED BY <1>4, <1>6

\* What the other operations make of the items.
LEMMA QueueOps ==
    ASSUME NEW q \in Queue(Nat)
    PROVE  /\ Close(q) \in Queue(Nat) /\ Close(q).queue = q.queue
           /\ [q EXCEPT !.asleep = TRUE] \in Queue(Nat)
           /\ [q EXCEPT !.asleep = TRUE].queue = q.queue
           /\ PopAll(q) \in Queue(Nat) /\ PopAll(q).queue = <<>>
           /\ q.queue # <<>> => /\ PopFront(q) \in Queue(Nat)
                                /\ PopFront(q).queue = Tail(q.queue)
<1>1. q.queue \in Seq(Nat) /\ <<>> \in Seq(Nat)
    BY DEF Queue
<1>2. Close(q) \in Queue(Nat) /\ Close(q).queue = q.queue
    BY DEF Queue, Close
<1>3. [q EXCEPT !.asleep = TRUE] \in Queue(Nat) /\ [q EXCEPT !.asleep = TRUE].queue = q.queue
    BY DEF Queue
<1>4. PopAll(q) \in Queue(Nat) /\ PopAll(q).queue = <<>>
    BY <1>1 DEF Queue, PopAll
<1>5. ASSUME q.queue # <<>>
      PROVE  PopFront(q) \in Queue(Nat) /\ PopFront(q).queue = Tail(q.queue)
    <2>1. Tail(q.queue) \in Seq(Nat)
        BY <1>1, <1>5
    <2> QED BY <2>1 DEF Queue, PopFront
<1> QED BY <1>2, <1>3, <1>4, <1>5

\* Closing a queue, of this window or none, keeps what is in it.
LEMMA CloseKeeps ==
    ASSUME NEW queues \in [Window -> Queue(Nat)], NEW v
    PROVE  /\ CloseOf(queues, v) \in [Window -> Queue(Nat)]
           /\ \A w \in Window : CloseOf(queues, v)[w].queue = queues[w].queue
<1>1. CASE v \in Window
    BY <1>1, QueueOps DEF CloseOf
<1>2. CASE v \notin Window
    BY <1>2 DEF CloseOf
<1> QED BY <1>1, <1>2

-----------------------------------------------------------------------------
\* The steps of the threads.

\* What InTurn says of a window stays true as long as its frames and queues do, and no
\* thread takes a frame into its hands.
LEMMA TurnKept ==
    ASSUME FrameInv, NEW w \in Window,
           Carries(Mesh(w))' => Carries(Mesh(w)),
           Carries(Render(w))' => Carries(Render(w)),
           pc'[Render(w)] = "push" => pc[Render(w)] = "push",
           mesh_to_render'[w].queue = mesh_to_render[w].queue,
           render_to_display'[w].queue = render_to_display[w].queue,
           frame'[w] = frame[w], frame_id'[w] = frame_id[w], committed'[w] = committed[w],
           latest_frame'[w] = latest_frame[w], latest_frame_id'[w] = latest_frame_id[w]
    PROVE  InTurn(w)'
<1>1. /\ InTurn(w) /\ frame_id[w] \in Nat /\ frame[w].render \in Nat
      /\ mesh_to_render[w].queue \in Seq(Nat)
    BY DEF FrameInv, FramesTyped, FramesInTurn, Queue
<1>2. Handed(w)' \in Int /\ Handed(w) \in Int /\ Handed(w) <= Handed(w)'
    BY <1>1 DEF Handed
<1>3. frame'[w].render <= Handed(w)'
    BY <1>1, <1>2 DEF InTurn
<1>4. Ascends(mesh_to_render'[w].queue, frame'[w].render, Handed(w)')
    <2>1. \A i \in DOMAIN mesh_to_render[w].queue : mesh_to_render[w].queue[i] \in Nat
        BY <1>1
    <2>2. \A i \in DOMAIN mesh_to_render[w].queue : mesh_to_render[w].queue[i] <= Handed(w)'
        BY <1>1, <1>2, <2>1 DEF InTurn, Ascends
    <2> QED BY <1>1, <2>2 DEF InTurn, Ascends
<1>5. Ascends(mesh_to_render[w].queue, frame[w].render, Handed(w))'
    BY <1>4 DEF Ascends
<1>6. Ascends(render_to_display[w].queue, latest_frame[w], committed[w])'
    BY <1>1 DEF InTurn, Ascends
<1> QED BY <1>1, <1>3, <1>5, <1>6 DEF InTurn

\* At first there are no frames.
LEMMA FramesInit == Init => FrameInv
<1> SUFFICES ASSUME Init PROVE FrameInv
    OBVIOUS
<1> USE DEF Init
<1>1. EmptyQueue \in Queue(Nat) /\ EmptyQueue.queue = <<>>
    BY DEF EmptyQueue, Queue
<1>2. FramesTyped
    BY <1>1 DEF FramesTyped
<1>3. ASSUME NEW w \in Window
      PROVE  InTurn(w)
    <2>1. Mesh(w) \in Thread /\ Mesh(w) # Main /\ Render(w) \in Thread /\ Render(w) # Main
        BY Threads, ThreadsOf
    <2>2. pc[Mesh(w)] = "off" /\ pc[Render(w)] = "off"
        BY <2>1
    <2>3. /\ mesh_to_render[w].queue = <<>> /\ render_to_display[w].queue = <<>>
          /\ frame[w].render = 0 /\ frame_id[w] = 0 /\ committed[w] = 0
          /\ latest_frame[w] = 0 /\ latest_frame_id[w] = 0
        BY <1>1
    <2> QED BY <2>2, <2>3, AscendsEmpty DEF InTurn, Carries, Handed
<1> QED BY <1>2, <1>3 DEF FrameInv, FramesInTurn

\* Steps that leave frames and queues alone, but for closing and waking.
LEMMA FramesQuiet ==
    ASSUME Control, FrameInv, UNCHANGED frameVars,
           NEW t \in Thread, NEW there \in PcState \ {"push"}, pc[t] # "tick" => there # "tick",
           pc' = [pc EXCEPT ![t] = there] \/ pc' = pc,
           mesh_to_render' \in [Window -> Queue(Nat)],
           render_to_display' \in [Window -> Queue(Nat)],
           \A w \in Window : mesh_to_render'[w].queue = mesh_to_render[w].queue,
           \A w \in Window : render_to_display'[w].queue = render_to_display[w].queue
    PROVE  FrameInv'
<1> USE DEF frameVars
<1>1. FramesTyped'
    BY DEF FrameInv, FramesTyped
<1>2. ASSUME NEW u \in Thread
      PROVE  /\ Carries(u)' => Carries(u)
             /\ pc'[u] = "push" => pc[u] = "push"
    BY DEF Control, ControlTyped, Carries
<1>3. ASSUME NEW w \in Window
      PROVE  InTurn(w)'
    <2>1. Mesh(w) \in Thread /\ Render(w) \in Thread
        BY Threads, ThreadsOf
    <2> QED BY <1>2, <2>1, TurnKept
<1> QED BY <1>1, <1>3 DEF FrameInv, FramesInTurn

\* A thread of one window leaves the frames of the others alone.
LEMMA OthersInTurn ==
    ASSUME Control, FrameInv, NEW v \in Window, NEW t \in {Mesh(v), Render(v), Display(v)},
           NEW there, pc' = [pc EXCEPT ![t] = there],
           NEW w \in Window, w # v,
           mesh_to_render'[w] = mesh_to_render[w],
           render_to_display'[w] = render_to_display[w],
           frame'[w] = frame[w], frame_id'[w] = frame_id[w], committed'[w] = committed[w],
           latest_frame'[w] = latest_frame[w], latest_frame_id'[w] = latest_frame_id[w]
    PROVE  InTurn(w)'
<1>1. t \in Thread /\ Mesh(w) \in Thread /\ Render(w) \in Thread
    BY Threads, ThreadsOf
<1>2. Mesh(w) # t /\ Render(w) # t
    BY ThreadsOf
<1>3. pc'[Mesh(w)] = pc[Mesh(w)] /\ pc'[Render(w)] = pc[Render(w)]
    BY <1>1, <1>2 DEF Control, ControlTyped
<1> QED BY <1>3, TurnKept DEF Carries

\* Where the threads of a window are after one of them has moved.
LEMMA Moved ==
    ASSUME Control, NEW w \in Window, NEW there
    PROVE  LET after(t) == [pc EXCEPT ![t] = there]
           IN  /\ after(Mesh(w))[Mesh(w)] = there /\ after(Mesh(w))[Render(w)] = pc[Render(w)]
               /\ after(Render(w))[Render(w)] = there /\ after(Render(w))[Mesh(w)] = pc[Mesh(w)]
               /\ after(Display(w))[Mesh(w)] = pc[Mesh(w)]
               /\ after(Display(w))[Render(w)] = pc[Render(w)]
<1>1. /\ Mesh(w) \in Thread /\ Render(w) \in Thread /\ Display(w) \in Thread
      /\ Mesh(w) # Render(w) /\ Mesh(w) # Display(w) /\ Render(w) # Display(w)
    BY Threads, ThreadsOf
<1> QED BY <1>1 DEF Control, ControlTyped

\* The mesh thread takes the next number and pushes it.
LEMMA FramesMesh ==
    ASSUME Control, FrameInv, NEW w \in Window,
           \/ MeshLoop(w) /\ pc'[Mesh(w)] = "tick"
           \/ MeshPush(w) /\ ~mesh_to_render[w].closed
    PROVE  FrameInv'
<1> USE DEF Goto, queueVars
<1>0. /\ FramesTyped /\ InTurn(w) /\ frame_id[w] \in Nat /\ frame[w] \in [mesh : Nat, render : Nat]
      /\ mesh_to_render[w] \in Queue(Nat) /\ mesh_to_render[w].queue \in Seq(Nat)
    BY DEF FrameInv, FramesInTurn, FramesTyped, Queue
<1>1. CASE MeshLoop(w) /\ pc'[Mesh(w)] = "tick"
    <2>1. pc[Mesh(w)] = "loop" /\ Mesh(w) \in Thread
        BY <1>1, Threads, ThreadsOf DEF MeshLoop
    <2>2. /\ frame_id' = [frame_id EXCEPT ![w] = @ + 1]
          /\ frame' = [frame EXCEPT ![w].mesh = frame_id'[w]]
          /\ pc' = [pc EXCEPT ![Mesh(w)] = "tick"]
          /\ UNCHANGED <<mesh_to_render, render_to_display, committed, latest_frame,
                         latest_frame_id>>
        <3>1. \/ pc' = [pc EXCEPT ![Mesh(w)] = "end"]
              \/ /\ frame_id' = [frame_id EXCEPT ![w] = @ + 1]
                 /\ frame' = [frame EXCEPT ![w].mesh = frame_id'[w]]
                 /\ pc' = [pc EXCEPT ![Mesh(w)] = "tick"]
            BY <1>1 DEF MeshLoop
        <3>2. pc' # [pc EXCEPT ![Mesh(w)] = "end"]
            BY <1>1, <2>1 DEF Control, ControlTyped
        <3> QED BY <1>1, <3>1, <3>2 DEF MeshLoop
    <2>3. /\ frame_id'[w] = frame_id[w] + 1 /\ frame'[w].mesh = frame_id[w] + 1
          /\ frame'[w].render = frame[w].render
          /\ \A v \in Window : v # w => frame'[v] = frame[v] /\ frame_id'[v] = frame_id[v]
        BY <1>0, <2>2 DEF FramesTyped
    <2>4. FramesTyped'
        <3>1. [frame[w] EXCEPT !.mesh = frame_id'[w]] \in [mesh : Nat, render : Nat]
            BY <1>0, <2>3
        <3>2. frame' \in [Window -> [mesh : Nat, render : Nat]]
            BY <1>0, <2>2, <3>1 DEF FramesTyped
        <3>3. frame_id' \in [Window -> Nat]
            BY <1>0, <2>2 DEF FramesTyped
        <3> QED BY <1>0, <2>2, <3>2, <3>3 DEF FramesTyped
    <2>5. pc'[Mesh(w)] = "tick" /\ pc'[Render(w)] = pc[Render(w)]
        BY <2>2, Moved
    <2>6. Handed(w) = frame_id[w] /\ Handed(w)' = frame_id[w]
        BY <1>0, <2>1, <2>3, <2>5 DEF Handed, Carries
    <2>7. InTurn(w)'
        BY <1>0, <2>2, <2>3, <2>5, <2>6 DEF InTurn, Carries
    <2>8. ASSUME NEW v \in Window, v # w
          PROVE  InTurn(v)'
        BY <2>2, <2>3, <2>8, OthersInTurn
    <2> QED BY <2>4, <2>7, <2>8 DEF FrameInv, FramesInTurn
<1>2. CASE MeshPush(w) /\ ~mesh_to_render[w].closed
    <2>1. /\ pc[Mesh(w)] = "push" /\ pc' = [pc EXCEPT ![Mesh(w)] = "loop"]
          /\ mesh_to_render' = [mesh_to_render EXCEPT ![w] =
                                    Push(@, QueueDepth, frame[w].mesh)]
          /\ UNCHANGED <<render_to_display, frameVars>>
        BY <1>2 DEF MeshPush
    <2> USE DEF frameVars
    <2>2. /\ frame[w].mesh = frame_id[w] /\ frame_id[w] > 0 /\ Handed(w) = frame_id[w] - 1
          /\ frame[w].render <= frame_id[w] - 1
          /\ Ascends(mesh_to_render[w].queue, frame[w].render, frame_id[w] - 1)
        BY <1>0, <2>1 DEF InTurn, Carries, Handed
    <2>3. /\ Push(mesh_to_render[w], QueueDepth, frame_id[w]) \in Queue(Nat)
          /\ Ascends(Push(mesh_to_render[w], QueueDepth, frame_id[w]).queue,
                     frame[w].render, frame_id[w])
        BY <1>0, <2>2, PushAscends
    <2>4. /\ mesh_to_render'[w] = Push(mesh_to_render[w], QueueDepth, frame_id[w])
          /\ mesh_to_render' \in [Window -> Queue(Nat)]
          /\ \A v \in Window : v # w => mesh_to_render'[v] = mesh_to_render[v]
        BY <1>0, <2>1, <2>2, <2>3 DEF FramesTyped
    <2>5. FramesTyped'
        BY <1>0, <2>1, <2>4 DEF FramesTyped
    <2>6. pc'[Mesh(w)] = "loop" /\ pc'[Render(w)] = pc[Render(w)]
        BY <2>1, Moved
    <2>7. Handed(w)' = frame_id[w]
        BY <2>1, <2>6 DEF Handed, Carries
    <2>8. Ascends(mesh_to_render'[w].queue, frame'[w].render, Handed(w)')
        BY <2>1, <2>3, <2>4, <2>7
    <2>9. InTurn(w)'
        BY <1>0, <2>1, <2>2, <2>6, <2>7, <2>8 DEF InTurn, Carries
    <2>10. ASSUME NEW v \in Window, v # w
           PROVE  InTurn(v)'
        BY <2>1, <2>4, <2>10, OthersInTurn
    <2> QED BY <2>5, <2>9, <2>10 DEF FrameInv, FramesInTurn
<1> QED BY <1>1, <1>2

\* The render thread pops the oldest frame, commits it and pushes it on.
LEMMA FramesRender ==
    ASSUME Control, FrameInv, NEW w \in Window,
           \/ RenderPop(w) /\ mesh_to_render[w].queue # <<>>
           \/ RenderTick(w) /\ ~RenderRefused(objects[w])
           \/ RenderPush(w) /\ ~render_to_display[w].closed
    PROVE  FrameInv'
<1> USE DEF Goto, queueVars
<1>0. /\ FramesTyped /\ InTurn(w) /\ frame_id[w] \in Nat /\ committed[w] \in Nat
      /\ latest_frame[w] \in Nat /\ frame[w] \in [mesh : Nat, render : Nat]
      /\ mesh_to_render[w] \in Queue(Nat) /\ mesh_to_render[w].queue \in Seq(Nat)
      /\ render_to_display[w] \in Queue(Nat) /\ render_to_display[w].queue \in Seq(Nat)
    BY DEF FrameInv, FramesInTurn, FramesTyped, Queue
<1>1. CASE RenderPop(w) /\ mesh_to_render[w].queue # <<>>
    <2> DEFINE n == Head(mesh_to_render[w].queue)
    <2>1. /\ pc[Render(w)] = "pop" /\ pc' = [pc EXCEPT ![Render(w)] = "tick"]
          /\ frame' = [frame EXCEPT ![w].render = n]
          /\ mesh_to_render' = [mesh_to_render EXCEPT ![w] = PopFront(@)]
          /\ UNCHANGED <<render_to_display, frame_id, committed, latest_frame,
                         latest_frame_id>>
        BY <1>1 DEF RenderPop
    <2>2. Handed(w) \in Int /\ Ascends(mesh_to_render[w].queue, frame[w].render, Handed(w))
        BY <1>0 DEF Handed, InTurn
    <2>3. /\ n \in Nat /\ frame[w].render < n /\ n <= Handed(w)
          /\ Ascends(Tail(mesh_to_render[w].queue), n, Handed(w))
        BY <1>0, <1>1, <2>2, AscendsTail
    <2> HIDE DEF n
    <2>4. /\ frame'[w].render = n /\ frame'[w].mesh = frame[w].mesh
          /\ frame' \in [Window -> [mesh : Nat, render : Nat]]
          /\ \A v \in Window : v # w => frame'[v] = frame[v]
        BY <1>0, <2>1, <2>3 DEF FramesTyped
    <2>5. /\ mesh_to_render'[w].queue = Tail(mesh_to_render[w].queue)
          /\ mesh_to_render' \in [Window -> Queue(Nat)]
          /\ \A v \in Window : v # w => mesh_to_render'[v] = mesh_to_render[v]
        BY <1>0, <1>1, <2>1, QueueOps DEF FramesTyped
    <2>6. FramesTyped'
        BY <1>0, <2>1, <2>4, <2>5 DEF FramesTyped
    <2>7. pc'[Render(w)] = "tick" /\ pc'[Mesh(w)] = pc[Mesh(w)]
        BY <2>1, Moved
    <2>8. Handed(w)' = Handed(w) /\ Carries(Mesh(w))' = Carries(Mesh(w))
        BY <2>1, <2>7 DEF Handed, Carries
    <2>9. ASSUME NEW i \in DOMAIN render_to_display[w].queue
          PROVE  render_to_display[w].queue[i] < n
        BY <1>0, <2>3 DEF InTurn, Ascends
    <2>10. Ascends(mesh_to_render'[w].queue, frame'[w].render, Handed(w)')
        BY <2>3, <2>4, <2>5, <2>8
    <2>11. InTurn(w)'
        BY <1>0, <2>1, <2>3, <2>4, <2>7, <2>8, <2>9, <2>10 DEF InTurn
    <2>12. ASSUME NEW v \in Window, v # w
           PROVE  InTurn(v)'
        BY <2>1, <2>4, <2>5, <2>12, OthersInTurn
    <2> QED BY <2>6, <2>11, <2>12 DEF FrameInv, FramesInTurn
<1>2. CASE RenderTick(w) /\ ~RenderRefused(objects[w])
    <2>1. /\ pc[Render(w)] = "tick" /\ pc' = [pc EXCEPT ![Render(w)] = "push"]
          /\ committed' = [committed EXCEPT ![w] = frame[w].render]
          /\ UNCHANGED <<mesh_to_render, render_to_display, frame, frame_id, latest_frame,
                         latest_frame_id>>
        BY <1>2 DEF RenderTick
    <2>2. /\ committed'[w] = frame[w].render /\ committed' \in [Window -> Nat]
          /\ \A v \in Window : v # w => committed'[v] = committed[v]
        BY <1>0, <2>1 DEF FramesTyped
    <2>3. FramesTyped'
        BY <1>0, <2>1, <2>2 DEF FramesTyped
    <2>4. pc'[Render(w)] = "push" /\ pc'[Mesh(w)] = pc[Mesh(w)]
        BY <2>1, Moved
    <2>5. Handed(w)' = Handed(w) /\ Carries(Mesh(w))' = Carries(Mesh(w))
        BY <2>1, <2>4 DEF Handed, Carries
    <2>6. Carries(Render(w))
        BY <2>1 DEF Carries
    <2>7. Ascends(render_to_display[w].queue, latest_frame[w], frame[w].render)
        BY <1>0, <2>6 DEF InTurn, Ascends
    <2>8. Ascends(render_to_display'[w].queue, latest_frame'[w], committed'[w])
        BY <2>1, <2>2, <2>7
    <2>9. InTurn(w)'
        BY <1>0, <2>1, <2>2, <2>5, <2>6, <2>8 DEF InTurn
    <2>10. ASSUME NEW v \in Window, v # w
           PROVE  InTurn(v)'
        BY <2>1, <2>2, <2>10, OthersInTurn
    <2> QED BY <2>3, <2>9, <2>10 DEF FrameInv, FramesInTurn
<1>3. CASE RenderPush(w) /\ ~render_to_display[w].closed
    <2> DEFINE n == frame[w].render
               s == render_to_display[w].queue
    <2>1. /\ pc[Render(w)] = "push" /\ pc' = [pc EXCEPT ![Render(w)] = "loop"]
          /\ render_to_display' = [render_to_display EXCEPT ![w] = Push(@, QueueDepth, n)]
          /\ UNCHANGED <<mesh_to_render, frameVars>>
        BY <1>3 DEF RenderPush
    <2> USE DEF frameVars
    <2>2. /\ committed[w] = n /\ n \in Nat /\ latest_frame[w] < n
          /\ \A i \in DOMAIN s : s[i] < n
        BY <1>0, <2>1 DEF InTurn, Carries
    <2>3. Ascends(s, latest_frame[w], n - 1)
        <3>1. \A i \in DOMAIN s : s[i] \in Nat /\ s[i] <= n - 1
            BY <1>0, <2>2
        <3> QED BY <1>0, <3>1 DEF InTurn, Ascends
    <2>4. /\ Push(render_to_display[w], QueueDepth, n) \in Queue(Nat)
          /\ Ascends(Push(render_to_display[w], QueueDepth, n).queue, latest_frame[w], n)
        BY <1>0, <2>2, <2>3, PushAscends
    <2>5. /\ render_to_display'[w] = Push(render_to_display[w], QueueDepth, n)
          /\ render_to_display' \in [Window -> Queue(Nat)]
          /\ \A v \in Window : v # w => render_to_display'[v] = render_to_display[v]
        BY <1>0, <2>1, <2>4 DEF FramesTyped
    <2>6. FramesTyped'
        BY <1>0, <2>1, <2>5 DEF FramesTyped
    <2>7. pc'[Render(w)] = "loop" /\ pc'[Mesh(w)] = pc[Mesh(w)]
        BY <2>1, Moved
    <2>8. Handed(w)' = Handed(w) /\ Carries(Mesh(w))' = Carries(Mesh(w))
        BY <2>1, <2>7 DEF Handed, Carries
    <2>9. Ascends(render_to_display'[w].queue, latest_frame'[w], committed'[w])
        BY <2>1, <2>2, <2>4, <2>5
    <2>10. ~Carries(Render(w))' /\ pc'[Render(w)] # "push"
        BY <2>7 DEF Carries
    <2>11. InTurn(w)'
        BY <1>0, <2>1, <2>8, <2>9, <2>10 DEF InTurn
    <2>12. ASSUME NEW v \in Window, v # w
           PROVE  InTurn(v)'
        BY <2>1, <2>5, <2>12, OthersInTurn
    <2> QED BY <2>6, <2>11, <2>12 DEF FrameInv, FramesInTurn
<1> QED BY <1>1, <1>2, <1>3

\* The display thread takes a newer frame, which has been committed.
LEMMA Newest ==
    ASSUME FrameInv, NEW w \in Window, render_to_display[w].queue # <<>>
    PROVE  LET n == PopAllLatest(render_to_display[w])
           IN  /\ n \in Nat /\ latest_frame[w] < n /\ n <= committed[w]
               /\ Carries(Render(w)) => n < frame[w].render
<1> DEFINE s == render_to_display[w].queue
<1>1. s \in Seq(Nat) /\ InTurn(w)
    BY DEF FrameInv, FramesInTurn, FramesTyped, Queue
<1>2. Len(s) \in DOMAIN s /\ s[Len(s)] \in Nat
    BY <1>1
<1> QED BY <1>1, <1>2 DEF PopAllLatest, InTurn, Ascends

\* The display thread takes that frame and shows it.
LEMMA FramesDisplay ==
    ASSUME Control, FrameInv, NEW w \in Window,
           \/ DisplayPop(w) /\ render_to_display[w].queue # <<>>
           \/ DisplayTick(w)
    PROVE  FrameInv'
<1> USE DEF Goto, queueVars
<1>0. /\ FramesTyped /\ InTurn(w) /\ render_to_display[w] \in Queue(Nat)
      /\ latest_frame[w] \in Nat /\ committed[w] \in Nat /\ latest_frame_id[w] \in Nat
    BY DEF FrameInv, FramesInTurn, FramesTyped
<1>1. CASE DisplayPop(w) /\ render_to_display[w].queue # <<>>
    <2> DEFINE n == PopAllLatest(render_to_display[w])
    <2>1. /\ pc' = [pc EXCEPT ![Display(w)] = "tick"]
          /\ latest_frame' = [latest_frame EXCEPT ![w] = n]
          /\ render_to_display' = [render_to_display EXCEPT ![w] = PopAll(@)]
          /\ UNCHANGED <<mesh_to_render, frame, frame_id, committed, latest_frame_id>>
        BY <1>1 DEF DisplayPop
    <2>2. /\ n \in Nat /\ latest_frame[w] < n /\ n <= committed[w]
          /\ Carries(Render(w)) => n < frame[w].render
        BY <1>1, Newest
    <2> HIDE DEF n
    <2>3. /\ latest_frame'[w] = n /\ latest_frame' \in [Window -> Nat]
          /\ \A v \in Window : v # w => latest_frame'[v] = latest_frame[v]
        BY <1>0, <2>1, <2>2 DEF FramesTyped
    <2>4. /\ render_to_display'[w].queue = <<>>
          /\ render_to_display' \in [Window -> Queue(Nat)]
          /\ \A v \in Window : v # w => render_to_display'[v] = render_to_display[v]
        BY <1>0, <2>1, QueueOps DEF FramesTyped
    <2>5. FramesTyped'
        BY <1>0, <2>1, <2>3, <2>4 DEF FramesTyped
    <2>6. pc'[Render(w)] = pc[Render(w)] /\ pc'[Mesh(w)] = pc[Mesh(w)]
        BY <2>1, Moved
    <2>7. /\ Handed(w)' = Handed(w) /\ Carries(Mesh(w))' = Carries(Mesh(w))
          /\ Carries(Render(w))' = Carries(Render(w))
        BY <2>1, <2>6 DEF Handed, Carries
    <2>8. /\ Ascends(render_to_display'[w].queue, latest_frame'[w], committed'[w])
          /\ DOMAIN render_to_display'[w].queue = {}
        BY <2>4, AscendsEmpty
    <2>9. latest_frame_id'[w] <= latest_frame'[w]
        BY <1>0, <2>1, <2>2, <2>3 DEF InTurn
    <2>10. InTurn(w)'
        BY <1>0, <2>1, <2>2, <2>3, <2>6, <2>7, <2>8, <2>9 DEF InTurn
    <2>11. ASSUME NEW v \in Window, v # w
           PROVE  InTurn(v)'
        BY <2>1, <2>3, <2>4, <2>11, OthersInTurn
    <2> QED BY <2>5, <2>10, <2>11 DEF FrameInv, FramesInTurn
<1>2. CASE DisplayTick(w)
    <2>1. /\ pc' = [pc EXCEPT ![Display(w)] = "loop"]
          /\ latest_frame_id' = [latest_frame_id EXCEPT ![w] = latest_frame[w]]
          /\ UNCHANGED <<mesh_to_render, render_to_display, frame, frame_id, committed,
                         latest_frame>>
        BY <1>2 DEF DisplayTick
    <2>2. /\ latest_frame_id'[w] = latest_frame[w] /\ latest_frame_id' \in [Window -> Nat]
          /\ \A v \in Window : v # w => latest_frame_id'[v] = latest_frame_id[v]
        BY <1>0, <2>1 DEF FramesTyped
    <2>3. FramesTyped'
        BY <1>0, <2>1, <2>2 DEF FramesTyped
    <2>4. pc'[Render(w)] = pc[Render(w)] /\ pc'[Mesh(w)] = pc[Mesh(w)]
        BY <2>1, Moved
    <2>5. /\ Handed(w)' = Handed(w) /\ Carries(Mesh(w))' = Carries(Mesh(w))
          /\ Carries(Render(w))' = Carries(Render(w))
        BY <2>1, <2>4 DEF Handed, Carries
    <2>6. InTurn(w)'
        BY <1>0, <2>1, <2>2, <2>4, <2>5 DEF InTurn
    <2>7. ASSUME NEW v \in Window, v # w
          PROVE  InTurn(v)'
        BY <2>1, <2>2, <2>7, OthersInTurn
    <2> QED BY <2>3, <2>6, <2>7 DEF FrameInv, FramesInTurn
<1> QED BY <1>1, <1>2

\* The steps that take no frame, give none and commit none.
LEMMA FramesElse ==
    ASSUME Control, FrameInv, NEW t \in Thread, NEW there \in PcState \ {"push"},
           pc[t] # "tick" => there # "tick",
           pc' = [pc EXCEPT ![t] = there] \/ pc' = pc, UNCHANGED frameVars,
           \/ UNCHANGED queueVars
           \/ \E v : mesh_to_render' = CloseOf(mesh_to_render, v) /\ UNCHANGED render_to_display
           \/ \E v : render_to_display' = CloseOf(render_to_display, v)
                     /\ UNCHANGED mesh_to_render
    PROVE  FrameInv'
<1>1. /\ mesh_to_render \in [Window -> Queue(Nat)]
      /\ render_to_display \in [Window -> Queue(Nat)]
    BY DEF FrameInv, FramesTyped
<1>2. /\ mesh_to_render' \in [Window -> Queue(Nat)]
      /\ render_to_display' \in [Window -> Queue(Nat)]
      /\ \A w \in Window : mesh_to_render'[w].queue = mesh_to_render[w].queue
      /\ \A w \in Window : render_to_display'[w].queue = render_to_display[w].queue
    BY <1>1, CloseKeeps DEF queueVars
<1> QED BY <1>2, FramesQuiet

\* Failing, and stopping the others.
LEMMA FramesStopping ==
    ASSUME Control, FrameInv, NEW t \in Thread,
           Stopping(t) \/ \E where \in {"begin", "tick"} : Throw(t, where)
    PROVE  FrameInv'
<1>1. /\ UNCHANGED frameVars
      /\ \/ UNCHANGED queueVars
         \/ \E v : mesh_to_render' = CloseOf(mesh_to_render, v) /\ UNCHANGED render_to_display
         \/ \E v : render_to_display' = CloseOf(render_to_display, v)
                   /\ UNCHANGED mesh_to_render
    <2>1. CASE CloseNext(t)
        BY <2>1 DEF CloseNext
    <2>2. CASE SetError(t) \/ SetMessage(t) \/ RequestStop(t) \/ StopRequested(t)
               \/ \E where \in {"begin", "tick"} : Throw(t, where)
        BY <2>2 DEF SetError, SetMessage, RequestStop, StopRequested, Throw
    <2> QED BY <2>1, <2>2 DEF Stopping
<1>2. \E there \in PcState \ {"push", "tick"} : pc' = [pc EXCEPT ![t] = there] \/ pc' = pc
    BY DEF Stopping, SetError, SetMessage, RequestStop, CloseNext, StopRequested, Throw, Goto,
           PcState
<1> QED BY <1>1, <1>2, FramesElse

\* main() has no frames.
LEMMA FramesMain ==
    ASSUME Control, FrameInv, MainThread \/ Poll
    PROVE  FrameInv'
<1>0. Main \in Thread /\ "poll" \in PcState /\ pc \in [Thread -> PcState]
    BY Threads DEF PcState, Control, ControlTyped
<1>1. CASE StartNext
    <2> DEFINE t == Workers[started + 1]
               first == [pc EXCEPT ![t] = IF t[2] = "display" THEN "begin" ELSE "loop"]
    <2>1. pc' \in {first, [first EXCEPT ![Main] = "poll"]} /\ UNCHANGED <<queueVars, frameVars>>
        BY <1>1 DEF StartNext
    <2>2. FramesTyped'
        BY <2>1 DEF queueVars, frameVars, FrameInv, FramesTyped
    <2>3. ASSUME NEW w \in Window
          PROVE  InTurn(w)'
        <3>1. Mesh(w) \in Thread \ {Main} /\ Render(w) \in Thread \ {Main}
            BY Threads, ThreadsOf
        <3>2. ASSUME NEW u \in {Mesh(w), Render(w)}
              PROVE  pc'[u] \in {pc[u], "begin", "loop"}
            BY <1>0, <2>1, <3>1
        <3>3. /\ Carries(Mesh(w))' => Carries(Mesh(w))
              /\ Carries(Render(w))' => Carries(Render(w))
              /\ pc'[Render(w)] = "push" => pc[Render(w)] = "push"
            BY <3>2 DEF Carries
        <3> QED BY <2>1, <3>3, TurnKept DEF queueVars, frameVars
    <2> QED BY <2>2, <2>3 DEF FrameInv, FramesInTurn
<1>2. CASE ~StartNext
    <2>1. /\ UNCHANGED <<queueVars, frameVars>>
          /\ \E there \in PcState \ {"push", "tick"} :
                 pc' = [pc EXCEPT ![Main] = there] \/ pc' = pc
        BY <1>2 DEF MainThread, CreateScenario, CreateWindowFails, InitFails, JoinNext,
                    ShutdownScenarios, Terminate, Poll, Goto, PcState
    <2> QED BY <1>0, <2>1, FramesElse
<1> QED BY <1>1, <1>2

\* The steps of the workers, by stage.
LEMMA FramesWorker ==
    ASSUME Control, FrameInv, NEW t \in Worker, WorkerStep(t)
    PROVE  FrameInv'
<1> DEFINE w == t[1]
<1>0. w \in Window /\ t \in Thread
    BY Threads, WorkerIs
<1> HIDE DEF w
<1>1. CASE t[2] = "mesh" /\ MeshThread(w)
    <2>0. Mesh(w) \in Thread
        BY <1>0, Threads, ThreadsOf
    <2>1. CASE MeshPush(w) /\ ~mesh_to_render[w].closed
        BY <1>0, <2>1, FramesMesh
    <2>2. CASE MeshLoop(w) /\ pc' = [pc EXCEPT ![Mesh(w)] = "tick"]
        <3>1. pc'[Mesh(w)] = "tick"
            BY <1>0, <2>2, Moved
        <3> QED BY <1>0, <2>2, <3>1, FramesMesh
    <2>3. CASE MeshLoop(w) /\ pc' # [pc EXCEPT ![Mesh(w)] = "tick"]
        <3>1. pc' = [pc EXCEPT ![Mesh(w)] = "end"] /\ UNCHANGED <<queueVars, frameVars>>
            BY <2>3 DEF MeshLoop, Goto, frameVars
        <3> QED BY <2>0, <3>1, FramesElse DEF PcState
    <2>4. CASE MeshPush(w) /\ mesh_to_render[w].closed
        <3>1. pc' = [pc EXCEPT ![Mesh(w)] = "end"] /\ UNCHANGED <<queueVars, frameVars>>
            BY <2>4 DEF MeshPush, Goto, queueVars
        <3> QED BY <2>0, <3>1, FramesElse DEF PcState
    <2>5. CASE MeshEnd(w)
        <3>1. /\ pc' = [pc EXCEPT ![Mesh(w)] = "done"] /\ UNCHANGED <<render_to_display, frameVars>>
              /\ mesh_to_render' = CloseOf(mesh_to_render, w)
            BY <2>5 DEF MeshEnd, Goto
        <3> QED BY <2>0, <3>1, FramesElse DEF PcState
    <2>6. CASE MeshTick(w)
        <3>1. /\ pc[Mesh(w)] = "tick" /\ UNCHANGED <<queueVars, frameVars>>
              /\ \E there \in {"error", "push"} : pc' = [pc EXCEPT ![Mesh(w)] = there]
            BY <2>6 DEF MeshTick, Goto
        <3>2. FramesTyped'
            BY <3>1 DEF queueVars, frameVars, FrameInv, FramesTyped
        <3>3. ASSUME NEW v \in Window
              PROVE  InTurn(v)'
            <4>1. Mesh(v) \in Thread /\ Render(v) \in Thread /\ Render(v) # Mesh(w)
                BY <1>0, Threads, ThreadsOf
            <4>2. pc'[Render(v)] = pc[Render(v)] /\ (Carries(Mesh(v))' => Carries(Mesh(v)))
                BY <3>1, <4>1 DEF Carries, Control, ControlTyped
            <4> QED BY <3>1, <4>2, TurnKept DEF queueVars, frameVars, Carries
        <3> QED BY <3>2, <3>3 DEF FrameInv, FramesInTurn
    <2> QED BY <1>1, <2>1, <2>2, <2>3, <2>4, <2>5, <2>6 DEF MeshThread
<1>2. CASE t[2] = "render" /\ RenderThread(w)
    <2>0. Render(w) \in Thread
        BY <1>0, Threads, ThreadsOf
    <2>1. CASE RenderPop(w) /\ mesh_to_render[w].queue # <<>>
        BY <1>0, <2>1, FramesRender
    <2>2. CASE RenderTick(w) /\ ~RenderRefused(objects[w])
        BY <1>0, <2>2, FramesRender
    <2>3. CASE RenderPush(w) /\ ~render_to_display[w].closed
        BY <1>0, <2>3, FramesRender
    <2>4. CASE RenderSleep(w)
        <3>1. /\ pc' = [pc EXCEPT ![Render(w)] = "asleep"]
              /\ mesh_to_render' = [mesh_to_render EXCEPT ![w].asleep = TRUE]
              /\ UNCHANGED <<render_to_display, frameVars>>
            BY <2>4 DEF RenderSleep, Goto
        <3>2. /\ mesh_to_render \in [Window -> Queue(Nat)]
              /\ render_to_display \in [Window -> Queue(Nat)]
            BY DEF FrameInv, FramesTyped
        <3>3. /\ mesh_to_render' \in [Window -> Queue(Nat)]
              /\ \A v \in Window : mesh_to_render'[v].queue = mesh_to_render[v].queue
            <4>1. /\ [mesh_to_render[w] EXCEPT !.asleep = TRUE] \in Queue(Nat)
                  /\ [mesh_to_render[w] EXCEPT !.asleep = TRUE].queue = mesh_to_render[w].queue
                BY <1>0, <3>2, QueueOps
            <4> QED BY <1>0, <3>1, <3>2, <4>1
        <3> QED BY <2>0, <3>1, <3>2, <3>3, FramesQuiet DEF PcState
    <2>5. CASE RenderLoop(w) \/ RenderWake(w)
        <3>1. /\ UNCHANGED <<queueVars, frameVars>>
              /\ \E there \in {"pop", "end"} : pc' = [pc EXCEPT ![Render(w)] = there]
            BY <2>5 DEF RenderLoop, RenderWake, Goto
        <3> QED BY <2>0, <3>1, FramesElse DEF PcState
    <2>6. CASE RenderPop(w) /\ mesh_to_render[w].queue = <<>>
        <3>1. UNCHANGED <<queueVars, frameVars>> /\ pc' = [pc EXCEPT ![Render(w)] = "end"]
            BY <2>6 DEF RenderPop, Goto, queueVars, frameVars
        <3> QED BY <2>0, <3>1, FramesElse DEF PcState
    <2>7. CASE RenderTick(w) /\ RenderRefused(objects[w])
        <3>1. UNCHANGED <<queueVars, frameVars>> /\ pc' = [pc EXCEPT ![Render(w)] = "error"]
            BY <2>7 DEF RenderTick, Goto, frameVars
        <3> QED BY <2>0, <3>1, FramesElse DEF PcState
    <2>8. CASE RenderPush(w) /\ render_to_display[w].closed
        <3>1. UNCHANGED <<queueVars, frameVars>> /\ pc' = [pc EXCEPT ![Render(w)] = "end"]
            BY <2>8 DEF RenderPush, Goto, queueVars
        <3> QED BY <2>0, <3>1, FramesElse DEF PcState
    <2>9. CASE RenderEnd(w)
        <3>1. /\ pc' = [pc EXCEPT ![Render(w)] = "done"] /\ UNCHANGED <<mesh_to_render, frameVars>>
              /\ render_to_display' = CloseOf(render_to_display, w)
            BY <2>9 DEF RenderEnd, Goto
        <3> QED BY <2>0, <3>1, FramesElse DEF PcState
    <2> QED BY <1>2, <2>1, <2>2, <2>3, <2>4, <2>5, <2>6, <2>7, <2>8, <2>9 DEF RenderThread
<1>3. CASE t[2] = "display" /\ DisplayThread(w)
    <2>0. Display(w) \in Thread
        BY <1>0, Threads, ThreadsOf
    <2>1. CASE DisplayPop(w) /\ render_to_display[w].queue # <<>>
        BY <1>0, <2>1, FramesDisplay
    <2>2. CASE DisplayTick(w)
        BY <1>0, <2>2, FramesDisplay
    <2>3. CASE DisplayBegin(w) \/ DisplayLoop(w) \/ DisplayEnd(w)
        <3>1. /\ UNCHANGED <<queueVars, frameVars>>
              /\ \E there \in {"loop", "pop", "end", "done"} :
                     pc' = [pc EXCEPT ![Display(w)] = there]
            BY <2>3 DEF DisplayBegin, DisplayLoop, DisplayEnd, Goto
        <3> QED BY <2>0, <3>1, FramesElse DEF PcState
    <2>4. CASE DisplayPop(w) /\ render_to_display[w].queue = <<>>
        <3>1. /\ UNCHANGED <<queueVars, frameVars>>
              /\ \E there \in {"loop", "tick"} : pc' = [pc EXCEPT ![Display(w)] = there]
            BY <2>4 DEF DisplayPop, Goto, queueVars, frameVars
        <3>2. FramesTyped'
            BY <3>1 DEF queueVars, frameVars, FrameInv, FramesTyped
        <3>3. ASSUME NEW v \in Window
              PROVE  InTurn(v)'
            <4>1. /\ Mesh(v) \in Thread /\ Render(v) \in Thread
                  /\ Render(v) # Display(w) /\ Mesh(v) # Display(w)
                BY <1>0, Threads, ThreadsOf
            <4>2. pc'[Render(v)] = pc[Render(v)] /\ pc'[Mesh(v)] = pc[Mesh(v)]
                BY <3>1, <4>1 DEF Control, ControlTyped
            <4> QED BY <3>1, <4>2, TurnKept DEF queueVars, frameVars, Carries
        <3> QED BY <3>2, <3>3 DEF FrameInv, FramesInTurn
    <2> QED BY <1>3, <2>1, <2>2, <2>3, <2>4 DEF DisplayThread
<1> QED BY <1>1, <1>2, <1>3 DEF WorkerStep, w

\* Every step keeps the frames in turn.
LEMMA FramesStep == Control /\ FrameInv /\ [Next]_vars => FrameInv'
<1> SUFFICES ASSUME Control, FrameInv, [Next]_vars PROVE FrameInv'
    OBVIOUS
<1>1. CASE MainThread \/ Poll \/ Stopping(Main)
    BY <1>1, FramesMain, FramesStopping, Threads
<1>2. ASSUME NEW t \in Worker,
             \/ WorkerStep(t) \/ Stopping(t)
             \/ \E where \in {"begin", "tick"} : Throw(t, where)
      PROVE  FrameInv'
    BY <1>2, FramesWorker, FramesStopping, Threads
<1>3. CASE UNCHANGED vars
    BY <1>3 DEF vars, queueVars, frameVars, FrameInv, FramesTyped, FramesInTurn, InTurn,
                Carries, Handed, Ascends, Mesh, Render
<1> QED BY <1>1, <1>2, <1>3 DEF Next

-----------------------------------------------------------------------------
(***************************************************************************)
(* What the run checks, for any number of windows, frames and failures.    *)
(***************************************************************************)

FramesIInv == Control /\ FrameInv

\* The threads of the example program start, fail, stop and are joined in every order;
\* their control and the frames in their queues keep the invariant.
THEOREM FramesInvariance == Spec => []FramesIInv
<1>1. Init => FramesIInv
    BY ControlInit, FramesInit DEF FramesIInv
<1>2. FramesIInv /\ [Next]_vars => FramesIInv'
    BY ControlStep, FramesStep DEF FramesIInv
<1> QED BY <1>1, <1>2, PTL DEF Spec

\* No thread of a scenario runs before its init() or after its shutdown().
THEOREM TicksHaveTheirObjects == Spec => []TicksFindTheirObjects
<1>1. FramesIInv => TicksFindTheirObjects
    BY TicksFind DEF FramesIInv
<1> QED BY <1>1, FramesInvariance, PTL

\* main returns -1 exactly if something failed, with the message of the first thread
\* that reported it, however many fail at once.
THEOREM ErrorsAreReported == Spec => []FirstErrorReported
<1>1. FramesIInv => FirstErrorReported
    BY DEF FramesIInv, Control
<1> QED BY <1>1, FramesInvariance, PTL

\* A display thread goes from a frame only to a newer one, which its render thread has
\* committed, whatever the two queues in between drop.
LEMMA DisplayAdvances ==
    ASSUME FrameInv, [Next]_vars, NEW w \in Window
    PROVE  /\ latest_frame_id[w] <= latest_frame_id'[w]
           /\ latest_frame'[w] # latest_frame[w] =>
                 /\ latest_frame'[w] > latest_frame[w]
                 /\ latest_frame'[w] <= committed[w]
<1>0. /\ InTurn(w) /\ latest_frame[w] \in Nat /\ latest_frame_id[w] \in Nat
      /\ latest_frame \in [Window -> Nat] /\ latest_frame_id \in [Window -> Nat]
    BY DEF FrameInv, FramesInTurn, FramesTyped
<1>1. \/ UNCHANGED <<latest_frame, latest_frame_id>>
      \/ \E v \in Window : DisplayPop(v) \/ DisplayTick(v)
    <2>1. CASE MainThread \/ Poll
        BY <2>1 DEF MainThread, CreateScenario, CreateWindowFails, InitFails, StartNext,
                    JoinNext, ShutdownScenarios, Terminate, Poll, frameVars
    <2>2. ASSUME NEW t, Stopping(t) \/ \E where \in {"begin", "tick"} : Throw(t, where)
          PROVE  UNCHANGED <<latest_frame, latest_frame_id>>
        BY <2>2 DEF Stopping, SetError, SetMessage, RequestStop, CloseNext, StopRequested,
                    Throw, frameVars
    <2>3. ASSUME NEW t \in Worker, WorkerStep(t)
          PROVE  \/ UNCHANGED <<latest_frame, latest_frame_id>>
                 \/ DisplayPop(t[1]) \/ DisplayTick(t[1])
        <3>1. CASE MeshThread(t[1])
            BY <3>1 DEF MeshThread, MeshLoop, MeshTick, MeshPush, MeshEnd, frameVars
        <3>2. CASE RenderThread(t[1])
            BY <3>2 DEF RenderThread, RenderLoop, RenderSleep, RenderWake, RenderPop,
                        RenderTick, RenderPush, RenderEnd, frameVars
        <3>3. CASE DisplayThread(t[1])
            BY <3>3 DEF DisplayThread, DisplayBegin, DisplayLoop, DisplayEnd, frameVars
        <3> QED BY <2>3, <3>1, <3>2, <3>3 DEF WorkerStep
    <2>4. CASE UNCHANGED vars
        BY <2>4 DEF vars, frameVars
    <2> QED BY <2>1, <2>2, <2>3, <2>4, WorkerIs DEF Next
<1>2. CASE UNCHANGED <<latest_frame, latest_frame_id>>
    BY <1>0, <1>2
<1>3. ASSUME NEW v \in Window, DisplayTick(v)
      PROVE  latest_frame_id[w] <= latest_frame_id'[w] /\ latest_frame' = latest_frame
    BY <1>0, <1>3 DEF DisplayTick, InTurn
<1>4. ASSUME NEW v \in Window, DisplayPop(v)
      PROVE  /\ latest_frame_id'[w] = latest_frame_id[w]
             /\ latest_frame'[w] # latest_frame[w] =>
                   latest_frame'[w] > latest_frame[w] /\ latest_frame'[w] <= committed[w]
    <2>1. CASE render_to_display[v].queue = <<>>
        BY <1>4, <2>1 DEF DisplayPop
    <2>2. CASE render_to_display[v].queue # <<>>
        <3> DEFINE n == PopAllLatest(render_to_display[v])
        <3>1. latest_frame' = [latest_frame EXCEPT ![v] = n] /\ latest_frame_id' = latest_frame_id
            BY <1>4, <2>2 DEF DisplayPop
        <3>2. n \in Nat /\ latest_frame[v] < n /\ n <= committed[v]
            BY <2>2, Newest
        <3> HIDE DEF n
        <3> QED BY <1>0, <3>1, <3>2
    <2> QED BY <2>1, <2>2
<1> QED BY <1>0, <1>1, <1>2, <1>3, <1>4

\* What a window shows never goes back, and has been committed.
THEOREM FramesAlwaysAdvance == Spec => FramesAdvance
<1>1. FramesIInv /\ [Next]_vars =>
          [\A w \in Window :
              /\ latest_frame_id[w] <= latest_frame_id'[w]
              /\ latest_frame'[w] # latest_frame[w] =>
                    /\ latest_frame'[w] > latest_frame[w]
                    /\ latest_frame'[w] <= committed[w]]_vars
    BY DisplayAdvances DEF FramesIInv
<1> QED BY <1>1, FramesInvariance, PTL DEF Spec, FramesAdvance
=============================================================================
