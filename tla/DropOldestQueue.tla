--------------------------- MODULE DropOldestQueue ---------------------------
(***************************************************************************)
(* The bounded queue between two threads of the examples.  Every operation *)
(* holds the queue's mutex from its first access to its last, so it is one *)
(* step; only pop_wait gives the mutex up in between, to sleep.            *)
(***************************************************************************)
EXTENDS Integers, Sequences

\* asleep: a consumer waits on the condition variable and nobody has notified it.
Queue(Item) == [queue : Seq(Item), dropped_count : Nat, closed : BOOLEAN, asleep : BOOLEAN]

EmptyQueue == [queue |-> <<>>, dropped_count |-> 0, closed |-> FALSE, asleep |-> FALSE]

\* A capacity of 0 becomes 1.
Capacity(capacity) == IF capacity = 0 THEN 1 ELSE capacity

\* push() of an open queue; a closed one returns false and is left alone.
Push(q, capacity, item) ==
    LET full == Len(q.queue) >= Capacity(capacity)
    IN  [q EXCEPT !.queue = Append(IF full THEN Tail(@) ELSE @, item),
                  !.dropped_count = IF full THEN @ + 1 ELSE @,
                  !.asleep = FALSE]

\* pop_wait() returns when there is an item, or when the queue is closed.
CanReturn(q) == q.closed \/ q.queue # <<>>

PopFront(q) == [q EXCEPT !.queue = Tail(@)]

\* try_pop_all_latest() of a queue with items; those it skips are not counted.
PopAllLatest(q) == q.queue[Len(q.queue)]

\* Mutant: takes the newest item only.
PopBack(q) == [q EXCEPT !.queue = SubSeq(@, 1, Len(@) - 1)]

PopAll(q) == [q EXCEPT !.queue = <<>>]

\* Mutant: close() forgets notify_all.
CloseQuietly(q) == [q EXCEPT !.closed = TRUE]

Close(q) == [q EXCEPT !.closed = TRUE, !.asleep = FALSE]

IsClosedAndEmpty(q) == q.closed /\ q.queue = <<>>
=============================================================================
