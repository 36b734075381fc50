-------------------------------- MODULE Queue --------------------------------
(* The fixed-size queue of module4 ex02: an array, the index of its front,   *)
(* the index after its back, and a separate element count.                   *)
EXTENDS Naturals, Sequences

CONSTANTS
    Value,          \* what a uint32_t element may hold
    QUEUE_SIZE,     \* #define QUEUE_SIZE
    NoValue         \* the caller's *value left as it was

ASSUME QueueAssumption == QUEUE_SIZE \in Nat \ {0} /\ NoValue \notin Value

VARIABLES data, head, tail, count,
          res       \* what the last call returned

vars == <<data, head, tail, count, res>>

Returned(op, v) == [op |-> op, ok |-> TRUE, value |-> v]
Refused(op)     == [op |-> op, ok |-> FALSE, value |-> NoValue]

\* queue_init leaves data[] as the stack had it.
Init == /\ data \in [0 .. QUEUE_SIZE - 1 -> Value]
        /\ head = 0 /\ tail = 0 /\ count = 0
        /\ res = Returned("init", NoValue)

IsEmpty == count = 0

\* Mutant: the count a ring without a counter would call full.
IsFullEarly == count = QUEUE_SIZE - 1
IsFull == count = QUEUE_SIZE

\* Mutant: the index is not wrapped.
AfterNoWrap(i) == i + 1
After(i) == (i + 1) % QUEUE_SIZE

Enqueue(v) == /\ ~IsFull
              /\ data' = [data EXCEPT ![tail] = v]
              /\ tail' = After(tail)
              /\ count' = count + 1
              /\ res' = Returned("put", v)
              /\ UNCHANGED head

EnqueueFull == /\ IsFull
               /\ res' = Refused("put")
               /\ UNCHANGED <<data, head, tail, count>>

\* Mutant: the front index is not moved.
DequeueStuck == /\ ~IsEmpty
                /\ count' = count - 1
                /\ res' = Returned("get", data[head])
                /\ UNCHANGED <<data, head, tail>>

Dequeue == /\ ~IsEmpty
           /\ head' = After(head)
           /\ count' = count - 1
           /\ res' = Returned("get", data[head])
           /\ UNCHANGED <<data, tail>>

Peek == /\ ~IsEmpty
        /\ res' = Returned("peek", data[head])
        /\ UNCHANGED <<data, head, tail, count>>

\* queue_dequeue and queue_peek on an empty queue.
TakeEmpty(op) == /\ IsEmpty
                 /\ res' = Refused(op)
                 /\ UNCHANGED <<data, head, tail, count>>

Next == \/ \E v \in Value : Enqueue(v)
        \/ EnqueueFull
        \/ Dequeue \/ Peek
        \/ \E op \in {"get", "peek"} : TakeEmpty(op)

Spec == Init /\ [][Next]_vars

------------------------------------------------------------------------------
\* Type invariant: both indices stay inside the array and count within its
\* size, so no call reads or writes outside data[].
TypeOK == /\ data \in [0 .. QUEUE_SIZE - 1 -> Value]
          /\ head \in 0 .. QUEUE_SIZE - 1
          /\ tail \in 0 .. QUEUE_SIZE - 1
          /\ count \in 0 .. QUEUE_SIZE
          /\ res.value \in Value \cup {NoValue}

\* The three counters agree: count elements after head, around the end of the
\* array, is tail. head = tail alone does not tell a full queue from an empty one.
RingAgreement == tail = (head + count) % QUEUE_SIZE

\* The elements from front to back, in the order queue_print walks them.
Slot(i) == (head + i - 1) % QUEUE_SIZE
Contents == [i \in 1 .. count |-> data[Slot(i)]]

Fifo == INSTANCE BoundedFifo WITH fifo <- Contents, Capacity <- QUEUE_SIZE

\* Every call behaves as the bounded FIFO's: order kept across the wrap of both
\* indices, nothing lost or read before it is written although data[] starts
\* indeterminate, refusals exactly at full and at empty.
ImplementsFifo == Fifo!Spec
==============================================================================
