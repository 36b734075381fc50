------------------------------- MODULE CircBuf -------------------------------
(* The byte ring of module3 ex05: push writes at head, pop reads at tail,    *)
(* count tells a full ring from an empty one. Main pops; pushes come from    *)
(* main between two pops, or from a UART interrupt at any access of pop to   *)
(* the ring (LESSONS.md, "embedded use case - UART RX"). count-- is the load *)
(* and the store it compiles to.                                             *)
EXTENDS Integers, Sequences

CONSTANTS
    Byte,           \* what a uint8_t element may hold, Zero among them
    Zero,
    BUFFER_SIZE,    \* #define BUFFER_SIZE
    NoByte,         \* the caller's *byte left as it was
    MaxUnread       \* bound: bytes pushed and not yet popped

ASSUME CircBufAssumption ==
    /\ BUFFER_SIZE \in Nat \ {0} /\ Zero \in Byte /\ NoByte \notin Byte
    /\ MaxUnread \in Nat

VARIABLES data, head, tail, count,
          res,      \* what the last call returned
          preempts, \* pushes come inside pop too: fixed at the start
          pc,       \* where main is inside cbuf_pop
          byte,     \* pop's *byte
          reg,      \* the register of count--
          unread    \* history: the bytes pushed and not yet taken

ring == <<data, head, tail, count>>
vars == <<ring, res, preempts, pc, byte, reg, unread>>

Returned(op, b) == [op |-> op, ok |-> TRUE, value |-> b]
Refused(op)     == [op |-> op, ok |-> FALSE, value |-> NoByte]

Init == /\ data = [i \in 0 .. BUFFER_SIZE - 1 |-> Zero]
        /\ head = 0 /\ tail = 0 /\ count = 0
        /\ res = Returned("init", NoByte)
        /\ preempts \in BOOLEAN
        /\ pc = "idle" /\ byte = NoByte /\ reg = 0 /\ unread = <<>>

IsFull  == count = BUFFER_SIZE
IsEmpty == count = 0

\* Mutant: the index is not wrapped.
AfterNoWrap(i) == i + 1
After(i) == (i + 1) % BUFFER_SIZE

PushRuns == preempts \/ pc = "idle"

\* Mutant: push does not look whether the ring is full.
PushUnchecked(b) == /\ PushRuns /\ Len(unread) < MaxUnread
                    /\ data' = [data EXCEPT ![head] = b]
                    /\ head' = After(head)
                    /\ count' = IF IsFull THEN count ELSE count + 1
                    /\ res' = Returned("put", b)
                    /\ unread' = Append(unread, b)
                    /\ UNCHANGED <<tail, preempts, pc, byte, reg>>

Push(b) == /\ PushRuns /\ ~IsFull /\ Len(unread) < MaxUnread
           /\ data' = [data EXCEPT ![head] = b]
           /\ head' = After(head)
           /\ count' = count + 1
           /\ res' = Returned("put", b)
           /\ unread' = Append(unread, b)
           /\ UNCHANGED <<tail, preempts, pc, byte, reg>>

PushFull == /\ PushRuns /\ IsFull
            /\ res' = Refused("put")
            /\ UNCHANGED <<ring, preempts, pc, byte, reg, unread>>

PopTest == /\ pc = "idle"
           /\ IF IsEmpty THEN res' = Refused("get") /\ UNCHANGED pc
                         ELSE pc' = "take" /\ UNCHANGED res
           /\ UNCHANGED <<ring, preempts, byte, reg, unread>>

\* Mutant: tail moves by two.
PopTakeTwice == /\ pc = "take"
                /\ byte' = data[tail]
                /\ tail' = After(After(tail))
                /\ unread' = Tail(unread)
                /\ pc' = "load"
                /\ UNCHANGED <<data, head, count, res, preempts, reg>>

\* The byte and tail in one step: a push in between reads neither tail nor the slot.
PopTake == /\ pc = "take"
           /\ byte' = data[tail]
           /\ tail' = After(tail)
           /\ unread' = Tail(unread)
           /\ pc' = "load"
           /\ UNCHANGED <<data, head, count, res, preempts, reg>>

PopLoad == /\ pc = "load"
           /\ reg' = count
           /\ pc' = "store"
           /\ UNCHANGED <<ring, res, preempts, byte, unread>>

\* Mutant: the decrement is lost.
PopStoreStale == /\ pc = "store"
                 /\ count' = reg
                 /\ res' = Returned("get", byte)
                 /\ pc' = "idle"
                 /\ UNCHANGED <<data, head, tail, preempts, byte, reg, unread>>

PopStore == /\ pc = "store"
            /\ count' = reg - 1
            /\ res' = Returned("get", byte)
            /\ pc' = "idle"
            /\ UNCHANGED <<data, head, tail, preempts, byte, reg, unread>>

Next == \/ \E b \in Byte : Push(b)
        \/ PushFull
        \/ PopTest \/ PopTake \/ PopLoad \/ PopStore

Spec == Init /\ [][Next]_vars

------------------------------------------------------------------------------
\* Type invariant: indices inside data[], count within its size.
TypeOK == /\ data \in [0 .. BUFFER_SIZE - 1 -> Byte]
          /\ head \in 0 .. BUFFER_SIZE - 1
          /\ tail \in 0 .. BUFFER_SIZE - 1
          /\ count \in 0 .. BUFFER_SIZE /\ reg \in 0 .. BUFFER_SIZE
          /\ res.value \in Byte \cup {NoByte} /\ byte \in Byte \cup {NoByte}
          /\ preempts \in BOOLEAN
          /\ pc \in {"idle", "take", "load", "store"}
          /\ unread \in Seq(Byte)

Slot(i) == (tail + i - 1) % BUFFER_SIZE

\* Head and tail have one writer each and do not drift, interrupts or not: the
\* BUFFER_SIZE newest unread bytes are in the ring, in order, where the next pops
\* will read them.
NewestIntact ==
    /\ (head - tail) % BUFFER_SIZE = Len(unread) % BUFFER_SIZE
    /\ \A i \in 1 .. Len(unread) :
          i > Len(unread) - BUFFER_SIZE => data[Slot(i)] = unread[i]

\* The ring after any interleaving: well typed, and the newest bytes where the
\* pops to come will read them.
RingIntact == TypeOK /\ NewestIntact

\* Whatever the interleaving, pop never returns a byte nobody pushed: the race on
\* count loses increments, never decrements, so count does not exceed what is
\* unread, and main inside pop has a byte to take.
NoPhantomByte == /\ pc = "idle" => count <= Len(unread)
                 /\ pc = "take" => unread # <<>>

\* The byte pop has taken is in the queue until pop returns it.
Queued == INSTANCE BoundedFifo
              WITH fifo <- IF pc \in {"load", "store"} THEN <<byte>> \o unread ELSE unread,
                   Capacity <- BUFFER_SIZE, Value <- Byte, NoValue <- NoByte

\* When no push comes inside a pop the ring is a bounded FIFO of BUFFER_SIZE
\* bytes: it uses every slot, refuses the push that would overwrite an unread
\* byte, and pops in push order.
CallsImplementFifo ==
    Queued!Init /\ [][preempts \/ Queued!Next \/ UNCHANGED Queued!state]_vars

\* LESSONS.md calls this ring fit for ISR-safe data passing: between two calls of
\* main, count is the number of unread bytes. count++ of the interrupt between
\* the load and the store of main's count-- is lost.
CountIsUnread == pc = "idle" => count = Len(unread)
==============================================================================
