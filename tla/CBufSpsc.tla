------------------------------ MODULE CBufSpsc -------------------------------
(* One producer in cbuf_push and one consumer in cbuf_pop on the same cbuf_t:*)
(* two threads, or the UART handler and main loop of LESSONS.md, where main  *)
(* also calls cbuf_flush. A step is one access to what the two share, in     *)
(* program order. cbuf_is_full reads head and tail in one step, because its  *)
(* answer is the same for any two values: the masked count is below          *)
(* CBUF_SIZE, so no push is refused and the producer may lap the consumer.   *)
EXTENDS Integers, Sequences

CONSTANTS
    Byte, Zero,
    CBUF_SIZE, INDEX_MOD,
    MaxUnread   \* bound: bytes outstanding, beyond CBUF_SIZE so that pushes overrun

ASSUME SpscAssumption ==
    /\ CBUF_SIZE \in Nat \ {0} /\ INDEX_MOD \in Nat \ {0}
    /\ \E k \in 2 .. INDEX_MOD : INDEX_MOD = k * CBUF_SIZE
    /\ Zero \in Byte /\ MaxUnread \in Nat

VARIABLES data, head, tail,
          isr,      \* the producer is an interrupt, not a thread: fixed at the start
          ppc, pbyte, phead,    \* producer: where it is, its byte, head's register
          cpc, cbyte,           \* consumer: where it is, the byte it took
          unread                \* history: bytes pushed and not yet popped

producer == <<ppc, pbyte, phead>>
consumer == <<cpc, cbyte>>
vars == <<data, head, tail, isr, producer, consumer, unread>>

Mask(i) == i % CBUF_SIZE
\* Mutant: the index outgrows its uint32_t.
IncrNoWrap(i) == i + 1
Incr(i) == (i + 1) % INDEX_MOD
IsFull  == Mask((head - tail) % INDEX_MOD) = CBUF_SIZE

Init == /\ data = [i \in 0 .. CBUF_SIZE - 1 |-> Zero]
        /\ head = 0 /\ tail = 0 /\ unread = <<>>
        /\ isr \in BOOLEAN
        /\ ppc = "idle" /\ pbyte = Zero /\ phead = 0
        /\ cpc = "idle" /\ cbyte = Zero

\* The test for full lets every push through, outstanding bytes or not.
CallPush(b) == /\ ppc = "idle"
               /\ Len(unread) < MaxUnread /\ ~IsFull
               /\ pbyte' = b /\ ppc' = "data"
               /\ UNCHANGED <<data, head, tail, phead, consumer, unread, isr>>

PushData == /\ ppc = "data"
            /\ data' = [data EXCEPT ![Mask(head)] = pbyte]
            /\ ppc' = "load"
            /\ UNCHANGED <<head, tail, pbyte, phead, consumer, unread, isr>>

PushLoad == /\ ppc = "load"
            /\ phead' = head
            /\ ppc' = "store"
            /\ UNCHANGED <<data, head, tail, pbyte, consumer, unread, isr>>

PushStore == /\ ppc = "store"
             /\ head' = Incr(phead)
             /\ unread' = Append(unread, pbyte)
             /\ ppc' = "idle"
             /\ UNCHANGED <<data, tail, pbyte, phead, consumer, isr>>

\* An interrupt runs to completion before main goes on.
ConsumerRuns == isr => ppc = "idle"

\* Mutant: the caller has already looked, so pop does not.
PopUntested == /\ cpc = "idle" /\ ConsumerRuns
               /\ cpc' = "data"
               /\ UNCHANGED <<data, head, tail, producer, cbyte, unread, isr>>

PopTest == /\ cpc = "idle" /\ ConsumerRuns
           /\ head # tail
           /\ cpc' = "data"
           /\ UNCHANGED <<data, head, tail, producer, cbyte, unread, isr>>

\* Mutant: the slot is read at the index after the increment.
PopDataNext == /\ cpc = "data" /\ ConsumerRuns
               /\ cbyte' = data[Mask(Incr(tail))]
               /\ cpc' = "tail"
               /\ UNCHANGED <<data, head, tail, producer, unread, isr>>

PopData == /\ cpc = "data" /\ ConsumerRuns
           /\ cbyte' = data[Mask(tail)]
           /\ cpc' = "tail"
           /\ UNCHANGED <<data, head, tail, producer, unread, isr>>

PopTail == /\ cpc = "tail" /\ ConsumerRuns
           /\ tail' = Incr(tail)
           /\ unread' = Tail(unread)
           /\ cpc' = "idle"
           /\ UNCHANGED <<data, head, producer, cbyte, isr>>

\* cbuf_flush, by the owner of tail alone, and so only where no push can be half
\* way while head is stored.
\* Mutant: the write index is not reset.
FlushHeadKept == /\ isr /\ cpc = "idle" /\ ConsumerRuns
                 /\ unread' = <<>>
                 /\ cpc' = "flush"
                 /\ UNCHANGED <<data, head, tail, producer, cbyte, isr>>

FlushHead == /\ isr /\ cpc = "idle" /\ ConsumerRuns
             /\ head' = 0 /\ unread' = <<>>
             /\ cpc' = "flush"
             /\ UNCHANGED <<data, tail, producer, cbyte, isr>>

FlushTail == /\ cpc = "flush" /\ ConsumerRuns
             /\ tail' = 0
             /\ cpc' = "idle"
             /\ UNCHANGED <<data, head, producer, cbyte, unread, isr>>

Next == \/ \E b \in Byte : CallPush(b)
        \/ PushData \/ PushLoad \/ PushStore
        \/ PopTest \/ PopData \/ PopTail
        \/ FlushHead \/ FlushTail

Spec == Init /\ [][Next]_vars

------------------------------------------------------------------------------
\* Type invariant.
TypeOK == /\ data \in [0 .. CBUF_SIZE - 1 -> Byte]
          /\ head \in 0 .. INDEX_MOD - 1 /\ tail \in 0 .. INDEX_MOD - 1
          /\ phead \in 0 .. INDEX_MOD - 1
          /\ pbyte \in Byte /\ cbyte \in Byte /\ unread \in Seq(Byte)
          /\ ppc \in {"idle", "data", "load", "store"}
          /\ cpc \in {"idle", "data", "tail", "flush"}

\* The bytes pushed and not popped, with the one whose push has written its slot
\* and not yet stored head.
Written == IF ppc \in {"load", "store"} THEN Append(unread, pbyte) ELSE unread

\* Of n bytes written from the slot of tail on, the last that went into that slot:
\* the first one, or one a whole number of laps later.
LastInSlot(n) == n - ((n - 1) % CBUF_SIZE)

\* In whatever order the accesses fall, cbuf_pop takes the newest byte written to
\* the slot of tail. While at most CBUF_SIZE bytes are outstanding, a push under way
\* included, that is the oldest unread one: none is lost, repeated, reordered or
\* read before it is written. After an overrun it is one whole laps newer.
PopsNewestLap ==
    [][cpc = "data" /\ cpc' = "tail" =>
         /\ cbyte' = Written[LastInSlot(Len(Written))]
         /\ Len(Written) <= CBUF_SIZE => cbyte' = Head(unread)]_vars

\* NOTES.md on why data[] needs no volatile: one writer, one reader, no
\* simultaneous access. The producer never writes the slot being read.
NoSimultaneousAccess ==
    (ppc = "data" /\ cpc = "data") => Mask(head) # Mask(tail)

\* What is true of it: the producer writes the slot being read only in the push
\* that completes a lap over unread bytes, and so never while fewer than
\* CBUF_SIZE are outstanding, an empty ring and a flush included.
SharedSlotIsOverrun ==
    (ppc = "data" /\ cpc = "data" /\ Mask(head) = Mask(tail))
        => Len(unread) >= CBUF_SIZE /\ Len(unread) % CBUF_SIZE = 0

\* Outside a flush both sides agree on what is unread, up to the width of the
\* index, overrun or not, and although a push may have come between the two
\* stores of the flush.
IndicesAgree == /\ TypeOK
                /\ cpc # "flush" => (head - tail) % INDEX_MOD = Len(unread) % INDEX_MOD
==============================================================================
