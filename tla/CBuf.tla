-------------------------------- MODULE CBuf ---------------------------------
(* The production circular buffer of module4 ex03: head and tail count every *)
(* push and pop modulo 2^32 and are masked only to index data[]. The calls   *)
(* of one thread; the loops of cbuf_push_buf and cbuf_pop_buf are one        *)
(* cbuf_push or cbuf_pop per step.                                           *)
EXTENDS Integers, Sequences

CONSTANTS
    Byte, Zero,
    CBUF_SIZE,      \* #define CBUF_SIZE, a power of two: & CBUF_MASK is % CBUF_SIZE
    INDEX_MOD,      \* 2^32, what the uint32_t indices wrap at
    MaxUnread,      \* bound: bytes pushed and not yet popped
    MaxLen          \* bound: the len of one cbuf_push_buf or cbuf_pop_buf

ASSUME CBufAssumption ==
    /\ CBUF_SIZE \in Nat \ {0} /\ INDEX_MOD \in Nat \ {0}
    /\ \E k \in 1 .. INDEX_MOD : INDEX_MOD = k * CBUF_SIZE
    /\ Zero \in Byte /\ MaxUnread \in Nat /\ MaxLen \in Nat

VARIABLES data, head, tail,
          ret,      \* what the last call returned
          toPush,   \* bytes cbuf_push_buf still has to push
          toPop,    \* bytes cbuf_pop_buf still has to pop
          unread    \* history: the bytes pushed and not yet popped or flushed

vars == <<data, head, tail, ret, toPush, toPop, unread>>

Buf == UNION {[1 .. n -> Byte] : n \in 0 .. MaxLen}

Init == /\ data = [i \in 0 .. CBUF_SIZE - 1 |-> Zero]
        /\ head = 0 /\ tail = 0
        /\ ret = "OK" /\ toPush = <<>> /\ toPop = 0 /\ unread = <<>>

Mask(i) == i % CBUF_SIZE

\* Mutant: the index outgrows its uint32_t.
IncrNoWrap(i) == i + 1
Incr(i) == (i + 1) % INDEX_MOD

Count == Mask((head - tail) % INDEX_MOD)

\* Mutant: one byte too many is called free.
FreeOneMore == CBUF_SIZE - Count + 1
Free    == CBUF_SIZE - Count
IsEmpty == head = tail
IsFull  == Count = CBUF_SIZE

Idle == toPush = <<>> /\ toPop = 0

\* cbuf_push: its effect when it does not return CBUF_FULL, and the call.
\* Mutant: data[] is written one slot off.
StoreNext(b) == /\ data' = [data EXCEPT ![Mask(head + 1)] = b]
                /\ head' = Incr(head)
                /\ unread' = Append(unread, b)
                /\ UNCHANGED tail

Store(b) == /\ data' = [data EXCEPT ![Mask(head)] = b]
            /\ head' = Incr(head)
            /\ unread' = Append(unread, b)
            /\ UNCHANGED tail

PushByte(b) == IF IsFull THEN UNCHANGED <<data, head, tail, unread>> ELSE Store(b)

Push(b) == /\ Idle /\ Len(unread) < MaxUnread
           /\ PushByte(b)
           /\ ret' = IF IsFull THEN "FULL" ELSE "OK"
           /\ UNCHANGED <<toPush, toPop>>

\* cbuf_pop, likewise; the byte it hands out is data[Mask(tail)].
Fetch == /\ tail' = Incr(tail)
         /\ unread' = Tail(unread)
         /\ UNCHANGED <<data, head>>

PopByte == IF IsEmpty THEN UNCHANGED <<data, head, tail, unread>> ELSE Fetch

Pop == /\ Idle
       /\ PopByte
       /\ ret' = IF IsEmpty THEN "EMPTY" ELSE "OK"
       /\ UNCHANGED <<toPush, toPop>>

\* cbuf_push_buf: all or nothing by the free space, then the loop, which
\* ignores what cbuf_push returns.
PushBuf(buf) == /\ Idle /\ Len(unread) + Len(buf) <= MaxUnread
                /\ IF Free < Len(buf) THEN ret' = "FULL" /\ UNCHANGED toPush
                                      ELSE ret' = "OK" /\ toPush' = buf
                /\ UNCHANGED <<data, head, tail, toPop, unread>>

PushBufStep == /\ toPush # <<>>
               /\ PushByte(Head(toPush))
               /\ toPush' = Tail(toPush)
               /\ UNCHANGED <<ret, toPop>>

\* Mutant: the test lets one byte more through than the count.
PopBufOff(len) == /\ Idle
                  /\ IF Count + 1 < len THEN ret' = "EMPTY" /\ UNCHANGED toPop
                                        ELSE ret' = "OK" /\ toPop' = len
                  /\ UNCHANGED <<data, head, tail, toPush, unread>>

PopBuf(len) == /\ Idle
               /\ IF Count < len THEN ret' = "EMPTY" /\ UNCHANGED toPop
                                 ELSE ret' = "OK" /\ toPop' = len
               /\ UNCHANGED <<data, head, tail, toPush, unread>>

PopBufStep == /\ toPop > 0
              /\ PopByte
              /\ toPop' = toPop - 1
              /\ UNCHANGED <<ret, toPush>>

\* Mutant: only the read index is reset.
FlushTailOnly == /\ Idle
                 /\ tail' = 0 /\ unread' = <<>>
                 /\ UNCHANGED <<data, head, ret, toPush, toPop>>

Flush == /\ Idle
         /\ head' = 0 /\ tail' = 0 /\ unread' = <<>>
         /\ UNCHANGED <<data, ret, toPush, toPop>>

Next == \/ \E b \in Byte : Push(b)
        \/ Pop
        \/ \E buf \in Buf : PushBuf(buf)
        \/ PushBufStep
        \/ \E len \in 0 .. MaxLen : PopBuf(len)
        \/ PopBufStep
        \/ Flush

Spec == Init /\ [][Next]_vars

------------------------------------------------------------------------------
\* Type invariant: the indices are uint32_t, data[] keeps its bytes.
TypeOK == /\ data \in [0 .. CBUF_SIZE - 1 -> Byte]
          /\ head \in 0 .. INDEX_MOD - 1 /\ tail \in 0 .. INDEX_MOD - 1
          /\ ret \in {"OK", "FULL", "EMPTY"}
          /\ toPush \in Seq(Byte) /\ toPop \in Nat
          /\ unread \in Seq(Byte)

\* The distance from tail to head counts the unread bytes, before, across and
\* after the wrap of either index at 2^32, and after a flush.
IndexDistance == (head - tail) % INDEX_MOD = Len(unread) % INDEX_MOD

\* Overrun loses the oldest bytes only: the CBUF_SIZE newest unread ones are in
\* data[], in push order, where the pops to come will read them. With no more
\* than CBUF_SIZE unread, every pop therefore returns the oldest of them.
NewestIntact ==
    \A i \in 1 .. Len(unread) :
        i > Len(unread) - CBUF_SIZE => data[Mask(tail + i - 1)] = unread[i]

\* The ring after any calls: well typed, its indices as far apart as there are
\* unread bytes, and the newest of them where the pops to come will read them.
RingIntact == TypeOK /\ IndexDistance /\ NewestIntact

\* The loop of cbuf_pop_buf, which ignores what cbuf_pop returns, never meets an
\* empty buffer: every byte it hands out was pushed.
PopLoopNeverEmpty == toPop > 0 => ~IsEmpty /\ toPop <= Len(unread)

\* With fewer than CBUF_SIZE bytes unread both buffer calls decide exactly: a push
\* is accepted if and only if it fits, a pop if and only if the bytes are there.
BufDecision ==
    Len(unread) < CBUF_SIZE =>
        /\ \A buf \in Buf : PushBuf(buf) =>
              (ret' = "OK" <=> Len(unread) + Len(buf) <= CBUF_SIZE)
        /\ \A len \in 0 .. MaxLen : PopBuf(len) =>
              (ret' = "OK" <=> len <= Len(unread))
BufCallsDecideExactly == [][BufDecision]_vars

\* NOTES.md says of count: correct through uint32_t overflow. While nothing has
\* been overrun, cbuf_count is the number of unread bytes.
CountIsUnread == Len(unread) <= CBUF_SIZE => Count = Len(unread)
==============================================================================
