--------------------------- MODULE CBufSpsc_proofs ----------------------------
(* One producer and one consumer on the production buffer of module4 ex03,   *)
(* for every buffer size, every index width that is a larger multiple of it  *)
(* and every byte, overruns and flushes included.                            *)
EXTENDS CBufSpsc, SequenceTheorems, TLAPS

\* The index the next pop reads at: between the stores of a flush, 0 already.
ReadAt == IF cpc = "flush" THEN 0 ELSE tail

Agreement == head = (ReadAt + Len(unread)) % INDEX_MOD

\* What the last CBUF_SIZE writes left: the unread bytes no later lap has overwritten.
BytesIntact == \A i \in 1 .. Len(unread) :
                  i > Len(Written) - CBUF_SIZE => data[Mask(ReadAt + i - 1)] = unread[i]

\* What the producer has done of its push, and the consumer of its pop or flush.
PushUnderWay == /\ ppc = "store" => phead = head
                /\ ppc \in {"load", "store"} => data[Mask(head)] = pbyte
PopUnderWay == /\ cpc \in {"data", "tail"} => unread # <<>>
               /\ cpc = "flush" => isr

IInv == TypeOK /\ Agreement /\ BytesIntact /\ PushUnderWay /\ PopUnderWay

------------------------------------------------------------------------------
(* Remainders.                                                               *)

LEMMA Apart ==
    ASSUME NEW n \in Nat \ {0}, NEW p \in Int, NEW q \in Int, p > q
    PROVE  p * n >= q * n + n
  <1>1. PICK d \in Nat : p = q + 1 + d
    BY SMT
  <1>2. p * n = q * n + n + d * n
    BY <1>1, SMT
  <1>3. d * n >= 0
    BY SMT
  <1>4. d * n \in Int /\ q * n \in Int
    BY SMT
  <1>5. QED
    BY <1>2, <1>3, <1>4, SMT

LEMMA QuotientAndRemainder ==
    ASSUME NEW n \in Nat \ {0}, NEW x \in Int
    PROVE  \E q \in Int, r \in 0 .. n - 1 : x = q * n + r /\ x % n = r
  <1>1. x = (x \div n) * n + (x % n) /\ x % n \in 0 .. n - 1 /\ x \div n \in Int
    BY SMT
  <1>2. QED
    BY <1>1

LEMMA RemainderUnique ==
    ASSUME NEW n \in Nat \ {0}, NEW q \in Int, NEW r \in 0 .. n - 1
    PROVE  (q * n + r) % n = r
  <1>1. PICK x \in Int : x = q * n + r
    BY SMT
  <1>2. PICK p \in Int, s \in 0 .. n - 1 : x = p * n + s /\ x % n = s
    BY QuotientAndRemainder
  <1>3. p * n \in Int /\ q * n \in Int
    BY SMT
  <1>4. CASE p > q
    BY <1>1, <1>2, <1>3, <1>4, Apart
  <1>5. CASE q > p
    BY <1>1, <1>2, <1>3, <1>5, Apart
  <1>6. QED
    BY <1>1, <1>2, <1>3, <1>4, <1>5

LEMMA Sizes == /\ CBUF_SIZE \in Nat \ {0} /\ INDEX_MOD \in Nat \ {0}
               /\ CBUF_SIZE < INDEX_MOD
  <1>1. PICK k \in 2 .. INDEX_MOD : INDEX_MOD = k * CBUF_SIZE
    BY SpscAssumption
  <1>2. CBUF_SIZE \in Nat \ {0} /\ INDEX_MOD \in Nat \ {0}
    BY SpscAssumption
  <1>3. k \in Int /\ 1 \in Int /\ k > 1 /\ 1 * CBUF_SIZE = CBUF_SIZE
    BY <1>2
  <1>4. k * CBUF_SIZE >= 1 * CBUF_SIZE + CBUF_SIZE
    BY <1>2, <1>3, Apart
  <1>5. QED
    BY <1>1, <1>2, <1>3, <1>4

\* A sum may be reduced before or after the addition.
LEMMA SumReduced ==
    ASSUME NEW n \in Nat \ {0}, NEW a \in Int, NEW b \in Int
    PROVE  ((a % n) + b) % n = (a + b) % n
  <1>1. PICK q \in Int, r \in 0 .. n - 1 : a = q * n + r /\ a % n = r
    BY QuotientAndRemainder
  <1>2. PICK x \in Int : x = r + b
    BY <1>1
  <1>3. PICK p \in Int, s \in 0 .. n - 1 : x = p * n + s /\ x % n = s
    BY QuotientAndRemainder
  <1>4. PICK u \in Int : u = q + p
    BY <1>1, <1>3
  <1>5. u * n = q * n + p * n
    BY <1>4, SMT
  <1>6. q * n \in Int /\ p * n \in Int /\ u * n \in Int
    BY SMT
  <1>7. a + b = u * n + s
    BY <1>1, <1>2, <1>3, <1>5, <1>6
  <1>8. (u * n + s) % n = s
    BY RemainderUnique
  <1>9. QED
    BY <1>1, <1>2, <1>3, <1>7, <1>8

\* Whole laps do not move the slot.
LEMMA LapsKeepSlot ==
    ASSUME NEW x \in Int, NEW q \in Int
    PROVE  Mask(x + q * CBUF_SIZE) = Mask(x)
  <1>1. CBUF_SIZE \in Nat \ {0}
    BY Sizes
  <1>2. PICK p \in Int, s \in 0 .. CBUF_SIZE - 1 :
           x = p * CBUF_SIZE + s /\ x % CBUF_SIZE = s
    BY <1>1, QuotientAndRemainder
  <1>3. PICK u \in Int : u = p + q
    BY <1>2
  <1>4. u * CBUF_SIZE = p * CBUF_SIZE + q * CBUF_SIZE
    BY <1>1, <1>3, SMT
  <1>5. p * CBUF_SIZE \in Int /\ q * CBUF_SIZE \in Int /\ u * CBUF_SIZE \in Int
    BY <1>1, SMT
  <1>6. x + q * CBUF_SIZE = u * CBUF_SIZE + s
    BY <1>1, <1>2, <1>4, <1>5
  <1>7. (u * CBUF_SIZE + s) % CBUF_SIZE = s
    BY <1>1, RemainderUnique
  <1>8. QED
    BY <1>2, <1>6, <1>7 DEF Mask

\* The wrap of an index does not move its slot: CBUF_SIZE divides INDEX_MOD.
LEMMA MaskOfWrapped ==
    ASSUME NEW x \in Int
    PROVE  Mask(x % INDEX_MOD) = Mask(x) /\ Mask(x) \in 0 .. CBUF_SIZE - 1
  <1>1. CBUF_SIZE \in Nat \ {0} /\ INDEX_MOD \in Nat \ {0}
    BY Sizes
  <1>2. PICK k \in 2 .. INDEX_MOD : INDEX_MOD = k * CBUF_SIZE
    BY SpscAssumption
  <1>3. PICK q \in Int, r \in 0 .. INDEX_MOD - 1 :
           x = q * INDEX_MOD + r /\ x % INDEX_MOD = r
    BY <1>1, QuotientAndRemainder
  <1>4. PICK u \in Int : u = q * k
    BY <1>1, <1>2, <1>3, SMT
  <1>5. q * INDEX_MOD = u * CBUF_SIZE
    BY <1>1, <1>2, <1>3, <1>4, SMT
  <1>6. r \in Int /\ u * CBUF_SIZE \in Int
    BY <1>1, <1>3, <1>4, SMT
  <1>7. x = r + u * CBUF_SIZE
    BY <1>3, <1>5, <1>6
  <1>8. Mask(r + u * CBUF_SIZE) = Mask(r)
    BY <1>6, LapsKeepSlot
  <1>9. PICK p \in Int, s \in 0 .. CBUF_SIZE - 1 :
           x = p * CBUF_SIZE + s /\ x % CBUF_SIZE = s
    BY <1>1, QuotientAndRemainder
  <1>10. QED
    BY <1>3, <1>7, <1>8, <1>9 DEF Mask

\* An index that wrapped leads to the same slots as one that did not.
LEMMA SlotAfterWrap ==
    ASSUME NEW a \in Int, NEW b \in Int
    PROVE  Mask((a % INDEX_MOD) + b) = Mask(a + b)
  <1>1. INDEX_MOD \in Nat \ {0} /\ a % INDEX_MOD \in Int
    BY Sizes, QuotientAndRemainder
  <1>2. ((a % INDEX_MOD) + b) % INDEX_MOD = (a + b) % INDEX_MOD
    BY <1>1, SumReduced
  <1>3. Mask(((a % INDEX_MOD) + b) % INDEX_MOD) = Mask((a % INDEX_MOD) + b)
    BY <1>1, MaskOfWrapped
  <1>4. Mask((a + b) % INDEX_MOD) = Mask(a + b)
    BY MaskOfWrapped
  <1>5. QED
    BY <1>2, <1>3, <1>4

\* Fewer than CBUF_SIZE indices apart are different slots.
LEMMA DistinctSlots ==
    ASSUME NEW x \in Nat, NEW d \in 1 .. CBUF_SIZE - 1
    PROVE  Mask(x + d) # Mask(x)
  <1>1. CBUF_SIZE \in Nat \ {0} /\ x \in Int
    BY Sizes
  <1>2. PICK q \in Int, r \in 0 .. CBUF_SIZE - 1 :
           x = q * CBUF_SIZE + r /\ x % CBUF_SIZE = r
    BY <1>1, QuotientAndRemainder
  <1>3. CASE r + d < CBUF_SIZE
    <2>1. PICK s \in 0 .. CBUF_SIZE - 1 : s = r + d
      BY <1>3, Sizes
    <2>2. x + d = q * CBUF_SIZE + s
      BY <1>2, <2>1, Sizes
    <2>3. QED
      BY <1>2, <2>1, <2>2, RemainderUnique, Sizes DEF Mask
  <1>4. CASE r + d >= CBUF_SIZE
    <2>1. PICK s \in 0 .. CBUF_SIZE - 1 : s = r + d - CBUF_SIZE
      BY <1>4, Sizes
    <2>2. x + d = (q + 1) * CBUF_SIZE + s
      BY <1>2, <2>1, Sizes
    <2>3. QED
      BY <1>2, <2>1, <2>2, RemainderUnique, Sizes DEF Mask
  <1>5. QED
    BY <1>3, <1>4, Sizes

------------------------------------------------------------------------------
(* Where the bytes are in any reachable state.                               *)

LEMMA Indices ==
    ASSUME TypeOK
    PROVE  /\ ReadAt \in 0 .. INDEX_MOD - 1 /\ ReadAt \in Int
           /\ Len(unread) \in Nat
  <1>1. Len(unread) \in Nat
    BY LenProperties DEF TypeOK
  <1>2. ReadAt \in 0 .. INDEX_MOD - 1
    BY Sizes DEF TypeOK, ReadAt
  <1>3. QED
    BY <1>1, <1>2, Sizes

\* The bytes written are the unread ones and, behind them, the one of a push that
\* has yet to store head.
LEMMA WrittenIs ==
    ASSUME TypeOK
    PROVE  /\ Len(unread) \in Nat
           /\ Len(Written) = Len(unread) + IF ppc \in {"load", "store"} THEN 1 ELSE 0
           /\ \A i \in 1 .. Len(unread) : Written[i] = unread[i]
           /\ ppc \in {"load", "store"} => Written[Len(unread) + 1] = pbyte
  <1>1. unread \in Seq(Byte) /\ pbyte \in Byte /\ Len(unread) \in Nat
    BY LenProperties DEF TypeOK
  <1>2. CASE ppc \in {"load", "store"}
    <2>1. Written = Append(unread, pbyte)
      BY <1>2 DEF Written
    <2>2. /\ Len(Written) = Len(unread) + 1
          /\ \A i \in 1 .. Len(unread) : Written[i] = unread[i]
          /\ Written[Len(unread) + 1] = pbyte
      BY <1>1, <2>1, AppendProperties
    <2>3. QED
      BY <1>1, <1>2, <2>2
  <1>3. CASE ppc \notin {"load", "store"}
    <2>1. Written = unread
      BY <1>3 DEF Written
    <2>2. QED
      BY <1>1, <1>3, <2>1
  <1>4. QED
    BY <1>2, <1>3

\* The slot of a push is the one after the unread bytes, and that of none of the
\* last CBUF_SIZE - 1 of them.
LEMMA HeadSlot ==
    ASSUME TypeOK, Agreement
    PROVE  /\ Mask(head) = Mask(ReadAt + Len(unread))
           /\ Mask(head) \in 0 .. CBUF_SIZE - 1
           /\ \A i \in 1 .. Len(unread) :
                 i > Len(unread) + 1 - CBUF_SIZE => Mask(ReadAt + i - 1) # Mask(head)
  <1>1. Mask(head) = Mask(ReadAt + Len(unread)) /\ Mask(head) \in 0 .. CBUF_SIZE - 1
    <2>1. ReadAt + Len(unread) \in Int
      BY Indices
    <2>2. QED
      BY <2>1, MaskOfWrapped DEF Agreement
  <1>2. ASSUME NEW i \in 1 .. Len(unread), i > Len(unread) + 1 - CBUF_SIZE
        PROVE  Mask(ReadAt + i - 1) # Mask(head)
    <2>1. PICK x \in Nat, d \in 1 .. CBUF_SIZE - 1 :
             x = ReadAt + i - 1 /\ x + d = ReadAt + Len(unread)
      <3>1. ReadAt + i - 1 \in Nat /\ Len(unread) - i + 1 \in 1 .. CBUF_SIZE - 1
        BY <1>2, Indices, Sizes
      <3>2. (ReadAt + i - 1) + (Len(unread) - i + 1) = ReadAt + Len(unread)
        BY <1>2, Indices, Sizes
      <3>3. QED
        BY <3>1, <3>2
    <2>2. Mask(x + d) # Mask(x)
      BY DistinctSlots
    <2>3. QED
      BY <1>1, <2>1, <2>2
  <1>3. QED
    BY <1>1, <1>2

\* Incrementing an index.
LEMMA IncrTyped ==
    ASSUME NEW i \in 0 .. INDEX_MOD - 1
    PROVE  Incr(i) \in 0 .. INDEX_MOD - 1
  <1>1. i + 1 \in Int /\ INDEX_MOD \in Nat \ {0}
    BY Sizes
  <1>2. PICK q \in Int, r \in 0 .. INDEX_MOD - 1 :
           i + 1 = q * INDEX_MOD + r /\ (i + 1) % INDEX_MOD = r
    BY <1>1, QuotientAndRemainder
  <1>3. QED
    BY <1>2 DEF Incr

LEMMA Unwrapped ==
    ASSUME NEW i \in 0 .. INDEX_MOD - 1
    PROVE  (i + 0) % INDEX_MOD = i
  <1>1. 0 * INDEX_MOD + i = i /\ i + 0 = i
    BY Sizes
  <1>2. QED
    BY <1>1, RemainderUnique, Sizes

------------------------------------------------------------------------------
(* The invariant.                                                            *)

LEMMA InitIInv == Init => IInv
  <1> SUFFICES ASSUME Init PROVE IInv
    OBVIOUS
  <1>1. Len(unread) = 0 /\ unread \in Seq(Byte)
    BY EmptySeq DEF Init
  <1>2. TypeOK
    BY <1>1, Sizes, SpscAssumption DEF Init, TypeOK
  <1>3. Agreement
    <2>1. (0 + 0) % INDEX_MOD = 0
      BY Unwrapped, Sizes
    <2>2. QED
      BY <1>1, <2>1 DEF Init, Agreement, ReadAt
  <1>4. QED
    BY <1>1, <1>2, <1>3, Sizes
       DEF Init, IInv, BytesIntact, PushUnderWay, PopUnderWay

LEMMA CallPushIInv ==
    ASSUME IInv, NEW b \in Byte, CallPush(b)
    PROVE  IInv'
  <1>1. /\ ppc = "idle" /\ ppc' = "data" /\ pbyte' = b
        /\ UNCHANGED <<data, head, tail, phead, cpc, cbyte, unread, isr>>
    BY DEF CallPush, consumer
  <1>2. Written' = Written
    BY <1>1 DEF Written
  <1>3. TypeOK'
    BY <1>1 DEF IInv, TypeOK
  <1>4. QED
    BY <1>1, <1>2, <1>3
       DEF IInv, Agreement, ReadAt, BytesIntact, PushUnderWay, PopUnderWay

LEMMA PushDataIInv ==
    ASSUME IInv, PushData
    PROVE  IInv'
  <1>1. /\ data' = [data EXCEPT ![Mask(head)] = pbyte]
        /\ ppc = "data" /\ ppc' = "load"
        /\ UNCHANGED <<head, tail, pbyte, phead, cpc, cbyte, unread, isr>>
    BY DEF PushData, consumer
  <1>2. TypeOK'
    BY <1>1, HeadSlot DEF IInv, TypeOK
  <1>3. data'[Mask(head)] = pbyte
    BY <1>1, HeadSlot DEF IInv, TypeOK
  <1>4. BytesIntact'
    <2>1. Len(Written') = Len(unread) + 1
      <3>1. Written' = Append(unread, pbyte)
        BY <1>1 DEF Written
      <3>2. unread \in Seq(Byte) /\ pbyte \in Byte
        BY DEF IInv, TypeOK
      <3>3. QED
        BY <3>1, <3>2, AppendProperties
    <2>2. Len(Written) = Len(unread) /\ Len(unread) \in Nat
      BY <1>1, WrittenIs DEF IInv
    <2>3. ASSUME NEW i \in 1 .. Len(unread), i > Len(unread) + 1 - CBUF_SIZE
          PROVE  data'[Mask(ReadAt + i - 1)] = unread[i]
      <3>1. Mask(ReadAt + i - 1) # Mask(head)
        BY <2>3, HeadSlot DEF IInv
      <3>2. i > Len(Written) - CBUF_SIZE
        BY <2>2, <2>3, Sizes
      <3>3. data[Mask(ReadAt + i - 1)] = unread[i]
        BY <3>2 DEF IInv, BytesIntact
      <3>4. Mask(ReadAt + i - 1) \in 0 .. CBUF_SIZE - 1
        <4>1. ReadAt + i - 1 \in Int
          BY <2>2, Indices DEF IInv
        <4>2. QED
          BY <4>1, MaskOfWrapped
      <3>5. QED
        BY <1>1, <3>1, <3>3, <3>4 DEF IInv, TypeOK
    <2>4. ReadAt' = ReadAt /\ unread' = unread
      BY <1>1 DEF ReadAt
    <2>5. QED
      <3>1. ASSUME NEW i \in 1 .. Len(unread'), i > Len(Written') - CBUF_SIZE
            PROVE  data'[Mask(ReadAt' + i - 1)] = unread'[i]
        <4>1. i \in 1 .. Len(unread) /\ i > Len(unread) + 1 - CBUF_SIZE
          BY <2>1, <2>2, <2>4, <3>1, Sizes
        <4>2. QED
          BY <2>3, <2>4, <4>1
      <3>2. QED
        BY <3>1 DEF BytesIntact
  <1>5. QED
    BY <1>1, <1>2, <1>3, <1>4
       DEF IInv, Agreement, ReadAt, PushUnderWay, PopUnderWay

LEMMA PushLoadIInv ==
    ASSUME IInv, PushLoad
    PROVE  IInv'
  <1>1. /\ ppc = "load" /\ ppc' = "store" /\ phead' = head
        /\ UNCHANGED <<data, head, tail, pbyte, cpc, cbyte, unread, isr>>
    BY DEF PushLoad, consumer
  <1>2. Written' = Written
    BY <1>1 DEF Written
  <1>3. TypeOK'
    BY <1>1 DEF IInv, TypeOK
  <1>4. QED
    BY <1>1, <1>2, <1>3
       DEF IInv, Agreement, ReadAt, BytesIntact, PushUnderWay, PopUnderWay

LEMMA PushStoreIInv ==
    ASSUME IInv, PushStore
    PROVE  IInv'
  <1>1. /\ ppc = "store" /\ ppc' = "idle" /\ head' = Incr(head)
        /\ unread' = Append(unread, pbyte)
        /\ UNCHANGED <<data, tail, pbyte, phead, cpc, cbyte, isr>>
    BY DEF PushStore, consumer, IInv, PushUnderWay
  <1>2. /\ unread \in Seq(Byte) /\ unread' \in Seq(Byte)
        /\ Len(unread') = Len(unread) + 1
        /\ \A i \in 1 .. Len(unread) : unread'[i] = unread[i]
        /\ unread'[Len(unread) + 1] = pbyte
    BY <1>1, AppendProperties DEF IInv, TypeOK
  <1>3. ReadAt \in Int /\ ReadAt' = ReadAt /\ Len(unread) \in Nat
    BY <1>1, Indices DEF IInv, ReadAt
  <1>4. TypeOK'
    BY <1>1, <1>2, IncrTyped DEF IInv, TypeOK
  <1>5. Agreement'
    <2>1. PICK a \in Int : a = ReadAt + Len(unread)
      BY <1>3
    <2>2. ((a % INDEX_MOD) + 1) % INDEX_MOD = (a + 1) % INDEX_MOD
      <3>1. \A b \in Int : ((a % INDEX_MOD) + b) % INDEX_MOD = (a + b) % INDEX_MOD
        BY SumReduced, Sizes
      <3>2. QED
        BY <3>1
    <2>3. a + 1 = ReadAt + Len(unread')
      BY <1>2, <1>3, <2>1
    <2>4. head = a % INDEX_MOD
      BY <2>1 DEF IInv, Agreement
    <2>5. QED
      BY <1>1, <1>3, <2>2, <2>3, <2>4 DEF Agreement, Incr
  <1>6. BytesIntact'
    <2>1. Written' = unread' /\ Len(Written) = Len(unread) + 1
      BY <1>1, WrittenIs DEF IInv, Written
    <2>2. data[Mask(ReadAt + (Len(unread) + 1) - 1)] = pbyte
      <3>1. ReadAt + (Len(unread) + 1) - 1 = ReadAt + Len(unread)
        BY <1>3, Sizes
      <3>2. QED
        BY <1>1, <3>1, HeadSlot DEF IInv, PushUnderWay
    <2>3. ASSUME NEW i \in 1 .. Len(unread) + 1, i > Len(unread) + 1 - CBUF_SIZE
          PROVE  data[Mask(ReadAt + i - 1)] = unread'[i]
      <3>1. CASE i = Len(unread) + 1
        BY <1>2, <2>2, <3>1
      <3>2. CASE i # Len(unread) + 1
        <4>1. i \in 1 .. Len(unread)
          BY <1>3, <3>2
        <4>2. i > Len(Written) - CBUF_SIZE
          BY <1>3, <2>1, <2>3, Sizes
        <4>3. data[Mask(ReadAt + i - 1)] = unread[i]
          BY <4>1, <4>2 DEF IInv, BytesIntact
        <4>4. QED
          BY <1>2, <4>1, <4>3
      <3>3. QED
        BY <3>1, <3>2
    <2>4. QED
      <3>1. ASSUME NEW i \in 1 .. Len(unread'), i > Len(Written') - CBUF_SIZE
            PROVE  data'[Mask(ReadAt' + i - 1)] = unread'[i]
        <4>1. i \in 1 .. Len(unread) + 1 /\ i > Len(unread) + 1 - CBUF_SIZE
          BY <1>2, <1>3, <2>1, <3>1, Sizes
        <4>2. QED
          BY <1>1, <1>3, <2>3, <4>1
      <3>2. QED
        BY <3>1 DEF BytesIntact
  <1>7. PopUnderWay'
    <2>1. unread' # <<>>
      BY <1>2, <1>3, EmptySeq
    <2>2. QED
      BY <1>1, <2>1 DEF IInv, PopUnderWay
  <1>8. QED
    BY <1>1, <1>4, <1>5, <1>6, <1>7 DEF IInv, PushUnderWay

LEMMA PopTestIInv ==
    ASSUME IInv, PopTest
    PROVE  IInv'
  <1>1. /\ cpc = "idle" /\ cpc' = "data" /\ head # tail
        /\ UNCHANGED <<data, head, tail, ppc, pbyte, phead, cbyte, unread, isr>>
    BY DEF PopTest, producer
  <1>2. unread # <<>>
    <2>1. SUFFICES ASSUME unread = <<>> PROVE head = tail
      BY <1>1
    <2>2. Len(unread) = 0 /\ ReadAt = tail
      BY <1>1, <2>1, EmptySeq DEF ReadAt
    <2>3. (tail + 0) % INDEX_MOD = tail
      BY Unwrapped DEF IInv, TypeOK
    <2>4. QED
      BY <2>2, <2>3 DEF IInv, Agreement
  <1>3. Written' = Written
    BY <1>1 DEF Written
  <1>4. TypeOK'
    BY <1>1 DEF IInv, TypeOK
  <1>5. QED
    BY <1>1, <1>2, <1>3, <1>4
       DEF IInv, Agreement, ReadAt, BytesIntact, PushUnderWay, PopUnderWay

LEMMA PopDataIInv ==
    ASSUME IInv, PopData
    PROVE  IInv'
  <1>1. /\ cpc = "data" /\ cpc' = "tail" /\ cbyte' = data[Mask(tail)]
        /\ UNCHANGED <<data, head, tail, ppc, pbyte, phead, unread, isr>>
    BY DEF PopData, producer
  <1>2. Mask(tail) \in 0 .. CBUF_SIZE - 1
    <2>1. tail \in Int
      BY Sizes DEF IInv, TypeOK
    <2>2. QED
      BY <2>1, MaskOfWrapped
  <1>3. Written' = Written
    BY <1>1 DEF Written
  <1>4. TypeOK'
    BY <1>1, <1>2 DEF IInv, TypeOK
  <1>5. QED
    BY <1>1, <1>3, <1>4
       DEF IInv, Agreement, ReadAt, BytesIntact, PushUnderWay, PopUnderWay

LEMMA PopTailIInv ==
    ASSUME IInv, PopTail
    PROVE  IInv'
  <1>1. /\ cpc = "tail" /\ cpc' = "idle" /\ tail' = Incr(tail)
        /\ unread' = Tail(unread) /\ unread # <<>>
        /\ UNCHANGED <<data, head, ppc, pbyte, phead, cbyte, isr>>
    BY DEF PopTail, producer, IInv, PopUnderWay
  <1>2. /\ unread' \in Seq(Byte) /\ Len(unread) \in Nat \ {0}
        /\ Len(unread') = Len(unread) - 1
        /\ \A i \in 1 .. Len(unread) - 1 : unread'[i] = unread[i + 1]
    <2>1. unread \in Seq(Byte) /\ Len(unread) \in Nat \ {0}
      BY <1>1, EmptySeq, LenProperties DEF IInv, TypeOK
    <2>2. /\ Tail(unread) \in Seq(Byte) /\ Len(Tail(unread)) = Len(unread) - 1
          /\ \A i \in 1 .. Len(Tail(unread)) : Tail(unread)[i] = unread[i + 1]
      BY <1>1, <2>1, HeadTailProperties
    <2>3. QED
      BY <1>1, <2>1, <2>2
  <1>3. /\ ReadAt = tail /\ ReadAt' = Incr(tail)
        /\ tail \in 0 .. INDEX_MOD - 1 /\ tail \in Int
    BY <1>1, Indices DEF IInv, TypeOK, ReadAt
  <1>4. TypeOK'
    BY <1>1, <1>2, <1>3, IncrTyped DEF IInv, TypeOK
  <1>5. PICK t \in Int : t = tail + 1
    BY <1>3
  <1>6. Incr(tail) = t % INDEX_MOD
    BY <1>5 DEF Incr
  <1>7. Agreement'
    <2>1. PICK n \in Int : n = Len(unread) - 1
      BY <1>2
    <2>2. ((t % INDEX_MOD) + n) % INDEX_MOD = (t + n) % INDEX_MOD
      BY SumReduced, Sizes
    <2>3. t + n = tail + Len(unread)
      BY <1>2, <1>3, <1>5, <2>1
    <2>4. QED
      BY <1>1, <1>2, <1>3, <1>6, <2>1, <2>2, <2>3 DEF IInv, Agreement
  <1>8. BytesIntact'
    <2>1. Len(Written') = Len(Written) - 1 /\ Len(Written) \in Nat
      <3>1. Len(Written) = Len(unread) + IF ppc \in {"load", "store"} THEN 1 ELSE 0
        BY WrittenIs DEF IInv
      <3>2. CASE ppc \in {"load", "store"}
        <4>1. Written' = Append(unread', pbyte) /\ pbyte \in Byte
          BY <1>1, <3>2 DEF Written, IInv, TypeOK
        <4>2. Len(Written') = Len(unread') + 1
          BY <1>2, <4>1, AppendProperties
        <4>3. QED
          BY <1>2, <3>1, <3>2, <4>2
      <3>3. CASE ppc \notin {"load", "store"}
        <4>1. Written' = unread'
          BY <1>1, <3>3 DEF Written
        <4>2. QED
          BY <1>2, <3>1, <3>3, <4>1
      <3>4. QED
        BY <3>2, <3>3
    <2>2. ASSUME NEW i \in 1 .. Len(unread) - 1, i > Len(Written) - 1 - CBUF_SIZE
          PROVE  data[Mask(Incr(tail) + i - 1)] = unread[i + 1]
      <3>1. PICK b \in Int : b = i - 1
        BY <1>2
      <3>2. Mask((t % INDEX_MOD) + b) = Mask(t + b)
        BY SlotAfterWrap
      <3>3. t % INDEX_MOD \in Int
        BY QuotientAndRemainder, Sizes
      <3>4. (t % INDEX_MOD) + b = Incr(tail) + i - 1 /\ t + b = tail + (i + 1) - 1
        BY <1>2, <1>3, <1>5, <1>6, <3>1, <3>3
      <3>5. i + 1 \in 1 .. Len(unread) /\ i + 1 > Len(Written) - CBUF_SIZE
        BY <1>2, <2>1, <2>2, Sizes
      <3>6. data[Mask(tail + (i + 1) - 1)] = unread[i + 1]
        BY <1>3, <3>5 DEF IInv, BytesIntact
      <3>7. QED
        BY <3>2, <3>4, <3>6
    <2>3. QED
      BY <1>1, <1>2, <1>3, <2>1, <2>2 DEF BytesIntact
  <1>9. QED
    BY <1>1, <1>4, <1>7, <1>8 DEF IInv, PushUnderWay, PopUnderWay

\* A flush empties the ring at its first store; a push between its two stores
\* is in the emptied ring already.
LEMMA FlushIInv ==
    ASSUME IInv, FlushHead \/ FlushTail
    PROVE  IInv'
  <1>1. CASE FlushHead
    <2>1. /\ head' = 0 /\ unread' = <<>> /\ ppc = "idle" /\ cpc' = "flush" /\ isr
          /\ UNCHANGED <<data, tail, ppc, pbyte, phead, cbyte, isr>>
      BY <1>1 DEF FlushHead, ConsumerRuns, producer
    <2>2. Len(unread') = 0 /\ unread' \in Seq(Byte) /\ ReadAt' = 0
      BY <2>1, EmptySeq DEF ReadAt
    <2>3. (0 + 0) % INDEX_MOD = 0
      BY Unwrapped, Sizes
    <2>4. TypeOK'
      BY <2>1, <2>2, Sizes DEF IInv, TypeOK
    <2>5. QED
      BY <2>1, <2>2, <2>3, <2>4, Sizes
         DEF IInv, Agreement, BytesIntact, PushUnderWay, PopUnderWay
  <1>2. CASE FlushTail
    <2>1. /\ tail' = 0 /\ cpc = "flush" /\ cpc' = "idle" /\ ReadAt = 0 /\ ReadAt' = 0
          /\ UNCHANGED <<data, head, ppc, pbyte, phead, cbyte, unread, isr>>
      BY <1>2 DEF FlushTail, ReadAt, producer
    <2>2. TypeOK'
      BY <2>1, Sizes DEF IInv, TypeOK
    <2>3. Written' = Written
      BY <2>1 DEF Written
    <2>4. QED
      BY <2>1, <2>2, <2>3
         DEF IInv, Agreement, BytesIntact, PushUnderWay, PopUnderWay
  <1>3. QED
    BY <1>1, <1>2

LEMMA NextIInv == IInv /\ [Next]_vars => IInv'
  <1> SUFFICES ASSUME IInv, [Next]_vars PROVE IInv'
    OBVIOUS
  <1>1. CASE UNCHANGED vars
    BY <1>1 DEF IInv, TypeOK, Agreement, ReadAt, BytesIntact, Written,
                PushUnderWay, PopUnderWay, vars, producer, consumer
  <1>2. CASE Next
    BY <1>2, CallPushIInv, PushDataIInv, PushLoadIInv, PushStoreIInv, PopTestIInv,
       PopDataIInv, PopTailIInv, FlushIInv DEF Next
  <1>3. QED
    BY <1>1, <1>2

LEMMA InvariantHolds == Spec => []IInv
  <1>1. Init => IInv
    BY InitIInv
  <1>2. IInv /\ [Next]_vars => IInv'
    BY NextIInv
  <1>3. QED
    BY <1>1, <1>2, PTL DEF Spec

------------------------------------------------------------------------------
\* Sender and reader agree on how many bytes are unread, up to the width of the
\* index, at every moment outside a flush: across the wrap of either index and
\* across overruns, although each side stores one index only.
THEOREM SidesAgree == Spec => []IndicesAgree
  <1>1. IInv => IndicesAgree
    <2> SUFFICES ASSUME IInv, cpc # "flush"
                 PROVE  (head - tail) % INDEX_MOD = Len(unread) % INDEX_MOD
      BY DEF IndicesAgree, IInv
    <2>1. PICK a \in Int, b \in Int : a = tail + Len(unread) /\ b = -tail
      BY Indices, Sizes DEF IInv, TypeOK
    <2>2. head = a % INDEX_MOD /\ head \in Int /\ tail \in Int
      BY <2>1 DEF IInv, TypeOK, Agreement, ReadAt
    <2>3. ((a % INDEX_MOD) + b) % INDEX_MOD = (a + b) % INDEX_MOD
      BY SumReduced, Sizes
    <2>4. head + b = head - tail /\ a + b = Len(unread)
      BY <2>1, <2>2, Indices DEF IInv
    <2>5. QED
      BY <2>2, <2>3, <2>4
  <1>2. QED
    BY <1>1, InvariantHolds, PTL

\* The newest byte in the slot of tail is where the last lap left it.
LEMMA SlotOfTail ==
    ASSUME IInv, cpc = "data"
    PROVE  /\ data[Mask(tail)] = Written[LastInSlot(Len(Written))]
           /\ Len(Written) <= CBUF_SIZE => data[Mask(tail)] = Head(unread)
  <1>1. /\ unread # <<>> /\ unread \in Seq(Byte) /\ ReadAt = tail
        /\ tail \in Int /\ Len(unread) \in Nat \ {0}
    <2>1. unread # <<>> /\ unread \in Seq(Byte) /\ ReadAt = tail
      BY DEF IInv, TypeOK, PopUnderWay, ReadAt
    <2>2. QED
      BY <2>1, Indices, EmptySeq DEF IInv
  <1>2. PICK n \in Nat \ {0}, m \in Int : n = Len(Written) /\ m = n - 1
    BY <1>1, WrittenIs DEF IInv
  <1>3. PICK q \in Int, r \in 0 .. CBUF_SIZE - 1 :
           m = q * CBUF_SIZE + r /\ m % CBUF_SIZE = r
    BY QuotientAndRemainder, Sizes
  <1>4. PICK l \in Int : l = q * CBUF_SIZE
    BY Sizes, SMT
  <1>5. l >= 0
    <2>1. SUFFICES ASSUME 0 > q PROVE FALSE
      <3>1. 0 <= q => q * CBUF_SIZE >= 0
        BY Sizes, SMT
      <3>2. QED
        BY <1>4, <3>1
    <2>2. 0 * CBUF_SIZE >= q * CBUF_SIZE + CBUF_SIZE
      BY <2>1, Apart, Sizes
    <2>3. 0 >= l + CBUF_SIZE
      BY <1>4, <2>2, Sizes
    <2>4. m = l + r
      BY <1>3, <1>4
    <2>5. QED
      BY <1>2, <2>3, <2>4, Sizes
  <1>6. LastInSlot(n) = l + 1 /\ l + 1 \in 1 .. n /\ l + 1 > n - CBUF_SIZE
    <2>1. LastInSlot(n) = n - r
      <3>1. n - 1 = m
        BY <1>2
      <3>2. LastInSlot(n) = n - (m % CBUF_SIZE)
        BY <3>1 DEF LastInSlot
      <3>3. QED
        BY <1>3, <3>2
    <2>2. m = l + r
      BY <1>3, <1>4
    <2>3. QED
      BY <1>2, <1>5, <2>1, <2>2, Sizes
  <1>7. Mask(tail) = Mask(tail + (l + 1) - 1)
    <2>1. tail + (l + 1) - 1 = tail + l
      BY <1>1, <1>4
    <2>2. Mask(tail + q * CBUF_SIZE) = Mask(tail)
      BY <1>1, LapsKeepSlot
    <2>3. QED
      BY <1>4, <2>1, <2>2
  <1>8. data[Mask(tail + (l + 1) - 1)] = Written[l + 1]
    <2>1. CASE l + 1 \in 1 .. Len(unread)
      <3>1. data[Mask(tail + (l + 1) - 1)] = unread[l + 1]
        BY <1>1, <1>2, <1>6, <2>1 DEF IInv, BytesIntact
      <3>2. QED
        BY <2>1, <3>1, WrittenIs DEF IInv
    <2>2. CASE l + 1 \notin 1 .. Len(unread)
      <3>1. n = Len(unread) + IF ppc \in {"load", "store"} THEN 1 ELSE 0
        BY <1>2, WrittenIs DEF IInv
      <3>2. ppc \in {"load", "store"} /\ l + 1 = Len(unread) + 1
        BY <1>1, <1>6, <2>2, <3>1
      <3>3. Written[l + 1] = pbyte
        BY <3>2, WrittenIs DEF IInv
      <3>4. tail + (l + 1) - 1 = ReadAt + Len(unread)
        BY <1>1, <3>2
      <3>5. data[Mask(tail + (l + 1) - 1)] = pbyte
        BY <3>2, <3>4, HeadSlot DEF IInv, PushUnderWay
      <3>6. QED
        BY <3>3, <3>5
    <2>3. QED
      BY <2>1, <2>2
  <1>9. n <= CBUF_SIZE => data[Mask(tail)] = Head(unread)
    <2>1. SUFFICES ASSUME n <= CBUF_SIZE PROVE data[Mask(tail)] = Head(unread)
      OBVIOUS
    <2>2. 1 \in 1 .. Len(unread) /\ 1 > Len(Written) - CBUF_SIZE /\ tail + 1 - 1 = tail
      BY <1>1, <1>2, <2>1, Sizes
    <2>3. data[Mask(tail + 1 - 1)] = unread[1]
      BY <1>1, <2>2 DEF IInv, BytesIntact
    <2>4. Head(unread) = unread[1]
      BY <1>1, HeadTailProperties
    <2>5. QED
      BY <2>2, <2>3, <2>4
  <1>10. QED
    BY <1>2, <1>6, <1>7, <1>8, <1>9

\* Whatever the interleaving of the accesses, and however far the sender overran
\* the reader, a pop takes the newest byte of the slot of tail: with at most
\* CBUF_SIZE bytes outstanding, the oldest one pushed and not popped.
THEOREM NewestLapPopped == Spec => PopsNewestLap
  <1>1. IInv /\ [Next]_vars =>
          [cpc = "data" /\ cpc' = "tail" =>
             /\ cbyte' = Written[LastInSlot(Len(Written))]
             /\ Len(Written) <= CBUF_SIZE => cbyte' = Head(unread)]_vars
    <2> SUFFICES ASSUME IInv, Next, cpc = "data", cpc' = "tail"
                 PROVE  /\ cbyte' = Written[LastInSlot(Len(Written))]
                        /\ Len(Written) <= CBUF_SIZE => cbyte' = Head(unread)
      OBVIOUS
    <2>1. PopData
      BY DEF Next, CallPush, PushData, PushLoad, PushStore, PopTest, PopTail,
             FlushHead, FlushTail, consumer
    <2>2. cbyte' = data[Mask(tail)]
      BY <2>1 DEF PopData
    <2>3. QED
      BY <2>2, SlotOfTail
  <1>2. QED
    BY <1>1, InvariantHolds, PTL DEF Spec, PopsNewestLap

\* The producer writes the slot the consumer is reading in an overrun only: what is
\* true, for every sender, of the reason NOTES.md gives for a data[] that is not
\* volatile.
THEOREM SlotSharedOnOverrun == Spec => []SharedSlotIsOverrun
  <1>1. IInv => SharedSlotIsOverrun
    <2> SUFFICES ASSUME IInv, cpc = "data", Mask(head) = Mask(tail)
                 PROVE  Len(unread) >= CBUF_SIZE /\ Len(unread) % CBUF_SIZE = 0
      BY DEF SharedSlotIsOverrun
    <2>1. unread # <<>> /\ unread \in Seq(Byte) /\ ReadAt = tail
      BY DEF IInv, TypeOK, PopUnderWay, ReadAt
    <2>2. tail \in Int /\ Len(unread) \in Nat \ {0}
      BY <2>1, Indices, EmptySeq DEF IInv
    <2>3. PICK a \in Int, b \in Int : a = tail + Len(unread) /\ b = -tail
      BY <2>2
    <2>4. a % CBUF_SIZE = tail % CBUF_SIZE
      BY <2>1, <2>3, HeadSlot DEF IInv, Mask
    <2>5. ((a % CBUF_SIZE) + b) % CBUF_SIZE = (a + b) % CBUF_SIZE
      BY SumReduced, Sizes
    <2>6. ((tail % CBUF_SIZE) + b) % CBUF_SIZE = (tail + b) % CBUF_SIZE
      BY <2>2, SumReduced, Sizes
    <2>7. a + b = Len(unread) /\ tail + b = 0
      BY <2>2, <2>3
    <2>8. Len(unread) % CBUF_SIZE = 0 % CBUF_SIZE
      BY <2>4, <2>5, <2>6, <2>7
    <2>9. 0 % CBUF_SIZE = 0
      <3>1. 0 * CBUF_SIZE + 0 = 0
        BY Sizes
      <3>2. QED
        BY <3>1, RemainderUnique, Sizes
    <2>10. Len(unread) >= CBUF_SIZE
      <3>1. SUFFICES ASSUME Len(unread) < CBUF_SIZE PROVE FALSE
        BY <2>2, Sizes
      <3>2. PICK s \in 0 .. CBUF_SIZE - 1 : s = Len(unread)
        BY <2>2, <3>1, Sizes
      <3>3. (0 * CBUF_SIZE + s) % CBUF_SIZE = s /\ 0 * CBUF_SIZE + s = s
        BY RemainderUnique, Sizes
      <3>4. QED
        BY <2>2, <2>8, <2>9, <3>2, <3>3
    <2>11. QED
      BY <2>8, <2>9, <2>10
  <1>2. QED
    BY <1>1, InvariantHolds, PTL
=============================================================================
