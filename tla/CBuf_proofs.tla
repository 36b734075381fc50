----------------------------- MODULE CBuf_proofs ------------------------------
(* The production buffer of module4 ex03 for every size, every index width   *)
(* that is a multiple of it and every sequence of calls, overrun included.   *)
EXTENDS CBuf, SequenceTheorems, TLAPS

\* head is as many increments ahead of tail as there are unread bytes, overrun
\* ones too: IndexDistance without the subtraction.
Agreement == head = (tail + Len(unread)) % INDEX_MOD

\* One loop runs at a time, and cbuf_pop_buf has let no more bytes through than
\* the masked count, which each of its pops decrements.
Loops == /\ toPush = <<>> \/ toPop = 0
         /\ toPop <= Len(unread) % CBUF_SIZE

IInv == TypeOK /\ Agreement /\ NewestIntact /\ Loops

------------------------------------------------------------------------------
(* Remainders.                                                               *)

LEMMA Apart ==
    ASSUME NEW n \in Nat \ {0}, NEW p \in Int, NEW q \in Int, p > q
    PROVE  p * n >= q * n + n
  <1>1. PICK d \in Nat : p = q + 1 + d
    BY SMT
  <1>2. p * n = q * n + n + d * n
    BY <1>1, SMT
  <1>3. d * n >= 0
    BY SMT
  <1>4. d * n \in Int /\ q * n \in Int
    BY SMT
  <1>5. QED
    BY <1>2, <1>3, <1>4, SMT

LEMMA QuotientAndRemainder ==
    ASSUME NEW n \in Nat \ {0}, NEW x \in Int
    PROVE  \E q \in Int, r \in 0 .. n - 1 : x = q * n + r /\ x % n = r
  <1>1. x = (x \div n) * n + (x % n) /\ x % n \in 0 .. n - 1 /\ x \div n \in Int
    BY SMT
  <1>2. QED
    BY <1>1

LEMMA RemainderUnique ==
    ASSUME NEW n \in Nat \ {0}, NEW q \in Int, NEW r \in 0 .. n - 1
    PROVE  (q * n + r) % n = r
  <1>1. PICK x \in Int : x = q * n + r
    BY SMT
  <1>2. PICK p \in Int, s \in 0 .. n - 1 : x = p * n + s /\ x % n = s
    BY QuotientAndRemainder
  <1>3. p * n \in Int /\ q * n \in Int
    BY SMT
  <1>4. CASE p > q
    BY <1>1, <1>2, <1>3, <1>4, Apart
  <1>5. CASE q > p
    BY <1>1, <1>2, <1>3, <1>5, Apart
  <1>6. QED
    BY <1>1, <1>2, <1>3, <1>4, <1>5

LEMMA ShiftByMultiple ==
    ASSUME NEW n \in Nat \ {0}, NEW x \in Int, NEW j \in Int
    PROVE  (x + j * n) % n = x % n
  <1>1. PICK q \in Int, r \in 0 .. n - 1 : x = q * n + r /\ x % n = r
    BY QuotientAndRemainder
  <1>2. x + j * n = (q + j) * n + r
    BY <1>1, SMT
  <1>3. q + j \in Int
    BY SMT
  <1>4. ((q + j) * n + r) % n = r
    BY <1>3, RemainderUnique
  <1>5. QED
    BY <1>1, <1>2, <1>4

\* A sum may be reduced before or after adding.
LEMMA ReduceFirst ==
    ASSUME NEW n \in Nat \ {0}, NEW x \in Int, NEW y \in Int
    PROVE  ((x % n) + y) % n = (x + y) % n
  <1>1. PICK q \in Int, r \in 0 .. n - 1 : x = q * n + r /\ x % n = r
    BY QuotientAndRemainder
  <1>2. r + y \in Int
    BY SMT
  <1>3. ((r + y) + q * n) % n = (r + y) % n
    BY <1>2, ShiftByMultiple
  <1>4. x + y = (r + y) + q * n
    BY <1>1, SMT
  <1>5. QED
    BY <1>1, <1>3, <1>4

LEMMA Sizes == /\ CBUF_SIZE \in Nat \ {0} /\ INDEX_MOD \in Nat \ {0}
               /\ MaxUnread \in Nat /\ MaxLen \in Nat /\ Zero \in Byte
  BY CBufAssumption

\* The wrap of an index does not move its slot: CBUF_SIZE divides INDEX_MOD.
LEMMA MaskOfWrapped ==
    ASSUME NEW x \in Int, NEW y \in Int
    PROVE  Mask((x % INDEX_MOD) + y) = Mask(x + y)
  <1>1. PICK k \in 1 .. INDEX_MOD : INDEX_MOD = k * CBUF_SIZE
    BY CBufAssumption
  <1>2. PICK q \in Int, r \in 0 .. INDEX_MOD - 1 :
           x = q * INDEX_MOD + r /\ x % INDEX_MOD = r
    BY Sizes, QuotientAndRemainder
  <1>3. x + y = (r + y) + (q * k) * CBUF_SIZE
    <2>1. q * INDEX_MOD = (q * k) * CBUF_SIZE
      BY <1>1, Sizes, SMT
    <2>2. q * INDEX_MOD \in Int
      BY Sizes, SMT
    <2>3. QED
      BY <1>2, <2>1, <2>2
  <1>4. r + y \in Int /\ q * k \in Int
    BY SMT
  <1>5. ((r + y) + (q * k) * CBUF_SIZE) % CBUF_SIZE = (r + y) % CBUF_SIZE
    BY <1>4, Sizes, ShiftByMultiple
  <1>6. QED
    BY <1>2, <1>3, <1>5 DEF Mask

LEMMA Remainder ==
    ASSUME NEW n \in Nat \ {0}, NEW x \in Int
    PROVE  x % n \in 0 .. n - 1
  BY QuotientAndRemainder

LEMMA SmallRemainder ==
    ASSUME NEW n \in Nat \ {0}, NEW x \in 0 .. n - 1
    PROVE  x % n = x
  <1>1. (0 * n + x) % n = x
    BY RemainderUnique
  <1>2. 0 * n + x = x
    BY SMT
  <1>3. QED
    BY <1>1, <1>2

\* Fewer than CBUF_SIZE indices apart are different slots.
LEMMA DistinctSlots ==
    ASSUME NEW x \in Nat, NEW d \in 1 .. CBUF_SIZE - 1
    PROVE  Mask(x + d) # Mask(x)
  <1>1. CBUF_SIZE \in Nat \ {0} /\ x \in Int
    BY Sizes
  <1>2. PICK q \in Int, r \in 0 .. CBUF_SIZE - 1 :
           x = q * CBUF_SIZE + r /\ x % CBUF_SIZE = r
    BY <1>1, QuotientAndRemainder
  <1>3. CASE r + d < CBUF_SIZE
    <2>1. PICK s \in 0 .. CBUF_SIZE - 1 : s = r + d
      BY <1>3, Sizes
    <2>2. x + d = q * CBUF_SIZE + s
      BY <1>2, <2>1, Sizes
    <2>3. QED
      BY <1>2, <2>1, <2>2, RemainderUnique, Sizes DEF Mask
  <1>4. CASE r + d >= CBUF_SIZE
    <2>1. PICK s \in 0 .. CBUF_SIZE - 1 : s = r + d - CBUF_SIZE
      BY <1>4, Sizes
    <2>2. x + d = (q + 1) * CBUF_SIZE + s
      BY <1>2, <2>1, Sizes
    <2>3. QED
      BY <1>2, <2>1, <2>2, RemainderUnique, Sizes DEF Mask
  <1>5. QED
    BY <1>3, <1>4, Sizes

------------------------------------------------------------------------------
(* What the indices say of the unread bytes.                                 *)

LEMMA UnreadLength ==
    ASSUME TypeOK
    PROVE  /\ Len(unread) \in Nat /\ head \in 0 .. INDEX_MOD - 1
           /\ tail \in 0 .. INDEX_MOD - 1 /\ head \in Nat /\ tail \in Nat
  BY LenProperties, Sizes DEF TypeOK

LEMMA Distance ==
    ASSUME TypeOK, Agreement
    PROVE  (head - tail) % INDEX_MOD = Len(unread) % INDEX_MOD
  <1>1. PICK x \in Int, y \in Int : x = tail + Len(unread) /\ y = 0 - tail
    BY UnreadLength
  <1>2. ((x % INDEX_MOD) + y) % INDEX_MOD = (x + y) % INDEX_MOD
    BY Sizes, ReduceFirst
  <1>3. x % INDEX_MOD = head
    BY <1>1 DEF Agreement
  <1>4. x + y = Len(unread) /\ head + y = head - tail
    <2>1. Len(unread) \in Nat /\ head \in Nat /\ tail \in Nat
      BY UnreadLength
    <2>2. QED
      BY <1>1, <2>1
  <1>5. QED
    BY <1>2, <1>3, <1>4

\* cbuf_count: the unread bytes modulo the size, so 0 when the ring is full.
LEMMA CountIsMasked ==
    ASSUME TypeOK, Agreement
    PROVE  Count = Len(unread) % CBUF_SIZE /\ Count \in 0 .. CBUF_SIZE - 1
  <1>1. Len(unread) \in Int /\ 0 \in Int
    BY UnreadLength
  <1>2. Mask((Len(unread) % INDEX_MOD) + 0) = Mask(Len(unread) + 0)
    BY <1>1, MaskOfWrapped
  <1>3. Len(unread) + 0 = Len(unread)
    BY <1>1
  <1>4. (Len(unread) % INDEX_MOD) + 0 = Len(unread) % INDEX_MOD
    <2>1. Len(unread) % INDEX_MOD \in 0 .. INDEX_MOD - 1
      BY <1>1, Sizes, Remainder
    <2>2. QED
      BY <2>1
  <1>5. Count = Len(unread) % CBUF_SIZE
    BY <1>2, <1>3, <1>4, Distance DEF Count, Mask
  <1>6. Len(unread) % CBUF_SIZE \in 0 .. CBUF_SIZE - 1
    BY <1>1, Sizes, Remainder
  <1>7. QED
    BY <1>5, <1>6

\* cbuf_is_full never answers yes.
LEMMA NeverFull ==
    ASSUME TypeOK, Agreement
    PROVE  ~IsFull
  BY CountIsMasked, Sizes DEF IsFull

LEMMA EmptyOnlyAtMultiple ==
    ASSUME TypeOK, Agreement
    PROVE  /\ Len(unread) = 0 => IsEmpty
           /\ Len(unread) % CBUF_SIZE # 0 => ~IsEmpty
  <1>1. ASSUME Len(unread) = 0 PROVE IsEmpty
    <2>1. tail + Len(unread) = tail /\ tail % INDEX_MOD = tail
      BY <1>1, UnreadLength, Sizes, SmallRemainder
    <2>2. QED
      BY <2>1 DEF Agreement, IsEmpty
  <1>2. ASSUME IsEmpty PROVE Len(unread) % CBUF_SIZE = 0
    <2>1. head - tail = 0
      BY <1>2, UnreadLength DEF IsEmpty
    <2>2. 0 % INDEX_MOD = 0 /\ 0 % CBUF_SIZE = 0
      BY Sizes, SmallRemainder
    <2>3. QED
      BY <2>1, <2>2, CountIsMasked DEF Count, Mask
  <1>3. QED
    BY <1>1, <1>2

LEMMA SlotRange ==
    ASSUME NEW x \in Int
    PROVE  Mask(x) \in 0 .. CBUF_SIZE - 1
  BY Sizes, Remainder DEF Mask

LEMMA HeadSlot ==
    ASSUME TypeOK, Agreement
    PROVE  Mask(head) = Mask(tail + Len(unread)) /\ Mask(head) \in 0 .. CBUF_SIZE - 1
  <1>1. tail + Len(unread) \in Int /\ 0 \in Int
    BY UnreadLength
  <1>2. Mask(((tail + Len(unread)) % INDEX_MOD) + 0) = Mask((tail + Len(unread)) + 0)
    BY <1>1, MaskOfWrapped
  <1>3. head + 0 = head /\ (tail + Len(unread)) + 0 = tail + Len(unread)
    BY UnreadLength
  <1>4. Mask(head) = Mask(tail + Len(unread))
    BY <1>2, <1>3 DEF Agreement
  <1>5. QED
    BY UnreadLength, SlotRange, <1>4

------------------------------------------------------------------------------
(* One cbuf_push and one cbuf_pop, whoever calls them.                       *)

LEMMA StoreKeeps ==
    ASSUME TypeOK, Agreement, NewestIntact, NEW b \in Byte, Store(b)
    PROVE  /\ data' \in [0 .. CBUF_SIZE - 1 -> Byte]
           /\ head' \in 0 .. INDEX_MOD - 1 /\ tail' = tail
           /\ unread' \in Seq(Byte) /\ Len(unread') = Len(unread) + 1
           /\ Agreement' /\ NewestIntact'
  <1>1. /\ data' = [data EXCEPT ![Mask(head)] = b] /\ head' = (head + 1) % INDEX_MOD
        /\ unread' = Append(unread, b) /\ tail' = tail
    BY DEF Store, Incr
  <1>2. /\ unread \in Seq(Byte) /\ unread' \in Seq(Byte)
        /\ Len(unread') = Len(unread) + 1
        /\ \A i \in 1 .. Len(unread) : unread'[i] = unread[i]
        /\ unread'[Len(unread) + 1] = b
    BY <1>1, AppendProperties DEF TypeOK
  <1>3. data' \in [0 .. CBUF_SIZE - 1 -> Byte] /\ data'[Mask(head)] = b
    BY <1>1, HeadSlot DEF TypeOK
  <1>4. head' \in 0 .. INDEX_MOD - 1
    <2>1. head + 1 \in Int
      BY UnreadLength
    <2>2. QED
      BY <1>1, <2>1, Sizes, Remainder
  <1>5. Agreement'
    <2>1. PICK x \in Int, y \in Int : x = tail + Len(unread) /\ y = 1
      BY UnreadLength
    <2>2. ((x % INDEX_MOD) + y) % INDEX_MOD = (x + y) % INDEX_MOD
      BY Sizes, ReduceFirst
    <2>3. x + y = tail' + Len(unread')
      BY <1>1, <1>2, <2>1, UnreadLength
    <2>4. QED
      BY <1>1, <2>1, <2>2, <2>3 DEF Agreement
  <1>6. NewestIntact'
    <2>1. ASSUME NEW i \in 1 .. Len(unread) + 1, i > Len(unread) + 1 - CBUF_SIZE
          PROVE  data'[Mask(tail + i - 1)] = unread'[i]
      <3>1. CASE i = Len(unread) + 1
        <4>1. tail + i - 1 = tail + Len(unread)
          BY <3>1, UnreadLength
        <4>2. QED
          BY <1>2, <1>3, <3>1, <4>1, HeadSlot
      <3>2. CASE i # Len(unread) + 1
        <4>1. i \in 1 .. Len(unread) /\ i > Len(unread) - CBUF_SIZE
          BY <2>1, <3>2, UnreadLength, Sizes
        <4>2. PICK x \in Nat, d \in 1 .. CBUF_SIZE - 1 :
                 x = tail + i - 1 /\ x + d = tail + Len(unread)
          <5>1. tail + i - 1 \in Nat /\ Len(unread) - i + 1 \in 1 .. CBUF_SIZE - 1
            BY <2>1, <4>1, UnreadLength, Sizes
          <5>2. (tail + i - 1) + (Len(unread) - i + 1) = tail + Len(unread)
            BY <4>1, UnreadLength
          <5>3. QED
            BY <5>1, <5>2
        <4>3. Mask(x) # Mask(head) /\ Mask(x) \in 0 .. CBUF_SIZE - 1
          <5>1. Mask(x + d) # Mask(x)
            BY DistinctSlots
          <5>2. QED
            BY <4>2, <5>1, HeadSlot, SlotRange
        <4>4. data[Mask(x)] = unread[i]
          BY <4>1, <4>2 DEF NewestIntact
        <4>5. data'[Mask(x)] = data[Mask(x)]
          BY <1>1, <4>3 DEF TypeOK
        <4>6. QED
          BY <1>2, <4>1, <4>2, <4>4, <4>5
      <3>3. QED
        BY <3>1, <3>2
    <2>2. ASSUME NEW i \in 1 .. Len(unread'), i > Len(unread') - CBUF_SIZE
          PROVE  data'[Mask(tail' + i - 1)] = unread'[i]
      <3>1. i \in 1 .. Len(unread) + 1 /\ i > Len(unread) + 1 - CBUF_SIZE
        BY <1>2, <2>2, UnreadLength, Sizes
      <3>2. QED
        BY <1>1, <2>1, <3>1
    <2>3. QED
      BY <2>2 DEF NewestIntact, Mask
  <1>7. QED
    BY <1>1, <1>2, <1>3, <1>4, <1>5, <1>6

LEMMA FetchKeeps ==
    ASSUME TypeOK, Agreement, NewestIntact, ~IsEmpty, Fetch
    PROVE  /\ tail' \in 0 .. INDEX_MOD - 1 /\ head' = head /\ data' = data
           /\ unread' \in Seq(Byte) /\ Len(unread') = Len(unread) - 1
           /\ Len(unread) \in Nat \ {0}
           /\ Agreement' /\ NewestIntact'
  <1>1. /\ tail' = (tail + 1) % INDEX_MOD /\ unread' = Tail(unread)
        /\ data' = data /\ head' = head
    BY DEF Fetch, Incr
  <1>2. /\ unread' \in Seq(Byte) /\ Len(unread) \in Nat \ {0}
        /\ Len(unread') = Len(unread) - 1
        /\ \A i \in 1 .. Len(unread) - 1 : unread'[i] = unread[i + 1]
    <2>1. unread \in Seq(Byte) /\ Len(unread) \in Nat \ {0} /\ unread # <<>>
      BY UnreadLength, EmptyOnlyAtMultiple, EmptySeq DEF TypeOK
    <2>2. /\ Tail(unread) \in Seq(Byte) /\ Len(Tail(unread)) = Len(unread) - 1
          /\ \A i \in 1 .. Len(Tail(unread)) : Tail(unread)[i] = unread[i + 1]
      BY <2>1, HeadTailProperties
    <2>3. QED
      BY <1>1, <2>1, <2>2
  <1>3. tail' \in 0 .. INDEX_MOD - 1
    <2>1. tail + 1 \in Int
      BY UnreadLength
    <2>2. QED
      BY <1>1, <2>1, Sizes, Remainder
  <1>4. Agreement'
    <2>1. PICK x \in Int, y \in Int : x = tail + 1 /\ y = Len(unread) - 1
      BY <1>2, UnreadLength
    <2>2. ((x % INDEX_MOD) + y) % INDEX_MOD = (x + y) % INDEX_MOD
      BY Sizes, ReduceFirst
    <2>3. x + y = tail + Len(unread)
      BY <2>1, UnreadLength
    <2>4. QED
      BY <1>1, <1>2, <2>1, <2>2, <2>3 DEF Agreement
  <1>5. NewestIntact'
    <2>1. ASSUME NEW i \in 1 .. Len(unread) - 1, i > Len(unread) - 1 - CBUF_SIZE
          PROVE  data[Mask(tail' + i - 1)] = unread[i + 1]
      <3>1. PICK x \in Int, y \in Int : x = tail + 1 /\ y = i - 1
        BY UnreadLength
      <3>2. Mask((x % INDEX_MOD) + y) = Mask(x + y)
        BY MaskOfWrapped
      <3>3. x + y = tail + (i + 1) - 1 /\ tail' + i - 1 = (x % INDEX_MOD) + y
        BY <1>1, <1>3, <3>1, UnreadLength
      <3>4. i + 1 \in 1 .. Len(unread) /\ i + 1 > Len(unread) - CBUF_SIZE
        BY <1>2, <2>1, Sizes
      <3>5. data[Mask(tail + (i + 1) - 1)] = unread[i + 1]
        BY <3>4 DEF NewestIntact
      <3>6. QED
        BY <3>2, <3>3, <3>5
    <2>2. ASSUME NEW i \in 1 .. Len(unread'), i > Len(unread') - CBUF_SIZE
          PROVE  data'[Mask(tail' + i - 1)] = unread'[i]
      <3>1. i \in 1 .. Len(unread) - 1 /\ i > Len(unread) - 1 - CBUF_SIZE
        BY <1>2, <2>2
      <3>2. QED
        BY <1>1, <1>2, <2>1, <3>1
    <2>3. QED
      BY <2>2 DEF NewestIntact, Mask
  <1>6. QED
    BY <1>1, <1>2, <1>3, <1>4, <1>5

LEMMA OneLess ==
    ASSUME NEW n \in Nat \ {0}, NEW x \in Nat \ {0}, x % n # 0
    PROVE  (x - 1) % n = (x % n) - 1
  <1>1. PICK q \in Int, r \in 0 .. n - 1 : x = q * n + r /\ x % n = r
    BY QuotientAndRemainder
  <1>2. PICK t \in 0 .. n - 1 : t = r - 1
    BY <1>1
  <1>3. (q * n + t) % n = t
    BY RemainderUnique
  <1>4. q * n \in Int
    BY SMT
  <1>5. x - 1 = q * n + t
    BY <1>1, <1>2, <1>4
  <1>6. QED
    BY <1>1, <1>2, <1>3, <1>5

------------------------------------------------------------------------------
(* The invariant.                                                            *)

LEMMA LengthRemainder ==
    ASSUME NEW s \in Seq(Byte)
    PROVE  Len(s) % CBUF_SIZE \in 0 .. CBUF_SIZE - 1
  <1>1. Len(s) \in Int
    BY LenProperties
  <1>2. QED
    BY <1>1, Sizes, Remainder

LEMMA EmptyRing ==
    ASSUME head' = 0, tail' = 0, unread' = <<>>
    PROVE  Agreement' /\ NewestIntact'
  <1>1. Len(unread') = 0 /\ 0 + 0 = 0 /\ 0 % INDEX_MOD = 0
    BY EmptySeq, Sizes, SmallRemainder
  <1>2. Agreement'
    BY <1>1 DEF Agreement
  <1>3. NewestIntact'
    BY <1>1 DEF NewestIntact
  <1>4. QED
    BY <1>2, <1>3

LEMMA InitIInv == Init => IInv
  <1> SUFFICES ASSUME Init PROVE IInv
    OBVIOUS
  <1>1. Len(unread) = 0 /\ unread \in Seq(Byte) /\ toPush \in Seq(Byte)
    BY EmptySeq DEF Init
  <1>2. TypeOK
    BY <1>1, Sizes DEF Init, TypeOK
  <1>3. 0 % INDEX_MOD = 0 /\ 0 % CBUF_SIZE = 0 /\ 0 + 0 = 0
    BY Sizes, SmallRemainder
  <1>4. QED
    BY <1>1, <1>2, <1>3 DEF Init, IInv, Agreement, NewestIntact, Loops

LEMMA PushIInv ==
    ASSUME IInv, NEW b \in Byte, Push(b)
    PROVE  IInv'
  <1>1. /\ Store(b) /\ toPop = 0 /\ ret' \in {"OK", "FULL"}
        /\ toPush' = toPush /\ toPop' = toPop
    BY NeverFull DEF IInv, Push, PushByte, Idle
  <1>2. /\ data' \in [0 .. CBUF_SIZE - 1 -> Byte] /\ head' \in 0 .. INDEX_MOD - 1
        /\ tail' = tail /\ unread' \in Seq(Byte) /\ Agreement' /\ NewestIntact'
    BY <1>1, StoreKeeps DEF IInv
  <1>3. Len(unread') % CBUF_SIZE \in 0 .. CBUF_SIZE - 1
    BY <1>2, LengthRemainder
  <1>4. TypeOK'
    BY <1>1, <1>2 DEF IInv, TypeOK
  <1>5. Loops'
    BY <1>1, <1>3, Sizes DEF Loops
  <1>6. QED
    BY <1>2, <1>4, <1>5 DEF IInv

LEMMA PushBufStepIInv ==
    ASSUME IInv, PushBufStep
    PROVE  IInv'
  <1>1. /\ toPush # <<>> /\ toPush \in Seq(Byte) /\ toPop = 0
        /\ toPush' = Tail(toPush) /\ toPop' = toPop /\ ret' = ret
    BY DEF IInv, TypeOK, Loops, PushBufStep
  <1>2. Head(toPush) \in Byte /\ Tail(toPush) \in Seq(Byte)
    BY <1>1, HeadTailProperties
  <1>3. Store(Head(toPush))
    BY NeverFull DEF IInv, PushBufStep, PushByte
  <1>4. /\ data' \in [0 .. CBUF_SIZE - 1 -> Byte] /\ head' \in 0 .. INDEX_MOD - 1
        /\ tail' = tail /\ unread' \in Seq(Byte) /\ Agreement' /\ NewestIntact'
    BY <1>2, <1>3, StoreKeeps DEF IInv
  <1>5. Len(unread') % CBUF_SIZE \in 0 .. CBUF_SIZE - 1
    BY <1>4, LengthRemainder
  <1>6. TypeOK'
    BY <1>1, <1>2, <1>4 DEF IInv, TypeOK
  <1>7. Loops'
    BY <1>1, <1>5, Sizes DEF Loops
  <1>8. QED
    BY <1>4, <1>6, <1>7 DEF IInv

LEMMA PopIInv ==
    ASSUME IInv, Pop
    PROVE  IInv'
  <1>1. /\ toPop = 0 /\ toPop' = toPop /\ toPush' = toPush
        /\ ret' \in {"OK", "EMPTY"} /\ PopByte
    BY DEF Pop, Idle
  <1>2. CASE IsEmpty
    BY <1>1, <1>2 DEF IInv, TypeOK, Agreement, NewestIntact, Mask, Loops, PopByte
  <1>3. CASE ~IsEmpty
    <2>1. /\ tail' \in 0 .. INDEX_MOD - 1 /\ head' = head /\ data' = data
          /\ unread' \in Seq(Byte) /\ Agreement' /\ NewestIntact'
      BY <1>1, <1>3, FetchKeeps DEF IInv, PopByte
    <2>2. Len(unread') % CBUF_SIZE \in 0 .. CBUF_SIZE - 1
      BY <2>1, LengthRemainder
    <2>3. TypeOK'
      BY <1>1, <2>1 DEF IInv, TypeOK
    <2>4. Loops'
      BY <1>1, <2>2, Sizes DEF Loops
    <2>5. QED
      BY <2>1, <2>3, <2>4 DEF IInv
  <1>4. QED
    BY <1>2, <1>3

\* A pass of the loop of cbuf_pop_buf finds a byte and leaves one for each pass
\* still to come.
LEMMA PopBufStepIInv ==
    ASSUME IInv, PopBufStep
    PROVE  IInv'
  <1>1. /\ toPop \in Nat \ {0} /\ toPush = <<>> /\ toPop <= Len(unread) % CBUF_SIZE
        /\ toPop' = toPop - 1 /\ toPush' = toPush /\ ret' = ret
    BY DEF IInv, TypeOK, Loops, PopBufStep
  <1>2. Len(unread) % CBUF_SIZE \in 0 .. CBUF_SIZE - 1
    BY LengthRemainder DEF IInv, TypeOK
  <1>3. ~IsEmpty /\ Len(unread) % CBUF_SIZE # 0
    BY <1>1, <1>2, EmptyOnlyAtMultiple, Sizes DEF IInv
  <1>4. /\ tail' \in 0 .. INDEX_MOD - 1 /\ head' = head /\ data' = data
        /\ unread' \in Seq(Byte) /\ Agreement' /\ NewestIntact'
        /\ Len(unread') = Len(unread) - 1 /\ Len(unread) \in Nat \ {0}
    BY <1>3, FetchKeeps DEF IInv, PopBufStep, PopByte
  <1>5. Len(unread') % CBUF_SIZE = (Len(unread) % CBUF_SIZE) - 1
    BY <1>3, <1>4, OneLess, Sizes
  <1>6. TypeOK'
    BY <1>1, <1>4 DEF IInv, TypeOK
  <1>7. Loops'
    BY <1>1, <1>2, <1>5, Sizes DEF Loops
  <1>8. QED
    BY <1>4, <1>6, <1>7 DEF IInv

LEMMA BufIsSeq ==
    ASSUME NEW buf \in Buf
    PROVE  buf \in Seq(Byte) /\ Len(buf) \in 0 .. MaxLen
  <1>1. PICK n \in 0 .. MaxLen : buf \in [1 .. n -> Byte]
    BY DEF Buf
  <1>2. n \in Nat
    BY Sizes
  <1>3. QED
    BY <1>1, <1>2

\* The buffer calls before their loops, and cbuf_flush.
LEMMA OtherCallsIInv ==
    ASSUME IInv,
           \/ \E buf \in Buf : PushBuf(buf)
           \/ \E len \in 0 .. MaxLen : PopBuf(len)
           \/ Flush
    PROVE  IInv'
  <1>1. ASSUME NEW buf \in Buf, PushBuf(buf) PROVE IInv'
    <2>1. toPush' \in Seq(Byte) /\ toPop = 0
      BY <1>1, BufIsSeq DEF PushBuf, Idle, IInv, TypeOK
    <2>2. ret' \in {"OK", "FULL"} /\ UNCHANGED <<data, head, tail, toPop, unread>>
      BY <1>1 DEF PushBuf
    <2>3. QED
      BY <2>1, <2>2 DEF IInv, TypeOK, Agreement, NewestIntact, Mask, Loops
  <1>2. ASSUME NEW len \in 0 .. MaxLen, PopBuf(len) PROVE IInv'
    <2>1. toPop' \in Nat /\ toPop' <= Len(unread) % CBUF_SIZE /\ toPush = <<>>
      <3>1. CASE Count < len
        BY <1>2, <3>1 DEF PopBuf, Idle, IInv, TypeOK, Loops
      <3>2. CASE ~(Count < len)
        <4>1. toPop' = len /\ len \in Nat /\ Count \in 0 .. CBUF_SIZE - 1
          BY <1>2, <3>2, CountIsMasked, Sizes DEF PopBuf, IInv
        <4>2. QED
          BY <1>2, <3>2, <4>1, CountIsMasked, Sizes DEF PopBuf, Idle, IInv
      <3>3. QED
        BY <3>1, <3>2
    <2>2. /\ ret' \in {"OK", "EMPTY"}
          /\ UNCHANGED <<data, head, tail, toPush, unread>>
      BY <1>2 DEF PopBuf
    <2>3. QED
      BY <2>1, <2>2 DEF IInv, TypeOK, Agreement, NewestIntact, Mask, Loops
  <1>3. CASE Flush
    <2>1. /\ head' = 0 /\ tail' = 0 /\ unread' = <<>> /\ toPop = 0
          /\ UNCHANGED <<data, ret, toPush, toPop>>
      BY <1>3 DEF Flush, Idle
    <2>2. unread' \in Seq(Byte)
      BY <2>1, EmptySeq
    <2>3. Len(unread') % CBUF_SIZE \in 0 .. CBUF_SIZE - 1
      BY <2>2, LengthRemainder
    <2>4. TypeOK'
      BY <2>1, <2>2, Sizes DEF IInv, TypeOK
    <2>5. Loops'
      BY <2>1, <2>3, Sizes DEF Loops
    <2>6. QED
      BY <2>1, <2>4, <2>5, EmptyRing DEF IInv
  <1>4. QED
    BY <1>1, <1>2, <1>3

LEMMA NextIInv == IInv /\ [Next]_vars => IInv'
  <1> SUFFICES ASSUME IInv, [Next]_vars PROVE IInv'
    OBVIOUS
  <1>1. CASE UNCHANGED vars
    BY <1>1 DEF IInv, TypeOK, Agreement, NewestIntact, Mask, Loops, vars
  <1>2. CASE Next
    BY <1>2, PushIInv, PopIInv, PushBufStepIInv, PopBufStepIInv, OtherCallsIInv
       DEF Next
  <1>3. QED
    BY <1>1, <1>2

LEMMA InvariantHolds == Spec => []IInv
  BY InitIInv, NextIInv, PTL DEF Spec

------------------------------------------------------------------------------
\* Whatever the calls and however far the sender overruns the reader, the
\* indices are as far apart as there are unread bytes, modulo 2^32, and the
\* newest CBUF_SIZE of them are where the pops to come will read them.
THEOREM RingStaysIntact == Spec => []RingIntact
  <1>1. IInv => RingIntact
    BY Distance DEF IInv, RingIntact, IndexDistance
  <1>2. QED
    BY <1>1, InvariantHolds, PTL

\* The loop of cbuf_pop_buf, which ignores what cbuf_pop returns, hands out only
\* bytes that were pushed: the count tested before it is enough for every pass.
THEOREM PopLoopSafe == Spec => []PopLoopNeverEmpty
  <1>1. IInv => PopLoopNeverEmpty
    <2> SUFFICES ASSUME IInv, toPop > 0 PROVE ~IsEmpty /\ toPop <= Len(unread)
      BY DEF PopLoopNeverEmpty
    <2>1. /\ toPop \in Nat \ {0} /\ toPop <= Len(unread) % CBUF_SIZE
          /\ Len(unread) \in Nat
      BY UnreadLength DEF IInv, TypeOK, Loops
    <2>2. Len(unread) % CBUF_SIZE \in 0 .. CBUF_SIZE - 1
      BY LengthRemainder DEF IInv, TypeOK
    <2>3. Len(unread) % CBUF_SIZE <= Len(unread)
      <3>1. CASE Len(unread) < CBUF_SIZE
        BY <2>1, <3>1, SmallRemainder, Sizes
      <3>2. CASE ~(Len(unread) < CBUF_SIZE)
        BY <2>1, <2>2, <3>2, Sizes
      <3>3. QED
        BY <3>1, <3>2
    <2>4. QED
      BY <2>1, <2>2, <2>3, EmptyOnlyAtMultiple, Sizes DEF IInv
  <1>2. QED
    BY <1>1, InvariantHolds, PTL

\* As long as the ring has not been filled, cbuf_push_buf takes exactly what fits
\* and cbuf_pop_buf grants exactly what is there.
THEOREM BufCallsExact == Spec => BufCallsDecideExactly
  <1>1. IInv => BufDecision
    <2> SUFFICES ASSUME IInv, Len(unread) < CBUF_SIZE
                 PROVE  /\ \A buf \in Buf : PushBuf(buf) =>
                             (ret' = "OK" <=> Len(unread) + Len(buf) <= CBUF_SIZE)
                        /\ \A len \in 0 .. MaxLen : PopBuf(len) =>
                             (ret' = "OK" <=> len <= Len(unread))
      BY DEF BufDecision
    <2>1. Len(unread) \in 0 .. CBUF_SIZE - 1
      BY UnreadLength, Sizes DEF IInv
    <2>2. Count = Len(unread)
      BY <2>1, CountIsMasked, SmallRemainder, Sizes DEF IInv
    <2>3. ASSUME NEW buf \in Buf, PushBuf(buf)
          PROVE  ret' = "OK" <=> Len(unread) + Len(buf) <= CBUF_SIZE
      <3>1. Len(buf) \in Nat
        BY BufIsSeq, Sizes
      <3>2. Free < Len(buf) <=> ~(Len(unread) + Len(buf) <= CBUF_SIZE)
        BY <2>1, <2>2, <3>1, Sizes DEF Free
      <3>3. QED
        BY <2>3, <3>2 DEF PushBuf
    <2>4. ASSUME NEW len \in 0 .. MaxLen, PopBuf(len)
          PROVE  ret' = "OK" <=> len <= Len(unread)
      <3>1. Count < len <=> ~(len <= Len(unread))
        BY <2>1, <2>2, Sizes
      <3>2. QED
        BY <2>4, <3>1 DEF PopBuf
    <2>5. QED
      BY <2>3, <2>4
  <1>2. QED
    BY <1>1, InvariantHolds, PTL DEF BufCallsDecideExactly
=============================================================================
