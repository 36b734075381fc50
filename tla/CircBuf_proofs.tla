---------------------------- MODULE CircBuf_proofs ----------------------------
(* The byte ring of module3 ex05 for every size and every set of bytes, with *)
(* pushes inside pop and without.                                            *)
EXTENDS CircBuf, SequenceTheorems, TLAPS

\* head is one slot further than tail for each unread byte, overrun ones too.
Agreement == head = (tail + Len(unread)) % BUFFER_SIZE

NewestInPlace ==
    \A i \in 1 .. Len(unread) :
       i > Len(unread) - BUFFER_SIZE => data[Slot(i)] = unread[i]

\* A byte tested for is there until pop has counted it off, and what pop has not
\* counted off yet exceeds the unread bytes by the one it holds at most.
CountBelow ==
    /\ pc \in {"take", "load"} => count >= 1
    /\ pc = "store" => reg >= 1 /\ reg <= Len(unread) + 1
    /\ pc \in {"idle", "take"} => count <= Len(unread)
    /\ pc = "load" => count <= Len(unread) + 1
    /\ pc \in {"load", "store"} => byte \in Byte

\* With no push inside pop the counter is exact.
CountExact ==
    \/ preempts
    \/ /\ pc \in {"idle", "take"} => count = Len(unread)
       /\ pc \in {"load", "store"} => count = Len(unread) + 1
       /\ pc = "store" => reg = count

IInv == TypeOK /\ Agreement /\ NewestInPlace /\ CountBelow /\ CountExact

------------------------------------------------------------------------------
(* Remainders.                                                               *)

LEMMA Apart ==
    ASSUME NEW n \in Nat \ {0}, NEW p \in Int, NEW q \in Int, p > q
    PROVE  p * n >= q * n + n
  <1>1. PICK d \in Nat : p = q + 1 + d
    BY SMT
  <1>2. p * n = q * n + n + d * n
    BY <1>1, SMT
  <1>3. d * n >= 0
    BY SMT
  <1>4. d * n \in Int /\ q * n \in Int
    BY SMT
  <1>5. QED
    BY <1>2, <1>3, <1>4, SMT

LEMMA QuotientAndRemainder ==
    ASSUME NEW n \in Nat \ {0}, NEW x \in Int
    PROVE  \E q \in Int, r \in 0 .. n - 1 : x = q * n + r /\ x % n = r
  <1>1. x = (x \div n) * n + (x % n) /\ x % n \in 0 .. n - 1 /\ x \div n \in Int
    BY SMT
  <1>2. QED
    BY <1>1

LEMMA RemainderUnique ==
    ASSUME NEW n \in Nat \ {0}, NEW q \in Int, NEW r \in 0 .. n - 1
    PROVE  (q * n + r) % n = r
  <1>1. PICK x \in Int : x = q * n + r
    BY SMT
  <1>2. PICK p \in Int, s \in 0 .. n - 1 : x = p * n + s /\ x % n = s
    BY QuotientAndRemainder
  <1>3. p * n \in Int /\ q * n \in Int
    BY SMT
  <1>4. CASE p > q
    BY <1>1, <1>2, <1>3, <1>4, Apart
  <1>5. CASE q > p
    BY <1>1, <1>2, <1>3, <1>5, Apart
  <1>6. QED
    BY <1>1, <1>2, <1>3, <1>4, <1>5

LEMMA ShiftByMultiple ==
    ASSUME NEW n \in Nat \ {0}, NEW x \in Int, NEW j \in Int
    PROVE  (x + j * n) % n = x % n
  <1>1. PICK q \in Int, r \in 0 .. n - 1 : x = q * n + r /\ x % n = r
    BY QuotientAndRemainder
  <1>2. x + j * n = (q + j) * n + r
    BY <1>1, SMT
  <1>3. q + j \in Int
    BY SMT
  <1>4. ((q + j) * n + r) % n = r
    BY <1>3, RemainderUnique
  <1>5. QED
    BY <1>1, <1>2, <1>4

\* A sum may be reduced before or after adding.
LEMMA ReduceFirst ==
    ASSUME NEW n \in Nat \ {0}, NEW x \in Int, NEW y \in Int
    PROVE  ((x % n) + y) % n = (x + y) % n
  <1>1. PICK q \in Int, r \in 0 .. n - 1 : x = q * n + r /\ x % n = r
    BY QuotientAndRemainder
  <1>2. r + y \in Int
    BY SMT
  <1>3. ((r + y) + q * n) % n = (r + y) % n
    BY <1>2, ShiftByMultiple
  <1>4. x + y = (r + y) + q * n
    BY <1>1, SMT
  <1>5. QED
    BY <1>1, <1>3, <1>4

LEMMA Remainder ==
    ASSUME NEW n \in Nat \ {0}, NEW x \in Int
    PROVE  x % n \in 0 .. n - 1
  BY QuotientAndRemainder

LEMMA SmallRemainder ==
    ASSUME NEW n \in Nat \ {0}, NEW x \in 0 .. n - 1
    PROVE  x % n = x
  <1>1. (0 * n + x) % n = x
    BY RemainderUnique
  <1>2. 0 * n + x = x
    BY SMT
  <1>3. QED
    BY <1>1, <1>2

LEMMA Sizes == BUFFER_SIZE \in Nat \ {0} /\ MaxUnread \in Nat /\ Zero \in Byte
  BY CircBufAssumption

\* Fewer than BUFFER_SIZE places apart are different slots.
LEMMA DistinctSlots ==
    ASSUME NEW x \in Nat, NEW d \in 1 .. BUFFER_SIZE - 1
    PROVE  (x + d) % BUFFER_SIZE # x % BUFFER_SIZE
  <1>1. BUFFER_SIZE \in Nat \ {0} /\ x \in Int
    BY Sizes
  <1>2. PICK q \in Int, r \in 0 .. BUFFER_SIZE - 1 :
           x = q * BUFFER_SIZE + r /\ x % BUFFER_SIZE = r
    BY <1>1, QuotientAndRemainder
  <1>3. CASE r + d < BUFFER_SIZE
    <2>1. PICK s \in 0 .. BUFFER_SIZE - 1 : s = r + d
      BY <1>3, Sizes
    <2>2. x + d = q * BUFFER_SIZE + s
      BY <1>2, <2>1, Sizes
    <2>3. QED
      BY <1>2, <2>1, <2>2, RemainderUnique, Sizes
  <1>4. CASE r + d >= BUFFER_SIZE
    <2>1. PICK s \in 0 .. BUFFER_SIZE - 1 : s = r + d - BUFFER_SIZE
      BY <1>4, Sizes
    <2>2. x + d = (q + 1) * BUFFER_SIZE + s
      BY <1>2, <2>1, Sizes
    <2>3. QED
      BY <1>2, <2>1, <2>2, RemainderUnique, Sizes
  <1>5. QED
    BY <1>3, <1>4, Sizes

LEMMA InArray ==
    ASSUME NEW x \in Int
    PROVE  x % BUFFER_SIZE \in 0 .. BUFFER_SIZE - 1
  BY Sizes, Remainder

LEMMA AfterInArray ==
    ASSUME NEW i \in 0 .. BUFFER_SIZE - 1
    PROVE  After(i) \in 0 .. BUFFER_SIZE - 1
  <1>1. i + 1 \in Int
    BY Sizes
  <1>2. QED
    BY <1>1, InArray DEF After

LEMMA UnreadLength ==
    ASSUME TypeOK
    PROVE  Len(unread) \in Nat /\ head \in Nat /\ tail \in Nat /\ count \in Nat
  BY LenProperties, Sizes DEF TypeOK

LEMMA Distance ==
    ASSUME TypeOK, Agreement
    PROVE  (head - tail) % BUFFER_SIZE = Len(unread) % BUFFER_SIZE
  <1>1. PICK x \in Int, y \in Int : x = tail + Len(unread) /\ y = 0 - tail
    BY UnreadLength
  <1>2. ((x % BUFFER_SIZE) + y) % BUFFER_SIZE = (x + y) % BUFFER_SIZE
    BY Sizes, ReduceFirst
  <1>3. x % BUFFER_SIZE = head
    BY <1>1 DEF Agreement
  <1>4. x + y = Len(unread) /\ head + y = head - tail
    <2>1. Len(unread) \in Nat /\ head \in Nat /\ tail \in Nat
      BY UnreadLength
    <2>2. QED
      BY <1>1, <2>1
  <1>5. QED
    BY <1>2, <1>3, <1>4

------------------------------------------------------------------------------
(* What a push and a take do to the bytes, whoever runs in between.          *)

LEMMA PushBytes ==
    ASSUME TypeOK, Agreement, NewestInPlace, NEW b \in Byte, Push(b)
    PROVE  /\ data' \in [0 .. BUFFER_SIZE - 1 -> Byte]
           /\ head' \in 0 .. BUFFER_SIZE - 1
           /\ unread' \in Seq(Byte) /\ Len(unread') = Len(unread) + 1
           /\ Agreement' /\ NewestInPlace'
  <1>1. /\ data' = [data EXCEPT ![head] = b] /\ head' = (head + 1) % BUFFER_SIZE
        /\ unread' = Append(unread, b) /\ tail' = tail
    BY DEF Push, After
  <1>2. /\ unread \in Seq(Byte) /\ unread' \in Seq(Byte)
        /\ Len(unread') = Len(unread) + 1
        /\ \A i \in 1 .. Len(unread) : unread'[i] = unread[i]
        /\ unread'[Len(unread) + 1] = b
    BY <1>1, AppendProperties DEF TypeOK
  <1>3. data' \in [0 .. BUFFER_SIZE - 1 -> Byte] /\ data'[head] = b
    BY <1>1 DEF TypeOK
  <1>4. head' \in 0 .. BUFFER_SIZE - 1
    BY <1>1, AfterInArray DEF TypeOK, After
  <1>5. Agreement'
    <2>1. PICK x \in Int, y \in Int : x = tail + Len(unread) /\ y = 1
      BY UnreadLength
    <2>2. ((x % BUFFER_SIZE) + y) % BUFFER_SIZE = (x + y) % BUFFER_SIZE
      BY Sizes, ReduceFirst
    <2>3. x + y = tail' + Len(unread')
      BY <1>1, <1>2, <2>1, UnreadLength
    <2>4. QED
      BY <1>1, <2>1, <2>2, <2>3 DEF Agreement
  <1>6. NewestInPlace'
    <2>1. ASSUME NEW i \in 1 .. Len(unread) + 1, i > Len(unread) + 1 - BUFFER_SIZE
          PROVE  data'[Slot(i)] = unread'[i]
      <3>1. CASE i = Len(unread) + 1
        <4>1. tail + i - 1 = tail + Len(unread)
          BY <3>1, UnreadLength
        <4>2. QED
          BY <1>2, <1>3, <3>1, <4>1 DEF Slot, Agreement
      <3>2. CASE i # Len(unread) + 1
        <4>1. i \in 1 .. Len(unread) /\ i > Len(unread) - BUFFER_SIZE
          BY <2>1, <3>2, UnreadLength, Sizes
        <4>2. PICK x \in Nat, d \in 1 .. BUFFER_SIZE - 1 :
                 x = tail + i - 1 /\ x + d = tail + Len(unread)
          <5>1. tail + i - 1 \in Nat /\ Len(unread) - i + 1 \in 1 .. BUFFER_SIZE - 1
            BY <2>1, <4>1, UnreadLength, Sizes
          <5>2. (tail + i - 1) + (Len(unread) - i + 1) = tail + Len(unread)
            BY <4>1, UnreadLength
          <5>3. QED
            BY <5>1, <5>2
        <4>3. Slot(i) # head /\ Slot(i) \in 0 .. BUFFER_SIZE - 1
          <5>1. (x + d) % BUFFER_SIZE # x % BUFFER_SIZE
            BY DistinctSlots
          <5>2. x % BUFFER_SIZE \in 0 .. BUFFER_SIZE - 1
            <6>1. x \in Int
              OBVIOUS
            <6>2. QED
              BY <6>1, InArray
          <5>3. QED
            BY <4>2, <5>1, <5>2 DEF Slot, Agreement
        <4>4. data[Slot(i)] = unread[i]
          BY <4>1 DEF NewestInPlace
        <4>5. data'[Slot(i)] = data[Slot(i)]
          BY <1>1, <4>3 DEF TypeOK
        <4>6. QED
          BY <1>2, <4>1, <4>4, <4>5
      <3>3. QED
        BY <3>1, <3>2
    <2>2. ASSUME NEW i \in 1 .. Len(unread'), i > Len(unread') - BUFFER_SIZE
          PROVE  data'[Slot(i)] = unread'[i]
      <3>1. i \in 1 .. Len(unread) + 1 /\ i > Len(unread) + 1 - BUFFER_SIZE
        BY <1>2, <2>2, UnreadLength, Sizes
      <3>2. QED
        BY <2>1, <3>1
    <2>3. QED
      BY <1>1, <2>2 DEF NewestInPlace, Slot
  <1>7. QED
    BY <1>2, <1>3, <1>4, <1>5, <1>6

LEMMA TakeBytes ==
    ASSUME TypeOK, Agreement, NewestInPlace, unread # <<>>, PopTake
    PROVE  /\ tail' \in 0 .. BUFFER_SIZE - 1 /\ byte' \in Byte
           /\ unread' \in Seq(Byte) /\ Len(unread') = Len(unread) - 1
           /\ Len(unread) \in Nat \ {0}
           /\ Agreement' /\ NewestInPlace'
  <1>1. /\ tail' = (tail + 1) % BUFFER_SIZE /\ unread' = Tail(unread)
        /\ data' = data /\ head' = head /\ byte' = data[tail]
    BY DEF PopTake, After
  <1>2. /\ unread' \in Seq(Byte) /\ Len(unread) \in Nat \ {0}
        /\ Len(unread') = Len(unread) - 1
        /\ \A i \in 1 .. Len(unread) - 1 : unread'[i] = unread[i + 1]
    <2>1. unread \in Seq(Byte) /\ Len(unread) \in Nat \ {0}
      BY EmptySeq DEF TypeOK
    <2>2. /\ Tail(unread) \in Seq(Byte) /\ Len(Tail(unread)) = Len(unread) - 1
          /\ \A i \in 1 .. Len(Tail(unread)) : Tail(unread)[i] = unread[i + 1]
      BY <2>1, HeadTailProperties
    <2>3. QED
      BY <1>1, <2>1, <2>2
  <1>3. tail' \in 0 .. BUFFER_SIZE - 1 /\ byte' \in Byte
    BY <1>1, AfterInArray DEF TypeOK, After
  <1>4. Agreement'
    <2>1. PICK x \in Int, y \in Int : x = tail + 1 /\ y = Len(unread) - 1
      BY <1>2, UnreadLength
    <2>2. ((x % BUFFER_SIZE) + y) % BUFFER_SIZE = (x + y) % BUFFER_SIZE
      BY Sizes, ReduceFirst
    <2>3. x + y = tail + Len(unread)
      BY <2>1, UnreadLength
    <2>4. QED
      BY <1>1, <1>2, <2>1, <2>2, <2>3 DEF Agreement
  <1>5. NewestInPlace'
    <2>1. ASSUME NEW i \in 1 .. Len(unread) - 1, i > Len(unread) - 1 - BUFFER_SIZE
          PROVE  data[(tail' + i - 1) % BUFFER_SIZE] = unread[i + 1]
      <3>1. PICK x \in Int, y \in Int : x = tail + 1 /\ y = i - 1
        BY UnreadLength
      <3>2. ((x % BUFFER_SIZE) + y) % BUFFER_SIZE = (x + y) % BUFFER_SIZE
        BY Sizes, ReduceFirst
      <3>3. x + y = tail + (i + 1) - 1 /\ tail' + i - 1 = (x % BUFFER_SIZE) + y
        BY <1>1, <1>3, <3>1, UnreadLength
      <3>4. i + 1 \in 1 .. Len(unread) /\ i + 1 > Len(unread) - BUFFER_SIZE
        BY <1>2, <2>1, Sizes
      <3>5. data[(tail + (i + 1) - 1) % BUFFER_SIZE] = unread[i + 1]
        BY <3>4 DEF NewestInPlace, Slot
      <3>6. QED
        BY <3>2, <3>3, <3>5
    <2>2. ASSUME NEW i \in 1 .. Len(unread'), i > Len(unread') - BUFFER_SIZE
          PROVE  data'[(tail' + i - 1) % BUFFER_SIZE] = unread'[i]
      <3>1. i \in 1 .. Len(unread) - 1 /\ i > Len(unread) - 1 - BUFFER_SIZE
        BY <1>2, <2>2, Sizes
      <3>2. QED
        BY <1>1, <1>2, <2>1, <3>1
    <2>3. QED
      BY <2>2 DEF NewestInPlace, Slot
  <1>6. QED
    BY <1>2, <1>3, <1>4, <1>5

------------------------------------------------------------------------------
(* The invariant.                                                            *)

LEMMA InitIInv == Init => IInv
  <1> SUFFICES ASSUME Init PROVE IInv
    OBVIOUS
  <1>1. Len(unread) = 0 /\ unread \in Seq(Byte)
    BY EmptySeq DEF Init
  <1>2. preempts \in BOOLEAN
    BY DEF Init
  <1>3. TypeOK
    BY <1>1, <1>2, Sizes DEF Init, TypeOK, Returned
  <1>4. 0 % BUFFER_SIZE = 0 /\ 0 + 0 = 0
    BY Sizes, SmallRemainder
  <1>5. Agreement /\ NewestInPlace /\ CountBelow
    BY <1>1, <1>4 DEF Init, Agreement, NewestInPlace, CountBelow
  <1>6. CountExact
    BY <1>1 DEF Init, CountExact
  <1>7. QED
    BY <1>3, <1>5, <1>6 DEF IInv

LEMMA PushIInv ==
    ASSUME IInv, NEW b \in Byte, Push(b)
    PROVE  IInv'
  <1>1. /\ data' \in [0 .. BUFFER_SIZE - 1 -> Byte] /\ head' \in 0 .. BUFFER_SIZE - 1
        /\ unread' \in Seq(Byte) /\ Len(unread') = Len(unread) + 1
        /\ Agreement' /\ NewestInPlace'
    BY PushBytes DEF IInv
  <1>2. /\ count' = count + 1 /\ count # BUFFER_SIZE /\ (preempts \/ pc = "idle")
        /\ res' = Returned("put", b) /\ UNCHANGED <<tail, preempts, pc, byte, reg>>
    BY DEF Push, IsFull, PushRuns
  <1>3. count \in 0 .. BUFFER_SIZE /\ Len(unread) \in Nat /\ reg \in 0 .. BUFFER_SIZE
    BY UnreadLength DEF IInv, TypeOK
  <1>4. TypeOK'
    <2>1. res'.value \in Byte \cup {NoByte}
      BY <1>2 DEF Returned
    <2>2. preempts' \in BOOLEAN
      BY <1>2 DEF IInv, TypeOK
    <2>3. count' \in 0 .. BUFFER_SIZE
      BY <1>2, <1>3, Sizes
    <2>4. QED
      BY <1>1, <1>2, <2>1, <2>2, <2>3 DEF IInv, TypeOK
  <1>5. CountBelow'
    BY <1>1, <1>2, <1>3, Sizes DEF IInv, CountBelow
  <1>6. CountExact'
    BY <1>1, <1>2, <1>3 DEF IInv, CountExact
  <1>7. QED
    BY <1>1, <1>4, <1>5, <1>6 DEF IInv

LEMMA PushFullIInv ==
    ASSUME IInv, PushFull
    PROVE  IInv'
  <1>1. res' = Refused("put") /\ UNCHANGED <<ring, preempts, pc, byte, reg, unread>>
    BY DEF PushFull
  <1>2. res'.value \in Byte \cup {NoByte}
    BY <1>1 DEF Refused
  <1>3. preempts' \in BOOLEAN
    BY <1>1 DEF IInv, TypeOK
  <1>4. QED
    BY <1>1, <1>2, <1>3 DEF IInv, TypeOK, Agreement, NewestInPlace, Slot,
                            CountBelow, CountExact, ring

LEMMA PopTestIInv ==
    ASSUME IInv, PopTest
    PROVE  IInv'
  <1>1. pc = "idle" /\ UNCHANGED <<data, head, tail, count, preempts, byte, reg, unread>>
    BY DEF PopTest, ring
  <1>2. res'.value \in Byte \cup {NoByte}
    BY DEF PopTest, Refused, IInv, TypeOK
  <1>3. preempts' \in BOOLEAN
    BY <1>1 DEF IInv, TypeOK
  <1>4. pc' \in {"idle", "take"} /\ (pc' = "take" => count # 0)
    BY <1>1 DEF PopTest, IsEmpty
  <1>5. TypeOK' /\ Agreement' /\ NewestInPlace'
    BY <1>1, <1>2, <1>3, <1>4 DEF IInv, TypeOK, Agreement, NewestInPlace, Slot
  <1>6. CountBelow'
    BY <1>1, <1>4, Sizes DEF IInv, TypeOK, CountBelow
  <1>7. CountExact'
    BY <1>1, <1>4 DEF IInv, CountExact
  <1>8. QED
    BY <1>5, <1>6, <1>7 DEF IInv

LEMMA PopTakeIInv ==
    ASSUME IInv, PopTake
    PROVE  IInv'
  <1>1. /\ pc = "take" /\ pc' = "load"
        /\ UNCHANGED <<data, head, count, res, preempts, reg>>
    BY DEF PopTake
  <1>2. unread # <<>> /\ count \in 0 .. BUFFER_SIZE
    BY <1>1, EmptySeq, UnreadLength DEF IInv, TypeOK, CountBelow
  <1>3. /\ tail' \in 0 .. BUFFER_SIZE - 1 /\ byte' \in Byte
        /\ unread' \in Seq(Byte) /\ Len(unread') = Len(unread) - 1
        /\ Len(unread) \in Nat \ {0} /\ Agreement' /\ NewestInPlace'
    BY <1>2, TakeBytes DEF IInv
  <1>4. preempts' \in BOOLEAN
    BY <1>1 DEF IInv, TypeOK
  <1>5. TypeOK'
    BY <1>1, <1>3, <1>4 DEF IInv, TypeOK
  <1>6. CountBelow'
    BY <1>1, <1>2, <1>3 DEF IInv, CountBelow
  <1>7. CountExact'
    BY <1>1, <1>2, <1>3 DEF IInv, CountExact
  <1>8. QED
    BY <1>3, <1>5, <1>6, <1>7 DEF IInv

\* The load and the store of count--: a push between them is overwritten, so the
\* counter can only fall behind.
LEMMA PopCountIInv ==
    ASSUME IInv, PopLoad \/ PopStore
    PROVE  IInv'
  <1>1. preempts' = preempts /\ preempts' \in BOOLEAN
    BY DEF IInv, TypeOK, PopLoad, PopStore
  <1>2. /\ Len(unread) \in Nat /\ count \in 0 .. BUFFER_SIZE
        /\ reg \in 0 .. BUFFER_SIZE
    BY UnreadLength DEF IInv, TypeOK
  <1>3. CASE PopLoad
    <2>1. /\ reg' = count /\ pc = "load" /\ pc' = "store"
          /\ UNCHANGED <<data, head, tail, count, res, byte, unread>>
      BY <1>3 DEF PopLoad, ring
    <2>2. TypeOK' /\ Agreement' /\ NewestInPlace'
      BY <1>1, <2>1 DEF IInv, TypeOK, Agreement, NewestInPlace, Slot
    <2>3. CountBelow'
      BY <2>1 DEF IInv, CountBelow
    <2>4. CountExact'
      BY <1>1, <2>1 DEF IInv, CountExact
    <2>5. QED
      BY <2>2, <2>3, <2>4 DEF IInv
  <1>4. CASE PopStore
    <2>1. /\ count' = reg - 1 /\ pc = "store" /\ pc' = "idle"
          /\ res' = Returned("get", byte)
          /\ UNCHANGED <<data, head, tail, reg, byte, unread>>
      BY <1>4 DEF PopStore
    <2>2. res'.value \in Byte \cup {NoByte}
      BY <2>1 DEF Returned, IInv, TypeOK
    <2>3. count' \in 0 .. BUFFER_SIZE /\ count' <= Len(unread)
      BY <1>2, <2>1, Sizes DEF IInv, CountBelow
    <2>4. TypeOK' /\ Agreement' /\ NewestInPlace'
      BY <1>1, <2>1, <2>2, <2>3 DEF IInv, TypeOK, Agreement, NewestInPlace, Slot
    <2>5. CountBelow'
      BY <2>1, <2>3 DEF IInv, CountBelow
    <2>6. CountExact'
      BY <1>1, <1>2, <2>1 DEF IInv, CountExact
    <2>7. QED
      BY <2>4, <2>5, <2>6 DEF IInv
  <1>5. QED
    BY <1>3, <1>4

LEMMA NextIInv == IInv /\ [Next]_vars => IInv'
  <1> SUFFICES ASSUME IInv, [Next]_vars PROVE IInv'
    OBVIOUS
  <1>1. CASE UNCHANGED vars
    <2>1. preempts' = preempts /\ preempts' \in BOOLEAN
      BY <1>1 DEF vars, IInv, TypeOK
    <2>2. QED
      BY <1>1, <2>1 DEF IInv, TypeOK, Agreement, NewestInPlace, Slot,
                        CountBelow, CountExact, vars, ring
  <1>2. CASE Next
    BY <1>2, PushIInv, PushFullIInv, PopTestIInv, PopTakeIInv, PopCountIInv DEF Next
  <1>3. QED
    BY <1>1, <1>2

LEMMA InvariantHolds == Spec => []IInv
  BY InitIInv, NextIInv, PTL DEF Spec

------------------------------------------------------------------------------
\* Interrupts or not, the indices stay in the array and as far apart as bytes
\* were pushed and not taken, and the newest of those are where pops read them.
THEOREM RingStaysIntact == Spec => []RingIntact
  <1>1. IInv => RingIntact
    BY Distance DEF IInv, RingIntact, NewestIntact, NewestInPlace
  <1>2. QED
    BY <1>1, InvariantHolds, PTL

\* A pop returns only bytes that were pushed, however the lost updates of count
\* fall: count may be too low, never too high.
THEOREM NoPhantom == Spec => []NoPhantomByte
  <1>1. IInv => NoPhantomByte
    BY EmptySeq, UnreadLength DEF IInv, TypeOK, CountBelow, NoPhantomByte
  <1>2. QED
    BY <1>1, InvariantHolds, PTL

------------------------------------------------------------------------------
(* Refinement, while no push comes inside a pop.                             *)

\* The byte pop holds is still in the queue.
Contents == IF pc \in {"load", "store"} THEN <<byte>> \o unread ELSE unread

LEMMA PutBack ==
    ASSUME NEW s \in Seq(Byte), s # <<>>
    PROVE  <<s[1]>> \o Tail(s) = s
  <1>1. Len(s) \in Nat \ {0}
    BY EmptySeq
  <1>2. 1 \in 1 .. Len(s) /\ Len(s) \in 1 .. Len(s) /\ 1 + 1 = 2
    BY <1>1
  <1>3. SubSeq(s, 1, Len(s)) = <<s[1]>> \o SubSeq(s, 2, Len(s))
    BY <1>2, SubSeqRecursiveFirst
  <1>4. QED
    BY <1>3, SubSeqFull, TailIsSubSeq

LEMMA TakeFirst ==
    ASSUME NEW s \in Seq(Byte), NEW b \in Byte
    PROVE  /\ <<b>> \o s # <<>> /\ Head(<<b>> \o s) = b /\ Tail(<<b>> \o s) = s
           /\ Len(<<b>> \o s) = Len(s) + 1
  <1> DEFINE t == <<b>> \o s
  <1>1. <<b>> \in Seq(Byte) /\ Len(<<b>>) = 1 /\ <<b>>[1] = b /\ Len(s) \in Nat
    BY LenProperties
  <1>2. /\ t \in Seq(Byte) /\ Len(t) = Len(s) + 1
        /\ \A i \in 1 .. 1 + Len(s) : t[i] = IF i <= 1 THEN b ELSE s[i - 1]
    BY <1>1, ConcatProperties
  <1> HIDE DEF t
  <1>3. t # <<>>
    BY <1>1, <1>2, EmptySeq
  <1>4. t[1] = b /\ Head(t) = t[1]
    BY <1>1, <1>2, <1>3
  <1>5. /\ Tail(t) \in Seq(Byte) /\ Len(Tail(t)) = Len(s)
        /\ \A i \in 1 .. Len(s) : Tail(t)[i] = t[i + 1]
    BY <1>1, <1>2, <1>3, HeadTailProperties
  <1>6. \A i \in 1 .. Len(s) : Tail(t)[i] = s[i]
    BY <1>1, <1>2, <1>5
  <1>7. Tail(t) = s
    BY <1>1, <1>5, <1>6, SeqEqual
  <1>8. QED
    BY <1>2, <1>3, <1>4, <1>7 DEF t

\* The counter of the code is the length of the queue.
LEMMA ContentsLength ==
    ASSUME IInv, ~preempts
    PROVE  /\ Len(Contents) = count /\ count \in 0 .. BUFFER_SIZE
           /\ Contents = <<>> <=> count = 0
  <1>1. unread \in Seq(Byte) /\ Len(unread) \in Nat /\ count \in 0 .. BUFFER_SIZE
    BY LenProperties DEF IInv, TypeOK
  <1>2. CASE pc \in {"load", "store"}
    <2>1. Contents = <<byte>> \o unread /\ byte \in Byte /\ count = Len(unread) + 1
      BY <1>2 DEF Contents, IInv, CountBelow, CountExact
    <2>2. QED
      BY <1>1, <2>1, TakeFirst
  <1>3. CASE pc \notin {"load", "store"}
    <2>1. pc \in {"idle", "take"}
      BY <1>3 DEF IInv, TypeOK
    <2>2. Contents = unread /\ count = Len(unread)
      BY <1>3, <2>1 DEF Contents, IInv, CountExact
    <2>3. QED
      BY <1>1, <2>2, EmptySeq
  <1>4. QED
    BY <1>2, <1>3

LEMMA InitRefines == Init => Queued!Init
  BY DEF Init, Queued!Init, Returned, Queued!Returned

\* A call takes effect on the queue when it returns; pop's steps before that
\* leave the queue as it is, the byte moving from the ring into *byte.
LEMMA NextRefines ==
    ASSUME IInv, [Next]_vars, ~preempts
    PROVE  Queued!Next \/ UNCHANGED Queued!state
  <1>1. ASSUME NEW b \in Byte, Push(b) PROVE Queued!Put(b)
    <2>1. /\ pc = "idle" /\ pc' = "idle" /\ unread' = Append(unread, b)
          /\ count # BUFFER_SIZE /\ res' = Returned("put", b)
      BY <1>1 DEF Push, PushRuns, IsFull
    <2>2. Contents = unread /\ Contents' = Append(unread, b)
      BY <2>1 DEF Contents
    <2>3. Len(Contents) < BUFFER_SIZE
      BY <2>1, ContentsLength, Sizes
    <2>4. QED
      BY <2>1, <2>2, <2>3 DEF Queued!Put, Returned, Queued!Returned, Contents
  <1>2. CASE PushFull
    <2>1. Len(Contents) = BUFFER_SIZE /\ Contents' = Contents /\ res' = Refused("put")
      BY <1>2, ContentsLength DEF PushFull, IsFull, Contents
    <2>2. Queued!RefusePut
      BY <2>1 DEF Queued!RefusePut, Refused, Queued!Refused, Contents
    <2>3. QED
      BY <2>2 DEF Queued!Next
  <1>3. CASE PopTest
    <2>1. CASE IsEmpty
      <3>1. Contents = <<>> /\ Contents' = Contents /\ res' = Refused("get")
        BY <1>3, <2>1, ContentsLength DEF PopTest, IsEmpty, Contents
      <3>2. Queued!RefuseTake("get")
        BY <3>1 DEF Queued!RefuseTake, Refused, Queued!Refused, Contents
      <3>3. QED
        BY <3>2 DEF Queued!Next
    <2>2. CASE ~IsEmpty
      BY <1>3, <2>2 DEF PopTest, Queued!state
    <2>3. QED
      BY <2>1, <2>2
  <1>4. CASE PopTake
    <2>1. /\ pc = "take" /\ pc' = "load" /\ unread' = Tail(unread)
          /\ byte' = data[tail] /\ res' = res /\ unread \in Seq(Byte)
      BY <1>4 DEF PopTake, IInv, TypeOK
    <2>2. /\ Len(unread) \in Nat \ {0} /\ Len(unread) <= BUFFER_SIZE
          /\ unread # <<>> /\ tail \in 0 .. BUFFER_SIZE - 1
      <3>1. Len(unread) = count /\ count \in 1 .. BUFFER_SIZE
        BY <2>1, Sizes DEF IInv, TypeOK, CountBelow, CountExact
      <3>2. QED
        BY <3>1, EmptySeq, Sizes DEF IInv, TypeOK
    <2>3. data[tail] = unread[1]
      <3>1. 1 \in 1 .. Len(unread) /\ 1 > Len(unread) - BUFFER_SIZE
        BY <2>2, Sizes
      <3>2. tail + 1 - 1 = tail /\ tail % BUFFER_SIZE = tail
        BY <2>2, Sizes, SmallRemainder
      <3>3. QED
        BY <3>1, <3>2 DEF IInv, NewestInPlace, Slot
    <2>4. <<unread[1]>> \o Tail(unread) = unread
      BY <2>1, <2>2, PutBack
    <2>5. QED
      BY <2>1, <2>3, <2>4 DEF Queued!state
  <1>5. CASE PopLoad
    BY <1>5 DEF PopLoad, Queued!state
  <1>6. CASE PopStore
    <2>1. /\ Contents = <<byte>> \o unread /\ Contents' = unread
          /\ byte \in Byte /\ unread \in Seq(Byte) /\ res' = Returned("get", byte)
      BY <1>6 DEF PopStore, Contents, IInv, TypeOK, CountBelow
    <2>2. Contents # <<>> /\ Head(Contents) = byte /\ Tail(Contents) = unread
      BY <2>1, TakeFirst
    <2>3. Queued!Get
      BY <2>1, <2>2 DEF Queued!Get, Returned, Queued!Returned, Contents
    <2>4. QED
      BY <2>3 DEF Queued!Next
  <1>7. CASE UNCHANGED vars
    BY <1>7 DEF vars, Queued!state
  <1>8. QED
    BY <1>1, <1>2, <1>3, <1>4, <1>5, <1>6, <1>7 DEF Next, Queued!Next

\* While no push comes inside a pop the ring is a bounded FIFO of BUFFER_SIZE
\* bytes, for every size: calls return what the FIFO's calls return, refusals
\* when full and when empty included.
THEOREM RingImplementsFifo == Spec => CallsImplementFifo
  <1>1. IInv /\ [Next]_vars => [preempts \/ Queued!Next \/ UNCHANGED Queued!state]_vars
    BY NextRefines
  <1>2. QED
    BY <1>1, InitRefines, InvariantHolds, PTL DEF Spec, CallsImplementFifo
=============================================================================
