-------------------------- MODULE Components_proofs --------------------------
(* Proofs about the components that one caller drives: the word queue, the   *)
(* stack, the sensor's state machine, the peripheral, the fixed-point        *)
(* arithmetic, the sensor's heap, the loops over arrays and strings, the     *)
(* linked list and the binary search tree, and their side-by-side run.       *)
EXTENDS MCComponents, SequenceTheorems, FiniteSetTheorems, TLAPS

------------------------------------------------------------------------------
(* Induction on the naturals, as a statement about sets.                     *)

\* Every non-empty set of naturals has a least element.
LEMMA LeastNat ==
    ASSUME NEW T \in SUBSET Nat, T # {}
    PROVE  \E x \in T : \A y \in T : x <= y
  <1>1. PICK x \in T : \A y \in T : <<y, x>> \notin OpToRel(<, Nat)
    BY NatLessThanWellFounded, WFMin
  <1>2. x \in T /\ \A y \in T : ~(y < x)
    BY <1>1 DEF OpToRel
  <1>3. QED
    BY <1>2

LEMMA InductionOnSet ==
    ASSUME NEW T, 0 \in T, \A k \in Nat : k \in T => k + 1 \in T
    PROVE  Nat \subseteq T
  <1> SUFFICES ASSUME Nat \ T # {} PROVE FALSE
    OBVIOUS
  <1>1. Nat \ T \in SUBSET Nat
    OBVIOUS
  <1>2. PICK x \in Nat \ T : \A y \in Nat \ T : x <= y
    BY <1>1, LeastNat
  <1>3. x # 0 /\ x - 1 \in Nat
    BY <1>2
  <1>4. x - 1 \in T
    BY <1>2, <1>3
  <1>5. (x - 1) + 1 \in T
    BY <1>3, <1>4
  <1>6. QED
    BY <1>2, <1>5
\* Multiples of m that differ are at least m apart.
LEMMA Apart ==
    ASSUME NEW m \in Nat \ {0}, NEW p \in Int, NEW q \in Int, p > q
    PROVE  p * m >= q * m + m
  <1>1. PICK d \in Nat : p = q + 1 + d
    <2>1. p - q - 1 \in Nat /\ p = q + 1 + (p - q - 1)
      BY SMT
    <2>2. QED
      BY <2>1
  <1>2. p * m = q * m + m + d * m
    BY <1>1, SMT
  <1>3. d * m >= 0
    BY SMT
  <1>4. d * m \in Int /\ q * m \in Int
    BY SMT
  <1>5. QED
    BY <1>2, <1>3, <1>4, SMT

LEMMA QuotientAndRemainder ==
    ASSUME NEW m \in Nat \ {0}, NEW x \in Int
    PROVE  \E q \in Int, r \in 0 .. m - 1 : x = q * m + r /\ x % m = r
  <1>1. x = (x \div m) * m + (x % m) /\ x % m \in 0 .. m - 1 /\ x \div m \in Int
    BY SMT
  <1>2. QED
    BY <1>1

LEMMA RemainderUnique ==
    ASSUME NEW m \in Nat \ {0}, NEW q \in Int, NEW r \in 0 .. m - 1
    PROVE  (q * m + r) % m = r
  <1>1. PICK x \in Int : x = q * m + r
    BY SMT
  <1>2. PICK p \in Int, u \in 0 .. m - 1 : x = p * m + u /\ x % m = u
    BY QuotientAndRemainder
  <1>3. p * m \in Int /\ q * m \in Int
    BY SMT
  <1>4. CASE p > q
    BY <1>1, <1>2, <1>3, <1>4, Apart
  <1>5. CASE q > p
    BY <1>1, <1>2, <1>3, <1>5, Apart
  <1>6. QED
    BY <1>1, <1>2, <1>3, <1>4, <1>5

\* Counting one more and then wrapping is wrapping before and after.
LEMMA RemainderOfNext ==
    ASSUME NEW m \in Nat \ {0}, NEW k \in Nat
    PROVE  (k + 1) % m = ((k % m) + 1) % m
  <1>1. PICK q \in Int, r \in 0 .. m - 1 : k = q * m + r /\ k % m = r
    BY QuotientAndRemainder
  <1>2. q * m \in Int
    BY SMT
  <1>3. CASE r + 1 < m
    <2>1. r + 1 \in 0 .. m - 1 /\ k + 1 = q * m + (r + 1) /\ 0 * m + (r + 1) = r + 1
      BY <1>1, <1>2, <1>3
    <2>2. (q * m + (r + 1)) % m = r + 1
      BY <2>1, RemainderUnique
    <2>3. (0 * m + (r + 1)) % m = r + 1
      BY <2>1, RemainderUnique
    <2>4. QED
      BY <1>1, <2>1, <2>2, <2>3
  <1>4. CASE r + 1 = m
    <2>1. PICK p \in Int : p = q + 1
      OBVIOUS
    <2>2. p * m = q * m + m
      BY <2>1
    <2>3. k + 1 = p * m + 0 /\ r + 1 = 1 * m + 0
      BY <1>1, <1>2, <1>4, <2>2
    <2>4. 0 \in 0 .. m - 1 /\ 1 \in Int
      OBVIOUS
    <2>5. (p * m + 0) % m = 0
      BY <2>4, RemainderUnique
    <2>6. (1 * m + 0) % m = 0
      BY <2>4, RemainderUnique
    <2>7. QED
      BY <1>1, <2>3, <2>5, <2>6
  <1>5. QED
    BY <1>3, <1>4
\* The inductive invariant: RingAgreement is kept by a put only because tail is
\* moved from inside the array, and by a get only because head is.
RingInv == TypeOK /\ RingAgreement

\* An index less than twice around the array wraps by one subtraction.
LEMMA Wrap ==
    ASSUME NEW x \in 0 .. 2 * QUEUE_SIZE - 1
    PROVE  x % QUEUE_SIZE = IF x < QUEUE_SIZE THEN x ELSE x - QUEUE_SIZE
  BY QueueAssumption, SMT

\* The slots of the elements lie in the array.
LEMMA SlotInArray ==
    ASSUME TypeOK, NEW k \in 1 .. count
    PROVE  /\ Slot(k) \in 0 .. QUEUE_SIZE - 1
           /\ Slot(k) = IF head + k - 1 < QUEUE_SIZE THEN head + k - 1
                        ELSE head + k - 1 - QUEUE_SIZE
  <1>1. head + k - 1 \in 0 .. 2 * QUEUE_SIZE - 1
    BY QueueAssumption DEF TypeOK
  <1>2. (head + k - 1) % QUEUE_SIZE =
           IF head + k - 1 < QUEUE_SIZE THEN head + k - 1
           ELSE head + k - 1 - QUEUE_SIZE
    <2>1. PICK x \in 0 .. 2 * QUEUE_SIZE - 1 : x = head + k - 1
      BY <1>1
    <2>2. x % QUEUE_SIZE = IF x < QUEUE_SIZE THEN x ELSE x - QUEUE_SIZE
      BY Wrap
    <2>3. QED
      BY <2>1, <2>2, QueueAssumption DEF TypeOK
  <1>3. QED
    BY <1>1, <1>2, QueueAssumption DEF TypeOK, Slot

\* The contents are a sequence of count values, the first of them data[head].
LEMMA ContentsSeq ==
    ASSUME TypeOK
    PROVE  /\ Contents \in Seq(Value)
           /\ Len(Contents) = count
           /\ \A k \in 1 .. count : Contents[k] = data[Slot(k)]
  <1>1. \A k \in 1 .. count : data[Slot(k)] \in Value
    BY SlotInArray DEF TypeOK
  <1>2. count \in Nat
    BY QueueAssumption DEF TypeOK
  <1>3. Contents \in Seq(Value)
    BY <1>1, <1>2, IsASeq DEF Contents
  <1>4. QED
    BY <1>2, <1>3 DEF Contents

LEMMA ContentsHead ==
    ASSUME TypeOK, ~IsEmpty
    PROVE  Contents # <<>> /\ Head(Contents) = data[head]
  <1>1. 1 \in 1 .. count
    BY QueueAssumption DEF TypeOK, IsEmpty
  <1>2. Slot(1) = head
    BY <1>1, SlotInArray, QueueAssumption DEF TypeOK
  <1>3. QED
    BY <1>1, <1>2, ContentsSeq, QueueAssumption DEF TypeOK

\* Moving an index by one, as Enqueue moves tail and Dequeue moves head.
LEMMA AfterInArray ==
    ASSUME NEW k \in 0 .. QUEUE_SIZE - 1
    PROVE  /\ After(k) \in 0 .. QUEUE_SIZE - 1
           /\ After(k) = IF k + 1 < QUEUE_SIZE THEN k + 1 ELSE 0
  <1>1. k + 1 \in 0 .. 2 * QUEUE_SIZE - 1
    BY QueueAssumption
  <1>2. After(k) = IF k + 1 < QUEUE_SIZE THEN k + 1 ELSE 0
    BY <1>1, Wrap, QueueAssumption DEF After
  <1>3. QED
    BY <1>2, QueueAssumption

\* RingAgreement without the remainder.
LEMMA AgreementLinear ==
    ASSUME NEW h \in 0 .. QUEUE_SIZE - 1, NEW c \in 0 .. QUEUE_SIZE
    PROVE  (h + c) % QUEUE_SIZE = IF h + c < QUEUE_SIZE THEN h + c
                                  ELSE h + c - QUEUE_SIZE
  <1>1. PICK x \in 0 .. 2 * QUEUE_SIZE - 1 : x = h + c
    BY QueueAssumption
  <1>2. x % QUEUE_SIZE = IF x < QUEUE_SIZE THEN x ELSE x - QUEUE_SIZE
    BY Wrap
  <1>3. QED
    BY <1>1, <1>2, QueueAssumption

LEMMA InitRingInv == Init => RingInv
  <1> SUFFICES ASSUME Init PROVE RingInv
    OBVIOUS
  <1>1. TypeOK
    BY QueueAssumption DEF Init, TypeOK, Returned
  <1>2. RingAgreement
    <2>1. (0 + 0) % QUEUE_SIZE = 0
      BY AgreementLinear, QueueAssumption
    <2>2. QED
      BY <2>1 DEF Init, RingAgreement
  <1>3. QED
    BY <1>1, <1>2 DEF RingInv

LEMMA NextRingInv == RingInv /\ [Next]_vars => RingInv'
  <1> SUFFICES ASSUME RingInv, [Next]_vars PROVE RingInv'
    OBVIOUS
  <1> USE DEF RingInv
  <1>1. ASSUME NEW v \in Value, Enqueue(v) PROVE RingInv'
    <2>1. TypeOK'
      BY <1>1, AfterInArray, QueueAssumption
         DEF TypeOK, Enqueue, IsFull, Returned
    <2>2. RingAgreement'
      <3>1. (head + count) % QUEUE_SIZE =
               IF head + count < QUEUE_SIZE THEN head + count
               ELSE head + count - QUEUE_SIZE
        BY AgreementLinear DEF TypeOK
      <3>2. head' \in 0 .. QUEUE_SIZE - 1 /\ count' \in 0 .. QUEUE_SIZE
        BY <2>1 DEF TypeOK
      <3>3. (head' + count') % QUEUE_SIZE =
               IF head' + count' < QUEUE_SIZE THEN head' + count'
               ELSE head' + count' - QUEUE_SIZE
        BY <3>2, AgreementLinear
      <3>4. /\ tail' = IF tail + 1 < QUEUE_SIZE THEN tail + 1 ELSE 0
            /\ head' = head /\ count' = count + 1 /\ count # QUEUE_SIZE
        BY <1>1, AfterInArray DEF TypeOK, Enqueue, IsFull
      <3>5. tail' = (head' + count') % QUEUE_SIZE
        BY <3>1, <3>3, <3>4, QueueAssumption DEF TypeOK, RingAgreement
      <3>6. QED
        BY <3>5 DEF RingAgreement
    <2>3. QED
      BY <2>1, <2>2
  <1>2. CASE EnqueueFull
    BY <1>2 DEF EnqueueFull, TypeOK, RingAgreement, Refused
  <1>3. CASE Dequeue
    <2>1. TypeOK'
      BY <1>3, AfterInArray, QueueAssumption
         DEF TypeOK, Dequeue, IsEmpty, Returned
    <2>2. RingAgreement'
      <3>1. (head + count) % QUEUE_SIZE =
               IF head + count < QUEUE_SIZE THEN head + count
               ELSE head + count - QUEUE_SIZE
        BY AgreementLinear DEF TypeOK
      <3>2. head' \in 0 .. QUEUE_SIZE - 1 /\ count' \in 0 .. QUEUE_SIZE
        BY <2>1 DEF TypeOK
      <3>3. (head' + count') % QUEUE_SIZE =
               IF head' + count' < QUEUE_SIZE THEN head' + count'
               ELSE head' + count' - QUEUE_SIZE
        BY <3>2, AgreementLinear
      <3>4. /\ head' = IF head + 1 < QUEUE_SIZE THEN head + 1 ELSE 0
            /\ count' = count - 1 /\ count # 0
        BY <1>3, AfterInArray DEF TypeOK, Dequeue, IsEmpty
      <3>5. tail = (head' + count') % QUEUE_SIZE
        BY <3>1, <3>3, <3>4, QueueAssumption DEF TypeOK, RingAgreement
      <3>6. QED
        BY <1>3, <3>5 DEF RingAgreement, Dequeue
    <2>3. QED
      BY <2>1, <2>2
  <1>4. CASE Peek
    BY <1>4 DEF Peek, TypeOK, RingAgreement, Returned
  <1>5. ASSUME NEW op \in {"get", "peek"}, TakeEmpty(op) PROVE RingInv'
    BY <1>5 DEF TakeEmpty, TypeOK, RingAgreement, Refused
  <1>6. CASE UNCHANGED vars
    BY <1>6 DEF vars, TypeOK, RingAgreement
  <1>7. QED
    BY <1>1, <1>2, <1>3, <1>4, <1>5, <1>6 DEF Next

\* For every QUEUE_SIZE, no call reads or writes outside data[], and tail is
\* count elements after head: what queue_enqueue and queue_dequeue maintain
\* although each moves only one index and the counter.
THEOREM RingInvariant == Spec => [](TypeOK /\ RingAgreement)
  BY InitRingInv, NextRingInv, PTL DEF Spec, RingInv

------------------------------------------------------------------------------
(* Refinement: each call maps to the bounded FIFO's call or to a stutter.    *)

\* Append and Tail, element by element.
LEMMA AppendElements ==
    ASSUME NEW S, NEW q \in Seq(S), NEW e \in S
    PROVE  Append(q, e) = [k \in 1 .. Len(q) + 1 |-> IF k = Len(q) + 1 THEN e ELSE q[k]]
  <1> DEFINE t == [k \in 1 .. Len(q) + 1 |-> IF k = Len(q) + 1 THEN e ELSE q[k]]
  <1>1. Len(q) \in Nat /\ \A k \in 1 .. Len(q) : q[k] \in S
    BY LenProperties, ElementOfSeq
  <1>2. \A k \in 1 .. Len(q) + 1 : (IF k = Len(q) + 1 THEN e ELSE q[k]) \in S
    BY <1>1
  <1>3. t \in Seq(S)
    BY <1>1, <1>2, IsASeq
  <1>4. Len(t) = Len(q) + 1
    BY <1>1, <1>3
  <1>5. Append(q, e) \in Seq(S) /\ Len(Append(q, e)) = Len(q) + 1
    BY AppendProperties
  <1>6. \A k \in 1 .. Len(q) + 1 : Append(q, e)[k] = t[k]
    BY <1>1, AppendProperties
  <1> HIDE DEF t
  <1>7. QED
    BY <1>3, <1>4, <1>5, <1>6, SeqEqual DEF t

LEMMA TailElements ==
    ASSUME NEW S, NEW q \in Seq(S), q # <<>>
    PROVE  Tail(q) = [k \in 1 .. Len(q) - 1 |-> q[k + 1]]
  <1> DEFINE t == [k \in 1 .. Len(q) - 1 |-> q[k + 1]]
  <1>1. Len(q) \in Nat \ {0} /\ \A k \in 1 .. Len(q) : q[k] \in S
    BY LenProperties, ElementOfSeq, EmptySeq
  <1>2. Len(q) - 1 \in Nat /\ \A k \in 1 .. Len(q) - 1 : q[k + 1] \in S
    BY <1>1
  <1>3. t \in Seq(S)
    BY <1>2, IsASeq
  <1>4. Len(t) = Len(q) - 1
    BY <1>2, <1>3
  <1>5. Tail(q) \in Seq(S) /\ Len(Tail(q)) = Len(q) - 1
    BY HeadTailProperties
  <1>6. \A k \in 1 .. Len(q) - 1 : Tail(q)[k] = t[k]
    BY <1>5, HeadTailProperties
  <1> HIDE DEF t
  <1>7. QED
    BY <1>3, <1>4, <1>5, <1>6, SeqEqual DEF t

\* A put writes the slot after the contents and no slot of the contents.
LEMMA EnqueueAppends ==
    ASSUME RingInv, NEW v \in Value, Enqueue(v)
    PROVE  Contents' = Append(Contents, v)
  <1> USE DEF RingInv
  <1>1. /\ count \in Nat /\ count' = count + 1
        /\ head' = head /\ count < QUEUE_SIZE
        /\ data' = [data EXCEPT ![tail] = v]
    BY QueueAssumption DEF TypeOK, Enqueue, IsFull
  <1>2. tail = IF head + count < QUEUE_SIZE THEN head + count
               ELSE head + count - QUEUE_SIZE
    BY AgreementLinear DEF TypeOK, RingAgreement
  <1>3. ASSUME NEW k \in 1 .. count
        PROVE  data'[Slot(k)] = Contents[k]
    <2>1. Slot(k) # tail /\ Slot(k) \in 0 .. QUEUE_SIZE - 1
      BY <1>1, <1>2, SlotInArray, QueueAssumption DEF TypeOK
    <2>2. QED
      BY <1>1, <2>1, ContentsSeq DEF TypeOK
  <1>4. Slot(count + 1) = tail
    <2>1. head + (count + 1) - 1 = head + count
      BY <1>1, QueueAssumption DEF TypeOK
    <2>2. QED
      BY <2>1 DEF Slot, RingAgreement
  <1>5. data'[tail] = v
    BY <1>1 DEF TypeOK
  <1>6. Contents' = [k \in 1 .. count + 1 |-> data'[Slot(k)]]
    BY <1>1 DEF Contents, Slot
  <1>7. Append(Contents, v)
          = [k \in 1 .. count + 1 |-> IF k = count + 1 THEN v ELSE Contents[k]]
    BY ContentsSeq, AppendElements
  <1>8. ASSUME NEW k \in 1 .. count + 1
        PROVE  data'[Slot(k)] = IF k = count + 1 THEN v ELSE Contents[k]
    <2>1. CASE k = count + 1
      BY <1>4, <1>5, <2>1
    <2>2. CASE k # count + 1
      BY <1>1, <1>3, <2>2
    <2>3. QED
      BY <2>1, <2>2
  <1>9. QED
    BY <1>6, <1>7, <1>8

\* A get moves the front to the slot of the second element.
LEMMA DequeueTail ==
    ASSUME RingInv, Dequeue
    PROVE  Contents' = Tail(Contents)
  <1> USE DEF RingInv
  <1>1. /\ count \in Nat \ {0} /\ count' = count - 1
        /\ data' = data /\ head' = After(head)
    BY QueueAssumption DEF TypeOK, Dequeue, IsEmpty
  <1>2. ASSUME NEW k \in 1 .. count - 1
        PROVE  (After(head) + k - 1) % QUEUE_SIZE = Slot(k + 1)
    <2>1. PICK x \in 0 .. 2 * QUEUE_SIZE - 1 : x = After(head) + k - 1
      BY <1>1, AfterInArray, QueueAssumption DEF TypeOK
    <2>2. x % QUEUE_SIZE = IF x < QUEUE_SIZE THEN x ELSE x - QUEUE_SIZE
      BY Wrap
    <2>3. PICK m \in 1 .. count : m = k + 1
      BY <1>1
    <2>4. Slot(m) = IF head + m - 1 < QUEUE_SIZE THEN head + m - 1
                    ELSE head + m - 1 - QUEUE_SIZE
      BY SlotInArray
    <2>5. x % QUEUE_SIZE = Slot(m)
      <3>1. /\ QUEUE_SIZE \in Nat \ {0} /\ count <= QUEUE_SIZE
            /\ head \in 0 .. QUEUE_SIZE - 1
        BY QueueAssumption DEF TypeOK
      <3>2. After(head) = IF head + 1 < QUEUE_SIZE THEN head + 1 ELSE 0
        BY AfterInArray DEF TypeOK
      <3>3. CASE head + 1 < QUEUE_SIZE
        BY <1>1, <2>1, <2>2, <2>3, <2>4, <3>1, <3>2, <3>3
      <3>4. CASE ~(head + 1 < QUEUE_SIZE)
        BY <1>1, <2>1, <2>2, <2>3, <2>4, <3>1, <3>2, <3>4
      <3>5. QED
        BY <3>3, <3>4
    <2>6. QED
      BY <2>1, <2>3, <2>5
  <1>3. Contents' = [k \in 1 .. count - 1 |-> data[(After(head) + k - 1) % QUEUE_SIZE]]
    BY <1>1 DEF Contents, Slot
  <1>4. Tail(Contents) = [k \in 1 .. count - 1 |-> Contents[k + 1]]
    <2>1. Contents # <<>>
      BY ContentsHead DEF Dequeue
    <2>2. QED
      BY <2>1, ContentsSeq, TailElements
  <1>5. ASSUME NEW k \in 1 .. count - 1
        PROVE  data[(After(head) + k - 1) % QUEUE_SIZE] = Contents[k + 1]
    BY <1>1, <1>2, ContentsSeq
  <1>6. QED
    BY <1>3, <1>4, <1>5

LEMMA InitRefines == Init => Fifo!Init
  <1> SUFFICES ASSUME Init PROVE Fifo!Init
    OBVIOUS
  <1>1. TypeOK
    BY InitRingInv DEF RingInv
  <1>2. Contents = <<>>
    BY <1>1, ContentsSeq DEF Init
  <1>3. QED
    BY <1>2 DEF Init, Fifo!Init, Returned, Fifo!Returned

LEMMA NextRefines == RingInv /\ [Next]_vars => [Fifo!Next]_Fifo!state
  <1> SUFFICES ASSUME RingInv, [Next]_vars
               PROVE  [Fifo!Next]_Fifo!state
    OBVIOUS
  <1>1. /\ Contents \in Seq(Value) /\ Len(Contents) = count
        /\ count \in 0 .. QUEUE_SIZE
    BY ContentsSeq DEF RingInv, TypeOK
  <1>2. UNCHANGED <<data, head, count>> => UNCHANGED Contents
    BY DEF Contents, Slot
  <1>3. ASSUME NEW v \in Value, Enqueue(v) PROVE Fifo!Put(v)
    <2>1. Len(Contents) < QUEUE_SIZE
      BY <1>1, <1>3, QueueAssumption DEF Enqueue, IsFull
    <2>2. QED
      BY <1>3, <2>1, EnqueueAppends
         DEF Enqueue, Fifo!Put, Returned, Fifo!Returned
  <1>4. CASE EnqueueFull
    BY <1>1, <1>2, <1>4
       DEF EnqueueFull, IsFull, Fifo!RefusePut, Fifo!Next, Refused, Fifo!Refused
  <1>5. CASE Dequeue
    <2>1. TypeOK /\ ~IsEmpty
      BY <1>5 DEF RingInv, Dequeue
    <2>2. Contents # <<>> /\ Head(Contents) = data[head]
      BY <2>1, ContentsHead
    <2>3. QED
      BY <1>5, <2>2, DequeueTail
         DEF Dequeue, Fifo!Get, Fifo!Next, Returned, Fifo!Returned
  <1>6. CASE Peek
    <2>1. TypeOK /\ ~IsEmpty
      BY <1>6 DEF RingInv, Peek
    <2>2. Contents # <<>> /\ Head(Contents) = data[head]
      BY <2>1, ContentsHead
    <2>3. QED
      BY <1>2, <1>6, <2>2
         DEF Peek, Fifo!Peek, Fifo!Next, Returned, Fifo!Returned
  <1>7. ASSUME NEW op \in {"get", "peek"}, TakeEmpty(op)
        PROVE  Fifo!RefuseTake(op)
    <2>1. Contents = <<>>
      BY <1>1, <1>7 DEF TakeEmpty, IsEmpty
    <2>2. QED
      BY <1>2, <1>7, <2>1
         DEF TakeEmpty, Fifo!RefuseTake, Refused, Fifo!Refused
  <1>8. CASE UNCHANGED vars
    BY <1>2, <1>8 DEF vars, Fifo!state
  <1>9. QED
    BY <1>3, <1>4, <1>5, <1>6, <1>7, <1>8 DEF Next, Fifo!Next

\* For every QUEUE_SIZE, the array with its two indices and counter is a bounded
\* FIFO: each queue_enqueue, queue_dequeue and queue_peek returns what the FIFO's
\* call returns and leaves what it leaves.
THEOREM QueueImplementsFifo == Spec => ImplementsFifo
  BY InitRefines, NextRefines, InitRingInv, NextRingInv, PTL
     DEF Spec, ImplementsFifo, Fifo!Spec
------------------------------------------------------------------------------
(* The stack of module4 ex01 for every STACK_SIZE and every set of items.    *)

LEMMA StackInitTyped == stack_init => StackTypeOK
  <1> SUFFICES ASSUME stack_init PROVE StackTypeOK
    OBVIOUS
  <1>1. s \in [data : [0 .. STACK_SIZE - 1 -> Item], top : -1 .. STACK_SIZE - 1]
    BY StackAssumption DEF stack_init
  <1>2. ret.item = NoItem
    BY DEF stack_init, Answer
  <1>3. QED
    BY <1>1, <1>2 DEF StackTypeOK

LEMMA StackNextTyped == StackTypeOK /\ [StackNext]_stackVars => StackTypeOK'
  <1> SUFFICES ASSUME StackTypeOK, [StackNext]_stackVars PROVE StackTypeOK'
    OBVIOUS
  <1>1. ASSUME NEW x \in Item, stack_push(x) PROVE StackTypeOK'
    <2>1. CASE stack_is_full
      BY <1>1, <2>1 DEF StackTypeOK, stack_push, Answer
    <2>2. CASE ~stack_is_full
      <3>1. /\ s.data \in [0 .. STACK_SIZE - 1 -> Item]
            /\ s.top \in -1 .. STACK_SIZE - 1 /\ s.top # STACK_SIZE - 1
        BY <2>2 DEF StackTypeOK, stack_is_full
      <3>2. /\ [s.data EXCEPT ![s.top + 1] = x] \in [0 .. STACK_SIZE - 1 -> Item]
            /\ s.top + 1 \in -1 .. STACK_SIZE - 1
        BY <3>1, StackAssumption
      <3>3. /\ s' = [data |-> [s.data EXCEPT ![s.top + 1] = x], top |-> s.top + 1]
            /\ ret'.item = x
        BY <1>1, <2>2 DEF stack_push, Answer
      <3>4. QED
        BY <3>2, <3>3 DEF StackTypeOK
    <2>3. QED
      BY <2>1, <2>2
  <1>2. CASE stack_pop
    <2>1. CASE stack_is_empty
      BY <1>2, <2>1 DEF StackTypeOK, stack_pop, Answer
    <2>2. CASE ~stack_is_empty
      <3>1. /\ s.data \in [0 .. STACK_SIZE - 1 -> Item]
            /\ s.top \in 0 .. STACK_SIZE - 1
        BY <2>2, StackAssumption DEF StackTypeOK, stack_is_empty
      <3>2. s' = [s EXCEPT !.top = @ - 1] /\ ret'.item = s.data[s.top]
        BY <1>2, <2>2 DEF stack_pop, Answer
      <3>3. s.top - 1 \in -1 .. STACK_SIZE - 1 /\ s.data[s.top] \in Item
        BY <3>1, StackAssumption
      <3>4. QED
        BY <3>2, <3>3 DEF StackTypeOK
    <2>3. QED
      BY <2>1, <2>2
  <1>3. CASE stack_peek
    <2>1. CASE stack_is_empty
      BY <1>3, <2>1 DEF StackTypeOK, stack_peek, Answer
    <2>2. CASE ~stack_is_empty
      <3>1. /\ s.data \in [0 .. STACK_SIZE - 1 -> Item]
            /\ s.top \in 0 .. STACK_SIZE - 1
        BY <2>2, StackAssumption DEF StackTypeOK, stack_is_empty
      <3>2. s' = s /\ ret'.item = s.data[s.top] /\ s.data[s.top] \in Item
        BY <1>3, <2>2, <3>1 DEF stack_peek, Answer
      <3>3. QED
        BY <3>2 DEF StackTypeOK
    <2>3. QED
      BY <2>1, <2>2
  <1>4. CASE UNCHANGED stackVars
    BY <1>4 DEF stackVars, StackTypeOK
  <1>5. QED
    BY <1>1, <1>2, <1>3, <1>4 DEF StackNext

LEMMA StackItemsSeq ==
    ASSUME StackTypeOK
    PROVE  /\ s.top + 1 \in Nat /\ s.top + 1 <= STACK_SIZE
           /\ StackItems \in Seq(Item) /\ Len(StackItems) = s.top + 1
           /\ \A k \in 1 .. s.top + 1 : StackItems[k] = s.data[k - 1]
  <1>1. /\ s.data \in [0 .. STACK_SIZE - 1 -> Item]
        /\ s.top \in -1 .. STACK_SIZE - 1
    BY DEF StackTypeOK
  <1>2. s.top + 1 \in Nat /\ s.top + 1 <= STACK_SIZE
    BY <1>1, StackAssumption
  <1>3. \A k \in 1 .. s.top + 1 : s.data[k - 1] \in Item
    BY <1>1, StackAssumption
  <1>4. StackItems \in Seq(Item)
    BY <1>2, <1>3, IsASeq DEF StackItems
  <1>5. QED
    BY <1>2, <1>4 DEF StackItems

\* The part of a sequence before its last element, element by element.
LEMMA FrontElements ==
    ASSUME NEW S, NEW q \in Seq(S), q # <<>>
    PROVE  SubSeq(q, 1, Len(q) - 1) = [k \in 1 .. Len(q) - 1 |-> q[k]]
  <1> DEFINE t == [k \in 1 .. Len(q) - 1 |-> q[k]]
  <1>1. Len(q) \in Nat \ {0} /\ \A k \in 1 .. Len(q) : q[k] \in S
    BY LenProperties, ElementOfSeq, EmptySeq
  <1>2. Len(q) - 1 \in Nat /\ \A k \in 1 .. Len(q) - 1 : q[k] \in S
    BY <1>1
  <1>3. t \in Seq(S)
    BY <1>2, IsASeq
  <1>4. Len(t) = Len(q) - 1
    BY <1>2, <1>3
  <1>5. /\ SubSeq(q, 1, Len(q) - 1) \in Seq(S)
        /\ Len(SubSeq(q, 1, Len(q) - 1)) = Len(q) - 1
        /\ \A k \in 1 .. Len(q) - 1 : SubSeq(q, 1, Len(q) - 1)[k] = q[k]
    BY <1>1
  <1> HIDE DEF t
  <1>6. \A k \in 1 .. Len(q) - 1 : t[k] = q[k]
    BY DEF t
  <1>7. QED
    BY <1>3, <1>4, <1>5, <1>6, SeqEqual DEF t

LEMMA PushRefines ==
    ASSUME StackTypeOK, NEW x \in Item, stack_push(x)
    PROVE  Lifo!Push(x)
  <1>1. CASE stack_is_full
    <2>1. ~(Len(StackItems) < STACK_SIZE)
      BY <1>1, StackItemsSeq, StackAssumption DEF stack_is_full
    <2>2. UNCHANGED StackItems
      BY <1>1 DEF stack_push, StackItems
    <2>3. QED
      BY <1>1, <2>1, <2>2 DEF stack_push, Lifo!Push, Answer, Lifo!Answer
  <1>2. CASE ~stack_is_full
    <2>1. /\ s.data \in [0 .. STACK_SIZE - 1 -> Item]
          /\ s.top \in -1 .. STACK_SIZE - 1 /\ s.top # STACK_SIZE - 1
      BY <1>2 DEF StackTypeOK, stack_is_full
    <2>2. Len(StackItems) < STACK_SIZE
      BY <2>1, StackItemsSeq, StackAssumption
    <2>3. /\ s' = [data |-> [s.data EXCEPT ![s.top + 1] = x], top |-> s.top + 1]
          /\ ret' = Answer("push", TRUE, x)
      BY <1>2 DEF stack_push
    <2>4. s'.data = [s.data EXCEPT ![s.top + 1] = x] /\ s'.top = s.top + 1
      BY <2>3
    <2>5. StackItems' = [k \in 1 .. (s.top + 1) + 1 |-> s'.data[k - 1]]
      BY <2>4 DEF StackItems
    <2>6. Append(StackItems, x)
            = [k \in 1 .. (s.top + 1) + 1 |->
                  IF k = (s.top + 1) + 1 THEN x ELSE StackItems[k]]
      BY StackItemsSeq, AppendElements
    <2>7. ASSUME NEW k \in 1 .. (s.top + 1) + 1
          PROVE  s'.data[k - 1] = IF k = (s.top + 1) + 1 THEN x ELSE StackItems[k]
      <3>1. CASE k = (s.top + 1) + 1
        <4>1. k - 1 = s.top + 1
          BY <2>1, <3>1, StackAssumption
        <4>2. s.top + 1 \in 0 .. STACK_SIZE - 1
          BY <2>1, StackAssumption
        <4>3. QED
          BY <2>1, <2>4, <3>1, <4>1, <4>2
      <3>2. CASE k # (s.top + 1) + 1
        <4>1. k \in 1 .. s.top + 1 /\ k - 1 # s.top + 1 /\ k - 1 \in 0 .. STACK_SIZE - 1
          BY <2>1, <3>2, StackAssumption
        <4>2. QED
          BY <2>1, <2>4, <3>2, <4>1, StackItemsSeq
      <3>3. QED
        BY <3>1, <3>2
    <2>8. StackItems' = Append(StackItems, x)
      BY <2>5, <2>6, <2>7
    <2>9. QED
      BY <2>2, <2>3, <2>8 DEF Lifo!Push, Answer, Lifo!Answer
  <1>3. QED
    BY <1>1, <1>2

\* The top of the abstract stack is where s.top points.
LEMMA TopIsLast ==
    ASSUME StackTypeOK, ~stack_is_empty
    PROVE  StackItems # <<>> /\ Lifo!Top = s.data[s.top]
  <1>1. s.top \in 0 .. STACK_SIZE - 1
    BY StackAssumption DEF StackTypeOK, stack_is_empty
  <1>2. Len(StackItems) = s.top + 1 /\ s.top + 1 \in 1 .. s.top + 1 /\ (s.top + 1) - 1 = s.top
    BY <1>1, StackItemsSeq, StackAssumption
  <1>3. StackItems[s.top + 1] = s.data[s.top]
    BY <1>2, StackItemsSeq
  <1>4. Len(StackItems) # 0
    BY <1>1, <1>2, StackAssumption
  <1>5. StackItems # <<>>
    BY <1>4
  <1>6. QED
    BY <1>2, <1>3, <1>5 DEF Lifo!Top

LEMMA EmptyIsEmpty ==
    ASSUME StackTypeOK, stack_is_empty
    PROVE  StackItems = <<>>
  <1>1. s.top = -1
    BY DEF stack_is_empty
  <1>2. Len(StackItems) = 0
    BY <1>1, StackItemsSeq
  <1>3. QED
    BY <1>2, StackItemsSeq, EmptySeq

LEMMA PopRefines ==
    ASSUME StackTypeOK, stack_pop
    PROVE  Lifo!Pop
  <1>1. CASE stack_is_empty
    <2>1. UNCHANGED StackItems
      BY <1>1 DEF stack_pop, StackItems
    <2>2. QED
      BY <1>1, <2>1, EmptyIsEmpty DEF stack_pop, Lifo!Pop, Answer, Lifo!Answer
  <1>2. CASE ~stack_is_empty
    <2>1. /\ s.data \in [0 .. STACK_SIZE - 1 -> Item]
          /\ s.top \in 0 .. STACK_SIZE - 1
          /\ s = [data |-> s.data, top |-> s.top]
      BY <1>2, StackAssumption DEF StackTypeOK, stack_is_empty
    <2>2. /\ s' = [s EXCEPT !.top = @ - 1]
          /\ ret' = Answer("pop", TRUE, s.data[s.top])
      BY <1>2 DEF stack_pop
    <2>3. s'.data = s.data /\ s'.top = s.top - 1
      BY <2>1, <2>2
    <2>4. /\ (s.top - 1) + 1 = s.top /\ (s.top + 1) - 1 = s.top
      BY <2>1, StackAssumption
    <2>5. StackItems' = [k \in 1 .. s.top |-> s.data[k - 1]]
      BY <2>3, <2>4 DEF StackItems
    <2>6. SubSeq(StackItems, 1, Len(StackItems) - 1)
            = [k \in 1 .. s.top |-> StackItems[k]]
      BY <1>2, <2>4, TopIsLast, StackItemsSeq, FrontElements
    <2>7. \A k \in 1 .. s.top : StackItems[k] = s.data[k - 1]
      <3>1. \A k \in 1 .. s.top : k \in 1 .. s.top + 1
        BY <2>1, StackAssumption
      <3>2. QED
        BY <3>1, StackItemsSeq
    <2>8. StackItems' = SubSeq(StackItems, 1, Len(StackItems) - 1)
      BY <2>5, <2>6, <2>7
    <2>9. QED
      BY <1>2, <2>2, <2>8, TopIsLast DEF Lifo!Pop, Answer, Lifo!Answer
  <1>3. QED
    BY <1>1, <1>2

LEMMA PeekRefines ==
    ASSUME StackTypeOK, stack_peek
    PROVE  Lifo!Peek
  <1>1. UNCHANGED StackItems
    BY DEF stack_peek, StackItems
  <1>2. CASE stack_is_empty
    BY <1>1, <1>2, EmptyIsEmpty DEF stack_peek, Lifo!Peek, Answer, Lifo!Answer
  <1>3. CASE ~stack_is_empty
    BY <1>1, <1>3, TopIsLast DEF stack_peek, Lifo!Peek, Answer, Lifo!Answer
  <1>4. QED
    BY <1>2, <1>3

\* For every STACK_SIZE, top stays inside the array or just before it.
THEOREM StackInBounds == StackSpec => []StackTypeOK
  BY StackInitTyped, StackNextTyped, PTL DEF StackSpec

\* For every STACK_SIZE the array and its top are a bounded stack: stack_push,
\* stack_pop and stack_peek return what its calls return, although popped items
\* stay in data[] above top.
THEOREM StackImplementsLifo == StackSpec => ImplementsLifo
  <1>1. stack_init => Lifo!Init
    <2> SUFFICES ASSUME stack_init PROVE Lifo!Init
      OBVIOUS
    <2>1. stack_is_empty
      BY DEF stack_init, stack_is_empty
    <2>2. StackItems = <<>>
      BY <2>1, StackInitTyped, EmptyIsEmpty
    <2>3. QED
      BY <2>2 DEF stack_init, Lifo!Init, Answer, Lifo!Answer
  <1>2. StackTypeOK /\ [StackNext]_stackVars => [Lifo!Next]_Lifo!state
    <2> SUFFICES ASSUME StackTypeOK, [StackNext]_stackVars
                 PROVE  [Lifo!Next]_Lifo!state
      OBVIOUS
    <2>1. CASE UNCHANGED stackVars
      BY <2>1 DEF stackVars, StackItems, Lifo!state
    <2>2. QED
      BY <2>1, PushRefines, PopRefines, PeekRefines DEF StackNext, Lifo!Next
  <1>3. QED
    BY <1>1, <1>2, StackInitTyped, StackNextTyped, PTL
       DEF StackSpec, ImplementsLifo, Lifo!Spec
------------------------------------------------------------------------------
(* The sensor state machine of module3 ex06, for every width of its counter. *)

\* The conjuncts hold each other up: an event is recorded in `cycle` only in the
\* state the table allows it in, and that state fixes how long the cycle is.
SmInv == SensorConsistent /\ errors \in Nat

\* The rows of the table by event, as the engine reads them.
LEMMA SmRows ==
    ASSUME NEW st \in SmState
    PROVE  /\ SmTable[st]["ERROR"] = Entry("ERROR", "handle_error")
           /\ SmTable[st]["RESET"] = Entry("IDLE", "reset")
           /\ SmTable[st]["START"] = IF st = "IDLE" THEN Entry("SENSING", "start_sensing")
                                                    ELSE Entry(st, "ignore")
           /\ SmTable[st]["DATA_READY"] =
                 IF st = "SENSING" THEN Entry("PROCESSING", "process_data")
                                   ELSE Entry(st, "ignore")
           /\ SmTable[st]["PROCESS_DONE"] =
                 IF st = "PROCESSING" THEN Entry("IDLE", "complete")
                                      ELSE Entry(st, "ignore")
  <1>1. SmTable[st]["ERROR"] = Entry("ERROR", "handle_error")
    BY DEF SmTable, SmEvent
  <1>2. SmTable[st]["RESET"] = Entry("IDLE", "reset")
    BY DEF SmTable, SmEvent
  <1>3. SmTable[st]["START"] = IF st = "IDLE" THEN Entry("SENSING", "start_sensing")
                                              ELSE Entry(st, "ignore")
    BY DEF SmTable, SmEvent, Starts
  <1>4. SmTable[st]["DATA_READY"] =
           IF st = "SENSING" THEN Entry("PROCESSING", "process_data")
                             ELSE Entry(st, "ignore")
    BY DEF SmTable, SmEvent
  <1>5. SmTable[st]["PROCESS_DONE"] =
           IF st = "PROCESSING" THEN Entry("IDLE", "complete")
                                ELSE Entry(st, "ignore")
    BY DEF SmTable, SmEvent
  <1>6. QED
    BY <1>1, <1>2, <1>3, <1>4, <1>5

LEMMA InitSmInv == sm_init => SmInv
  <1> SUFFICES ASSUME sm_init PROVE SmInv
    OBVIOUS
  <1>1. /\ ctx = [current |-> "IDLE", sensor_value |-> 0, error_count |-> 0]
        /\ errors = 0 /\ cycle = <<>>
    BY DEF sm_init
  <1>2. SmTypeOK
    BY <1>1, SensorMachineAssumption DEF SmTypeOK, SmState
  <1>3. ErrorsUntilReset
    <2>1. 0 \in 0 .. COUNT_MOD - 1 /\ 0 \in Int /\ 0 * COUNT_MOD + 0 = 0
      BY SensorMachineAssumption
    <2>2. 0 % COUNT_MOD = 0
      BY <2>1, RemainderUnique, SensorMachineAssumption
    <2>3. QED
      BY <1>1, <2>2 DEF ErrorsUntilReset
  <1>4. ReadingOfThisCycle
    BY <1>1, SensorMachineAssumption DEF ReadingOfThisCycle
  <1>5. QED
    BY <1>1, <1>2, <1>3, <1>4 DEF SmInv, SensorConsistent

\* A sequence that continues another by one element is its extension.
LEMMA Continued ==
    ASSUME NEW S, NEW q \in Seq(S), NEW t \in Seq(S), NEW e \in S,
           Len(t) = Len(q) + 1, t[Len(q) + 1] = e,
           \A k \in 1 .. Len(q) : t[k] = q[k]
    PROVE  q \o <<e>> = t
  <1>1. /\ Append(q, e) \in Seq(S) /\ Len(Append(q, e)) = Len(q) + 1
        /\ Append(q, e)[Len(q) + 1] = e
        /\ \A k \in 1 .. Len(q) : Append(q, e)[k] = q[k]
    BY AppendProperties
  <1>2. Len(q) \in Nat
    BY LenProperties
  <1>3. \A k \in 1 .. Len(t) : Append(q, e)[k] = t[k]
    BY <1>1, <1>2
  <1>4. Append(q, e) = t
    BY <1>1, <1>3, SeqEqual
  <1>5. QED
    BY <1>4, AppendIsConcat

\* What the cycle grows to.
LEMMA CycleGrows ==
    /\ Len(<<>>) = 0 /\ Len(<<"START">>) = 1 /\ Len(<<"START", "DATA_READY">>) = 2
    /\ Len(<<"START", "DATA_READY", "PROCESS_DONE">>) = 3
    /\ <<"START">> \o <<"DATA_READY">> = <<"START", "DATA_READY">>
    /\ <<"START", "DATA_READY">> \o <<"PROCESS_DONE">>
          = <<"START", "DATA_READY", "PROCESS_DONE">>
  <1> DEFINE q == <<"START">>
             t == <<"START", "DATA_READY">>
             u == <<"START", "DATA_READY", "PROCESS_DONE">>
  <1>1. q \in Seq(SmEvent) /\ Len(q) = 1 /\ q[1] = "START"
    BY DEF SmEvent
  <1>2. t \in Seq(SmEvent) /\ Len(t) = 2 /\ t[1] = "START" /\ t[2] = "DATA_READY"
    BY DEF SmEvent
  <1>3. /\ u \in Seq(SmEvent) /\ Len(u) = 3
        /\ u[1] = "START" /\ u[2] = "DATA_READY" /\ u[3] = "PROCESS_DONE"
    BY DEF SmEvent
  <1>4. "DATA_READY" \in SmEvent /\ "PROCESS_DONE" \in SmEvent
    BY DEF SmEvent
  <1> HIDE DEF q, t, u
  <1>5. q \o <<"DATA_READY">> = t
    <2>1. /\ Len(t) = Len(q) + 1 /\ t[Len(q) + 1] = "DATA_READY"
          /\ \A k \in 1 .. Len(q) : t[k] = q[k]
      BY <1>1, <1>2
    <2>2. QED
      BY <1>1, <1>2, <1>4, <2>1, Continued
  <1>6. t \o <<"PROCESS_DONE">> = u
    <2>1. /\ Len(u) = Len(t) + 1 /\ u[Len(t) + 1] = "PROCESS_DONE"
          /\ \A k \in 1 .. Len(t) : u[k] = t[k]
      BY <1>2, <1>3
    <2>2. QED
      BY <1>2, <1>3, <1>4, <2>1, Continued
  <1>7. QED
    BY <1>1, <1>2, <1>3, <1>5, <1>6 DEF q, t, u

\* Each event from what the table says for it.
LEMMA SmEventKeeps ==
    ASSUME SmInv, NEW e \in SmEvent, sm_handle_event(e)
    PROVE  SmInv'
  <1>1. /\ ctx \in [current : SmState, sensor_value : {0, READING},
                    error_count : 0 .. COUNT_MOD - 1]
        /\ ctx.current \in SmState /\ errors \in Nat
        /\ ErrorsUntilReset /\ ReadingOfThisCycle
    BY DEF SmInv, SensorConsistent, SmTypeOK
  <1>2. PICK t : t = SmTable[ctx.current][e]
    OBVIOUS
  <1>3. /\ ctx' = [SmActed(t.action, ctx) EXCEPT !.current = t.next_state]
        /\ errors' = CASE e = "ERROR" -> errors + 1 [] e = "RESET" -> 0 [] OTHER -> errors
        /\ cycle' = CASE e = "RESET"                       -> <<>>
                      [] t.action = "start_sensing"        -> <<e>>
                      [] t.action \in {"process_data", "complete"} -> cycle \o <<e>>
                      [] OTHER                             -> cycle
    BY <1>2 DEF sm_handle_event
  <1>4. /\ COUNT_MOD \in Nat \ {0} /\ READING \in Nat \ {0}
        /\ 0 \in 0 .. COUNT_MOD - 1
    BY SensorMachineAssumption
  <1>5. CASE e = "ERROR"
    <2>1. t = [next_state |-> "ERROR", action |-> "handle_error"]
      BY <1>1, <1>2, <1>5, SmRows DEF Entry
    <2>2. /\ ctx' = [[ctx EXCEPT !.error_count = Counted(@)] EXCEPT !.current = "ERROR"]
          /\ errors' = errors + 1 /\ cycle' = cycle
      BY <1>3, <1>5, <2>1 DEF SmActed
    <2>3. Counted(ctx.error_count) \in 0 .. COUNT_MOD - 1
      BY <1>1, <1>4 DEF Counted
    <2>4. /\ ctx'.current = "ERROR" /\ ctx'.sensor_value = ctx.sensor_value
          /\ ctx'.error_count = Counted(ctx.error_count)
          /\ ctx' \in [current : SmState, sensor_value : {0, READING},
                       error_count : 0 .. COUNT_MOD - 1]
      BY <1>1, <2>2, <2>3 DEF SmState
    <2>5. ErrorsUntilReset'
      <3>1. (errors + 1) % COUNT_MOD = ((errors % COUNT_MOD) + 1) % COUNT_MOD
        BY <1>1, <1>4, RemainderOfNext
      <3>2. ctx'.error_count = errors' % COUNT_MOD
        BY <1>1, <2>2, <2>4, <3>1 DEF Counted, ErrorsUntilReset
      <3>3. errors' > 0
        BY <1>1, <2>2
      <3>4. QED
        BY <2>4, <3>2, <3>3 DEF ErrorsUntilReset
    <2>6. ReadingOfThisCycle'
      BY <1>1, <2>2, <2>4 DEF ReadingOfThisCycle
    <2>7. QED
      BY <1>1, <2>2, <2>4, <2>5, <2>6 DEF SmInv, SensorConsistent, SmTypeOK
  <1>6. CASE e = "RESET"
    <2>1. t = [next_state |-> "IDLE", action |-> "reset"]
      BY <1>1, <1>2, <1>6, SmRows DEF Entry
    <2>2. SmActed("reset", ctx) = [ctx EXCEPT !.sensor_value = 0, !.error_count = 0]
      BY DEF SmActed
    <2>3. /\ ctx' = [[ctx EXCEPT !.sensor_value = 0, !.error_count = 0] EXCEPT !.current = "IDLE"]
          /\ errors' = 0 /\ cycle' = <<>>
      BY <1>3, <1>6, <2>1, <2>2
    <2>4. /\ ctx'.current = "IDLE" /\ ctx'.sensor_value = 0 /\ ctx'.error_count = 0
          /\ ctx' \in [current : SmState, sensor_value : {0, READING},
                       error_count : 0 .. COUNT_MOD - 1]
      BY <1>1, <1>4, <2>3 DEF SmState
    <2>5. ErrorsUntilReset'
      <3>1. 0 \in Int /\ 0 * COUNT_MOD + 0 = 0
        BY <1>4
      <3>2. 0 % COUNT_MOD = 0
        BY <1>4, <3>1, RemainderUnique
      <3>3. QED
        BY <2>3, <2>4, <3>2 DEF ErrorsUntilReset
    <2>6. ReadingOfThisCycle'
      BY <1>4, <2>3, <2>4 DEF ReadingOfThisCycle
    <2>7. QED
      BY <2>3, <2>4, <2>5, <2>6 DEF SmInv, SensorConsistent, SmTypeOK
  <1>7. ASSUME t = Entry(ctx.current, "ignore"), e \notin {"ERROR", "RESET"}
        PROVE  SmInv'
    <2>1. ctx' = [ctx EXCEPT !.current = ctx.current]
      BY <1>3, <1>7 DEF SmActed, Entry
    <2>2. ctx' = ctx /\ errors' = errors /\ cycle' = cycle
      BY <1>1, <1>3, <1>7, <2>1 DEF Entry
    <2>3. QED
      BY <2>2 DEF SmInv, SensorConsistent, SmTypeOK, ErrorsUntilReset, ReadingOfThisCycle
  <1>8. CASE e = "START"
    <2>1. CASE ctx.current = "IDLE"
      <3>1. t = [next_state |-> "SENSING", action |-> "start_sensing"]
        BY <1>1, <1>2, <1>8, <2>1, SmRows DEF Entry
      <3>2. /\ ctx' = [[ctx EXCEPT !.sensor_value = 0] EXCEPT !.current = "SENSING"]
            /\ errors' = errors /\ cycle' = <<"START">>
        BY <1>3, <1>8, <3>1 DEF SmActed, Sensing
      <3>3. /\ ctx'.current = "SENSING" /\ ctx'.sensor_value = 0
            /\ ctx'.error_count = ctx.error_count
            /\ ctx' \in [current : SmState, sensor_value : {0, READING},
                         error_count : 0 .. COUNT_MOD - 1]
        BY <1>1, <3>2 DEF SmState
      <3>4. ErrorsUntilReset'
        BY <1>1, <2>1, <3>2, <3>3 DEF ErrorsUntilReset
      <3>5. Len(<<"START">>) = 1
        OBVIOUS
      <3>6. ReadingOfThisCycle'
        BY <1>4, <3>2, <3>3, <3>5 DEF ReadingOfThisCycle
      <3>7. QED
        BY <1>1, <3>2, <3>3, <3>4, <3>6 DEF SmInv, SensorConsistent, SmTypeOK
    <2>2. CASE ctx.current # "IDLE"
      BY <1>1, <1>2, <1>7, <1>8, <2>2, SmRows
    <2>3. QED
      BY <2>1, <2>2
  <1>9. CASE e = "DATA_READY"
    <2>1. CASE ctx.current = "SENSING"
      <3>1. t = [next_state |-> "PROCESSING", action |-> "process_data"]
        BY <1>1, <1>2, <1>9, <2>1, SmRows DEF Entry
      <3>2. cycle = <<"START">>
        BY <1>1, <2>1 DEF ReadingOfThisCycle
      <3>3. cycle \o <<"DATA_READY">> = <<"START", "DATA_READY">>
        BY <3>2, CycleGrows
      <3>4. /\ ctx' = [[ctx EXCEPT !.sensor_value = READING] EXCEPT !.current = "PROCESSING"]
            /\ errors' = errors /\ cycle' = <<"START", "DATA_READY">>
        BY <1>3, <1>9, <3>1, <3>3 DEF SmActed
      <3>5. /\ ctx'.current = "PROCESSING" /\ ctx'.sensor_value = READING
            /\ ctx'.error_count = ctx.error_count
            /\ ctx' \in [current : SmState, sensor_value : {0, READING},
                         error_count : 0 .. COUNT_MOD - 1]
        BY <1>1, <3>4 DEF SmState
      <3>6. ErrorsUntilReset'
        BY <1>1, <2>1, <3>4, <3>5 DEF ErrorsUntilReset
      <3>7. Len(<<"START", "DATA_READY">>) = 2
        OBVIOUS
      <3>8. ReadingOfThisCycle'
        BY <1>4, <3>4, <3>5, <3>7 DEF ReadingOfThisCycle
      <3>9. QED
        BY <1>1, <3>4, <3>5, <3>6, <3>8 DEF SmInv, SensorConsistent, SmTypeOK
    <2>2. CASE ctx.current # "SENSING"
      BY <1>1, <1>2, <1>7, <1>9, <2>2, SmRows
    <2>3. QED
      BY <2>1, <2>2
  <1>10. CASE e = "PROCESS_DONE"
    <2>1. CASE ctx.current = "PROCESSING"
      <3>1. t = [next_state |-> "IDLE", action |-> "complete"]
        BY <1>1, <1>2, <1>10, <2>1, SmRows DEF Entry
      <3>2. cycle = <<"START", "DATA_READY">>
        BY <1>1, <2>1, CycleGrows DEF ReadingOfThisCycle
      <3>3. cycle \o <<"PROCESS_DONE">> = <<"START", "DATA_READY", "PROCESS_DONE">>
        BY <3>2, CycleGrows
      <3>4. /\ ctx' = [ctx EXCEPT !.current = "IDLE"]
            /\ errors' = errors /\ cycle' = <<"START", "DATA_READY", "PROCESS_DONE">>
        BY <1>3, <1>10, <3>1, <3>3 DEF SmActed
      <3>5. /\ ctx'.current = "IDLE" /\ ctx'.sensor_value = ctx.sensor_value
            /\ ctx'.error_count = ctx.error_count
            /\ ctx' \in [current : SmState, sensor_value : {0, READING},
                         error_count : 0 .. COUNT_MOD - 1]
        BY <1>1, <3>4 DEF SmState
      <3>6. ErrorsUntilReset'
        BY <1>1, <2>1, <3>4, <3>5 DEF ErrorsUntilReset
      <3>7. Len(<<"START", "DATA_READY", "PROCESS_DONE">>) = 3 /\ Len(cycle) = 2
        BY <3>2
      <3>8. ctx.sensor_value = READING
        BY <1>1, <3>7 DEF ReadingOfThisCycle
      <3>9. ReadingOfThisCycle'
        BY <1>4, <3>4, <3>5, <3>7, <3>8 DEF ReadingOfThisCycle
      <3>10. QED
        BY <1>1, <3>4, <3>5, <3>6, <3>9 DEF SmInv, SensorConsistent, SmTypeOK
    <2>2. CASE ctx.current # "PROCESSING"
      BY <1>1, <1>2, <1>7, <1>10, <2>2, SmRows
    <2>3. QED
      BY <2>1, <2>2
  <1>11. QED
    BY <1>5, <1>6, <1>8, <1>9, <1>10 DEF SmEvent

LEMMA NextSmInv == SmInv /\ [SmNext]_smVars => SmInv'
  <1> SUFFICES ASSUME SmInv, [SmNext]_smVars PROVE SmInv'
    OBVIOUS
  <1>1. CASE UNCHANGED smVars
    BY <1>1 DEF smVars, SmInv, SensorConsistent, SmTypeOK, ErrorsUntilReset, ReadingOfThisCycle
  <1>2. QED
    BY <1>1, SmEventKeeps DEF SmNext

\* For every width of error_count and every reading: after any events in any
\* order, ERROR and its count, the state and the reading agree on what happened
\* since the last reset, the count also after it has wrapped.
THEOREM MachineConsistent == SmSpec => []SensorConsistent
  BY InitSmInv, NextSmInv, PTL DEF SmSpec, SmInv
------------------------------------------------------------------------------
(* The simulated UART of module3 ex03, for any set of bytes to send.         *)

\* What |= and &= still have to write: of periph_send's two, of main's one.
EditLists == {<<>>, <<SetBit(BUSY), ClearBit(BUSY)>>, <<ClearBit(BUSY)>>,
              <<SetBit(ERROR)>>, <<ClearBit(ERROR)>>}

\* ErrorFlagKept is not inductive: a store brings back the word that was loaded,
\* so a reported error must be in that word already.
LoadedShowsError == loaded # NoWord => edits # <<>> /\ (reported => ERROR \in loaded)

PeriphInv == /\ PeriphTypeOK /\ ErrorFlagKept /\ LoadedShowsError
             /\ edits \in EditLists

LEMMA EditedBits ==
    ASSUME NEW w, NEW bit
    PROVE  /\ Edited(w, SetBit(bit)) = w \cup {bit}
           /\ Edited(w, ClearBit(bit)) = w \ {bit}
  BY DEF Edited, SetBit, ClearBit

LEMMA HeadAndTail ==
    ASSUME NEW q \in EditLists, q # <<>>
    PROVE  /\ Tail(q) \in EditLists
           /\ \/ Head(q) = SetBit(BUSY)  \/ Head(q) = ClearBit(BUSY)
              \/ Head(q) = SetBit(ERROR) \/ Head(q) = ClearBit(ERROR)
  <1>1. CASE q = <<SetBit(BUSY), ClearBit(BUSY)>>
    <2>1. Head(q) = SetBit(BUSY) /\ Tail(q) = <<ClearBit(BUSY)>>
      BY <1>1
    <2>2. QED
      BY <2>1 DEF EditLists
  <1>2. CASE q = <<ClearBit(BUSY)>>
    <2>1. Head(q) = ClearBit(BUSY) /\ Tail(q) = <<>>
      BY <1>2
    <2>2. QED
      BY <2>1 DEF EditLists
  <1>3. CASE q = <<SetBit(ERROR)>>
    <2>1. Head(q) = SetBit(ERROR) /\ Tail(q) = <<>>
      BY <1>3
    <2>2. QED
      BY <2>1 DEF EditLists
  <1>4. CASE q = <<ClearBit(ERROR)>>
    <2>1. Head(q) = ClearBit(ERROR) /\ Tail(q) = <<>>
      BY <1>4
    <2>2. QED
      BY <2>1 DEF EditLists
  <1>5. QED
    BY <1>1, <1>2, <1>3, <1>4 DEF EditLists

LEMMA InitPeriphInv == PeriphInit => PeriphInv
  <1> SUFFICES ASSUME PeriphInit PROVE PeriphInv
    OBVIOUS
  <1>1. PeriphTypeOK
    <2>1. {TXREADY} \in SUBSET SrBits /\ {} \in SUBSET {0, 1, 2} /\ FALSE \in BOOLEAN
      BY DEF SrBits
    <2>2. /\ cr = {} /\ sr = {TXREADY} /\ dr = 0
          /\ sending = NoByte /\ loaded = NoWord /\ reported = FALSE
      BY DEF PeriphInit
    <2>3. QED
      BY <2>1, <2>2 DEF PeriphTypeOK
  <1>2. ErrorFlagKept /\ LoadedShowsError /\ edits \in EditLists
    BY DEF PeriphInit, ErrorFlagKept, LoadedShowsError, EditLists
  <1>3. QED
    BY <1>1, <1>2 DEF PeriphInv

\* The store of a loaded word.
LEMMA StoreKeepsError ==
    ASSUME PeriphInv, EditStore
    PROVE  PeriphInv'
  <1>1. loaded # NoWord
    BY DEF EditStore
  <1>2. loaded \in SUBSET SrBits
    <2>1. loaded \in (SUBSET SrBits) \cup {NoWord}
      BY DEF PeriphInv, PeriphTypeOK
    <2>2. QED
      BY <1>1, <2>1
  <1>3. /\ loaded \in SUBSET SrBits /\ edits # <<>>
        /\ edits \in EditLists /\ (reported => ERROR \in loaded)
    BY <1>1, <1>2 DEF PeriphInv, LoadedShowsError
  <1>4. /\ sr' = Edited(loaded, Head(edits))
        /\ reported' = (reported /\ Head(edits) # ClearBit(ERROR))
        /\ edits' = Tail(edits) /\ loaded' = NoWord
        /\ UNCHANGED <<cr, dr, sending>>
    BY DEF EditStore
  <1>5. \/ Head(edits) = SetBit(BUSY)  \/ Head(edits) = ClearBit(BUSY)
        \/ Head(edits) = SetBit(ERROR) \/ Head(edits) = ClearBit(ERROR)
    BY <1>3, HeadAndTail
  <1>6. sr' \in SUBSET SrBits
    BY <1>3, <1>4, <1>5, EditedBits DEF SrBits
  <1>7. reported' => ERROR \in sr'
    <2> SUFFICES ASSUME reported' PROVE ERROR \in sr'
      OBVIOUS
    <2>1. ERROR \in loaded /\ Head(edits) # ClearBit(ERROR)
      BY <1>3, <1>4
    <2>2. sr' = loaded \cup {BUSY} \/ sr' = loaded \ {BUSY} \/ sr' = loaded \cup {ERROR}
      BY <1>4, <1>5, <2>1, EditedBits
    <2>3. QED
      BY <2>1, <2>2 DEF BUSY, ERROR
  <1>8. edits' \in EditLists
    BY <1>3, <1>4, HeadAndTail
  <1>9. PeriphTypeOK'
    <2>1. reported' \in BOOLEAN
      BY <1>4
    <2>2. /\ cr \in SUBSET {0, 1, 2} /\ dr \in DataByte \cup {0}
          /\ sending \in DataByte \cup {NoByte}
      BY DEF PeriphInv, PeriphTypeOK
    <2>3. loaded' \in (SUBSET SrBits) \cup {NoWord}
      BY <1>4
    <2>4. QED
      BY <1>4, <1>6, <2>1, <2>2, <2>3 DEF PeriphTypeOK
  <1>10. QED
    BY <1>4, <1>7, <1>8, <1>9 DEF PeriphInv, ErrorFlagKept, LoadedShowsError

LEMMA NextPeriphInv == PeriphInv /\ [PeriphNext]_periphVars => PeriphInv'
  <1> SUFFICES ASSUME PeriphInv, [PeriphNext]_periphVars PROVE PeriphInv'
    OBVIOUS
  <1> USE DEF PeriphInv
  <1>1. CASE periph_init
    BY <1>1 DEF periph_init, PeriphTypeOK, ErrorFlagKept, LoadedShowsError
  <1>2. CASE SendBody
    <2>1. sending \in DataByte
      BY <1>2 DEF SendBody, PeriphTypeOK
    <2>2. edits' \in EditLists /\ edits' # <<>>
      BY <1>2 DEF SendBody, EditLists
    <2>3. QED
      BY <1>2, <2>1, <2>2 DEF SendBody, PeriphTypeOK, ErrorFlagKept, LoadedShowsError
  <1>3. CASE EditLoad
    BY <1>3 DEF EditLoad, PeriphTypeOK, ErrorFlagKept, LoadedShowsError
  <1>4. CASE EditStore
    BY <1>4, StoreKeepsError
  <1>5. CASE SimulateError
    <2>1. edits' \in EditLists /\ loaded = NoWord
      BY <1>5 DEF SimulateError, EditLists, PeriphIdle, LoadedShowsError
    <2>2. QED
      BY <1>5, <2>1 DEF SimulateError, PeriphTypeOK, ErrorFlagKept, LoadedShowsError
  <1>6. CASE CheckError
    <2>1. edits' \in EditLists /\ loaded = NoWord
      BY <1>6 DEF CheckError, EditLists, PeriphIdle, LoadedShowsError
    <2>2. QED
      BY <1>6, <2>1 DEF CheckError, PeriphTypeOK, ErrorFlagKept, LoadedShowsError
  <1>7. ASSUME NEW byte \in DataByte, periph_send(byte) PROVE PeriphInv'
    BY <1>7 DEF periph_send, PeriphTypeOK, ErrorFlagKept, LoadedShowsError
  <1>8. CASE RaiseError
    <2>1. sr' \in SUBSET SrBits /\ ERROR \in sr'
      BY <1>8 DEF RaiseError, PeriphTypeOK, SrBits
    <2>2. reported' \in BOOLEAN
      BY <1>8 DEF RaiseError
    <2>3. PeriphTypeOK'
      BY <1>8, <2>1, <2>2 DEF RaiseError, PeriphTypeOK
    <2>4. loaded # NoWord => (reported' => reported)
      BY <1>8 DEF RaiseError
    <2>5. QED
      BY <1>8, <2>1, <2>3, <2>4 DEF RaiseError, ErrorFlagKept, LoadedShowsError
  <1>9. CASE UNCHANGED periphVars
    BY <1>9 DEF periphVars, PeriphTypeOK, ErrorFlagKept, LoadedShowsError
  <1>10. QED
    BY <1>1, <1>2, <1>3, <1>4, <1>5, <1>6, <1>7, <1>8, <1>9 DEF PeriphNext, PeriphCode

\* For every set of bytes: the hardware may raise its error at any moment, and
\* the flag it sets outside a load and store is still in SR when main looks.
THEOREM ErrorStaysSet == PeriphSpec => [](PeriphTypeOK /\ ErrorFlagKept)
  BY InitPeriphInv, NextPeriphInv, PTL DEF PeriphSpec, PeriphInv
------------------------------------------------------------------------------
(* The two calculations. An INT_MAX that holds a full-scale voltage in fixed *)
(* point is what the pipeline needs; that of an int32_t does.                *)

WideInt == VREF_MV * FIXED_SCALE * FIXED_SCALE <= INT_MAX

\* What the pipeline has computed so far, from what.
Computed == /\ voltage # NotYet => /\ adc_raw # NotYet
                                   /\ voltage = adc_to_voltage_mv(adc_raw)
            /\ temp # NotYet => /\ voltage # NotYet
                                /\ temp = voltage_to_temp(voltage)

ArithmeticInv == ArithmeticExact /\ Computed

\* A reading of the ADC is at most VREF_MV, rounded down.
LEMMA VoltageInRange ==
    ASSUME NEW raw \in 0 .. ADC_MAX
    PROVE  \E mv \in Nat : /\ mv = adc_to_voltage_mv(raw) /\ mv <= 3300
                          /\ mv * 4095 <= raw * 3300
                          /\ raw * 3300 <= mv * 4095 + 4094
  BY SMT DEF adc_to_voltage_mv, VREF_MV, ADC_MAX

LEMMA TempInRange ==
    ASSUME NEW mv \in Nat, mv <= 3300
    PROVE  \E t \in Nat : /\ t = voltage_to_temp(mv) /\ t <= 84480
                         /\ t * 2560 <= mv * 65536
                         /\ mv * 65536 <= t * 2560 + 2559
  <1>1. voltage_to_temp(mv) = (mv * 256 * 256) \div (10 * 256)
    BY SMT DEF voltage_to_temp, FIXED_DIV, INT_TO_FIXED, FIXED_SCALE
  <1>2. PICK x \in Nat : x = mv * 65536
    BY SMT
  <1>3. mv * 256 * 256 = x /\ 10 * 256 = 2560 /\ x <= 216268800
    BY <1>2, SMT
  <1>4. PICK t \in Nat : t = x \div 2560
    BY SMT
  <1>5. t * 2560 <= x /\ x <= t * 2560 + 2559 /\ t <= 84480
    BY <1>3, <1>4, SMT
  <1>6. t = voltage_to_temp(mv)
    BY <1>1, <1>3, <1>4, SMT
  <1>7. QED
    BY <1>2, <1>5, <1>6, SMT

LEMMA TopTemp == (VREF_MV * FIXED_SCALE) \div 10 = 84480
  BY SMT DEF VREF_MV, FIXED_SCALE

\* Both roundings together: less than 27 units are lost.
LEMMA RoundingsLose ==
    ASSUME NEW raw \in Nat, NEW mv \in Nat, NEW t \in Nat,
           mv * 4095 <= raw * 3300, raw * 3300 <= mv * 4095 + 4094,
           t * 2560 <= mv * 65536, mv * 65536 <= t * 2560 + 2559
    PROVE  t * 273 <= raw * 5632 /\ raw * 5632 < (t + 27) * 273
  BY SMT

LEMMA ProductsFit ==
    ASSUME WideInt, NEW raw \in 0 .. ADC_MAX, NEW mv \in 0 .. VREF_MV
    PROVE  /\ Fits(raw, VREF_MV) /\ Fits(mv, FIXED_SCALE)
           /\ Fits(INT_TO_FIXED(mv), FIXED_SCALE)
  <1>1. INT_MAX \in Nat /\ 216268800 <= INT_MAX
    BY ArithmeticAssumption, SMT DEF WideInt, VREF_MV, FIXED_SCALE
  <1>2. Fits(raw, VREF_MV)
    BY <1>1, SMT DEF Fits, VREF_MV, ADC_MAX
  <1>3. Fits(mv, FIXED_SCALE)
    BY <1>1, SMT DEF Fits, FIXED_SCALE, VREF_MV
  <1>4. Fits(INT_TO_FIXED(mv), FIXED_SCALE)
    BY <1>1, SMT DEF Fits, INT_TO_FIXED, FIXED_SCALE, VREF_MV
  <1>5. QED
    BY <1>2, <1>3, <1>4

LEMMA InitArithmeticInv == ArithmeticInit => ArithmeticInv
  <1> SUFFICES ASSUME ArithmeticInit PROVE ArithmeticInv
    OBVIOUS
  <1>1. /\ adc_raw \in NotYet .. ADC_MAX /\ voltage = NotYet /\ temp = NotYet
        /\ usage.pct = <<0, 1>>
    BY DEF ArithmeticInit
  <1>2. ArithmeticTypeOK
    BY <1>1, TopTemp, SMT DEF ArithmeticTypeOK, NotYet, VREF_MV
  <1>3. NoOverflow /\ TemperatureAccurate /\ Computed
    BY <1>1 DEF NoOverflow, TemperatureAccurate, Computed
  <1>4. UsageIsShare
    BY <1>1 DEF UsageIsShare
  <1>5. QED
    BY <1>2, <1>3, <1>4 DEF ArithmeticInv, ArithmeticExact

LEMMA MeasureExact ==
    ASSUME WideInt, ArithmeticInv, Measure
    PROVE  ArithmeticInv'
  <1>1. /\ adc_raw # NotYet /\ voltage = NotYet
        /\ voltage' = adc_to_voltage_mv(adc_raw)
        /\ UNCHANGED <<adc_raw, temp, usage>>
    BY DEF Measure
  <1>2. adc_raw \in 0 .. ADC_MAX
    BY <1>1, SMT DEF ArithmeticInv, ArithmeticExact, ArithmeticTypeOK, NotYet, ADC_MAX
  <1>3. PICK mv \in Nat : mv = adc_to_voltage_mv(adc_raw) /\ mv <= 3300
    BY <1>2, VoltageInRange
  <1>4. voltage' = mv
    BY <1>1, <1>3, Zenon
  <1>5. mv \in Nat /\ mv <= 3300
    BY <1>3, SMT
  <1>6. mv \in 0 .. VREF_MV /\ mv \in NotYet .. VREF_MV
    BY <1>5, SMT DEF NotYet, VREF_MV
  <1>7. temp = NotYet
    BY <1>1 DEF ArithmeticInv, Computed
  <1>8. ArithmeticTypeOK'
    <2>1. voltage' \in NotYet .. VREF_MV
      BY <1>4, <1>6, Zenon
    <2>2. QED
      BY <1>1, <2>1, Zenon DEF ArithmeticInv, ArithmeticExact, ArithmeticTypeOK
  <1>9. NoOverflow'
    <2>1. /\ Fits(adc_raw, VREF_MV) /\ Fits(mv, FIXED_SCALE)
          /\ Fits(INT_TO_FIXED(mv), FIXED_SCALE)
      BY <1>2, <1>6, ProductsFit
    <2>2. QED
      BY <1>1, <1>4, <2>1, Zenon DEF NoOverflow
  <1>10. TemperatureAccurate' /\ Computed'
    BY <1>1, <1>7, Zenon DEF TemperatureAccurate, Computed
  <1>11. UsageIsShare'
    BY <1>1, Zenon DEF ArithmeticInv, ArithmeticExact, UsageIsShare
  <1>12. QED
    BY <1>8, <1>9, <1>10, <1>11 DEF ArithmeticInv, ArithmeticExact

LEMMA ConvertExact ==
    ASSUME ArithmeticInv, Convert
    PROVE  ArithmeticInv'
  <1>1. /\ voltage # NotYet /\ temp' = voltage_to_temp(voltage)
        /\ UNCHANGED <<adc_raw, voltage, usage>>
    BY DEF Convert
  <1>2. /\ adc_raw # NotYet /\ voltage = adc_to_voltage_mv(adc_raw)
    BY <1>1 DEF ArithmeticInv, Computed
  <1>3. adc_raw \in 0 .. ADC_MAX /\ adc_raw \in Nat
    <2>1. adc_raw \in NotYet .. ADC_MAX /\ adc_raw # NotYet
      BY <1>2, Zenon DEF ArithmeticInv, ArithmeticExact, ArithmeticTypeOK
    <2>2. QED
      BY <2>1, SMT DEF NotYet, ADC_MAX
  <1>4. PICK mv \in Nat : /\ mv = adc_to_voltage_mv(adc_raw) /\ mv <= 3300
                          /\ mv * 4095 <= adc_raw * 3300
                          /\ adc_raw * 3300 <= mv * 4095 + 4094
    BY <1>3, VoltageInRange, SMT
  <1>5. PICK t \in Nat : /\ t = voltage_to_temp(mv) /\ t <= 84480
                         /\ t * 2560 <= mv * 65536
                         /\ mv * 65536 <= t * 2560 + 2559
    BY <1>4, TempInRange, SMT
  <1>6. voltage = mv
    BY <1>2, <1>4, SMT
  <1>7. temp' = t
    BY <1>1, <1>5, <1>6, SMT
  <1>8. ArithmeticTypeOK'
    <2>1. t \in NotYet .. (VREF_MV * FIXED_SCALE) \div 10
      BY <1>5, TopTemp, SMT DEF NotYet
    <2>2. temp' \in NotYet .. (VREF_MV * FIXED_SCALE) \div 10
      BY <1>7, <2>1, Zenon
    <2>3. QED
      BY <1>1, <2>2, Zenon DEF ArithmeticInv, ArithmeticExact, ArithmeticTypeOK
  <1>9. TemperatureAccurate'
    <2>1. t * 273 <= adc_raw * 5632 /\ adc_raw * 5632 < (t + 27) * 273
      BY <1>3, <1>4, <1>5, RoundingsLose, SMT
    <2>2. QED
      BY <1>1, <1>7, <2>1, SMT DEF TemperatureAccurate
  <1>10. NoOverflow' /\ UsageIsShare' /\ Computed'
    BY <1>1, Zenon DEF ArithmeticInv, ArithmeticExact, NoOverflow, UsageIsShare, Computed
  <1>11. QED
    BY <1>8, <1>9, <1>10 DEF ArithmeticInv, ArithmeticExact

\* No two samples divide by zero, and counters that do not go back give a share
\* of a positive total.
LEMMA ShareOfTotal ==
    ASSUME NEW p \in Sample, NEW q \in Sample
    PROVE  /\ calc_cpu_usage(p, q) \in Int \X Int
           /\ calc_cpu_usage(p, q)[2] # 0
           /\ q.busy >= p.busy /\ q.idle >= p.idle =>
                 /\ calc_cpu_usage(p, q)[2] > 0
                 /\ calc_cpu_usage(p, q)[1] \in 0 .. calc_cpu_usage(p, q)[2]
  <1>1. p.busy \in Nat /\ p.idle \in Nat /\ q.busy \in Nat /\ q.idle \in Nat
    BY ArithmeticAssumption DEF Sample
  <1>2. PICK d \in Int : d = Total(q) - Total(p)
    BY <1>1 DEF Total
  <1>3. PICK e \in Int : e = q.idle - p.idle
    BY <1>1
  <1>4. calc_cpu_usage(p, q) = IF d = 0 THEN <<0, 1>> ELSE <<d - e, d>>
    BY <1>2, <1>3 DEF calc_cpu_usage
  <1>5. q.busy >= p.busy /\ q.idle >= p.idle => d >= e /\ e >= 0
    BY <1>1, <1>2, <1>3 DEF Total
  <1>6. CASE d = 0
    BY <1>4, <1>6
  <1>7. CASE d # 0
    <2>1. calc_cpu_usage(p, q) = <<d - e, d>> /\ d - e \in Int
      BY <1>4, <1>7
    <2>2. q.busy >= p.busy /\ q.idle >= p.idle => d > 0 /\ d - e \in 0 .. d
      BY <1>5, <1>7
    <2>3. QED
      BY <1>7, <2>1, <2>2
  <1>8. QED
    BY <1>6, <1>7

LEMMA CollectExact ==
    ASSUME ArithmeticInv, NEW p \in Sample, NEW q \in Sample, NEW read \in BOOLEAN,
           Collect(p, q, read)
    PROVE  ArithmeticInv'
  <1>1. /\ read => q.busy >= p.busy /\ q.idle >= p.idle
        /\ usage'.pct = calc_cpu_usage(p, q) /\ usage'.read = read
        /\ UNCHANGED <<adc_raw, voltage, temp>>
    BY DEF Collect
  <1>2. /\ usage'.pct \in Int \X Int /\ usage'.pct[2] # 0
        /\ read => usage'.pct[2] > 0 /\ usage'.pct[1] \in 0 .. usage'.pct[2]
    BY <1>1, ShareOfTotal
  <1>3. UsageIsShare'
    BY <1>1, <1>2 DEF UsageIsShare
  <1>4. QED
    BY <1>1, <1>2, <1>3 DEF ArithmeticInv, ArithmeticExact, ArithmeticTypeOK, NoOverflow,
                      TemperatureAccurate, Computed

LEMMA NextArithmeticInv ==
    ASSUME WideInt
    PROVE  ArithmeticInv /\ [ArithmeticNext]_arithmeticVars => ArithmeticInv'
  <1> SUFFICES ASSUME ArithmeticInv, [ArithmeticNext]_arithmeticVars
               PROVE  ArithmeticInv'
    OBVIOUS
  <1>1. CASE UNCHANGED arithmeticVars
    BY <1>1 DEF arithmeticVars, ArithmeticInv, ArithmeticExact, ArithmeticTypeOK,
                NoOverflow, TemperatureAccurate, UsageIsShare, Computed
  <1>2. QED
    BY <1>1, MeasureExact, ConvertExact, CollectExact DEF ArithmeticNext

\* For every bound on the counters and every integer width that holds a
\* full-scale voltage in fixed point: no product of the ADC pipeline overflows,
\* its two roundings lose less than 27/256 of a degree, and calc_cpu_usage never
\* divides by zero and of two samples read is a share of a positive total.
THEOREM CalculationsExact ==
    ASSUME WideInt
    PROVE  ArithmeticSpec => []ArithmeticExact
  BY WideInt, InitArithmeticInv, NextArithmeticInv, PTL DEF ArithmeticSpec, ArithmeticInv
------------------------------------------------------------------------------
(* The sensor of module2 ex05, for any count of registers that main fills:   *)
(* it adds three.                                                            *)

MainFillsAll == REG_COUNT <= 3

\* Where main is decides what is allocated; a register is its own index once
\* main has added it.
HeapOfMain ==
    /\ main_at = "create"         => blocks = {} /\ dht11 = "NULL"
    /\ main_at = "create_regs"    => blocks = {"sensor"} /\ dht11 = "NULL"
    /\ main_at = "destroy_sensor" => blocks = {"sensor"}
RegsAdded ==
    /\ reg_calls \in 0 .. 3
    /\ main_at \in {"create", "create_regs"} => reg_calls = 0
    /\ main_at = "destroy" => reg_calls = 3
    /\ IF main_at \in {"add", "destroy"}
       THEN DOMAIN regs = RegIndex /\ \A k \in RegIndex : k < reg_calls => regs[k] = k
       ELSE regs = <<>>

SensorInv == /\ main_at \in {"create", "create_regs", "add", "destroy",
                             "destroy_sensor", "returned"}
             /\ BlocksFollowPointer /\ PrintsOnlySet /\ HeapOfMain /\ RegsAdded

LEMMA InitSensorInv == SensorInit => SensorInv
  <1> SUFFICES ASSUME SensorInit PROVE SensorInv
    OBVIOUS
  <1>1. /\ main_at = "create" /\ blocks = {} /\ dht11 = "NULL"
        /\ regs = <<>> /\ reg_calls = 0 /\ printed = {}
    BY DEF SensorInit
  <1>2. DOMAIN regs = {}
    BY <1>1
  <1>3. RegsAdded
    BY <1>1 DEF RegsAdded
  <1>4. QED
    BY <1>1, <1>2, <1>3 DEF SensorInv, BlocksFollowPointer, PrintsOnlySet, HeapOfMain

LEMMA CreateRegsKeeps == SensorInv /\ CreateRegs => SensorInv'
  <1> SUFFICES ASSUME SensorInv, CreateRegs PROVE SensorInv'
    OBVIOUS
  <1>1. /\ main_at = "create_regs" /\ blocks = {"sensor"} /\ dht11 = "NULL"
        /\ regs = <<>> /\ Unset \notin printed /\ reg_calls = 0
        /\ UNCHANGED <<reg_calls, printed>>
    BY DEF CreateRegs, SensorInv, HeapOfMain, RegsAdded, PrintsOnlySet
  <1>2. CASE /\ blocks' = blocks \cup {"regs"}
             /\ regs' = [k \in RegIndex |-> Unset]
             /\ dht11' = "sensor" /\ main_at' = "add"
    <2>1. BlocksFollowPointer' /\ PrintsOnlySet' /\ HeapOfMain'
      BY <1>1, <1>2 DEF BlocksFollowPointer, PrintsOnlySet, HeapOfMain, RegIndex
    <2>2. RegsAdded'
      BY <1>1, <1>2, SensorHeapAssumption DEF RegsAdded, RegIndex
    <2>3. QED
      BY <1>2, <2>1, <2>2 DEF SensorInv
  <1>3. CASE /\ blocks' = blocks \ {"sensor"} /\ main_at' = "returned"
             /\ UNCHANGED <<dht11, regs>>
    <2>1. DOMAIN regs' = {}
      BY <1>1, <1>3
    <2>2. BlocksFollowPointer' /\ PrintsOnlySet' /\ HeapOfMain'
      BY <1>1, <1>3, <2>1 DEF BlocksFollowPointer, PrintsOnlySet, HeapOfMain
    <2>3. QED
      BY <1>1, <1>3, <2>2 DEF SensorInv, RegsAdded
  <1>4. QED
    BY <1>2, <1>3 DEF CreateRegs

LEMMA AddKeeps == SensorInv /\ AddNext => SensorInv'
  <1> SUFFICES ASSUME SensorInv, AddNext PROVE SensorInv'
    OBVIOUS
  <1>1. /\ main_at = "add" /\ reg_calls \in 0 .. 2
        /\ DOMAIN regs = RegIndex /\ \A k \in RegIndex : k < reg_calls => regs[k] = k
        /\ reg_calls' = reg_calls + 1
        /\ UNCHANGED <<blocks, dht11, main_at, printed>>
    BY DEF AddNext, SensorInv, RegsAdded
  <1>2. regs' = IF reg_calls < REG_COUNT THEN [regs EXCEPT ![reg_calls] = reg_calls] ELSE regs
    BY DEF AddNext, sensor_add_reg
  <1>3. DOMAIN regs' = RegIndex
    BY <1>1, <1>2
  <1>4. ASSUME NEW k \in RegIndex, k < reg_calls' PROVE regs'[k] = k
    <2>1. k \in Nat /\ k < REG_COUNT
      BY SensorHeapAssumption DEF RegIndex
    <2>2. CASE k = reg_calls
      BY <1>1, <1>2, <2>1, <2>2
    <2>3. CASE k # reg_calls
      BY <1>1, <1>2, <1>4, <2>1, <2>3
    <2>4. QED
      BY <2>2, <2>3
  <1>5. RegsAdded'
    BY <1>1, <1>3, <1>4 DEF RegsAdded, RegIndex
  <1>6. QED
    BY <1>1, <1>3, <1>5 DEF SensorInv, BlocksFollowPointer, PrintsOnlySet, HeapOfMain, RegIndex

LEMMA PrintKeeps ==
    ASSUME MainFillsAll, SensorInv, sensor_print
    PROVE  SensorInv'
  <1>1. /\ main_at = "add" /\ reg_calls = 3
        /\ DOMAIN regs = RegIndex /\ \A k \in RegIndex : k < reg_calls => regs[k] = k
        /\ printed' = {regs[k] : k \in RegIndex}
        /\ main_at' = "destroy"
        /\ UNCHANGED <<blocks, dht11, regs, reg_calls>>
    BY DEF sensor_print, SensorInv, RegsAdded
  <1>2. \A k \in RegIndex : k \in Nat /\ k < reg_calls
    BY <1>1, SensorHeapAssumption DEF RegIndex, MainFillsAll
  <1>3. printed' = RegIndex
    BY <1>1, <1>2
  <1>4. Unset \notin printed'
    BY <1>2, <1>3, SensorHeapAssumption
  <1>5. RegsAdded'
    BY <1>1 DEF RegsAdded, RegIndex
  <1>6. PrintsOnlySet'
    BY <1>1, <1>3, <1>4 DEF PrintsOnlySet, RegIndex
  <1>7. QED
    BY <1>1, <1>5, <1>6 DEF SensorInv, BlocksFollowPointer, HeapOfMain

LEMMA NextSensorInv ==
    ASSUME MainFillsAll
    PROVE  SensorInv /\ [SensorNext]_sensorVars => SensorInv'
  <1> SUFFICES ASSUME SensorInv, [SensorNext]_sensorVars PROVE SensorInv'
    OBVIOUS
  <1>1. CASE CreateSensor
    <2>1. /\ main_at = "create" /\ blocks = {} /\ dht11 = "NULL" /\ regs = <<>>
          /\ UNCHANGED <<dht11, regs, reg_calls, printed>>
          /\ \/ blocks' = {"sensor"} /\ main_at' = "create_regs"
             \/ blocks' = blocks /\ main_at' = "returned"
      BY <1>1 DEF CreateSensor, SensorInv, HeapOfMain, RegsAdded
    <2>2. RegsAdded'
      BY <2>1 DEF SensorInv, RegsAdded
    <2>3. BlocksFollowPointer' /\ PrintsOnlySet' /\ HeapOfMain'
      BY <2>1 DEF SensorInv, BlocksFollowPointer, PrintsOnlySet, HeapOfMain, RegIndex
    <2>4. QED
      BY <2>1, <2>2, <2>3 DEF SensorInv
  <1>2. CASE CreateRegs
    BY <1>2, CreateRegsKeeps
  <1>3. CASE AddNext
    BY <1>3, AddKeeps
  <1>4. CASE sensor_print
    BY <1>4, PrintKeeps
  <1>5. CASE DestroyRegs
    <2>1. /\ main_at = "destroy" /\ blocks = {"sensor", "regs"}
          /\ blocks' = blocks \ {"regs"} /\ regs' = <<>>
          /\ main_at' = "destroy_sensor"
          /\ UNCHANGED <<dht11, reg_calls, printed>>
      BY <1>5 DEF DestroyRegs, SensorInv, BlocksFollowPointer
    <2>2. DOMAIN regs' = {}
      BY <2>1
    <2>3. BlocksFollowPointer' /\ PrintsOnlySet' /\ HeapOfMain'
      BY <2>1, <2>2 DEF SensorInv, BlocksFollowPointer, PrintsOnlySet, HeapOfMain
    <2>4. RegsAdded'
      BY <2>1 DEF SensorInv, RegsAdded
    <2>5. QED
      BY <2>1, <2>3, <2>4 DEF SensorInv
  <1>6. CASE DestroySensor
    <2>1. /\ main_at = "destroy_sensor" /\ blocks = {"sensor"}
          /\ blocks' = blocks \ {"sensor"} /\ dht11' = "NULL"
          /\ main_at' = "returned"
          /\ UNCHANGED <<regs, reg_calls, printed>>
      BY <1>6 DEF DestroySensor, SensorInv, HeapOfMain
    <2>2. QED
      BY <2>1 DEF SensorInv, BlocksFollowPointer, PrintsOnlySet, HeapOfMain, RegsAdded, RegIndex
  <1>7. CASE UNCHANGED sensorVars
    BY <1>7 DEF sensorVars, SensorInv, BlocksFollowPointer, PrintsOnlySet, HeapOfMain,
                RegsAdded, RegIndex
  <1>8. QED
    BY <1>1, <1>2, <1>3, <1>4, <1>5, <1>6, <1>7 DEF SensorNext

\* Whichever malloc fails: main has both blocks or none, none is left at the end,
\* and sensor_print reads no register that was not set.
THEOREM SensorHeapClean ==
    ASSUME MainFillsAll
    PROVE  SensorSpec => [](BlocksFollowPointer /\ PrintsOnlySet)
  BY MainFillsAll, InitSensorInv, NextSensorInv, PTL DEF SensorSpec, SensorInv
------------------------------------------------------------------------------
(* The array and string loops, for arrays of any size over any characters.   *)

\* No terminator before index c, which is in the array.
NoEndBefore(arr, c) == c \in Cell /\ \A k \in 0 .. c - 1 : arr[k] # 0

\* The loop has written its first i elements.
Filled(new) == i <= n /\ dst = Written(new, i) /\ (result # Running => i = n)

Reversed == [k \in Cell |-> IF k < n /\ (k < i \/ k > j) THEN dst0[n - 1 - k] ELSE dst0[k]]

\* What each loop knows after i turns.
ArrayTyped == /\ fn \in Lengths \cup Strings
              /\ src \in Arrays /\ dst \in Arrays /\ dst0 \in Arrays
              /\ n \in 0 .. CELLS /\ i \in Nat /\ j \in Int /\ max \in Nat
              /\ fn \in Strings => IsString(src)
              /\ fn = "my_strcmp" => IsString(dst)
MemcpyTurn  == fn = "my_memcpy" => Filled(src)
MemsetTurn  == fn = "my_memset" => Filled([k \in Cell |-> src[0]])
FindMaxTurn == fn = "find_max" =>
                  /\ i <= n /\ \A k \in 0 .. i - 1 : dst[k] <= max
                  /\ \E k \in 0 .. n - 1 : max = dst[k]
                  /\ result # Running => i = n /\ result = max
ReverseTurn == fn = "reverse_array" =>
                  /\ j = n - 1 - i /\ i <= j + 2 /\ dst = Reversed
                  /\ result # Running => i >= j
StrlenTurn  == fn = "my_strlen" =>
                  /\ NoEndBefore(src, i)
                  /\ result # Running => result = i /\ src[i] = 0
StrcpyTurn  == fn = "my_strcpy" =>
                  /\ NoEndBefore(src, i)
                  /\ IF result = Running THEN dst = Written(src, i)
                                         ELSE src[i] = 0 /\ dst = Written(src, i + 1)
StrcmpTurn  == fn = "my_strcmp" =>
                  /\ NoEndBefore(src, i) /\ NoEndBefore(dst, i)
                  /\ \A k \in 0 .. i - 1 : dst[k] = src[k]
                  /\ result # Running => /\ result = dst[i] - src[i]
                                         /\ dst[i] = 0 \/ dst[i] # src[i]

Turns == /\ MemcpyTurn /\ MemsetTurn /\ FindMaxTurn /\ ReverseTurn
         /\ StrlenTurn /\ StrcpyTurn /\ StrcmpTurn
ArrayInv == ArrayTyped /\ Turns

LEMMA Cells ==
    ASSUME NEW arr \in Arrays, NEW c \in Cell
    PROVE  /\ CELLS \in Nat \ {0} /\ c \in 0 .. CELLS - 1
           /\ arr[c] \in Nat /\ arr[c] \in Char \cup {0}
  <1>1. Char \subseteq Nat /\ CELLS \in Nat \ {0}
    BY ArrayLoopsAssumption
  <1>2. arr \in [Cell -> Char \cup {0}]
    BY DEF Arrays
  <1>3. arr[c] \in Char \cup {0}
    BY <1>2
  <1>4. arr[c] \in Nat
    <2>1. Char \cup {0} \subseteq Nat
      BY <1>1
    <2>2. QED
      BY <1>3, <2>1
  <1>5. c \in 0 .. CELLS - 1
    BY DEF Cell
  <1>6. QED
    BY <1>1, <1>3, <1>4, <1>5

\* A string ends at the least index of a terminator.
LEMMA EndOfString ==
    ASSUME NEW arr \in Arrays, IsString(arr)
    PROVE  NoEndBefore(arr, EndOf(arr)) /\ arr[EndOf(arr)] = 0
  <1> DEFINE Zeros == {k \in Cell : arr[k] = 0}
  <1>1. Zeros \in SUBSET Nat /\ Zeros # {}
    BY ArrayLoopsAssumption DEF IsString, Cell
  <1>2. \E x \in Zeros : \A y \in Zeros : x <= y
    <2> HIDE DEF Zeros
    <2>1. QED
      BY <1>1, LeastNat
  <1>3. Min(Zeros) \in Zeros /\ \A y \in Zeros : Min(Zeros) <= y
    <2> HIDE DEF Zeros
    <2>1. QED
      BY <1>2 DEF Min
  <1>4. EndOf(arr) \in Cell /\ arr[EndOf(arr)] = 0 /\ \A y \in Zeros : EndOf(arr) <= y
    BY <1>3 DEF EndOf
  <1>5. PICK z \in Cell : z = EndOf(arr)
    BY <1>4
  <1>6. ASSUME NEW k \in 0 .. z - 1 PROVE arr[k] # 0
    <2>1. k \in Cell /\ ~(z <= k)
      BY <1>5, ArrayLoopsAssumption DEF Cell
    <2>2. QED
      BY <1>4, <1>5, <2>1
  <1>7. QED
    BY <1>4, <1>5, <1>6 DEF NoEndBefore

LEMMA EndIsWhere ==
    ASSUME NEW arr \in Arrays, NEW c, NoEndBefore(arr, c), IsString(arr)
    PROVE  /\ c \in Cell /\ EndOf(arr) \in Cell /\ c <= EndOf(arr)
           /\ arr[c] = 0 => EndOf(arr) = c
           /\ arr[c] # 0 => c < EndOf(arr) /\ NoEndBefore(arr, c + 1)
  <1>1. PICK z \in Cell : z = EndOf(arr)
    BY EndOfString DEF NoEndBefore
  <1>2. /\ arr[z] = 0 /\ c \in Cell
        /\ \A k \in 0 .. z - 1 : arr[k] # 0
        /\ \A k \in 0 .. c - 1 : arr[k] # 0
    BY <1>1, EndOfString DEF NoEndBefore
  <1>3. c \in 0 .. CELLS - 1 /\ z \in 0 .. CELLS - 1 /\ CELLS \in Nat
    BY <1>1, <1>2, ArrayLoopsAssumption DEF Cell
  <1>4. c <= z
    BY <1>2, <1>3
  <1>5. arr[c] = 0 => z = c
    BY <1>2, <1>3, <1>4
  <1>6. ASSUME arr[c] # 0 PROVE c < z /\ NoEndBefore(arr, c + 1)
    <2>1. c < z
      BY <1>2, <1>3, <1>4, <1>6
    <2>2. c + 1 \in Cell
      BY <1>3, <2>1 DEF Cell
    <2>3. \A k \in 0 .. (c + 1) - 1 : arr[k] # 0
      BY <1>2, <1>3, <1>6
    <2>4. QED
      BY <2>1, <2>2, <2>3 DEF NoEndBefore
  <1>7. QED
    BY <1>1, <1>2, <1>4, <1>5, <1>6

LEMMA InitArrayInv == ArrayInit => ArrayInv
  <1> SUFFICES ASSUME ArrayInit PROVE ArrayInv
    OBVIOUS
  <1>1. /\ fn \in Lengths \cup Strings
        /\ src \in Arrays /\ dst \in Arrays /\ dst0 = dst
        /\ fn \in Strings => IsString(src)
        /\ fn = "my_strcmp" => IsString(dst)
        /\ n \in 0 .. CELLS /\ i = 0 /\ j = n - 1 /\ max = dst[0] /\ result = Running
        /\ fn = "find_max" => n > 0
    BY ArrayLoopsAssumption DEF ArrayInit
  <1>2. /\ CELLS \in Nat \ {0} /\ 0 \in Cell /\ n \in Nat /\ i \in Nat
    BY <1>1, ArrayLoopsAssumption DEF Cell
  <1>3. max \in Nat
    BY <1>1, <1>2, Cells
  <1>4. ArrayTyped
    BY <1>1, <1>2, <1>3 DEF ArrayTyped
  <1>5. dst \in [Cell -> Char \cup {0}] /\ \A k \in Cell : ~(k < 0)
    BY <1>1, ArrayLoopsAssumption DEF Arrays, Cell
  <1>6. \A new : Written(new, 0) = dst
    BY <1>1, <1>5 DEF Written
  <1>7. MemcpyTurn /\ MemsetTurn
    BY <1>1, <1>2, <1>6 DEF MemcpyTurn, MemsetTurn, Filled
  <1>8. FindMaxTurn
    BY <1>1, <1>2 DEF FindMaxTurn
  <1>9. ReverseTurn
    <2>1. \A k \in Cell : ~(k < n /\ (k < i \/ k > j))
      BY <1>1, <1>2 DEF Cell
    <2>2. Reversed = dst
      BY <1>1, <1>5, <2>1 DEF Reversed
    <2>3. j = n - 1 - i /\ i <= j + 2
      BY <1>1, <1>2
    <2>4. QED
      BY <1>1, <2>2, <2>3 DEF ReverseTurn
  <1>10. \A arr : NoEndBefore(arr, 0)
    BY <1>2 DEF NoEndBefore
  <1>11. StrlenTurn /\ StrcpyTurn /\ StrcmpTurn
    <2>1. \A k \in 0 .. 0 - 1 : dst[k] = src[k]
      OBVIOUS
    <2>2. QED
      BY <1>1, <1>6, <1>10, <2>1 DEF StrlenTurn, StrcpyTurn, StrcmpTurn
  <1>12. QED
    BY <1>4, <1>7, <1>8, <1>9, <1>11 DEF ArrayInv, Turns

\* One turn of a loop that writes its i-th element from new.
LEMMA WrittenOneMore ==
    ASSUME NEW new \in Arrays, dst0 \in Arrays, NEW len \in Cell
    PROVE  /\ [Written(new, len) EXCEPT ![len] = new[len]] = Written(new, len + 1)
           /\ Written(new, len + 1) \in Arrays
  <1>1. /\ new \in [Cell -> Char \cup {0}] /\ dst0 \in [Cell -> Char \cup {0}]
        /\ CELLS \in Nat /\ len \in 0 .. CELLS - 1
    BY ArrayLoopsAssumption DEF Arrays, Cell
  <1>2. \A k \in Cell : k < len + 1 <=> k < len \/ k = len
    BY <1>1 DEF Cell
  <1>3. [Written(new, len) EXCEPT ![len] = new[len]] = Written(new, len + 1)
    BY <1>2 DEF Written
  <1>4. QED
    BY <1>1, <1>3 DEF Written, Arrays

LEMMA FillKeeps ==
    ASSUME ArrayInv, UNCHANGED <<fn, n, src, dst0>>, NEW new \in Arrays, Filled(new),
           fn \in Lengths, result = Running,
           IF i < n
           THEN /\ dst' = [dst EXCEPT ![i] = new[i]] /\ i' = i + 1
                /\ UNCHANGED <<j, max, result>>
           ELSE Return(0)
    PROVE  /\ ArrayTyped'
           /\ i' <= n' /\ dst' = Written(new, i') /\ (result' # Running => i' = n')
  <1>1. /\ n \in 0 .. CELLS /\ i \in Nat /\ dst0 \in Arrays /\ i <= n
        /\ dst = Written(new, i) /\ dst \in Arrays
        /\ CELLS \in Nat
    BY ArrayLoopsAssumption DEF ArrayInv, ArrayTyped, Filled
  <1>2. CASE i < n
    <2>1. i \in Cell /\ i + 1 <= n /\ i + 1 \in Nat
      BY <1>1, <1>2 DEF Cell
    <2>2. dst' = Written(new, i + 1) /\ Written(new, i + 1) \in Arrays
      BY <1>1, <1>2, <2>1, WrittenOneMore
    <2>3. /\ i' = i + 1 /\ UNCHANGED <<j, max, result>>
      BY <1>2
    <2>4. fn \notin Strings /\ fn # "my_strcmp"
      BY DEF Lengths, Strings
    <2>5. ArrayTyped'
      BY <2>1, <2>2, <2>3, <2>4 DEF ArrayInv, ArrayTyped
    <2>6. QED
      BY <2>1, <2>2, <2>3, <2>5
  <1>3. CASE ~(i < n)
    <2>1. i = n /\ UNCHANGED <<dst, i, j, max>>
      BY <1>1, <1>3 DEF Return
    <2>2. ArrayTyped'
      BY <2>1 DEF ArrayInv, ArrayTyped
    <2>3. QED
      BY <1>1, <2>1, <2>2
  <1>4. QED
    BY <1>2, <1>3
LEMMA MemcpyKeeps ==
    ASSUME ArrayInv, UNCHANGED <<fn, n, src, dst0>>, result = Running,
           fn = "my_memcpy", my_memcpy
    PROVE  ArrayInv'
  <1>1. src \in Arrays /\ Filled(src) /\ fn \in Lengths
    BY DEF ArrayInv, ArrayTyped, Turns, MemcpyTurn, Lengths
  <1>2. /\ ArrayTyped'
        /\ i' <= n' /\ dst' = Written(src, i') /\ (result' # Running => i' = n')
    BY <1>1, FillKeeps DEF my_memcpy
  <1>3. Written(src, i') = Written(src, i)'
    BY DEF Written
  <1>4. MemcpyTurn'
    BY <1>2, <1>3 DEF MemcpyTurn, Filled
  <1>5. QED
    BY <1>2, <1>4 DEF ArrayInv, Turns, MemcpyTurn, MemsetTurn, FindMaxTurn,
       ReverseTurn, StrlenTurn, StrcpyTurn, StrcmpTurn

LEMMA MemsetKeeps ==
    ASSUME ArrayInv, UNCHANGED <<fn, n, src, dst0>>, result = Running,
           fn = "my_memset", my_memset
    PROVE  ArrayInv'
  <1> DEFINE new == [k \in Cell |-> src[0]]
  <1>1. src \in Arrays /\ Filled(new) /\ fn \in Lengths
    BY DEF ArrayInv, ArrayTyped, Turns, MemsetTurn, Lengths
  <1>2. 0 \in Cell
    BY ArrayLoopsAssumption DEF Cell
  <1>3. src[0] \in Char \cup {0}
    BY <1>1, <1>2, Cells
  <1>4. new \in Arrays
    BY <1>3 DEF Arrays
  <1>5. i \in 0 .. CELLS /\ n \in 0 .. CELLS /\ CELLS \in Nat
    BY <1>1, ArrayLoopsAssumption DEF ArrayInv, ArrayTyped, Filled
  <1>6. i < n => new[i] = src[0]
    BY <1>5 DEF Cell
  <1>7. IF i < n
        THEN /\ dst' = [dst EXCEPT ![i] = new[i]] /\ i' = i + 1
             /\ UNCHANGED <<j, max, result>>
        ELSE Return(0)
    <2> HIDE DEF new
    <2>1. QED
      BY <1>6 DEF my_memset
  <1>8. /\ ArrayTyped'
        /\ i' <= n' /\ dst' = Written(new, i') /\ (result' # Running => i' = n')
    <2> HIDE DEF new
    <2>1. QED
      BY <1>1, <1>4, <1>7, FillKeeps
  <1>9. Written(new, i') = Written(new, i)'
    BY DEF Written
  <1>10. MemsetTurn'
    BY <1>8, <1>9 DEF MemsetTurn, Filled
  <1>11. QED
    BY <1>8, <1>10 DEF ArrayInv, Turns, MemcpyTurn, MemsetTurn, FindMaxTurn,
       ReverseTurn, StrlenTurn, StrcpyTurn, StrcmpTurn

LEMMA FindMaxKeeps ==
    ASSUME ArrayInv, UNCHANGED <<fn, n, src, dst0>>, result = Running,
           fn = "find_max", find_max
    PROVE  ArrayInv'
  <1>1. /\ i <= n /\ \A k \in 0 .. i - 1 : dst[k] <= max
        /\ \E k \in 0 .. n - 1 : max = dst[k]
        /\ dst \in Arrays /\ n \in 0 .. CELLS /\ i \in Nat /\ max \in Nat /\ CELLS \in Nat
    BY ArrayLoopsAssumption DEF ArrayInv, ArrayTyped, Turns, FindMaxTurn
  <1>2. \A k \in 0 .. n - 1 : k \in Cell /\ dst[k] \in Nat
    <2>1. \A k \in 0 .. n - 1 : k \in Cell
      BY <1>1 DEF Cell
    <2>2. QED
      BY <1>1, <2>1, Cells
  <1>3. fn \notin Strings /\ fn # "my_strcmp"
    BY DEF Strings
  <1>4. CASE i < n
    <2>1. /\ max' = IF dst[i] > max THEN dst[i] ELSE max
          /\ i' = i + 1 /\ UNCHANGED <<dst, j, result>>
      BY <1>4 DEF find_max
    <2>2. i \in 0 .. n - 1 /\ i + 1 \in Nat /\ i + 1 <= n
      BY <1>1, <1>4
    <2>3. max' \in Nat /\ max' >= max /\ max' >= dst[i]
      BY <1>1, <1>2, <2>1, <2>2
    <2>4. \E k \in 0 .. n - 1 : max' = dst[k]
      BY <1>1, <2>1, <2>2
    <2>5. ASSUME NEW k \in 0 .. i PROVE dst[k] <= max'
      <3>1. k \in 0 .. n - 1
        BY <1>1, <2>2
      <3>2. CASE k = i
        BY <2>3, <3>2
      <3>3. CASE k # i
        BY <1>1, <1>2, <2>3, <3>1, <3>3
      <3>4. QED
        BY <3>2, <3>3
    <2>6. 0 .. i' - 1 = 0 .. i
      BY <1>1, <2>1
    <2>7. FindMaxTurn'
      BY <2>1, <2>2, <2>4, <2>5, <2>6 DEF FindMaxTurn
    <2>8. ArrayTyped'
      BY <1>3, <2>1, <2>2, <2>3 DEF ArrayInv, ArrayTyped
    <2>9. QED
      BY <2>7, <2>8 DEF ArrayInv, Turns, MemcpyTurn, MemsetTurn, FindMaxTurn,
         ReverseTurn, StrlenTurn, StrcpyTurn, StrcmpTurn
  <1>5. CASE ~(i < n)
    <2>1. i = n /\ result' = max /\ UNCHANGED <<dst, i, j, max>>
      BY <1>1, <1>5 DEF find_max, Return
    <2>2. FindMaxTurn'
      BY <1>1, <2>1 DEF FindMaxTurn
    <2>3. ArrayTyped'
      BY <2>1 DEF ArrayInv, ArrayTyped
    <2>4. QED
      BY <2>2, <2>3 DEF ArrayInv, Turns, MemcpyTurn, MemsetTurn, FindMaxTurn,
         ReverseTurn, StrlenTurn, StrcpyTurn, StrcmpTurn
  <1>6. QED
    BY <1>4, <1>5

LEMMA ReverseKeeps ==
    ASSUME ArrayInv, UNCHANGED <<fn, n, src, dst0>>, result = Running,
           fn = "reverse_array", reverse_array
    PROVE  ArrayInv'
  <1>1. /\ j = n - 1 - i /\ i <= j + 2 /\ dst = Reversed
        /\ dst \in Arrays /\ dst0 \in Arrays
        /\ n \in 0 .. CELLS /\ i \in Nat /\ j \in Int /\ CELLS \in Nat
    BY ArrayLoopsAssumption DEF ArrayInv, ArrayTyped, Turns, ReverseTurn
  <1>2. fn \notin Strings /\ fn # "my_strcmp"
    BY DEF Strings
  <1>3. CASE i < j
    <2>1. /\ dst' = [dst EXCEPT ![i] = dst[j], ![j] = dst[i]]
          /\ i' = i + 1 /\ j' = j - 1 /\ UNCHANGED <<max, result>>
      BY <1>3 DEF reverse_array
    <2>2. i \in Cell /\ j \in Cell /\ i < n /\ j < n /\ i # j
      BY <1>1, <1>3 DEF Cell
    <2>3. dst[i] = dst0[i] /\ dst[j] = dst0[j]
      BY <1>1, <1>3, <2>2 DEF Reversed
    <2>4. n - 1 - i = j /\ n - 1 - j = i
      BY <1>1
    <2>5. dst' = [k \in Cell |-> IF k = j THEN dst0[i] ELSE IF k = i THEN dst0[j] ELSE dst[k]]
      BY <1>1, <2>1, <2>2, <2>3 DEF Arrays
    <2>6. ASSUME NEW k \in Cell
          PROVE  (IF k = j THEN dst0[i] ELSE IF k = i THEN dst0[j] ELSE dst[k])
                   = IF k < n /\ (k < i + 1 \/ k > j - 1) THEN dst0[n - 1 - k] ELSE dst0[k]
      <3>1. k \in Nat
        BY <1>1 DEF Cell
      <3>2. CASE k = j
        BY <1>1, <2>2, <2>4, <3>2
      <3>3. CASE k = i
        BY <1>1, <2>2, <2>4, <3>3
      <3>4. CASE k # i /\ k # j
        <4>1. k < i + 1 <=> k < i
          BY <1>1, <3>1, <3>4
        <4>2. k > j - 1 <=> k > j
          BY <1>1, <3>1, <3>4
        <4>3. dst[k] = IF k < n /\ (k < i \/ k > j) THEN dst0[n - 1 - k] ELSE dst0[k]
          BY <1>1 DEF Reversed
        <4>4. QED
          BY <3>4, <4>1, <4>2, <4>3
      <3>5. QED
        BY <3>2, <3>3, <3>4
    <2>7. dst' = Reversed'
      BY <2>1, <2>5, <2>6 DEF Reversed, Cell
    <2>8. dst' \in Arrays
      BY <1>1, <2>2, <2>5 DEF Arrays
    <2>9. j' = n' - 1 - i' /\ i' <= j' + 2 /\ i' \in Nat /\ j' \in Int
      BY <1>1, <1>3, <2>1
    <2>10. ReverseTurn'
      BY <2>1, <2>7, <2>9 DEF ReverseTurn
    <2>11. ArrayTyped'
      BY <1>2, <2>1, <2>8, <2>9 DEF ArrayInv, ArrayTyped
    <2>12. QED
      BY <2>10, <2>11 DEF ArrayInv, Turns, MemcpyTurn, MemsetTurn, FindMaxTurn,
         ReverseTurn, StrlenTurn, StrcpyTurn, StrcmpTurn
  <1>4. CASE ~(i < j)
    <2>1. i >= j /\ UNCHANGED <<dst, i, j, max>>
      BY <1>1, <1>4 DEF reverse_array, Return
    <2>2. ReverseTurn'
      BY <1>1, <2>1 DEF ReverseTurn, Reversed, Cell
    <2>3. ArrayTyped'
      BY <2>1 DEF ArrayInv, ArrayTyped
    <2>4. QED
      BY <2>2, <2>3 DEF ArrayInv, Turns, MemcpyTurn, MemsetTurn, FindMaxTurn,
         ReverseTurn, StrlenTurn, StrcpyTurn, StrcmpTurn
  <1>5. QED
    BY <1>3, <1>4

LEMMA StrlenKeeps ==
    ASSUME ArrayInv, UNCHANGED <<fn, n, src, dst0>>, result = Running,
           fn = "my_strlen", my_strlen
    PROVE  ArrayInv'
  <1>1. src \in Arrays /\ IsString(src) /\ NoEndBefore(src, i) /\ i \in Nat
    BY DEF ArrayInv, ArrayTyped, Turns, StrlenTurn, Strings
  <1>2. CASE src[i] # 0
    <2>1. i' = i + 1 /\ UNCHANGED <<dst, j, max, result>>
      BY <1>2 DEF my_strlen
    <2>2. NoEndBefore(src, i + 1) /\ i + 1 \in Nat
      BY <1>1, <1>2, EndIsWhere
    <2>3. NoEndBefore(src, i)'
      BY <2>1, <2>2 DEF NoEndBefore, Cell
    <2>4. StrlenTurn'
      BY <2>1, <2>3 DEF StrlenTurn
    <2>5. ArrayTyped'
      BY <2>1, <2>2 DEF ArrayInv, ArrayTyped, IsString, Cell
    <2>6. QED
      BY <2>4, <2>5 DEF ArrayInv, Turns, MemcpyTurn, MemsetTurn, FindMaxTurn,
         ReverseTurn, StrlenTurn, StrcpyTurn, StrcmpTurn
  <1>3. CASE src[i] = 0
    <2>1. result' = i /\ UNCHANGED <<dst, i, j, max>>
      BY <1>3 DEF my_strlen, Return
    <2>2. StrlenTurn'
      BY <1>1, <1>3, <2>1 DEF StrlenTurn, NoEndBefore, Cell
    <2>3. ArrayTyped'
      BY <2>1 DEF ArrayInv, ArrayTyped, IsString, Cell
    <2>4. QED
      BY <2>2, <2>3 DEF ArrayInv, Turns, MemcpyTurn, MemsetTurn, FindMaxTurn,
         ReverseTurn, StrlenTurn, StrcpyTurn, StrcmpTurn
  <1>4. QED
    BY <1>2, <1>3
LEMMA StrcpyKeeps ==
    ASSUME ArrayInv, UNCHANGED <<fn, n, src, dst0>>, result = Running,
           fn = "my_strcpy", my_strcpy
    PROVE  ArrayInv'
  <1>1. /\ src \in Arrays /\ dst0 \in Arrays /\ IsString(src) /\ NoEndBefore(src, i)
        /\ i \in Nat /\ i \in Cell /\ dst = Written(src, i)
    BY DEF ArrayInv, ArrayTyped, Turns, StrcpyTurn, Strings, NoEndBefore
  <1>2. CASE src[i] # 0
    <2>1. /\ dst' = [dst EXCEPT ![i] = src[i]]
          /\ i' = i + 1 /\ UNCHANGED <<j, max, result>>
      BY <1>2 DEF my_strcpy
    <2>2. NoEndBefore(src, i + 1) /\ i + 1 \in Nat
      BY <1>1, <1>2, EndIsWhere
    <2>3. NoEndBefore(src, i)'
      BY <2>1, <2>2 DEF NoEndBefore, Cell
    <2>4. dst' = Written(src, i + 1) /\ dst' \in Arrays
      BY <1>1, <2>1, WrittenOneMore
    <2>5. Written(src, i + 1) = Written(src, i)'
      BY <2>1 DEF Written, Cell
    <2>6. StrcpyTurn'
      BY <2>1, <2>3, <2>4, <2>5 DEF StrcpyTurn
    <2>7. ArrayTyped'
      BY <2>1, <2>2, <2>4 DEF ArrayInv, ArrayTyped, IsString, Cell
    <2>8. QED
      BY <2>6, <2>7 DEF ArrayInv, Turns, MemcpyTurn, MemsetTurn, FindMaxTurn,
         ReverseTurn, StrlenTurn, StrcpyTurn, StrcmpTurn
  <1>3. CASE src[i] = 0
    <2>1. /\ dst' = [dst EXCEPT ![i] = src[i]] /\ result' = 0
          /\ UNCHANGED <<i, j, max>>
      BY <1>3 DEF my_strcpy
    <2>2. dst' = Written(src, i + 1) /\ dst' \in Arrays
      BY <1>1, <2>1, WrittenOneMore
    <2>3. Written(src, i + 1) = Written(src, i + 1)'
      BY <2>1 DEF Written, Cell
    <2>4. result' # Running
      BY <2>1, ArrayLoopsAssumption
    <2>5. StrcpyTurn'
      BY <1>1, <1>3, <2>1, <2>2, <2>3, <2>4 DEF StrcpyTurn, NoEndBefore, Cell
    <2>6. ArrayTyped'
      BY <2>1, <2>2 DEF ArrayInv, ArrayTyped, IsString, Cell
    <2>7. QED
      BY <2>5, <2>6 DEF ArrayInv, Turns, MemcpyTurn, MemsetTurn, FindMaxTurn,
         ReverseTurn, StrlenTurn, StrcpyTurn, StrcmpTurn
  <1>4. QED
    BY <1>2, <1>3

LEMMA StrcmpKeeps ==
    ASSUME ArrayInv, UNCHANGED <<fn, n, src, dst0>>, result = Running,
           fn = "my_strcmp", my_strcmp
    PROVE  ArrayInv'
  <1>1. /\ src \in Arrays /\ dst \in Arrays /\ IsString(src) /\ IsString(dst)
        /\ NoEndBefore(src, i) /\ NoEndBefore(dst, i)
        /\ i \in Nat /\ \A k \in 0 .. i - 1 : dst[k] = src[k]
    BY DEF ArrayInv, ArrayTyped, Turns, StrcmpTurn, Strings
  <1>2. CASE dst[i] # 0 /\ dst[i] = src[i]
    <2>1. i' = i + 1 /\ UNCHANGED <<dst, j, max, result>>
      BY <1>2 DEF my_strcmp
    <2>2. NoEndBefore(src, i + 1) /\ NoEndBefore(dst, i + 1) /\ i + 1 \in Nat
      BY <1>1, <1>2, EndIsWhere
    <2>3. NoEndBefore(src, i)' /\ NoEndBefore(dst, i)'
      BY <2>1, <2>2 DEF NoEndBefore, Cell
    <2>4. \A k \in 0 .. (i + 1) - 1 : dst[k] = src[k]
      BY <1>1, <1>2
    <2>5. StrcmpTurn'
      BY <2>1, <2>3, <2>4 DEF StrcmpTurn
    <2>6. ArrayTyped'
      BY <2>1, <2>2 DEF ArrayInv, ArrayTyped, IsString, Cell
    <2>7. QED
      BY <2>5, <2>6 DEF ArrayInv, Turns, MemcpyTurn, MemsetTurn, FindMaxTurn,
         ReverseTurn, StrlenTurn, StrcpyTurn, StrcmpTurn
  <1>3. CASE ~(dst[i] # 0 /\ dst[i] = src[i])
    <2>1. result' = dst[i] - src[i] /\ UNCHANGED <<dst, i, j, max>>
      BY <1>3 DEF my_strcmp, Return
    <2>2. StrcmpTurn'
      BY <1>1, <1>3, <2>1 DEF StrcmpTurn, NoEndBefore, Cell
    <2>3. ArrayTyped'
      BY <2>1 DEF ArrayInv, ArrayTyped, IsString, Cell
    <2>4. QED
      BY <2>2, <2>3 DEF ArrayInv, Turns, MemcpyTurn, MemsetTurn, FindMaxTurn,
         ReverseTurn, StrlenTurn, StrcpyTurn, StrcmpTurn
  <1>4. QED
    BY <1>2, <1>3

LEMMA NextArrayInv == ArrayInv /\ [LoopStep]_arrayVars => ArrayInv'
  <1> SUFFICES ASSUME ArrayInv, [LoopStep]_arrayVars PROVE ArrayInv'
    OBVIOUS
  <1>1. CASE LoopStep
    BY <1>1, MemcpyKeeps, MemsetKeeps, FindMaxKeeps, ReverseKeeps, StrlenKeeps,
       StrcpyKeeps, StrcmpKeeps DEF LoopStep
  <1>2. CASE UNCHANGED arrayVars
    BY <1>2 DEF arrayVars, ArrayInv, ArrayTyped, Turns, MemcpyTurn, MemsetTurn,
       FindMaxTurn, ReverseTurn, StrlenTurn, StrcpyTurn, StrcmpTurn, Filled, Reversed,
       Written, NoEndBefore, IsString, Cell
  <1>3. QED
    BY <1>1, <1>2

------------------------------------------------------------------------------
(* What the loops return, from what they know at their last turn.            *)

LEMMA MinOfTwo ==
    ASSUME NEW p \in Nat, NEW q \in Nat
    PROVE  Min({p, q}) = IF p <= q THEN p ELSE q
  <1>1. CASE p <= q
    <2>1. p \in {p, q} /\ \A y \in {p, q} : p <= y
      BY <1>1
    <2>2. \A x \in {p, q} : (\A y \in {p, q} : x <= y) => x = p
      BY <1>1
    <2>3. QED
      BY <1>1, <2>1, <2>2 DEF Min
  <1>2. CASE ~(p <= q)
    <2>1. q \in {p, q} /\ \A y \in {p, q} : q <= y
      BY <1>2
    <2>2. \A x \in {p, q} : (\A y \in {p, q} : x <= y) => x = q
      BY <1>2
    <2>3. QED
      BY <1>2, <2>1, <2>2 DEF Min
  <1>3. QED
    BY <1>1, <1>2

LEMMA Prefix ==
    ASSUME NEW x \in Seq(Nat), NEW c \in 0 .. Len(x)
    PROVE  /\ SubSeq(x, 1, c) \in Seq(Nat) /\ Len(SubSeq(x, 1, c)) = c
           /\ \A k \in 1 .. c : SubSeq(x, 1, c)[k] = x[k]
  OBVIOUS

LEMMA SamePrefix ==
    ASSUME NEW x \in Seq(Nat), NEW y \in Seq(Nat),
           NEW c \in Nat, c <= Len(x), c <= Len(y)
    PROVE  SubSeq(x, 1, c) = SubSeq(y, 1, c) <=> \A k \in 1 .. c : x[k] = y[k]
  <1>1. c \in 0 .. Len(x) /\ c \in 0 .. Len(y)
    OBVIOUS
  <1>2. /\ SubSeq(x, 1, c) \in Seq(Nat) /\ Len(SubSeq(x, 1, c)) = c
        /\ \A k \in 1 .. c : SubSeq(x, 1, c)[k] = x[k]
    BY <1>1, Prefix
  <1>3. /\ SubSeq(y, 1, c) \in Seq(Nat) /\ Len(SubSeq(y, 1, c)) = c
        /\ \A k \in 1 .. c : SubSeq(y, 1, c)[k] = y[k]
    BY <1>1, Prefix
  <1>4. ASSUME \A k \in 1 .. c : x[k] = y[k] PROVE SubSeq(x, 1, c) = SubSeq(y, 1, c)
    <2>1. \A k \in 1 .. Len(SubSeq(x, 1, c)) : SubSeq(x, 1, c)[k] = SubSeq(y, 1, c)[k]
      BY <1>2, <1>3, <1>4
    <2>2. QED
      BY <1>2, <1>3, <2>1, SeqEqual
  <1>5. ASSUME SubSeq(x, 1, c) = SubSeq(y, 1, c) PROVE \A k \in 1 .. c : x[k] = y[k]
    BY <1>2, <1>3, <1>5
  <1>6. QED
    BY <1>4, <1>5
\* The byte at index c of a string, its terminator included.
CharAt(x, c) == IF c < Len(x) THEN x[c + 1] ELSE 0

\* Where two strings stop being alike decides how they sort.
LEMMA Compared ==
    ASSUME NEW x \in Seq(Nat), NEW y \in Seq(Nat),
           NEW c \in Nat, c <= Len(x), c <= Len(y),
           \A k \in 1 .. c : x[k] = y[k],
           \A k \in 1 .. Len(x) : x[k] > 0, \A k \in 1 .. Len(y) : y[k] > 0,
           CharAt(x, c) = 0 \/ CharAt(x, c) # CharAt(y, c)
    PROVE  /\ CharAt(x, c) < CharAt(y, c) <=> SortsBefore(x, y)
           /\ CharAt(x, c) = CharAt(y, c) <=> x = y
  <1>1. Len(x) \in Nat /\ Len(y) \in Nat
    BY LenProperties
  <1>2. \A k \in 1 .. Len(x) : x[k] \in Nat
    BY <1>1, ElementOfSeq
  <1>3. \A k \in 1 .. Len(y) : y[k] \in Nat
    BY <1>1, ElementOfSeq
  <1>4. PICK p \in Nat : p = CharAt(x, c) /\ p = IF c < Len(x) THEN x[c + 1] ELSE 0
    <2>1. c < Len(x) => x[c + 1] \in Nat
      BY <1>1, <1>2
    <2>2. QED
      BY <2>1 DEF CharAt
  <1>5. PICK q \in Nat : q = CharAt(y, c) /\ q = IF c < Len(y) THEN y[c + 1] ELSE 0
    <2>1. c < Len(y) => y[c + 1] \in Nat
      BY <1>1, <1>3
    <2>2. QED
      BY <2>1 DEF CharAt
  <1>6. p = 0 \/ p # q
    BY <1>4, <1>5
  <1>7. PICK least \in Nat : /\ least = Min({Len(x), Len(y)})
                             /\ least = IF Len(x) <= Len(y) THEN Len(x) ELSE Len(y)
    BY <1>1, MinOfTwo
  <1>8. least <= Len(x) /\ least <= Len(y)
    BY <1>1, <1>7
  <1>9. SortsBefore(x, y) <=>
           \/ Len(x) < Len(y) /\ SubSeq(y, 1, Len(x)) = x
           \/ \E k \in 1 .. least : SubSeq(x, 1, k - 1) = SubSeq(y, 1, k - 1) /\ x[k] < y[k]
    BY <1>7 DEF SortsBefore
  <1>10. SubSeq(x, 1, Len(x)) = x
    <2>1. Len(x) \in 0 .. Len(x)
      BY <1>1
    <2>2. /\ SubSeq(x, 1, Len(x)) \in Seq(Nat) /\ Len(SubSeq(x, 1, Len(x))) = Len(x)
          /\ \A k \in 1 .. Len(x) : SubSeq(x, 1, Len(x))[k] = x[k]
      BY <2>1, Prefix
    <2>3. QED
      BY <2>2, SeqEqual
  <1>11. ASSUME p < q PROVE SortsBefore(x, y)
    <2>1. c < Len(y) /\ q = y[c + 1]
      BY <1>1, <1>11, <1>5
    <2>2. CASE c = Len(x)
      <3>1. SubSeq(y, 1, Len(x)) = SubSeq(x, 1, Len(x))
        BY <1>1, <2>1, <2>2, SamePrefix
      <3>2. QED
        BY <1>9, <1>10, <2>1, <2>2, <3>1
    <2>3. CASE c < Len(x)
      <3>1. c + 1 \in 1 .. least /\ (c + 1) - 1 = c
        BY <1>1, <1>7, <2>1, <2>3
      <3>2. SubSeq(x, 1, c) = SubSeq(y, 1, c) /\ x[c + 1] < y[c + 1]
        BY <1>1, <1>11, <1>4, <2>1, <2>3, SamePrefix
      <3>3. QED
        BY <1>9, <3>1, <3>2
    <2>4. QED
      BY <1>1, <2>2, <2>3
  <1>12. ASSUME p >= q PROVE ~SortsBefore(x, y)
    <2>1. ASSUME Len(x) < Len(y), SubSeq(y, 1, Len(x)) = x PROVE FALSE
      <3>1. SubSeq(y, 1, Len(x)) = SubSeq(x, 1, Len(x))
        BY <1>10, <2>1
      <3>2. \A k \in 1 .. Len(x) : y[k] = x[k]
        BY <1>1, <2>1, <3>1, SamePrefix
      <3>3. c < Len(y) /\ q = y[c + 1] /\ q > 0
        <4>1. c < Len(y)
          BY <1>1, <2>1
        <4>2. c + 1 \in 1 .. Len(y)
          BY <1>1, <4>1
        <4>3. QED
          BY <1>5, <4>1, <4>2
      <3>4. p > 0 /\ c < Len(x) /\ p = x[c + 1]
        BY <1>1, <1>12, <1>4, <3>3
      <3>5. c + 1 \in 1 .. Len(x)
        BY <1>1, <3>4
      <3>6. p = q
        BY <3>2, <3>3, <3>4, <3>5
      <3>7. QED
        BY <1>6, <3>4, <3>6
    <2>2. ASSUME NEW k \in 1 .. least,
                 SubSeq(x, 1, k - 1) = SubSeq(y, 1, k - 1), x[k] < y[k]
          PROVE  FALSE
      <3>1. /\ k \in 1 .. Len(x) /\ k \in 1 .. Len(y) /\ k - 1 \in Nat /\ k \in Nat
            /\ k - 1 <= Len(x) /\ k - 1 <= Len(y) /\ k <= Len(x) /\ k <= Len(y)
        BY <1>1, <1>8
      <3>2. x[k] < y[k] /\ SubSeq(x, 1, k - 1) = SubSeq(y, 1, k - 1)
        BY <2>2
      <3>3. x[k] \in Nat /\ y[k] \in Nat
        BY <1>2, <1>3, <3>1
      <3>4. \A d \in 1 .. k - 1 : x[d] = y[d]
        BY <3>2, <3>1, SamePrefix
      <3>5. CASE k <= c
        <4>1. x[k] = y[k]
          BY <3>1, <3>5
        <4>2. QED
          BY <3>2, <3>3, <4>1
      <3>6. CASE k = c + 1
        <4>1. p = x[k] /\ q = y[k]
          BY <1>1, <1>4, <1>5, <3>1, <3>6
        <4>2. QED
          BY <1>12, <3>2, <3>3, <4>1
      <3>7. CASE k > c + 1
        <4>1. c + 1 < k /\ c + 1 \in Nat /\ k \in Nat /\ k <= Len(x) /\ k <= Len(y)
          BY <3>1, <3>7
        <4>2. /\ c + 1 \in 1 .. k - 1 /\ c + 1 \in 1 .. Len(x) /\ c + 1 \in 1 .. Len(y)
              /\ c < Len(x) /\ c < Len(y)
          BY <1>1, <4>1
        <4>3. x[c + 1] = y[c + 1] /\ p = x[c + 1] /\ q = y[c + 1] /\ x[c + 1] > 0
          BY <1>4, <1>5, <3>4, <4>2
        <4>4. QED
          BY <1>6, <4>3
      <3>8. QED
        BY <3>1, <3>5, <3>6, <3>7
    <2>3. QED
      BY <1>9, <2>1, <2>2
  <1>13. ASSUME p = q PROVE x = y
    <2>1. p = 0 /\ q = 0
      BY <1>13, <1>6
    <2>2. c = Len(x)
      <3>1. CASE c < Len(x)
        <4>1. c + 1 \in 1 .. Len(x) /\ p = x[c + 1]
          BY <1>1, <1>4, <3>1
        <4>2. QED
          BY <2>1, <4>1
      <3>2. QED
        BY <1>1, <3>1
    <2>3. c = Len(y)
      <3>1. CASE c < Len(y)
        <4>1. c + 1 \in 1 .. Len(y) /\ q = y[c + 1]
          BY <1>1, <1>5, <3>1
        <4>2. QED
          BY <2>1, <4>1
      <3>2. QED
        BY <1>1, <3>1
    <2>4. QED
      BY <2>2, <2>3, SeqEqual
  <1>14. ASSUME x = y PROVE p = q
    BY <1>14, <1>4, <1>5
  <1>15. (p < q <=> SortsBefore(x, y)) /\ (p = q <=> x = y)
    BY <1>11, <1>12, <1>13, <1>14
  <1>16. QED
    BY <1>4, <1>5, <1>15, Zenon

LEMMA TextOfString ==
    ASSUME NEW arr \in Arrays, IsString(arr)
    PROVE  /\ Text(arr) \in Seq(Nat) /\ Len(Text(arr)) = EndOf(arr)
           /\ EndOf(arr) \in Nat
           /\ \A k \in 1 .. EndOf(arr) : Text(arr)[k] = arr[k - 1] /\ Text(arr)[k] > 0
  <1>1. PICK z : z = EndOf(arr)
    OBVIOUS
  <1>2. NoEndBefore(arr, z) /\ z \in Cell /\ z \in Nat
    BY <1>1, EndOfString, ArrayLoopsAssumption DEF NoEndBefore, Cell
  <1>3. ASSUME NEW k \in 1 .. z PROVE arr[k - 1] \in Nat /\ arr[k - 1] > 0
    <2>1. k - 1 \in 0 .. z - 1 /\ k - 1 \in Cell
      BY <1>2, ArrayLoopsAssumption DEF Cell
    <2>2. arr[k - 1] # 0
      BY <1>2, <2>1 DEF NoEndBefore
    <2>3. arr[k - 1] \in Nat
      BY <2>1, Cells
    <2>4. QED
      BY <2>2, <2>3
  <1>4. Text(arr) = [k \in 1 .. z |-> arr[k - 1]]
    BY <1>1 DEF Text
  <1>5. Text(arr) \in Seq(Nat)
    BY <1>2, <1>3, <1>4, IsASeq
  <1>6. Len(Text(arr)) = z
    BY <1>2, <1>4, <1>5
  <1>7. QED
    BY <1>1, <1>2, <1>3, <1>4, <1>5, <1>6

LEMMA StrcmpSorts ==
    ASSUME ArrayInv, fn = "my_strcmp", result # Running
    PROVE  /\ (result < 0) <=> SortsBefore(Text(dst), Text(src))
           /\ (result = 0) <=> Text(dst) = Text(src)
  <1>1. /\ src \in Arrays /\ dst \in Arrays /\ IsString(src) /\ IsString(dst)
        /\ NoEndBefore(src, i) /\ NoEndBefore(dst, i) /\ i \in Nat /\ i \in Cell
        /\ \A k \in 0 .. i - 1 : dst[k] = src[k]
        /\ result = dst[i] - src[i] /\ (dst[i] = 0 \/ dst[i] # src[i])
    BY DEF ArrayInv, ArrayTyped, Turns, StrcmpTurn, Strings, NoEndBefore
  <1>2. PICK p \in Nat, q \in Nat : p = dst[i] /\ q = src[i]
    BY <1>1, Cells
  <1>3. PICK x \in Seq(Nat) : /\ x = Text(dst) /\ Len(x) = EndOf(dst) /\ EndOf(dst) \in Nat
                              /\ \A k \in 1 .. EndOf(dst) : x[k] = dst[k - 1] /\ x[k] > 0
    BY <1>1, TextOfString
  <1>4. PICK y \in Seq(Nat) : /\ y = Text(src) /\ Len(y) = EndOf(src) /\ EndOf(src) \in Nat
                              /\ \A k \in 1 .. EndOf(src) : y[k] = src[k - 1] /\ y[k] > 0
    BY <1>1, TextOfString
  <1>5. /\ i <= Len(x) /\ (dst[i] = 0 => Len(x) = i) /\ (dst[i] # 0 => i < Len(x))
        /\ i <= Len(y) /\ (src[i] = 0 => Len(y) = i) /\ (src[i] # 0 => i < Len(y))
    BY <1>1, <1>3, <1>4, EndIsWhere
  <1>6. ASSUME NEW k \in 1 .. i PROVE x[k] = y[k]
    <2>1. k \in 1 .. Len(x) /\ k \in 1 .. Len(y) /\ k - 1 \in 0 .. i - 1
      BY <1>1, <1>3, <1>4, <1>5
    <2>2. QED
      BY <1>1, <1>3, <1>4, <2>1
  <1>7. p = CharAt(x, i)
    <2>1. CASE i < Len(x)
      <3>1. i + 1 \in 1 .. Len(x) /\ (i + 1) - 1 = i
        BY <1>1, <1>3, <2>1
      <3>2. x[i + 1] = dst[(i + 1) - 1]
        BY <1>3, <3>1
      <3>3. QED
        BY <1>2, <2>1, <3>1, <3>2 DEF CharAt
    <2>2. CASE ~(i < Len(x))
      BY <1>2, <1>5, <2>2 DEF CharAt
    <2>3. QED
      BY <2>1, <2>2
  <1>8. q = CharAt(y, i)
    <2>1. CASE i < Len(y)
      <3>1. i + 1 \in 1 .. Len(y) /\ (i + 1) - 1 = i
        BY <1>1, <1>4, <2>1
      <3>2. y[i + 1] = src[(i + 1) - 1]
        BY <1>4, <3>1
      <3>3. QED
        BY <1>2, <2>1, <3>1, <3>2 DEF CharAt
    <2>2. CASE ~(i < Len(y))
      BY <1>2, <1>5, <2>2 DEF CharAt
    <2>3. QED
      BY <2>1, <2>2
  <1>9. /\ \A k \in 1 .. Len(x) : x[k] > 0
        /\ \A k \in 1 .. Len(y) : y[k] > 0
    BY <1>3, <1>4
  <1>10. p = 0 \/ p # q
    BY <1>1, <1>2
  <1>11. (p < q <=> SortsBefore(x, y)) /\ (p = q <=> x = y)
    <2>1. i <= Len(x) /\ i <= Len(y) /\ i \in Nat
      BY <1>1, <1>5
    <2>2. CharAt(x, i) = 0 \/ CharAt(x, i) # CharAt(y, i)
      BY <1>7, <1>8, <1>10
    <2>3. /\ CharAt(x, i) < CharAt(y, i) <=> SortsBefore(x, y)
          /\ CharAt(x, i) = CharAt(y, i) <=> x = y
      BY <2>1, <2>2, <1>6, <1>9, Compared
    <2>4. QED
      BY <2>3, <1>7, <1>8, Zenon
  <1>12. result = p - q
    BY <1>1, <1>2
  <1>13. (result < 0 <=> p < q) /\ (result = 0 <=> p = q)
    BY <1>12
  <1>14. QED
    BY <1>3, <1>4, <1>11, <1>13
LEMMA MaxIs ==
    ASSUME NEW S \in SUBSET Nat, NEW m \in S, \A y \in S : m >= y
    PROVE  Max(S) = m
  <1>1. \E x \in S : \A y \in S : x >= y
    OBVIOUS
  <1>2. Max(S) \in S /\ \A y \in S : Max(S) >= y
    BY <1>1 DEF Max
  <1>3. PICK x \in Nat : x = Max(S)
    BY <1>2
  <1>4. x >= m /\ m >= x /\ m \in Nat
    BY <1>2, <1>3
  <1>5. QED
    BY <1>3, <1>4

LEMMA FindMaxFinds ==
    ASSUME ArrayInv, fn = "find_max", result # Running
    PROVE  result = Max({dst[k] : k \in 0 .. n - 1})
  <1> DEFINE S == {dst[k] : k \in 0 .. n - 1}
  <1>1. /\ dst \in Arrays /\ n \in 0 .. CELLS /\ CELLS \in Nat /\ i = n /\ result = max
        /\ \A k \in 0 .. i - 1 : dst[k] <= max
        /\ \E k \in 0 .. n - 1 : max = dst[k]
    BY ArrayLoopsAssumption DEF ArrayInv, ArrayTyped, Turns, FindMaxTurn
  <1>2. \A k \in 0 .. n - 1 : k \in Cell
    BY <1>1 DEF Cell
  <1>3. \A k \in 0 .. n - 1 : dst[k] \in Nat
    BY <1>1, <1>2, Cells
  <1>4. S \in SUBSET Nat
    BY <1>3
  <1>5. max \in S
    BY <1>1
  <1>6. max \in Nat
    BY <1>4, <1>5
  <1>7. \A y \in S : max >= y
    <2> SUFFICES ASSUME NEW k \in 0 .. n - 1 PROVE max >= dst[k]
      OBVIOUS
    <2>1. QED
      BY <1>1, <1>3, <1>6
  <1> HIDE DEF S
  <1>8. Max(S) = max
    BY <1>4, <1>5, <1>7, MaxIs
  <1>9. QED
    BY <1>1, <1>8 DEF S

LEMMA ReverseReverses ==
    ASSUME ArrayInv, fn = "reverse_array", result # Running
    PROVE  dst = Written([k \in Cell |-> dst0[(n - 1 - k) % CELLS]], n)
  <1>1. /\ j = n - 1 - i /\ i >= j /\ dst = Reversed
        /\ n \in 0 .. CELLS /\ i \in Nat /\ j \in Int /\ CELLS \in Nat \ {0}
    BY ArrayLoopsAssumption DEF ArrayInv, ArrayTyped, Turns, ReverseTurn
  <1>2. ASSUME NEW k \in Cell
        PROVE  (IF k < n /\ (k < i \/ k > j) THEN dst0[n - 1 - k] ELSE dst0[k])
                 = IF k < n THEN dst0[(n - 1 - k) % CELLS] ELSE dst0[k]
    <2>1. k \in 0 .. CELLS - 1
      BY DEF Cell
    <2>2. CASE k < n
      <3>1. n - 1 - k \in 0 .. CELLS - 1
        BY <1>1, <2>1, <2>2
      <3>2. (n - 1 - k) % CELLS = n - 1 - k
        <4>1. 0 \in Int /\ 0 * CELLS + (n - 1 - k) = n - 1 - k
          BY <1>1, <3>1
        <4>2. (0 * CELLS + (n - 1 - k)) % CELLS = n - 1 - k
          BY <1>1, <3>1, <4>1, RemainderUnique
        <4>3. QED
          BY <4>1, <4>2
      <3>3. CASE k < i \/ k > j
        BY <2>2, <3>2, <3>3
      <3>4. CASE ~(k < i \/ k > j)
        <4>1. n - 1 - k = k
          BY <1>1, <2>1, <3>4
        <4>2. QED
          BY <2>2, <3>2, <3>4, <4>1
      <3>5. QED
        BY <3>3, <3>4
    <2>3. CASE ~(k < n)
      BY <2>3
    <2>4. QED
      BY <2>2, <2>3
  <1>3. Written([k \in Cell |-> dst0[(n - 1 - k) % CELLS]], n)
          = [k \in Cell |-> IF k < n THEN dst0[(n - 1 - k) % CELLS] ELSE dst0[k]]
    BY DEF Written
  <1>4. QED
    BY <1>1, <1>2, <1>3 DEF Reversed

LEMMA TurnsMeetDefinition == ArrayInv => LoopsMeetDefinition
  <1> SUFFICES ASSUME ArrayInv PROVE LoopsMeetDefinition
    OBVIOUS
  <1>1. ArrayLoopsMeetDefinition
    <2> SUFFICES ASSUME result # Running
                 PROVE  /\ fn = "my_memcpy" => dst = Written(src, n)
                        /\ fn = "my_memset" => dst = Written([k \in Cell |-> src[0]], n)
                        /\ fn = "find_max" => result = Max({dst[k] : k \in 0 .. n - 1})
                        /\ fn = "reverse_array" =>
                              dst = Written([k \in Cell |-> dst0[(n - 1 - k) % CELLS]], n)
      BY Zenon DEF ArrayLoopsMeetDefinition
    <2>1. fn = "my_memcpy" => dst = Written(src, n)
      BY DEF ArrayInv, Turns, MemcpyTurn, Filled
    <2>2. fn = "my_memset" => dst = Written([k \in Cell |-> src[0]], n)
      BY DEF ArrayInv, Turns, MemsetTurn, Filled
    <2>3. QED
      BY <2>1, <2>2, FindMaxFinds, ReverseReverses
  <1>2. StringLoopsMeetDefinition
    <2> SUFFICES ASSUME result # Running
                 PROVE  /\ fn = "my_strlen" => result = EndOf(src)
                        /\ fn = "my_strcpy" => dst = Written(src, EndOf(src) + 1)
                        /\ fn = "my_strcmp" =>
                              /\ (result < 0) <=> SortsBefore(Text(dst), Text(src))
                              /\ (result = 0) <=> Text(dst) = Text(src)
      BY Zenon DEF StringLoopsMeetDefinition
    <2>1. ASSUME fn = "my_strlen" PROVE result = EndOf(src)
      <3>1. src \in Arrays /\ IsString(src) /\ NoEndBefore(src, i) /\ result = i /\ src[i] = 0
        BY <2>1 DEF ArrayInv, ArrayTyped, Turns, StrlenTurn, Strings
      <3>2. QED
        BY <3>1, EndIsWhere
    <2>2. ASSUME fn = "my_strcpy" PROVE dst = Written(src, EndOf(src) + 1)
      <3>1. /\ src \in Arrays /\ IsString(src) /\ NoEndBefore(src, i)
            /\ src[i] = 0 /\ dst = Written(src, i + 1)
        BY <2>2 DEF ArrayInv, ArrayTyped, Turns, StrcpyTurn, Strings
      <3>2. EndOf(src) = i
        BY <3>1, EndIsWhere
      <3>3. QED
        BY <3>1, <3>2, Zenon
    <2>3. QED
      BY <2>1, <2>2, StrcmpSorts
  <1>3. StaysInside
    <2> SUFFICES ASSUME result = Running PROVE StaysInside
      BY DEF StaysInside
    <2>1. fn \in {"my_memcpy", "my_memset", "find_max"} => i <= n
      BY DEF ArrayInv, Turns, MemcpyTurn, MemsetTurn, FindMaxTurn, Filled
    <2>2. fn = "reverse_array" => i <= j + 2 /\ (i < j => j < n)
      BY ArrayLoopsAssumption DEF ArrayInv, ArrayTyped, Turns, ReverseTurn
    <2>3. fn \in Strings => i <= EndOf(src)
      <3> SUFFICES ASSUME fn \in Strings PROVE i <= EndOf(src)
        OBVIOUS
      <3>1. src \in Arrays /\ IsString(src) /\ NoEndBefore(src, i)
        BY DEF ArrayInv, ArrayTyped, Turns, StrlenTurn, StrcpyTurn, StrcmpTurn, Strings
      <3>2. QED
        BY <3>1, EndIsWhere
    <2>4. fn = "my_strcmp" => i <= EndOf(dst)
      <3> SUFFICES ASSUME fn = "my_strcmp" PROVE i <= EndOf(dst)
        OBVIOUS
      <3>1. dst \in Arrays /\ IsString(dst) /\ NoEndBefore(dst, i)
        BY DEF ArrayInv, ArrayTyped, Turns, StrcmpTurn
      <3>2. QED
        BY <3>1, EndIsWhere
    <2>5. QED
      BY <2>1, <2>2, <2>3, <2>4 DEF StaysInside
  <1>4. QED
    BY <1>1, <1>2, <1>3 DEF LoopsMeetDefinition

\* For arrays of any size over any characters: each loop leaves and returns what
\* its name promises, and reads and writes nothing past the length or the
\* terminator; my_strcmp sorts as the order of strings does.
THEOREM LoopsExact == ArraySpec => []LoopsMeetDefinition
  BY InitArrayInv, NextArrayInv, TurnsMeetDefinition, PTL DEF ArraySpec
------------------------------------------------------------------------------
(* The linked list, for any set of addresses and bytes. What a recursive     *)
(* walk would find is stated by its result: a path of distinct nodes.        *)

NodeAt(path, k) == IF k \in 1 .. Len(path) THEN path[k] ELSE NULL
Nodes(path)     == {path[k] : k \in 1 .. Len(path)}

\* Following next from first in h visits the nodes of path, each once, and ends.
Links(h, first, path) ==
    /\ first = NodeAt(path, 1)
    /\ \A k, m \in 1 .. Len(path) : path[k] = path[m] => k = m
    /\ \A k \in 1 .. Len(path) : path[k] \in DOMAIN h /\ h[path[k]].next = NodeAt(path, k + 1)

\* The nodes of path hold the bytes, in order.
Holds(h, path, bytes) == /\ Len(path) = Len(bytes)
                         /\ \A k \in 1 .. Len(path) : h[path[k]].data = bytes[k]

\* Outside pushes and frees the path from head is all of the heap; the cursor of
\* a walk is on it, with what lies before already shown.
ListWhole(path) ==
    /\ list_call \in {"none", "walk", "walked"} /\ fresh = NULL
    /\ Links(list_heap, list_head, path)
    /\ Nodes(path) = Live /\ Holds(list_heap, path, wanted)
    /\ IF list_call = "walk"
       THEN \E m \in 1 .. Len(path) + 1 : /\ curr = NodeAt(path, m)
                                          /\ walked = SubSeq(wanted, 1, m - 1)
       ELSE curr = NULL
    /\ list_call = "walked" => walked = wanted

\* list_push_back holds a node that is not linked yet, and walks to the last.
ListPushing(path) ==
    /\ list_call = "push_back"
    /\ Links(list_heap, list_head, path)
    /\ fresh \in ListNode \ Nodes(path) /\ Live = Nodes(path) \cup {fresh}
    /\ curr \in Nodes(path)
    /\ list_heap[fresh].next = NULL
    /\ Holds(list_heap, Append(path, fresh), wanted)

\* list_free has freed what is before the cursor.
ListFreeing(path) ==
    /\ list_call = "free" /\ fresh = NULL
    /\ Links(list_heap, curr, path) /\ Nodes(path) = Live

ListInv ==
    /\ ListTypeOK /\ wanted \in Seq(ListData)
    /\ \E path \in Seq(ListNode) : ListWhole(path) \/ ListPushing(path) \/ ListFreeing(path)

LEMMA NodeAtIs ==
    ASSUME NEW path \in Seq(ListNode), NEW k \in Nat
    PROVE  /\ NodeAt(path, k) = NULL <=> k \notin 1 .. Len(path)
           /\ k \in 1 .. Len(path) => NodeAt(path, k) = path[k] /\ path[k] \in ListNode
           /\ NodeAt(path, k) \in ListNode \cup {NULL}
  BY LinkedListAssumption DEF NodeAt

\* A path with one more node in front.
LEMMA Prepended ==
    ASSUME NEW path \in Seq(ListNode), NEW p \in ListNode
    PROVE  \E longer \in Seq(ListNode) :
              /\ Len(longer) = Len(path) + 1
              /\ longer[1] = p
              /\ \A k \in 1 .. Len(path) : longer[k + 1] = path[k]
  <1> DEFINE longer == [k \in 1 .. Len(path) + 1 |-> IF k = 1 THEN p ELSE path[k - 1]]
  <1>1. Len(path) + 1 \in Nat
    OBVIOUS
  <1>2. \A k \in 1 .. Len(path) + 1 : longer[k] \in ListNode
    OBVIOUS
  <1>3. longer \in Seq(ListNode)
    BY <1>1, <1>2, IsASeq
  <1>4. Len(longer) = Len(path) + 1
    BY <1>1, <1>3, LenProperties
  <1>5. longer[1] = p /\ \A k \in 1 .. Len(path) : longer[k + 1] = path[k]
    OBVIOUS
  <1>6. QED
    BY <1>3, <1>4, <1>5

\* A node linked in front of a path, as list_push_front links it.
LEMMA LinksInFront ==
    ASSUME NEW h, NEW first, NEW d, NEW path \in Seq(ListNode),
           Links(h, first, path), NEW p \in ListNode \ DOMAIN h
    PROVE  \E longer \in Seq(ListNode) :
              /\ Len(longer) = Len(path) + 1
              /\ longer[1] = p
              /\ \A k \in 1 .. Len(path) : longer[k + 1] = path[k]
              /\ Links(With(h, p, ListFields(d, first)), p, longer)
              /\ Nodes(longer) = Nodes(path) \cup {p}
  <1>1. PICK longer \in Seq(ListNode) :
           /\ Len(longer) = Len(path) + 1
           /\ longer[1] = p
           /\ \A k \in 1 .. Len(path) : longer[k + 1] = path[k]
    BY Prepended
  <1> DEFINE grown == With(h, p, ListFields(d, first))
  <1>2. /\ DOMAIN grown = DOMAIN h \cup {p}
        /\ grown[p].next = first
        /\ \A x \in DOMAIN h : grown[x] = h[x]
    BY DEF With, ListFields
  <1> HIDE DEF grown
  <1>3. \A k \in 2 .. Len(longer) : k - 1 \in 1 .. Len(path) /\ longer[k] = path[k - 1]
    BY <1>1
  <1>4. \A k \in 1 .. Len(path) : path[k] # p /\ path[k] \in DOMAIN h
    BY DEF Links
  <1>5. p = NodeAt(longer, 1)
    BY <1>1 DEF NodeAt
  <1>6. ASSUME NEW k \in 1 .. Len(longer), NEW m \in 1 .. Len(longer),
               longer[k] = longer[m]
        PROVE  k = m
    <2>1. CASE k = 1 \/ m = 1
      BY <1>1, <1>3, <1>4, <1>6, <2>1
    <2>2. CASE k # 1 /\ m # 1
      <3>1. k - 1 \in 1 .. Len(path) /\ m - 1 \in 1 .. Len(path)
        BY <1>3, <2>2
      <3>2. path[k - 1] = path[m - 1]
        BY <1>3, <1>6, <2>2
      <3>3. k - 1 = m - 1
        BY <3>1, <3>2 DEF Links
      <3>4. QED
        BY <3>3
    <2>3. QED
      BY <2>1, <2>2
  <1>7. ASSUME NEW k \in 1 .. Len(longer)
        PROVE  longer[k] \in DOMAIN grown /\ grown[longer[k]].next = NodeAt(longer, k + 1)
    <2>1. CASE k = 1
      <3>1. first = NodeAt(longer, 2)
        BY <1>1, <1>3 DEF Links, NodeAt
      <3>2. QED
        BY <1>1, <1>2, <2>1, <3>1
    <2>2. CASE k # 1
      <3>1. k - 1 \in 1 .. Len(path) /\ longer[k] = path[k - 1]
        BY <1>3, <2>2
      <3>2. h[path[k - 1]].next = NodeAt(path, (k - 1) + 1) /\ path[k - 1] \in DOMAIN h
        BY <3>1 DEF Links
      <3>3. NodeAt(path, (k - 1) + 1) = NodeAt(longer, k + 1)
        BY <1>1, <1>3, <3>1 DEF NodeAt
      <3>4. QED
        BY <1>2, <3>1, <3>2, <3>3
    <2>3. QED
      BY <2>1, <2>2
  <1>8. Links(grown, p, longer)
    BY <1>5, <1>6, <1>7 DEF Links
  <1>9. Nodes(longer) = Nodes(path) \cup {p}
    <2>1. Nodes(longer) \subseteq Nodes(path) \cup {p}
      BY <1>1, <1>3 DEF Nodes
    <2>2. Nodes(path) \subseteq Nodes(longer)
      <3>1. \A k \in 1 .. Len(path) : k + 1 \in 1 .. Len(longer) /\ longer[k + 1] = path[k]
        BY <1>1
      <3>2. QED
        BY <3>1 DEF Nodes
    <2>3. p \in Nodes(longer)
      BY <1>1 DEF Nodes
    <2>4. QED
      BY <2>1, <2>2, <2>3
  <1>10. QED
    BY <1>1, <1>8, <1>9 DEF grown

\* A node that is not on the path may be added to the heap.
LEMMA LinksBeside ==
    ASSUME NEW h, NEW first, NEW r, NEW path \in Seq(ListNode),
           Links(h, first, path), NEW p \in ListNode \ DOMAIN h
    PROVE  Links(With(h, p, r), first, path)
  <1>1. DOMAIN With(h, p, r) = DOMAIN h \cup {p}
    BY DEF With
  <1>2. \A x \in DOMAIN h : With(h, p, r)[x] = h[x]
    BY DEF With
  <1>3. QED
    BY <1>1, <1>2 DEF Links

\* A node linked behind the last of a path, as list_push_back links it.
LEMMA LinksBehind ==
    ASSUME NEW h, NEW first, NEW d, NEW path \in Seq(ListNode), path # <<>>,
           Links(h, first, path), NEW p \in ListNode, p \in DOMAIN h,
           p \notin Nodes(path), h[p].next = NULL
    PROVE  /\ Links(With(h, path[Len(path)], ListFields(d, p)), first, Append(path, p))
           /\ Nodes(Append(path, p)) = Nodes(path) \cup {p}
  <1> DEFINE longer == Append(path, p)
             last   == path[Len(path)]
             grown  == With(h, last, ListFields(d, p))
  <1>1. /\ longer \in Seq(ListNode) /\ Len(longer) = Len(path) + 1
        /\ longer[Len(path) + 1] = p
        /\ \A k \in 1 .. Len(path) : longer[k] = path[k]
    BY AppendProperties
  <1>2. Len(path) \in 1 .. Len(path)
    BY EmptySeq, LenProperties
  <1>3. last \in DOMAIN h /\ last # p
    BY <1>2 DEF Links, Nodes
  <1>4. /\ DOMAIN grown = DOMAIN h
        /\ grown[last].next = p
        /\ \A x \in DOMAIN h \ {last} : grown[x] = h[x]
    BY <1>3 DEF With, ListFields
  <1> HIDE DEF grown, longer
  <1>5. first = NodeAt(longer, 1)
    BY <1>1, <1>2 DEF Links, NodeAt
  <1>6. ASSUME NEW k \in 1 .. Len(longer), NEW m \in 1 .. Len(longer),
               longer[k] = longer[m]
        PROVE  k = m
    <2>1. \A x \in 1 .. Len(path) : path[x] # p
      BY DEF Nodes
    <2>2. k \in 1 .. Len(path) \/ k = Len(path) + 1
      BY <1>1
    <2>3. m \in 1 .. Len(path) \/ m = Len(path) + 1
      BY <1>1
    <2>4. QED
      BY <1>1, <1>6, <2>1, <2>2, <2>3 DEF Links
  <1>7. ASSUME NEW k \in 1 .. Len(longer)
        PROVE  longer[k] \in DOMAIN grown /\ grown[longer[k]].next = NodeAt(longer, k + 1)
    <2>1. CASE k = Len(path) + 1
      <3>1. longer[k] = p /\ NodeAt(longer, k + 1) = NULL
        BY <1>1, <2>1 DEF NodeAt
      <3>2. QED
        BY <1>3, <1>4, <3>1
    <2>2. CASE k = Len(path)
      <3>1. longer[k] = last /\ NodeAt(longer, k + 1) = p
        BY <1>1, <1>2, <2>2 DEF NodeAt
      <3>2. QED
        BY <1>3, <1>4, <3>1
    <2>3. CASE k < Len(path)
      <3>1. k \in 1 .. Len(path) /\ k + 1 \in 1 .. Len(path)
        BY <2>3
      <3>2. longer[k] = path[k] /\ NodeAt(longer, k + 1) = NodeAt(path, k + 1)
        BY <1>1, <3>1 DEF NodeAt
      <3>3. path[k] # last
        BY <1>2, <2>3, <3>1 DEF Links
      <3>4. path[k] \in DOMAIN h /\ h[path[k]].next = NodeAt(path, k + 1)
        BY <3>1 DEF Links
      <3>5. QED
        BY <1>4, <3>2, <3>3, <3>4
    <2>4. QED
      BY <1>1, <2>1, <2>2, <2>3
  <1>8. Links(grown, first, longer)
    BY <1>5, <1>6, <1>7 DEF Links
  <1>9. Nodes(longer) = Nodes(path) \cup {p}
    <2>1. 1 .. Len(longer) = (1 .. Len(path)) \cup {Len(path) + 1}
      BY <1>1
    <2>2. QED
      BY <1>1, <2>1 DEF Nodes
  <1>10. QED
    BY <1>8, <1>9 DEF grown, longer

\* The first node of a path taken out of the heap, as list_free takes it.
LEMMA LinksAfterFirst ==
    ASSUME NEW h, NEW first, NEW path \in Seq(ListNode), path # <<>>,
           Links(h, first, path), Nodes(path) = DOMAIN h
    PROVE  /\ Tail(path) \in Seq(ListNode)
           /\ Links(Without(h, first), h[first].next, Tail(path))
           /\ Nodes(Tail(path)) = DOMAIN Without(h, first)
  <1> DEFINE rest   == Tail(path)
             shrunk == Without(h, first)
  <1>1. /\ rest \in Seq(ListNode) /\ Len(rest) = Len(path) - 1
        /\ \A k \in 1 .. Len(rest) : rest[k] = path[k + 1]
    BY HeadTailProperties
  <1>2. 1 \in 1 .. Len(path)
    BY EmptySeq, LenProperties
  <1>3. first = path[1] /\ h[first].next = NodeAt(path, 2)
    BY <1>2 DEF Links, NodeAt
  <1>4. /\ DOMAIN shrunk = DOMAIN h \ {first}
        /\ \A x \in DOMAIN h \ {first} : shrunk[x] = h[x]
    BY DEF Without
  <1> HIDE DEF rest, shrunk
  <1>5. \A k \in 1 .. Len(rest) : k + 1 \in 1 .. Len(path) /\ rest[k] = path[k + 1]
    BY <1>1
  <1>6. \A k \in Nat : k >= 1 => NodeAt(rest, k) = NodeAt(path, k + 1)
    BY <1>1, <1>5 DEF NodeAt
  <1>7. h[first].next = NodeAt(rest, 1)
    BY <1>3, <1>6
  <1>8. ASSUME NEW k \in 1 .. Len(rest), NEW m \in 1 .. Len(rest), rest[k] = rest[m]
        PROVE  k = m
    <2>1. path[k + 1] = path[m + 1]
      BY <1>5, <1>8
    <2>2. k + 1 = m + 1
      BY <1>5, <2>1 DEF Links
    <2>3. QED
      BY <2>2
  <1>9. ASSUME NEW k \in 1 .. Len(rest)
        PROVE  rest[k] \in DOMAIN shrunk /\ shrunk[rest[k]].next = NodeAt(rest, k + 1)
    <2>1. path[k + 1] # path[1]
      BY <1>2, <1>5 DEF Links
    <2>2. path[k + 1] \in DOMAIN h /\ h[path[k + 1]].next = NodeAt(path, (k + 1) + 1)
      BY <1>5 DEF Links
    <2>3. NodeAt(path, (k + 1) + 1) = NodeAt(rest, k + 1)
      BY <1>6
    <2>4. QED
      BY <1>3, <1>4, <1>5, <2>1, <2>2, <2>3
  <1>10. Links(shrunk, h[first].next, rest)
    BY <1>7, <1>8, <1>9 DEF Links
  <1>11. Nodes(rest) = DOMAIN shrunk
    <2>1. Nodes(rest) \subseteq DOMAIN shrunk
      BY <1>9 DEF Nodes
    <2>2. ASSUME NEW x \in DOMAIN shrunk PROVE x \in Nodes(rest)
      <3>1. PICK k \in 1 .. Len(path) : x = path[k]
        BY <1>4 DEF Nodes
      <3>2. k # 1
        BY <1>3, <1>4, <3>1
      <3>3. k - 1 \in 1 .. Len(rest) /\ rest[k - 1] = path[k]
        BY <1>1, <3>2
      <3>4. QED
        BY <3>1, <3>3 DEF Nodes
    <2>3. QED
      BY <2>1, <2>2
  <1>12. QED
    BY <1>1, <1>10, <1>11 DEF rest, shrunk

LEMMA InitListInv == ListInit => ListInv
  <1> SUFFICES ASSUME ListInit PROVE ListInv
    OBVIOUS
  <1>1. Live = {}
    BY DEF ListInit, Live
  <1>2. ListTypeOK /\ wanted \in Seq(ListData)
    BY <1>1 DEF ListInit, ListTypeOK
  <1>3. <<>> \in Seq(ListNode) /\ Len(<<>>) = 0
    OBVIOUS
  <1>4. Links(list_heap, list_head, <<>>)
    BY <1>3 DEF Links, NodeAt, ListInit
  <1>5. Nodes(<<>>) = {}
    BY <1>3 DEF Nodes
  <1>6. Holds(list_heap, <<>>, wanted)
    BY <1>3 DEF Holds, ListInit
  <1>7. ListWhole(<<>>)
    BY <1>1, <1>4, <1>5, <1>6 DEF ListWhole, ListInit
  <1>8. QED
    BY <1>2, <1>3, <1>7 DEF ListInv

LEMMA ListPushFrontInv ==
    ASSUME ListInv, NEW d \in ListData, list_push_front(d)
    PROVE  ListInv'
  <1>1. PICK p \in ListNode : node_create(p, d, list_head) /\ list_head' = p
    BY DEF list_push_front
  <1>2. PICK path \in Seq(ListNode) : ListWhole(path)
    BY DEF ListInv, list_push_front, ListIdle, ListPushing, ListFreeing
  <1>3. /\ list_call = "none" /\ list_call' = "none" /\ curr' = curr /\ fresh' = fresh
        /\ wanted' = <<d>> \o wanted
    BY DEF list_push_front, ListIdle
  <1>4. p \in ListNode \ DOMAIN list_heap
        /\ list_heap' = With(list_heap, p, ListFields(d, list_head))
    BY <1>1 DEF node_create, Live
  <1>5. Links(list_heap, list_head, path)
    BY <1>2 DEF ListWhole
  <1>6. PICK longer \in Seq(ListNode) :
              /\ Len(longer) = Len(path) + 1
              /\ longer[1] = p
              /\ \A k \in 1 .. Len(path) : longer[k + 1] = path[k]
              /\ Links(With(list_heap, p, ListFields(d, list_head)), p, longer)
              /\ Nodes(longer) = Nodes(path) \cup {p}
    BY <1>4, <1>5, LinksInFront
  <1>7. /\ Live' = Live \cup {p}
        /\ list_heap'[p] = [data |-> d, next |-> list_head]
        /\ \A x \in Live : list_heap'[x] = list_heap[x]
    BY <1>4 DEF Live, With, ListFields
  <1>8. ListTypeOK'
    <2>1. list_heap'[p] \in [data : ListData, next : ListNode \cup {NULL}]
      BY <1>7 DEF ListInv, ListTypeOK
    <2>2. \A x \in Live' : list_heap'[x] \in [data : ListData, next : ListNode \cup {NULL}]
      BY <1>7, <2>1 DEF ListInv, ListTypeOK
    <2>3. QED
      BY <1>1, <1>3, <1>7, <2>2 DEF ListInv, ListTypeOK
  <1>9. /\ wanted' \in Seq(ListData) /\ Len(wanted') = Len(wanted) + 1
        /\ wanted'[1] = d
        /\ \A k \in 1 .. Len(wanted) : wanted'[k + 1] = wanted[k]
    BY <1>3 DEF ListInv
  <1>10. Holds(list_heap', longer, wanted')
    <2>1. Holds(list_heap, path, wanted) /\ Nodes(path) = Live
      BY <1>2 DEF ListWhole
    <2>2. Len(longer) = Len(wanted')
      BY <1>6, <1>9, <2>1 DEF Holds
    <2>3. ASSUME NEW k \in 1 .. Len(longer)
          PROVE  list_heap'[longer[k]].data = wanted'[k]
      <3>1. CASE k = 1
        BY <1>6, <1>7, <1>9, <3>1
      <3>2. CASE k # 1
        <4>1. PICK m \in 1 .. Len(path) : k = m + 1
          <5>1. k - 1 \in 1 .. Len(path)
            BY <1>6, <3>2
          <5>2. k = (k - 1) + 1
            OBVIOUS
          <5>3. QED
            BY <5>1, <5>2
        <4>2. longer[k] = path[m] /\ path[m] \in Live
          BY <1>6, <2>1, <4>1 DEF Nodes
        <4>3. list_heap'[longer[k]].data = list_heap[path[m]].data
          BY <1>7, <4>2
        <4>4. list_heap[path[m]].data = wanted[m] /\ wanted'[k] = wanted[m]
          BY <1>9, <2>1, <4>1 DEF Holds
        <4>5. QED
          BY <4>3, <4>4
      <3>3. QED
        BY <3>1, <3>2
    <2>4. QED
      BY <2>2, <2>3 DEF Holds
  <1>11. ListWhole(longer)'
    <2>1. curr = NULL /\ fresh = NULL /\ Nodes(path) = Live
      BY <1>2, <1>3 DEF ListWhole
    <2>2. QED
      BY <1>1, <1>3, <1>4, <1>6, <1>7, <1>10, <2>1 DEF ListWhole
  <1>12. QED
    BY <1>8, <1>9, <1>11 DEF ListInv

LEMMA ListPushBackInv ==
    ASSUME ListInv, NEW d \in ListData, list_push_back(d)
    PROVE  ListInv'
  <1>1. PICK p \in ListNode :
          /\ node_create(p, d, NULL)
          /\ IF list_head = NULL
             THEN list_head' = p /\ UNCHANGED <<list_call, curr, fresh>>
             ELSE /\ list_call' = "push_back"
                  /\ curr' = list_head /\ fresh' = p
                  /\ UNCHANGED list_head
    BY DEF list_push_back
  <1>2. PICK path \in Seq(ListNode) : ListWhole(path)
    BY DEF ListInv, list_push_back, ListIdle, ListPushing, ListFreeing
  <1>3. list_call = "none" /\ wanted' = Append(wanted, d)
    BY DEF list_push_back, ListIdle
  <1>4. p \in ListNode \ DOMAIN list_heap
        /\ list_heap' = With(list_heap, p, ListFields(d, NULL))
    BY <1>1 DEF node_create, Live
  <1>5. /\ Links(list_heap, list_head, path) /\ Nodes(path) = Live
        /\ Holds(list_heap, path, wanted) /\ curr = NULL /\ fresh = NULL
    BY <1>2, <1>3 DEF ListWhole
  <1>6. /\ Live' = Live \cup {p}
        /\ list_heap'[p] = [data |-> d, next |-> NULL]
        /\ \A x \in Live : list_heap'[x] = list_heap[x]
    BY <1>4 DEF Live, With, ListFields
  <1>7. ListTypeOK'
    BY <1>1, <1>6 DEF ListInv, ListTypeOK
  <1>8. /\ wanted' \in Seq(ListData) /\ Len(wanted') = Len(wanted) + 1
        /\ wanted'[Len(wanted) + 1] = d
        /\ \A k \in 1 .. Len(wanted) : wanted'[k] = wanted[k]
    BY <1>3, AppendProperties DEF ListInv
  <1>9. /\ Append(path, p) \in Seq(ListNode) /\ Len(Append(path, p)) = Len(path) + 1
        /\ Append(path, p)[Len(path) + 1] = p
        /\ \A k \in 1 .. Len(path) : Append(path, p)[k] = path[k]
    BY AppendProperties
  <1>10. Holds(list_heap', Append(path, p), wanted')
    <2>1. Len(path) = Len(wanted) /\ Len(path) \in Nat
      BY <1>5, LenProperties DEF Holds
    <2>2. Len(Append(path, p)) = Len(wanted')
      BY <1>8, <1>9, <2>1
    <2>3. ASSUME NEW k \in 1 .. Len(Append(path, p))
          PROVE  list_heap'[Append(path, p)[k]].data = wanted'[k]
      <3>1. CASE k = Len(path) + 1
        BY <1>6, <1>8, <1>9, <2>1, <3>1
      <3>2. CASE k \in 1 .. Len(path)
        <4>1. Append(path, p)[k] = path[k] /\ path[k] \in Live
          BY <1>5, <1>9, <3>2 DEF Nodes
        <4>2. list_heap'[path[k]] = list_heap[path[k]]
          BY <1>6, <4>1
        <4>3. list_heap[path[k]].data = wanted[k] /\ wanted'[k] = wanted[k]
          BY <1>5, <1>8, <2>1, <3>2 DEF Holds
        <4>4. QED
          BY <4>1, <4>2, <4>3
      <3>3. QED
        BY <1>9, <2>1, <3>1, <3>2
    <2>4. QED
      BY <2>2, <2>3 DEF Holds
  <1>11. CASE list_head = NULL
    <2>1. path = <<>> /\ Len(path) = 0
      <3>1. 1 \notin 1 .. Len(path)
        BY <1>5, <1>11, NodeAtIs DEF Links
      <3>2. Len(path) = 0
        BY <3>1, LenProperties
      <3>3. QED
        BY <3>2, EmptySeq
    <2>2. list_head' = p /\ list_call' = "none" /\ curr' = NULL /\ fresh' = NULL
      BY <1>1, <1>3, <1>5, <1>11
    <2>3. Nodes(Append(path, p)) = {p} /\ Live = {}
      BY <1>5, <1>9, <2>1 DEF Nodes
    <2>4. Links(list_heap', list_head', Append(path, p))
      <3>1. /\ NodeAt(Append(path, p), 1) = p
            /\ NodeAt(Append(path, p), 1 + 1) = NULL
        BY <1>9, <2>1 DEF NodeAt
      <3>2. 1 .. Len(Append(path, p)) = {1}
        BY <1>9, <2>1
      <3>3. p \in DOMAIN list_heap' /\ list_heap'[p].next = NULL
        BY <1>6 DEF Live
      <3>4. Append(path, p)[1] = p
        BY <1>9, <2>1
      <3>5. QED
        BY <2>2, <3>1, <3>2, <3>3, <3>4 DEF Links
    <2>5. ListWhole(Append(path, p))'
      BY <1>6, <1>10, <2>2, <2>3, <2>4 DEF ListWhole
    <2>6. QED
      BY <1>7, <1>8, <1>9, <2>5 DEF ListInv
  <1>12. CASE list_head # NULL
    <2>1. /\ list_call' = "push_back" /\ curr' = list_head /\ fresh' = p
          /\ list_head' = list_head
      BY <1>1, <1>12
    <2>2. Links(list_heap', list_head', path)
      BY <1>4, <1>5, <2>1, LinksBeside
    <2>3. list_head \in Nodes(path)
      BY <1>5, <1>12, NodeAtIs DEF Links, Nodes, NodeAt
    <2>4. p \in ListNode \ Nodes(path) /\ list_heap'[p].next = NULL
      BY <1>4, <1>5, <1>6 DEF Live
    <2>5. ListPushing(path)'
      BY <1>5, <1>6, <1>10, <2>1, <2>2, <2>3, <2>4 DEF ListPushing
    <2>6. QED
      BY <1>7, <1>8, <2>5 DEF ListInv
  <1>13. QED
    BY <1>11, <1>12

LEMMA PushBackWalkInv ==
    ASSUME ListInv, PushBackWalk
    PROVE  ListInv'
  <1>1. PICK path \in Seq(ListNode) : ListPushing(path)
    BY DEF ListInv, PushBackWalk, ListWhole, ListFreeing
  <1>2. /\ Links(list_heap, list_head, path)
        /\ fresh \in ListNode \ Nodes(path) /\ Live = Nodes(path) \cup {fresh}
        /\ list_heap[fresh].next = NULL
        /\ Holds(list_heap, Append(path, fresh), wanted)
    BY <1>1 DEF ListPushing
  <1>3. PICK m \in 1 .. Len(path) : curr = path[m]
    BY <1>1 DEF ListPushing, Nodes
  <1>4. list_heap[curr].next = NodeAt(path, m + 1) /\ m + 1 \in Nat
    BY <1>2, <1>3 DEF Links
  <1>5. list_head' = list_head /\ wanted' = wanted
    BY DEF PushBackWalk
  <1>6. CASE list_heap[curr].next # NULL
    <2>1. /\ curr' = list_heap[curr].next /\ list_heap' = list_heap
          /\ list_call' = list_call /\ fresh' = fresh
      BY <1>6 DEF PushBackWalk
    <2>2. curr' \in Nodes(path)
      BY <1>4, <1>6, <2>1, NodeAtIs DEF Nodes, NodeAt
    <2>3. ListPushing(path)'
      BY <1>1, <1>5, <2>1, <2>2 DEF ListPushing, Live
    <2>4. ListTypeOK'
      BY <1>4, <1>5, <2>1, NodeAtIs DEF ListInv, ListTypeOK, Live
    <2>5. QED
      BY <1>5, <2>3, <2>4 DEF ListInv
  <1>7. CASE list_heap[curr].next = NULL
    <2>1. /\ list_heap' = With(list_heap, curr, ListFields(list_heap[curr].data, fresh))
          /\ list_call' = "none" /\ curr' = NULL /\ fresh' = NULL
      BY <1>7 DEF PushBackWalk
    <2>2. m = Len(path)
      <3>1. m + 1 \notin 1 .. Len(path)
        BY <1>4, <1>7, NodeAtIs
      <3>2. QED
        BY <3>1
    <2>3. path # <<>> /\ fresh \in DOMAIN list_heap
      BY <1>2, <1>3, EmptySeq DEF Live
    <2>4. /\ Links(list_heap', list_head, Append(path, fresh))
          /\ Nodes(Append(path, fresh)) = Nodes(path) \cup {fresh}
      BY <1>2, <1>3, <2>1, <2>2, <2>3, LinksBehind
    <2>5. curr \in Live
      BY <1>2, <1>3 DEF Nodes
    <2>6. /\ Live' = Live
          /\ list_heap'[curr] = [data |-> list_heap[curr].data, next |-> fresh]
          /\ \A x \in Live \ {curr} : list_heap'[x] = list_heap[x]
      BY <2>1, <2>5 DEF Live, With, ListFields
    <2>7. \A x \in Live : list_heap'[x].data = list_heap[x].data
      BY <2>6
    <2>8. PICK longer \in Seq(ListNode) : longer = Append(path, fresh)
      BY <1>2, AppendProperties
    <2>9. Holds(list_heap', Append(path, fresh), wanted')
      <3>1. \A k \in 1 .. Len(Append(path, fresh)) : Append(path, fresh)[k] \in Live
        BY <1>2, <2>4 DEF Nodes
      <3>2. QED
        BY <1>2, <1>5, <2>7, <3>1 DEF Holds
    <2>10. ListWhole(longer)'
      <3>1. Links(list_heap', list_head', longer) /\ Holds(list_heap', longer, wanted')
        BY <1>5, <2>4, <2>8, <2>9
      <3>2. Nodes(longer) = Live'
        BY <1>2, <2>4, <2>6, <2>8
      <3>3. QED
        BY <2>1, <3>1, <3>2 DEF ListWhole
    <2>11. ListTypeOK'
      <3>1. list_heap[curr] \in [data : ListData, next : ListNode \cup {NULL}]
        BY <2>5 DEF ListInv, ListTypeOK
      <3>2. list_heap'[curr] \in [data : ListData, next : ListNode \cup {NULL}]
        BY <1>2, <2>6, <3>1
      <3>3. \A x \in Live' : list_heap'[x] \in [data : ListData, next : ListNode \cup {NULL}]
        BY <2>6, <3>2 DEF ListInv, ListTypeOK
      <3>4. QED
        BY <1>5, <2>1, <2>6, <3>3 DEF ListInv, ListTypeOK
    <2>12. QED
      BY <1>5, <2>8, <2>10, <2>11 DEF ListInv
  <1>8. QED
    BY <1>6, <1>7

LEMMA ListWalkStartInv == ASSUME ListInv, ListWalkStart PROVE ListInv'
  <1>1. PICK path \in Seq(ListNode) : ListWhole(path)
    BY DEF ListInv, ListWalkStart, ListIdle, ListPushing, ListFreeing
  <1>2. /\ list_call' = "walk" /\ curr' = list_head /\ walked' = <<>>
        /\ UNCHANGED <<list_heap, list_head, fresh, wanted>>
    BY DEF ListWalkStart
  <1>3. 1 \in 1 .. Len(path) + 1 /\ curr' = NodeAt(path, 1)
    BY <1>1, <1>2, LenProperties DEF ListWhole, Links
  <1>4. walked' = SubSeq(wanted', 1, 1 - 1)
    BY <1>2 DEF ListInv
  <1>5. ListWhole(path)'
    BY <1>1, <1>2, <1>3, <1>4 DEF ListWhole, Live
  <1>6. ListTypeOK'
    BY <1>2 DEF ListInv, ListTypeOK, Live
  <1>7. QED
    BY <1>2, <1>5, <1>6 DEF ListInv

LEMMA ListWalkInv == ASSUME ListInv, ListWalk PROVE ListInv'
  <1>1. PICK path \in Seq(ListNode) : ListWhole(path)
    BY DEF ListInv, ListWalk, ListPushing, ListFreeing
  <1>2. /\ list_call = "walk" /\ fresh = NULL
        /\ Links(list_heap, list_head, path)
        /\ Nodes(path) = Live /\ Holds(list_heap, path, wanted)
        /\ UNCHANGED <<list_heap, list_head, fresh, wanted>>
    BY <1>1 DEF ListWalk, ListWhole
  <1>3. PICK m \in 1 .. Len(path) + 1 : /\ curr = NodeAt(path, m)
                                        /\ walked = SubSeq(wanted, 1, m - 1)
    BY <1>1, <1>2 DEF ListWhole
  <1>4. Len(path) \in Nat /\ Len(path) = Len(wanted) /\ wanted \in Seq(ListData)
    BY <1>2, LenProperties DEF Holds, ListInv
  <1>5. CASE curr # NULL
    <2>1. /\ walked' = Append(walked, list_heap[curr].data)
          /\ curr' = list_heap[curr].next /\ list_call' = "walk"
      BY <1>2, <1>5 DEF ListWalk
    <2>2. m \in 1 .. Len(path) /\ curr = path[m]
      BY <1>3, <1>5 DEF NodeAt
    <2>3. curr' = NodeAt(path, m + 1) /\ m + 1 \in 1 .. Len(path) + 1
      BY <1>2, <1>4, <2>1, <2>2 DEF Links
    <2>4. list_heap[curr].data = wanted[m]
      BY <1>2, <2>2 DEF Holds
    <2>5. walked' = SubSeq(wanted', 1, (m + 1) - 1)
      BY <1>2, <1>3, <1>4, <2>1, <2>2, <2>4
    <2>6. ListWhole(path)'
      BY <1>2, <2>1, <2>3, <2>5 DEF ListWhole, Live
    <2>7. ListTypeOK'
      BY <1>2, <1>4, <2>3, NodeAtIs DEF ListInv, ListTypeOK, Live
    <2>8. QED
      BY <1>2, <2>6, <2>7 DEF ListInv
  <1>6. CASE curr = NULL
    <2>1. list_call' = "walked" /\ walked' = walked /\ curr' = curr
      BY <1>2, <1>6 DEF ListWalk
    <2>2. m = Len(path) + 1
      <3>1. m \in Nat
        BY <1>4
      <3>2. m \notin 1 .. Len(path)
        BY <1>3, <1>6, <3>1, NodeAtIs
      <3>3. QED
        BY <1>4, <3>2
    <2>3. walked = wanted
      BY <1>3, <1>4, <2>2
    <2>4. ListWhole(path)'
      BY <1>2, <1>6, <2>1, <2>3 DEF ListWhole, Live
    <2>5. ListTypeOK'
      BY <1>2, <2>1 DEF ListInv, ListTypeOK, Live
    <2>6. QED
      BY <1>2, <2>4, <2>5 DEF ListInv
  <1>7. QED
    BY <1>5, <1>6

LEMMA ListWalkReturnInv == ASSUME ListInv, ListWalkReturn PROVE ListInv'
  <1>1. PICK path \in Seq(ListNode) : ListWhole(path)
    BY DEF ListInv, ListWalkReturn, ListPushing, ListFreeing
  <1>2. /\ list_call' = "none" /\ walked' = <<>> /\ curr' = NULL
        /\ UNCHANGED <<list_heap, list_head, fresh, wanted>>
    BY DEF ListWalkReturn
  <1>3. ListWhole(path)'
    BY <1>1, <1>2 DEF ListWhole, Live
  <1>4. ListTypeOK'
    BY <1>2 DEF ListInv, ListTypeOK, Live
  <1>5. QED
    BY <1>2, <1>3, <1>4 DEF ListInv

LEMMA ListFreeInv == ASSUME ListInv, list_free PROVE ListInv'
  <1>1. PICK path \in Seq(ListNode) : ListWhole(path)
    BY DEF ListInv, list_free, ListIdle, ListPushing, ListFreeing
  <1>2. /\ list_call' = "free" /\ curr' = list_head
        /\ UNCHANGED <<list_heap, list_head, fresh, walked, wanted>>
    BY DEF list_free
  <1>3. ListFreeing(path)'
    BY <1>1, <1>2 DEF ListWhole, ListFreeing, Live
  <1>4. ListTypeOK'
    BY <1>2 DEF ListInv, ListTypeOK, Live
  <1>5. QED
    BY <1>2, <1>3, <1>4 DEF ListInv

LEMMA FreeNodeInv == ASSUME ListInv, FreeNode PROVE ListInv'
  <1>1. PICK path \in Seq(ListNode) : ListFreeing(path)
    BY DEF ListInv, FreeNode, ListWhole, ListPushing
  <1>2. /\ list_call = "free" /\ curr # NULL /\ curr' = list_heap[curr].next
        /\ list_heap' = Without(list_heap, curr)
        /\ UNCHANGED <<list_head, list_call, fresh, walked, wanted>>
    BY DEF FreeNode
  <1>3. Links(list_heap, curr, path) /\ Nodes(path) = DOMAIN list_heap
    BY <1>1 DEF ListFreeing, Live
  <1>4. 1 \in 1 .. Len(path)
    BY <1>2, <1>3 DEF Links, NodeAt
  <1>5. path # <<>>
    BY <1>4, EmptySeq
  <1>6. PICK rest \in Seq(ListNode) :
           /\ Links(list_heap', curr', rest)
           /\ Nodes(rest) = DOMAIN list_heap'
    BY <1>2, <1>3, <1>5, LinksAfterFirst
  <1>7. ListFreeing(rest)'
    BY <1>1, <1>2, <1>6 DEF ListFreeing, Live
  <1>8. /\ Live' \subseteq Live
        /\ \A x \in Live' : list_heap'[x] = list_heap[x]
    BY <1>2 DEF Without, Live
  <1>9. curr' \in ListNode \cup {NULL}
    BY <1>6, NodeAtIs DEF Links
  <1>10. ListTypeOK'
    BY <1>2, <1>8, <1>9 DEF ListInv, ListTypeOK
  <1>11. QED
    BY <1>2, <1>7, <1>10 DEF ListInv

LEMMA FreeEndInv == ASSUME ListInv, FreeEnd PROVE ListInv'
  <1>1. PICK path \in Seq(ListNode) : ListFreeing(path)
    BY DEF ListInv, FreeEnd, ListWhole, ListPushing
  <1>2. /\ list_call = "free" /\ curr = NULL /\ list_head' = NULL
        /\ list_call' = "none" /\ wanted' = <<>>
        /\ UNCHANGED <<list_heap, curr, fresh, walked>>
    BY DEF FreeEnd
  <1>3. Links(list_heap, curr, path) /\ Nodes(path) = Live /\ fresh = NULL
    BY <1>1 DEF ListFreeing
  <1>4. 1 \notin 1 .. Len(path)
    BY <1>2, <1>3, NodeAtIs DEF Links
  <1>5. Len(path) = 0
    BY <1>4, LenProperties
  <1>6. /\ Links(list_heap', list_head', path)
        /\ Holds(list_heap', path, wanted') /\ Nodes(path) = Live'
    BY <1>2, <1>3, <1>5 DEF Links, NodeAt, Holds, Live
  <1>7. ListWhole(path)'
    BY <1>2, <1>3, <1>6 DEF ListWhole
  <1>8. ListTypeOK' /\ wanted' \in Seq(ListData)
    BY <1>2 DEF ListInv, ListTypeOK, Live
  <1>9. QED
    BY <1>7, <1>8 DEF ListInv

LEMMA NextListInv == ListInv /\ [ListNext]_listVars => ListInv'
  <1> SUFFICES ASSUME ListInv, [ListNext]_listVars PROVE ListInv'
    OBVIOUS
  <1>1. ASSUME NEW d \in ListData, list_push_front(d) PROVE ListInv'
    BY <1>1, ListPushFrontInv
  <1>2. ASSUME NEW d \in ListData, list_push_back(d) PROVE ListInv'
    BY <1>2, ListPushBackInv
  <1>3. CASE PushFails \/ UNCHANGED listVars
    <2>1. UNCHANGED listVars
      BY <1>3 DEF PushFails
    <2>2. QED
      BY <2>1 DEF listVars, ListInv, ListTypeOK, ListWhole, ListPushing, ListFreeing, Live
  <1>4. CASE ListWalkStart
    BY <1>4, ListWalkStartInv
  <1>5. CASE list_free
    BY <1>5, ListFreeInv
  <1>6. CASE PushBackWalk
    BY <1>6, PushBackWalkInv
  <1>7. CASE ListWalk
    BY <1>7, ListWalkInv
  <1>8. CASE ListWalkReturn
    BY <1>8, ListWalkReturnInv
  <1>9. CASE FreeNode
    BY <1>9, FreeNodeInv
  <1>10. CASE FreeEnd
    BY <1>10, FreeEndInv
  <1>11. QED
    BY <1>1, <1>2, <1>3, <1>4, <1>5, <1>6, <1>7, <1>8, <1>9, <1>10 DEF ListNext, ListRun

\* As many nodes as the path is long.
LEMMA NodesCounted ==
    ASSUME NEW h, NEW first, NEW path \in Seq(ListNode), Links(h, first, path)
    PROVE  Cardinality(Nodes(path)) = Len(path) /\ Len(path) <= Cardinality(ListNode)
  <1>1. path \in [1 .. Len(path) -> Nodes(path)] /\ Len(path) \in Nat
    <2>1. DOMAIN path = 1 .. Len(path) /\ Len(path) \in Nat
      BY LenProperties
    <2>2. path = [k \in 1 .. Len(path) |-> path[k]]
      BY LenProperties
    <2>3. QED
      BY <2>1, <2>2 DEF Nodes
  <1>2. path \in Injection(1 .. Len(path), Nodes(path))
    BY <1>1 DEF Injection, IsInjective, Links
  <1>3. path \in Surjection(1 .. Len(path), Nodes(path))
    BY <1>1 DEF Surjection, Nodes
  <1>4. ExistsBijection(1 .. Len(path), Nodes(path))
    BY <1>2, <1>3 DEF ExistsBijection, Bijection
  <1>5. Cardinality(Nodes(path)) = Len(path)
    BY <1>1, <1>4, FS_CountingElements
  <1>6. Nodes(path) \in SUBSET ListNode
    BY DEF Nodes
  <1>7. QED
    BY <1>5, <1>6, FS_Subset, LinkedListAssumption

\* What Chain finds is the path.
LEMMA ChainIsPath ==
    ASSUME ListTypeOK, NEW path \in Seq(ListNode), Links(list_heap, list_head, path)
    PROVE  /\ DOMAIN Chain = 0 .. Cardinality(ListNode)
           /\ \A k \in 0 .. Cardinality(ListNode) : Chain[k] = NodeAt(path, k + 1)
  <1>1. PICK last \in Nat : last = Cardinality(ListNode)
    BY FS_CardinalityType, LinkedListAssumption
  <1> DEFINE Steps(g) == [k \in 0 .. last |->
                            IF k = 0 THEN list_head
                            ELSE IF g[k - 1] \in Live THEN list_heap[g[k - 1]].next ELSE NULL]
             shown == [k \in 0 .. last |-> NodeAt(path, k + 1)]
  <1>2. shown = Steps(shown)
    <2>1. ASSUME NEW k \in 0 .. last PROVE shown[k] = Steps(shown)[k]
      <3>1. CASE k = 0
        BY <3>1 DEF Links
      <3>2. CASE k # 0
        <4>1. k - 1 \in 0 .. last /\ shown[k - 1] = NodeAt(path, k) /\ k \in Nat
          BY <3>2
        <4>2. CASE k \in 1 .. Len(path)
          <5>1. NodeAt(path, k) = path[k] /\ path[k] \in Live
            BY <4>2 DEF NodeAt, Links, Live
          <5>2. list_heap[path[k]].next = NodeAt(path, k + 1)
            BY <4>2 DEF Links
          <5>3. QED
            BY <3>2, <4>1, <5>1, <5>2
        <4>3. CASE k \notin 1 .. Len(path)
          <5>1. NodeAt(path, k) = NULL /\ NodeAt(path, k + 1) = NULL
            BY <4>1, <4>3, LenProperties DEF NodeAt
          <5>2. NULL \notin Live
            BY LinkedListAssumption DEF ListTypeOK
          <5>3. QED
            BY <3>2, <4>1, <5>1, <5>2
        <4>4. QED
          BY <4>2, <4>3
      <3>3. QED
        BY <3>1, <3>2
    <2>2. QED
      BY <2>1
  <1>3. Chain = CHOOSE g : g = Steps(g)
    BY <1>1 DEF Chain
  <1>4. Chain = Steps(Chain)
    BY <1>2, <1>3
  <1>5. DOMAIN Chain = 0 .. last
    BY <1>4
  <1> DEFINE Agree == {k \in Nat : k <= last => Chain[k] = shown[k]}
  <1>6. 0 \in Agree
    <2>1. Chain[0] = Steps(Chain)[0] /\ shown[0] = Steps(shown)[0]
      BY <1>2, <1>4
    <2>2. QED
      BY <2>1
  <1>7. ASSUME NEW k \in Nat, k \in Agree PROVE k + 1 \in Agree
    <2>1. CASE k + 1 > last
      BY <2>1
    <2>2. CASE k + 1 <= last
      <3>1. k + 1 \in 0 .. last /\ (k + 1) - 1 = k /\ k + 1 # 0
        BY <2>2
      <3>2. Chain[k] = shown[k]
        BY <1>7, <2>2
      <3>3. Steps(Chain)[k + 1] = Steps(shown)[k + 1]
        BY <3>1, <3>2
      <3>4. Chain[k + 1] = Steps(Chain)[k + 1] /\ shown[k + 1] = Steps(shown)[k + 1]
        BY <1>2, <1>4
      <3>5. QED
        BY <3>3, <3>4
    <2>3. QED
      BY <2>1, <2>2
  <1>8. Nat \subseteq Agree
    <2> HIDE DEF Agree
    <2>1. QED
      BY <1>6, <1>7, InductionOnSet
  <1>9. \A k \in 0 .. last : Chain[k] = NodeAt(path, k + 1)
    <2>1. ASSUME NEW k \in 0 .. last PROVE Chain[k] = NodeAt(path, k + 1)
      <3>1. k \in Nat /\ k <= last
        BY <1>1
      <3>2. Chain[k] = shown[k]
        <4>1. k \in {x \in Nat : x <= last => Chain[x] = shown[x]}
          BY <1>8, <3>1
        <4>2. QED
          BY <3>1, <4>1
      <3>3. QED
        BY <3>2
    <2>2. QED
      BY <2>1
  <1>10. QED
    BY <1>1, <1>5, <1>9

LEMMA ListInvGives == ListInv => ListIntact /\ ListUsesLive
  <1> SUFFICES ASSUME ListInv PROVE ListIntact /\ ListUsesLive
    OBVIOUS
  <1>1. ListTypeOK
    BY DEF ListInv
  <1>2. WalkSeesPushed
    BY DEF ListInv, ListWhole, ListPushing, ListFreeing, WalkSeesPushed
  <1>3. ASSUME ListIdle PROVE ListHoldsPushed
    <2>1. PICK path \in Seq(ListNode) : ListWhole(path)
      BY <1>3 DEF ListInv, ListIdle, ListPushing, ListFreeing
    <2>2. /\ Links(list_heap, list_head, path) /\ Nodes(path) = Live
          /\ Len(path) = Len(wanted) /\ Len(path) \in Nat
          /\ \A k \in 1 .. Len(path) : list_heap[path[k]].data = wanted[k]
      BY <2>1, LenProperties DEF ListWhole, Holds
    <2>3. Cardinality(Live) = Len(wanted) /\ Len(path) <= Cardinality(ListNode)
      BY <2>2, NodesCounted
    <2>4. Cardinality(ListNode) \in Nat
      BY FS_CardinalityType, LinkedListAssumption
    <2>5. /\ DOMAIN Chain = 0 .. Cardinality(ListNode)
          /\ \A k \in 0 .. Cardinality(ListNode) : Chain[k] = NodeAt(path, k + 1)
      BY <1>1, <2>2, ChainIsPath
    <2>6. \A k \in 1 .. Len(path) : /\ k - 1 \in 0 .. Cardinality(ListNode)
                                    /\ Chain[k - 1] = path[k]
      <3>1. ASSUME NEW k \in 1 .. Len(path)
            PROVE  k - 1 \in 0 .. Cardinality(ListNode) /\ Chain[k - 1] = path[k]
        <4>1. k - 1 \in 0 .. Cardinality(ListNode) /\ (k - 1) + 1 = k
          BY <2>2, <2>3, <2>4
        <4>2. Chain[k - 1] = NodeAt(path, (k - 1) + 1)
          BY <2>5, <4>1
        <4>3. QED
          BY <4>1, <4>2 DEF NodeAt
      <3>2. QED
        BY <3>1
    <2>7. ChainNodes = Live
      <3>1. ChainNodes \subseteq Live
        <4>1. ASSUME NEW k \in 0 .. Cardinality(ListNode), Chain[k] # NULL
              PROVE  Chain[k] \in Nodes(path)
          <5>1. k + 1 \in 1 .. Len(path) /\ Chain[k] = path[k + 1]
            BY <2>5, <4>1 DEF NodeAt
          <5>2. QED
            BY <5>1 DEF Nodes
        <4>2. QED
          BY <2>2, <2>5, <4>1 DEF ChainNodes
      <3>2. Live \subseteq ChainNodes
        <4>1. ASSUME NEW k \in 1 .. Len(path) PROVE path[k] \in ChainNodes
          <5>1. path[k] # NULL
            BY <2>2, LinkedListAssumption
          <5>2. QED
            BY <2>5, <2>6, <5>1 DEF ChainNodes
        <4>2. QED
          BY <2>2, <4>1 DEF Nodes
      <3>3. QED
        BY <3>1, <3>2
    <2>8. \A k \in 1 .. Len(wanted) : list_heap[Chain[k - 1]].data = wanted[k]
      BY <2>2, <2>6
    <2>9. QED
      BY <2>3, <2>7, <2>8 DEF ListHoldsPushed
  <1>4. ListHoldsPushed
    BY <1>3 DEF ListHoldsPushed
  <1>5. ListUsesLive
    <2>1. ASSUME NEW path \in Seq(ListNode), ListWhole(path)
          PROVE  {curr, fresh} \subseteq Live \cup {NULL}
      BY <2>1 DEF ListWhole, NodeAt, Nodes
    <2>2. ASSUME NEW path \in Seq(ListNode), ListPushing(path)
          PROVE  {curr, fresh} \subseteq Live \cup {NULL}
      BY <2>2 DEF ListPushing
    <2>3. ASSUME NEW path \in Seq(ListNode), ListFreeing(path)
          PROVE  {curr, fresh} \subseteq Live \cup {NULL}
      BY <2>3 DEF ListFreeing, Links, NodeAt, Nodes
    <2>4. QED
      BY <2>1, <2>2, <2>3 DEF ListInv, ListUsesLive
  <1>6. QED
    BY <1>1, <1>2, <1>4, <1>5 DEF ListIntact

\* The linked list (module2 ex06), for any set of addresses and bytes: between
\* calls it holds the pushed bytes in order and every allocated node once, a walk
\* shows them, and no walk, push or free uses a node after it is freed.
THEOREM ListStaysIntact == ListSpec => []ListIntact /\ []ListUsesLive
  <1>1. ListInit => ListInv
    BY InitListInv
  <1>2. ListInv /\ [ListNext]_listVars => ListInv'
    BY NextListInv
  <1>3. ListInv => ListIntact /\ ListUsesLive
    BY ListInvGives
  <1>4. QED
    BY <1>1, <1>2, <1>3, PTL DEF ListSpec
------------------------------------------------------------------------------
(* The binary search tree, for any set of addresses and keys. What is true   *)
(* of a subtree is stated without recursion: span[x] is the set of the keys  *)
(* a search can be looking for when it reaches node x.                       *)

Sides == {"left", "right"}
On(k, x, side) == IF side = "left" THEN k < tree_heap[x].value ELSE k > tree_heap[x].value
\* The keys that belong on one side of x, and whether a node holds one of a set.
Branch(span, x, side) == {k \in span[x] : On(k, x, side)}
Held(T) == \E x \in Allocated : tree_heap[x].value \in T

\* The pointer is the subtree for the keys of T.
Roots(span, pointer, T) == IF pointer = NIL THEN ~Held(T)
                           ELSE pointer \in Allocated /\ span[pointer] = T
Whole(span, x, side) == Roots(span, tree_heap[x][side], Branch(span, x, side))

Nested(span, x, y) == \E side \in Sides : span[y] \subseteq Branch(span, x, side)
\* No two nodes hold a key, and of two nodes one is in a branch of the other, or
\* nothing is in both.
Spans(span) ==
    /\ \A x \in Allocated : tree_heap[x].value \in span[x]
    /\ \A x, y \in Allocated : tree_heap[x].value = tree_heap[y].value => x = y
    /\ \A x, y \in Allocated :
          x # y => Nested(span, x, y) \/ Nested(span, y, x) \/ span[x] \cap span[y] = {}

\* Outside bst_free every pointer roots its subtree, and the nodes hold keys.
TreeWhole(span) == /\ Roots(span, root, TreeKey)
                   /\ \A x \in Allocated, side \in Sides : Whole(span, x, side)
                   /\ keys = {tree_heap[x].value : x \in Allocated}

TreeResting(span) == TreeIdle /\ frames = <<>> /\ TreeWhole(span) /\ LookupExact

\* bst_insert and bst_search go where the key must be.
TreeDescending(span) ==
    /\ InCall("insert") \/ InCall("search")
    /\ TreeWhole(span)
    /\ tree_call.value \in TreeKey /\ frames \in Seq(TreeNode)
    /\ IF frames = <<>> THEN at = root
       ELSE \E x \in Allocated : /\ x = Last(frames)
                                 /\ tree_call.value \in span[x]
                                 /\ tree_call.value # tree_heap[x].value
                                 /\ at = tree_heap[x][Side(tree_call.value, tree_heap[x])]

\* bst_find_min has only greater keys behind it.
TreeLeast(span) ==
    /\ InCall("find_min") /\ TreeWhole(span) /\ frames = <<>>
    /\ IF at = NIL THEN root = NIL
       ELSE /\ at \in Allocated
            /\ \A k \in keys : k \in span[at] \/ k > tree_heap[at].value

\* bst_free: the innermost call is on what remains of the branch it was made for.
Waited(span) == IF frames = <<>> THEN TreeKey
                ELSE Branch(span, frames[Len(frames)].node, frames[Len(frames)].side)
FrameNodes == {frames[k].node : k \in 1 .. Len(frames)}
\* A frame's node roots the branch the frame outside waits for; the branch it
\* does not wait for is not visited yet, or freed.
FrameWaits(span, k) ==
    /\ span[frames[k].node] = IF k = 1 THEN TreeKey
                              ELSE Branch(span, frames[k - 1].node, frames[k - 1].side)
    /\ frames[k].side = "left"  => Whole(span, frames[k].node, "right")
    /\ frames[k].side = "right" => ~Held(Branch(span, frames[k].node, "left"))
TreeFreeing(span) ==
    /\ InCall("free")
    /\ frames \in Seq([node : TreeNode, side : Sides])
    /\ FrameNodes \subseteq Allocated
    /\ \A k, m \in 1 .. Len(frames) :
          k < m => span[frames[m].node] \subseteq Branch(span, frames[k].node, frames[k].side)
    /\ \A k \in 1 .. Len(frames) : FrameWaits(span, k)
    /\ \A x \in Allocated \ FrameNodes, side \in Sides : Whole(span, x, side)
    /\ Roots(span, at, Waited(span))

TreeInv ==
    /\ TreeTypeOK
    /\ tree_call \in [fun : {"none", "insert", "search", "find_min", "free"},
                      value : Nat, returned : BOOLEAN]
    /\ root = NIL => Allocated = {}
    /\ \E span \in [TreeNode -> SUBSET TreeKey] :
          Spans(span) /\ \/ TreeResting(span) \/ TreeDescending(span)
                         \/ TreeLeast(span)   \/ TreeFreeing(span)

\* The two branches of a node part the other keys it is reached for.
LEMMA Sided ==
    ASSUME TreeTypeOK, NEW span \in [TreeNode -> SUBSET TreeKey],
           NEW x \in Allocated, NEW side \in Sides
    PROVE  /\ tree_heap[x].value \in TreeKey
           /\ tree_heap[x].value \notin Branch(span, x, side)
           /\ Branch(span, x, side) \subseteq span[x] /\ span[x] \subseteq TreeKey
           /\ \A k \in Branch(span, x, side), other \in Sides :
                 k \in Branch(span, x, other) => side = other
           /\ \A k \in span[x] : k # tree_heap[x].value =>
                 \E other \in Sides : k \in Branch(span, x, other)
  <1>1. tree_heap[x].value \in TreeKey /\ tree_heap[x].value \in Nat
    BY BinaryTreeAssumption DEF TreeTypeOK
  <1>2. span[x] \subseteq TreeKey /\ span[x] \subseteq Nat
    BY BinaryTreeAssumption DEF TreeTypeOK
  <1>3. \A k \in span[x] : k # tree_heap[x].value =>
           \E other \in Sides : k \in Branch(span, x, other)
    <2>1. ASSUME NEW k \in span[x], k # tree_heap[x].value
          PROVE  k \in Branch(span, x, "left") \/ k \in Branch(span, x, "right")
      BY <1>1, <1>2, <2>1 DEF Branch, On
    <2>2. QED
      BY <2>1 DEF Sides
  <1>4. QED
    BY <1>1, <1>2, <1>3 DEF Branch, On, Sides

\* Of two nodes with branches for a common key, one is in the other's branch.
LEMMA BranchesMeet ==
    ASSUME TreeTypeOK, NEW span \in [TreeNode -> SUBSET TreeKey], Spans(span),
           NEW x \in Allocated, NEW y \in Allocated, x # y,
           NEW side \in Sides, NEW other \in Sides, NEW k,
           k \in Branch(span, x, side), k \in Branch(span, y, other)
    PROVE  \/ tree_heap[x].value \in Branch(span, y, other)
           \/ tree_heap[y].value \in Branch(span, x, side)
  <1>1. k \in span[x] /\ k \in span[y]
    BY Sided
  <1>2. CASE Nested(span, x, y)
    <2>1. PICK third \in Sides : span[y] \subseteq Branch(span, x, third)
      BY <1>2 DEF Nested
    <2>2. third = side
      BY <1>1, <2>1, Sided
    <2>3. QED
      BY <2>1, <2>2 DEF Spans
  <1>3. CASE Nested(span, y, x)
    <2>1. PICK third \in Sides : span[x] \subseteq Branch(span, y, third)
      BY <1>3 DEF Nested
    <2>2. third = other
      BY <1>1, <2>1, Sided
    <2>3. QED
      BY <2>1, <2>2 DEF Spans
  <1>4. QED
    BY <1>1, <1>2, <1>3 DEF Spans

\* A key no pointer leads to is not held; so says every NULL pointer.
LEMMA WhereKeyBelongs ==
    ASSUME TreeTypeOK, NEW span \in [TreeNode -> SUBSET TreeKey], TreeDescending(span)
    PROVE  \E T \in SUBSET TreeKey :
              /\ tree_call.value \in T /\ Roots(span, at, T)
              /\ frames = <<>> => T = TreeKey /\ at = root
              /\ frames # <<>> =>
                    \E x \in Allocated, side \in Sides :
                       /\ x = Last(frames) /\ side = Side(tree_call.value, tree_heap[x])
                       /\ T = Branch(span, x, side) /\ at = tree_heap[x][side]
  <1>1. CASE frames = <<>>
    BY <1>1 DEF TreeDescending, TreeWhole
  <1>2. CASE frames # <<>>
    <2>1. PICK x \in Allocated : /\ x = Last(frames)
                                 /\ tree_call.value \in span[x]
                                 /\ tree_call.value # tree_heap[x].value
                                 /\ at = tree_heap[x][Side(tree_call.value, tree_heap[x])]
      BY <1>2 DEF TreeDescending
    <2>2. PICK side \in Sides : side = Side(tree_call.value, tree_heap[x])
      BY DEF Side, Sides
    <2>3. tree_heap[x].value \in Nat /\ tree_call.value \in Nat
      BY BinaryTreeAssumption DEF TreeTypeOK, TreeDescending
    <2>4. tree_call.value \in Branch(span, x, side)
      BY <2>1, <2>2, <2>3 DEF Branch, On, Side
    <2>5. Roots(span, at, Branch(span, x, side))
      BY <2>1, <2>2 DEF TreeDescending, TreeWhole, Whole
    <2>6. Branch(span, x, side) \in SUBSET TreeKey
      BY Sided
    <2>7. QED
      BY <1>2, <2>1, <2>2, <2>4, <2>5, <2>6
  <1>3. QED
    BY <1>1, <1>2

LEMMA InitTreeInv == TreeInit => TreeInv
  <1> SUFFICES ASSUME TreeInit PROVE TreeInv
    OBVIOUS
  <1>1. Allocated = {}
    BY DEF TreeInit, Allocated
  <1> DEFINE span == [x \in TreeNode |-> {}]
  <1>2. span \in [TreeNode -> SUBSET TreeKey]
    OBVIOUS
  <1>3. Spans(span)
    BY <1>1 DEF Spans
  <1>4. TreeWhole(span)
    BY <1>1 DEF TreeWhole, Roots, Held, TreeInit
  <1>5. TreeResting(span)
    BY <1>4 DEF TreeResting, TreeIdle, LookupExact, TreeInit
  <1>6. TreeTypeOK
    BY <1>1 DEF TreeTypeOK, TreeInit
  <1>7. QED
    BY <1>1, <1>2, <1>3, <1>5, <1>6 DEF TreeInv, TreeInit

\* What is said of the heap and the spans is kept by a step that leaves both.
LEMMA SameHeap ==
    ASSUME NEW span, UNCHANGED <<tree_heap, root, keys>>
    PROVE  /\ Allocated' = Allocated
           /\ Spans(span)' <=> Spans(span)
           /\ TreeWhole(span)' <=> TreeWhole(span)
           /\ \A x, side : Branch(span, x, side)' = Branch(span, x, side)
           /\ \A x, side : Whole(span, x, side)' <=> Whole(span, x, side)
           /\ \A pointer, T : Roots(span, pointer, T)' <=> Roots(span, pointer, T)
           /\ \A T : Held(T)' <=> Held(T)
  BY DEF Allocated, Spans, Nested, TreeWhole, Whole, Roots, Held, Branch, On

LEMMA TreeCallInv ==
    ASSUME TreeInv, NEW f \in {"insert", "search", "find_min", "free"}, NEW v \in Nat,
           f \in {"insert", "search"} => v \in TreeKey, TreeCall(f, v)
    PROVE  TreeInv'
  <1>1. /\ TreeIdle /\ tree_call' = [fun |-> f, value |-> v, returned |-> FALSE]
        /\ at' = root /\ frames' = frames /\ found' = found
        /\ UNCHANGED <<tree_heap, root, keys>>
    BY DEF TreeCall
  <1>2. PICK span \in [TreeNode -> SUBSET TreeKey] : Spans(span) /\ TreeResting(span)
    BY <1>1 DEF TreeInv, TreeIdle, TreeDescending, TreeLeast, TreeFreeing, InCall
  <1>3. Spans(span)' /\ TreeWhole(span)' /\ Allocated' = Allocated
    BY <1>1, <1>2, SameHeap DEF TreeResting
  <1>4. TreeTypeOK' /\ (root' = NIL => Allocated' = {})
    BY <1>1, <1>3 DEF TreeInv, TreeTypeOK
  <1>5. tree_call' \in [fun : {"none", "insert", "search", "find_min", "free"},
                        value : Nat, returned : BOOLEAN]
    BY <1>1
  <1>6. frames' = <<>>
    BY <1>1, <1>2 DEF TreeResting
  <1>7. CASE f \in {"insert", "search"}
    <2>1. TreeDescending(span)'
      BY <1>1, <1>3, <1>6, <1>7 DEF TreeDescending, InCall
    <2>2. QED
      BY <1>3, <1>4, <1>5, <2>1 DEF TreeInv
  <1>8. CASE f = "find_min"
    <2>1. TreeLeast(span)'
      <3>1. CASE at' = NIL
        BY <1>1, <1>3, <1>6, <1>8, <3>1 DEF TreeLeast, InCall
      <3>2. CASE at' # NIL
        <4>1. at' \in Allocated' /\ span[at'] = TreeKey
          BY <1>1, <1>2, <1>3, <3>2 DEF TreeResting, TreeWhole, Roots
        <4>2. keys' \subseteq TreeKey
          BY <1>1, <1>2 DEF TreeResting, TreeWhole, TreeInv, TreeTypeOK
        <4>3. QED
          BY <1>1, <1>3, <1>6, <1>8, <3>2, <4>1, <4>2 DEF TreeLeast, InCall
      <3>3. QED
        BY <3>1, <3>2
    <2>2. QED
      BY <1>3, <1>4, <1>5, <2>1 DEF TreeInv
  <1>9. CASE f = "free"
    <2>1. frames' \in Seq([node : TreeNode, side : Sides]) /\ Len(frames') = 0
      BY <1>6
    <2>2. FrameNodes' = {}
      BY <2>1 DEF FrameNodes
    <2>3. Roots(span, at, Waited(span))'
      BY <1>1, <1>3, <1>6 DEF Waited, TreeWhole
    <2>4. \A x \in Allocated', side \in Sides : Whole(span, x, side)'
      BY <1>3 DEF TreeWhole
    <2>5. InCall("free")'
      BY <1>1, <1>9 DEF InCall
    <2>6. TreeFreeing(span)'
      BY <2>1, <2>2, <2>3, <2>4, <2>5 DEF TreeFreeing
    <2>7. QED
      BY <1>3, <1>4, <1>5, <2>6 DEF TreeInv
  <1>10. QED
    BY <1>7, <1>8, <1>9

LEMMA DescendInv == ASSUME TreeInv, Descend PROVE TreeInv'
  <1>1. /\ InCall("insert") \/ InCall("search")
        /\ at # NIL /\ ~Here(tree_call.value)
        /\ at' = tree_heap[at][Side(tree_call.value, tree_heap[at])]
        /\ frames' = Append(frames, at)
        /\ UNCHANGED <<tree_heap, root, tree_call, found, keys>>
    BY DEF Descend
  <1>2. PICK span \in [TreeNode -> SUBSET TreeKey] : Spans(span) /\ TreeDescending(span)
    BY <1>1 DEF TreeInv, TreeResting, TreeIdle, TreeLeast, TreeFreeing, InCall
  <1>3. PICK T \in SUBSET TreeKey : tree_call.value \in T /\ Roots(span, at, T)
    BY <1>2, WhereKeyBelongs DEF TreeInv
  <1>4. at \in Allocated /\ span[at] = T
    BY <1>1, <1>3 DEF Roots
  <1>5. tree_call.value \in span[at] /\ tree_call.value # tree_heap[at].value
    BY <1>1, <1>3, <1>4 DEF Here
  <1>6. at \in TreeNode /\ at' \in TreeNode \cup {NIL}
    BY <1>1, <1>4 DEF TreeInv, TreeTypeOK, Side
  <1>7. /\ frames' \in Seq(TreeNode) /\ frames' # <<>> /\ Last(frames') = at
    <2>1. frames \in Seq(TreeNode)
      BY <1>2 DEF TreeDescending
    <2>2. QED
      BY <1>1, <1>6, <2>1, AppendProperties, EmptySeq DEF Last
  <1>8. Spans(span)' /\ TreeWhole(span)' /\ Allocated' = Allocated
    BY <1>1, <1>2, SameHeap DEF TreeDescending
  <1>9. TreeDescending(span)'
    <2>1. /\ (InCall("insert") \/ InCall("search"))' /\ tree_call' = tree_call
          /\ tree_heap' = tree_heap
      BY <1>1 DEF InCall
    <2>2. tree_call.value \in TreeKey
      BY <1>2 DEF TreeDescending
    <2>3. \E x \in Allocated' : /\ x = Last(frames')
                                /\ tree_call'.value \in span[x]
                                /\ tree_call'.value # tree_heap'[x].value
                                /\ at' = tree_heap'[x][Side(tree_call'.value, tree_heap'[x])]
      BY <1>1, <1>4, <1>5, <1>7, <1>8, <2>1
    <2>4. QED
      BY <1>7, <1>8, <2>1, <2>2, <2>3 DEF TreeDescending, Side
  <1>10. TreeTypeOK' /\ (root' = NIL => Allocated' = {})
    BY <1>1, <1>6, <1>8 DEF TreeInv, TreeTypeOK
  <1>11. QED
    BY <1>1, <1>8, <1>9, <1>10 DEF TreeInv

\* A call on the root has returned, with the heap as it was.
LEMMA TreeReturned ==
    ASSUME TreeInv, NEW span \in [TreeNode -> SUBSET TreeKey], Spans(span), TreeWhole(span),
           TreeReturn, UNCHANGED <<tree_heap, root, keys>>,
           found' \in TreeNode \cup {NIL}, LookupExact'
    PROVE  TreeInv'
  <1>1. /\ tree_call' = [tree_call EXCEPT !.returned = TRUE] /\ at' = NIL /\ frames' = <<>>
    BY DEF TreeReturn
  <1>2. Spans(span)' /\ TreeWhole(span)' /\ Allocated' = Allocated
    BY SameHeap
  <1>3. tree_call' \in [fun : {"none", "insert", "search", "find_min", "free"},
                        value : Nat, returned : BOOLEAN] /\ tree_call'.returned
    BY <1>1 DEF TreeInv
  <1>4. TreeTypeOK' /\ (root' = NIL => Allocated' = {})
    BY <1>1, <1>2 DEF TreeInv, TreeTypeOK
  <1>5. TreeResting(span)'
    BY <1>1, <1>2, <1>3 DEF TreeResting, TreeIdle
  <1>6. QED
    BY <1>2, <1>3, <1>4, <1>5 DEF TreeInv

LEMMA InsertNothingInv == ASSUME TreeInv, InsertNothing PROVE TreeInv'
  <1>1. /\ InCall("insert") /\ TreeReturn
        /\ UNCHANGED <<tree_heap, root, found, keys>>
    BY DEF InsertNothing
  <1>2. PICK span \in [TreeNode -> SUBSET TreeKey] : Spans(span) /\ TreeDescending(span)
    BY <1>1 DEF TreeInv, TreeResting, TreeIdle, TreeLeast, TreeFreeing, InCall
  <1>3. TreeWhole(span)
    BY <1>2 DEF TreeDescending
  <1>4. tree_call'.fun = "insert"
    BY <1>1 DEF TreeReturn, InCall, TreeInv
  <1>5. LookupExact'
    BY <1>4 DEF LookupExact
  <1>6. found' \in TreeNode \cup {NIL}
    BY <1>1 DEF TreeInv, TreeTypeOK
  <1>7. QED
    BY <1>1, <1>2, <1>3, <1>5, <1>6, TreeReturned

LEMMA SearchEndInv == ASSUME TreeInv, SearchEnd PROVE TreeInv'
  <1>1. /\ InCall("search") /\ (at = NIL \/ Here(tree_call.value))
        /\ found' = at /\ TreeReturn /\ UNCHANGED <<tree_heap, root, keys>>
    BY DEF SearchEnd
  <1>2. PICK span \in [TreeNode -> SUBSET TreeKey] : Spans(span) /\ TreeDescending(span)
    BY <1>1 DEF TreeInv, TreeResting, TreeIdle, TreeLeast, TreeFreeing, InCall
  <1>3. TreeWhole(span) /\ keys = {tree_heap[x].value : x \in Allocated}
    BY <1>2 DEF TreeDescending, TreeWhole
  <1>4. PICK T \in SUBSET TreeKey : tree_call.value \in T /\ Roots(span, at, T)
    BY <1>2, WhereKeyBelongs DEF TreeInv
  <1>5. found' # NIL <=> tree_call.value \in keys
    BY <1>1, <1>3, <1>4 DEF Roots, Held, Here
  <1>6. found' # NIL => tree_heap[found'].value = tree_call.value
    BY <1>1 DEF Here
  <1>7. tree_call'.fun = "search" /\ tree_call'.value = tree_call.value
    BY <1>1 DEF TreeReturn, InCall, TreeInv
  <1>8. LookupExact'
    BY <1>1, <1>5, <1>6, <1>7 DEF LookupExact
  <1>9. found' \in TreeNode \cup {NIL}
    BY <1>1 DEF TreeInv, TreeTypeOK
  <1>10. QED
    BY <1>1, <1>2, <1>3, <1>8, <1>9, TreeReturned

LEMMA FindMinInv == ASSUME TreeInv, bst_find_min PROVE TreeInv'
  <1>1. InCall("find_min") /\ UNCHANGED <<tree_heap, root, keys>>
    BY DEF bst_find_min
  <1>2. PICK span \in [TreeNode -> SUBSET TreeKey] : Spans(span) /\ TreeLeast(span)
    BY <1>1 DEF TreeInv, TreeResting, TreeIdle, TreeDescending, TreeFreeing, InCall
  <1>3. TreeWhole(span) /\ keys = {tree_heap[x].value : x \in Allocated}
    BY <1>2 DEF TreeLeast, TreeWhole
  <1>4. CASE at # NIL /\ tree_heap[at].left # NIL
    <2>1. /\ at' = tree_heap[at].left
          /\ UNCHANGED <<tree_call, frames, found>>
      BY <1>4 DEF bst_find_min
    <2>2. at \in Allocated /\ \A k \in keys : k \in span[at] \/ k > tree_heap[at].value
      BY <1>2, <1>4 DEF TreeLeast
    <2>3. Whole(span, at, "left")
      BY <1>3, <2>2 DEF TreeWhole, Sides
    <2>4. at' \in Allocated /\ span[at'] = Branch(span, at, "left")
      BY <1>4, <2>1, <2>3 DEF Whole, Roots
    <2>5. tree_heap[at'].value \in Branch(span, at, "left")
      BY <1>2, <2>4 DEF Spans
    <2>6. /\ tree_heap[at].value \in Nat /\ tree_heap[at'].value \in Nat
          /\ tree_heap[at'].value < tree_heap[at].value /\ keys \subseteq Nat
      <3>1. \A x \in Allocated : tree_heap[x].value \in Nat
        BY BinaryTreeAssumption DEF TreeInv, TreeTypeOK
      <3>2. tree_heap[at'].value < tree_heap[at].value
        BY <2>5 DEF Branch, On
      <3>3. QED
        BY <1>3, <2>2, <2>4, <3>1, <3>2
    <2>7. ASSUME NEW k \in keys PROVE k \in span[at'] \/ k > tree_heap[at'].value
      <3>1. CASE k < tree_heap[at].value
        <4>1. k \in span[at]
          BY <2>2, <2>6, <3>1
        <4>2. QED
          BY <2>4, <3>1, <4>1 DEF Branch, On
      <3>2. CASE k >= tree_heap[at].value
        BY <2>6, <3>2
      <3>3. QED
        BY <2>6, <3>1, <3>2
    <2>8. Spans(span)' /\ TreeWhole(span)' /\ Allocated' = Allocated
      BY <1>1, <1>2, <1>3, SameHeap
    <2>9. TreeLeast(span)'
      <3>1. at' # NIL /\ at' \in Allocated'
        BY <1>4, <2>1, <2>4, <2>8
      <3>2. InCall("find_min")' /\ frames' = <<>>
        BY <1>2, <2>1 DEF TreeLeast, InCall
      <3>3. \A k \in keys' : k \in span[at'] \/ k > tree_heap'[at'].value
        BY <1>1, <2>7
      <3>4. QED
        BY <2>8, <3>1, <3>2, <3>3 DEF TreeLeast
    <2>10. TreeTypeOK' /\ (root' = NIL => Allocated' = {})
      BY <1>1, <2>1, <2>4, <2>8 DEF TreeInv, TreeTypeOK
    <2>11. QED
      BY <2>1, <2>8, <2>9, <2>10 DEF TreeInv
  <1>5. CASE ~(at # NIL /\ tree_heap[at].left # NIL)
    <2>1. found' = at /\ TreeReturn
      BY <1>5 DEF bst_find_min
    <2>2. tree_call'.fun = "find_min"
      BY <1>1, <2>1 DEF TreeReturn, InCall, TreeInv
    <2>3. CASE at = NIL
      <3>1. keys = {}
        BY <1>2, <1>3, <2>3 DEF TreeLeast, TreeInv
      <3>2. LookupExact'
        BY <1>1, <2>1, <2>2, <2>3, <3>1 DEF LookupExact
      <3>3. QED
        BY <1>1, <1>2, <1>3, <2>1, <2>3, <3>2, TreeReturned
    <2>4. CASE at # NIL
      <3>1. /\ at \in Allocated /\ tree_heap[at].left = NIL
            /\ \A k \in keys : k \in span[at] \/ k > tree_heap[at].value
        BY <1>2, <1>5, <2>4 DEF TreeLeast
      <3>2. ~Held(Branch(span, at, "left"))
        BY <1>3, <3>1 DEF TreeWhole, Whole, Roots, Sides
      <3>3. tree_heap[at].value \in keys /\ tree_heap[at].value \in Nat /\ keys \subseteq Nat
        BY <1>3, <3>1, BinaryTreeAssumption DEF TreeInv, TreeTypeOK
      <3>4. ASSUME NEW k \in keys PROVE tree_heap[at].value <= k
        <4>1. CASE k > tree_heap[at].value
          BY <3>3, <4>1
        <4>2. CASE k \in span[at]
          <5>1. k \notin Branch(span, at, "left")
            BY <1>3, <3>2 DEF Held
          <5>2. QED
            BY <3>3, <4>2, <5>1 DEF Branch, On
        <4>3. QED
          BY <3>1, <4>1, <4>2
      <3>5. LookupExact'
        BY <1>1, <2>1, <2>2, <2>4, <3>3, <3>4 DEF LookupExact
      <3>6. found' \in TreeNode \cup {NIL}
        BY <2>1 DEF TreeInv, TreeTypeOK
      <3>7. QED
        BY <1>1, <1>2, <1>3, <2>1, <3>5, <3>6, TreeReturned
    <2>5. QED
      BY <2>3, <2>4
  <1>6. QED
    BY <1>4, <1>5

\* A node planted where a NULL pointer stood: its span is the set of keys that
\* pointer was for, and no other NULL pointer was for its key.
LEMMA Planting ==
    ASSUME TreeTypeOK, NEW span \in [TreeNode -> SUBSET TreeKey], Spans(span),
           NEW T \in SUBSET TreeKey, NEW v \in T, ~Held(T),
           \/ Allocated = {}
           \/ \E x \in Allocated, side \in Sides : T = Branch(span, x, side),
           NEW p \in TreeNode \ Allocated, Allocated' = Allocated \cup {p},
           tree_heap'[p].value = v,
           \A x \in Allocated : tree_heap'[x].value = tree_heap[x].value
    PROVE  \E wider \in [TreeNode -> SUBSET TreeKey] :
              /\ wider[p] = T /\ \A x \in Allocated : wider[x] = span[x]
              /\ Spans(wider)'
              /\ \A x \in Allocated, side \in Sides :
                    Branch(wider, x, side)' = Branch(span, x, side)
  <1> DEFINE wider == [span EXCEPT ![p] = T]
  <1>1. /\ wider \in [TreeNode -> SUBSET TreeKey] /\ wider[p] = T
        /\ \A x \in Allocated : wider[x] = span[x]
    BY DEF TreeTypeOK
  <1> HIDE DEF wider
  <1>2. \A x \in Allocated, side \in Sides : Branch(wider, x, side)' = Branch(span, x, side)
    BY <1>1 DEF Branch, On
  <1>3. \A x \in Allocated' : tree_heap'[x].value \in wider[x]
    BY <1>1 DEF Spans
  <1>4. \A x, y \in Allocated' : tree_heap'[x].value = tree_heap'[y].value => x = y
    <2>1. \A x \in Allocated : tree_heap'[x].value # v
      BY DEF Held
    <2>2. QED
      BY <2>1 DEF Spans
  <1>5. ASSUME NEW x \in Allocated, NEW y \in Allocated, Nested(span, x, y)
        PROVE  Nested(wider, x, y)'
    BY <1>1, <1>2, <1>5 DEF Nested
  <1>6. ASSUME NEW y \in Allocated
        PROVE  Nested(wider, y, p)' \/ span[y] \cap T = {}
    <2>1. PICK x \in Allocated, side \in Sides : T = Branch(span, x, side)
      OBVIOUS
    <2>2. ASSUME NEW other \in Sides, T \subseteq Branch(span, y, other)
          PROVE  Nested(wider, y, p)'
      BY <1>1, <1>2, <2>2 DEF Nested
    <2>3. CASE x = y
      BY <2>1, <2>2, <2>3
    <2>4. CASE x # y /\ Nested(span, y, x)
      <3>1. T \subseteq span[x]
        BY <2>1, Sided
      <3>2. PICK other \in Sides : span[x] \subseteq Branch(span, y, other)
        BY <2>4 DEF Nested
      <3>3. T \subseteq Branch(span, y, other)
        BY <3>1, <3>2
      <3>4. QED
        BY <2>2, <3>3
    <2>5. CASE x # y /\ Nested(span, x, y)
      <3>1. PICK other \in Sides : span[y] \subseteq Branch(span, x, other)
        BY <2>5 DEF Nested
      <3>2. other # side
        <4>1. tree_heap[y].value \in Branch(span, x, other)
          BY <3>1 DEF Spans
        <4>2. QED
          BY <2>1, <4>1 DEF Held
      <3>3. QED
        BY <2>1, <3>1, <3>2, Sided
    <2>6. CASE x # y /\ span[x] \cap span[y] = {}
      <3>1. T \subseteq span[x]
        BY <2>1, Sided
      <3>2. QED
        BY <2>6, <3>1
    <2>7. QED
      BY <2>3, <2>4, <2>5, <2>6 DEF Spans
  <1>7. ASSUME NEW x \in Allocated', NEW y \in Allocated', x # y
        PROVE  Nested(wider, x, y)' \/ Nested(wider, y, x)' \/ wider[x] \cap wider[y] = {}
    <2>1. CASE x \in Allocated /\ y \in Allocated
      BY <1>1, <1>5, <1>7, <2>1 DEF Spans
    <2>2. CASE x = p
      <3>1. y \in Allocated
        BY <1>7, <2>2
      <3>2. Nested(wider, y, p)' \/ wider[y] \cap wider[p] = {}
        BY <1>1, <1>6, <3>1
      <3>3. QED
        BY <2>2, <3>2
    <2>3. CASE y = p
      <3>1. x \in Allocated
        BY <1>7, <2>3
      <3>2. Nested(wider, x, p)' \/ wider[x] \cap wider[p] = {}
        BY <1>1, <1>6, <3>1
      <3>3. QED
        BY <2>3, <3>2
    <2>4. QED
      BY <2>1, <2>2, <2>3
  <1>8. Spans(wider)'
    BY <1>3, <1>4, <1>7 DEF Spans
  <1>9. QED
    BY <1>1, <1>2, <1>8

\* What InsertNew does to the heap, wherever the new node goes.
LEMMA PlantedHeap ==
    ASSUME TreeTypeOK, frames = <<>> \/ Last(frames) \in Allocated,
           NEW p \in TreeNode \ Allocated, NEW v \in TreeKey,
           IF frames = <<>>
           THEN tree_heap' = Planted(p, v)
           ELSE tree_heap' = [Planted(p, v) EXCEPT
                    ![Last(frames)][Side(v, tree_heap[Last(frames)])] = p]
    PROVE  /\ Allocated' = Allocated \cup {p}
           /\ tree_heap'[p] = [value |-> v, left |-> NIL, right |-> NIL]
           /\ \A y \in Allocated :
                 /\ tree_heap'[y].value = tree_heap[y].value
                 /\ tree_heap'[y].left =
                       IF frames # <<>> /\ y = Last(frames) /\ Side(v, tree_heap[y]) = "left"
                       THEN p ELSE tree_heap[y].left
                 /\ tree_heap'[y].right =
                       IF frames # <<>> /\ y = Last(frames) /\ Side(v, tree_heap[y]) = "right"
                       THEN p ELSE tree_heap[y].right
                 /\ tree_heap'[y] \in [value : TreeKey, left : TreeNode \cup {NIL},
                                       right : TreeNode \cup {NIL}]
  <1>1. /\ DOMAIN Planted(p, v) = Allocated \cup {p}
        /\ Planted(p, v)[p] = [value |-> v, left |-> NIL, right |-> NIL]
        /\ \A y \in Allocated : Planted(p, v)[y] = tree_heap[y]
    BY DEF Planted, Leaf
  <1>2. \A y \in Allocated : tree_heap[y] \in [value : TreeKey, left : TreeNode \cup {NIL},
                                               right : TreeNode \cup {NIL}]
    BY DEF TreeTypeOK
  <1>3. CASE frames = <<>>
    BY <1>1, <1>2, <1>3 DEF Allocated
  <1>4. CASE frames # <<>>
    <2>1. PICK x \in Allocated : x = Last(frames)
      BY <1>4
    <2>2. CASE Side(v, tree_heap[x]) = "left"
      <3>1. tree_heap' = [Planted(p, v) EXCEPT ![x]["left"] = p]
        BY <1>4, <2>1, <2>2
      <3>2. /\ DOMAIN tree_heap' = Allocated \cup {p}
            /\ tree_heap'[x] = [tree_heap[x] EXCEPT !["left"] = p]
            /\ \A y \in (Allocated \cup {p}) \ {x} : tree_heap'[y] = Planted(p, v)[y]
        BY <1>1, <3>1
      <3>3. /\ tree_heap'[x].value = tree_heap[x].value
            /\ tree_heap'[x].left = p /\ tree_heap'[x].right = tree_heap[x].right
            /\ tree_heap'[x] \in [value : TreeKey, left : TreeNode \cup {NIL},
                                  right : TreeNode \cup {NIL}]
        BY <1>2, <3>2
      <3>4. \A y \in Allocated \ {x} : tree_heap'[y] = tree_heap[y]
        BY <1>1, <3>2
      <3>5. tree_heap'[p] = [value |-> v, left |-> NIL, right |-> NIL]
        BY <1>1, <2>1, <3>2
      <3>6. ASSUME NEW y \in Allocated
            PROVE  /\ tree_heap'[y].value = tree_heap[y].value
                   /\ tree_heap'[y].left =
                         IF y = x /\ Side(v, tree_heap[y]) = "left" THEN p ELSE tree_heap[y].left
                   /\ tree_heap'[y].right =
                         IF y = x /\ Side(v, tree_heap[y]) = "right" THEN p ELSE tree_heap[y].right
                   /\ tree_heap'[y] \in [value : TreeKey, left : TreeNode \cup {NIL},
                                         right : TreeNode \cup {NIL}]
        <4>1. CASE y = x
          BY <2>2, <3>3, <4>1
        <4>2. CASE y # x
          BY <1>2, <3>4, <4>2
        <4>3. QED
          BY <4>1, <4>2
      <3>7. QED
        BY <1>4, <2>1, <3>2, <3>5, <3>6 DEF Allocated
    <2>3. CASE Side(v, tree_heap[x]) = "right"
      <3>1. tree_heap' = [Planted(p, v) EXCEPT ![x]["right"] = p]
        BY <1>4, <2>1, <2>3
      <3>2. /\ DOMAIN tree_heap' = Allocated \cup {p}
            /\ tree_heap'[x] = [tree_heap[x] EXCEPT !["right"] = p]
            /\ \A y \in (Allocated \cup {p}) \ {x} : tree_heap'[y] = Planted(p, v)[y]
        BY <1>1, <3>1
      <3>3. /\ tree_heap'[x].value = tree_heap[x].value
            /\ tree_heap'[x].right = p /\ tree_heap'[x].left = tree_heap[x].left
            /\ tree_heap'[x] \in [value : TreeKey, left : TreeNode \cup {NIL},
                                  right : TreeNode \cup {NIL}]
        BY <1>2, <3>2
      <3>4. \A y \in Allocated \ {x} : tree_heap'[y] = tree_heap[y]
        BY <1>1, <3>2
      <3>5. tree_heap'[p] = [value |-> v, left |-> NIL, right |-> NIL]
        BY <1>1, <2>1, <3>2
      <3>6. ASSUME NEW y \in Allocated
            PROVE  /\ tree_heap'[y].value = tree_heap[y].value
                   /\ tree_heap'[y].left =
                         IF y = x /\ Side(v, tree_heap[y]) = "left" THEN p ELSE tree_heap[y].left
                   /\ tree_heap'[y].right =
                         IF y = x /\ Side(v, tree_heap[y]) = "right" THEN p ELSE tree_heap[y].right
                   /\ tree_heap'[y] \in [value : TreeKey, left : TreeNode \cup {NIL},
                                         right : TreeNode \cup {NIL}]
        <4>1. CASE y = x
          BY <2>3, <3>3, <4>1
        <4>2. CASE y # x
          BY <1>2, <3>4, <4>2
        <4>3. QED
          BY <4>1, <4>2
      <3>7. QED
        BY <1>4, <2>1, <3>2, <3>5, <3>6 DEF Allocated
    <2>4. QED
      BY <2>2, <2>3 DEF Side
  <1>5. QED
    BY <1>3, <1>4

LEMMA InsertNewInv == ASSUME TreeInv, InsertNew PROVE TreeInv'
  <1>1. /\ InCall("insert") /\ at = NIL /\ found' = found
        /\ keys' = keys \cup {tree_call.value}
        /\ tree_call' = [tree_call EXCEPT !.returned = TRUE] /\ at' = NIL /\ frames' = <<>>
    BY DEF InsertNew, TreeReturn
  <1>2. PICK span \in [TreeNode -> SUBSET TreeKey] : Spans(span) /\ TreeDescending(span)
    BY <1>1 DEF TreeInv, TreeResting, TreeIdle, TreeLeast, TreeFreeing, InCall
  <1>3. TreeTypeOK /\ TreeWhole(span)
    BY <1>2 DEF TreeInv, TreeDescending
  <1>4. PICK v \in TreeKey : v = tree_call.value
    BY <1>2 DEF TreeDescending
  <1>5. PICK T \in SUBSET TreeKey :
              /\ v \in T /\ Roots(span, at, T)
              /\ frames = <<>> => T = TreeKey /\ at = root
              /\ frames # <<>> =>
                    \E x \in Allocated, side \in Sides :
                       /\ x = Last(frames) /\ side = Side(v, tree_heap[x])
                       /\ T = Branch(span, x, side) /\ at = tree_heap[x][side]
    BY <1>2, <1>3, <1>4, WhereKeyBelongs
  <1>6. ~Held(T) /\ (frames = <<>> => root = NIL /\ Allocated = {})
    BY <1>1, <1>5 DEF Roots, TreeInv
  <1>7. PICK p \in TreeNode \ Allocated :
              IF frames = <<>>
              THEN tree_heap' = Planted(p, v) /\ root' = p
              ELSE /\ tree_heap' = [Planted(p, v) EXCEPT
                         ![Last(frames)][Side(v, tree_heap[Last(frames)])] = p]
                   /\ UNCHANGED root
    BY <1>4 DEF InsertNew
  <1>8. frames = <<>> \/ Last(frames) \in Allocated
    BY <1>5
  <1>9. /\ Allocated' = Allocated \cup {p}
        /\ tree_heap'[p] = [value |-> v, left |-> NIL, right |-> NIL]
        /\ \A y \in Allocated :
              /\ tree_heap'[y].value = tree_heap[y].value
              /\ tree_heap'[y].left =
                    IF frames # <<>> /\ y = Last(frames) /\ Side(v, tree_heap[y]) = "left"
                    THEN p ELSE tree_heap[y].left
              /\ tree_heap'[y].right =
                    IF frames # <<>> /\ y = Last(frames) /\ Side(v, tree_heap[y]) = "right"
                    THEN p ELSE tree_heap[y].right
              /\ tree_heap'[y] \in [value : TreeKey, left : TreeNode \cup {NIL},
                                    right : TreeNode \cup {NIL}]
    BY <1>3, <1>7, <1>8, PlantedHeap
  <1>10. \A y \in Allocated, other \in Sides :
            tree_heap'[y][other] =
               IF frames # <<>> /\ y = Last(frames) /\ Side(v, tree_heap[y]) = other
               THEN p ELSE tree_heap[y][other]
    BY <1>9 DEF Sides
  <1>11. PICK wider \in [TreeNode -> SUBSET TreeKey] :
              /\ wider[p] = T /\ \A x \in Allocated : wider[x] = span[x]
              /\ Spans(wider)'
              /\ \A x \in Allocated, side \in Sides :
                    Branch(wider, x, side)' = Branch(span, x, side)
    <2>1. \/ Allocated = {}
          \/ \E x \in Allocated, side \in Sides : T = Branch(span, x, side)
      BY <1>5, <1>6
    <2>2. tree_heap'[p].value = v /\ \A x \in Allocated : tree_heap'[x].value = tree_heap[x].value
      BY <1>9
    <2>3. QED
      BY <1>2, <1>3, <1>5, <1>6, <1>9, <2>1, <2>2, Planting
  <1>12. ASSUME NEW y \in Allocated, NEW other \in Sides
         PROVE  Whole(wider, y, other)'
    <2>1. Roots(span, tree_heap[y][other], Branch(span, y, other))
      BY <1>3 DEF TreeWhole, Whole
    <2>2. Branch(wider, y, other)' = Branch(span, y, other)
      BY <1>11
    <2>3. PICK x \in Allocated, side \in Sides :
                       /\ x = Last(frames) /\ side = Side(v, tree_heap[x])
                       /\ T = Branch(span, x, side)
      BY <1>5, <1>6
    <2>4. CASE y = x /\ other = side
      <3>1. tree_heap'[y][other] = p \/ frames = <<>>
        BY <1>10, <2>3, <2>4
      <3>2. p # NIL /\ p \in Allocated'
        BY <1>9, BinaryTreeAssumption
      <3>3. QED
        BY <1>6, <1>11, <2>2, <2>3, <2>4, <3>1, <3>2 DEF Whole, Roots
    <2>5. CASE ~(y = x /\ other = side)
      <3>1. tree_heap'[y][other] = tree_heap[y][other]
        BY <1>10, <2>3, <2>5
      <3>2. CASE tree_heap[y][other] # NIL
        BY <1>9, <1>11, <2>1, <2>2, <3>1, <3>2 DEF Whole, Roots
      <3>3. CASE tree_heap[y][other] = NIL
        <4>1. ~Held(Branch(span, y, other))
          BY <2>1, <3>3 DEF Roots
        <4>2. v \notin Branch(span, y, other)
          <5>1. SUFFICES ASSUME v \in Branch(span, y, other) PROVE FALSE
            OBVIOUS
          <5>2. y # x
            BY <1>3, <1>5, <2>3, <2>5, <5>1, Sided
          <5>3. \/ tree_heap[y].value \in Branch(span, x, side)
                \/ tree_heap[x].value \in Branch(span, y, other)
            BY <1>2, <1>3, <1>5, <2>3, <5>1, <5>2, BranchesMeet
          <5>4. QED
            BY <1>6, <2>3, <4>1, <5>3 DEF Held
        <4>3. \A z \in Allocated' : tree_heap'[z].value \notin Branch(wider, y, other)'
          BY <1>9, <2>2, <4>1, <4>2 DEF Held
        <4>4. QED
          BY <3>1, <3>3, <4>3 DEF Whole, Roots, Held
      <3>4. QED
        BY <3>2, <3>3
    <2>6. QED
      BY <2>4, <2>5
  <1>13. ASSUME NEW other \in Sides PROVE Whole(wider, p, other)'
    <2>1. tree_heap'[p][other] = NIL
      BY <1>9 DEF Sides
    <2>2. Branch(wider, p, other)' \subseteq T /\ v \notin Branch(wider, p, other)'
      BY <1>9, <1>11, BinaryTreeAssumption DEF Branch, On
    <2>3. \A y \in Allocated' : tree_heap'[y].value \notin Branch(wider, p, other)'
      BY <1>6, <1>9, <2>2 DEF Held
    <2>4. QED
      BY <2>1, <2>3 DEF Whole, Roots, Held
  <1>14. Roots(wider, root, TreeKey)'
    <2>1. p # NIL /\ p \in Allocated'
      BY <1>9, BinaryTreeAssumption
    <2>2. CASE frames = <<>>
      BY <1>5, <1>7, <1>11, <2>1, <2>2 DEF Roots
    <2>3. CASE frames # <<>>
      <3>1. root' = root /\ root # NIL
        BY <1>5, <1>7, <2>3 DEF TreeInv
      <3>2. root \in Allocated /\ span[root] = TreeKey
        BY <1>3, <3>1 DEF TreeWhole, Roots
      <3>3. QED
        BY <1>9, <1>11, <3>1, <3>2 DEF Roots
    <2>4. QED
      BY <2>2, <2>3
  <1>15. keys' = {tree_heap'[x].value : x \in Allocated'}
    BY <1>1, <1>3, <1>4, <1>9 DEF TreeWhole
  <1>16. TreeWhole(wider)'
    BY <1>9, <1>12, <1>13, <1>14, <1>15 DEF TreeWhole
  <1>17. tree_call' \in [fun : {"none", "insert", "search", "find_min", "free"},
                         value : Nat, returned : BOOLEAN]
         /\ tree_call'.returned /\ tree_call'.fun = "insert"
    BY <1>1 DEF TreeInv, InCall
  <1>18. TreeResting(wider)'
    BY <1>1, <1>16, <1>17 DEF TreeResting, TreeIdle, LookupExact
  <1>19. TreeTypeOK' /\ (root' = NIL => Allocated' = {})
    <2>1. Allocated' \subseteq TreeNode
      BY <1>3, <1>9 DEF TreeTypeOK
    <2>2. tree_heap'[p] \in [value : TreeKey, left : TreeNode \cup {NIL},
                             right : TreeNode \cup {NIL}]
      BY <1>9
    <2>3. root' # NIL /\ root' \in TreeNode
      BY <1>14, <1>9, <2>1 DEF Roots, Held, TreeWhole
    <2>4. QED
      BY <1>1, <1>3, <1>9, <2>1, <2>2, <2>3 DEF TreeTypeOK
  <1>20. QED
    BY <1>11, <1>17, <1>18, <1>19 DEF TreeInv

\* The last frame is on the stack, and what it waits for is within what every
\* frame waits for.
LEMMA LastFrame ==
    ASSUME TreeTypeOK, NEW span \in [TreeNode -> SUBSET TreeKey], TreeFreeing(span),
           frames # <<>>
    PROVE  /\ Len(frames) \in 1 .. Len(frames) /\ Last(frames) = frames[Len(frames)]
           /\ Last(frames).node \in Allocated /\ Last(frames).node \in FrameNodes
           /\ Last(frames).side \in Sides
           /\ Waited(span) = Branch(span, Last(frames).node, Last(frames).side)
           /\ \A k \in 1 .. Len(frames) :
                 /\ frames[k].node \in Allocated /\ frames[k].side \in Sides
                 /\ Waited(span) \subseteq Branch(span, frames[k].node, frames[k].side)
  <1>1. frames \in Seq([node : TreeNode, side : Sides]) /\ FrameNodes \subseteq Allocated
    BY DEF TreeFreeing
  <1>2. Len(frames) \in 1 .. Len(frames) /\ Last(frames) = frames[Len(frames)]
    BY <1>1, EmptySeq, LenProperties DEF Last
  <1>3. \A k \in 1 .. Len(frames) : frames[k].node \in Allocated /\ frames[k].side \in Sides
    <2>1. \A k \in 1 .. Len(frames) : frames[k] \in [node : TreeNode, side : Sides]
      BY <1>1, ElementOfSeq
    <2>2. QED
      BY <1>1, <2>1 DEF FrameNodes
  <1>4. Waited(span) = Branch(span, Last(frames).node, Last(frames).side)
    BY <1>2 DEF Waited
  <1>5. ASSUME NEW k \in 1 .. Len(frames)
        PROVE  Waited(span) \subseteq Branch(span, frames[k].node, frames[k].side)
    <2>1. CASE k = Len(frames)
      BY <1>2, <1>4, <2>1
    <2>2. CASE k < Len(frames)
      <3>1. span[Last(frames).node] \subseteq Branch(span, frames[k].node, frames[k].side)
        BY <1>2, <2>2 DEF TreeFreeing
      <3>2. Waited(span) \subseteq span[Last(frames).node]
        BY <1>4 DEF Branch
      <3>3. QED
        BY <3>1, <3>2
    <2>3. QED
      BY <2>1, <2>2
  <1>6. Last(frames).node \in FrameNodes
    BY <1>2 DEF FrameNodes
  <1>7. QED
    BY <1>2, <1>3, <1>4, <1>5, <1>6

LEMMA FreeDownInv == ASSUME TreeInv, FreeDown PROVE TreeInv'
  <1>1. /\ InCall("free") /\ at # NIL
        /\ frames' = Append(frames, [node |-> at, side |-> "left"])
        /\ at' = tree_heap[at].left
        /\ UNCHANGED <<tree_heap, root, tree_call, found, keys>>
    BY DEF FreeDown, Waiting
  <1>2. PICK span \in [TreeNode -> SUBSET TreeKey] : Spans(span) /\ TreeFreeing(span)
    BY <1>1 DEF TreeInv, TreeResting, TreeIdle, TreeDescending, TreeLeast, InCall
  <1>3. TreeTypeOK /\ at \in Allocated /\ at \in TreeNode /\ span[at] = Waited(span)
    BY <1>1, <1>2 DEF TreeInv, TreeTypeOK, TreeFreeing, Roots
  <1>4. /\ frames \in Seq([node : TreeNode, side : Sides]) /\ Len(frames) \in Nat
        /\ FrameNodes \subseteq Allocated
    BY <1>2, LenProperties DEF TreeFreeing
  <1>5. \A k \in 1 .. Len(frames) :
           /\ span[at] \subseteq Branch(span, frames[k].node, frames[k].side)
           /\ frames[k].node \in Allocated /\ frames[k].side \in Sides
    <2>1. CASE frames = <<>>
      BY <2>1
    <2>2. CASE frames # <<>>
      BY <1>2, <1>3, <2>2, LastFrame
    <2>3. QED
      BY <2>1, <2>2
  <1>6. at \notin FrameNodes
    <2>1. ASSUME NEW k \in 1 .. Len(frames) PROVE frames[k].node # at
      <3>1. tree_heap[at].value \in Branch(span, frames[k].node, frames[k].side)
        BY <1>2, <1>3, <1>5 DEF Spans
      <3>2. tree_heap[frames[k].node].value \notin Branch(span, frames[k].node, frames[k].side)
        BY <1>3, <1>5, Sided
      <3>3. QED
        BY <3>1, <3>2
    <2>2. QED
      BY <2>1 DEF FrameNodes
  <1>7. \A side \in Sides : Whole(span, at, side)
    BY <1>2, <1>3, <1>6 DEF TreeFreeing
  <1>8. /\ frames' \in Seq([node : TreeNode, side : Sides])
        /\ Len(frames') = Len(frames) + 1
        /\ \A k \in 1 .. Len(frames) : frames'[k] = frames[k]
        /\ frames'[Len(frames) + 1] = [node |-> at, side |-> "left"]
    <2>1. [node |-> at, side |-> "left"] \in [node : TreeNode, side : Sides]
      BY <1>3 DEF Sides
    <2>2. QED
      BY <1>1, <1>4, <2>1, AppendProperties
  <1>9. \A k \in 1 .. Len(frames') : k \in 1 .. Len(frames) \/ k = Len(frames) + 1
    BY <1>4, <1>8
  <1>10. Spans(span)' /\ Allocated' = Allocated
    BY <1>1, <1>2, SameHeap
  <1>11. FrameNodes' \subseteq Allocated' /\ FrameNodes \subseteq FrameNodes'
    <2>1. \A k \in 1 .. Len(frames') : frames'[k].node \in Allocated
      BY <1>3, <1>5, <1>8, <1>9
    <2>2. \A k \in 1 .. Len(frames) : k \in 1 .. Len(frames') /\ frames'[k].node = frames[k].node
      BY <1>4, <1>8
    <2>3. QED
      BY <1>10, <2>1, <2>2 DEF FrameNodes
  <1>12. ASSUME NEW k \in 1 .. Len(frames'), NEW m \in 1 .. Len(frames'), k < m
         PROVE  span[frames'[m].node] \subseteq Branch(span, frames[k].node, frames[k].side)'
    <2>1. k \in 1 .. Len(frames) /\ frames'[k] = frames[k]
      BY <1>4, <1>8, <1>12
    <2>2. span[frames'[m].node] \subseteq Branch(span, frames[k].node, frames[k].side)
      <3>1. CASE m = Len(frames) + 1
        BY <1>5, <1>8, <2>1, <3>1
      <3>2. CASE m \in 1 .. Len(frames)
        BY <1>2, <1>8, <1>12, <2>1, <3>2 DEF TreeFreeing
      <3>3. QED
        BY <1>9, <3>1, <3>2
    <2>3. Branch(span, frames[k].node, frames[k].side)' = Branch(span, frames[k].node, frames[k].side)
      BY <1>1, <2>1 DEF Branch, On
    <2>4. QED
      BY <2>2, <2>3
  <1>13. ASSUME NEW k \in 1 .. Len(frames') PROVE FrameWaits(span, k)'
    <2>1. CASE k \in 1 .. Len(frames)
      <3>1. FrameWaits(span, k)
        BY <1>2, <2>1 DEF TreeFreeing
      <3>2. frames'[k] = frames[k]
        BY <1>8, <2>1
      <3>3. k # 1 => k - 1 \in 1 .. Len(frames) /\ frames'[k - 1] = frames[k - 1]
        BY <1>4, <1>8, <2>1
      <3>4. QED
        BY <1>1, <3>1, <3>2, <3>3
           DEF FrameWaits, Branch, On, Whole, Roots, Held, Allocated
    <2>2. CASE k = Len(frames) + 1
      <3>1. frames'[k].node = at /\ frames'[k].side = "left"
        BY <1>8, <2>2
      <3>2. Whole(span, frames[k].node, "right")'
        BY <1>1, <1>7, <3>1 DEF Sides, Whole, Roots, Held, Allocated, Branch, On
      <3>3. span[at] = IF k = 1 THEN TreeKey
                       ELSE Branch(span, frames[k - 1].node, frames[k - 1].side)
        <4>1. frames = <<>> <=> k = 1
          BY <1>4, <2>2, EmptySeq
        <4>2. k - 1 = Len(frames)
          BY <1>4, <2>2
        <4>3. QED
          BY <1>3, <4>1, <4>2 DEF Waited
      <3>4. k # 1 => frames'[k - 1] = frames[k - 1]
        BY <1>4, <1>8, <2>2
      <3>5. k # 1 => Branch(span, frames[k - 1].node, frames[k - 1].side)' =
                        Branch(span, frames[k - 1].node, frames[k - 1].side)
        BY <1>1, <3>4 DEF Branch, On
      <3>6. QED
        BY <3>1, <3>2, <3>3, <3>5 DEF FrameWaits
    <2>3. QED
      BY <1>9, <2>1, <2>2
  <1>14. ASSUME NEW x \in Allocated' \ FrameNodes', NEW side \in Sides
         PROVE  Whole(span, x, side)'
    <2>1. x \in Allocated \ FrameNodes
      BY <1>10, <1>11
    <2>2. Whole(span, x, side)
      BY <1>2, <2>1 DEF TreeFreeing
    <2>3. QED
      BY <1>1, <2>2, SameHeap
  <1>15. Roots(span, at, Waited(span))'
    <2>1. Waited(span)' = Branch(span, at, "left")
      <3>1. frames' # <<>>
        BY <1>4, <1>8, EmptySeq
      <3>2. frames'[Len(frames')].node = at /\ frames'[Len(frames')].side = "left"
        BY <1>8
      <3>3. QED
        BY <1>1, <3>1, <3>2 DEF Waited, Branch, On
    <2>2. Roots(span, at', Branch(span, at, "left"))
      BY <1>1, <1>7 DEF Whole, Sides
    <2>3. QED
      BY <1>1, <2>1, <2>2 DEF Roots, Held, Allocated
  <1>16. TreeFreeing(span)'
    <2>1. InCall("free")'
      BY <1>1 DEF InCall
    <2>2. QED
      BY <1>8, <1>11, <1>12, <1>13, <1>14, <1>15, <2>1 DEF TreeFreeing
  <1>17. TreeTypeOK' /\ (root' = NIL => Allocated' = {})
    BY <1>1, <1>3, <1>10 DEF TreeInv, TreeTypeOK
  <1>18. QED
    BY <1>1, <1>10, <1>16, <1>17 DEF TreeInv

LEMMA WithoutLast ==
    ASSUME NEW S, NEW path \in Seq(S), path # <<>>
    PROVE  /\ Front(path) \in Seq(S) /\ Len(Front(path)) = Len(path) - 1
           /\ \A k \in 1 .. Len(path) - 1 : Front(path)[k] = path[k]
  <1>1. PICK last \in Nat \ {0} : last = Len(path)
    BY EmptySeq, LenProperties
  <1>2. \A k \in 1 .. last - 1 : path[k] \in S
    BY <1>1, ElementOfSeq
  <1>3. /\ SubSeq(path, 1, last - 1) \in Seq(S)
        /\ Len(SubSeq(path, 1, last - 1)) = last - 1
        /\ \A k \in 1 .. last - 1 : SubSeq(path, 1, last - 1)[k] = path[k]
    <2>1. /\ SubSeq(path, 1, last - 1) \in Seq(S)
          /\ Len(SubSeq(path, 1, last - 1)) = IF 1 <= last - 1 THEN last - 1 - 1 + 1 ELSE 0
          /\ \A k \in 1 .. last - 1 - 1 + 1 : SubSeq(path, 1, last - 1)[k] = path[1 + k - 1]
      BY <1>2, SubSeqProperties
    <2>2. QED
      BY <2>1
  <1>4. QED
    BY <1>1, <1>3 DEF Front

\* A frame turns from its left child to its right one.
LEMMA FreeTurnInv ==
    ASSUME TreeInv, FreeUp, Last(frames).side = "left"
    PROVE  TreeInv'
  <1>1. /\ InCall("free") /\ at = NIL /\ frames # <<>>
        /\ frames' = Append(Front(frames), [node |-> Last(frames).node, side |-> "right"])
        /\ at' = tree_heap[Last(frames).node].right
        /\ UNCHANGED <<tree_heap, root, tree_call, found, keys>>
    BY DEF FreeUp, Waiting
  <1>2. PICK span \in [TreeNode -> SUBSET TreeKey] : Spans(span) /\ TreeFreeing(span)
    BY <1>1 DEF TreeInv, TreeResting, TreeIdle, TreeDescending, TreeLeast, InCall
  <1>3. TreeTypeOK
    BY DEF TreeInv
  <1>4. PICK t \in Allocated : t = Last(frames).node
    BY <1>1, <1>2, <1>3, LastFrame
  <1>5. PICK last \in Nat \ {0} : last = Len(frames)
    BY <1>1, <1>2, EmptySeq, LenProperties DEF TreeFreeing
  <1>6. /\ frames \in Seq([node : TreeNode, side : Sides])
        /\ frames[last].node = t /\ frames[last].side = "left"
        /\ Waited(span) = Branch(span, t, "left")
    BY <1>1, <1>2, <1>3, <1>4, <1>5, LastFrame DEF TreeFreeing
  <1>7. ~Held(Branch(span, t, "left")) /\ Whole(span, t, "right")
    <2>1. FrameWaits(span, last) /\ Roots(span, at, Waited(span))
      BY <1>2, <1>5 DEF TreeFreeing
    <2>2. QED
      BY <1>1, <1>6, <2>1 DEF Roots, FrameWaits
  <1>8. /\ frames' \in Seq([node : TreeNode, side : Sides])
        /\ Len(frames') = last
        /\ \A k \in 1 .. last - 1 : frames'[k] = frames[k]
        /\ frames'[last] = [node |-> t, side |-> "right"]
    <2>1. /\ Front(frames) \in Seq([node : TreeNode, side : Sides])
          /\ Len(Front(frames)) = last - 1
          /\ \A k \in 1 .. last - 1 : Front(frames)[k] = frames[k]
      BY <1>1, <1>5, <1>6, WithoutLast
    <2>2. [node |-> t, side |-> "right"] \in [node : TreeNode, side : Sides]
      BY <1>3 DEF Sides, TreeTypeOK
    <2>3. QED
      BY <1>1, <1>4, <2>1, <2>2, AppendProperties
  <1>9. /\ \A k \in 1 .. last : frames'[k].node = frames[k].node
        /\ \A k \in 1 .. last : k \in 1 .. last - 1 \/ k = last
    BY <1>6, <1>8
  <1>10. Spans(span)' /\ Allocated' = Allocated
    BY <1>1, <1>2, SameHeap
  <1>11. FrameNodes' = FrameNodes
    BY <1>5, <1>8, <1>9 DEF FrameNodes
  <1>12. ASSUME NEW k \in 1 .. Len(frames'), NEW m \in 1 .. Len(frames'), k < m
         PROVE  span[frames'[m].node] \subseteq Branch(span, frames[k].node, frames[k].side)'
    <2>1. k \in 1 .. last - 1 /\ frames'[k] = frames[k]
      BY <1>8, <1>12
    <2>2. span[frames[m].node] \subseteq Branch(span, frames[k].node, frames[k].side)
      BY <1>2, <1>5, <1>8, <1>12 DEF TreeFreeing
    <2>3. Branch(span, frames[k].node, frames[k].side)' = Branch(span, frames[k].node, frames[k].side)
      BY <1>1, <2>1 DEF Branch, On
    <2>4. QED
      BY <1>8, <1>9, <2>2, <2>3
  <1>13. ASSUME NEW k \in 1 .. Len(frames') PROVE FrameWaits(span, k)'
    <2>1. FrameWaits(span, k)
      BY <1>2, <1>5, <1>8 DEF TreeFreeing
    <2>2. k # 1 => k - 1 \in 1 .. last - 1 /\ frames'[k - 1] = frames[k - 1]
      BY <1>8
    <2>3. CASE k \in 1 .. last - 1
      <3>1. frames'[k] = frames[k]
        BY <1>8, <2>3
      <3>2. QED
        BY <1>1, <2>1, <2>2, <3>1
           DEF FrameWaits, Branch, On, Whole, Roots, Held, Allocated
    <2>4. CASE k = last
      <3>1. frames'[k].node = t /\ frames'[k].side = "right" /\ frames[k].node = t
        BY <1>6, <1>8, <2>4
      <3>2. k # 1 => Branch(span, frames[k - 1].node, frames[k - 1].side)' =
                        Branch(span, frames[k - 1].node, frames[k - 1].side)
        BY <1>1, <2>2 DEF Branch, On
      <3>3. ~Held(Branch(span, frames[k].node, "left"))'
        BY <1>1, <1>7, <3>1 DEF Branch, On, Held, Allocated
      <3>4. span[frames'[k].node] = IF k = 1 THEN TreeKey
                                    ELSE Branch(span, frames[k - 1].node, frames[k - 1].side)'
        BY <2>1, <3>1, <3>2 DEF FrameWaits
      <3>5. QED
        BY <3>1, <3>3, <3>4 DEF FrameWaits
    <2>5. QED
      BY <1>8, <1>9, <2>3, <2>4
  <1>14. ASSUME NEW x \in Allocated' \ FrameNodes', NEW side \in Sides
         PROVE  Whole(span, x, side)'
    <2>1. Whole(span, x, side)
      BY <1>2, <1>10, <1>11 DEF TreeFreeing
    <2>2. QED
      BY <1>1, <2>1, SameHeap
  <1>15. Roots(span, at, Waited(span))'
    <2>1. Waited(span)' = Branch(span, t, "right")
      <3>1. frames' # <<>>
        BY <1>8, EmptySeq
      <3>2. frames'[Len(frames')].node = t /\ frames'[Len(frames')].side = "right"
        BY <1>8
      <3>3. QED
        BY <1>1, <3>1, <3>2 DEF Waited, Branch, On
    <2>2. Roots(span, at', Branch(span, t, "right"))
      BY <1>1, <1>4, <1>7 DEF Whole
    <2>3. QED
      BY <1>1, <2>1, <2>2 DEF Roots, Held, Allocated
  <1>16. TreeFreeing(span)'
    <2>1. InCall("free")'
      BY <1>1 DEF InCall
    <2>2. FrameNodes' \subseteq Allocated'
      BY <1>2, <1>10, <1>11 DEF TreeFreeing
    <2>3. QED
      BY <1>8, <1>12, <1>13, <1>14, <1>15, <2>1, <2>2 DEF TreeFreeing
  <1>17. TreeTypeOK' /\ (root' = NIL => Allocated' = {})
    BY <1>1, <1>3, <1>4, <1>10 DEF TreeInv, TreeTypeOK
  <1>18. QED
    BY <1>1, <1>10, <1>16, <1>17 DEF TreeInv

\* What a pointer roots is untouched when another node is freed.
LEMMA WholeWithout ==
    ASSUME NEW span, NEW t \in Allocated, tree_heap' = Freed(t),
           NEW x \in Allocated \ {t}, NEW side, Whole(span, x, side), tree_heap[x][side] # t
    PROVE  Whole(span, x, side)'
  <1>1. /\ Allocated' = Allocated \ {t}
        /\ \A y \in Allocated' : tree_heap'[y] = tree_heap[y]
    BY DEF Allocated, Freed
  <1>2. Branch(span, x, side)' = Branch(span, x, side)
    BY <1>1 DEF Branch, On
  <1>3. CASE tree_heap[x][side] = NIL
    BY <1>1, <1>2, <1>3 DEF Whole, Roots, Held
  <1>4. CASE tree_heap[x][side] # NIL
    BY <1>1, <1>2, <1>4 DEF Whole, Roots
  <1>5. QED
    BY <1>3, <1>4

\* A frame frees its node, with both subtrees gone.
LEMMA FreePopInv ==
    ASSUME TreeInv, FreeUp, Last(frames).side # "left"
    PROVE  TreeInv'
  <1>1. /\ InCall("free") /\ at = NIL /\ frames # <<>>
        /\ frames' = Front(frames) /\ tree_heap' = Freed(Last(frames).node) /\ at' = NIL
        /\ UNCHANGED <<root, tree_call, found, keys>>
    BY DEF FreeUp
  <1>2. PICK span \in [TreeNode -> SUBSET TreeKey] : Spans(span) /\ TreeFreeing(span)
    BY <1>1 DEF TreeInv, TreeResting, TreeIdle, TreeDescending, TreeLeast, InCall
  <1>3. TreeTypeOK
    BY DEF TreeInv
  <1>4. PICK t \in Allocated : t = Last(frames).node
    BY <1>1, <1>2, <1>3, LastFrame
  <1>5. PICK last \in Nat \ {0} : last = Len(frames)
    BY <1>1, <1>2, EmptySeq, LenProperties DEF TreeFreeing
  <1>6. /\ frames \in Seq([node : TreeNode, side : Sides])
        /\ frames[last].node = t /\ frames[last].side = "right"
        /\ Waited(span) = Branch(span, t, "right")
        /\ \A k \in 1 .. last : frames[k].node \in Allocated /\ frames[k].side \in Sides
    BY <1>1, <1>2, <1>3, <1>4, <1>5, LastFrame DEF TreeFreeing, Sides
  <1>7. \A y \in Allocated : tree_heap[y].value \in span[t] => y = t
    <2>1. FrameWaits(span, last) /\ Roots(span, at, Waited(span))
      BY <1>2, <1>5 DEF TreeFreeing
    <2>2. ~Held(Branch(span, t, "left")) /\ ~Held(Branch(span, t, "right"))
      BY <1>1, <1>6, <2>1 DEF Roots, FrameWaits
    <2>3. ASSUME NEW y \in Allocated, tree_heap[y].value \in span[t], y # t
          PROVE  FALSE
      <3>1. tree_heap[y].value # tree_heap[t].value
        BY <1>2, <2>3 DEF Spans
      <3>2. \E side \in Sides : tree_heap[y].value \in Branch(span, t, side)
        BY <1>3, <2>3, <3>1, Sided DEF Sides
      <3>3. QED
        BY <2>2, <2>3, <3>2 DEF Held, Sides
    <2>4. QED
      BY <2>3
  <1>8. /\ frames' \in Seq([node : TreeNode, side : Sides])
        /\ Len(frames') = last - 1
        /\ \A k \in 1 .. last - 1 : frames'[k] = frames[k]
    BY <1>1, <1>5, <1>6, WithoutLast
  <1>9. /\ Allocated' = Allocated \ {t}
        /\ \A y \in Allocated' : tree_heap'[y] = tree_heap[y]
    BY <1>1, <1>4 DEF Allocated, Freed
  <1>10. ASSUME NEW k \in 1 .. last - 1
         PROVE  /\ span[t] \subseteq Branch(span, frames[k].node, frames[k].side)
                /\ frames[k].node # t
    <2>1. k \in 1 .. Len(frames) /\ last \in 1 .. Len(frames) /\ k < last
      BY <1>5
    <2>2. span[frames[last].node] \subseteq Branch(span, frames[k].node, frames[k].side)
      BY <1>2, <2>1 DEF TreeFreeing
    <2>3. tree_heap[t].value \in Branch(span, frames[k].node, frames[k].side)
      BY <1>2, <1>6, <2>2 DEF Spans
    <2>4. frames[k].node \in Allocated /\ frames[k].side \in Sides
      BY <1>6, <2>1
    <2>5. tree_heap[frames[k].node].value \notin Branch(span, frames[k].node, frames[k].side)
      BY <1>3, <2>4, Sided
    <2>6. QED
      BY <1>6, <2>2, <2>3, <2>5
  <1>11. \A x \in Allocated' : \A side : Branch(span, x, side)' = Branch(span, x, side)
    BY <1>9 DEF Branch, On
  <1>12. Spans(span)'
    <2>1. \A x, y \in Allocated' : Nested(span, x, y) => Nested(span, x, y)'
      BY <1>11 DEF Nested
    <2>2. QED
      BY <1>2, <1>9, <2>1 DEF Spans
  <1>13. /\ FrameNodes = FrameNodes' \cup {t}
         /\ FrameNodes' \subseteq Allocated'
    <2>1. FrameNodes' = {frames[k].node : k \in 1 .. last - 1}
      BY <1>8 DEF FrameNodes
    <2>2. 1 .. last = (1 .. last - 1) \cup {last}
      OBVIOUS
    <2>3. FrameNodes = {frames[k].node : k \in 1 .. last - 1} \cup {t}
      BY <1>5, <1>6, <2>2 DEF FrameNodes
    <2>4. QED
      BY <1>6, <1>9, <1>10, <2>1, <2>2, <2>3
  <1>14. ASSUME NEW k \in 1 .. Len(frames'), NEW m \in 1 .. Len(frames'), k < m
         PROVE  span[frames'[m].node] \subseteq Branch(span, frames[k].node, frames[k].side)'
    <2>1. /\ k \in 1 .. last - 1 /\ frames'[k] = frames[k] /\ frames[k].node \in Allocated'
          /\ frames'[m] = frames[m] /\ m \in 1 .. last
      BY <1>6, <1>8, <1>9, <1>10, <1>14
    <2>2. span[frames[m].node] \subseteq Branch(span, frames[k].node, frames[k].side)
      BY <1>2, <1>5, <1>14, <2>1 DEF TreeFreeing
    <2>3. Branch(span, frames[k].node, frames[k].side)' = Branch(span, frames[k].node, frames[k].side)
      BY <1>9, <2>1 DEF Branch, On
    <2>4. QED
      BY <2>1, <2>2, <2>3
  <1>15. ASSUME NEW k \in 1 .. Len(frames') PROVE FrameWaits(span, k)'
    <2>1. /\ k \in 1 .. last - 1 /\ k \in 1 .. last /\ frames'[k] = frames[k]
          /\ frames[k].node \in Allocated' /\ frames[k].node \in Allocated \ {t}
      BY <1>6, <1>8, <1>9, <1>10
    <2>2. FrameWaits(span, k)
      BY <1>2, <1>5, <2>1 DEF TreeFreeing
    <2>3. k # 1 => /\ frames'[k - 1] = frames[k - 1]
                   /\ Branch(span, frames[k - 1].node, frames[k - 1].side)' =
                         Branch(span, frames[k - 1].node, frames[k - 1].side)
      <3>1. SUFFICES ASSUME k # 1
                     PROVE  /\ frames'[k - 1] = frames[k - 1]
                            /\ Branch(span, frames[k - 1].node, frames[k - 1].side)' =
                                 Branch(span, frames[k - 1].node, frames[k - 1].side)
        OBVIOUS
      <3>2. k - 1 \in 1 .. last - 1 /\ k - 1 \in 1 .. last
        BY <2>1, <3>1
      <3>3. frames'[k - 1] = frames[k - 1] /\ frames[k - 1].node \in Allocated'
        BY <1>6, <1>8, <1>9, <1>10, <3>2
      <3>4. QED
        BY <1>9, <3>3 DEF Branch, On
    <2>4. frames[k].side = "left" => Whole(span, frames[k].node, "right")'
      <3>1. SUFFICES ASSUME frames[k].side = "left"
                     PROVE  Whole(span, frames[k].node, "right")'
        OBVIOUS
      <3>2. PICK x \in Allocated \ {t} : x = frames[k].node
        BY <2>1
      <3>3. Whole(span, x, "right") /\ span[t] \subseteq Branch(span, x, "left")
        BY <1>10, <2>1, <2>2, <3>1, <3>2 DEF FrameWaits
      <3>4. tree_heap[x]["right"] # t
        <4>1. SUFFICES ASSUME tree_heap[x]["right"] = t PROVE FALSE
          OBVIOUS
        <4>2. t # NIL
          BY <1>3, BinaryTreeAssumption DEF TreeTypeOK
        <4>3. span[t] = Branch(span, x, "right")
          BY <3>3, <4>1, <4>2 DEF Whole, Roots
        <4>4. /\ tree_heap[t].value \in Branch(span, x, "right")
              /\ tree_heap[t].value \in Branch(span, x, "left")
          BY <1>2, <3>3, <4>3 DEF Spans
        <4>5. QED
          BY <1>3, <4>4, Sided DEF Sides
      <3>5. Whole(span, x, "right")'
        BY <1>1, <1>4, <3>3, <3>4, WholeWithout
      <3>6. QED
        BY <2>1, <3>2, <3>5
    <2>5. frames[k].side = "right" => ~Held(Branch(span, frames[k].node, "left"))'
      BY <1>9, <2>1, <2>2 DEF FrameWaits, Held, Branch, On
    <2>6. QED
      BY <2>1, <2>2, <2>3, <2>4, <2>5 DEF FrameWaits
  <1>16. ASSUME NEW x \in Allocated' \ FrameNodes', NEW side \in Sides
         PROVE  Whole(span, x, side)'
    <2>1. x \in Allocated \ {t} /\ x \notin FrameNodes
      BY <1>9, <1>13
    <2>2. Whole(span, x, side)
      BY <1>2, <2>1 DEF TreeFreeing
    <2>3. tree_heap[x][side] # t
      <3>1. SUFFICES ASSUME tree_heap[x][side] = t PROVE FALSE
        OBVIOUS
      <3>2. t # NIL
        BY <1>3, BinaryTreeAssumption DEF TreeTypeOK
      <3>3. span[t] = Branch(span, x, side)
        BY <2>2, <3>1, <3>2 DEF Whole, Roots
      <3>4. tree_heap[x].value \in TreeKey /\ tree_heap[x].value \notin Branch(span, x, side)
        BY <1>3, <2>1, Sided
      <3>5. tree_heap[t].value \in span[t]
        BY <1>2 DEF Spans
      <3>6. FrameWaits(span, last)
        BY <1>2, <1>5 DEF TreeFreeing
      <3>7. CASE last = 1
        BY <1>6, <3>3, <3>4, <3>6, <3>7 DEF FrameWaits
      <3>8. CASE last # 1
        <4>1. PICK k \in 1 .. last : k = last - 1
          BY <3>8
        <4>2. PICK y \in Allocated : y = frames[k].node
          BY <1>6
        <4>3. PICK other \in Sides : other = frames[k].side
          BY <1>6
        <4>4. span[t] = Branch(span, y, other)
          BY <1>6, <3>6, <3>8, <4>1, <4>2, <4>3 DEF FrameWaits
        <4>5. y # x
          BY <1>5, <2>1, <4>2 DEF FrameNodes
        <4>6. PICK k1 \in span[t] : k1 = tree_heap[t].value
          BY <3>5
        <4>7. k1 \in Branch(span, x, side) /\ k1 \in Branch(span, y, other) /\ x \in Allocated
          BY <2>1, <3>3, <4>4, <4>6
        <4>8. \/ tree_heap[x].value \in Branch(span, y, other)
              \/ tree_heap[y].value \in Branch(span, x, side)
          BY <1>2, <1>3, <4>5, <4>7, BranchesMeet
        <4>9. tree_heap[y].value \notin Branch(span, y, other)
          BY <1>3, Sided
        <4>10. QED
          BY <3>3, <3>4, <4>4, <4>8, <4>9
      <3>9. QED
        BY <3>7, <3>8
    <2>4. QED
      BY <1>1, <1>4, <2>1, <2>2, <2>3, WholeWithout
  <1>17. Roots(span, at, Waited(span))'
    <2>1. \A y \in Allocated' : tree_heap'[y].value \notin span[t]
      BY <1>7, <1>9
    <2>2. Waited(span)' = span[t]
      <3>1. FrameWaits(span, last)
        BY <1>2, <1>5 DEF TreeFreeing
      <3>2. CASE last = 1
        <4>1. frames' = <<>>
          BY <1>8, <3>2, EmptySeq
        <4>2. QED
          BY <1>6, <3>1, <3>2, <4>1 DEF FrameWaits, Waited
      <3>3. CASE last # 1
        <4>1. last - 1 \in 1 .. last - 1 /\ last - 1 \in 1 .. last
          BY <3>3
        <4>2. frames' # <<>> /\ frames'[Len(frames')] = frames[last - 1]
          BY <1>8, <4>1, EmptySeq
        <4>3. frames[last - 1].node \in Allocated'
          BY <1>6, <1>9, <1>10, <4>1
        <4>4. Waited(span)' = Branch(span, frames[last - 1].node, frames[last - 1].side)
          BY <1>9, <4>2, <4>3 DEF Waited, Branch, On
        <4>5. QED
          BY <1>6, <3>1, <3>3, <4>4 DEF FrameWaits
      <3>4. QED
        BY <3>2, <3>3
    <2>3. QED
      BY <1>1, <2>1, <2>2 DEF Roots, Held
  <1>18. TreeFreeing(span)'
    <2>1. InCall("free")'
      BY <1>1 DEF InCall
    <2>2. QED
      BY <1>8, <1>13, <1>14, <1>15, <1>16, <1>17, <2>1 DEF TreeFreeing
  <1>19. TreeTypeOK' /\ (root' = NIL => Allocated' = {})
    BY <1>1, <1>9 DEF TreeInv, TreeTypeOK
  <1>20. QED
    BY <1>1, <1>12, <1>18, <1>19 DEF TreeInv

LEMMA FreeEndedInv == ASSUME TreeInv, FreeEnded PROVE TreeInv'
  <1>1. /\ InCall("free") /\ at = NIL /\ frames = <<>>
        /\ root' = NIL /\ found' = NIL /\ keys' = {} /\ tree_heap' = tree_heap
        /\ tree_call' = [tree_call EXCEPT !.returned = TRUE] /\ at' = NIL /\ frames' = <<>>
    BY DEF FreeEnded, TreeReturn
  <1>2. PICK span \in [TreeNode -> SUBSET TreeKey] : Spans(span) /\ TreeFreeing(span)
    BY <1>1 DEF TreeInv, TreeResting, TreeIdle, TreeDescending, TreeLeast, InCall
  <1>3. Allocated = {}
    <2>1. ~Held(TreeKey)
      BY <1>1, <1>2 DEF TreeFreeing, Roots, Waited
    <2>2. QED
      BY <2>1 DEF Held, TreeInv, TreeTypeOK
  <1>4. Allocated' = {} /\ Spans(span)'
    BY <1>1, <1>3 DEF Allocated, Spans
  <1>5. TreeWhole(span)'
    BY <1>1, <1>4 DEF TreeWhole, Roots, Held
  <1>6. tree_call' \in [fun : {"none", "insert", "search", "find_min", "free"},
                        value : Nat, returned : BOOLEAN]
        /\ tree_call'.returned /\ tree_call'.fun = "free"
    BY <1>1 DEF TreeInv, InCall
  <1>7. TreeResting(span)'
    BY <1>1, <1>5, <1>6 DEF TreeResting, TreeIdle, LookupExact
  <1>8. TreeTypeOK' /\ (root' = NIL => Allocated' = {})
    BY <1>1, <1>4 DEF TreeTypeOK
  <1>9. QED
    BY <1>4, <1>6, <1>7, <1>8 DEF TreeInv

LEMMA NextTreeInv == TreeInv /\ [TreeNext]_treeVars => TreeInv'
  <1> SUFFICES ASSUME TreeInv, [TreeNext]_treeVars PROVE TreeInv'
    OBVIOUS
  <1>1. ASSUME NEW f \in {"insert", "search"}, NEW v \in TreeKey, TreeCall(f, v)
        PROVE  TreeInv'
    BY <1>1, TreeCallInv, BinaryTreeAssumption
  <1>2. ASSUME NEW f \in {"find_min", "free"}, TreeCall(f, 0) PROVE TreeInv'
    BY <1>2, TreeCallInv
  <1>3. CASE Descend
    BY <1>3, DescendInv
  <1>4. CASE InsertNew
    BY <1>4, InsertNewInv
  <1>5. CASE InsertNothing
    BY <1>5, InsertNothingInv
  <1>6. CASE SearchEnd
    BY <1>6, SearchEndInv
  <1>7. CASE bst_find_min
    BY <1>7, FindMinInv
  <1>8. CASE FreeDown
    BY <1>8, FreeDownInv
  <1>9. CASE FreeUp
    BY <1>9, FreeTurnInv, FreePopInv
  <1>10. CASE FreeEnded
    BY <1>10, FreeEndedInv
  <1>11. CASE UNCHANGED treeVars
    <2>1. UNCHANGED <<tree_heap, root, tree_call, at, frames, found, keys>>
      BY <1>11 DEF treeVars
    <2>2. PICK span \in [TreeNode -> SUBSET TreeKey] :
             Spans(span) /\ \/ TreeResting(span) \/ TreeDescending(span)
                            \/ TreeLeast(span)   \/ TreeFreeing(span)
      BY DEF TreeInv
    <2>3. /\ Spans(span)' /\ Allocated' = Allocated
          /\ TreeWhole(span)' <=> TreeWhole(span)
          /\ \A x, side : Branch(span, x, side)' = Branch(span, x, side)
          /\ \A x, side : Whole(span, x, side)' <=> Whole(span, x, side)
          /\ \A pointer, T : Roots(span, pointer, T)' <=> Roots(span, pointer, T)
          /\ \A T : Held(T)' <=> Held(T)
      BY <2>1, <2>2, SameHeap
    <2>4. CASE TreeResting(span)
      <3>1. TreeResting(span)'
        BY <2>1, <2>3, <2>4 DEF TreeResting, TreeIdle, LookupExact
      <3>2. QED
        BY <2>1, <2>3, <3>1 DEF TreeInv, TreeTypeOK
    <2>5. CASE TreeDescending(span)
      <3>1. TreeDescending(span)'
        BY <2>1, <2>3, <2>5 DEF TreeDescending, InCall, Side
      <3>2. QED
        BY <2>1, <2>3, <3>1 DEF TreeInv, TreeTypeOK
    <2>6. CASE TreeLeast(span)
      <3>1. TreeLeast(span)'
        BY <2>1, <2>3, <2>6 DEF TreeLeast, InCall
      <3>2. QED
        BY <2>1, <2>3, <3>1 DEF TreeInv, TreeTypeOK
    <2>7. CASE TreeFreeing(span)
      <3>1. FrameNodes' = FrameNodes /\ Waited(span)' = Waited(span)
        BY <2>1, <2>3 DEF FrameNodes, Waited
      <3>2. \A k : FrameWaits(span, k)' <=> FrameWaits(span, k)
        BY <2>1, <2>3 DEF FrameWaits
      <3>3. TreeFreeing(span)'
        BY <2>1, <2>3, <2>7, <3>1, <3>2 DEF TreeFreeing, InCall
      <3>4. QED
        BY <2>1, <2>3, <3>3 DEF TreeInv, TreeTypeOK
    <2>8. QED
      BY <2>2, <2>4, <2>5, <2>6, <2>7
  <1>12. QED
    BY <1>1, <1>2, <1>3, <1>4, <1>5, <1>6, <1>7, <1>8, <1>9, <1>10, <1>11
       DEF TreeNext, TreeRun

LEMMA TreeInvGives == TreeInv => TreeTypeOK /\ LookupExact /\ FreeInOrder
  <1> SUFFICES ASSUME TreeInv PROVE TreeTypeOK /\ LookupExact /\ FreeInOrder
    OBVIOUS
  <1>1. PICK span \in [TreeNode -> SUBSET TreeKey] :
           \/ TreeResting(span) \/ TreeDescending(span)
           \/ TreeLeast(span)   \/ TreeFreeing(span)
    BY DEF TreeInv
  <1>2. LookupExact
    BY <1>1 DEF TreeResting, TreeDescending, TreeLeast, TreeFreeing, InCall, LookupExact
  <1>3. ASSUME InCall("free")
        PROVE  at \in Allocated \cup {NIL} /\ \A k \in DOMAIN frames : frames[k].node \in Allocated
    <2>1. TreeFreeing(span)
      BY <1>1, <1>3 DEF TreeResting, TreeIdle, TreeDescending, TreeLeast, InCall
    <2>2. DOMAIN frames = 1 .. Len(frames)
      BY <2>1, LenProperties DEF TreeFreeing
    <2>3. QED
      BY <2>1, <2>2 DEF TreeFreeing, Roots, FrameNodes
  <1>4. QED
    BY <1>2, <1>3 DEF TreeInv, FreeInOrder

------------------------------------------------------------------------------
(* The two recursive walks of the tree. A walk gives each node a value that  *)
(* is made of those of its children; that it has one is shown from a rank    *)
(* that is less for the children.                                            *)

\* The children l[x] and r[x] of every node x of A rank below it.
Ranked(A, nil, l, r) ==
    \E rank \in [A \cup {nil} -> Nat], bound \in Nat :
       \A x \in A : rank[l[x]] < rank[x] /\ rank[r[x]] < rank[x] /\ rank[x] <= bound

\* A walk with values in V, base at nil and c of the children's at a node.
Walkable(A, nil, V, base, l, r, c) ==
    \E f \in [A \cup {nil} -> V] :
       /\ f[nil] = base
       /\ \A x \in A : f[x] = c[x][f[l[x]]][f[r[x]]]

LEMMA WalkExists ==
    ASSUME NEW A, NEW nil, nil \notin A, NEW V, NEW base \in V,
           NEW l \in [A -> A \cup {nil}], NEW r \in [A -> A \cup {nil}],
           NEW c \in [A -> [V -> [V -> V]]], Ranked(A, nil, l, r)
    PROVE  Walkable(A, nil, V, base, l, r, c)
  <1>1. PICK rank \in [A \cup {nil} -> Nat], bound \in Nat :
           \A x \in A : rank[l[x]] < rank[x] /\ rank[r[x]] < rank[x] /\ rank[x] <= bound
    BY DEF Ranked
  <1> DEFINE Up(f, size) == /\ f[nil] = base
                         /\ \A x \in A : rank[x] < size => f[x] = c[x][f[l[x]]][f[r[x]]]
             T == {size \in Nat : \E f \in [A \cup {nil} -> V] : Up(f, size)}
  <1>2. 0 \in T
    <2> DEFINE f == [x \in A \cup {nil} |-> base]
    <2>1. f \in [A \cup {nil} -> V] /\ f[nil] = base
      OBVIOUS
    <2>2. \A x \in A : ~(rank[x] < 0)
      OBVIOUS
    <2>3. Up(f, 0)
      BY <2>1, <2>2
    <2>4. QED
      BY <2>1, <2>3
  <1>3. ASSUME NEW size \in Nat, size \in T PROVE size + 1 \in T
    <2>1. PICK f \in [A \cup {nil} -> V] : Up(f, size)
      BY <1>3
    <2> DEFINE g == [x \in A \cup {nil} |-> IF x \in A /\ rank[x] < size + 1
                                            THEN c[x][f[l[x]]][f[r[x]]] ELSE base]
    <2>2. \A x \in A : /\ f[l[x]] \in V /\ f[r[x]] \in V
                       /\ c[x] \in [V -> [V -> V]]
      OBVIOUS
    <2>3. \A x \in A : c[x][f[l[x]]] \in [V -> V]
      BY <2>2
    <2>4. \A x \in A : c[x][f[l[x]]][f[r[x]]] \in V
      BY <2>2, <2>3
    <2>5. g \in [A \cup {nil} -> V] /\ g[nil] = base
      BY <2>4
    <2>6. \A y \in A \cup {nil} : rank[y] < size => g[y] = f[y]
      <3>1. ASSUME NEW y \in A, rank[y] < size PROVE g[y] = f[y]
        <4>1. rank[y] < size + 1
          BY <3>1
        <4>2. g[y] = c[y][f[l[y]]][f[r[y]]]
          BY <4>1
        <4>3. QED
          BY <2>1, <3>1, <4>2
      <3>2. g[nil] = f[nil]
        BY <2>1, <2>5
      <3>3. QED
        BY <3>1, <3>2
    <2>7. ASSUME NEW x \in A, rank[x] < size + 1 PROVE g[x] = c[x][g[l[x]]][g[r[x]]]
      <3>1. /\ l[x] \in A \cup {nil} /\ r[x] \in A \cup {nil}
            /\ rank[l[x]] < size /\ rank[r[x]] < size
        BY <1>1, <2>7
      <3>2. g[l[x]] = f[l[x]] /\ g[r[x]] = f[r[x]]
        BY <2>6, <3>1
      <3>3. g[x] = c[x][f[l[x]]][f[r[x]]]
        BY <2>7
      <3>4. QED
        BY <3>2, <3>3
    <2> HIDE DEF g
    <2>8. Up(g, size + 1)
      BY <2>5, <2>7
    <2>9. QED
      BY <2>5, <2>8
  <1>4. bound + 1 \in T
    <2> HIDE DEF T
    <2>1. Nat \subseteq T
      BY <1>2, <1>3, InductionOnSet
    <2>2. QED
      BY <2>1
  <1>5. PICK f \in [A \cup {nil} -> V] : Up(f, bound + 1)
    BY <1>4
  <1>6. \A x \in A : f[x] = c[x][f[l[x]]][f[r[x]]]
    BY <1>1, <1>5
  <1>7. QED
    BY <1>5, <1>6 DEF Walkable

\* The keys in the subtree at a pointer.
KeysAt(span, pointer) == IF pointer = NIL THEN {} ELSE span[pointer] \cap keys

LEMMA KeysFinite ==
    ASSUME TreeTypeOK, NEW span \in [TreeNode -> SUBSET TreeKey], Spans(span), TreeWhole(span)
    PROVE  /\ IsFiniteSet(Allocated) /\ IsFiniteSet(keys) /\ keys \subseteq Nat
           /\ Cardinality(Allocated) = Cardinality(keys)
  <1>1. IsFiniteSet(Allocated)
    BY BinaryTreeAssumption, FS_Subset DEF TreeTypeOK
  <1> DEFINE value == [x \in Allocated |-> tree_heap[x].value]
  <1>2. value \in Bijection(Allocated, keys)
    <2>1. value \in [Allocated -> keys]
      BY DEF TreeWhole
    <2>2. \A x, y \in Allocated : value[x] = value[y] => x = y
      BY DEF Spans
    <2>3. \A k \in keys : \E x \in Allocated : value[x] = k
      BY DEF TreeWhole
    <2> HIDE DEF value
    <2>4. QED
      BY <2>1, <2>2, <2>3 DEF Bijection, Injection, Surjection, IsInjective
  <1>3. keys \subseteq Nat
    BY BinaryTreeAssumption DEF TreeWhole, TreeTypeOK
  <1>4. QED
    BY <1>1, <1>2, <1>3, FS_Bijection DEF ExistsBijection

\* The keys under a node are those under its left child, its own, and those
\* under its right child, in this order.
LEMMA KeysPart ==
    ASSUME TreeTypeOK, NEW span \in [TreeNode -> SUBSET TreeKey], Spans(span), TreeWhole(span),
           NEW x \in Allocated
    PROVE  LET L == KeysAt(span, tree_heap[x].left)
               R == KeysAt(span, tree_heap[x].right)
               v == tree_heap[x].value
           IN  /\ tree_heap[x].left \in Allocated \cup {NIL}
               /\ tree_heap[x].right \in Allocated \cup {NIL}
               /\ KeysAt(span, x) = L \cup {v} \cup R
               /\ \A k \in L : k < v
               /\ \A k \in R : v < k
               /\ IsFiniteSet(L) /\ IsFiniteSet(R) /\ L \subseteq Nat /\ R \subseteq Nat
               /\ Cardinality(KeysAt(span, x)) = Cardinality(L) + 1 + Cardinality(R)
  <1> DEFINE L == KeysAt(span, tree_heap[x].left)
             R == KeysAt(span, tree_heap[x].right)
             v == tree_heap[x].value
  <1>1. ASSUME NEW side \in Sides
        PROVE  /\ tree_heap[x][side] \in Allocated \cup {NIL}
               /\ KeysAt(span, tree_heap[x][side]) = Branch(span, x, side) \cap keys
    <2>1. Roots(span, tree_heap[x][side], Branch(span, x, side))
      BY DEF TreeWhole, Whole
    <2>2. CASE tree_heap[x][side] = NIL
      <3>1. \A y \in Allocated : tree_heap[y].value \notin Branch(span, x, side)
        BY <2>1, <2>2 DEF Roots, Held
      <3>2. Branch(span, x, side) \cap keys = {}
        BY <3>1 DEF TreeWhole
      <3>3. QED
        BY <2>2, <3>2 DEF KeysAt
    <2>3. CASE tree_heap[x][side] # NIL
      BY <2>1, <2>3 DEF Roots, KeysAt
    <2>4. QED
      BY <2>2, <2>3
  <1>2. L = Branch(span, x, "left") \cap keys /\ R = Branch(span, x, "right") \cap keys
    BY <1>1 DEF Sides
  <1>3. v \in keys /\ v \in span[x] /\ x # NIL
    BY BinaryTreeAssumption DEF TreeWhole, Spans, TreeTypeOK
  <1>4. keys \subseteq Nat /\ IsFiniteSet(keys) /\ v \in Nat
    BY <1>3, KeysFinite
  <1>5. /\ \A k \in L : k < v
        /\ \A k \in R : k > v
    BY <1>2 DEF Branch, On
  <1>6. KeysAt(span, x) = L \cup {v} \cup R
    <2>1. KeysAt(span, x) = span[x] \cap keys
      BY <1>3 DEF KeysAt
    <2>2. ASSUME NEW k \in span[x] \cap keys, k # v PROVE k \in L \/ k \in R
      <3>1. PICK side \in Sides : k \in Branch(span, x, side)
        <4>1. "left" \in Sides
          BY DEF Sides
        <4>2. QED
          BY <2>2, <4>1, Sided
      <3>2. QED
        BY <1>2, <3>1 DEF Sides
    <2>3. L \subseteq span[x] \cap keys /\ R \subseteq span[x] \cap keys
      BY <1>2 DEF Branch
    <2>4. QED
      BY <1>3, <2>1, <2>2, <2>3
  <1>7. L \subseteq keys /\ R \subseteq keys
    BY <1>2
  <1>8. IsFiniteSet(L) /\ IsFiniteSet(R) /\ L \subseteq Nat /\ R \subseteq Nat
    BY <1>4, <1>7, FS_Subset
  <1>9. Cardinality(KeysAt(span, x)) = Cardinality(L) + 1 + Cardinality(R)
    <2> HIDE DEF L, R, v
    <2>1. v \notin L /\ v \notin R /\ L \cap R = {}
      BY <1>4, <1>5, <1>8
    <2>2. IsFiniteSet(L \cup {v}) /\ Cardinality(L \cup {v}) = Cardinality(L) + 1
      BY <1>8, <2>1, FS_AddElement
    <2>3. (L \cup {v}) \cap R = {}
      BY <2>1
    <2>4. Cardinality((L \cup {v}) \cap R) = 0
      BY <2>3, FS_EmptySet
    <2>5. Cardinality(L) \in Nat /\ Cardinality(R) \in Nat
      BY <1>8, FS_CardinalityType
    <2>6. Cardinality((L \cup {v}) \cup R)
            = Cardinality(L \cup {v}) + Cardinality(R) - Cardinality((L \cup {v}) \cap R)
      BY <1>8, <2>2, FS_Union
    <2>7. QED
      BY <1>6, <2>2, <2>4, <2>5, <2>6
  <1>10. tree_heap[x].left \in Allocated \cup {NIL} /\ tree_heap[x].right \in Allocated \cup {NIL}
    BY <1>1 DEF Sides
  <1>11. QED
    BY <1>5, <1>6, <1>8, <1>9, <1>10, <1>4

\* How many keys are under a node.
Rank(span) == [p \in Allocated \cup {NIL} |-> Cardinality(KeysAt(span, p))]

LEMMA RankFalls ==
    ASSUME TreeTypeOK, NEW span \in [TreeNode -> SUBSET TreeKey], Spans(span), TreeWhole(span)
    PROVE  /\ Rank(span) \in [Allocated \cup {NIL} -> Nat]
           /\ Cardinality(keys) \in Nat
           /\ \A x \in Allocated :
                 /\ Rank(span)[tree_heap[x].left] < Rank(span)[x]
                 /\ Rank(span)[tree_heap[x].right] < Rank(span)[x]
                 /\ Rank(span)[x] <= Cardinality(keys)
  <1>1. IsFiniteSet(keys) /\ Cardinality(keys) \in Nat
    BY KeysFinite, FS_CardinalityType
  <1>2. ASSUME NEW p \in Allocated \cup {NIL}
        PROVE  /\ Cardinality(KeysAt(span, p)) \in Nat
               /\ Cardinality(KeysAt(span, p)) <= Cardinality(keys)
    <2>1. KeysAt(span, p) \in SUBSET keys
      BY DEF KeysAt
    <2>2. QED
      BY <1>1, <2>1, FS_Subset, FS_CardinalityType
  <1>3. ASSUME NEW x \in Allocated
        PROVE  /\ Rank(span)[tree_heap[x].left] < Rank(span)[x]
               /\ Rank(span)[tree_heap[x].right] < Rank(span)[x]
               /\ Rank(span)[x] <= Cardinality(keys)
    <2>1. /\ tree_heap[x].left \in Allocated \cup {NIL}
          /\ tree_heap[x].right \in Allocated \cup {NIL}
          /\ Cardinality(KeysAt(span, x)) = Cardinality(KeysAt(span, tree_heap[x].left)) + 1
                                            + Cardinality(KeysAt(span, tree_heap[x].right))
      BY KeysPart
    <2>2. \A p \in Allocated \cup {NIL} : Rank(span)[p] = Cardinality(KeysAt(span, p))
      BY DEF Rank
    <2>3. QED
      BY <1>2, <2>1, <2>2
  <1>4. Rank(span) \in [Allocated \cup {NIL} -> Nat]
    BY <1>2 DEF Rank
  <1>5. QED
    BY <1>1, <1>3, <1>4

LEMMA InorderRecurs ==
    ASSUME TreeTypeOK, NEW span \in [TreeNode -> SUBSET TreeKey], Spans(span), TreeWhole(span)
    PROVE  /\ bst_inorder[NIL] = <<>>
           /\ \A x \in Allocated :
                 bst_inorder[x] = bst_inorder[tree_heap[x].left] \o <<tree_heap[x].value>>
                                  \o bst_inorder[tree_heap[x].right]
  <1> DEFINE V == Seq(TreeKey)
             l == [x \in Allocated |-> tree_heap[x].left]
             r == [x \in Allocated |-> tree_heap[x].right]
             c == [x \in Allocated |-> [s1 \in V |-> [s2 \in V |-> s1 \o <<tree_heap[x].value>> \o s2]]]
             Walk(f) == [p \in Allocated \cup {NIL} |->
                           IF p = NIL THEN <<>>
                           ELSE f[tree_heap[p].left] \o <<tree_heap[p].value>> \o f[tree_heap[p].right]]
  <1>1. NIL \notin Allocated
    BY BinaryTreeAssumption DEF TreeTypeOK
  <1>2. l \in [Allocated -> Allocated \cup {NIL}] /\ r \in [Allocated -> Allocated \cup {NIL}]
    BY KeysPart
  <1>3. c \in [Allocated -> [V -> [V -> V]]]
    <2>1. ASSUME NEW x \in Allocated, NEW s1 \in V, NEW s2 \in V
          PROVE  s1 \o <<tree_heap[x].value>> \o s2 \in V
      <3>1. <<tree_heap[x].value>> \in V
        BY DEF TreeTypeOK
      <3>2. QED
        BY <3>1, ConcatProperties
    <2>2. QED
      BY <2>1
  <1>4. \A x \in Allocated : /\ Rank(span)[l[x]] < Rank(span)[x]
                             /\ Rank(span)[r[x]] < Rank(span)[x]
                             /\ Rank(span)[x] <= Cardinality(keys)
    BY RankFalls
  <1>5. <<>> \in V
    OBVIOUS
  <1>6. PICK f \in [Allocated \cup {NIL} -> V] :
             f[NIL] = <<>> /\ \A x \in Allocated : f[x] = c[x][f[l[x]]][f[r[x]]]
    <2> HIDE DEF V, l, r, c
    <2>1. Rank(span) \in [Allocated \cup {NIL} -> Nat] /\ Cardinality(keys) \in Nat
      BY RankFalls
    <2>2. Ranked(Allocated, NIL, l, r)
      BY <1>4, <2>1 DEF Ranked
    <2>3. Walkable(Allocated, NIL, V, <<>>, l, r, c)
      BY <1>1, <1>2, <1>3, <1>5, <2>2, WalkExists
    <2>4. QED
      BY <2>3 DEF Walkable
  <1>7. ASSUME NEW x \in Allocated
        PROVE  f[x] = f[tree_heap[x].left] \o <<tree_heap[x].value>> \o f[tree_heap[x].right]
    <2>1. l[x] \in Allocated \cup {NIL} /\ r[x] \in Allocated \cup {NIL}
      BY <1>2
    <2>2. f[l[x]] \in V /\ f[r[x]] \in V
      BY <2>1
    <2>3. c[x][f[l[x]]][f[r[x]]] = f[l[x]] \o <<tree_heap[x].value>> \o f[r[x]]
      BY <2>2
    <2>4. QED
      BY <1>6, <2>3
  <1>8. \A p \in Allocated \cup {NIL} : f[p] = Walk(f)[p]
    BY <1>1, <1>6, <1>7
  <1>9. f = Walk(f)
    BY <1>8
  <1>10. \E g : g = Walk(g)
    BY <1>9
  <1>11. bst_inorder = Walk(bst_inorder)
    BY <1>10, Zenon DEF bst_inorder
  <1> HIDE DEF V, l, r, c
  <1>12. bst_inorder[NIL] = Walk(bst_inorder)[NIL]
         /\ \A x \in Allocated : bst_inorder[x] = Walk(bst_inorder)[x]
    BY <1>11
  <1>13. QED
    BY <1>1, <1>12

LEMMA HeightRecurs ==
    ASSUME TreeTypeOK, NEW span \in [TreeNode -> SUBSET TreeKey], Spans(span), TreeWhole(span)
    PROVE  /\ bst_height[NIL] = 0
           /\ \A x \in Allocated :
                 bst_height[x] = LET left_h == bst_height[tree_heap[x].left]
                                     right_h == bst_height[tree_heap[x].right]
                                 IN  1 + IF left_h > right_h THEN left_h ELSE right_h
  <1> DEFINE l == [x \in Allocated |-> tree_heap[x].left]
             r == [x \in Allocated |-> tree_heap[x].right]
             c == [x \in Allocated |-> [h1 \in Nat |-> [h2 \in Nat |-> 1 + IF h1 > h2 THEN h1 ELSE h2]]]
             Walk(f) == [p \in Allocated \cup {NIL} |->
                           IF p = NIL THEN 0
                           ELSE LET left_h == f[tree_heap[p].left]
                                    right_h == f[tree_heap[p].right]
                                IN  1 + IF left_h > right_h THEN left_h ELSE right_h]
  <1>1. NIL \notin Allocated
    BY BinaryTreeAssumption DEF TreeTypeOK
  <1>2. l \in [Allocated -> Allocated \cup {NIL}] /\ r \in [Allocated -> Allocated \cup {NIL}]
    BY KeysPart
  <1>3. c \in [Allocated -> [Nat -> [Nat -> Nat]]]
    OBVIOUS
  <1>4. \A x \in Allocated : /\ Rank(span)[l[x]] < Rank(span)[x]
                             /\ Rank(span)[r[x]] < Rank(span)[x]
                             /\ Rank(span)[x] <= Cardinality(keys)
    BY RankFalls
  <1>5. 0 \in Nat
    OBVIOUS
  <1>6. PICK f \in [Allocated \cup {NIL} -> Nat] :
             f[NIL] = 0 /\ \A x \in Allocated : f[x] = c[x][f[l[x]]][f[r[x]]]
    <2> HIDE DEF l, r, c
    <2>1. Rank(span) \in [Allocated \cup {NIL} -> Nat] /\ Cardinality(keys) \in Nat
      BY RankFalls
    <2>2. Ranked(Allocated, NIL, l, r)
      BY <1>4, <2>1 DEF Ranked
    <2>3. Walkable(Allocated, NIL, Nat, 0, l, r, c)
      BY <1>1, <1>2, <1>3, <1>5, <2>2, WalkExists
    <2>4. QED
      BY <2>3 DEF Walkable
  <1>7. ASSUME NEW x \in Allocated
        PROVE  f[x] = LET left_h == f[tree_heap[x].left]
                          right_h == f[tree_heap[x].right]
                      IN  1 + IF left_h > right_h THEN left_h ELSE right_h
    <2>1. l[x] \in Allocated \cup {NIL} /\ r[x] \in Allocated \cup {NIL}
      BY <1>2
    <2>2. f[l[x]] \in Nat /\ f[r[x]] \in Nat
      BY <2>1
    <2>3. c[x][f[l[x]]][f[r[x]]] = 1 + IF f[l[x]] > f[r[x]] THEN f[l[x]] ELSE f[r[x]]
      BY <2>2
    <2>4. QED
      BY <1>6, <2>3
  <1>8. \A p \in Allocated \cup {NIL} : f[p] = Walk(f)[p]
    BY <1>1, <1>6, <1>7
  <1>9. f = Walk(f)
    BY <1>8
  <1>10. \E g : g = Walk(g)
    BY <1>9
  <1>11. bst_height = Walk(bst_height)
    BY <1>10, Zenon DEF bst_height
  <1> HIDE DEF l, r, c
  <1>12. bst_height[NIL] = Walk(bst_height)[NIL]
         /\ \A x \in Allocated : bst_height[x] = Walk(bst_height)[x]
    BY <1>11
  <1>13. QED
    BY <1>1, <1>12

\* list lists the keys of T once each, in increasing order.
Lists(list, T) == /\ list \in Seq(TreeKey) /\ ToSet(list) = T /\ Len(list) = Cardinality(T)
               /\ \A t, u \in 1 .. Len(list) : t < u => list[t] < list[u]

LEMMA ListsJoined ==
    ASSUME NEW L \in SUBSET TreeKey, NEW R \in SUBSET TreeKey, NEW v \in TreeKey, NEW s1, NEW s2,
           Lists(s1, L), Lists(s2, R), \A k \in L : k < v, \A k \in R : v < k,
           Cardinality(L \cup {v} \cup R) = Cardinality(L) + 1 + Cardinality(R)
    PROVE  Lists(s1 \o <<v>> \o s2, L \cup {v} \cup R)
  <1> DEFINE m == Len(s1)
             size == Len(s2)
             s3 == s1 \o <<v>> \o s2
  <1>1. /\ s1 \in Seq(TreeKey) /\ s2 \in Seq(TreeKey) /\ <<v>> \in Seq(TreeKey)
        /\ m \in Nat /\ size \in Nat
    BY LenProperties DEF Lists
  <1>2. /\ s1 \o <<v>> \in Seq(TreeKey) /\ Len(s1 \o <<v>>) = m + 1
        /\ \A t \in 1 .. m + 1 : (s1 \o <<v>>)[t] = IF t <= m THEN s1[t] ELSE v
    BY <1>1, ConcatProperties
  <1>3. /\ s3 \in Seq(TreeKey) /\ Len(s3) = m + 1 + size
        /\ \A t \in 1 .. m + 1 + size :
              s3[t] = IF t <= m THEN s1[t] ELSE IF t = m + 1 THEN v ELSE s2[t - m - 1]
    <2>1. /\ s3 \in Seq(TreeKey) /\ Len(s3) = Len(s1 \o <<v>>) + size
          /\ \A t \in 1 .. Len(s1 \o <<v>>) + size :
                s3[t] = IF t <= Len(s1 \o <<v>>) THEN (s1 \o <<v>>)[t]
                        ELSE s2[t - Len(s1 \o <<v>>)]
      BY <1>1, <1>2, ConcatProperties
    <2>2. ASSUME NEW t \in 1 .. m + 1 + size
          PROVE  s3[t] = IF t <= m THEN s1[t] ELSE IF t = m + 1 THEN v ELSE s2[t - m - 1]
      <3>1. t - (m + 1) = t - m - 1
        BY <1>1
      <3>2. QED
        BY <1>1, <1>2, <2>1, <3>1
    <2>3. QED
      BY <1>1, <1>2, <2>1, <2>2
  <1> HIDE DEF m, size, s3
  <1>4. /\ \A t \in 1 .. m : s1[t] \in L
        /\ \A t \in 1 .. size : s2[t] \in R
        /\ \A k \in L : \E t \in 1 .. m : s1[t] = k
        /\ \A k \in R : \E t \in 1 .. size : s2[t] = k
    BY <1>1, LenProperties DEF Lists, ToSet, m, size
  <1>5. ToSet(s3) = L \cup {v} \cup R
    <2>1. DOMAIN s3 = 1 .. m + 1 + size
      BY <1>3, LenProperties
    <2>2. ASSUME NEW t \in 1 .. m + 1 + size PROVE s3[t] \in L \cup {v} \cup R
      <3>1. CASE t <= m
        <4>1. t \in 1 .. m /\ s3[t] = s1[t]
          BY <1>1, <1>3, <3>1
        <4>2. QED
          BY <1>4, <4>1
      <3>2. CASE t = m + 1
        BY <1>1, <1>3, <3>2
      <3>3. CASE t > m + 1
        <4>1. PICK q \in 1 .. size : q = t - m - 1
          BY <1>1, <3>3
        <4>2. ~(t <= m) /\ t # m + 1
          BY <1>1, <3>3
        <4>3. s3[t] = s2[q]
          BY <1>3, <4>1, <4>2
        <4>4. QED
          BY <1>4, <4>3
      <3>4. QED
        BY <1>1, <3>1, <3>2, <3>3
    <2>3. ASSUME NEW k \in L PROVE \E t \in 1 .. m + 1 + size : s3[t] = k
      <3>1. PICK t \in 1 .. m : s1[t] = k
        BY <1>4
      <3>2. t \in 1 .. m + 1 + size /\ t <= m
        BY <1>1
      <3>3. QED
        BY <1>3, <3>1, <3>2
    <2>4. s3[m + 1] = v /\ m + 1 \in 1 .. m + 1 + size
      BY <1>1, <1>3
    <2>5. ASSUME NEW k \in R PROVE \E t \in 1 .. m + 1 + size : s3[t] = k
      <3>1. PICK t \in 1 .. size : s2[t] = k
        BY <1>4
      <3>2. PICK u \in 1 .. m + 1 + size : u = t + m + 1
        BY <1>1
      <3>3. u - m - 1 = t /\ ~(u <= m) /\ u # m + 1
        BY <1>1, <3>2
      <3>4. QED
        BY <1>3, <3>1, <3>3
    <2>6. QED
      BY <2>1, <2>2, <2>3, <2>4, <2>5 DEF ToSet
  <1>6. ASSUME NEW t \in 1 .. m + 1 + size, NEW u \in 1 .. m + 1 + size, t < u
        PROVE  s3[t] < s3[u]
    <2>1. TreeKey \subseteq Nat /\ v \in Nat /\ L \subseteq Nat /\ R \subseteq Nat
      BY BinaryTreeAssumption
    <2>2. /\ \A p, q \in 1 .. m : p < q => s1[p] < s1[q]
          /\ \A p, q \in 1 .. size : p < q => s2[p] < s2[q]
      BY DEF Lists, m, size
    <2>3. CASE u <= m
      <3>1. t \in 1 .. m /\ u \in 1 .. m /\ t <= m
        BY <1>1, <1>6, <2>3
      <3>2. s3[t] = s1[t] /\ s3[u] = s1[u]
        BY <1>3, <2>3, <3>1
      <3>3. QED
        BY <1>6, <2>2, <3>1, <3>2
    <2>4. CASE u = m + 1
      <3>1. t \in 1 .. m
        BY <1>1, <1>6, <2>4
      <3>2. s3[t] = s1[t] /\ s3[u] = v
        BY <1>1, <1>3, <2>4, <3>1
      <3>3. QED
        BY <1>4, <3>1, <3>2
    <2>5. CASE u > m + 1
      <3>1. PICK q \in 1 .. size : q = u - m - 1
        BY <1>1, <2>5
      <3>2. s3[u] = s2[q] /\ s2[q] \in R
        BY <1>1, <1>3, <1>4, <2>5, <3>1
      <3>3. CASE t <= m
        <4>1. t \in 1 .. m /\ s3[t] = s1[t]
          BY <1>1, <1>3, <3>3
        <4>2. s1[t] \in L
          BY <1>4, <4>1
        <4>3. s1[t] < v /\ v < s2[q]
          BY <3>2, <4>2
        <4>4. s1[t] \in Nat /\ v \in Nat /\ s2[q] \in Nat
          BY <2>1, <3>2, <4>2
        <4>5. s1[t] < s2[q]
          BY <4>3, <4>4
        <4>6. QED
          BY <3>2, <4>1, <4>5
      <3>4. CASE t = m + 1
        BY <1>1, <1>3, <3>2, <3>4
      <3>5. CASE t > m + 1
        <4>1. PICK p \in 1 .. size : p = t - m - 1
          BY <1>1, <3>5
        <4>2. s3[t] = s2[p] /\ p < q
          BY <1>1, <1>3, <1>6, <3>1, <3>5, <4>1
        <4>3. QED
          BY <2>2, <3>2, <4>2
      <3>6. QED
        BY <1>1, <3>3, <3>4, <3>5
    <2>6. QED
      BY <1>1, <2>3, <2>4, <2>5
  <1>7. Len(s3) = Cardinality(L \cup {v} \cup R)
    BY <1>1, <1>3 DEF Lists, m, size
  <1>8. Lists(s3, L \cup {v} \cup R)
    BY <1>3, <1>5, <1>6, <1>7 DEF Lists
  <1>9. QED
    BY <1>8 DEF s3

\* The walk from every node lists the keys under it.
LEMMA InorderLists ==
    ASSUME TreeTypeOK, NEW span \in [TreeNode -> SUBSET TreeKey], Spans(span), TreeWhole(span)
    PROVE  \A p \in Allocated \cup {NIL} : Lists(bst_inorder[p], KeysAt(span, p))
  <1> DEFINE T == {size \in Nat : \A p \in Allocated \cup {NIL} :
                      Rank(span)[p] < size => Lists(bst_inorder[p], KeysAt(span, p))}
  <1>1. /\ Rank(span) \in [Allocated \cup {NIL} -> Nat]
        /\ \A x \in Allocated : /\ Rank(span)[tree_heap[x].left] < Rank(span)[x]
                                /\ Rank(span)[tree_heap[x].right] < Rank(span)[x]
    BY RankFalls
  <1>2. Lists(bst_inorder[NIL], KeysAt(span, NIL))
    <2>1. bst_inorder[NIL] = <<>> /\ KeysAt(span, NIL) = {}
      BY InorderRecurs DEF KeysAt
    <2>2. /\ <<>> \in Seq(TreeKey) /\ Len(<<>>) = 0 /\ DOMAIN <<>> = {}
      BY EmptySeq
    <2>3. ToSet(<<>>) = {}
      BY <2>2 DEF ToSet
    <2>4. QED
      BY <2>1, <2>2, <2>3, FS_EmptySet DEF Lists
  <1>3. 0 \in T
    BY <1>1
  <1>4. ASSUME NEW size \in Nat, size \in T PROVE size + 1 \in T
    <2>1. ASSUME NEW x \in Allocated, Rank(span)[x] < size + 1
          PROVE  Lists(bst_inorder[x], KeysAt(span, x))
      <3> DEFINE left == tree_heap[x].left
                 right == tree_heap[x].right
                 v == tree_heap[x].value
      <3>1. /\ left \in Allocated \cup {NIL} /\ right \in Allocated \cup {NIL}
            /\ KeysAt(span, x) = KeysAt(span, left) \cup {v} \cup KeysAt(span, right)
            /\ \A k \in KeysAt(span, left) : k < v
            /\ \A k \in KeysAt(span, right) : v < k
            /\ Cardinality(KeysAt(span, x)) = Cardinality(KeysAt(span, left)) + 1
                                              + Cardinality(KeysAt(span, right))
        BY KeysPart
      <3>2. Rank(span)[left] < size /\ Rank(span)[right] < size
        BY <1>1, <2>1, <3>1
      <3>3. Lists(bst_inorder[left], KeysAt(span, left))
            /\ Lists(bst_inorder[right], KeysAt(span, right))
        BY <1>4, <3>1, <3>2
      <3>4. bst_inorder[x] = bst_inorder[left] \o <<v>> \o bst_inorder[right]
        BY InorderRecurs
      <3>5. v \in TreeKey
        BY DEF TreeTypeOK
      <3>6. \A p \in Allocated \cup {NIL} : KeysAt(span, p) \in SUBSET TreeKey
        BY DEF KeysAt, TreeTypeOK
      <3> HIDE DEF left, right, v
      <3>7. QED
        BY <3>1, <3>3, <3>4, <3>5, <3>6, ListsJoined
    <2>2. QED
      BY <1>2, <2>1
  <1>5. Nat \subseteq T
    <2> HIDE DEF T
    <2>1. QED
      BY <1>3, <1>4, InductionOnSet
  <1>6. ASSUME NEW p \in Allocated \cup {NIL} PROVE Lists(bst_inorder[p], KeysAt(span, p))
    <2>1. Rank(span)[p] + 1 \in T /\ Rank(span)[p] < Rank(span)[p] + 1
      BY <1>1, <1>5
    <2>2. QED
      BY <2>1
  <1>7. QED
    BY <1>6

\* Twice as many subsets, one element more.
LEMMA PowersOfTwo ==
    /\ 2 ^ 0 = 1
    /\ \A size \in Nat : 2 ^ size \in Nat /\ 2 ^ (size + 1) = 2 ^ size + 2 ^ size
  <1>1. \A size \in Nat : /\ IsFiniteSet(1 .. size) /\ Cardinality(1 .. size) = size
                       /\ IsFiniteSet(SUBSET (1 .. size)) /\ Cardinality(SUBSET (1 .. size)) = 2 ^ size
                       /\ 2 ^ size \in Nat
    <2>1. ASSUME NEW size \in Nat PROVE IsFiniteSet(1 .. size) /\ Cardinality(1 .. size) = size
      BY FS_Interval
    <2>2. QED
      BY <2>1, FS_SUBSET, FS_CardinalityType
  <1>2. 2 ^ 0 = 1
    <2>1. SUBSET (1 .. 0) = {{}}
      OBVIOUS
    <2>2. Cardinality({{}}) = 1
      BY FS_Singleton
    <2>3. QED
      BY <1>1, <2>1, <2>2
  <1>3. ASSUME NEW size \in Nat PROVE 2 ^ (size + 1) = 2 ^ size + 2 ^ size
    <2> DEFINE A == SUBSET (1 .. size)
               B == {S \in SUBSET (1 .. size + 1) : size + 1 \in S}
               add == [S \in A |-> S \cup {size + 1}]
    <2>1. 1 .. size + 1 = (1 .. size) \cup {size + 1} /\ size + 1 \notin 1 .. size
      OBVIOUS
    <2>2. SUBSET (1 .. size + 1) = A \cup B
      <3>1. ASSUME NEW S \in SUBSET (1 .. size + 1), size + 1 \notin S PROVE S \in A
        BY <2>1, <3>1
      <3>2. QED
        BY <2>1, <3>1
    <2>3. A \cap B = {}
      BY <2>1
    <2>4. add \in Bijection(A, B)
      <3>1. add \in [A -> B]
        BY <2>1
      <3>2. ASSUME NEW S \in A, NEW Q \in A, add[S] = add[Q] PROVE S = Q
        <4>1. size + 1 \notin S /\ size + 1 \notin Q /\ S \cup {size + 1} = Q \cup {size + 1}
          BY <2>1, <3>2
        <4>2. QED
          BY <4>1
      <3>3. ASSUME NEW Q \in B PROVE \E S \in A : add[S] = Q
        <4>1. Q \ {size + 1} \in A
          BY <2>1
        <4>2. (Q \ {size + 1}) \cup {size + 1} = Q
          OBVIOUS
        <4>3. add[Q \ {size + 1}] = Q
          BY <4>1, <4>2
        <4>4. QED
          BY <4>1, <4>3
      <3> HIDE DEF A, B, add
      <3>4. QED
        BY <3>1, <3>2, <3>3 DEF Bijection, Injection, Surjection, IsInjective
    <2>5. IsFiniteSet(A) /\ Cardinality(A) = 2 ^ size
      BY <1>1
    <2>6. IsFiniteSet(B) /\ Cardinality(B) = 2 ^ size
      <3> HIDE DEF A, B, add
      <3>1. ExistsBijection(A, B)
        BY <2>4 DEF ExistsBijection
      <3>2. QED
        BY <2>5, <3>1, FS_Bijection
    <2>7. Cardinality(A \cup B) = 2 ^ size + 2 ^ size
      <3> HIDE DEF A, B
      <3>1. Cardinality(A \cap B) = 0
        BY <2>3, FS_EmptySet
      <3>2. 2 ^ size \in Nat
        BY <1>1
      <3>3. Cardinality(A \cup B) = Cardinality(A) + Cardinality(B) - Cardinality(A \cap B)
        BY <2>5, <2>6, FS_Union
      <3>4. QED
        BY <2>5, <2>6, <3>1, <3>2, <3>3
    <2>8. size + 1 \in Nat
      OBVIOUS
    <2> HIDE DEF A, B
    <2>9. Cardinality(SUBSET (1 .. size + 1)) = 2 ^ (size + 1)
      BY <1>1, <2>8
    <2>10. QED
      BY <2>2, <2>7, <2>9
  <1>4. QED
    BY <1>1, <1>2, <1>3

\* A subtree has at least as many keys as levels, and fewer than any power of two
\* whose exponent is not below its height.
Fitting(h, size) == h \in Nat /\ h <= size /\ \A m \in Nat : m >= h => size < 2 ^ m

LEMMA FittingJoined ==
    ASSUME NEW h1, NEW h2, NEW n1 \in Nat, NEW n2 \in Nat, Fitting(h1, n1), Fitting(h2, n2)
    PROVE  Fitting(1 + IF h1 > h2 THEN h1 ELSE h2, n1 + 1 + n2)
  <1>1. h1 \in Nat /\ h2 \in Nat /\ h1 <= n1 /\ h2 <= n2
    BY DEF Fitting
  <1>2. PICK h \in Nat : h = IF h1 > h2 THEN h1 ELSE h2
    BY <1>1
  <1>3. h >= h1 /\ h >= h2 /\ h <= n1 + n2
    BY <1>1, <1>2
  <1>4. ASSUME NEW m \in Nat, m >= 1 + h PROVE n1 + 1 + n2 < 2 ^ m
    <2>1. PICK k \in Nat : m = k + 1
      <3>1. m - 1 \in Nat /\ m = (m - 1) + 1
        BY <1>4
      <3>2. QED
        BY <3>1
    <2>2. k >= h1 /\ k >= h2
      BY <1>1, <1>3, <1>4, <2>1
    <2>3. n1 < 2 ^ k /\ n2 < 2 ^ k
      BY <2>2 DEF Fitting
    <2>4. PICK w \in Nat : w = 2 ^ k /\ 2 ^ m = w + w
      BY <2>1, PowersOfTwo
    <2>5. n1 < w /\ n2 < w
      BY <2>3, <2>4
    <2>6. n1 + 1 + n2 < w + w
      BY <2>5
    <2>7. QED
      BY <2>4, <2>6
  <1>5. Fitting(1 + h, n1 + 1 + n2)
    BY <1>1, <1>3, <1>4 DEF Fitting
  <1>6. QED
    BY <1>2, <1>5

LEMMA PowerPositive == \A m \in Nat : 0 < 2 ^ m
  <1> DEFINE T == {m \in Nat : 0 < 2 ^ m}
  <1>1. 0 \in T
    BY PowersOfTwo
  <1>2. ASSUME NEW m \in Nat, m \in T PROVE m + 1 \in T
    <2>1. 0 < 2 ^ m /\ 2 ^ m \in Nat /\ 2 ^ (m + 1) = 2 ^ m + 2 ^ m
      BY <1>2, PowersOfTwo
    <2>2. 0 < 2 ^ (m + 1)
      BY <2>1
    <2>3. QED
      BY <2>2
  <1>3. Nat \subseteq T
    <2> HIDE DEF T
    <2>1. QED
      BY <1>1, <1>2, InductionOnSet
  <1>4. QED
    BY <1>3

LEMMA HeightsFit ==
    ASSUME TreeTypeOK, NEW span \in [TreeNode -> SUBSET TreeKey], Spans(span), TreeWhole(span)
    PROVE  \A p \in Allocated \cup {NIL} : Fitting(bst_height[p], Rank(span)[p])
  <1> DEFINE T == {size \in Nat : \A p \in Allocated \cup {NIL} :
                      Rank(span)[p] < size => Fitting(bst_height[p], Rank(span)[p])}
  <1>1. /\ Rank(span) \in [Allocated \cup {NIL} -> Nat]
        /\ \A x \in Allocated : /\ Rank(span)[tree_heap[x].left] < Rank(span)[x]
                                /\ Rank(span)[tree_heap[x].right] < Rank(span)[x]
    BY RankFalls
  <1>2. Fitting(bst_height[NIL], Rank(span)[NIL])
    <2>1. bst_height[NIL] = 0
      BY HeightRecurs
    <2>2. Rank(span)[NIL] = 0
      BY FS_EmptySet DEF Rank, KeysAt
    <2>3. Fitting(0, 0)
      BY PowerPositive DEF Fitting
    <2>4. QED
      BY <2>1, <2>2, <2>3
  <1>3. 0 \in T
    BY <1>1
  <1>4. ASSUME NEW size \in Nat, size \in T PROVE size + 1 \in T
    <2>1. ASSUME NEW x \in Allocated, Rank(span)[x] < size + 1
          PROVE  Fitting(bst_height[x], Rank(span)[x])
      <3> DEFINE left == tree_heap[x].left
                 right == tree_heap[x].right
      <3>1. left \in Allocated \cup {NIL} /\ right \in Allocated \cup {NIL}
        BY KeysPart
      <3>2. Rank(span)[x] = Rank(span)[left] + 1 + Rank(span)[right]
        <4>1. Cardinality(KeysAt(span, x)) = Cardinality(KeysAt(span, left)) + 1
                                             + Cardinality(KeysAt(span, right))
          BY KeysPart
        <4>2. QED
          BY <3>1, <4>1 DEF Rank
      <3>3. /\ Rank(span)[left] \in Nat /\ Rank(span)[right] \in Nat
            /\ Rank(span)[left] < size /\ Rank(span)[right] < size
        BY <1>1, <2>1, <3>1
      <3>4. Fitting(bst_height[left], Rank(span)[left])
            /\ Fitting(bst_height[right], Rank(span)[right])
        BY <1>4, <3>1, <3>3
      <3>5. bst_height[x] = 1 + IF bst_height[left] > bst_height[right]
                                THEN bst_height[left] ELSE bst_height[right]
        BY HeightRecurs
      <3> HIDE DEF left, right
      <3>6. QED
        BY <3>2, <3>3, <3>4, <3>5, FittingJoined
    <2>2. QED
      BY <1>2, <2>1
  <1>5. Nat \subseteq T
    <2> HIDE DEF T
    <2>1. QED
      BY <1>3, <1>4, InductionOnSet
  <1>6. ASSUME NEW p \in Allocated \cup {NIL} PROVE Fitting(bst_height[p], Rank(span)[p])
    <2>1. Rank(span)[p] + 1 \in T /\ Rank(span)[p] < Rank(span)[p] + 1
      BY <1>1, <1>5
    <2>2. QED
      BY <2>1
  <1>7. QED
    BY <1>6

LEMMA TreeWalksGive == TreeInv => InorderSorted /\ HeightFits
  <1> SUFFICES ASSUME TreeInv, TreeIdle PROVE InorderSorted /\ HeightFits
    BY DEF InorderSorted, HeightFits
  <1>1. PICK span \in [TreeNode -> SUBSET TreeKey] : Spans(span) /\ TreeWhole(span)
    BY DEF TreeInv, TreeIdle, TreeResting, TreeDescending, TreeLeast, TreeFreeing, InCall
  <1>2. TreeTypeOK
    BY DEF TreeInv
  <1>3. root \in Allocated \cup {NIL} /\ KeysAt(span, root) = keys
    <2>1. Roots(span, root, TreeKey) /\ keys \subseteq TreeKey
      BY <1>1, <1>2 DEF TreeWhole, TreeTypeOK
    <2>2. CASE root = NIL
      <3>1. keys = {}
        BY <1>1, <2>1, <2>2 DEF Roots, Held, TreeWhole
      <3>2. QED
        BY <2>2, <3>1 DEF KeysAt
    <2>3. CASE root # NIL
      BY <2>1, <2>3 DEF Roots, KeysAt
    <2>4. QED
      BY <2>2, <2>3
  <1>4. Lists(bst_inorder[root], keys)
    BY <1>1, <1>2, <1>3, InorderLists
  <1>5. InorderSorted
    <2> DEFINE out == bst_inorder[root]
    <2>1. Len(out) \in Nat
      BY <1>4, LenProperties DEF Lists
    <2>2. \A k \in 1 .. Len(out) - 1 : out[k] < out[k + 1]
      <3>1. ASSUME NEW k \in 1 .. Len(out) - 1
            PROVE  k \in 1 .. Len(out) /\ k + 1 \in 1 .. Len(out) /\ k < k + 1
        BY <2>1
      <3>2. QED
        BY <1>4, <3>1 DEF Lists
    <2>3. Cardinality(Allocated) = Cardinality(keys)
      BY <1>1, <1>2, KeysFinite
    <2>4. QED
      BY <1>4, <2>2, <2>3 DEF Lists, InorderSorted
  <1>6. HeightFits
    <2>1. Fitting(bst_height[root], Rank(span)[root])
      BY <1>1, <1>2, <1>3, HeightsFit
    <2>2. Rank(span)[root] = Cardinality(keys)
      BY <1>3 DEF Rank
    <2>3. QED
      BY <2>1, <2>2 DEF Fitting, HeightFits
  <1>7. QED
    BY <1>5, <1>6

\* The binary search tree (module4 ex04), for any set of addresses and keys: the
\* inorder walk is sorted and complete, the height fits, and search and find_min,
\* which follow one path, are exact; bst_free touches no node after it is freed
\* and leaves none.
THEOREM TreeStaysIntact == TreeSpec => []TreeIntact /\ []FreeInOrder
  <1>1. TreeInit => TreeInv
    BY InitTreeInv
  <1>2. TreeInv /\ [TreeNext]_treeVars => TreeInv'
    BY NextTreeInv
  <1>3. TreeInv => TreeIntact /\ FreeInOrder
    BY TreeInvGives, TreeWalksGive DEF TreeIntact
  <1>4. QED
    BY <1>1, <1>2, <1>3, PTL DEF TreeSpec
------------------------------------------------------------------------------
(* The components side by side, as they are model-checked: a step is one of  *)
(* one component's steps, or leaves that component's variables as they are.  *)

MCVars == <<prog, vars, stackVars, smVars, periphVars, arrayVars,
            arithmeticVars, listVars, treeVars, sensorVars>>

LEMMA StepOfEach ==
    [MCNext]_MCVars =>
        /\ [Next]_vars /\ [StackNext]_stackVars /\ [SmNext]_smVars
        /\ [PeriphNext]_periphVars /\ [LoopStep]_arrayVars
        /\ [ArithmeticNext]_arithmeticVars /\ [ListNext]_listVars
        /\ [TreeNext]_treeVars /\ [SensorNext]_sensorVars
  BY Zenon DEF MCNext, MCVars

\* The queue, the stack and the peripheral stay in range, whichever runs.
THEOREM TypesHold == MCSpec => []MCTypes
  <1>1. MCInit => RingInv /\ StackTypeOK /\ PeriphInv
    BY InitRingInv, StackInitTyped, InitPeriphInv DEF MCInit
  <1>2. RingInv /\ [MCNext]_MCVars => RingInv'
    BY StepOfEach, NextRingInv
  <1>3. StackTypeOK /\ [MCNext]_MCVars => StackTypeOK'
    BY StepOfEach, StackNextTyped
  <1>4. PeriphInv /\ [MCNext]_MCVars => PeriphInv'
    BY StepOfEach, NextPeriphInv
  <1>5. RingInv /\ StackTypeOK /\ PeriphInv => MCTypes
    BY DEF RingInv, PeriphInv, MCTypes
  <1>6. QED
    BY <1>1, <1>2, <1>3, <1>4, <1>5, PTL DEF MCSpec, MCVars

\* Whichever program runs, no walk of the list, no call on the tree and no line
\* of the sensor's main uses a block after it is freed, none is left when its
\* owner has none, and nothing unset is printed.
THEOREM HeapStaysSafe ==
    ASSUME MainFillsAll
    PROVE  MCSpec => []HeapSafe
  <1>1. MCInit => ListInv /\ TreeInv /\ SensorInv
    BY InitListInv, InitTreeInv, InitSensorInv DEF MCInit
  <1>2. ListInv /\ [MCNext]_MCVars => ListInv'
    BY StepOfEach, NextListInv
  <1>3. TreeInv /\ [MCNext]_MCVars => TreeInv'
    BY StepOfEach, NextTreeInv
  <1>4. SensorInv /\ [MCNext]_MCVars => SensorInv'
    BY MainFillsAll, StepOfEach, NextSensorInv
  <1>5. ListInv /\ TreeInv /\ SensorInv => HeapSafe
    BY ListInvGives, TreeInvGives DEF SensorInv, HeapSafe
  <1>6. QED
    BY <1>1, <1>2, <1>3, <1>4, <1>5, PTL DEF MCSpec, MCVars
==============================================================================
