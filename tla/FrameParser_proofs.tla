-------------------------- MODULE FrameParser_proofs --------------------------
(* The frame parser of module4 ex05 for bytes of any width, frames of any    *)
(* length and every sequence of events.                                      *)
EXTENDS FrameParser, FiniteSetTheorems, SequenceTheorems, TLAPS

Frames == [data : [1 .. FRAME_MAX_LEN -> Byte], length : 0 .. FRAME_MAX_LEN, checksum : Byte]
Contexts == [current : State, frame : Frames,
             rx_count : Nat, error_count : Nat, processed_count : Nat]

\* Frame f is the sequence s of bytes, cut at FRAME_MAX_LEN.
IsFed(f, s) ==
    /\ f.length = IF Len(s) < FRAME_MAX_LEN THEN Len(s) ELSE FRAME_MAX_LEN
    /\ \A i \in 1 .. FRAME_MAX_LEN : f.data[i] = IF i <= Len(s) THEN s[i] ELSE {}

\* The positions of frame f whose byte has the bit.
HasBit(f, bit) == {i \in 1 .. f.length : bit \in f.data[i]}

IsXor(f) == \A bit \in Bit : bit \in f.checksum <=> Cardinality(HasBit(f, bit)) % 2 = 1

Shape == ctx \in Contexts /\ fed \in Seq(Byte) /\ started \in Nat /\ aborted \in Nat

IInv == Shape /\ IsFed(ctx.frame, fed) /\ IsXor(ctx.frame) /\ FrameAccounting

------------------------------------------------------------------------------
(* Frames.                                                                   *)

LEMMA Lengths == FRAME_MAX_LEN \in Nat /\ FRAME_MAX_LEN >= 1 /\ {} \in Byte
  BY FrameTableAssumption DEF Byte

LEMMA NoFrameFields ==
    /\ NoFrame \in Frames /\ NoFrame.length = 0 /\ NoFrame.checksum = {}
    /\ NoFrame.data = [i \in 1 .. FRAME_MAX_LEN |-> {}]
  BY Lengths DEF NoFrame, Frames

LEMMA EmptyFrame == IsFed(NoFrame, <<>>) /\ IsXor(NoFrame)
  <1>1. Len(<<>>) = 0
    OBVIOUS
  <1>2. IsFed(NoFrame, <<>>)
    BY <1>1, Lengths, NoFrameFields DEF IsFed
  <1>3. ASSUME NEW bit \in Bit PROVE Cardinality(HasBit(NoFrame, bit)) % 2 = 0
    <2>1. HasBit(NoFrame, bit) = {}
      BY NoFrameFields DEF HasBit
    <2>2. QED
      BY <2>1, FS_EmptySet
  <1>4. QED
    BY <1>2, <1>3, NoFrameFields DEF IsXor

LEMMA StartedFields ==
    ASSUME NEW f, NEW b \in Byte
    PROVE  /\ Started(f, b) \in Frames
           /\ Started(f, b).length = 1 /\ Started(f, b).checksum = b
           /\ \A i \in 1 .. FRAME_MAX_LEN : Started(f, b).data[i] = IF i = 1 THEN b ELSE {}
  <1>1. Started(f, b) = [data |-> [NoFrame.data EXCEPT ![1] = b], length |-> 1, checksum |-> b]
    <2> DEFINE D == NoFrame.data
    <2>1. NoFrame = [data |-> D, length |-> 0, checksum |-> {}]
      BY DEF NoFrame
    <2> HIDE DEF D
    <2>2. Started(f, b) = [[[NoFrame EXCEPT !.data[1] = b] EXCEPT !.length = 1] EXCEPT !.checksum = b]
      BY DEF Started
    <2>3. [NoFrame EXCEPT !.data[1] = b] = [data |-> [D EXCEPT ![1] = b], length |-> 0, checksum |-> {}]
      BY <2>1
    <2>4. [[data |-> [D EXCEPT ![1] = b], length |-> 0, checksum |-> {}] EXCEPT !.length = 1]
            = [data |-> [D EXCEPT ![1] = b], length |-> 1, checksum |-> {}]
      OBVIOUS
    <2>5. [[data |-> [D EXCEPT ![1] = b], length |-> 1, checksum |-> {}] EXCEPT !.checksum = b]
            = [data |-> [D EXCEPT ![1] = b], length |-> 1, checksum |-> b]
      OBVIOUS
    <2>6. QED
      BY <2>2, <2>3, <2>4, <2>5 DEF D
  <1>2. [NoFrame.data EXCEPT ![1] = b] \in [1 .. FRAME_MAX_LEN -> Byte]
    BY Lengths, NoFrameFields
  <1>3. \A i \in 1 .. FRAME_MAX_LEN : [NoFrame.data EXCEPT ![1] = b][i] = IF i = 1 THEN b ELSE {}
    BY Lengths, NoFrameFields
  <1>4. 1 \in 0 .. FRAME_MAX_LEN
    BY Lengths
  <1>5. QED
    BY <1>1, <1>2, <1>3, <1>4 DEF Frames

\* A frame begins with one byte, which is its own checksum.
LEMMA FrameStarted ==
    ASSUME NEW f, NEW b \in Byte
    PROVE  IsFed(Started(f, b), <<b>>) /\ IsXor(Started(f, b))
  <1> DEFINE g == Started(f, b)
  <1>1. /\ g.length = 1 /\ g.checksum = b
        /\ \A i \in 1 .. FRAME_MAX_LEN : g.data[i] = IF i = 1 THEN b ELSE {}
    BY StartedFields
  <1> HIDE DEF g
  <1>2. Len(<<b>>) = 1 /\ <<b>>[1] = b
    OBVIOUS
  <1>3. IsFed(g, <<b>>)
    BY <1>1, <1>2, Lengths DEF IsFed
  <1>4. ASSUME NEW bit \in Bit PROVE bit \in b <=> Cardinality(HasBit(g, bit)) % 2 = 1
    <2>1. g.data[1] = b
      BY <1>1, Lengths
    <2>2. HasBit(g, bit) = IF bit \in b THEN {1} ELSE {}
      BY <1>1, <2>1 DEF HasBit
    <2>3. Cardinality({1}) = 1 /\ Cardinality({}) = 0
      BY FS_Singleton, FS_EmptySet
    <2>4. QED
      BY <2>2, <2>3
  <1>5. QED
    BY <1>1, <1>3, <1>4 DEF g, IsXor

LEMMA StoredFields ==
    ASSUME NEW f \in Frames, NEW b \in Byte, f.length < FRAME_MAX_LEN
    PROVE  /\ Stored(f, b) \in Frames
           /\ Stored(f, b).length = f.length + 1
           /\ Stored(f, b).checksum = Xor(f.checksum, b)
           /\ \A i \in 1 .. FRAME_MAX_LEN :
                 Stored(f, b).data[i] = IF i = f.length + 1 THEN b ELSE f.data[i]
  <1>1. /\ f.data \in [1 .. FRAME_MAX_LEN -> Byte] /\ f.length \in 0 .. FRAME_MAX_LEN
        /\ f.checksum \in Byte
    BY DEF Frames
  <1>2. Xor(f.checksum, b) \in Byte
    BY <1>1 DEF Xor, Byte
  <1>3. f.length + 1 \in 1 .. FRAME_MAX_LEN
    BY <1>1, Lengths
  <1>4. Stored(f, b) = [data |-> [f.data EXCEPT ![f.length + 1] = b],
                        length |-> f.length + 1,
                        checksum |-> Xor(f.checksum, b)]
    BY DEF Stored
  <1>5. [f.data EXCEPT ![f.length + 1] = b] \in [1 .. FRAME_MAX_LEN -> Byte]
    BY <1>1, <1>3
  <1>6. \A i \in 1 .. FRAME_MAX_LEN :
           [f.data EXCEPT ![f.length + 1] = b][i] = IF i = f.length + 1 THEN b ELSE f.data[i]
    BY <1>1
  <1>7. QED
    BY <1>2, <1>3, <1>4, <1>5, <1>6, Lengths DEF Frames

\* The next byte extends both the frame and its checksum, or is dropped by both.
LEMMA FrameStored ==
    ASSUME NEW f \in Frames, NEW s \in Seq(Byte), NEW b \in Byte, IsFed(f, s), IsXor(f)
    PROVE  /\ Stored(f, b) \in Frames
           /\ IsFed(Stored(f, b), Append(s, b)) /\ IsXor(Stored(f, b))
  <1>1. /\ Len(s) \in Nat /\ Len(Append(s, b)) = Len(s) + 1
        /\ \A i \in 1 .. Len(s) : Append(s, b)[i] = s[i]
        /\ Append(s, b)[Len(s) + 1] = b
    BY LenProperties, AppendProperties
  <1>2. /\ f.length = IF Len(s) < FRAME_MAX_LEN THEN Len(s) ELSE FRAME_MAX_LEN
        /\ \A i \in 1 .. FRAME_MAX_LEN : f.data[i] = IF i <= Len(s) THEN s[i] ELSE {}
    BY DEF IsFed
  <1>3. CASE Len(s) >= FRAME_MAX_LEN
    <2>1. Stored(f, b) = f
      BY <1>1, <1>2, <1>3, Lengths DEF Stored
    <2>2. IsFed(f, Append(s, b))
      <3>1. f.length = IF Len(s) + 1 < FRAME_MAX_LEN THEN Len(s) + 1 ELSE FRAME_MAX_LEN
        BY <1>1, <1>2, <1>3, Lengths
      <3>2. ASSUME NEW i \in 1 .. FRAME_MAX_LEN
            PROVE  f.data[i] = IF i <= Len(s) + 1 THEN Append(s, b)[i] ELSE {}
        <4>1. i \in 1 .. Len(s)
          BY <1>1, <1>3, Lengths
        <4>2. QED
          BY <1>1, <1>2, <4>1
      <3>3. QED
        BY <1>1, <3>1, <3>2 DEF IsFed
    <2>3. QED
      BY <2>1, <2>2
  <1>4. CASE Len(s) < FRAME_MAX_LEN
    <2> DEFINE g == Stored(f, b)
               n == Len(s)
    <2>1. f.length = n /\ n \in 0 .. FRAME_MAX_LEN - 1
      BY <1>1, <1>2, <1>4, Lengths
    <2>2. /\ g \in Frames /\ g.length = n + 1 /\ g.checksum = Xor(f.checksum, b)
          /\ \A i \in 1 .. FRAME_MAX_LEN : g.data[i] = IF i = n + 1 THEN b ELSE f.data[i]
      BY <1>4, <2>1, StoredFields
    <2> HIDE DEF g
    <2>3. IsFed(g, Append(s, b))
      <3>1. g.length = IF n + 1 < FRAME_MAX_LEN THEN n + 1 ELSE FRAME_MAX_LEN
        BY <2>1, <2>2, Lengths
      <3>2. ASSUME NEW i \in 1 .. FRAME_MAX_LEN
            PROVE  g.data[i] = IF i <= n + 1 THEN Append(s, b)[i] ELSE {}
        <4>1. CASE i = n + 1
          BY <1>1, <2>1, <2>2, <4>1
        <4>2. CASE i <= n
          <5>1. i \in 1 .. n /\ i # n + 1
            BY <1>1, <4>2
          <5>2. g.data[i] = s[i]
            BY <1>2, <2>2, <5>1
          <5>3. QED
            BY <1>1, <5>1, <5>2
        <4>3. CASE i > n + 1
          <5>1. ~(i <= n) /\ ~(i <= n + 1) /\ i # n + 1
            BY <1>1, <4>3
          <5>2. QED
            BY <1>2, <2>2, <5>1
        <4>4. QED
          BY <1>1, <4>1, <4>2, <4>3
      <3>3. QED
        BY <1>1, <3>1, <3>2 DEF IsFed
    <2>4. ASSUME NEW bit \in Bit
          PROVE  bit \in g.checksum <=> Cardinality(HasBit(g, bit)) % 2 = 1
      <3> DEFINE S == HasBit(f, bit)
      <3>1. S \subseteq 1 .. n /\ n + 1 \notin S
        BY <1>1, <2>1 DEF HasBit
      <3>2. IsFiniteSet(S) /\ Cardinality(S) \in Nat
        <4>1. IsFiniteSet(1 .. n)
          BY <1>1, FS_Interval
        <4>2. IsFiniteSet(S)
          BY <3>1, <4>1, FS_Subset
        <4>3. QED
          BY <4>2, FS_CardinalityType
      <3>3. HasBit(g, bit) = IF bit \in b THEN S \cup {n + 1} ELSE S
        <4>1. \A i \in 1 .. n + 1 : bit \in g.data[i] <=> IF i = n + 1 THEN bit \in b ELSE i \in S
          <5>1. ASSUME NEW i \in 1 .. n + 1
                PROVE  bit \in g.data[i] <=> IF i = n + 1 THEN bit \in b ELSE i \in S
            <6>1. i \in 1 .. FRAME_MAX_LEN /\ (i # n + 1 => i \in 1 .. n)
              BY <1>1, <2>1, Lengths
            <6>2. g.data[i] = IF i = n + 1 THEN b ELSE f.data[i]
              BY <2>2, <6>1
            <6>3. i # n + 1 => (i \in S <=> bit \in f.data[i])
              BY <2>1, <6>1 DEF HasBit
            <6>4. QED
              BY <6>2, <6>3
          <5>2. QED
            BY <5>1
        <4>2. HasBit(g, bit) = {i \in 1 .. n + 1 : bit \in g.data[i]}
          BY <2>2 DEF HasBit
        <4>3. n + 1 \in 1 .. n + 1 /\ 1 .. n \subseteq 1 .. n + 1
          BY <1>1
        <4> HIDE DEF S
        <4>4. QED
          BY <3>1, <4>1, <4>2, <4>3
      <3>4. Cardinality(S \cup {n + 1}) = Cardinality(S) + 1
        BY <3>1, <3>2, FS_AddElement
      <3>5. bit \in f.checksum <=> Cardinality(S) % 2 = 1
        BY DEF IsXor
      <3>6. bit \in g.checksum <=> ((bit \in f.checksum /\ bit \notin b) \/ (bit \in b /\ bit \notin f.checksum))
        BY <2>2 DEF Xor
      <3>7. PICK c \in Nat : c = Cardinality(S)
        BY <3>2
      <3>8. (c + 1) % 2 = 1 <=> ~(c % 2 = 1)
        OBVIOUS
      <3> HIDE DEF S
      <3>9. CASE bit \in b
        BY <3>3, <3>4, <3>5, <3>6, <3>7, <3>8, <3>9
      <3>10. CASE bit \notin b
        BY <3>3, <3>5, <3>6, <3>10
      <3>11. QED
        BY <3>9, <3>10
    <2>5. IsXor(g)
      BY <2>4 DEF IsXor
    <2>6. QED
      BY <2>2, <2>3, <2>5 DEF g
  <1>5. QED
    BY <1>1, <1>3, <1>4, Lengths

------------------------------------------------------------------------------
(* The table and the engine.                                                 *)

\* From which states an action is reached, and where it leads.
Fits(s, t) ==
    \/ t.action = "start_frame" /\ s = "IDLE" /\ t.next_state = "RECEIVING"
    \/ t.action = "store_byte" /\ s = "RECEIVING" /\ t.next_state = "RECEIVING"
    \/ t.action = "validate" /\ s = "RECEIVING" /\ t.next_state = "VALIDATING"
    \/ t.action = "process" /\ s = "VALIDATING" /\ t.next_state = "PROCESSING"
    \/ t.action = "complete" /\ s = "PROCESSING" /\ t.next_state = "IDLE"
    \/ t.action = "error" /\ s \in Timed /\ t.next_state = "ERROR"
    \/ t.action = "reset" /\ t.next_state = "IDLE"
    \/ t.action = "ignore" /\ t.next_state = s

LEMMA TableFits == \A s \in State, e \in Event : Fits(s, transitions[s][e])
  <1>1. SUFFICES ASSUME NEW s \in State, NEW e \in Event PROVE Fits(s, transitions[s][e])
    OBVIOUS
  <1>2. transitions[s][e] =
          CASE e = "RESET"                               -> Row("IDLE", "reset")
            [] e = "TIMEOUT" /\ s \in Timed              -> Row("ERROR", "error")
            [] e = "BYTE_RECEIVED" /\ s = "IDLE"         -> Row("RECEIVING", "start_frame")
            [] e = "BYTE_RECEIVED" /\ s \in Storing      -> Row(s, "store_byte")
            [] e = "FRAME_COMPLETE" /\ s = "RECEIVING"   -> Row("VALIDATING", "validate")
            [] e = "CHECKSUM_OK" /\ s = "VALIDATING"     -> Row("PROCESSING", "process")
            [] e = "CHECKSUM_FAIL" /\ s = "VALIDATING"   -> Row("ERROR", "error")
            [] e = "PROCESS_DONE" /\ s = "PROCESSING"    -> Row("IDLE", "complete")
            [] OTHER                                     -> Row(s, "ignore")
    BY DEF transitions
  <1>3. \A n, a : Row(n, a).next_state = n /\ Row(n, a).action = a
    BY DEF Row
  <1> DEFINE t == transitions[s][e]
  <1>4. \/ t = Row("IDLE", "reset")
        \/ s \in Timed /\ t = Row("ERROR", "error")
        \/ s = "IDLE" /\ t = Row("RECEIVING", "start_frame")
        \/ s = "RECEIVING" /\ t = Row("RECEIVING", "store_byte")
        \/ s = "RECEIVING" /\ t = Row("VALIDATING", "validate")
        \/ s = "VALIDATING" /\ t = Row("PROCESSING", "process")
        \/ s = "PROCESSING" /\ t = Row("IDLE", "complete")
        \/ t = Row(s, "ignore")
    <2>1. s \in Storing => s = "RECEIVING"
      BY DEF Storing
    <2>2. "VALIDATING" \in Timed
      BY DEF Timed
    <2>3. QED
      BY <1>2, <2>1, <2>2
  <1> HIDE DEF t
  <1>5. Fits(s, t)
    BY <1>3, <1>4 DEF Fits
  <1>6. QED
    BY <1>5 DEF t

\* What one call of sm_handle_event comes to, in the fields it may change.
Effect(a, b) ==
    CASE a = "start_frame" ->
            /\ ctx'.frame = Started(ctx.frame, b) /\ ctx'.rx_count = ctx.rx_count + 1
            /\ fed' = <<b>> /\ started' = started + 1
            /\ ctx'.error_count = ctx.error_count /\ ctx'.processed_count = ctx.processed_count
            /\ UNCHANGED aborted
      [] a = "store_byte" ->
            /\ ctx'.frame = Stored(ctx.frame, b) /\ ctx'.rx_count = ctx.rx_count + 1
            /\ fed' = Append(fed, b)
            /\ ctx'.error_count = ctx.error_count /\ ctx'.processed_count = ctx.processed_count
            /\ UNCHANGED <<started, aborted>>
      [] a = "complete" ->
            /\ ctx'.processed_count = ctx.processed_count + 1
            /\ ctx'.frame = ctx.frame /\ ctx'.rx_count = ctx.rx_count
            /\ ctx'.error_count = ctx.error_count
            /\ UNCHANGED <<fed, started, aborted>>
      [] a = "error" ->
            /\ ctx'.error_count = ctx.error_count + 1
            /\ ctx'.frame = ctx.frame /\ ctx'.rx_count = ctx.rx_count
            /\ ctx'.processed_count = ctx.processed_count
            /\ UNCHANGED <<fed, started, aborted>>
      [] a = "reset" ->
            /\ ctx'.frame = NoFrame /\ fed' = <<>>
            /\ aborted' = IF InFlight THEN aborted + 1 ELSE aborted
            /\ ctx'.rx_count = ctx.rx_count
            /\ ctx'.error_count = ctx.error_count /\ ctx'.processed_count = ctx.processed_count
            /\ UNCHANGED started
      [] OTHER ->
            /\ ctx'.frame = ctx.frame /\ ctx'.rx_count = ctx.rx_count
            /\ ctx'.error_count = ctx.error_count /\ ctx'.processed_count = ctx.processed_count
            /\ UNCHANGED <<fed, started, aborted>>

LEMMA CallEffect ==
    ASSUME Shape, IsFed(ctx.frame, fed), IsXor(ctx.frame),
           NEW event \in Event, NEW b \in Byte, sm_handle_event(event, b)
    PROVE  \E t : /\ Fits(ctx.current, t) /\ ctx'.current = t.next_state
                  /\ Effect(t.action, b) /\ ctx' \in Contexts
  <1> DEFINE t == transitions[ctx.current][event]
             r == After(t.action, ctx, b)
  <1>1. /\ ctx \in Contexts /\ ctx.current \in State /\ ctx.frame \in Frames
        /\ fed \in Seq(Byte)
        /\ ctx.rx_count \in Nat /\ ctx.error_count \in Nat /\ ctx.processed_count \in Nat
    BY DEF Shape, Contexts
  <1>2. Fits(ctx.current, t)
    BY <1>1, TableFits
  <1>3. t.next_state \in State
    BY <1>1, <1>2 DEF Fits, State
  <1>4. ctx' = [r EXCEPT !.current = t.next_state]
    BY DEF sm_handle_event
  <1>5. /\ r \in Contexts
        /\ r.frame = CASE t.action = "start_frame" -> Started(ctx.frame, b)
                       [] t.action = "store_byte"  -> Stored(ctx.frame, b)
                       [] t.action = "reset"       -> NoFrame
                       [] OTHER                    -> ctx.frame
        /\ r.rx_count = IF t.action \in {"start_frame", "store_byte"}
                        THEN ctx.rx_count + 1 ELSE ctx.rx_count
        /\ r.error_count = IF t.action = "error" THEN ctx.error_count + 1 ELSE ctx.error_count
        /\ r.processed_count = IF t.action = "complete" THEN ctx.processed_count + 1
                                                        ELSE ctx.processed_count
    <2>1. CASE t.action = "start_frame"
      <3>1. Started(ctx.frame, b) \in Frames
        BY StartedFields
      <3>2. r = [ctx EXCEPT !.frame = Started(ctx.frame, b), !.rx_count = ctx.rx_count + 1]
        BY <2>1 DEF After
      <3>3. ctx.rx_count + 1 \in Nat
        BY <1>1
      <3> HIDE DEF r
      <3>4. r \in Contexts
        BY <1>1, <3>1, <3>2, <3>3 DEF Contexts
      <3>5. /\ r.frame = Started(ctx.frame, b) /\ r.rx_count = ctx.rx_count + 1
            /\ r.error_count = ctx.error_count /\ r.processed_count = ctx.processed_count
        BY <1>1, <3>2 DEF Contexts
      <3>6. QED
        BY <2>1, <3>4, <3>5
    <2>2. CASE t.action = "store_byte"
      <3>1. Stored(ctx.frame, b) \in Frames
        BY <1>1, FrameStored
      <3>2. r = [ctx EXCEPT !.frame = Stored(ctx.frame, b), !.rx_count = ctx.rx_count + 1]
        BY <2>2 DEF After
      <3>3. ctx.rx_count + 1 \in Nat
        BY <1>1
      <3> HIDE DEF r
      <3>4. r \in Contexts
        BY <1>1, <3>1, <3>2, <3>3 DEF Contexts
      <3>5. /\ r.frame = Stored(ctx.frame, b) /\ r.rx_count = ctx.rx_count + 1
            /\ r.error_count = ctx.error_count /\ r.processed_count = ctx.processed_count
        BY <1>1, <3>2 DEF Contexts
      <3>6. QED
        BY <2>2, <3>4, <3>5
    <2>3. CASE t.action = "complete"
      BY <1>1, <2>3 DEF After, Contexts
    <2>4. CASE t.action = "error"
      BY <1>1, <2>4 DEF After, Contexts
    <2>5. CASE t.action = "reset"
      BY <1>1, <2>5, NoFrameFields DEF After, Contexts
    <2>6. CASE t.action \in {"validate", "process", "ignore"}
      BY <1>1, <2>6 DEF After
    <2>7. QED
      BY <1>2, <2>1, <2>2, <2>3, <2>4, <2>5, <2>6 DEF Fits
  <1> HIDE DEF r
  <1>6. /\ ctx' \in Contexts /\ ctx'.current = t.next_state
        /\ ctx'.frame = r.frame /\ ctx'.rx_count = r.rx_count
        /\ ctx'.error_count = r.error_count /\ ctx'.processed_count = r.processed_count
    BY <1>3, <1>4, <1>5 DEF Contexts
  <1>7. (CASE t.action = "start_frame" ->
               fed' = <<b>> /\ started' = started + 1 /\ UNCHANGED aborted
          [] t.action = "store_byte" -> fed' = Append(fed, b) /\ UNCHANGED <<started, aborted>>
          [] t.action = "reset" ->
               /\ fed' = <<>> /\ UNCHANGED started
               /\ aborted' = IF InFlight THEN aborted + 1 ELSE aborted
          [] OTHER -> UNCHANGED <<fed, started, aborted>>)
    BY DEF sm_handle_event
  <1>8. Effect(t.action, b)
    <2> HIDE DEF t
    <2>1. QED
      BY <1>5, <1>6, <1>7 DEF Effect
  <1>9. QED
    BY <1>2, <1>6, <1>8

------------------------------------------------------------------------------
(* The invariant.                                                            *)

LEMMA Start == Init => IInv
  <1>1. SUFFICES ASSUME Init PROVE IInv
    OBVIOUS
  <1>2. /\ ctx.current = "IDLE" /\ ctx.frame = NoFrame
        /\ ctx.rx_count = 0 /\ ctx.error_count = 0 /\ ctx.processed_count = 0
        /\ ctx \in Contexts
    BY <1>1, NoFrameFields DEF Init, Context0, Contexts, State
  <1>3. Shape
    BY <1>1, <1>2, EmptySeq DEF Init, Shape
  <1>4. IsFed(ctx.frame, fed) /\ IsXor(ctx.frame)
    BY <1>1, <1>2, EmptyFrame DEF Init
  <1>5. FrameAccounting
    BY <1>1, <1>2 DEF Init, FrameAccounting, InFlight
  <1>6. QED
    BY <1>3, <1>4, <1>5 DEF IInv

LEMMA CallKeeps ==
    ASSUME IInv, NEW event \in Event, NEW b \in Byte, sm_handle_event(event, b)
    PROVE  IInv'
  <1>1. /\ Shape /\ IsFed(ctx.frame, fed) /\ IsXor(ctx.frame) /\ FrameAccounting
        /\ ctx.frame \in Frames /\ fed \in Seq(Byte)
    BY DEF IInv, Shape, Contexts
  <1>2. PICK t : /\ Fits(ctx.current, t) /\ ctx'.current = t.next_state
                 /\ Effect(t.action, b) /\ ctx' \in Contexts
    BY <1>1, CallEffect
  <1>3. Shape'
    <2>1. /\ fed \in Seq(Byte) /\ <<>> \in Seq(Byte) /\ <<b>> \in Seq(Byte)
          /\ Append(fed, b) \in Seq(Byte)
      BY <1>1, EmptySeq, AppendProperties
    <2>2. started \in Nat /\ aborted \in Nat
      BY <1>1 DEF Shape
    <2>3. fed' \in Seq(Byte) /\ started' \in Nat /\ aborted' \in Nat
      <3>1. fed' \in {fed, <<>>, <<b>>, Append(fed, b)}
        BY <1>2 DEF Fits, Effect
      <3>2. started' = started \/ started' = started + 1
        BY <1>2 DEF Fits, Effect
      <3>3. aborted' = aborted \/ aborted' = aborted + 1
        BY <1>2 DEF Fits, Effect
      <3>4. fed' \in Seq(Byte)
        BY <2>1, <3>1
      <3>5. started' \in Nat /\ aborted' \in Nat
        BY <2>2, <3>2, <3>3
      <3>6. QED
        BY <3>4, <3>5
    <2>4. QED
      BY <1>2, <2>3 DEF Shape
  <1>4. IsFed(ctx'.frame, fed') /\ IsXor(ctx'.frame)
    <2>1. CASE t.action = "start_frame"
      BY <1>2, <2>1, FrameStarted DEF Effect
    <2>2. CASE t.action = "store_byte"
      BY <1>1, <1>2, <2>2, FrameStored DEF Effect
    <2>3. CASE t.action = "reset"
      BY <1>2, <2>3, EmptyFrame DEF Effect
    <2>4. CASE t.action \notin {"start_frame", "store_byte", "reset"}
      <3>1. ctx'.frame = ctx.frame /\ fed' = fed
        BY <1>2, <2>4 DEF Effect
      <3>2. QED
        BY <1>1, <3>1
    <2>5. QED
      BY <2>1, <2>2, <2>3, <2>4
  <1>5. FrameAccounting'
    <2> DEFINE flying == IF InFlight THEN 1 ELSE 0
               s == ctx.current
    <2>1. /\ started \in Nat /\ aborted \in Nat
          /\ ctx.processed_count \in Nat /\ ctx.error_count \in Nat
      BY <1>1 DEF Shape, Contexts
    <2>2. started = ctx.processed_count + ctx.error_count + aborted + flying
      BY <1>1 DEF FrameAccounting
    <2>3. InFlight <=> s \in {"RECEIVING", "VALIDATING", "PROCESSING"}
      BY DEF InFlight
    <2>4. InFlight' <=> t.next_state \in {"RECEIVING", "VALIDATING", "PROCESSING"}
      BY <1>2 DEF InFlight
    <2>5. PICK p \in Nat, e \in Nat : p = ctx.processed_count /\ e = ctx.error_count
      BY <2>1
    <2>6. PICK p1, e1 : p1 = ctx'.processed_count /\ e1 = ctx'.error_count
      OBVIOUS
    <2>7. \/ /\ flying = 0 /\ InFlight'
             /\ started' = started + 1 /\ p1 = p /\ e1 = e /\ aborted' = aborted
          \/ /\ flying = 1 /\ InFlight'
             /\ started' = started /\ p1 = p /\ e1 = e /\ aborted' = aborted
          \/ /\ flying = 1 /\ ~InFlight'
             /\ started' = started /\ p1 = p + 1 /\ e1 = e /\ aborted' = aborted
          \/ /\ flying = 1 /\ ~InFlight'
             /\ started' = started /\ p1 = p /\ e1 = e + 1 /\ aborted' = aborted
          \/ /\ ~InFlight' /\ started' = started /\ p1 = p /\ e1 = e
             /\ aborted' = aborted + flying
          \/ /\ started' = started /\ p1 = p /\ e1 = e /\ aborted' = aborted
             /\ InFlight' <=> InFlight
      <3>1. CASE t.action = "start_frame"
        BY <1>2, <2>3, <2>4, <2>5, <2>6, <3>1 DEF Fits, Effect
      <3>2. CASE t.action = "store_byte"
        BY <1>2, <2>3, <2>4, <2>5, <2>6, <3>2 DEF Fits, Effect
      <3>3. CASE t.action \in {"validate", "process"}
        BY <1>2, <2>3, <2>4, <2>5, <2>6, <3>3 DEF Fits, Effect
      <3>4. CASE t.action = "complete"
        BY <1>2, <2>3, <2>4, <2>5, <2>6, <3>4 DEF Fits, Effect
      <3>5. CASE t.action = "error"
        BY <1>2, <2>3, <2>4, <2>5, <2>6, <3>5 DEF Fits, Effect, Timed
      <3>6. CASE t.action = "reset"
        BY <1>2, <2>1, <2>3, <2>4, <2>5, <2>6, <3>6 DEF Fits, Effect
      <3>7. CASE t.action = "ignore"
        BY <1>2, <2>3, <2>4, <2>5, <2>6, <3>7 DEF Fits, Effect
      <3>8. QED
        BY <1>2, <3>1, <3>2, <3>3, <3>4, <3>5, <3>6, <3>7 DEF Fits
    <2>8. started' = p1 + e1 + aborted' + (IF InFlight' THEN 1 ELSE 0)
      BY <2>1, <2>2, <2>5, <2>7
    <2>9. QED
      BY <2>6, <2>8 DEF FrameAccounting
  <1>6. QED
    BY <1>3, <1>4, <1>5 DEF IInv

LEMMA Keeps == ASSUME IInv, [Next]_vars PROVE IInv'
  <1>1. CASE Next
    BY <1>1, CallKeeps DEF Next
  <1>2. CASE UNCHANGED vars
    <2>1. UNCHANGED <<ctx, fed, started, aborted>>
      BY <1>2 DEF vars
    <2>2. QED
      BY <2>1 DEF IInv, Shape, FrameAccounting, InFlight
  <1>3. QED
    BY <1>1, <1>2

LEMMA Intact == IInv => FrameIntact /\ FrameAccounting
  <1>1. SUFFICES ASSUME IInv PROVE FrameIntact
    BY DEF IInv
  <1>2. TypeOK
    BY <1>1 DEF IInv, Shape, Contexts, Frames, TypeOK
  <1>3. FrameIsFed
    BY <1>1 DEF IInv, IsFed, FrameIsFed
  <1>4. ChecksumIsXor
    BY <1>1 DEF IInv, IsXor, HasBit, ChecksumIsXor
  <1>5. QED
    BY <1>2, <1>3, <1>4 DEF FrameIntact

------------------------------------------------------------------------------
\* Whatever events come in whatever state, the frame is the bytes received since it
\* was started, cut at the buffer's end, and its checksum is theirs.
THEOREM FrameStaysIntact == Spec => []FrameIntact
  <1>1. QED
    BY Start, Keeps, Intact, PTL DEF Spec

\* Every frame started ends in exactly one of the counters, or is in flight.
THEOREM FramesAccounted == Spec => []FrameAccounting
  <1>1. QED
    BY Start, Keeps, Intact, PTL DEF Spec

\* No event changes a frame that has been completed, before it is done with.
LEMMA CallFreezes ==
    ASSUME IInv, NEW event \in Event, NEW b \in Byte, sm_handle_event(event, b),
           ctx.current \in {"VALIDATING", "PROCESSING", "ERROR"}
    PROVE  ctx'.rx_count = ctx.rx_count /\ (ctx'.current # "IDLE" => ctx'.frame = ctx.frame)
  <1>1. PICK t : /\ Fits(ctx.current, t) /\ ctx'.current = t.next_state
                 /\ Effect(t.action, b) /\ ctx' \in Contexts
    BY CallEffect DEF IInv
  <1>2. /\ t.action \notin {"start_frame", "store_byte"}
        /\ t.action = "reset" => ctx'.current = "IDLE"
    BY <1>1 DEF Fits
  <1>3. QED
    BY <1>1, <1>2 DEF Effect

\* What is processed is what was validated, for frames of every length.
THEOREM FrozenFrames == Spec => FrozenOnceComplete
  <1> DEFINE Frozen == ctx.current \in {"VALIDATING", "PROCESSING", "ERROR"} =>
                          /\ ctx'.rx_count = ctx.rx_count
                          /\ ctx'.current # "IDLE" => ctx'.frame = ctx.frame
  <1>1. IInv /\ [Next]_vars => [Frozen]_vars
    <2>1. SUFFICES ASSUME IInv, Next PROVE Frozen
      OBVIOUS
    <2>2. QED
      BY <2>1, CallFreezes DEF Next
  <1>2. QED
    BY <1>1, Start, Keeps, PTL DEF Spec, FrozenOnceComplete
==============================================================================
