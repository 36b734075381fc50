----------------------------- MODULE FrameParser -----------------------------
(* sm_handle_event of module4 ex05, one call at a time, with any event in    *)
(* any state.                                                                *)
EXTENDS FrameTable, FiniteSets, Sequences

CONSTANTS
    MaxFrames,      \* bound: frames started
    MaxFed          \* bound: bytes received in one frame

ASSUME FrameParserAssumption == MaxFrames \in Nat /\ MaxFed \in Nat

VARIABLES ctx,
          fed,      \* history: the bytes received since the frame was started
          started,  \* history: frames started
          aborted   \* history: frames dropped by a RESET before they ended

vars == <<ctx, fed, started, aborted>>

InFlight == ctx.current \in {"RECEIVING", "VALIDATING", "PROCESSING"}

Init == ctx = Context0 /\ fed = <<>> /\ started = 0 /\ aborted = 0

sm_handle_event(event, b) ==
    LET t == transitions[ctx.current][event]
    IN  /\ ctx' = [After(t.action, ctx, b) EXCEPT !.current = t.next_state]
        /\ CASE t.action = "start_frame" ->
                  /\ started < MaxFrames
                  /\ fed' = <<b>> /\ started' = started + 1 /\ UNCHANGED aborted
             [] t.action = "store_byte" ->
                  /\ Len(fed) < MaxFed
                  /\ fed' = Append(fed, b) /\ UNCHANGED <<started, aborted>>
             [] t.action = "reset" ->
                  /\ fed' = <<>> /\ UNCHANGED started
                  /\ aborted' = IF InFlight THEN aborted + 1 ELSE aborted
             [] OTHER -> UNCHANGED <<fed, started, aborted>>

Next == \E event \in Event, b \in Byte : sm_handle_event(event, b)

Spec == Init /\ [][Next]_vars

------------------------------------------------------------------------------
\* Type invariant.
TypeOK ==
    /\ ctx.current \in State
    /\ ctx.frame.data \in [1 .. FRAME_MAX_LEN -> Byte]
    /\ ctx.frame.length \in 0 .. FRAME_MAX_LEN
    /\ ctx.frame.checksum \in Byte
    /\ ctx.rx_count \in Nat /\ ctx.error_count \in Nat /\ ctx.processed_count \in Nat
    /\ fed \in Seq(Byte) /\ started \in Nat /\ aborted \in Nat

\* The frame buffer is what came in: the bytes received since the frame began,
\* cut at FRAME_MAX_LEN, with nothing left behind of an earlier, longer frame.
FrameIsFed ==
    /\ ctx.frame.length = IF Len(fed) < FRAME_MAX_LEN THEN Len(fed) ELSE FRAME_MAX_LEN
    /\ \A i \in 1 .. FRAME_MAX_LEN :
          ctx.frame.data[i] = IF i <= Len(fed) THEN fed[i] ELSE {}

\* The checksum is the XOR of the bytes stored, and so of all the buffer, in
\* every state: a bit is set when an odd number of them has it.
ChecksumIsXor ==
    \A bit \in Bit :
        bit \in ctx.frame.checksum
          <=> Cardinality({i \in 1 .. ctx.frame.length : bit \in ctx.frame.data[i]}) % 2 = 1

\* The frame in the context is well typed, is what was received since it was
\* started, and carries its own checksum.
FrameIntact == TypeOK /\ FrameIsFed /\ ChecksumIsXor

\* Every frame started is processed, counted as an error, dropped by a reset, or
\* still in flight; none is counted twice, whatever events come in what order.
FrameAccounting ==
    started = ctx.processed_count + ctx.error_count + aborted
              + (IF InFlight THEN 1 ELSE 0)

\* What is processed is what was validated: from FRAME_COMPLETE on, the frame
\* does not change until the machine is back in IDLE, and rx_count stands still.
FrozenOnceComplete ==
    [][ctx.current \in {"VALIDATING", "PROCESSING", "ERROR"} =>
          /\ ctx'.rx_count = ctx.rx_count
          /\ ctx'.current # "IDLE" => ctx'.frame = ctx.frame]_vars
==============================================================================
