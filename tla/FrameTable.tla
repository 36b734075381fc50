----------------------------- MODULE FrameTable ------------------------------
(* The UART frame parser of module4 ex05 as data: its transition table and   *)
(* what each action does to the context. A byte is the set of its 1 bits, so *)
(* that ^ is the symmetric difference and 0x00 the empty set.                *)
EXTENDS Naturals

CONSTANTS
    Bit,            \* the bits of a byte
    FRAME_MAX_LEN   \* #define FRAME_MAX_LEN

ASSUME FrameTableAssumption == FRAME_MAX_LEN \in Nat \ {0}

Byte == SUBSET Bit
\* Mutant: the checksum ors its bytes.
Or(x, y)  == x \cup y
Xor(x, y) == (x \ y) \cup (y \ x)

State == {"IDLE", "RECEIVING", "VALIDATING", "PROCESSING", "ERROR"}
Event == {"BYTE_RECEIVED", "FRAME_COMPLETE", "CHECKSUM_OK", "CHECKSUM_FAIL",
          "PROCESS_DONE", "TIMEOUT", "RESET"}

\* The states a timeout takes to ERROR, and those that store a byte.
\* Mutant: a timeout in ERROR is an error again.
TimedWithError == {"RECEIVING", "VALIDATING", "PROCESSING", "ERROR"}
Timed == {"RECEIVING", "VALIDATING", "PROCESSING"}
\* Mutant: late bytes are still stored.
StoringLate == {"RECEIVING", "PROCESSING"}
Storing == {"RECEIVING"}

Row(next, action) == [next_state |-> next, action |-> action]

transitions == [s \in State |-> [e \in Event |->
    CASE e = "RESET"                               -> Row("IDLE", "reset")
      [] e = "TIMEOUT" /\ s \in Timed              -> Row("ERROR", "error")
      [] e = "BYTE_RECEIVED" /\ s = "IDLE"        -> Row("RECEIVING", "start_frame")
      [] e = "BYTE_RECEIVED" /\ s \in Storing      -> Row(s, "store_byte")
      [] e = "FRAME_COMPLETE" /\ s = "RECEIVING"   -> Row("VALIDATING", "validate")
      [] e = "CHECKSUM_OK" /\ s = "VALIDATING"     -> Row("PROCESSING", "process")
      [] e = "CHECKSUM_FAIL" /\ s = "VALIDATING"   -> Row("ERROR", "error")
      [] e = "PROCESS_DONE" /\ s = "PROCESSING"    -> Row("IDLE", "complete")
      [] OTHER                                     -> Row(s, "ignore")]]

NoFrame == [data |-> [i \in 1 .. FRAME_MAX_LEN |-> {}], length |-> 0, checksum |-> {}]

\* sm_init.
Context0 == [current |-> "IDLE", frame |-> NoFrame,
             rx_count |-> 0, error_count |-> 0, processed_count |-> 0]

\* Mutant: one byte is stored beyond the buffer.
StoredOverrun(f, b) ==
    IF f.length <= FRAME_MAX_LEN
    THEN [data |-> [f.data EXCEPT ![f.length + 1] = b],
          length |-> f.length + 1,
          checksum |-> Xor(f.checksum, b)]
    ELSE f

\* action_store_byte on the frame: a byte beyond FRAME_MAX_LEN is dropped.
Stored(f, b) ==
    IF f.length < FRAME_MAX_LEN
    THEN [data |-> [f.data EXCEPT ![f.length + 1] = b],
          length |-> f.length + 1,
          checksum |-> Xor(f.checksum, b)]
    ELSE f

\* Mutant: a new frame keeps the bytes of the one before.
StartedDirty(f, b) == [f EXCEPT !.data[1] = b, !.length = 1, !.checksum = b]

\* action_start_frame on the frame.
Started(f, b) == [NoFrame EXCEPT !.data[1] = b, !.length = 1, !.checksum = b]

\* The context c after the action with byte b; validate, process and ignore
\* leave it as it is.
After(action, c, b) ==
    CASE action = "start_frame" -> [c EXCEPT !.frame = Started(@, b), !.rx_count = @ + 1]
      [] action = "store_byte"  -> [c EXCEPT !.frame = Stored(@, b), !.rx_count = @ + 1]
      [] action = "complete"    -> [c EXCEPT !.processed_count = @ + 1]
      [] action = "error"       -> [c EXCEPT !.error_count = @ + 1]
      [] action = "reset"       -> [c EXCEPT !.frame = NoFrame]
      [] OTHER                  -> c
==============================================================================
