--------------------------- MODULE FrameParserIsr ----------------------------
(* sm_handle_event called by interrupts that share one context (LESSONS.md,  *)
(* "embedded connection - real UART ISR"): the UART handler dispatches bytes,*)
(* the timer handler timeouts, the main loop resets. The engine reads the    *)
(* state to find the row, runs the action, and writes the state last.        *)
EXTENDS FrameTable

CONSTANTS
    Nesting,        \* TRUE if the timer interrupt preempts the UART interrupt
    MaxCalls        \* bound: events dispatched

Context == {"main", "uart", "timer"}

VARIABLES ctx,
          pc,       \* how far each context is inside sm_handle_event
          row,      \* t, the row it looked up
          byte,     \* data
          calls

vars == <<ctx, pc, row, byte, calls>>

Init == /\ ctx = Context0
        /\ pc = [c \in Context |-> "idle"]
        /\ row = [c \in Context |-> Row("IDLE", "ignore")]
        /\ byte = [c \in Context |-> {}]
        /\ calls = 0

Idle(c) == pc[c] = "idle"

\* Handlers run to completion unless preempted by one of a higher priority.
Runs(c) == /\ c = "main" => Idle("uart") /\ Idle("timer")
           /\ c = "uart" => Idle("timer")
           /\ c = "timer" => Nesting \/ Idle("uart")

EventOf(c) == CASE c = "main" -> "RESET" [] c = "uart" -> "BYTE_RECEIVED" [] c = "timer" -> "TIMEOUT"

Lookup(c, b) == /\ Idle(c) /\ Runs(c) /\ calls < MaxCalls
                /\ row' = [row EXCEPT ![c] = transitions[ctx.current][EventOf(c)]]
                /\ byte' = [byte EXCEPT ![c] = b]
                /\ pc' = [pc EXCEPT ![c] = "action"]
                /\ calls' = calls + 1
                /\ UNCHANGED ctx

Action(c) == /\ pc[c] = "action" /\ Runs(c)
             /\ ctx' = After(row[c].action, ctx, byte[c])
             /\ pc' = [pc EXCEPT ![c] = "commit"]
             /\ UNCHANGED <<row, byte, calls>>

Commit(c) == /\ pc[c] = "commit" /\ Runs(c)
             /\ ctx' = [ctx EXCEPT !.current = row[c].next_state]
             /\ pc' = [pc EXCEPT ![c] = "idle"]
             /\ UNCHANGED <<row, byte, calls>>

Next == \E c \in Context :
           \/ \E b \in Byte : Lookup(c, b)
           \/ Action(c)
           \/ Commit(c)

Spec == Init /\ [][Next]_vars

------------------------------------------------------------------------------
\* LESSONS.md: only RESET escapes error state. With handlers of one priority it
\* holds although main's reset may be interrupted at any point; with a timer that
\* preempts the UART handler, the state the UART handler looked up before the
\* timeout is written over ERROR.
OnlyResetEscapesError ==
    [][ctx.current = "ERROR" /\ ctx'.current # "ERROR" => pc["main"] = "commit"]_vars
==============================================================================
