---------------------------- MODULE SensorMachine ----------------------------
(* The sensor state machine of module3 ex06: one engine over a table of next *)
(* states and actions, and the reading and the error count they keep.        *)
EXTENDS Naturals, Sequences

CONSTANTS
    COUNT_MOD,      \* error_count is a uint32_t: 2^32
    READING,        \* the simulated ADC value, 2650
    MaxErrors       \* bound: errors followed between two resets

ASSUME SensorMachineAssumption == /\ COUNT_MOD \in Nat \ {0}
                                  /\ READING \in Nat \ {0}
                                  /\ MaxErrors \in Nat

VARIABLES ctx,      \* the sm_ctx_t
          errors,   \* history: ERROR events since the last reset
          cycle     \* history: events of the current measuring cycle that counted

smVars == <<ctx, errors, cycle>>

SmState == {"IDLE", "SENSING", "PROCESSING", "ERROR"}
SmEvent == {"START", "DATA_READY", "PROCESS_DONE", "ERROR", "RESET"}

Entry(next, action) == [next_state |-> next, action |-> action]

\* Where a measurement may start.
\* Mutant: also in ERROR.
StartsAlsoInError == {"IDLE", "ERROR"}
Starts == {"IDLE"}

\* The rows the table marks action_ignore keep the state.
SmTable == [st \in SmState |-> [e \in SmEvent |->
    CASE e = "ERROR"                                -> Entry("ERROR", "handle_error")
      [] e = "RESET"                                -> Entry("IDLE", "reset")
      [] e = "START" /\ st \in Starts               -> Entry("SENSING", "start_sensing")
      [] e = "DATA_READY" /\ st = "SENSING"         -> Entry("PROCESSING", "process_data")
      [] e = "PROCESS_DONE" /\ st = "PROCESSING"    -> Entry("IDLE", "complete")
      [] OTHER                                      -> Entry(st, "ignore")]]

\* Mutant: the counter does not wrap.
CountedUnwrapped(n) == n + 1
Counted(n) == (n + 1) % COUNT_MOD

\* Mutant: a new measurement keeps the reading of the one before.
SensingStale(c) == c
Sensing(c) == [c EXCEPT !.sensor_value = 0]

\* The context after the action; complete and ignore only print.
SmActed(action, c) ==
    CASE action = "start_sensing" -> Sensing(c)
      [] action = "process_data"  -> [c EXCEPT !.sensor_value = READING]
      [] action = "handle_error"  -> [c EXCEPT !.error_count = Counted(@)]
      [] action = "reset"         -> [c EXCEPT !.sensor_value = 0, !.error_count = 0]
      [] OTHER                    -> c

sm_init == /\ ctx = [current |-> "IDLE", sensor_value |-> 0, error_count |-> 0]
           /\ errors = 0
           /\ cycle = <<>>

sm_handle_event(e) ==
    LET t == SmTable[ctx.current][e] IN
    /\ e = "ERROR" => errors < MaxErrors
    /\ ctx' = [SmActed(t.action, ctx) EXCEPT !.current = t.next_state]
    /\ errors' = CASE e = "ERROR" -> errors + 1 [] e = "RESET" -> 0 [] OTHER -> errors
    /\ cycle' = CASE e = "RESET"                       -> <<>>
                  [] t.action = "start_sensing"        -> <<e>>
                  [] t.action \in {"process_data", "complete"} -> cycle \o <<e>>
                  [] OTHER                             -> cycle

SmNext == \E e \in SmEvent : sm_handle_event(e)

SmSpec == sm_init /\ [][SmNext]_smVars

------------------------------------------------------------------------------
\* Type invariant.
SmTypeOK == ctx \in [current : SmState, sensor_value : {0, READING},
                     error_count : 0 .. COUNT_MOD - 1]

\* Errors are counted from reset to reset, up to the width of the counter, and
\* the machine is in ERROR exactly while one is not yet reset: no other event
\* leaves ERROR, whatever comes between.
ErrorsUntilReset == /\ ctx.error_count = errors % COUNT_MOD
                    /\ ctx.current = "ERROR" <=> errors > 0

\* The reading shown is that of the present cycle: none before DATA_READY, so
\* that a reading left from the cycle before is never taken for a new one, and
\* one from then to the next START or RESET.
ReadingOfThisCycle ==
    /\ (ctx.sensor_value = READING) <=> Len(cycle) >= 2
    /\ cycle \in {<<>>, <<"START">>, <<"START", "DATA_READY">>,
                  <<"START", "DATA_READY", "PROCESS_DONE">>}
    /\ ctx.current = "SENSING"    => Len(cycle) = 1
    /\ ctx.current = "PROCESSING" => Len(cycle) = 2
    /\ ctx.current = "IDLE"       => Len(cycle) \in {0, 3}
\* The context is well typed; ERROR and its count, the state and the reading tell
\* the same story of the events since the last reset.
SensorConsistent == SmTypeOK /\ ErrorsUntilReset /\ ReadingOfThisCycle
==============================================================================
