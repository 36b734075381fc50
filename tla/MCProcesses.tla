----------------------------- MODULE MCProcesses ------------------------------
(* The two small processes of module 5, the threads of ex05 and the signals  *)
(* of ex04: `prog` says which of them this behaviour runs, the other keeps   *)
(* its initial state.                                                        *)
EXTENDS ThreadsMutex, Signals

VARIABLE prog

MCInit == prog \in {"threads", "signals"} /\ Init /\ SigInit

MCNext == /\ UNCHANGED prog
          /\ \/ prog = "threads" /\ Next /\ UNCHANGED sigVars
             \/ prog = "signals" /\ SigNext /\ UNCHANGED vars

MCSpec == /\ MCInit
          /\ [][MCNext]_<<prog, vars, sigVars>>
          /\ WF_vars(prog = "threads" /\ MainStep)
          /\ \A t \in Thread : WF_vars(prog = "threads" /\ ThreadStep(t))
          /\ WF_sigVars(prog = "signals" /\ SigMainStep)

------------------------------------------------------------------------------
\* Each process ends: main of ex05 after all its joins, main of ex04 by itself or
\* by a signal, whichever signals come and wherever they are handled.
BothEnd == /\ prog = "threads" => Terminates
           /\ prog = "signals" => SigTerminates
==============================================================================
