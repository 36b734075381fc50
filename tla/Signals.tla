------------------------------- MODULE Signals -------------------------------
(* module5 ex04: main installs three handlers and ticks until it is told to  *)
(* stop; the kernel runs a handler between any two accesses of main.         *)
EXTENDS Naturals, FiniteSets

CONSTANTS
    AUTO_STOP,      \* the tick at which the loop stops itself
    MaxSent         \* bound: signals sent

ASSUME SignalsAssumption == AUTO_STOP \in Nat \ {0} /\ MaxSent \in Nat

Signal == {"SIGINT", "SIGHUP", "SIGUSR1"}

VARIABLES running, reload, sig_count,
          sig_pc, count,    \* main: where it is, and its tick counter
          installed,    \* signals whose handler is registered
          pending,      \* signals sent and not delivered: one of each at most
          sent,
          owed,         \* history: a SIGHUP was handled since the last reload began
          reloads, hups, usr1s,     \* history: reloads done, handler runs
          stopTick      \* history: count when running was first cleared, at the latest AUTO_STOP

flags == <<running, reload, sig_count>>
history == <<owed, reloads, hups, usr1s, stopTick>>
sigVars == <<flags, sig_pc, count, installed, pending, sent, history>>

SigInit == /\ running = 1 /\ reload = 0 /\ sig_count = 0
           /\ sig_pc = "install" /\ count = 0
           /\ installed = {} /\ pending = {} /\ sent = 0
           /\ owed = FALSE /\ reloads = 0 /\ hups = 0 /\ usr1s = 0
           /\ stopTick = AUTO_STOP

Alive == sig_pc \notin {"killed", "exited"}

\* kill(1): a signal already pending is not queued a second time.
Send(s) == /\ Alive /\ sent < MaxSent
           /\ pending' = pending \cup {s}
           /\ sent' = sent + 1
           /\ UNCHANGED <<flags, sig_pc, count, installed, history>>

\* The default action of all three signals.
Kill(s) == /\ Alive /\ s \in pending \ installed
           /\ sig_pc' = "killed"
           /\ pending' = pending \ {s}
           /\ UNCHANGED <<flags, count, installed, sent, history>>

Deliver(s) == /\ Alive /\ s \in pending \cap installed
              /\ pending' = pending \ {s}
              /\ UNCHANGED <<sig_pc, count, installed, sent, reloads>>

handler_sigint == /\ Deliver("SIGINT")
                  /\ running' = 0
                  /\ stopTick' = IF count < stopTick THEN count ELSE stopTick
                  /\ UNCHANGED <<reload, sig_count, owed, hups, usr1s>>

handler_sighup == /\ Deliver("SIGHUP")
                  /\ reload' = 1
                  /\ owed' = TRUE /\ hups' = hups + 1
                  /\ UNCHANGED <<running, sig_count, usr1s, stopTick>>

\* Mutant: the handler sets its counter as the other handlers set their flags.
handler_sigusr1_flag == /\ Deliver("SIGUSR1")
                        /\ sig_count' = 1
                        /\ usr1s' = usr1s + 1
                        /\ UNCHANGED <<running, reload, owed, hups, stopTick>>

handler_sigusr1 == /\ Deliver("SIGUSR1")
                   /\ sig_count' = sig_count + 1
                   /\ usr1s' = usr1s + 1
                   /\ UNCHANGED <<running, reload, owed, hups, stopTick>>

\* sigaction, in main's order: SIGINT, SIGHUP, SIGUSR1.
Install(s) == /\ sig_pc = "install"
              /\ CASE s = "SIGINT"  -> installed = {}
                   [] s = "SIGHUP"  -> installed = {"SIGINT"}
                   [] s = "SIGUSR1" -> installed = {"SIGINT", "SIGHUP"}
              /\ installed' = installed \cup {s}
              /\ sig_pc' = IF s = "SIGUSR1" THEN "while" ELSE "install"
              /\ UNCHANGED <<flags, count, pending, sent, history>>

While == /\ sig_pc = "while"
         /\ sig_pc' = IF running = 1 THEN "tick" ELSE "exited"
         /\ UNCHANGED <<flags, count, installed, pending, sent, history>>

\* Mutant: pause() in the place of sleep(1).
TickPause == /\ sig_pc = "tick" /\ pending # {}
             /\ count' = count + 1
             /\ sig_pc' = "reload?"
             /\ UNCHANGED <<flags, installed, pending, sent, history>>

\* sleep(1), which a signal may end early, and count++.
Tick == /\ sig_pc = "tick"
        /\ count' = count + 1
        /\ sig_pc' = "reload?"
        /\ UNCHANGED <<flags, installed, pending, sent, history>>

TestReload == /\ sig_pc = "reload?"
              /\ IF reload = 1
                 THEN sig_pc' = "clear" /\ reloads' = reloads + 1 /\ owed' = FALSE
                 ELSE sig_pc' = "stop?" /\ UNCHANGED <<reloads, owed>>
              /\ UNCHANGED <<flags, count, installed, pending, sent, hups, usr1s, stopTick>>

\* Mutant: the flag is not cleared.
ClearNothing == /\ sig_pc = "clear"
                /\ sig_pc' = "stop?"
                /\ UNCHANGED <<flags, count, installed, pending, sent, history>>

ClearReload == /\ sig_pc = "clear"
               /\ reload' = 0
               /\ sig_pc' = "stop?"
               /\ UNCHANGED <<running, sig_count, count, installed, pending, sent, history>>

\* Mutant: the automatic stop is one tick late.
StopDueLate == count > AUTO_STOP
StopDue == count >= AUTO_STOP

\* Mutant: running is set to the outcome of the test, a stop or not.
AutoStopRevives == /\ sig_pc = "stop?"
                   /\ running' = IF StopDue THEN 0 ELSE 1
                   /\ sig_pc' = "while"
                   /\ UNCHANGED <<reload, sig_count, count, installed, pending, sent, history>>

AutoStop == /\ sig_pc = "stop?"
            /\ running' = IF StopDue THEN 0 ELSE running
            /\ sig_pc' = "while"
            /\ UNCHANGED <<reload, sig_count, count, installed, pending, sent, history>>

SigMainStep == \/ \E s \in Signal : Install(s)
               \/ While \/ Tick \/ TestReload \/ ClearReload \/ AutoStop

Handlers == handler_sigint \/ handler_sighup \/ handler_sigusr1

SigNext == \/ \E s \in Signal : Send(s) \/ Kill(s)
           \/ Handlers
           \/ SigMainStep

SigSpec == SigInit /\ [][SigNext]_sigVars /\ WF_sigVars(SigMainStep)

------------------------------------------------------------------------------
\* Type invariant.
SigTypeOK ==
    /\ running \in {0, 1} /\ reload \in {0, 1} /\ sig_count \in 0 .. MaxSent
    /\ sig_pc \in {"install", "while", "tick", "reload?", "clear", "stop?",
                   "exited", "killed"}
    /\ count \in 0 .. AUTO_STOP
    /\ installed \subseteq Signal /\ pending \subseteq Signal
    /\ sent \in 0 .. MaxSent
    /\ owed \in BOOLEAN /\ stopTick \in 0 .. AUTO_STOP

\* A stop takes effect within the iteration it interrupts, or the one whose test
\* of running it just missed, and nothing sets running again.
StopsWithinATick == count <= stopTick + 1

\* No reload happens that no SIGHUP asked for, and none twice for one SIGHUP: the
\* flag set and the reloads done never exceed the handler's runs.
NoSpuriousReload == reloads + (IF reload = 1 /\ sig_pc # "clear" THEN 1 ELSE 0) <= hups

\* The counter main prints is the number of SIGUSR1 handled; what was sent may be
\* more, as one pending SIGUSR1 absorbs the next.
CountsHandled == sig_count = usr1s /\ usr1s + hups <= sent

\* The flags and the counter main reads are well typed and follow from what the
\* handlers did: no reload nobody asked for, no signal counted that was not sent.
FlagsFollowHandlers == SigTypeOK /\ NoSpuriousReload /\ CountsHandled

\* With no signal at all the loop still ends, and with any signals the process
\* ends: main is never stuck.
SigTerminates == <>(~Alive)

\* Comment at handler_sighup: signal main loop to reload config. A SIGHUP handled
\* is a reload done, or reload is still set for the loop to see.
ReloadNotLost == owed => reload = 1
==============================================================================
