---------------------------- MODULE Signals_proofs ----------------------------
(* The flags and the main loop of module5 ex04 for every automatic stop and  *)
(* any number of signals, delivered between any two accesses of main.        *)
EXTENDS Signals, TLAPS

\* A signal sent and not handled is at most one pending signal of its kind.
IsPending(s) == IF s \in pending THEN 1 ELSE 0

\* SigTypeOK with counters not yet bounded by what was sent.
Typed == /\ running \in {0, 1} /\ reload \in {0, 1}
         /\ sig_pc \in {"install", "while", "tick", "reload?", "clear", "stop?",
                    "exited", "killed"}
         /\ count \in 0 .. AUTO_STOP
         /\ installed \subseteq Signal /\ pending \subseteq Signal
         /\ sent \in 0 .. MaxSent
         /\ stopTick \in 0 .. AUTO_STOP
         /\ sig_count \in Nat /\ usr1s \in Nat /\ hups \in Nat /\ reloads \in Nat

\* Each signal sent is counted at most once: as pending or as a handler's run.
Accounted == /\ sig_count = usr1s
             /\ usr1s + hups + IsPending("SIGUSR1") + IsPending("SIGHUP") <= sent

\* While running is set no stop has been recorded, and the test of the last
\* iteration has left a tick to go.
LoopGoesOn == /\ running = 1 => stopTick = AUTO_STOP
              /\ sig_pc = "install" => count = 0
              /\ sig_pc = "while" /\ running = 1 => count < AUTO_STOP

\* The sleep of a tick begins before AUTO_STOP and before any stop took effect.
TickIsDue == sig_pc = "tick" => count < AUTO_STOP /\ count <= stopTick

\* A signal kills only before the loop: then every handler is installed.
AllInstalled == sig_pc \notin {"install", "killed"} => installed = Signal

IInv == Typed /\ owed \in BOOLEAN /\ Accounted /\ LoopGoesOn /\ TickIsDue /\ AllInstalled
        /\ NoSpuriousReload /\ StopsWithinATick

LEMMA InitIInv == SigInit => IInv
  <1> SUFFICES ASSUME SigInit PROVE IInv
    OBVIOUS
  <1>1. Typed
    BY SignalsAssumption DEF SigInit, Typed, Signal
  <1>2. Accounted
    BY DEF SigInit, Accounted, IsPending
  <1>3. LoopGoesOn /\ TickIsDue /\ NoSpuriousReload /\ StopsWithinATick
    BY SignalsAssumption
       DEF SigInit, LoopGoesOn, TickIsDue, AllInstalled, NoSpuriousReload, StopsWithinATick
  <1>4. owed \in BOOLEAN /\ AllInstalled
    BY DEF SigInit, AllInstalled
  <1>5. QED
    BY <1>1, <1>2, <1>3, <1>4 DEF IInv

LEMMA SendIInv ==
    ASSUME IInv, NEW s \in Signal, Send(s)
    PROVE  IInv'
  <1>1. Typed'
    BY SignalsAssumption DEF IInv, Typed, Send, flags, history
  <1>2. Accounted'
    BY DEF IInv, Typed, Accounted, IsPending, Send, flags, history, Signal
  <1>3. QED
    BY <1>1, <1>2 DEF IInv, LoopGoesOn, TickIsDue, AllInstalled, NoSpuriousReload,
                      StopsWithinATick, Send, flags, history

LEMMA KillIInv ==
    ASSUME IInv, NEW s \in Signal, Kill(s)
    PROVE  IInv'
  <1>1. Typed'
    BY DEF IInv, Typed, Kill, flags, history
  <1>2. Accounted'
    BY DEF IInv, Typed, Accounted, IsPending, Kill, flags, history
  <1>3. NoSpuriousReload'
    BY DEF IInv, Typed, NoSpuriousReload, AllInstalled, Kill, flags, history
  <1>4. QED
    BY <1>1, <1>2, <1>3 DEF IInv, LoopGoesOn, TickIsDue, AllInstalled, StopsWithinATick,
                            Kill, flags, history

LEMMA HandlersIInv ==
    ASSUME IInv, Handlers
    PROVE  IInv'
  <1>1. CASE handler_sigint
    BY <1>1 DEF handler_sigint, Deliver, IInv, Typed, Accounted, IsPending,
                LoopGoesOn, TickIsDue, AllInstalled, NoSpuriousReload, StopsWithinATick
  <1>2. CASE handler_sighup
    BY <1>2 DEF handler_sighup, Deliver, IInv, Typed, Accounted, IsPending,
                LoopGoesOn, TickIsDue, AllInstalled, NoSpuriousReload, StopsWithinATick
  <1>3. CASE handler_sigusr1
    BY <1>3 DEF handler_sigusr1, Deliver, IInv, Typed, Accounted, IsPending,
                LoopGoesOn, TickIsDue, AllInstalled, NoSpuriousReload, StopsWithinATick
  <1>4. QED
    BY <1>1, <1>2, <1>3 DEF Handlers

LEMMA MainStepIInv ==
    ASSUME IInv, SigMainStep
    PROVE  IInv'
  <1> USE SignalsAssumption
      DEF IInv, Typed, Accounted, IsPending, LoopGoesOn, TickIsDue, AllInstalled,
          NoSpuriousReload, StopsWithinATick, flags, history
  <1>1. ASSUME NEW s \in Signal, Install(s) PROVE IInv'
    <2>1. installed' \subseteq Signal /\ (s = "SIGUSR1" => installed' = Signal)
      BY <1>1 DEF Install, Signal
    <2>2. sig_pc' = IF s = "SIGUSR1" THEN "while" ELSE "install"
      BY <1>1 DEF Install
    <2>3. UNCHANGED <<flags, count, pending, sent, history>> /\ sig_pc = "install"
      BY <1>1 DEF Install
    <2>4. QED
      BY <2>1, <2>2, <2>3
  <1>2. CASE While
    BY <1>2 DEF While
  <1>3. CASE Tick
    BY <1>3 DEF Tick
  <1>4. CASE TestReload
    <2>1. owed' \in BOOLEAN
      BY <1>4 DEF TestReload
    <2>2. QED
      BY <1>4, <2>1 DEF TestReload
  <1>5. CASE ClearReload
    BY <1>5 DEF ClearReload
  <1>6. CASE AutoStop
    BY <1>6 DEF AutoStop, StopDue
  <1>7. QED
    BY <1>1, <1>2, <1>3, <1>4, <1>5, <1>6 DEF SigMainStep

LEMMA NextIInv == IInv /\ [SigNext]_sigVars => IInv'
  <1> SUFFICES ASSUME IInv, [SigNext]_sigVars PROVE IInv'
    OBVIOUS
  <1>1. CASE UNCHANGED sigVars
    BY <1>1 DEF IInv, Typed, Accounted, IsPending, LoopGoesOn, TickIsDue, AllInstalled,
                NoSpuriousReload, StopsWithinATick, sigVars, flags, history
  <1>2. CASE SigNext
    BY <1>2, SendIInv, KillIInv, HandlersIInv, MainStepIInv DEF SigNext
  <1>3. QED
    BY <1>1, <1>2

LEMMA InvariantHolds == SigSpec => []IInv
  BY InitIInv, NextIInv, PTL DEF SigSpec

------------------------------------------------------------------------------
\* No reload that no SIGHUP asked for and none twice for one; the counter main
\* prints is what handler_sigusr1 counted, and no more signals are handled than
\* were sent, whatever pending signals absorbed.
THEOREM FlagsFollow == SigSpec => []FlagsFollowHandlers
  <1>1. IInv => FlagsFollowHandlers
    <2>1. IInv => usr1s + hups <= sent /\ sig_count \in 0 .. MaxSent
      BY SignalsAssumption DEF IInv, Typed, Accounted, IsPending
    <2>2. QED
      BY <2>1 DEF IInv, Typed, Accounted, FlagsFollowHandlers, SigTypeOK, CountsHandled
  <1>2. QED
    BY <1>1, InvariantHolds, PTL

\* After running is cleared, by SIGINT or by the loop itself, main ticks at most
\* once more, wherever in the iteration the handler ran.
THEOREM StopIsPrompt == SigSpec => []StopsWithinATick
  <1>1. IInv => StopsWithinATick
    BY DEF IInv
  <1>2. QED
    BY <1>1, InvariantHolds, PTL
=============================================================================
