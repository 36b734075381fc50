------------------------- MODULE ThreadsMutex_proofs -------------------------
(* The counters of module5 ex05 for any number of iterations.               *)
EXTENDS ThreadsMutex, TLAPS

\* Where main is tells which threads exist and which have ended.
MainOrder == /\ main <= 0 => pc["t1"] = "new"
             /\ main <= 1 => pc["t2"] = "new"
             /\ main <= 4 => pc["t3"] = "new"
             /\ main <= 5 => pc["t4"] = "new"
             /\ main >= 3 => pc["t1"] = "done"
             /\ main >= 4 => pc["t2"] = "done"
             /\ main >= 7 => pc["t3"] = "done"
             /\ main >= 8 => pc["t4"] = "done"
             /\ mtx = "destroyed" <=> main = 9

\* A thread leaves its loop with all its iterations and not before.
LoopCount == \A t \in Thread :
                /\ pc[t] = "done" => i[t] = ITERATIONS
                /\ pc[t] \in {"lock", "load", "store", "unlock"} => i[t] < ITERATIONS

\* The mutex and the section: held by a thread inside, lock and unlock for t3, t4.
Held == /\ mtx \in Safe => InSection(mtx)
        /\ \A t \in Unsafe : pc[t] \notin {"lock", "unlock"}

\* The locked counter is the iterations done, one more between store and unlock.
Done(t) == i[t] + (IF pc[t] = "unlock" THEN 1 ELSE 0)
Counted == /\ counter_safe = Done("t3") + Done("t4")
           /\ \A t \in Safe : pc[t] = "store" => reg[t] = counter_safe

\* The raced counter: no more than the iterations done, and once a thread has
\* stored, every later load sees at least 1.
Raced == /\ counter_unsafe <= i["t1"] + i["t2"]
         /\ i["t1"] + i["t2"] >= 1 => counter_unsafe >= 1
         /\ \A t \in Unsafe : pc[t] = "store" =>
               /\ reg[t] <= i["t1"] + i["t2"]
               /\ i[t] >= 1 => reg[t] >= 1
         /\ i["t1"] = ITERATIONS /\ i["t2"] = ITERATIONS /\ ITERATIONS >= 2
               => counter_unsafe >= 2

IInv == /\ TypeOK /\ MainOrder /\ LoopCount
        /\ MutualExclusion /\ Held /\ Counted /\ Raced

\* main's calls in order: the call being made tells how many came before.
LEMMA CallOrder ==
    ASSUME TypeOK
    PROVE  /\ Len(mainCalls) = 9
           /\ Calls("create", "t1") => main = 0
           /\ Calls("create", "t2") => main = 1
           /\ Calls("join", "t1") => main = 2
           /\ Calls("join", "t2") => main = 3
           /\ Calls("create", "t3") => main = 4
           /\ Calls("create", "t4") => main = 5
           /\ Calls("join", "t3") => main = 6
           /\ Calls("join", "t4") => main = 7
           /\ Calls("destroy", "mtx") => main = 8
  BY DEF TypeOK, Calls, mainCalls

LEMMA InitIInv == Init => IInv
  BY IterationsAssumption, CallOrder
     DEF Init, IInv, TypeOK, MainOrder, LoopCount, MutualExclusion, Held, InSection,
         Counted, Done, Raced, Thread, Safe, Unsafe, mainCalls

LEMMA CreatePreserves ==
    ASSUME IInv, NEW t \in Thread, Create(t)
    PROVE  IInv'
<1>1. /\ t = "t1" => main = 0
      /\ t = "t2" => main = 1
      /\ t = "t3" => main = 4
      /\ t = "t4" => main = 5
      /\ main' = main + 1 /\ Len(mainCalls) = 9
  BY CallOrder DEF Create, Calls, IInv
<1>2. pc[t] = "new"
  BY <1>1 DEF IInv, MainOrder, Thread, Safe, Unsafe
<1>3. TypeOK' /\ MainOrder'
  BY <1>1, <1>2 DEF IInv, TypeOK, MainOrder, Create, Thread, Safe, Unsafe
<1>4. LoopCount' /\ MutualExclusion' /\ Held'
  BY <1>2 DEF IInv, TypeOK, LoopCount, MutualExclusion, Held, InSection, Create,
              Thread, Safe, Unsafe
<1>5. Counted' /\ Raced'
  BY <1>2 DEF IInv, TypeOK, Counted, Done, Raced, Create, Thread, Safe, Unsafe
<1> QED
  BY <1>3, <1>4, <1>5 DEF IInv

LEMMA JoinPreserves ==
    ASSUME IInv, NEW t \in Thread, Join(t)
    PROVE  IInv'
<1>1. /\ t = "t1" => main = 2
      /\ t = "t2" => main = 3
      /\ t = "t3" => main = 6
      /\ t = "t4" => main = 7
      /\ main' = main + 1 /\ Len(mainCalls) = 9
  BY CallOrder DEF Join, Calls, IInv
<1>2. TypeOK' /\ MainOrder'
  BY <1>1 DEF IInv, TypeOK, MainOrder, Join, Thread, Safe, Unsafe
<1>3. LoopCount' /\ MutualExclusion' /\ Held' /\ Counted' /\ Raced'
  BY DEF IInv, LoopCount, MutualExclusion, Held, InSection, Counted, Done, Raced, Join
<1> QED
  BY <1>2, <1>3 DEF IInv

LEMMA DestroyPreserves ==
    ASSUME IInv, Destroy
    PROVE  IInv'
<1>1. main = 8 /\ main' = 9 /\ Len(mainCalls) = 9
  BY CallOrder DEF Destroy, Calls, IInv
<1>2. \A t \in Safe : pc[t] = "done"
  BY <1>1 DEF IInv, MainOrder, Safe
<1>3. TypeOK' /\ MainOrder'
  BY <1>1 DEF IInv, TypeOK, MainOrder, Destroy
<1>4. LoopCount' /\ MutualExclusion' /\ Held' /\ Counted' /\ Raced'
  BY <1>2 DEF IInv, LoopCount, MutualExclusion, Held, InSection, Counted, Done, Raced,
              Destroy, Safe
<1> QED
  BY <1>3, <1>4 DEF IInv

\* A thread that steps has been created and not joined, and main stands still.
LEMMA ThreadStepOrder ==
    ASSUME IInv, NEW t \in Thread, pc[t] \notin {"new", "done"},
           NEW l, l # "new", pc' = [pc EXCEPT ![t] = l], main' = main,
           mtx' = "destroyed" <=> mtx = "destroyed"
    PROVE  MainOrder'
  BY DEF IInv, TypeOK, MainOrder, Thread, Safe, Unsafe

LEMMA TestPreserves ==
    ASSUME IInv, NEW t \in Thread, Test(t)
    PROVE  IInv'
<1>1. TypeOK'
  BY DEF IInv, TypeOK, Test, Goto
<1>2. MainOrder'
  BY ThreadStepOrder DEF Test, Goto
<1>3. LoopCount'
  <2>1. i[t] # ITERATIONS => i[t] < ITERATIONS
    BY IterationsAssumption DEF IInv, TypeOK
  <2>2. ASSUME NEW u \in Thread
        PROVE  /\ pc'[u] = "done" => i'[u] = ITERATIONS
               /\ pc'[u] \in {"lock", "load", "store", "unlock"} => i'[u] < ITERATIONS
    BY <2>1 DEF IInv, TypeOK, LoopCount, Test, Goto
  <2> QED
    BY <2>2 DEF LoopCount
<1>4. MutualExclusion' /\ Held'
  BY DEF IInv, TypeOK, MutualExclusion, Held, InSection, Test, Goto, Thread, Safe, Unsafe
<1>5. Counted' /\ Raced'
  BY DEF IInv, TypeOK, Counted, Done, Raced, Test, Goto, Thread, Safe, Unsafe
<1> QED
  BY <1>1, <1>2, <1>3, <1>4, <1>5 DEF IInv

LEMMA LockPreserves ==
    ASSUME IInv, NEW t \in Thread, Lock(t)
    PROVE  IInv'
<1>1. t \in Safe
  BY DEF Lock, IInv, Held, Thread
<1>2. TypeOK'
  BY <1>1 DEF IInv, TypeOK, Lock, Goto
<1>3. MainOrder'
  BY <1>1, ThreadStepOrder DEF Lock, Goto, Safe
<1>4. LoopCount'
  BY DEF IInv, TypeOK, LoopCount, Lock, Goto
<1>5. MutualExclusion' /\ Held'
  BY <1>1 DEF IInv, TypeOK, MutualExclusion, Held, InSection, Lock, Goto, Thread, Safe, Unsafe
<1>6. Counted' /\ Raced'
  BY <1>1 DEF IInv, TypeOK, Counted, Done, Raced, Lock, Goto, Thread, Safe, Unsafe
<1> QED
  BY <1>2, <1>3, <1>4, <1>5, <1>6 DEF IInv

LEMMA LoadPreserves ==
    ASSUME IInv, NEW t \in Thread, Load(t)
    PROVE  IInv'
<1>1. TypeOK'
  BY DEF IInv, TypeOK, Load, Goto
<1>2. MainOrder'
  BY ThreadStepOrder DEF Load, Goto
<1>3. LoopCount'
  BY DEF IInv, TypeOK, LoopCount, Load, Goto
<1>4. MutualExclusion' /\ Held'
  BY DEF IInv, TypeOK, MutualExclusion, Held, InSection, Load, Goto, Thread, Safe, Unsafe
<1>5. Counted'
  BY DEF IInv, TypeOK, Counted, Done, Load, Goto, Thread, Safe, Unsafe
<1>6. Raced'
  BY DEF IInv, TypeOK, Raced, Load, Goto, Thread, Safe, Unsafe
<1> QED
  BY <1>1, <1>2, <1>3, <1>4, <1>5, <1>6 DEF IInv

LEMMA StoreUnsafePreserves ==
    ASSUME IInv, NEW t \in Thread, StoreUnsafe(t)
    PROVE  IInv'
<1>1. i[t] < ITERATIONS
  BY DEF IInv, LoopCount, StoreUnsafe
<1>2. TypeOK'
  BY <1>1, IterationsAssumption DEF IInv, TypeOK, StoreUnsafe, Goto
<1>3. MainOrder'
  BY ThreadStepOrder DEF StoreUnsafe, Goto
<1>4. LoopCount'
  BY DEF IInv, TypeOK, LoopCount, StoreUnsafe, Goto
<1>5. MutualExclusion' /\ Held'
  BY DEF IInv, TypeOK, MutualExclusion, Held, InSection, StoreUnsafe, Goto, Thread, Safe, Unsafe
<1>6. Counted'
  BY DEF IInv, TypeOK, Counted, Done, StoreUnsafe, Goto, Thread, Safe, Unsafe
<1>7. Raced'
  <2> DEFINE Sum == i["t1"] + i["t2"]
  <2>1. /\ i \in [Thread -> Nat] /\ counter_unsafe \in Nat /\ reg \in [Thread -> Nat]
        /\ reg[t] <= Sum /\ (i[t] >= 1 => reg[t] >= 1)
        /\ counter_unsafe' = reg[t] + 1 /\ i' = [i EXCEPT ![t] = @ + 1]
        /\ reg' = reg /\ pc' = [pc EXCEPT ![t] = "test"] /\ t \in Unsafe
    BY DEF IInv, TypeOK, Raced, StoreUnsafe, Goto
  <2>2. i'["t1"] + i'["t2"] = Sum + 1 /\ i'[t] = i[t] + 1
    BY <2>1 DEF Thread, Unsafe
  <2>3. counter_unsafe' <= i'["t1"] + i'["t2"] /\ counter_unsafe' >= 1
    BY <2>1, <2>2 DEF Thread, Unsafe
  <2>4. ASSUME NEW u \in Unsafe, pc'[u] = "store"
        PROVE  reg'[u] <= i'["t1"] + i'["t2"] /\ (i'[u] >= 1 => reg'[u] >= 1)
    <3>1. u # t /\ pc[u] = "store" /\ i'[u] = i[u]
      BY <2>1, <2>4 DEF IInv, TypeOK, Thread
    <3>2. reg[u] <= Sum /\ (i[u] >= 1 => reg[u] >= 1)
      BY <2>4, <3>1 DEF IInv, Raced
    <3> QED
      BY <2>1, <2>2, <3>1, <3>2 DEF Thread, Unsafe
  <2>5. i'[t] = ITERATIONS /\ ITERATIONS >= 2 => counter_unsafe' >= 2
    BY <2>1, <2>2, IterationsAssumption
  <2> QED
    BY <2>1, <2>3, <2>4, <2>5 DEF Raced, Unsafe
<1> QED
  BY <1>2, <1>3, <1>4, <1>5, <1>6, <1>7 DEF IInv

LEMMA StoreSafePreserves ==
    ASSUME IInv, NEW t \in Thread, StoreSafe(t)
    PROVE  IInv'
<1>1. TypeOK'
  BY DEF IInv, TypeOK, StoreSafe, Goto
<1>2. MainOrder'
  BY ThreadStepOrder DEF StoreSafe, Goto
<1>3. LoopCount'
  BY DEF IInv, TypeOK, LoopCount, StoreSafe, Goto
<1>4. MutualExclusion' /\ Held'
  BY DEF IInv, TypeOK, MutualExclusion, Held, InSection, StoreSafe, Goto, Thread, Safe, Unsafe
<1>5. Counted'
  <2>1. \A u \in Safe : u # t => ~InSection(u)
    BY DEF IInv, MutualExclusion, InSection, StoreSafe
  <2> QED
    BY <2>1 DEF IInv, TypeOK, Counted, Done, InSection, StoreSafe, Goto, Thread, Safe, Unsafe
<1>6. Raced'
  BY DEF IInv, TypeOK, Raced, StoreSafe, Goto, Thread, Safe, Unsafe
<1> QED
  BY <1>1, <1>2, <1>3, <1>4, <1>5, <1>6 DEF IInv

LEMMA UnlockPreserves ==
    ASSUME IInv, NEW t \in Thread, Unlock(t)
    PROVE  IInv'
<1>1. t \in Safe /\ mtx = t /\ i[t] < ITERATIONS
  BY DEF IInv, Held, Thread, Unlock, MutualExclusion, InSection, LoopCount
<1>2. TypeOK'
  BY <1>1, IterationsAssumption DEF IInv, TypeOK, Unlock, Goto
<1>3. MainOrder'
  BY <1>1, ThreadStepOrder DEF Unlock, Goto, Safe
<1>4. LoopCount'
  BY DEF IInv, TypeOK, LoopCount, Unlock, Goto
<1>5. MutualExclusion' /\ Held'
  BY <1>1 DEF IInv, TypeOK, MutualExclusion, Held, InSection, Unlock, Goto, Thread, Safe, Unsafe
<1>6. Counted'
  BY <1>1 DEF IInv, TypeOK, Counted, Done, Unlock, Goto, Thread, Safe, Unsafe
<1>7. Raced'
  BY <1>1 DEF IInv, TypeOK, Raced, Unlock, Goto, Thread, Safe, Unsafe
<1> QED
  BY <1>2, <1>3, <1>4, <1>5, <1>6, <1>7 DEF IInv

LEMMA NextPreserves == IInv /\ [Next]_vars => IInv'
<1> SUFFICES ASSUME IInv, [Next]_vars PROVE IInv'
  OBVIOUS
<1>1. CASE MainStep
  BY <1>1, CreatePreserves, JoinPreserves, DestroyPreserves DEF MainStep
<1>2. CASE \E t \in Thread : ThreadStep(t)
  BY <1>2, TestPreserves, LockPreserves, LoadPreserves, StoreUnsafePreserves,
     StoreSafePreserves, UnlockPreserves DEF ThreadStep
<1>3. CASE UNCHANGED vars
  BY <1>3 DEF vars, IInv, TypeOK, MainOrder, LoopCount, MutualExclusion, Held,
              InSection, Counted, Done, Raced
<1> QED
  BY <1>1, <1>2, <1>3 DEF Next

LEMMA InvariantHolds == Spec => []IInv
  BY InitIInv, NextPreserves, PTL DEF Spec

\* The types of the counters, the mutex and both program counters.
THEOREM TypeCorrect == Spec => []TypeOK
<1>1. IInv => TypeOK
  BY DEF IInv
<1> QED
  BY <1>1, InvariantHolds, PTL

\* For any number of iterations, two threads are never both in the section that
\* increments counter_safe.
THEOREM SafeExcludes == Spec => []MutualExclusion
<1>1. IInv => MutualExclusion
  BY DEF IInv
<1> QED
  BY <1>1, InvariantHolds, PTL

\* For any number of iterations, what main prints after joining t3 and t4 is
\* exactly twice that number.
THEOREM SafeCounterExact == Spec => []SafeExact
<1>1. IInv => SafeExact
  BY IterationsAssumption DEF IInv, TypeOK, MainOrder, LoopCount, Counted, Done,
     SafeExact, Thread, Safe, Unsafe
<1> QED
  BY <1>1, InvariantHolds, PTL

\* For any number of iterations, the raced result is at most twice that number and
\* at least 2 (1 with a single iteration).
THEOREM RaceResultBounded == Spec => []RaceBounds
<1>1. IInv => RaceBounds
  BY IterationsAssumption DEF IInv, TypeOK, MainOrder, LoopCount, Raced, RaceBounds,
     Thread, Safe, Unsafe
<1> QED
  BY <1>1, InvariantHolds, PTL

\* The mutex is destroyed only when both threads that use it have ended.
THEOREM DestroyedWhenUnused == Spec => []DestroyedUnused
<1>1. IInv => DestroyedUnused
  BY DEF IInv, TypeOK, MainOrder, DestroyedUnused, Safe
<1> QED
  BY <1>1, InvariantHolds, PTL
==============================================================================
