---------------------------- MODULE ThreadsMutex -----------------------------
(* module5 ex05: main creates and joins two threads that increment a counter *)
(* without a lock, then two that increment another under a mutex, and then   *)
(* destroys the mutex. x++ is the load and the store it compiles to.         *)
EXTENDS Naturals, Sequences

CONSTANT ITERATIONS     \* #define ITERATIONS

ASSUME IterationsAssumption == ITERATIONS \in Nat \ {0}

Unsafe == {"t1", "t2"}
Safe   == {"t3", "t4"}
Thread == Unsafe \cup Safe

VARIABLES counter_unsafe, counter_safe,
          mtx,      \* "free", the thread that holds it, or "destroyed"
          pc,       \* where each thread is in its loop
          i,        \* iterations each thread has finished
          reg,      \* the register of its increment
          main      \* how many of main's calls have returned

vars == <<counter_unsafe, counter_safe, mtx, pc, i, reg, main>>

\* Mutant: t4 is not joined before the mutex is destroyed.
mainCallsNoJoin == << <<"create", "t1">>, <<"create", "t2">>, <<"join", "t1">>,
                      <<"join", "t2">>, <<"create", "t3">>, <<"create", "t4">>,
                      <<"join", "t3">>, <<"destroy", "mtx">> >>

mainCalls == << <<"create", "t1">>, <<"create", "t2">>,
                <<"join", "t1">>, <<"join", "t2">>,
                <<"create", "t3">>, <<"create", "t4">>,
                <<"join", "t3">>, <<"join", "t4">>, <<"destroy", "mtx">> >>

Init == /\ counter_unsafe = 0 /\ counter_safe = 0
        /\ mtx = "free"
        /\ pc = [t \in Thread |-> "new"]
        /\ i = [t \in Thread |-> 0]
        /\ reg = [t \in Thread |-> 0]
        /\ main = 0

Calls(call, t) == /\ main < Len(mainCalls)
                  /\ mainCalls[main + 1] = <<call, t>>
                  /\ main' = main + 1

Create(t) == /\ Calls("create", t)
             /\ pc' = [pc EXCEPT ![t] = "test"]
             /\ UNCHANGED <<counter_unsafe, counter_safe, mtx, i, reg>>

Join(t) == /\ Calls("join", t)
           /\ pc[t] = "done"
           /\ UNCHANGED <<counter_unsafe, counter_safe, mtx, pc, i, reg>>

Destroy == /\ Calls("destroy", "mtx")
           /\ mtx' = "destroyed"
           /\ UNCHANGED <<counter_unsafe, counter_safe, pc, i, reg>>

Goto(t, l) == pc' = [pc EXCEPT ![t] = l]

\* Mutant: for (i <= ITERATIONS).
TestOneMore(t) == /\ pc[t] = "test"
                  /\ Goto(t, IF i[t] > ITERATIONS THEN "done"
                             ELSE IF t \in Safe THEN "lock" ELSE "load")
                  /\ UNCHANGED <<counter_unsafe, counter_safe, mtx, i, reg, main>>

\* for (i < ITERATIONS), to the first step of the body.
Test(t) == /\ pc[t] = "test"
           /\ Goto(t, IF i[t] = ITERATIONS THEN "done"
                      ELSE IF t \in Safe THEN "lock" ELSE "load")
           /\ UNCHANGED <<counter_unsafe, counter_safe, mtx, i, reg, main>>

\* Mutant: the lock is taken without looking.
LockAnyway(t) == /\ pc[t] = "lock"
                 /\ mtx' = t
                 /\ Goto(t, "load")
                 /\ UNCHANGED <<counter_unsafe, counter_safe, i, reg, main>>

Lock(t) == /\ pc[t] = "lock"
           /\ mtx = "free"
           /\ mtx' = t
           /\ Goto(t, "load")
           /\ UNCHANGED <<counter_unsafe, counter_safe, i, reg, main>>

Load(t) == /\ pc[t] = "load"
           /\ reg' = [reg EXCEPT ![t] = IF t \in Safe THEN counter_safe ELSE counter_unsafe]
           /\ Goto(t, "store")
           /\ UNCHANGED <<counter_unsafe, counter_safe, mtx, i, main>>

StoreUnsafe(t) == /\ pc[t] = "store" /\ t \in Unsafe
                  /\ counter_unsafe' = reg[t] + 1
                  /\ i' = [i EXCEPT ![t] = @ + 1]
                  /\ Goto(t, "test")
                  /\ UNCHANGED <<counter_safe, mtx, reg, main>>

StoreSafe(t) == /\ pc[t] = "store" /\ t \in Safe
                /\ counter_safe' = reg[t] + 1
                /\ Goto(t, "unlock")
                /\ UNCHANGED <<counter_unsafe, mtx, i, reg, main>>

\* Mutant: the mutex stays locked.
UnlockForgotten(t) == /\ pc[t] = "unlock"
                      /\ i' = [i EXCEPT ![t] = @ + 1]
                      /\ Goto(t, "test")
                      /\ UNCHANGED <<counter_unsafe, counter_safe, mtx, reg, main>>

Unlock(t) == /\ pc[t] = "unlock"
             /\ mtx' = "free"
             /\ i' = [i EXCEPT ![t] = @ + 1]
             /\ Goto(t, "test")
             /\ UNCHANGED <<counter_unsafe, counter_safe, reg, main>>

ThreadStep(t) == \/ Test(t) \/ Lock(t) \/ Load(t)
                 \/ StoreUnsafe(t) \/ StoreSafe(t) \/ Unlock(t)

MainStep == (\E t \in Thread : Create(t) \/ Join(t)) \/ Destroy

Next == MainStep \/ \E t \in Thread : ThreadStep(t)

Spec == /\ Init /\ [][Next]_vars
        /\ WF_vars(MainStep)
        /\ \A t \in Thread : WF_vars(ThreadStep(t))

------------------------------------------------------------------------------
\* Type invariant.
TypeOK ==
    /\ counter_unsafe \in Nat /\ counter_safe \in Nat
    /\ mtx \in Safe \cup {"free", "destroyed"}
    /\ pc \in [Thread -> {"new", "test", "lock", "load", "store", "unlock", "done"}]
    /\ i \in [Thread -> 0 .. ITERATIONS]
    /\ reg \in [Thread -> Nat]
    /\ main \in 0 .. Len(mainCalls)

InSection(t) == pc[t] \in {"load", "store", "unlock"}

\* thread_safe increments only while it holds the mutex, so never two at once.
MutualExclusion == \A t \in Safe : InSection(t) => mtx = t

\* "protected - always correct": once main has joined t4 the counter is exact.
SafeExact == main >= 8 => counter_safe = 2 * ITERATIONS

\* The race loses updates but never gains any, and cannot lose them all: with two
\* iterations or more each, the result main prints is between 2 and twice
\* ITERATIONS, and 2 is possible.
RaceBounds ==
    main >= 4 => /\ counter_unsafe <= 2 * ITERATIONS
                 /\ counter_unsafe >= (IF ITERATIONS = 1 THEN 1 ELSE 2)

\* The mutex is destroyed when no thread can use it any more.
DestroyedUnused == mtx = "destroyed" => \A t \in Safe : pc[t] = "done"

\* Every join returns and main comes to its end.
Terminates == <>(main = Len(mainCalls))
==============================================================================
