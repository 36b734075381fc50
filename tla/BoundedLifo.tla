----------------------------- MODULE BoundedLifo -----------------------------
(* What a bounded stack promises its caller: at most Depth items, the last   *)
(* one in is the first one out, a push refused exactly when full and a pop   *)
(* or a peek exactly when empty.                                             *)
EXTENDS Integers, Sequences

CONSTANTS Item, Depth, NoItem

VARIABLES lifo, ret

Top == lifo[Len(lifo)]

Answer(op, ok, item) == [op |-> op, ok |-> ok, item |-> item]

Init == lifo = <<>> /\ ret = Answer("init", TRUE, NoItem)

Push(x) == IF Len(lifo) < Depth
           THEN lifo' = Append(lifo, x) /\ ret' = Answer("push", TRUE, x)
           ELSE UNCHANGED lifo /\ ret' = Answer("push", FALSE, NoItem)

Pop == IF lifo # <<>>
       THEN /\ lifo' = SubSeq(lifo, 1, Len(lifo) - 1)
            /\ ret' = Answer("pop", TRUE, Top)
       ELSE UNCHANGED lifo /\ ret' = Answer("pop", FALSE, NoItem)

Peek == /\ ret' = IF lifo # <<>> THEN Answer("peek", TRUE, Top)
                                 ELSE Answer("peek", FALSE, NoItem)
        /\ UNCHANGED lifo

Next == (\E x \in Item : Push(x)) \/ Pop \/ Peek

state == <<lifo, ret>>

Spec == Init /\ [][Next]_state
==============================================================================
