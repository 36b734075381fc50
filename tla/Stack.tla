-------------------------------- MODULE Stack --------------------------------
(* The fixed-size stack of module4 ex01: an array and the index of its top,  *)
(* -1 when empty.                                                            *)
EXTENDS Integers, Sequences

CONSTANTS
    Item,           \* what a uint32_t element may hold
    STACK_SIZE,     \* #define STACK_SIZE
    NoItem          \* the caller's *value left as it was

ASSUME StackAssumption == STACK_SIZE \in Nat \ {0} /\ NoItem \notin Item

VARIABLES s,        \* the stack_t: data and top
          ret       \* what the last call returned

stackVars == <<s, ret>>

Answer(op, ok, item) == [op |-> op, ok |-> ok, item |-> item]

\* stack_init leaves data[] as main's frame had it.
stack_init == /\ s \in [data : [0 .. STACK_SIZE - 1 -> Item], top : {-1}]
              /\ ret = Answer("init", TRUE, NoItem)

stack_is_empty == s.top = -1
\* Mutant: full one slot too late.
IsFullLate     == s.top = STACK_SIZE
stack_is_full  == s.top = STACK_SIZE - 1

stack_push(x) ==
    IF stack_is_full
    THEN UNCHANGED s /\ ret' = Answer("push", FALSE, NoItem)
    ELSE /\ s' = [data |-> [s.data EXCEPT ![s.top + 1] = x], top |-> s.top + 1]
         /\ ret' = Answer("push", TRUE, x)

\* Mutant: s->data[--s->top] for s->data[s->top--].
PopPredecrement ==
    IF stack_is_empty
    THEN UNCHANGED s /\ ret' = Answer("pop", FALSE, NoItem)
    ELSE /\ s' = [s EXCEPT !.top = @ - 1]
         /\ ret' = Answer("pop", TRUE, s.data[IF s.top = 0 THEN 0 ELSE s.top - 1])

stack_pop ==
    IF stack_is_empty
    THEN UNCHANGED s /\ ret' = Answer("pop", FALSE, NoItem)
    ELSE /\ s' = [s EXCEPT !.top = @ - 1]
         /\ ret' = Answer("pop", TRUE, s.data[s.top])

stack_peek == /\ ret' = IF stack_is_empty THEN Answer("peek", FALSE, NoItem)
                                          ELSE Answer("peek", TRUE, s.data[s.top])
              /\ UNCHANGED s

StackNext == (\E x \in Item : stack_push(x)) \/ stack_pop \/ stack_peek

StackSpec == stack_init /\ [][StackNext]_stackVars

------------------------------------------------------------------------------
\* Type invariant: top stays inside the array or just before it, so no call
\* touches memory outside data[].
StackTypeOK == /\ s \in [data : [0 .. STACK_SIZE - 1 -> Item], top : -1 .. STACK_SIZE - 1]
               /\ ret.item \in Item \cup {NoItem}

\* The items from bottom to top.
StackItems == [i \in 1 .. s.top + 1 |-> s.data[i - 1]]

Lifo == INSTANCE BoundedLifo WITH lifo <- StackItems, Depth <- STACK_SIZE

\* Every call behaves as the bounded stack's, although data[] starts
\* indeterminate and popped items stay in it above top.
ImplementsLifo == Lifo!Spec
==============================================================================
