----------------------------- MODULE BoundedFifo -----------------------------
(* What a bounded FIFO promises its caller, whatever array and indices it is *)
(* kept in: at most Capacity values, taken out in the order they went in, a  *)
(* put refused exactly when full and a get or a peek exactly when empty.     *)
(* res is what the last call returned: its status and its out-parameter.     *)
EXTENDS Naturals, Sequences

CONSTANTS Value, Capacity, NoValue

VARIABLES fifo, res

Returned(op, v) == [op |-> op, ok |-> TRUE, value |-> v]
Refused(op)     == [op |-> op, ok |-> FALSE, value |-> NoValue]

Init == fifo = <<>> /\ res = Returned("init", NoValue)

Put(v) == /\ Len(fifo) < Capacity
          /\ fifo' = Append(fifo, v)
          /\ res' = Returned("put", v)

Get == /\ fifo # <<>>
       /\ fifo' = Tail(fifo)
       /\ res' = Returned("get", Head(fifo))

Peek == /\ fifo # <<>>
        /\ res' = Returned("peek", Head(fifo))
        /\ UNCHANGED fifo

RefusePut == /\ Len(fifo) = Capacity
             /\ res' = Refused("put")
             /\ UNCHANGED fifo

RefuseTake(op) == /\ fifo = <<>>
                  /\ res' = Refused(op)
                  /\ UNCHANGED fifo

Next == \/ \E v \in Value : Put(v)
        \/ Get \/ Peek
        \/ RefusePut
        \/ \E op \in {"get", "peek"} : RefuseTake(op)

state == <<fifo, res>>

Spec == Init /\ [][Next]_state
==============================================================================
