---------------------------- MODULE MCComponents -----------------------------
(* The components that one caller drives, side by side: `prog` says which of *)
(* them this behaviour runs, the others keep a fixed initial state.          *)
EXTENDS Queue, Stack, SensorMachine, Periph, ArrayLoops, Arithmetic,
        LinkedList, BinaryTree, SensorHeap

CONSTANTS a, b, p1, p2, p3, p4
MCWord == {a, b}
MCDataByte == {1, 2}
MCChar == {1, 2}
MCListNode == {p1, p2, p3}
MCTreeNode == {p1, p2, p3, p4}
MCTreeKey == 1 .. 4

VARIABLE prog

\* The states a component that does not run is pinned to.
QueuePinned  == data = [k \in 0 .. QUEUE_SIZE - 1 |-> a]
StackPinned  == s = [data |-> [k \in 0 .. STACK_SIZE - 1 |-> a], top |-> -1]
ArrayPinned  == /\ fn = "my_memset" /\ n = 0
                /\ dst = [k \in Cell |-> 0] /\ src = dst
AdcPinned    == adc_raw = NotYet

MCInit ==
    /\ prog \in {"queue", "stack", "machine", "periph", "arrays", "arithmetic",
                 "list", "tree", "sensor"}
    /\ prog = "queue"      \/ QueuePinned
    /\ prog = "stack"      \/ StackPinned
    /\ prog = "arrays"     \/ ArrayPinned
    /\ prog = "arithmetic" \/ AdcPinned
    /\ Init /\ stack_init /\ sm_init /\ PeriphInit /\ ArrayInit /\ ArithmeticInit
    /\ ListInit /\ TreeInit /\ SensorInit

MCNext ==
    /\ UNCHANGED prog
    /\ \/ /\ prog = "queue" /\ Next
          /\ UNCHANGED <<stackVars, smVars, periphVars, arrayVars, arithmeticVars,
                        listVars, treeVars, sensorVars>>
       \/ /\ prog = "stack" /\ StackNext
          /\ UNCHANGED <<vars, smVars, periphVars, arrayVars, arithmeticVars,
                        listVars, treeVars, sensorVars>>
       \/ /\ prog = "machine" /\ SmNext
          /\ UNCHANGED <<vars, stackVars, periphVars, arrayVars, arithmeticVars,
                        listVars, treeVars, sensorVars>>
       \/ /\ prog = "periph" /\ PeriphNext
          /\ UNCHANGED <<vars, stackVars, smVars, arrayVars, arithmeticVars,
                        listVars, treeVars, sensorVars>>
       \/ /\ prog = "arrays" /\ LoopStep
          /\ UNCHANGED <<vars, stackVars, smVars, periphVars, arithmeticVars,
                        listVars, treeVars, sensorVars>>
       \/ /\ prog = "arithmetic" /\ ArithmeticNext
          /\ UNCHANGED <<vars, stackVars, smVars, periphVars, arrayVars,
                        listVars, treeVars, sensorVars>>
       \/ /\ prog = "list" /\ ListNext
          /\ UNCHANGED <<vars, stackVars, smVars, periphVars, arrayVars,
                        arithmeticVars, treeVars, sensorVars>>
       \/ /\ prog = "tree" /\ TreeNext
          /\ UNCHANGED <<vars, stackVars, smVars, periphVars, arrayVars,
                        arithmeticVars, listVars, sensorVars>>
       \/ /\ prog = "sensor" /\ SensorNext
          /\ UNCHANGED <<vars, stackVars, smVars, periphVars, arrayVars,
                        arithmeticVars, listVars, treeVars>>

MCSpec ==
    /\ MCInit
    /\ [][MCNext]_<<prog, vars, stackVars, smVars, periphVars, arrayVars,
                    arithmeticVars, listVars, treeVars, sensorVars>>
    /\ PeriphFairness /\ ListFairness /\ TreeFairness
    /\ WF_arrayVars(prog = "arrays" /\ LoopStep)

------------------------------------------------------------------------------
\* The type invariants of the components that have no other place for theirs.
MCTypes == TypeOK /\ StackTypeOK /\ PeriphTypeOK

\* The heap of the list, the tree and the sensor: nothing is used after it is
\* freed, nothing is left when its owner has none, nothing unset is printed.
HeapSafe == ListUsesLive /\ FreeInOrder /\ BlocksFollowPointer /\ PrintsOnlySet

\* Every call that loops or waits returns: the poll of the peripheral, the walks
\* of the list, the recursion of the tree, and the loops over arrays and strings
\* where they are what runs.
AllCallsReturn == /\ CallsReturn /\ ListCallsReturn /\ TreeCallsReturn
                  /\ prog = "arrays" => LoopsEnd
==============================================================================
