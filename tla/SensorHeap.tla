----------------------------- MODULE SensorHeap ------------------------------
(* The sensor of module2 ex05: two heap blocks made and given back together, *)
(* and the registers in the second, which malloc leaves as it finds it.      *)
EXTENDS Naturals, FiniteSets

CONSTANTS
    REG_COUNT,      \* the reg_count main passes, 3
    Unset           \* a register malloc left as it was

ASSUME SensorHeapAssumption == REG_COUNT \in Nat /\ Unset \notin Nat

VARIABLES blocks,       \* the heap blocks allocated: "sensor", "regs"
          dht11,        \* main's pointer: "NULL" or "sensor"
          regs,         \* s->regs: index -> what is there
          reg_calls,    \* how many registers main has added
          main_at,      \* where main is
          printed       \* history: what sensor_print read

sensorVars == <<blocks, dht11, regs, reg_calls, main_at, printed>>

RegIndex == 0 .. REG_COUNT - 1

SensorInit == /\ blocks = {} /\ dht11 = "NULL"
              /\ regs = <<>> /\ reg_calls = 0
              /\ main_at = "create" /\ printed = {}

\* sensor_create: the first malloc, then the second, which may fail alone.
CreateSensor == /\ main_at = "create"
                /\ \/ blocks' = {"sensor"} /\ main_at' = "create_regs"
                   \/ blocks' = blocks /\ main_at' = "returned"
                /\ UNCHANGED <<dht11, regs, reg_calls, printed>>

\* Mutant: the cleanup of a failed second malloc is left out.
CreateRegsLeaks ==
    /\ main_at = "create_regs"
    /\ \/ /\ blocks' = blocks \cup {"regs"}
          /\ regs' = [k \in RegIndex |-> Unset]
          /\ dht11' = "sensor" /\ main_at' = "add"
       \/ /\ main_at' = "returned"
          /\ UNCHANGED <<dht11, regs, blocks>>
    /\ UNCHANGED <<reg_calls, printed>>
CreateRegs ==
    /\ main_at = "create_regs"
    /\ \/ /\ blocks' = blocks \cup {"regs"}
          /\ regs' = [k \in RegIndex |-> Unset]
          /\ dht11' = "sensor" /\ main_at' = "add"
       \/ /\ blocks' = blocks \ {"sensor"}
          /\ main_at' = "returned"
          /\ UNCHANGED <<dht11, regs>>
    /\ UNCHANGED <<reg_calls, printed>>

\* Mutant: the test of idx refuses the last register.
AddRefusesLast(idx) == regs' = IF idx + 1 < REG_COUNT THEN [regs EXCEPT ![idx] = idx] ELSE regs
\* The register is identified by the address main gives it, its index.
sensor_add_reg(idx) == regs' = IF idx < REG_COUNT THEN [regs EXCEPT ![idx] = idx] ELSE regs

AddNext == /\ main_at = "add" /\ reg_calls < 3
           /\ sensor_add_reg(reg_calls)
           /\ reg_calls' = reg_calls + 1
           /\ UNCHANGED <<blocks, dht11, main_at, printed>>

sensor_print == /\ main_at = "add" /\ reg_calls = 3
                /\ printed' = {regs[k] : k \in RegIndex}
                /\ main_at' = "destroy"
                /\ UNCHANGED <<blocks, dht11, regs, reg_calls>>

\* sensor_destroy frees the registers first, through the sensor.
DestroyRegs == /\ main_at = "destroy" /\ "sensor" \in blocks
               /\ blocks' = blocks \ {"regs"} /\ regs' = <<>>
               /\ main_at' = "destroy_sensor"
               /\ UNCHANGED <<dht11, reg_calls, printed>>
DestroySensor == /\ main_at = "destroy_sensor"
                 /\ blocks' = blocks \ {"sensor"} /\ dht11' = "NULL"
                 /\ main_at' = "returned"
                 /\ UNCHANGED <<regs, reg_calls, printed>>

SensorNext == \/ CreateSensor \/ CreateRegs \/ AddNext \/ sensor_print
              \/ DestroyRegs \/ DestroySensor
SensorSpec == SensorInit /\ [][SensorNext]_sensorVars

------------------------------------------------------------------------------
\* The heap belongs to the pointer main has: both blocks while it is not NULL,
\* none once main has returned, whichever malloc failed.
BlocksFollowPointer ==
    /\ main_at \in {"add", "destroy"} => dht11 = "sensor" /\ blocks = {"sensor", "regs"}
    /\ main_at = "returned" => dht11 = "NULL" /\ blocks = {}

\* sensor_print reads every register up to reg_count, set or not; main has set
\* each one to its own address before, and wrote none outside the block.
PrintsOnlySet == /\ Unset \notin printed
                 /\ DOMAIN regs \subseteq RegIndex
                 /\ main_at = "destroy" => printed = RegIndex
==============================================================================
