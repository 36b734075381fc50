------------------------------ MODULE LineScan -------------------------------
(* The line-by-line readers of /proc and /sys in module5: read_proc_meminfo, *)
(* read_proc_cpuinfo and read_proc_self of ex02, list_sys_dir of ex03 and    *)
(* read_mem_info of ex06. A line is what the reader tells apart; a value is  *)
(* the number of the line that held it.                                      *)
EXTENDS Integers, Sequences, FiniteSetsExt

CONSTANTS FILE_MAX, \* bound: the lines of a file
          NotSet    \* a mem_info_t field nobody has written

ASSUME LineScanAssumption == FILE_MAX \in Nat /\ NotSet \notin 0 .. FILE_MAX

VARIABLES scan,     \* the function called
          scan_at,  \* "open", "loop", "close" or "done"
          is_open,  \* whether fp or dir is open
          lines,    \* history: the lines read
          at_end,   \* history: whether the end was read
          taken,    \* lines printed, or keys found
          shown,    \* the numbers of the lines printed
          mem,      \* the mem_info_t
          answer    \* what read_mem_info returned

scanVars == <<scan, scan_at, is_open, lines, at_end, taken, shown, mem, answer>>

Keys == {"MemTotal", "MemFree", "MemAvailable"}
Heads == {"read_proc_meminfo", "read_proc_self"}
Scans == Heads \cup {"read_proc_cpuinfo", "list_sys_dir", "read_mem_info"}

\* A key stands in /proc/meminfo at most once.
LinesOf(f) == CASE f \in Heads             -> {"other"}
                [] f = "read_proc_cpuinfo" -> {"model name", "other"}
                [] f = "list_sys_dir"      -> {"dot", "other"}
                [] OTHER -> {"other"} \cup (Keys \ {lines[k] : k \in DOMAIN lines})

ScanInit == /\ scan \in Scans /\ scan_at = "open" /\ is_open = FALSE
            /\ lines = <<>> /\ at_end = FALSE /\ taken = 0 /\ shown = <<>>
            /\ mem = [k \in Keys |-> NotSet] /\ answer = 1

\* read_mem_info clears its result only once the file is open.
ScanOpen == /\ scan_at = "open"
            /\ \/ /\ is_open' = TRUE /\ scan_at' = "loop"
                  /\ mem' = IF scan = "read_mem_info" THEN [k \in Keys |-> 0] ELSE mem
                  /\ UNCHANGED answer
               \/ scan_at' = "done" /\ answer' = -1 /\ UNCHANGED <<is_open, mem>>
            /\ UNCHANGED <<scan, lines, at_end, taken, shown>>

\* Mutant: one line or key fewer or more than the loops' conditions say.
LimitOff(f) == CASE f = "read_proc_meminfo" -> 6 [] f = "read_proc_self" -> 9
                 [] f = "read_mem_info" -> 2 [] OTHER -> FILE_MAX
\* Where the loops stop on count or found; the others have no such test.
Limit(f) == CASE f = "read_proc_meminfo" -> 5 [] f = "read_proc_self" -> 8
              [] f = "read_mem_info" -> 3 [] OTHER -> FILE_MAX

Show(k) == shown' = Append(shown, k) /\ taken' = taken + 1 /\ UNCHANGED mem
Pass    == UNCHANGED <<shown, taken, mem>>

\* Mutant: return where the loop has break.
CpuinfoReturns(l, k) == IF l = "model name" THEN Show(k) /\ scan_at' = "done"
                                            ELSE Pass /\ UNCHANGED scan_at
\* The first model name is printed and ends the loop.
read_proc_cpuinfo(l, k) == IF l = "model name" THEN Show(k) /\ scan_at' = "close"
                                               ELSE Pass /\ UNCHANGED scan_at

read_proc_meminfo(k) == Show(k) /\ UNCHANGED scan_at
read_proc_self(k)    == Show(k) /\ UNCHANGED scan_at

\* . and .. are skipped, and so is every other name with a dot first.
list_sys_dir(l, k) == UNCHANGED scan_at /\ IF l = "dot" THEN Pass ELSE Show(k)

read_mem_info(l, k) == /\ IF l \in Keys THEN mem' = [mem EXCEPT ![l] = k] /\ taken' = taken + 1
                                        ELSE UNCHANGED <<mem, taken>>
                       /\ UNCHANGED <<shown, scan_at>>

\* A line is read before the limit is looked at.
ScanLine == /\ scan_at = "loop" /\ Len(lines) < FILE_MAX
            /\ \E l \in LinesOf(scan) :
                 LET k == Len(lines) + 1 IN
                 /\ lines' = Append(lines, l)
                 /\ IF taken >= Limit(scan) THEN scan_at' = "close" /\ Pass
                    ELSE CASE scan = "read_proc_cpuinfo" -> read_proc_cpuinfo(l, k)
                           [] scan = "read_proc_meminfo" -> read_proc_meminfo(k)
                           [] scan = "read_proc_self"    -> read_proc_self(k)
                           [] scan = "list_sys_dir"      -> list_sys_dir(l, k)
                           [] scan = "read_mem_info"     -> read_mem_info(l, k)
            /\ UNCHANGED <<scan, is_open, at_end, answer>>

ScanEnd == /\ scan_at = "loop"
           /\ at_end' = TRUE /\ scan_at' = "close"
           /\ UNCHANGED <<scan, is_open, lines, taken, shown, mem, answer>>

ScanClose == /\ scan_at = "close"
             /\ is_open' = FALSE /\ scan_at' = "done"
             /\ answer' = IF taken = 3 THEN 0 ELSE -1
             /\ UNCHANGED <<scan, lines, at_end, taken, shown, mem>>

ScanNext == ScanOpen \/ ScanLine \/ ScanEnd \/ ScanClose
ScanSpec == ScanInit /\ [][ScanNext]_scanVars

------------------------------------------------------------------------------
\* The numbers of the lines read of kind l.
Numbers(l) == {k \in DOMAIN lines : lines[k] = l}

\* What a reader prints is the selection it is for: the first 5 or 8 lines and
\* no more read than one beyond, the first model name, every name without a dot.
ShowsSelection ==
    scan_at = "done" =>
        /\ scan \in Heads => /\ Len(shown) = Min({Limit(scan), Len(lines)})
                             /\ Len(lines) <= IF scan = "read_proc_self" THEN 9 ELSE 6
                             /\ \A k \in DOMAIN shown : shown[k] = k
        /\ scan = "read_proc_cpuinfo" =>
              IF Numbers("model name") = {} THEN shown = <<>>
                                            ELSE shown = <<Min(Numbers("model name"))>>
        /\ scan = "list_sys_dir" => {shown[k] : k \in DOMAIN shown} = Numbers("other")

\* read_mem_info answers 0 exactly when the file has all three keys, wherever they
\* stand, although it stops early; then each field is its own line's, and with
\* any other file that opens a missing one is 0 and not what the caller had.
MemInfoWhole ==
    scan = "read_mem_info" /\ scan_at = "done" =>
        /\ answer = 0 <=> \A k \in Keys : Numbers(k) # {}
        /\ lines # <<>> \/ at_end =>
              \A k \in Keys : mem[k] = IF Numbers(k) = {} THEN 0 ELSE Min(Numbers(k))

\* Every way out closes what was opened, the break of cpuinfo included.
ScanCloses == scan_at = "done" => ~is_open
==============================================================================
