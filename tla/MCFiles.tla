------------------------------ MODULE MCFiles --------------------------------
(* The system monitor and the other programs that open files or descriptors, *)
(* side by side: `prog` says which of them this behaviour runs, the others   *)
(* keep a fixed initial state.                                               *)
EXTENDS SystemMonitor, Paths, LineScan, SysReaders, SensorLog

CONSTANTS if1, if2
MCInterface == {if1, if2}

VARIABLE prog

MCInit == /\ prog \in {"monitor", "path", "scan", "sys", "log"}
          /\ prog = "path" \/ path = "read_uptime"
          /\ prog = "scan" \/ scan = "list_sys_dir"
          /\ prog = "sys"  \/ reader = "read_net_stats"
          /\ Init /\ PathInit /\ ScanInit /\ SysInit /\ LogInit

MCNext == /\ UNCHANGED prog
          /\ \/ /\ prog = "monitor" /\ Next
                /\ UNCHANGED <<pathVars, scanVars, sysVars, logVars>>
             \/ /\ prog = "path" /\ PathNext
                /\ UNCHANGED <<vars, scanVars, sysVars, logVars>>
             \/ /\ prog = "scan" /\ ScanNext
                /\ UNCHANGED <<vars, pathVars, sysVars, logVars>>
             \/ /\ prog = "sys" /\ SysNext
                /\ UNCHANGED <<vars, pathVars, scanVars, logVars>>
             \/ /\ prog = "log" /\ LogNext
                /\ UNCHANGED <<vars, pathVars, scanVars, sysVars>>

MCSpec == /\ MCInit /\ [][MCNext]_<<prog, vars, pathVars, scanVars, sysVars, logVars>>
          /\ WF_vars(prog = "monitor" /\ MainStep) /\ WF_vars(prog = "monitor" /\ CollectorStep)

------------------------------------------------------------------------------
\* Whatever fails on the way, every function gives back what it opened, allocated
\* or created, and uses none of it afterwards; the monitor's mutex included. The
\* fopen and fclose of the sensor log have no conjunct: a call of log_write opens
\* and closes without a test in between.
AllClosed == NothingLeaked /\ UsesOpen /\ ScanCloses /\ SysCloses /\ DestroyedUnused

\* What the readers of /proc and /sys print or return is what they selected from
\* the files they read, however these end, lack lines or fail to open.
ReadersShowOwn == ShowsSelection /\ MemInfoWhole /\ StatsAreOwn /\ ZonesBeforeGap
==============================================================================
