---------------------------- MODULE SystemMonitor ----------------------------
(* module5 ex06: a collector thread samples /proc and publishes into g_data  *)
(* under a mutex, main copies g_data under the same mutex and prints it, and *)
(* a SIGINT handled in either thread ends both. A field of g_data holds the  *)
(* number of the sample it comes from, 0 before the first, or Junk.          *)
EXTENDS Integers

CONSTANTS
    Samples,        \* bound: samples are numbered 1 .. Samples, then again from 1
    Junk            \* what an uninitialized local holds after a failed read

ASSUME MonitorAssumption ==
    Samples \in Nat \ {0} /\ Junk \notin 0 .. Samples

Field == {"cpu_pct", "mem_total_kb", "mem_used_kb", "mem_avail_kb", "uptime_sec"}
Fields == << "cpu_pct", "mem_total_kb", "mem_used_kb", "mem_avail_kb", "uptime_sec" >>
Source == {"stat", "meminfo", "uptime"}
SourceOf == [f \in Field |-> CASE f = "cpu_pct" -> "stat"
                               [] f = "uptime_sec" -> "uptime"
                               [] OTHER -> "meminfo"]

VARIABLES running,
          handler,  \* sigaction has been called
          g_mutex,  \* "free", "main", "collector" or "destroyed"
          g_data,
          main, collector,  \* where each thread is
          at,       \* how many fields the holder of the mutex has gone through
          local,    \* what the collector's reads left in its locals
          sample,   \* number of the last sample
          d,        \* print_dashboard's copy
          published \* history: the locals of the last collection published

vars == <<running, handler, g_mutex, g_data, main, collector, at, local, sample, d, published>>

Init == /\ running = 1 /\ handler = FALSE
        /\ g_mutex = "free"
        /\ g_data = [f \in Field |-> 0] /\ d = [f \in Field |-> 0]
        /\ main = "sigaction" /\ collector = "new"
        /\ at = 0
        /\ local = [s \in Source |-> Junk] /\ sample = 0
        /\ published = [s \in Source |-> 0]

Alive == main \notin {"killed", "exited"}

\* Mutant: the handler decrements the flag.
SigintDecrements ==
    /\ Alive
    /\ IF handler THEN running' = running - 1 /\ UNCHANGED main
                  ELSE main' = "killed" /\ UNCHANGED running
    /\ UNCHANGED <<handler, g_mutex, g_data, collector, at, local, sample, d, published>>

\* Ctrl+C; before sigaction it ends the process.
Sigint == /\ Alive
          /\ IF handler THEN running' = 0 /\ UNCHANGED main
                        ELSE main' = "killed" /\ UNCHANGED running
          /\ UNCHANGED <<handler, g_mutex, g_data, collector, at, local, sample, d, published>>

InstallHandler == /\ main = "sigaction"
                  /\ handler' = TRUE /\ main' = "create"
                  /\ UNCHANGED <<running, g_mutex, g_data, collector, at, local, sample, d, published>>

CreateCollector == /\ main = "create"
                   /\ collector' = "while" /\ main' = "while"
                   /\ UNCHANGED <<running, handler, g_mutex, g_data, at, local, sample, d, published>>

------------------------------------------------------------------------------
CollectorWhile == /\ collector = "while"
                  /\ collector' = IF running = 1 THEN "read" ELSE "done"
                  /\ UNCHANGED <<running, handler, g_mutex, g_data, main, at, local, sample, d, published>>

NextSample == (sample % Samples) + 1

\* The reads of the three files, around sleep(1). A failed read returns -1, which
\* is not looked at, and leaves its locals unset.
CollectorRead == /\ collector = "read"
                 /\ sample' = NextSample
                 /\ \E good \in SUBSET Source :
                       local' = [s \in Source |-> IF s \in good THEN NextSample ELSE Junk]
                 /\ collector' = "lock"
                 /\ UNCHANGED <<running, handler, g_mutex, g_data, main, at, d, published>>

CollectorLock == /\ collector = "lock" /\ g_mutex = "free"
                 /\ g_mutex' = "collector" /\ at' = 0
                 /\ collector' = "write"
                 /\ UNCHANGED <<running, handler, g_data, main, local, sample, d, published>>

CollectorWrite == /\ collector = "write" /\ at < 5
                  /\ LET f == Fields[at + 1]
                     IN  g_data' = [g_data EXCEPT ![f] = local[SourceOf[f]]]
                  /\ at' = at + 1
                  /\ UNCHANGED <<running, handler, g_mutex, main, collector, local, sample, d, published>>

\* Mutant: the mutex is released before the last field is written.
CollectorUnlocksEarly == /\ collector = "write" /\ at = 4
                         /\ g_mutex' = "free" /\ at' = 0
                         /\ collector' = "while"
                         /\ published' = local
                         /\ UNCHANGED <<running, handler, g_data, main, local, sample, d>>

CollectorUnlock == /\ collector = "write" /\ at = 5
                   /\ g_mutex' = "free" /\ at' = 0
                   /\ collector' = "while"
                   /\ published' = local
                   /\ UNCHANGED <<running, handler, g_data, main, local, sample, d>>

------------------------------------------------------------------------------
\* Mutant: the collector is not joined.
MainWhileNoJoin == /\ main = "while"
                   /\ main' = IF running = 1 THEN "lock" ELSE "destroy"
                   /\ UNCHANGED <<running, handler, g_mutex, g_data, collector, at, local, sample, d, published>>

\* sleep(2), of no certain length against the collector's work, then the test.
MainWhile == /\ main = "while"
             /\ main' = IF running = 1 THEN "lock" ELSE "join"
             /\ UNCHANGED <<running, handler, g_mutex, g_data, collector, at, local, sample, d, published>>

MainLock == /\ main = "lock" /\ g_mutex = "free"
            /\ g_mutex' = "main" /\ at' = 0
            /\ main' = "copy"
            /\ UNCHANGED <<running, handler, g_data, collector, local, sample, d, published>>

MainCopy == /\ main = "copy" /\ at < 5
            /\ LET f == Fields[at + 1] IN d' = [d EXCEPT ![f] = g_data[f]]
            /\ at' = at + 1
            /\ UNCHANGED <<running, handler, g_mutex, g_data, main, collector, local, sample, published>>

\* Mutant: print_dashboard returns with the mutex held.
MainKeepsLock == /\ main = "copy" /\ at = 5
                 /\ main' = "print" /\ at' = 0
                 /\ UNCHANGED <<running, handler, g_mutex, g_data, collector, local, sample, d, published>>

MainUnlock == /\ main = "copy" /\ at = 5
              /\ g_mutex' = "free" /\ at' = 0
              /\ main' = "print"
              /\ UNCHANGED <<running, handler, g_data, collector, local, sample, d, published>>

\* The printf calls on d.
MainPrint == /\ main = "print"
             /\ main' = "while"
             /\ UNCHANGED <<running, handler, g_mutex, g_data, collector, at, local, sample, d, published>>

MainJoin == /\ main = "join" /\ collector = "done"
            /\ main' = "destroy"
            /\ UNCHANGED <<running, handler, g_mutex, g_data, collector, at, local, sample, d, published>>

MainDestroy == /\ main = "destroy"
               /\ g_mutex' = "destroyed" /\ main' = "exited"
               /\ UNCHANGED <<running, handler, g_data, collector, at, local, sample, d, published>>

------------------------------------------------------------------------------
MainStep == \/ InstallHandler \/ CreateCollector
            \/ MainWhile \/ MainLock \/ MainCopy \/ MainUnlock \/ MainPrint
            \/ MainJoin \/ MainDestroy
CollectorStep == /\ main # "killed"
                 /\ \/ CollectorWhile \/ CollectorRead
                    \/ CollectorLock \/ CollectorWrite \/ CollectorUnlock

Next == Sigint \/ MainStep \/ CollectorStep

Spec == Init /\ [][Next]_vars /\ WF_vars(MainStep) /\ WF_vars(CollectorStep)

------------------------------------------------------------------------------
Value == 0 .. Samples \cup {Junk}

\* Type invariant.
TypeOK == /\ running \in {0, 1} /\ handler \in BOOLEAN /\ published \in [Source -> Value]
          /\ g_mutex \in {"free", "main", "collector", "destroyed"}
          /\ g_data \in [Field -> Value] /\ d \in [Field -> Value]
          /\ main \in {"sigaction", "create", "while", "lock", "copy", "print",
                       "join", "destroy", "exited", "killed"}
          /\ collector \in {"new", "while", "read", "lock", "write", "done"}
          /\ at \in 0 .. 5
          /\ local \in [Source -> Value] /\ sample \in 0 .. Samples

\* A complete copy is one publication, the last one: never fields of two
\* collections, because the writes of the collector and the copy of main exclude
\* each other. What a failed read left in the collector's locals is in it too.
SnapshotIsLastPublication ==
    main = "copy" /\ at = 5 => \A f \in Field : d[f] = published[SourceOf[f]]

\* The shared data is well typed, and whatever main prints is one publication.
WholeSnapshots == TypeOK /\ SnapshotIsLastPublication

\* The mutex is destroyed when nobody holds it or will ask for it again.
DestroyedUnused == g_mutex = "destroyed" => collector = "done"

\* Ctrl+C stops the program: once running is 0 both loops end, the join returns
\* and main exits, with no thread left waiting on the mutex.
StopsOnSigint == running = 0 ~> main = "exited"
==============================================================================
