---------------------------- MODULE Files_proofs ------------------------------
(* The system monitor and the programs that open files or descriptors, for   *)
(* any numbers of samples, lines, interfaces and runs.                       *)
EXTENDS MCFiles, SequenceTheorems, TLAPS

------------------------------------------------------------------------------
(* SystemMonitor.                                                            *)

\* Who holds the mutex is where the threads are, and until the collector exists
\* and after it has ended nobody but main can ask for it.
Ownership ==
    /\ g_mutex = "collector" <=> collector = "write"
    /\ g_mutex = "main" <=> main = "copy"
    /\ g_mutex = "destroyed" <=> main = "exited"
    /\ main \in {"sigaction", "create", "killed"} => collector = "new"
    /\ main \in {"destroy", "exited"} => collector = "done"
    /\ ~handler => main \in {"sigaction", "killed"}

\* Nobody is writing: g_data is the last publication.
AtRest == g_mutex # "collector" => \A f \in Field : g_data[f] = published[SourceOf[f]]

\* The holder of the mutex has gone through the first `at` fields.
PartWritten == collector = "write" =>
                   \A k \in 1 .. at : g_data[Fields[k]] = local[SourceOf[Fields[k]]]
PartCopied  == main = "copy" =>
                   \A k \in 1 .. at : d[Fields[k]] = published[SourceOf[Fields[k]]]

MonitorInv == TypeOK /\ Ownership /\ AtRest /\ PartWritten /\ PartCopied

LEMMA FieldsNumbered ==
    /\ \A k \in 1 .. 5 : Fields[k] \in Field
    /\ \A f \in Field : \E k \in 1 .. 5 : Fields[k] = f
    /\ \A f \in Field : SourceOf[f] \in Source
  <1>1. /\ Fields[1] = "cpu_pct" /\ Fields[2] = "mem_total_kb"
        /\ Fields[3] = "mem_used_kb" /\ Fields[4] = "mem_avail_kb"
        /\ Fields[5] = "uptime_sec"
    BY DEF Fields
  <1>2. \A k \in 1 .. 5 : k = 1 \/ k = 2 \/ k = 3 \/ k = 4 \/ k = 5
    OBVIOUS
  <1>3. \A k \in 1 .. 5 : Fields[k] \in Field
    BY <1>1, <1>2 DEF Field
  <1>4. \A f \in Field : \E k \in 1 .. 5 : Fields[k] = f
    <2>1. 1 \in 1 .. 5 /\ 2 \in 1 .. 5 /\ 3 \in 1 .. 5 /\ 4 \in 1 .. 5 /\ 5 \in 1 .. 5
      OBVIOUS
    <2>2. QED
      BY <1>1, <2>1 DEF Field
  <1>5. \A f \in Field : SourceOf[f] \in Source
    BY DEF SourceOf, Field, Source
  <1>6. QED
    BY <1>3, <1>4, <1>5

LEMMA MonitorInit == Init => MonitorInv
  <1>1. SUFFICES ASSUME Init PROVE MonitorInv
    OBVIOUS
  <1>2. 0 \in Value /\ Junk \in Value
    BY MonitorAssumption DEF Value
  <1>3. TypeOK
    <2>1. /\ published \in [Source -> Value] /\ local \in [Source -> Value]
          /\ g_data \in [Field -> Value] /\ d \in [Field -> Value]
      BY <1>1, <1>2 DEF Init
    <2>2. sample \in 0 .. Samples
      BY <1>1, MonitorAssumption DEF Init
    <2>3. running \in {0, 1} /\ at \in 0 .. 5
      BY <1>1 DEF Init
    <2>4. QED
      BY <1>1, <2>1, <2>2, <2>3, Zenon DEF Init, TypeOK
  <1>4. Ownership
    BY <1>1 DEF Init, Ownership
  <1>5. AtRest
    BY <1>1, FieldsNumbered DEF Init, AtRest
  <1>6. PartWritten /\ PartCopied
    BY <1>1 DEF Init, PartWritten, PartCopied
  <1>7. QED
    BY <1>3, <1>4, <1>5, <1>6 DEF MonitorInv

\* No step moves a value that is not one, or leaves the program's control points.
LEMMA MonitorTyped == ASSUME TypeOK, Next PROVE TypeOK'
  <1>1. ASSUME Sigint PROVE TypeOK'
    BY TypeOK, <1>1 DEF TypeOK, Sigint
  <1>2. ASSUME MainStep PROVE TypeOK'
    <2>1. CASE InstallHandler \/ CreateCollector
      BY TypeOK, <2>1 DEF TypeOK, InstallHandler, CreateCollector
    <2>2. CASE MainWhile \/ MainLock
      BY TypeOK, <2>2 DEF TypeOK, MainWhile, MainLock
    <2>3. CASE MainUnlock \/ MainPrint \/ MainJoin \/ MainDestroy
      BY TypeOK, <2>3 DEF TypeOK, MainUnlock, MainPrint, MainJoin, MainDestroy
    <2>4. CASE MainCopy
      <3>1. at + 1 \in 1 .. 5 /\ Fields[at + 1] \in Field
        BY TypeOK, <2>4, FieldsNumbered DEF TypeOK, MainCopy
      <3>2. d' \in [Field -> Value]
        BY TypeOK, <2>4, <3>1 DEF TypeOK, MainCopy
      <3>3. QED
        BY TypeOK, <2>4, <3>1, <3>2 DEF TypeOK, MainCopy
    <2>5. QED
      BY <1>2, <2>1, <2>2, <2>4, <2>3 DEF MainStep
  <1>3. ASSUME CollectorStep PROVE TypeOK'
    <2>1. CASE CollectorWhile \/ CollectorLock \/ CollectorUnlock
      BY TypeOK, <2>1 DEF TypeOK, CollectorWhile, CollectorLock, CollectorUnlock
    <2>2. CASE CollectorRead
      <3>1. sample % Samples \in 0 .. Samples - 1
        BY TypeOK, MonitorAssumption DEF TypeOK
      <3>2. NextSample \in 1 .. Samples
        BY <3>1, MonitorAssumption DEF NextSample
      <3>3. NextSample \in Value /\ Junk \in Value /\ NextSample \in 0 .. Samples
        BY <3>2, MonitorAssumption DEF Value
      <3>4. local' \in [Source -> Value]
        BY <2>2, <3>3 DEF CollectorRead
      <3>5. QED
        BY TypeOK, <2>2, <3>3, <3>4 DEF TypeOK, CollectorRead
    <2>3. CASE CollectorWrite
      <3>1. at + 1 \in 1 .. 5 /\ Fields[at + 1] \in Field
        BY TypeOK, <2>3, FieldsNumbered DEF TypeOK, CollectorWrite
      <3>2. SourceOf[Fields[at + 1]] \in Source
        BY <3>1, FieldsNumbered
      <3>3. g_data' \in [Field -> Value]
        BY TypeOK, <2>3, <3>1, <3>2 DEF TypeOK, CollectorWrite
      <3>4. QED
        BY TypeOK, <2>3, <3>1, <3>3 DEF TypeOK, CollectorWrite
    <2>4. QED
      BY <1>3, <2>1, <2>2, <2>3 DEF CollectorStep
  <1>4. QED
    BY <1>1, <1>2, <1>3, Next DEF Next

LEMMA MonitorOwned == ASSUME Ownership, Next PROVE Ownership'
  <1>1. CASE Sigint
    BY Ownership, <1>1 DEF Ownership, Sigint, Alive
  <1>2. CASE MainStep
    BY Ownership, <1>2
    DEF Ownership, MainStep, InstallHandler, CreateCollector, MainWhile, MainLock,
        MainCopy, MainUnlock, MainPrint, MainJoin, MainDestroy
  <1>3. CASE CollectorStep
    BY Ownership, <1>3
    DEF Ownership, CollectorStep, CollectorWhile, CollectorRead, CollectorLock,
        CollectorWrite, CollectorUnlock
  <1>4. QED
    BY <1>1, <1>2, <1>3, Next DEF Next

LEMMA MonitorData == ASSUME MonitorInv, Next, Ownership' PROVE AtRest' /\ PartWritten' /\ PartCopied'
  <1>1. TypeOK /\ Ownership /\ AtRest /\ PartWritten /\ PartCopied
    BY MonitorInv DEF MonitorInv
  <1>2. CASE \/ Sigint \/ InstallHandler \/ CreateCollector \/ MainWhile \/ MainPrint
             \/ MainJoin \/ MainDestroy \/ CollectorWhile
    <2>1. UNCHANGED <<g_data, published, local, d, at>>
      BY <1>2 DEF Sigint, InstallHandler, CreateCollector, MainWhile, MainPrint, MainJoin,
                  MainDestroy, CollectorWhile
    <2>2. /\ g_mutex' = "collector" <=> g_mutex = "collector"
          /\ collector' = "write" => collector = "write"
          /\ main' = "copy" => main = "copy"
      BY <1>1, <1>2, Ownership'
      DEF Ownership, Sigint, InstallHandler, CreateCollector, MainWhile, MainPrint, MainJoin,
          MainDestroy, CollectorWhile
    <2>3. QED
      BY <1>1, <2>1, <2>2 DEF AtRest, PartWritten, PartCopied
  <1>3. CASE CollectorRead
    <2>1. /\ collector = "read" /\ collector' = "lock"
          /\ UNCHANGED <<g_data, published, d, at, g_mutex, main>>
      BY <1>3 DEF CollectorRead
    <2>2. QED
      BY <1>1, <2>1 DEF AtRest, PartWritten, PartCopied
  <1>4. CASE MainLock \/ CollectorLock
    <2>1. /\ UNCHANGED <<g_data, published, d, local>>
          /\ at' = 0 /\ g_mutex = "free"
      BY <1>4 DEF MainLock, CollectorLock
    <2>2. QED
      BY <1>1, <2>1 DEF AtRest, PartWritten, PartCopied
  <1>5. CASE MainUnlock
    <2>1. /\ UNCHANGED <<g_data, published, d, local, collector>>
          /\ at' = 0 /\ main' = "print" /\ g_mutex = "main"
      BY <1>1, <1>5 DEF MainUnlock, Ownership
    <2>2. QED
      BY <1>1, <2>1 DEF AtRest, PartWritten, PartCopied
  <1>6. CASE CollectorWrite
    <2> DEFINE f == Fields[at + 1]
    <2>1. /\ collector = "write" /\ g_mutex = "collector" /\ main # "copy"
          /\ UNCHANGED <<published, d, local, collector, g_mutex, main>>
          /\ at \in 0 .. 4 /\ at' = at + 1
          /\ g_data' = [g_data EXCEPT ![f] = local[SourceOf[f]]]
      BY <1>1, <1>6 DEF CollectorWrite, Ownership, TypeOK
    <2>2. ASSUME NEW k \in 1 .. at' PROVE g_data'[Fields[k]] = local[SourceOf[Fields[k]]]
      <3>1. k \in 1 .. 5 /\ (k # at + 1 => k \in 1 .. at)
        BY <2>1
      <3>2. Fields[k] \in Field /\ g_data \in [Field -> Value]
        BY <1>1, <3>1, FieldsNumbered DEF TypeOK
      <3>3. k # at + 1 => g_data[Fields[k]] = local[SourceOf[Fields[k]]]
        BY <1>1, <2>1, <3>1 DEF PartWritten
      <3>4. g_data'[Fields[k]] = IF Fields[k] = f THEN local[SourceOf[f]] ELSE g_data[Fields[k]]
        BY <2>1, <3>2
      <3>5. QED
        BY <3>3, <3>4
    <2>3. PartWritten'
      BY <2>1, <2>2 DEF PartWritten
    <2>4. QED
      BY <2>1, <2>3 DEF AtRest, PartCopied
  <1>7. CASE CollectorUnlock
    <2>1. /\ collector = "write" /\ collector' = "while" /\ at = 5 /\ main # "copy"
          /\ published' = local /\ UNCHANGED <<g_data, main>>
      BY <1>1, <1>7 DEF CollectorUnlock, Ownership
    <2>2. ASSUME NEW f \in Field PROVE g_data[f] = local[SourceOf[f]]
      <3>1. PICK k \in 1 .. 5 : Fields[k] = f
        BY FieldsNumbered
      <3>2. QED
        BY <1>1, <2>1, <3>1 DEF PartWritten
    <2>3. QED
      BY <2>1, <2>2 DEF AtRest, PartWritten, PartCopied
  <1>8. CASE MainCopy
    <2> DEFINE f == Fields[at + 1]
    <2>1. /\ main = "copy" /\ g_mutex = "main" /\ collector # "write"
          /\ UNCHANGED <<published, g_data, local, collector, g_mutex, main>>
          /\ at \in 0 .. 4 /\ at' = at + 1
          /\ d' = [d EXCEPT ![f] = g_data[f]]
      BY <1>1, <1>8 DEF MainCopy, Ownership, TypeOK
    <2>2. ASSUME NEW k \in 1 .. at' PROVE d'[Fields[k]] = published[SourceOf[Fields[k]]]
      <3>1. k \in 1 .. 5 /\ (k # at + 1 => k \in 1 .. at)
        BY <2>1
      <3>2. Fields[k] \in Field /\ d \in [Field -> Value]
        BY <1>1, <3>1, FieldsNumbered DEF TypeOK
      <3>3. k # at + 1 => d[Fields[k]] = published[SourceOf[Fields[k]]]
        BY <1>1, <2>1, <3>1 DEF PartCopied
      <3>4. g_data[Fields[k]] = published[SourceOf[Fields[k]]]
        BY <1>1, <2>1, <3>2 DEF AtRest
      <3>5. d'[Fields[k]] = IF Fields[k] = f THEN g_data[f] ELSE d[Fields[k]]
        BY <2>1, <3>2
      <3>6. QED
        BY <3>3, <3>4, <3>5
    <2>3. PartCopied'
      BY <2>1, <2>2 DEF PartCopied
    <2>4. QED
      BY <1>1, <2>1, <2>3 DEF AtRest, PartWritten
  <1>9. QED
    BY <1>2, <1>3, <1>4, <1>5, <1>6, <1>7, <1>8, Next
    DEF Next, MainStep, CollectorStep

LEMMA MonitorStep == ASSUME MonitorInv, [Next]_vars PROVE MonitorInv'
  <1>1. CASE Next
    BY <1>1, MonitorInv, MonitorTyped, MonitorOwned, MonitorData DEF MonitorInv
  <1>2. CASE UNCHANGED vars
    BY <1>2, MonitorInv
    DEF MonitorInv, vars, TypeOK, Ownership, AtRest, PartWritten, PartCopied
  <1>3. QED
    BY <1>1, <1>2, [Next]_vars

LEMMA MonitorSafe == MonitorInv => WholeSnapshots /\ DestroyedUnused
  <1>1. SUFFICES ASSUME MonitorInv PROVE WholeSnapshots /\ DestroyedUnused
    OBVIOUS
  <1>2. DestroyedUnused
    BY <1>1 DEF MonitorInv, Ownership, DestroyedUnused
  <1>3. ASSUME main = "copy", at = 5, NEW f \in Field PROVE d[f] = published[SourceOf[f]]
    <2>1. PICK k \in 1 .. 5 : Fields[k] = f
      BY FieldsNumbered
    <2>2. QED
      BY <1>1, <1>3, <2>1 DEF MonitorInv, PartCopied
  <1>4. QED
    BY <1>1, <1>2, <1>3 DEF MonitorInv, WholeSnapshots, SnapshotIsLastPublication

\* Whatever the two threads and Ctrl+C do in whatever order, a dashboard that has
\* been copied whole is the last publication of the collector, fields of it all.
THEOREM SnapshotsWhole == Spec => []WholeSnapshots
  <1>1. QED
    BY MonitorInit, MonitorStep, MonitorSafe, PTL DEF Spec

------------------------------------------------------------------------------
(* SensorLog.                                                                *)

StoredLine == [entry : Nat \X Nat, how : HowStored]

LogTyped ==
    /\ log \in Seq(StoredLine) /\ run \in Nat
    /\ log_at \in {"open", "close", "read", "scan", "done", "exit"}
    /\ entry \in 0 .. 3 /\ pos \in 0 .. Len(log)
    /\ log_shown \in Seq(StoredLine) /\ shown_before \in Seq(StoredLine)

\* Where main is tells how many entries it has closed; the claim comes after three.
ThreeWrites ==
    /\ log_at \in {"open", "close"} => entry < 3 /\ ~claimed
    /\ log_at \in {"read", "scan", "done"} => entry = 3
    /\ claimed => entry = 3

\* Unless a write failed, or the process died while one was pending, the last lines
\* of the file are the entries of this run so far.
OwnLinesLast ==
    (claimed \/ log_at # "exit") /\ ~faulty =>
        /\ Len(log) >= entry
        /\ \A k \in 1 .. entry : log[Len(log) - entry + k] = Line(<<run, k - 1>>, "whole")

\* log_read has shown what it has passed, none of it cut; it ends at a cut line.
ShownSoFar ==
    /\ Len(log_shown) = pos
    /\ \A k \in 1 .. pos : log_shown[k] = log[k] /\ log[k].how # "cut"
    /\ log_at = "done" => pos = Len(log) \/ log[pos + 1].how = "cut"

\* What was once shown is where it was in the file, and so are the lines before it.
ShownIsStored ==
    /\ Len(shown_before) <= Len(log)
    /\ \A k \in 1 .. Len(shown_before) : shown_before[k] = log[k] /\ log[k].how # "cut"

LogInv == LogTyped /\ ThreeWrites /\ OwnLinesLast /\ ShownSoFar /\ ShownIsStored

LEMMA LogStart == LogInit => LogInv
  <1>1. SUFFICES ASSUME LogInit PROVE LogInv
    OBVIOUS
  <1>2. /\ log \in Seq(StoredLine) /\ Len(log) = 0
        /\ log_shown \in Seq(StoredLine) /\ Len(log_shown) = 0
        /\ shown_before \in Seq(StoredLine) /\ Len(shown_before) = 0
    BY <1>1, EmptySeq DEF LogInit
  <1>3. QED
    BY <1>1, <1>2 DEF LogInit, LogInv, LogTyped, ThreeWrites, OwnLinesLast, ShownSoFar, ShownIsStored

\* Whatever part of the buffer is written, the file grows by a line at most.
LEMMA FileGrows ==
    ASSUME NEW l \in Seq(StoredLine), NEW w \in Stored \cup {<<>>}, run \in Nat, entry \in Nat
    PROVE  /\ l \o w \in Seq(StoredLine)
           /\ Len(l) <= Len(l \o w)
           /\ \A k \in 1 .. Len(l) : (l \o w)[k] = l[k]
           /\ w = <<Line(<<run, entry>>, "whole")>> =>
                 /\ Len(l \o w) = Len(l) + 1
                 /\ (l \o w)[Len(l) + 1] = Line(<<run, entry>>, "whole")
  <1>1. \A how \in HowStored : Line(<<run, entry>>, how) \in StoredLine
    BY DEF Line, StoredLine
  <1>2. "whole" \in HowStored
    BY DEF HowStored
  <1>3. w \in Seq(StoredLine) /\ Len(w) \in Nat
    <2>1. CASE w = <<>>
      BY <2>1, EmptySeq
    <2>2. CASE \E how \in HowStored : w = <<Line(<<run, entry>>, how)>>
      BY <1>1, <2>2
    <2>3. QED
      BY <2>1, <2>2 DEF Stored
  <1>4. /\ l \o w \in Seq(StoredLine)
        /\ Len(l \o w) = Len(l) + Len(w)
        /\ \A k \in 1 .. Len(l) + Len(w) :
              (l \o w)[k] = IF k <= Len(l) THEN l[k] ELSE w[k - Len(l)]
    BY <1>3, ConcatProperties
  <1>5. Len(l) \in Nat
    BY LenProperties
  <1>6. ASSUME w = <<Line(<<run, entry>>, "whole")>>
        PROVE  Len(w) = 1 /\ w[1] = Line(<<run, entry>>, "whole")
    BY <1>6
  <1>7. QED
    BY <1>3, <1>4, <1>5, <1>6

LEMMA LogStep == ASSUME LogInv, [LogNext]_logVars PROVE LogInv'
  <1>1. /\ LogTyped /\ ThreeWrites /\ OwnLinesLast /\ ShownSoFar /\ ShownIsStored
        /\ Len(log) \in Nat /\ Len(log_shown) \in Nat /\ Len(shown_before) \in Nat
    BY LogInv, LenProperties DEF LogInv, LogTyped
  <1>2. CASE LogOpen \/ ReadOpen
    <2>1. /\ \/ log_at = "open" /\ log_at' \in {"close", "exit"}
             \/ log_at = "read" /\ log_at' \in {"scan", "exit"}
          /\ UNCHANGED <<log, run, entry, pos, log_shown, claimed, faulty, shown_before>>
      BY <1>2 DEF LogOpen, ReadOpen
    <2>2. LogTyped'
      BY <1>1, <2>1 DEF LogTyped
    <2>3. ThreeWrites'
      BY <1>1, <2>1 DEF ThreeWrites
    <2>4. OwnLinesLast'
      BY <1>1, <2>1 DEF OwnLinesLast
    <2>5. ShownSoFar' /\ ShownIsStored'
      BY <1>1, <2>1 DEF ShownSoFar, ShownIsStored
    <2>6. QED
      BY <2>2, <2>3, <2>4, <2>5 DEF LogInv
  <1>3. CASE LogClose
    <2>1. PICK w \in Stored :
             /\ log' = log \o w
             /\ faulty' = (faulty \/ w # <<Line(<<run, entry>>, "whole")>>)
      BY <1>3 DEF LogClose
    <2>2. /\ log_at = "close" /\ entry' = entry + 1
          /\ \/ entry < 2 /\ log_at' = "open" /\ claimed' = claimed
             \/ ~(entry < 2) /\ log_at' = "read" /\ claimed' = TRUE
          /\ UNCHANGED <<run, pos, log_shown, shown_before>>
      BY <1>3 DEF LogClose
    <2>3. run \in Nat /\ entry \in Nat /\ pos \in 0 .. Len(log) /\ entry < 3 /\ ~claimed
      BY <1>1, <2>2 DEF LogTyped, ThreeWrites
    <2>4. /\ log' \in Seq(StoredLine) /\ Len(log) <= Len(log') /\ Len(log') \in Nat
          /\ \A k \in 1 .. Len(log) : log'[k] = log[k]
          /\ w = <<Line(<<run, entry>>, "whole")>> =>
                Len(log') = Len(log) + 1 /\ log'[Len(log) + 1] = Line(<<run, entry>>, "whole")
      BY <1>1, <2>1, <2>3, FileGrows, LenProperties DEF LogTyped
    <2>5. LogTyped'
      BY <1>1, <2>2, <2>3, <2>4 DEF LogTyped
    <2>6. ThreeWrites'
      BY <2>2, <2>3 DEF ThreeWrites
    <2>7. OwnLinesLast'
      <3>1. SUFFICES ASSUME ~faulty'
                     PROVE  /\ Len(log') >= entry'
                            /\ \A k \in 1 .. entry' :
                                  log'[Len(log') - entry' + k] = Line(<<run', k - 1>>, "whole")
        BY DEF OwnLinesLast
      <3>2. ~faulty /\ w = <<Line(<<run, entry>>, "whole")>>
        BY <2>1, <3>1
      <3>3. /\ Len(log) >= entry
            /\ \A k \in 1 .. entry : log[Len(log) - entry + k] = Line(<<run, k - 1>>, "whole")
        BY <1>1, <2>2, <3>2 DEF OwnLinesLast
      <3>4. Len(log') = Len(log) + 1 /\ log'[Len(log) + 1] = Line(<<run, entry>>, "whole")
        BY <2>4, <3>2
      <3>5. ASSUME NEW k \in 1 .. entry'
            PROVE  log'[Len(log') - entry' + k] = Line(<<run', k - 1>>, "whole")
        <4>1. Len(log') - entry' + k = Len(log) - entry + k
          BY <1>1, <2>2, <2>3, <3>4
        <4>2. CASE k = entry + 1
          <5>1. Len(log) - entry + k = Len(log) + 1 /\ k - 1 = entry
            BY <1>1, <2>3, <4>2
          <5>2. QED
            BY <2>2, <3>4, <4>1, <5>1
        <4>3. CASE k # entry + 1
          <5>1. k \in 1 .. entry /\ Len(log) - entry + k \in 1 .. Len(log)
            BY <1>1, <2>2, <2>3, <3>3, <4>3
          <5>2. QED
            BY <2>2, <2>4, <3>3, <4>1, <5>1
        <4>4. QED
          BY <4>2, <4>3
      <3>6. QED
        BY <1>1, <2>2, <2>3, <3>3, <3>4, <3>5
    <2>8. ShownSoFar'
      BY <1>1, <2>2, <2>3, <2>4 DEF ShownSoFar
    <2>9. ShownIsStored'
      <3>1. /\ Len(shown_before) <= Len(log)
            /\ \A k \in 1 .. Len(shown_before) : shown_before[k] = log[k] /\ log[k].how # "cut"
        BY <1>1 DEF ShownIsStored
      <3>2. \A k \in 1 .. Len(shown_before) : log'[k] = log[k]
        BY <1>1, <2>4, <3>1
      <3>3. shown_before' = shown_before
        BY <2>2
      <3>4. QED
        BY <1>1, <2>4, <3>1, <3>2, <3>3 DEF ShownIsStored
    <2>10. QED
      BY <2>5, <2>6, <2>7, <2>8, <2>9 DEF LogInv
  <1>4. CASE ScanEntry
    <2>1. log_at = "scan" /\ UNCHANGED <<log, run, entry, claimed, faulty, shown_before>>
      BY <1>4 DEF ScanEntry
    <2>2. CASE pos < Len(log) /\ Readable(log[pos + 1])
      <3>1. pos' = pos + 1 /\ log_shown' = Append(log_shown, log[pos + 1]) /\ log_at' = log_at
        BY <1>4, <2>2 DEF ScanEntry
      <3>2. pos \in Nat /\ pos + 1 \in 1 .. Len(log) /\ log[pos + 1] \in StoredLine
        BY <1>1, <2>2, ElementOfSeq DEF LogTyped
      <3>3. /\ log_shown' \in Seq(StoredLine) /\ Len(log_shown') = pos + 1
            /\ \A k \in 1 .. pos : log_shown'[k] = log_shown[k]
            /\ log_shown'[pos + 1] = log[pos + 1]
        BY <1>1, <3>1, <3>2, AppendProperties DEF LogTyped, ShownSoFar
      <3>4. log[pos + 1].how # "cut"
        BY <2>2 DEF Readable
      <3>5. LogTyped'
        BY <1>1, <2>1, <3>1, <3>2, <3>3 DEF LogTyped
      <3>6. ThreeWrites' /\ OwnLinesLast' /\ ShownIsStored'
        BY <1>1, <2>1, <3>1 DEF ThreeWrites, OwnLinesLast, ShownIsStored
      <3>7. ShownSoFar'
        <4>1. ASSUME NEW k \in 1 .. pos' PROVE log_shown'[k] = log[k] /\ log[k].how # "cut"
          <5>1. k \in 1 .. pos \/ k = pos + 1
            BY <3>1, <3>2
          <5>2. QED
            BY <1>1, <3>3, <3>4, <5>1 DEF ShownSoFar
        <4>2. QED
          BY <2>1, <3>1, <3>3, <4>1 DEF ShownSoFar
      <3>8. QED
        BY <3>5, <3>6, <3>7 DEF LogInv
    <2>3. CASE ~(pos < Len(log) /\ Readable(log[pos + 1]))
      <3>1. log_at' = "done" /\ UNCHANGED <<pos, log_shown>>
        BY <1>4, <2>3 DEF ScanEntry
      <3>2. pos = Len(log) \/ log[pos + 1].how = "cut"
        BY <1>1, <2>3 DEF LogTyped, Readable
      <3>3. LogTyped' /\ ShownSoFar'
        BY <1>1, <2>1, <3>1, <3>2 DEF LogTyped, ShownSoFar
      <3>4. ThreeWrites' /\ OwnLinesLast' /\ ShownIsStored'
        BY <1>1, <2>1, <3>1 DEF ThreeWrites, OwnLinesLast, ShownIsStored
      <3>5. QED
        BY <3>3, <3>4 DEF LogInv
    <2>4. QED
      BY <2>2, <2>3
  <1>5. CASE Crash
    <2>1. PICK w \in Stored \cup {<<>>} : log' = log \o w /\ (log_at # "close" => w = <<>>)
      BY <1>5 DEF Crash
    <2>2. log_at \notin {"exit", "done"} /\ log_at' = "exit"
          /\ UNCHANGED <<run, entry, pos, log_shown, claimed, faulty, shown_before>>
      BY <1>5 DEF Crash
    <2>3. run \in Nat /\ entry \in Nat /\ log \in Seq(StoredLine)
      BY <1>1 DEF LogTyped
    <2>4. /\ log' \in Seq(StoredLine) /\ Len(log) <= Len(log') /\ Len(log') \in Nat
          /\ \A k \in 1 .. Len(log) : log'[k] = log[k]
      BY <2>1, <2>3, FileGrows, LenProperties
    <2>5. LogTyped'
      BY <1>1, <2>2, <2>4 DEF LogTyped
    <2>6. ThreeWrites'
      BY <1>1, <2>2 DEF ThreeWrites
    <2>7. OwnLinesLast'
      <3>1. CASE claimed
        <4>1. log' = log
          BY <1>1, <2>1, <2>3, <3>1, ConcatEmptySeq DEF ThreeWrites
        <4>2. QED
          BY <1>1, <2>2, <3>1, <4>1 DEF OwnLinesLast
      <3>2. CASE ~claimed
        BY <2>2, <3>2 DEF OwnLinesLast
      <3>3. QED
        BY <3>1, <3>2
    <2>8. ShownSoFar'
      <3>1. /\ pos \in 0 .. Len(log) /\ Len(log_shown) = pos
            /\ \A k \in 1 .. pos : log_shown[k] = log[k] /\ log[k].how # "cut"
        BY <1>1 DEF LogTyped, ShownSoFar
      <3>2. \A k \in 1 .. pos : log'[k] = log[k]
        BY <1>1, <2>4, <3>1
      <3>3. pos' = pos /\ log_shown' = log_shown /\ log_at' = "exit"
        BY <2>2
      <3>4. QED
        BY <3>1, <3>2, <3>3 DEF ShownSoFar
    <2>9. ShownIsStored'
      <3>1. /\ Len(shown_before) <= Len(log)
            /\ \A k \in 1 .. Len(shown_before) : shown_before[k] = log[k] /\ log[k].how # "cut"
        BY <1>1 DEF ShownIsStored
      <3>2. \A k \in 1 .. Len(shown_before) : log'[k] = log[k]
        BY <1>1, <2>4, <3>1
      <3>3. shown_before' = shown_before
        BY <2>2
      <3>4. QED
        BY <1>1, <2>4, <3>1, <3>2, <3>3 DEF ShownIsStored
    <2>10. QED
      BY <2>5, <2>6, <2>7, <2>8, <2>9 DEF LogInv
  <1>6. CASE Restart
    <2>1. /\ run' = run + 1 /\ log_at' = "open" /\ entry' = 0 /\ pos' = 0
          /\ log_shown' = <<>> /\ ~claimed' /\ ~faulty' /\ log' = log
          /\ shown_before' = log_shown \/ shown_before' = shown_before
      BY <1>6 DEF Restart
    <2>2. log_shown' \in Seq(StoredLine) /\ Len(log_shown') = 0
      BY <2>1, EmptySeq
    <2>3. LogTyped'
      BY <1>1, <2>1, <2>2 DEF LogTyped
    <2>4. ThreeWrites'
      BY <2>1 DEF ThreeWrites
    <2>5. OwnLinesLast' /\ ShownSoFar'
      BY <1>1, <2>1, <2>2 DEF OwnLinesLast, ShownSoFar
    <2>6. ShownIsStored'
      BY <1>1, <2>1 DEF LogTyped, ShownSoFar, ShownIsStored
    <2>7. QED
      BY <2>3, <2>4, <2>5, <2>6 DEF LogInv
  <1>7. CASE UNCHANGED logVars
    BY <1>1, <1>7 DEF logVars, LogInv, LogTyped, ThreeWrites, OwnLinesLast, ShownSoFar, ShownIsStored
  <1>8. QED
    BY <1>2, <1>3, <1>4, <1>5, <1>6, <1>7, [LogNext]_logVars DEF LogNext

LEMMA LogSafe == LogInv => ClaimTrueUnlessFault /\ ShowsUpToFirstCut /\ ShownAgain
  <1>1. SUFFICES ASSUME LogInv PROVE ClaimTrueUnlessFault /\ ShowsUpToFirstCut /\ ShownAgain
    OBVIOUS
  <1>2. ClaimTrueUnlessFault
    <2>1. SUFFICES ASSUME claimed, ~faulty
                   PROVE  /\ entry = 3 /\ Len(log) >= 3
                          /\ \A k \in 1 .. 3 :
                                log[Len(log) - 3 + k] = Line(<<run, k - 1>>, "whole")
      BY <1>1 DEF ClaimTrueUnlessFault, LogInv, ThreeWrites
    <2>2. QED
      BY <1>1, <2>1 DEF LogInv, ThreeWrites, OwnLinesLast
  <1>3. ShowsUpToFirstCut
    <2>1. SUFFICES ASSUME log_at = "done"
                   PROVE  /\ log_shown = SubSeq(log, 1, Len(log_shown))
                          /\ \A k \in DOMAIN log_shown : log_shown[k].how # "cut"
                          /\ \/ Len(log_shown) = Len(log)
                             \/ log[Len(log_shown) + 1].how = "cut"
      BY DEF ShowsUpToFirstCut
    <2>2. /\ log \in Seq(StoredLine) /\ log_shown \in Seq(StoredLine)
          /\ pos \in 0 .. Len(log) /\ Len(log_shown) = pos
          /\ \A k \in 1 .. pos : log_shown[k] = log[k] /\ log[k].how # "cut"
          /\ pos = Len(log) \/ log[pos + 1].how = "cut"
      BY <1>1, <2>1 DEF LogInv, LogTyped, ShownSoFar
    <2>3. Len(log) \in Nat /\ DOMAIN log_shown = 1 .. pos
      BY <2>2, LenProperties
    <2>4. \A k \in 1 .. pos : log[k] \in StoredLine
      BY <2>2, <2>3, ElementOfSeq
    <2>5. /\ SubSeq(log, 1, pos) \in Seq(StoredLine)
          /\ Len(SubSeq(log, 1, pos)) = IF 1 <= pos THEN pos - 1 + 1 ELSE 0
          /\ \A i \in 1 .. pos - 1 + 1 : SubSeq(log, 1, pos)[i] = log[1 + i - 1]
      <3>1. 1 \in Int /\ pos \in Int
        BY <2>2, <2>3
      <3>2. QED
        BY <2>4, <3>1, SubSeqProperties
    <2>6. Len(SubSeq(log, 1, pos)) = pos
      BY <2>2, <2>3, <2>5
    <2>7. \A i \in 1 .. pos : log_shown[i] = SubSeq(log, 1, pos)[i]
      BY <2>2, <2>3, <2>5
    <2>8. log_shown = SubSeq(log, 1, pos)
      BY <2>2, <2>5, <2>6, <2>7, SeqEqual
    <2>9. QED
      BY <2>2, <2>3, <2>8
  <1>4. ShownAgain
    <2>1. SUFFICES ASSUME log_at = "done"
                   PROVE  /\ Len(shown_before) <= Len(log_shown)
                          /\ shown_before = SubSeq(log_shown, 1, Len(shown_before))
      BY DEF ShownAgain
    <2> DEFINE n == Len(shown_before)
    <2>2. /\ log \in Seq(StoredLine) /\ log_shown \in Seq(StoredLine)
          /\ shown_before \in Seq(StoredLine)
          /\ Len(log) \in Nat /\ Len(log_shown) = pos /\ pos \in 0 .. Len(log) /\ n \in Nat
      BY <1>1, LenProperties DEF LogInv, LogTyped, ShownSoFar
    <2>3. n <= pos
      <3>1. SUFFICES ASSUME pos < n PROVE FALSE
        BY <2>2
      <3>2. pos + 1 \in 1 .. n /\ n <= Len(log) /\ pos # Len(log)
        BY <1>1, <2>2, <3>1 DEF LogInv, ShownIsStored
      <3>3. log[pos + 1].how = "cut"
        BY <1>1, <2>1, <3>2 DEF LogInv, ShownSoFar
      <3>4. log[pos + 1].how # "cut"
        BY <1>1, <3>2 DEF LogInv, ShownIsStored
      <3>5. QED
        BY <3>3, <3>4
    <2>4. \A i \in 1 .. n : log_shown[i] \in StoredLine /\ log_shown[i] = shown_before[i]
      <3>1. ASSUME NEW i \in 1 .. n
            PROVE  log_shown[i] \in StoredLine /\ log_shown[i] = shown_before[i]
        <4>1. i \in 1 .. pos
          BY <2>2, <2>3, <3>1
        <4>2. log_shown[i] = log[i] /\ shown_before[i] = log[i]
          BY <1>1, <3>1, <4>1 DEF LogInv, ShownSoFar, ShownIsStored
        <4>3. log_shown[i] \in StoredLine
          BY <2>2, <4>1, ElementOfSeq
        <4>4. QED
          BY <4>2, <4>3
      <3>2. QED
        BY <3>1
    <2>5. /\ SubSeq(log_shown, 1, n) \in Seq(StoredLine)
          /\ Len(SubSeq(log_shown, 1, n)) = IF 1 <= n THEN n - 1 + 1 ELSE 0
          /\ \A i \in 1 .. n - 1 + 1 : SubSeq(log_shown, 1, n)[i] = log_shown[1 + i - 1]
      <3>1. 1 \in Int /\ n \in Int /\ \A i \in 1 .. n : log_shown[i] \in StoredLine
        BY <2>2, <2>4
      <3>2. QED
        BY <3>1, SubSeqProperties
    <2>6. /\ Len(SubSeq(log_shown, 1, n)) = n
          /\ \A i \in 1 .. n : SubSeq(log_shown, 1, n)[i] = log_shown[i]
      BY <2>2, <2>5
    <2>7. \A i \in 1 .. n : shown_before[i] = SubSeq(log_shown, 1, n)[i]
      BY <2>4, <2>6
    <2>8. shown_before = SubSeq(log_shown, 1, n)
      BY <2>2, <2>5, <2>6, <2>7, SeqEqual
    <2>9. QED
      BY <2>2, <2>3, <2>8
  <1>5. QED
    BY <1>2, <1>3, <1>4

\* "wrote 3 entries" is true of every run in which no write failed, however the
\* runs before it ended.
THEOREM ClaimIsTrue == LogSpec => []ClaimTrueUnlessFault
  <1>1. QED
    BY LogStart, LogStep, LogSafe, PTL DEF LogSpec

\* log_read shows the file up to the first line cut short, in any run.
THEOREM ReadStopsAtCut == LogSpec => []ShowsUpToFirstCut
  <1>1. QED
    BY LogStart, LogStep, LogSafe, PTL DEF LogSpec

\* What one run has read back, every later run that reads the file shows again, first
\* and unchanged, whatever crashes and half-written entries came since.
THEOREM NothingShownIsLost == LogSpec => []ShownAgain
  <1>1. QED
    BY LogStart, LogStep, LogSafe, PTL DEF LogSpec

------------------------------------------------------------------------------
(* Paths.                                                                    *)

\* What may be open before each step of each table. It certainly is, unless its
\* malloc is one of the three that are not checked.
Reader(v) == << {}, {v}, {v} >>
MallocMay == << {}, {"reg"}, {"reg"}, {}, {"registers"}, {"registers"},
                {}, {"heap_buf"}, {"heap_buf"},
                {}, {"heap1"}, {"heap1", "heap2"}, {"heap1", "heap2", "heap3"},
                {"heap2", "heap3"}, {"heap3"} >>
FdMay == << {}, {"fd"}, {"fd"}, {}, {"fd"}, {"fd"}, {}, {"fd"}, {"fd"}, {"fd"}, {"fd"} >>
MayHold ==
    [malloc_main |-> MallocMay, fd_main |-> FdMay,
     read_proc_uptime |-> Reader("fd"), read_sys_file |-> Reader("fd"),
     read_cpu_stat |-> Reader("fp"), read_uptime |-> Reader("fp")]
Unchecked == {"heap1", "heap2", "heap3"}

Before(p, n) == IF n = Return THEN {} ELSE MayHold[p][n]

\* A step of a table asks only for what is not open, uses only what certainly is,
\* and leads to steps before which exactly the right variables are open.
StepSafe(p, n) ==
    LET t == Table[p][n]
    IN  /\ t.do \in {"get", "use", "put", "free"}
        /\ t.do = "get" => t.var \notin Before(p, n)
        /\ t.do \in {"use", "put"} => t.var \in Before(p, n) \ Unchecked
        /\ t.do = "get" => Before(p, t.ok) = Before(p, n) \cup {t.var}
        /\ t.do \in {"put", "free"} => Before(p, t.ok) = Before(p, n) \ {t.var}
        /\ t.do = "use" => Before(p, t.ok) = Before(p, n)
        /\ t.do \in {"get", "use"} =>
              \/ Before(p, t.fail) = Before(p, n)
              \/ t.var \in Unchecked /\ Before(p, t.fail) = Before(p, n) \cup {t.var}
        /\ {t.ok, t.fail} \subseteq 0 .. Len(Table[p])

StepsSafe(p) == /\ Len(Table[p]) \in Nat \ {0}
                /\ \A n \in 1 .. Len(Table[p]) : StepSafe(p, n)

PathInv == /\ path \in DOMAIN Table
           /\ step \in 0 .. Len(Table[path])
           /\ holds \subseteq Before(path, step)
           /\ Before(path, step) \ Unchecked \subseteq holds

LEMMA MallocSteps == \A n \in 1 .. 15 : StepSafe("malloc_main", n)
  <1>1. /\ Table["malloc_main"] = malloc_main /\ Len(malloc_main) = 15
        /\ MayHold["malloc_main"] = MallocMay
    BY DEF Table, MayHold, malloc_main
  <1>2.  /\ malloc_main[1] = Get("reg", 2, Return) /\ malloc_main[2] = Use("reg", 3)
        /\ malloc_main[3] = Put("reg", 4) /\ malloc_main[4] = Get("registers", 5, Return)
        /\ malloc_main[5] = Use("registers", 6) /\ malloc_main[6] = Put("registers", 7)
        /\ malloc_main[7] = Get("heap_buf", 8, Return)
        /\ malloc_main[8] = Use("heap_buf", 9) /\ malloc_main[9] = Put("heap_buf", 10)
        /\ malloc_main[10] = Get("heap1", 11, 11) /\ malloc_main[11] = Get("heap2", 12, 12)
        /\ malloc_main[12] = Get("heap3", 13, 13) /\ malloc_main[13] = Free0("heap1", 14)
        /\ malloc_main[14] = Free0("heap2", 15) /\ malloc_main[15] = Free0("heap3", Return)
    BY DEF malloc_main
  <1>3.  /\ MallocMay[1] = {} /\ MallocMay[2] = {"reg"} /\ MallocMay[3] = {"reg"}
        /\ MallocMay[4] = {} /\ MallocMay[5] = {"registers"} /\ MallocMay[6] = {"registers"}
        /\ MallocMay[7] = {} /\ MallocMay[8] = {"heap_buf"} /\ MallocMay[9] = {"heap_buf"}
        /\ MallocMay[10] = {} /\ MallocMay[11] = {"heap1"}
        /\ MallocMay[12] = {"heap1", "heap2"} /\ MallocMay[13] = {"heap1", "heap2", "heap3"}
        /\ MallocMay[14] = {"heap2", "heap3"} /\ MallocMay[15] = {"heap3"}
    BY DEF MallocMay
  <1>4. StepSafe("malloc_main", 1) /\ StepSafe("malloc_main", 2) /\ StepSafe("malloc_main", 3)
    BY <1>1, <1>2, <1>3
    DEF StepSafe, Before, Unchecked, Return, Get, Try, Use, Put, Free0
  <1>5. StepSafe("malloc_main", 4) /\ StepSafe("malloc_main", 5) /\ StepSafe("malloc_main", 6)
    BY <1>1, <1>2, <1>3
    DEF StepSafe, Before, Unchecked, Return, Get, Try, Use, Put, Free0
  <1>6. StepSafe("malloc_main", 7) /\ StepSafe("malloc_main", 8) /\ StepSafe("malloc_main", 9)
    BY <1>1, <1>2, <1>3
    DEF StepSafe, Before, Unchecked, Return, Get, Try, Use, Put, Free0
  <1>7. StepSafe("malloc_main", 10) /\ StepSafe("malloc_main", 11) /\ StepSafe("malloc_main", 12)
    BY <1>1, <1>2, <1>3
    DEF StepSafe, Before, Unchecked, Return, Get, Try, Use, Put, Free0
  <1>8. StepSafe("malloc_main", 13) /\ StepSafe("malloc_main", 14) /\ StepSafe("malloc_main", 15)
    BY <1>1, <1>2, <1>3
    DEF StepSafe, Before, Unchecked, Return, Get, Try, Use, Put, Free0
  <1>9. QED
    BY <1>4, <1>5, <1>6, <1>7, <1>8

LEMMA FdSteps == \A n \in 1 .. 11 : StepSafe("fd_main", n)
  <1>1. /\ Table["fd_main"] = fd_main /\ Len(fd_main) = 11
        /\ MayHold["fd_main"] = FdMay
    BY DEF Table, MayHold, fd_main
  <1>2.  /\ fd_main[1] = Get("fd", 2, Return) /\ fd_main[2] = Try("fd", 3, 11)
        /\ fd_main[3] = Put("fd", 4) /\ fd_main[4] = Get("fd", 5, Return)
        /\ fd_main[5] = Try("fd", 6, 11) /\ fd_main[6] = Put("fd", 7)
        /\ fd_main[7] = Get("fd", 8, Return) /\ fd_main[8] = Use("fd", 9)
        /\ fd_main[9] = Use("fd", 10) /\ fd_main[10] = Put("fd", Return)
        /\ fd_main[11] = Put("fd", Return)
    BY DEF fd_main
  <1>3.  /\ FdMay[1] = {} /\ FdMay[2] = {"fd"} /\ FdMay[3] = {"fd"} /\ FdMay[4] = {}
        /\ FdMay[5] = {"fd"} /\ FdMay[6] = {"fd"} /\ FdMay[7] = {} /\ FdMay[8] = {"fd"}
        /\ FdMay[9] = {"fd"} /\ FdMay[10] = {"fd"} /\ FdMay[11] = {"fd"}
    BY DEF FdMay
  <1>4. StepSafe("fd_main", 1) /\ StepSafe("fd_main", 2) /\ StepSafe("fd_main", 3)
    BY <1>1, <1>2, <1>3
    DEF StepSafe, Before, Unchecked, Return, Get, Try, Use, Put, Free0
  <1>5. StepSafe("fd_main", 4) /\ StepSafe("fd_main", 5) /\ StepSafe("fd_main", 6)
    BY <1>1, <1>2, <1>3
    DEF StepSafe, Before, Unchecked, Return, Get, Try, Use, Put, Free0
  <1>6. StepSafe("fd_main", 7) /\ StepSafe("fd_main", 8) /\ StepSafe("fd_main", 9)
    BY <1>1, <1>2, <1>3
    DEF StepSafe, Before, Unchecked, Return, Get, Try, Use, Put, Free0
  <1>7. StepSafe("fd_main", 10) /\ StepSafe("fd_main", 11)
    BY <1>1, <1>2, <1>3
    DEF StepSafe, Before, Unchecked, Return, Get, Try, Use, Put, Free0
  <1>8. QED
    BY <1>4, <1>5, <1>6, <1>7

LEMMA ReaderSteps ==
    ASSUME NEW p, NEW v \in {"fd", "fp"}, MayHold[p] = Reader(v),
           Table[p] = << Get(v, 2, Return), Use(v, 3), Put(v, Return) >>
    PROVE  StepsSafe(p)
  <1>1. /\ Table[p][1] = Get(v, 2, Return) /\ Table[p][2] = Use(v, 3)
        /\ Table[p][3] = Put(v, Return) /\ Len(Table[p]) = 3
    OBVIOUS
  <1>2. MayHold[p][1] = {} /\ MayHold[p][2] = {v} /\ MayHold[p][3] = {v}
    BY DEF Reader
  <1>3. StepSafe(p, 1) /\ StepSafe(p, 2) /\ StepSafe(p, 3)
    BY <1>1, <1>2 DEF StepSafe, Before, Unchecked, Return, Get, Try, Use, Put
  <1>4. QED
    BY <1>1, <1>3 DEF StepsSafe

LEMMA AllSteps ==
    \A p \in DOMAIN Table : StepsSafe(p)
  <1>1. DOMAIN Table = {"malloc_main", "fd_main", "read_proc_uptime", "read_sys_file",
                        "read_cpu_stat", "read_uptime"}
    BY DEF Table
  <1>2. StepsSafe("malloc_main") /\ StepsSafe("fd_main")
    <2>1. Len(Table["malloc_main"]) = 15 /\ Len(Table["fd_main"]) = 11
      BY DEF Table, malloc_main, fd_main
    <2>2. QED
      BY <2>1, MallocSteps, FdSteps DEF StepsSafe
  <1>3. StepsSafe("read_proc_uptime") /\ StepsSafe("read_sys_file")
    <2>1. MayHold["read_proc_uptime"] = Reader("fd") /\ MayHold["read_sys_file"] = Reader("fd")
      BY DEF MayHold
    <2>2. /\ Table["read_proc_uptime"] = << Get("fd", 2, Return), Use("fd", 3), Put("fd", Return) >>
          /\ Table["read_sys_file"] = << Get("fd", 2, Return), Use("fd", 3), Put("fd", Return) >>
      BY DEF Table, read_proc_uptime, read_sys_file
    <2>3. QED
      BY <2>1, <2>2, ReaderSteps
  <1>4. StepsSafe("read_cpu_stat") /\ StepsSafe("read_uptime")
    <2>1. MayHold["read_cpu_stat"] = Reader("fp") /\ MayHold["read_uptime"] = Reader("fp")
      BY DEF MayHold
    <2>2. /\ Table["read_cpu_stat"] = << Get("fp", 2, Return), Use("fp", 3), Put("fp", Return) >>
          /\ Table["read_uptime"] = << Get("fp", 2, Return), Use("fp", 3), Put("fp", Return) >>
      BY DEF Table, read_cpu_stat, read_uptime
    <2>3. QED
      BY <2>1, <2>2, ReaderSteps
  <1>5. QED
    BY <1>1, <1>2, <1>3, <1>4, Zenon

LEMMA PathStart == PathInit => PathInv
  <1>1. SUFFICES ASSUME PathInit PROVE PathInv
    OBVIOUS
  <1>2. Len(Table[path]) \in Nat \ {0}
    BY <1>1, AllSteps DEF PathInit, StepsSafe
  <1>3. Before(path, 1) = {}
    <2>1. MallocMay[1] = {} /\ FdMay[1] = {} /\ Reader("fd")[1] = {} /\ Reader("fp")[1] = {}
      BY DEF MallocMay, FdMay, Reader
    <2>2. /\ MayHold["malloc_main"] = MallocMay /\ MayHold["fd_main"] = FdMay
          /\ \A p \in {"read_proc_uptime", "read_sys_file"} : MayHold[p] = Reader("fd")
          /\ \A p \in {"read_cpu_stat", "read_uptime"} : MayHold[p] = Reader("fp")
      BY DEF MayHold
    <2>3. path \in {"malloc_main", "fd_main", "read_proc_uptime", "read_sys_file",
                   "read_cpu_stat", "read_uptime"}
      BY <1>1 DEF PathInit, Table
    <2>4. QED
      BY <2>1, <2>2, <2>3 DEF Before, Return
  <1>4. 1 \in 0 .. Len(Table[path])
    BY <1>2
  <1>5. QED
    BY <1>1, <1>3, <1>4 DEF PathInit, PathInv

LEMMA PathStep == ASSUME PathInv, [PathNext]_pathVars PROVE PathInv'
  <1>1. CASE PathNext
    <2> DEFINE t == Table[path][step]
    <2>1. step \in 1 .. Len(Table[path]) /\ path' = path /\ path \in DOMAIN Table
      BY <1>1, PathInv, AllSteps DEF PathNext, PathInv, Return, StepsSafe
    <2>2. StepSafe(path, step)
      BY <2>1, AllSteps DEF StepsSafe
    <2>3. \/ /\ step' = t.ok
             /\ holds' = CASE t.do = "get"             -> holds \cup {t.var}
                           [] t.do \in {"put", "free"} -> holds \ {t.var}
                           [] OTHER                    -> holds
          \/ t.do \in {"get", "use"} /\ step' = t.fail /\ holds' = holds
      BY <1>1 DEF PathNext, ThisStep
    <2>4. holds \subseteq Before(path, step) /\ Before(path, step) \ Unchecked \subseteq holds
      BY PathInv DEF PathInv
    <2>5. step' \in 0 .. Len(Table[path])
      BY <2>2, <2>3 DEF StepSafe
    <2>6. holds' \subseteq Before(path, step') /\ Before(path, step') \ Unchecked \subseteq holds'
      <3>1. CASE t.do = "get"
        BY <2>2, <2>3, <2>4, <3>1 DEF StepSafe
      <3>2. CASE t.do = "use"
        BY <2>2, <2>3, <2>4, <3>2 DEF StepSafe
      <3>3. CASE t.do \in {"put", "free"}
        BY <2>2, <2>3, <2>4, <3>3 DEF StepSafe
      <3>4. QED
        BY <2>2, <3>1, <3>2, <3>3 DEF StepSafe
    <2>7. QED
      BY <2>1, <2>5, <2>6 DEF PathInv, Before
  <1>2. CASE UNCHANGED pathVars
    BY <1>2, PathInv DEF pathVars, PathInv, Before
  <1>3. QED
    BY <1>1, <1>2, [PathNext]_pathVars

LEMMA PathSafe == PathInv => NothingLeaked /\ UsesOpen
  <1>1. SUFFICES ASSUME PathInv PROVE NothingLeaked /\ UsesOpen
    OBVIOUS
  <1>2. CASE step = Return
    BY <1>1, <1>2 DEF PathInv, Before, NothingLeaked, UsesOpen
  <1>3. CASE step # Return
    <2>1. StepSafe(path, step)
      BY <1>1, <1>3, AllSteps DEF PathInv, Return, StepsSafe
    <2>2. QED
      BY <1>1, <1>3, <2>1 DEF PathInv, StepSafe, NothingLeaked, UsesOpen, ThisStep
  <1>4. QED
    BY <1>2, <1>3

\* Every way out of the functions that acquire and release in a line gives back
\* all they acquired, and they use nothing that is not open.
THEOREM PathsBalanced == PathSpec => [](NothingLeaked /\ UsesOpen)
  <1>1. QED
    BY PathStart, PathStep, PathSafe, PTL DEF PathSpec

------------------------------------------------------------------------------
(* LineScan.                                                                 *)

Kinds == Keys \cup {"other", "model name", "dot"}

ScanTyped ==
    /\ scan \in Scans /\ scan_at \in {"open", "loop", "close", "done"}
    /\ lines \in Seq(Kinds) /\ Len(lines) <= FILE_MAX
    /\ taken \in 0 .. Len(lines) /\ shown \in Seq(Nat)
    /\ mem \in [Keys -> 0 .. FILE_MAX \cup {NotSet}]
    /\ scan_at = "open" => lines = <<>> /\ shown = <<>> /\ ~at_end

OpenInLoop == is_open <=> scan_at \in {"loop", "close"}

\* A counting reader shows every line it reads, up to its limit and the one line
\* that makes it see that the limit is reached.
HeadShown ==
    scan \in Heads =>
        /\ Len(shown) = taken /\ \A k \in 1 .. taken : shown[k] = k
        /\ \/ Len(lines) = taken /\ taken <= Limit(scan)
           \/ Len(lines) = taken + 1 /\ taken = Limit(scan) /\ scan_at # "loop"

\* No model name so far, or the loop was left at the first.
FirstModel ==
    scan = "read_proc_cpuinfo" =>
        \/ shown = <<>> /\ Numbers("model name") = {}
        \/ /\ shown = <<Len(lines)>> /\ scan_at # "loop"
           /\ Len(lines) \in Numbers("model name")
           /\ \A k \in Numbers("model name") : k >= Len(lines)

NamesListed ==
    scan = "list_sys_dir" => {shown[k] : k \in DOMAIN shown} = Numbers("other")

Found(key) == IF Numbers(key) = {} THEN 0 ELSE 1

\* found counts the keys met, each of which stands in one line, and every field
\* holds its own line or the 0 it was cleared to.
KeysFound ==
    scan = "read_mem_info" =>
        /\ \A i, j \in DOMAIN lines : lines[i] = lines[j] /\ lines[i] \in Keys => i = j
        /\ taken = Found("MemTotal") + Found("MemFree") + Found("MemAvailable")
        /\ scan_at \in {"loop", "close"} \/ lines # <<>> \/ at_end =>
              \A key \in Keys : IF Numbers(key) = {} THEN mem[key] = 0 ELSE mem[key] \in Numbers(key)
        /\ scan_at = "done" => (answer = 0 <=> taken = 3)

ScanInv == ScanTyped /\ OpenInLoop /\ HeadShown /\ FirstModel /\ NamesListed /\ KeysFound

LEMMA MinIs ==
    ASSUME NEW S \in SUBSET Int, NEW m \in S, \A y \in S : m <= y
    PROVE  Min(S) = m
  <1>1. \A x \in S : (\A y \in S : x <= y) => x = m
    OBVIOUS
  <1>2. QED
    BY <1>1 DEF Min

LEMMA NumbersInLines ==
    ASSUME lines \in Seq(Kinds), NEW x
    PROVE  Numbers(x) \subseteq 1 .. Len(lines) /\ DOMAIN lines = 1 .. Len(lines) /\ Len(lines) \in Nat
  BY LenProperties DEF Numbers

LEMMA NumbersGrow ==
    ASSUME lines \in Seq(Kinds), NEW l \in Kinds, lines' = Append(lines, l)
    PROVE  /\ lines' \in Seq(Kinds) /\ Len(lines') = Len(lines) + 1
           /\ \A k \in 1 .. Len(lines) : lines'[k] = lines[k]
           /\ lines'[Len(lines) + 1] = l /\ lines' # <<>>
           /\ \A x : Numbers(x)' = IF x = l THEN Numbers(x) \cup {Len(lines) + 1} ELSE Numbers(x)
  <1>1. /\ lines' \in Seq(Kinds) /\ Len(lines') = Len(lines) + 1 /\ lines' # <<>>
        /\ \A k \in 1 .. Len(lines) : lines'[k] = lines[k]
        /\ lines'[Len(lines) + 1] = l
    BY AppendProperties
  <1>2. /\ DOMAIN lines = 1 .. Len(lines) /\ Len(lines) \in Nat
        /\ DOMAIN lines' = 1 .. Len(lines) + 1
    BY <1>1, LenProperties
  <1>3. ASSUME NEW x
        PROVE  Numbers(x)' = IF x = l THEN Numbers(x) \cup {Len(lines) + 1} ELSE Numbers(x)
    BY <1>1, <1>2 DEF Numbers
  <1>4. QED
    BY <1>1, <1>3

LEMMA ScanStart == ScanInit => ScanInv
  <1>1. SUFFICES ASSUME ScanInit PROVE ScanInv
    OBVIOUS
  <1>2. /\ lines \in Seq(Kinds) /\ Len(lines) = 0 /\ shown \in Seq(Nat) /\ Len(shown) = 0
        /\ DOMAIN lines = 1 .. 0 /\ DOMAIN shown = 1 .. 0
    BY <1>1, EmptySeq, LenProperties DEF ScanInit
  <1>3. \A x : Numbers(x) = {}
    BY <1>2 DEF Numbers
  <1>4. ScanTyped
    <2>1. mem \in [Keys -> 0 .. FILE_MAX \cup {NotSet}]
      BY <1>1 DEF ScanInit
    <2>2. QED
      BY <1>1, <1>2, <2>1, LineScanAssumption DEF ScanInit, ScanTyped
  <1>5. OpenInLoop
    BY <1>1 DEF ScanInit, OpenInLoop
  <1>6. HeadShown
    BY <1>1, <1>2 DEF ScanInit, HeadShown, Limit, Heads
  <1>7. FirstModel
    BY <1>1, <1>3 DEF ScanInit, FirstModel
  <1>8. NamesListed
    BY <1>2, <1>3 DEF NamesListed
  <1>9. KeysFound
    BY <1>1, <1>2, <1>3 DEF ScanInit, KeysFound, Found
  <1>10. QED
    BY <1>4, <1>5, <1>6, <1>7, <1>8, <1>9 DEF ScanInv

\* The steps that read no line.
LEMMA ScanBetween ==
    ASSUME ScanInv, ScanOpen \/ ScanEnd \/ ScanClose
    PROVE  ScanInv'
  <1>1. ScanTyped /\ OpenInLoop /\ HeadShown /\ FirstModel /\ NamesListed /\ KeysFound
    BY DEF ScanInv
  <1>2. /\ UNCHANGED <<scan, lines, taken, shown>>
        /\ scan_at' \in {"loop", "close", "done"} /\ (scan_at' = "loop" => scan_at = "open")
    BY DEF ScanOpen, ScanEnd, ScanClose
  <1>3. \A x : Numbers(x)' = Numbers(x)
    BY <1>2 DEF Numbers
  <1>4. scan_at = "open" => Len(lines) = 0 /\ taken = 0 /\ \A x : Numbers(x) = {}
    <2>1. Len(<<>>) = 0 /\ DOMAIN <<>> = {}
      OBVIOUS
    <2>2. QED
      BY <1>1, <2>1 DEF ScanTyped, Numbers
  <1>5. ScanTyped'
    <2>1. mem' \in [Keys -> 0 .. FILE_MAX \cup {NotSet}]
      BY <1>1, LineScanAssumption DEF ScanTyped, ScanOpen, ScanEnd, ScanClose
    <2>2. QED
      BY <1>1, <1>2, <2>1 DEF ScanTyped
  <1>6. OpenInLoop'
    BY <1>1 DEF OpenInLoop, ScanOpen, ScanEnd, ScanClose
  <1>7. HeadShown'
    BY <1>1, <1>2, <1>4 DEF HeadShown, ScanOpen, ScanEnd, ScanClose, Limit, Heads
  <1>8. FirstModel'
    BY <1>1, <1>2, <1>3, <1>4 DEF FirstModel, ScanTyped
  <1>9. NamesListed'
    BY <1>1, <1>2, <1>3 DEF NamesListed
  <1>10. KeysFound'
    <2>1. \A x : Found(x)' = Found(x)
      BY <1>3 DEF Found
    <2>2. CASE ScanOpen
      <3>1. scan_at = "open" /\ Len(lines) = 0 /\ lines = <<>> /\ ~at_end /\ at_end' = at_end
        BY <1>1, <1>4, <2>2 DEF ScanOpen, ScanTyped
      <3>2. \/ scan_at' = "loop" /\ (scan = "read_mem_info" => mem' = [k \in Keys |-> 0])
            \/ scan_at' = "done" /\ answer' = -1
        BY <2>2 DEF ScanOpen
      <3>3. scan_at' = "done" => (answer' = 0 <=> taken' = 3)
        BY <1>2, <1>4, <3>1, <3>2
      <3>4. QED
        BY <1>1, <1>2, <1>3, <1>4, <2>1, <3>1, <3>2, <3>3 DEF KeysFound
    <2>3. CASE ScanEnd
      <3>1. scan_at = "loop" /\ scan_at' = "close" /\ mem' = mem
        BY <2>3 DEF ScanEnd
      <3>2. QED
        BY <1>1, <1>2, <1>3, <2>1, <3>1 DEF KeysFound
    <2>4. CASE ScanClose
      <3>1. /\ scan_at = "close" /\ mem' = mem /\ at_end' = at_end
            /\ (answer' = 0 <=> taken = 3)
        BY <2>4 DEF ScanClose
      <3>2. QED
        BY <1>1, <1>2, <1>3, <2>1, <3>1 DEF KeysFound
    <2>5. QED
      BY <2>2, <2>3, <2>4
  <1>11. QED
    BY <1>5, <1>6, <1>7, <1>8, <1>9, <1>10 DEF ScanInv

\* One line: what the reader makes of it.
Reads(l) == LET k == Len(lines) + 1
            IN  CASE scan = "read_proc_cpuinfo" -> read_proc_cpuinfo(l, k)
                  [] scan = "read_proc_meminfo" -> read_proc_meminfo(k)
                  [] scan = "read_proc_self"    -> read_proc_self(k)
                  [] scan = "list_sys_dir"      -> list_sys_dir(l, k)
                  [] scan = "read_mem_info"     -> read_mem_info(l, k)

LEMMA ScanLineStep == ASSUME ScanInv, ScanLine PROVE ScanInv'
  <1>1. ScanTyped /\ OpenInLoop /\ HeadShown /\ FirstModel /\ NamesListed /\ KeysFound
    BY DEF ScanInv
  <1>2. PICK l \in LinesOf(scan) :
           /\ lines' = Append(lines, l)
           /\ IF taken >= Limit(scan) THEN scan_at' = "close" /\ Pass ELSE Reads(l)
    BY DEF ScanLine, Reads
  <1>3. /\ scan_at = "loop" /\ Len(lines) < FILE_MAX
        /\ UNCHANGED <<scan, is_open, at_end, answer>>
    BY DEF ScanLine
  <1> DEFINE n == Len(lines)
             k == n + 1
  <1>4. l \in Kinds
    BY <1>2 DEF LinesOf, Kinds
  <1>5. /\ lines' \in Seq(Kinds) /\ Len(lines') = k /\ n \in Nat /\ lines' # <<>>
        /\ \A i \in 1 .. n : lines'[i] = lines[i]
        /\ lines'[k] = l /\ DOMAIN lines = 1 .. n /\ DOMAIN lines' = 1 .. k
        /\ \A x : Numbers(x) \subseteq 1 .. n
        /\ \A x : Numbers(x)' = IF x = l THEN Numbers(x) \cup {k} ELSE Numbers(x)
    <2>1. lines \in Seq(Kinds)
      BY <1>1 DEF ScanTyped
    <2>2. /\ lines' \in Seq(Kinds) /\ Len(lines') = k /\ lines' # <<>>
          /\ \A i \in 1 .. n : lines'[i] = lines[i]
          /\ lines'[k] = l
          /\ \A x : Numbers(x)' = IF x = l THEN Numbers(x) \cup {k} ELSE Numbers(x)
      BY <1>2, <1>4, <2>1, NumbersGrow
    <2>3. n \in Nat /\ DOMAIN lines = 1 .. n /\ DOMAIN lines' = 1 .. k
      BY <2>1, <2>2, LenProperties
    <2>4. \A x : Numbers(x) \subseteq 1 .. n
      BY <2>1, NumbersInLines
    <2>5. QED
      BY <2>2, <2>3, <2>4
  <1>6. taken \in 0 .. n /\ shown \in Seq(Nat) /\ scan \in Scans
        /\ mem \in [Keys -> 0 .. FILE_MAX \cup {NotSet}] /\ FILE_MAX \in Nat
    BY <1>1, LineScanAssumption DEF ScanTyped
  <1>7. \/ Pass
        \/ Show(k)
        \/ l \in Keys /\ mem' = [mem EXCEPT ![l] = k] /\ taken' = taken + 1 /\ shown' = shown
    BY <1>2, <1>6 DEF Reads, Scans, Heads, read_proc_cpuinfo, read_proc_meminfo, read_proc_self,
                      list_sys_dir, read_mem_info, Pass
  <1>8. scan_at' \in {"loop", "close"}
    BY <1>2, <1>3, <1>6 DEF Reads, Scans, Heads, read_proc_cpuinfo, read_proc_meminfo,
                            read_proc_self, list_sys_dir, read_mem_info
  <1>9. Show(k) => shown' \in Seq(Nat) /\ Len(shown') = Len(shown) + 1 /\ Len(shown) \in Nat
                   /\ (\A i \in 1 .. Len(shown) : shown'[i] = shown[i])
                   /\ shown'[Len(shown) + 1] = k
    BY <1>5, <1>6, AppendProperties, LenProperties DEF Show
  <1>10. ScanTyped'
    <2>1. mem' \in [Keys -> 0 .. FILE_MAX \cup {NotSet}]
      <3>1. k \in 0 .. FILE_MAX
        BY <1>3, <1>5, <1>6
      <3>2. QED
        BY <1>6, <1>7, <3>1 DEF Pass, Show
    <2>2. taken' \in 0 .. k
      BY <1>5, <1>6, <1>7 DEF Pass, Show
    <2>3. shown' \in Seq(Nat)
      BY <1>6, <1>7, <1>9 DEF Pass
    <2>4. Len(lines') <= FILE_MAX
      BY <1>3, <1>5, <1>6
    <2>5. QED
      BY <1>3, <1>5, <1>6, <1>8, <2>1, <2>2, <2>3, <2>4 DEF ScanTyped
  <1>11. OpenInLoop'
    BY <1>1, <1>3, <1>8 DEF OpenInLoop
  <1>12. HeadShown'
    <2>1. SUFFICES ASSUME scan \in Heads PROVE HeadShown'
      BY <1>3 DEF HeadShown
    <2>2. /\ Len(shown) = taken /\ \A i \in 1 .. taken : shown[i] = i
          /\ n = taken /\ taken <= Limit(scan)
      BY <1>1, <1>3, <2>1 DEF HeadShown
    <2>3. Limit(scan) \in Nat
      BY <2>1 DEF Limit, Heads
    <2>4. CASE taken >= Limit(scan)
      <3>1. scan_at' = "close" /\ shown' = shown /\ taken' = taken
        BY <1>2, <2>4 DEF Pass
      <3>2. QED
        BY <1>3, <1>5, <1>6, <2>2, <2>3, <2>4, <3>1 DEF HeadShown
    <2>5. CASE ~(taken >= Limit(scan))
      <3>1. Show(k) /\ taken' = taken + 1
        BY <1>2, <2>1, <2>5 DEF Reads, Heads, read_proc_meminfo, read_proc_self, Show
      <3>2. \A i \in 1 .. taken' : shown'[i] = i
        BY <1>5, <1>6, <1>9, <2>2, <3>1
      <3>3. Limit(scan') = Limit(scan)
        BY <1>3
      <3>4. QED
        BY <1>5, <1>6, <1>9, <2>2, <2>3, <2>5, <3>1, <3>2, <3>3 DEF HeadShown
    <2>6. QED
      BY <2>4, <2>5
  <1>13. taken >= FILE_MAX => FALSE
    BY <1>3, <1>5, <1>6
  <1>14. FirstModel'
    <2>1. SUFFICES ASSUME scan = "read_proc_cpuinfo" PROVE FirstModel'
      BY <1>3 DEF FirstModel
    <2>2. shown = <<>> /\ Numbers("model name") = {}
      BY <1>1, <1>3, <2>1 DEF FirstModel
    <2>3. read_proc_cpuinfo(l, k)
      BY <1>2, <1>13, <2>1 DEF Reads, Limit
    <2>4. CASE l = "model name"
      <3>1. shown' = Append(<<>>, k) /\ scan_at' = "close"
        BY <2>2, <2>3, <2>4 DEF read_proc_cpuinfo, Show
      <3>2. Append(<<>>, k) = <<k>>
        OBVIOUS
      <3>3. Numbers("model name")' = {k}
        BY <1>5, <2>2, <2>4
      <3>4. /\ shown' = <<Len(lines')>> /\ scan_at' # "loop"
            /\ Len(lines') \in Numbers("model name")'
            /\ \A i \in Numbers("model name")' : i >= Len(lines')
        <4>1. k \in Nat /\ Len(lines') = k
          BY <1>5
        <4> HIDE DEF k
        <4>2. \A i \in {k} : i >= k
          BY <4>1
        <4>3. QED
          BY <3>1, <3>2, <3>3, <4>1, <4>2
      <3>5. QED
        BY <3>4 DEF FirstModel
    <2>5. CASE l # "model name"
      <3>1. shown' = <<>> /\ Numbers("model name")' = {}
        BY <1>5, <2>2, <2>3, <2>5 DEF read_proc_cpuinfo, Pass
      <3>2. QED
        BY <3>1 DEF FirstModel
    <2>6. QED
      BY <2>4, <2>5
  <1>15. NamesListed'
    <2>1. SUFFICES ASSUME scan = "list_sys_dir" PROVE NamesListed'
      BY <1>3 DEF NamesListed
    <2>2. {shown[i] : i \in DOMAIN shown} = Numbers("other")
      BY <1>1, <2>1 DEF NamesListed
    <2>3. list_sys_dir(l, k) /\ l \in {"dot", "other"}
      BY <1>2, <1>13, <2>1 DEF Reads, Limit, LinesOf, Heads
    <2>4. CASE l = "dot"
      <3>1. shown' = shown /\ Numbers("other")' = Numbers("other")
        BY <1>5, <2>3, <2>4 DEF list_sys_dir, Pass
      <3>2. QED
        BY <2>2, <3>1 DEF NamesListed
    <2>5. CASE l = "other"
      <3>1. Show(k) /\ Numbers("other")' = Numbers("other") \cup {k}
        BY <1>5, <2>3, <2>5 DEF list_sys_dir
      <3>2. DOMAIN shown = 1 .. Len(shown) /\ DOMAIN shown' = 1 .. Len(shown) + 1
        BY <1>6, <1>9, <3>1, LenProperties
      <3>3. {shown'[i] : i \in DOMAIN shown'} = {shown[i] : i \in DOMAIN shown} \cup {k}
        BY <1>9, <3>1, <3>2
      <3>4. QED
        BY <2>2, <3>1, <3>3 DEF NamesListed
    <2>6. QED
      BY <2>3, <2>4, <2>5
  <1>16. KeysFound'
    <2>1. SUFFICES ASSUME scan = "read_mem_info" PROVE KeysFound'
      BY <1>3 DEF KeysFound
    <2>2. /\ \A i, j \in 1 .. n : lines[i] = lines[j] /\ lines[i] \in Keys => i = j
          /\ taken = Found("MemTotal") + Found("MemFree") + Found("MemAvailable")
          /\ \A key \in Keys : IF Numbers(key) = {} THEN mem[key] = 0 ELSE mem[key] \in Numbers(key)
      BY <1>1, <1>3, <1>5, <2>1 DEF KeysFound
    <2>3. Keys = {"MemTotal", "MemFree", "MemAvailable"} /\ "other" \notin Keys
      BY DEF Keys
    <2>4. l = "other" \/ (l \in Keys /\ Numbers(l) = {})
      <3>1. LinesOf(scan) = {"other"} \cup (Keys \ {lines[i] : i \in DOMAIN lines})
        BY <2>1 DEF LinesOf, Heads
      <3>2. l = "other" \/ (l \in Keys /\ \A i \in DOMAIN lines : lines[i] # l)
        <4>1. \A i \in DOMAIN lines : lines[i] \in {lines[j] : j \in DOMAIN lines}
          OBVIOUS
        <4>2. l \in {"other"} \cup (Keys \ {lines[i] : i \in DOMAIN lines})
          BY <1>2, <3>1
        <4>3. QED
          BY <4>1, <4>2
      <3>3. QED
        BY <3>2 DEF Numbers
    <2>5. \A i, j \in 1 .. k : lines'[i] = lines'[j] /\ lines'[i] \in Keys => i = j
      <3>1. ASSUME NEW i \in 1 .. n, lines[i] = l, l \in Keys PROVE FALSE
        BY <1>5, <2>3, <2>4, <3>1 DEF Numbers
      <3>2. \A i \in 1 .. k : i \in 1 .. n \/ i = k
        BY <1>5
      <3>3. QED
        BY <1>5, <2>2, <3>1, <3>2
    <2>6. CASE taken >= 3 \/ l = "other"
      <3>1. taken' = taken /\ mem' = mem
        BY <1>2, <2>1, <2>3, <2>6 DEF Reads, Limit, Heads, read_mem_info, Pass
      <3>2. l = "other"
        <4>1. taken >= 3 => \A key \in Keys : Numbers(key) # {}
          BY <2>2, <2>3 DEF Found
        <4>2. QED
          BY <2>4, <2>6, <4>1
      <3>3. \A key \in Keys : Numbers(key)' = Numbers(key) /\ Found(key)' = Found(key)
        BY <1>5, <2>3, <3>2 DEF Found
      <3>4. taken' = Found("MemTotal")' + Found("MemFree")' + Found("MemAvailable")'
        BY <2>2, <2>3, <3>1, <3>3
      <3>5. QED
        BY <1>5, <1>8, <2>2, <2>5, <3>1, <3>3, <3>4 DEF KeysFound
    <2>7. CASE ~(taken >= 3) /\ l \in Keys
      <3>1. taken' = taken + 1 /\ mem' = [mem EXCEPT ![l] = k]
        BY <1>2, <2>1, <2>7 DEF Reads, Limit, Heads, read_mem_info
      <3>2. /\ Numbers(l) = {} /\ Numbers(l)' = {k}
            /\ \A key \in Keys : key # l => Numbers(key)' = Numbers(key)
        BY <1>5, <2>3, <2>4, <2>7
      <3>3. /\ Found(l) = 0 /\ Found(l)' = 1
            /\ \A key \in Keys : key # l => Found(key)' = Found(key)
            /\ \A key \in Keys : Found(key) \in {0, 1}
        BY <3>2 DEF Found
      <3>4. taken' = Found("MemTotal")' + Found("MemFree")' + Found("MemAvailable")'
        BY <2>2, <2>3, <2>7, <3>1, <3>3
      <3>5. ASSUME NEW key \in Keys
            PROVE  IF Numbers(key)' = {} THEN mem'[key] = 0 ELSE mem'[key] \in Numbers(key)'
        BY <1>6, <2>2, <2>7, <3>1, <3>2
      <3>6. QED
        BY <1>5, <1>8, <2>5, <3>4, <3>5 DEF KeysFound
    <2>8. QED
      BY <2>4, <2>6, <2>7
  <1>17. QED
    BY <1>10, <1>11, <1>12, <1>14, <1>15, <1>16 DEF ScanInv

LEMMA ScanStep == ASSUME ScanInv, [ScanNext]_scanVars PROVE ScanInv'
  <1>1. CASE ScanNext
    BY <1>1, ScanInv, ScanBetween, ScanLineStep DEF ScanNext
  <1>2. CASE UNCHANGED scanVars
    <2>1. UNCHANGED <<scan, scan_at, is_open, lines, at_end, taken, shown, mem, answer>>
      BY <1>2 DEF scanVars
    <2>2. /\ \A x : Numbers(x)' = Numbers(x)
          /\ \A x : Found(x)' = Found(x)
      BY <2>1 DEF Numbers, Found
    <2>3. ScanTyped' /\ OpenInLoop' /\ HeadShown'
      BY <2>1, ScanInv DEF ScanInv, ScanTyped, OpenInLoop, HeadShown
    <2>4. FirstModel' /\ NamesListed'
      BY <2>1, <2>2, ScanInv DEF ScanInv, FirstModel, NamesListed
    <2>5. KeysFound'
      BY <2>1, <2>2, ScanInv DEF ScanInv, KeysFound
    <2>6. QED
      BY <2>3, <2>4, <2>5 DEF ScanInv
  <1>3. QED
    BY <1>1, <1>2, [ScanNext]_scanVars

LEMMA ScanSafe == ScanInv => ScanCloses /\ ShowsSelection /\ MemInfoWhole
  <1>1. SUFFICES ASSUME ScanInv PROVE ScanCloses /\ ShowsSelection /\ MemInfoWhole
    OBVIOUS
  <1>2. ScanTyped /\ OpenInLoop /\ HeadShown /\ FirstModel /\ NamesListed /\ KeysFound
    BY <1>1 DEF ScanInv
  <1>3. ScanCloses
    BY <1>2 DEF OpenInLoop, ScanCloses
  <1>4. /\ lines \in Seq(Kinds) /\ Len(lines) \in Nat /\ DOMAIN lines = 1 .. Len(lines)
        /\ shown \in Seq(Nat) /\ Len(shown) \in Nat /\ DOMAIN shown = 1 .. Len(shown)
        /\ taken \in Nat
    BY <1>2, LenProperties DEF ScanTyped
  <1>5. ASSUME scan \in Heads
        PROVE  /\ Len(shown) = Min({Limit(scan), Len(lines)})
               /\ Len(lines) <= IF scan = "read_proc_self" THEN 9 ELSE 6
               /\ \A k \in DOMAIN shown : shown[k] = k
    <2>1. Limit(scan) \in Nat /\ Limit(scan) + 1 = IF scan = "read_proc_self" THEN 9 ELSE 6
      BY <1>5 DEF Limit, Heads
    <2>2. PICK lim \in Nat : lim = Limit(scan)
      BY <2>1
    <2>3. Len(shown) = taken /\ \A k \in 1 .. taken : shown[k] = k
      BY <1>2, <1>5 DEF HeadShown
    <2>4. \/ Len(lines) = taken /\ taken <= lim
          \/ Len(lines) = taken + 1 /\ taken = lim
      BY <1>2, <1>5, <2>2 DEF HeadShown
    <2>5. taken \in Nat /\ Len(lines) \in Nat
      BY <1>4
    <2>6. /\ taken = lim \/ taken = Len(lines)
          /\ taken <= lim /\ taken <= Len(lines) /\ Len(lines) <= lim + 1
      BY <2>4, <2>5
    <2>7. Min({lim, Len(lines)}) = taken
      <3> DEFINE S == {lim, Len(lines)}
      <3>1. taken \in S /\ S \in SUBSET Int
        BY <2>5, <2>6
      <3>2. \A y \in S : taken <= y
        BY <2>6
      <3> HIDE DEF S
      <3>3. Min(S) = taken
        BY <3>1, <3>2, MinIs
      <3>4. QED
        BY <3>3 DEF S
    <2>8. QED
      BY <1>4, <2>1, <2>2, <2>3, <2>6, <2>7
  <1>6. ASSUME scan = "read_proc_cpuinfo"
        PROVE  IF Numbers("model name") = {} THEN shown = <<>>
                                             ELSE shown = <<Min(Numbers("model name"))>>
    <2>1. CASE shown = <<>> /\ Numbers("model name") = {}
      BY <2>1
    <2>2. CASE /\ shown = <<Len(lines)>>
               /\ Len(lines) \in Numbers("model name")
               /\ \A k \in Numbers("model name") : k >= Len(lines)
      <3> DEFINE S == Numbers("model name")
      <3>1. S \subseteq 1 .. Len(lines)
        BY <1>4, NumbersInLines
      <3> HIDE DEF S
      <3>2. S \in SUBSET Int /\ Len(lines) \in S
        <4>1. Len(lines) \in S
          BY <2>2 DEF S
        <4>2. 1 .. Len(lines) \subseteq Int
          BY <1>4
        <4>3. QED
          BY <3>1, <4>1, <4>2
      <3>3. \A k \in S : Len(lines) <= k
        <4>1. \A k \in S : k >= Len(lines)
          BY <2>2 DEF S
        <4>2. QED
          BY <1>4, <3>1, <4>1
      <3>4. Min(S) = Len(lines)
        BY <3>2, <3>3, MinIs
      <3>5. QED
        BY <2>2, <3>4 DEF S
    <2>3. QED
      BY <1>2, <1>6, <2>1, <2>2 DEF FirstModel
  <1>7. ShowsSelection
    BY <1>2, <1>5, <1>6 DEF ShowsSelection, NamesListed
  <1>8. MemInfoWhole
    <2>1. SUFFICES ASSUME scan = "read_mem_info", scan_at = "done"
                   PROVE  /\ answer = 0 <=> \A k \in Keys : Numbers(k) # {}
                          /\ lines # <<>> \/ at_end =>
                                \A k \in Keys : mem[k] = IF Numbers(k) = {} THEN 0 ELSE Min(Numbers(k))
      BY DEF MemInfoWhole
    <2>2. /\ \A i, j \in DOMAIN lines : lines[i] = lines[j] /\ lines[i] \in Keys => i = j
          /\ taken = Found("MemTotal") + Found("MemFree") + Found("MemAvailable")
          /\ lines # <<>> \/ at_end =>
                \A key \in Keys : IF Numbers(key) = {} THEN mem[key] = 0 ELSE mem[key] \in Numbers(key)
          /\ answer = 0 <=> taken = 3
      BY <1>2, <2>1 DEF KeysFound
    <2>3. taken = 3 <=> \A k \in Keys : Numbers(k) # {}
      BY <2>2 DEF Found, Keys
    <2>4. ASSUME NEW key \in Keys, Numbers(key) # {}, mem[key] \in Numbers(key)
          PROVE  mem[key] = Min(Numbers(key))
      <3>1. Numbers(key) \subseteq Int
        BY <1>4 DEF Numbers
      <3>2. \A y \in Numbers(key) : mem[key] <= y
        BY <1>4, <2>2, <2>4 DEF Numbers
      <3>3. QED
        BY <2>4, <3>1, <3>2, MinIs
    <2>5. QED
      BY <2>2, <2>3, <2>4
  <1>9. QED
    BY <1>3, <1>7, <1>8

\* However a file ends and whatever lines it has, each reader of lines shows or
\* returns its selection of them, and closes what it opened.
THEOREM ScansExact == ScanSpec => [](ScanCloses /\ ShowsSelection /\ MemInfoWhole)
  <1>1. QED
    BY ScanStart, ScanStep, ScanSafe, PTL DEF ScanSpec

------------------------------------------------------------------------------
(* SysReaders.                                                               *)

\* What is open is told by where the function is.
OpenNow ==
    /\ sys_at \in {"opendir", "done", "type", "temp"} => opened = {}
    /\ sys_at \in {"readdir", "rx", "tx"} => opened = {"dir"}
    /\ sys_at \in {"rx_read", "tx_read"} => opened = {"dir", "fd"}
    /\ sys_at \in {"type_read", "temp_read"} => opened = {"fd"}

\* The turn is about an interface, and what atol made of rx is its own.
OwnTurn ==
    /\ left \subseteq Interface \cup Skipped
    /\ sys_at \in {"rx", "rx_read", "tx", "tx_read"} => name \in Interface
    /\ sys_at \in {"tx", "tx_read"} => rx \in {FileOf(name, "rx"), Zeros}

\* Until a zone without a type ends the loop there is no gap; no zone is shown after it.
LoopOverZones ==
    /\ zone \in 0 .. ZONES /\ gap \in 0 .. ZONES
    /\ zones \subseteq 0 .. ZONES - 1
    /\ gap # ZONES => zone = ZONES
    /\ sys_at \in {"type_read", "temp", "temp_read"} => zone < ZONES
    /\ \A z \in zones : z < zone /\ z < gap
    /\ found = IF zones = {} THEN 0 ELSE 1
    /\ sys_at = "done" /\ reader = "read_cpu_thermal" => (notFound <=> zones = {})

SysTyped ==
    \/ /\ reader = "read_net_stats"
       /\ sys_at \in {"opendir", "readdir", "rx", "rx_read", "tx", "tx_read", "done"}
    \/ /\ reader = "read_cpu_thermal"
       /\ sys_at \in {"type", "type_read", "temp", "temp_read", "done"}

SysInv == SysTyped /\ OpenNow /\ OwnTurn /\ LoopOverZones /\ StatsAreOwn

LEMMA SysStart == SysInit => SysInv
  <1>1. SUFFICES ASSUME SysInit PROVE SysInv
    OBVIOUS
  <1>2. SysTyped /\ OpenNow /\ OwnTurn
    BY <1>1 DEF SysInit, SysTyped, OpenNow, OwnTurn
  <1>3. LoopOverZones /\ StatsAreOwn
    BY <1>1 DEF SysInit, LoopOverZones, ZONES, StatsAreOwn
  <1>4. QED
    BY <1>2, <1>3 DEF SysInv

LEMMA SysStep == ASSUME SysInv, [SysNext]_sysVars PROVE SysInv'
  <1>1. SysTyped /\ OpenNow /\ OwnTurn /\ LoopOverZones /\ StatsAreOwn
    BY SysInv DEF SysInv
  <1>2. CASE OpenDir \/ ReadDir \/ OpenStat("rx") \/ OpenStat("tx")
    <2>1. UNCHANGED <<reader, rx, stats, zone, found, zones, gap, notFound>>
      BY <1>2 DEF OpenDir, ReadDir, OpenStat, zoneVars, netVars
    <2>2. SysTyped' /\ reader = "read_net_stats"
      BY <1>1, <1>2 DEF SysTyped, OpenDir, ReadDir, OpenStat, Reading
    <2>3. OpenNow'
      <3>1. CASE OpenDir
        BY <1>1, <3>1 DEF OpenDir, OpenNow
      <3>2. CASE ReadDir
        BY <1>1, <3>2 DEF ReadDir, OpenNow
      <3>3. CASE OpenStat("rx")
        BY <1>1, <3>3 DEF OpenStat, Reading, OpenNow
      <3>4. CASE OpenStat("tx")
        BY <1>1, <3>4 DEF OpenStat, Reading, OpenNow
      <3>5. QED
        BY <1>2, <3>1, <3>2, <3>3, <3>4
    <2>4. OwnTurn'
      <3>1. CASE OpenDir
        BY <1>1, <3>1 DEF OpenDir, OwnTurn, netVars
      <3>2. CASE ReadDir
        BY <1>1, <3>2 DEF ReadDir, OwnTurn
      <3>3. CASE OpenStat("rx") \/ OpenStat("tx")
        BY <1>1, <3>3 DEF OpenStat, Reading, OwnTurn, netVars
      <3>4. QED
        BY <1>2, <3>1, <3>2, <3>3
    <2>5. LoopOverZones'
      BY <1>1, <2>1, <2>2 DEF LoopOverZones, SysTyped
    <2>6. StatsAreOwn'
      BY <1>1, <2>1 DEF StatsAreOwn
    <2>7. QED
      BY <2>2, <2>3, <2>4, <2>5, <2>6 DEF SysInv
  <1>3. CASE ReadRx
    <2>1. /\ sys_at = "rx_read" /\ sys_at' = "tx" /\ opened' = opened \ {"fd"}
          /\ rx' \in {FileOf(name, "rx"), Zeros}
          /\ UNCHANGED <<reader, left, name, stats, zone, found, zones, gap, notFound>>
      BY <1>3 DEF ReadRx, ReadInto, zoneVars
    <2>2. SysTyped' /\ OpenNow' /\ OwnTurn'
      BY <1>1, <2>1 DEF SysTyped, OpenNow, OwnTurn
    <2>3. LoopOverZones' /\ StatsAreOwn'
      BY <1>1, <2>1 DEF LoopOverZones, StatsAreOwn
    <2>4. QED
      BY <2>2, <2>3 DEF SysInv
  <1>4. CASE ReadTx
    <2>1. /\ sys_at = "tx_read" /\ sys_at' = "readdir" /\ opened' = opened \ {"fd"}
          /\ buf' \in {FileOf(name, "tx"), Zeros}
          /\ stats' = stats \cup {<<name, rx, buf'>>}
          /\ UNCHANGED <<reader, left, name, rx, zone, found, zones, gap, notFound>>
      BY <1>4 DEF ReadTx, ReadInto, zoneVars
    <2>2. SysTyped' /\ OpenNow' /\ OwnTurn'
      BY <1>1, <2>1 DEF SysTyped, OpenNow, OwnTurn
    <2>3. LoopOverZones'
      BY <1>1, <2>1 DEF LoopOverZones
    <2>4. StatsAreOwn'
      <3>1. ASSUME NEW st \in stats'
            PROVE  /\ st[1] \in Interface
                   /\ st[2] \in {FileOf(st[1], "rx"), Zeros}
                   /\ st[3] \in {FileOf(st[1], "tx"), Zeros}
        <4>1. CASE st \in stats
          BY <1>1, <4>1 DEF StatsAreOwn
        <4>2. CASE st = <<name, rx, buf'>>
          <5>1. st[1] = name /\ st[2] = rx /\ st[3] = buf'
            BY <4>2
          <5>2. QED
            BY <1>1, <2>1, <5>1 DEF OwnTurn
        <4>3. QED
          BY <2>1, <4>1, <4>2
      <3>2. QED
        BY <3>1 DEF StatsAreOwn
    <2>5. QED
      BY <2>2, <2>3, <2>4 DEF SysInv
  <1>5. CASE ZoneType \/ ZoneTypeRead \/ ZoneTemp \/ ZoneTempRead \/ ZonesEnd
    <2>1. UNCHANGED <<reader, left, name, buf, rx, stats>> /\ reader = "read_cpu_thermal"
      BY <1>1, <1>5 DEF ZoneType, ZoneTypeRead, ZoneTemp, ZoneTempRead, ZonesEnd, netVars, SysTyped
    <2>2. SysTyped' /\ sys_at' \in {"type", "type_read", "temp", "temp_read", "done"}
      BY <1>5, <2>1
      DEF ZoneType, ZoneTypeRead, ZoneTemp, ZoneTempRead, ZonesEnd, Break, Continue, SysTyped
    <2>3. OpenNow'
      BY <1>1, <1>5
      DEF ZoneType, ZoneTypeRead, ZoneTemp, ZoneTempRead, ZonesEnd, Break, Continue, OpenNow
    <2>4. OwnTurn' /\ StatsAreOwn'
      BY <1>1, <2>1, <2>2 DEF OwnTurn, StatsAreOwn
    <2>5. LoopOverZones'
      <3>1. CASE ZoneType
        BY <1>1, <3>1 DEF ZoneType, Break, LoopOverZones, ZONES
      <3>2. CASE ZoneTypeRead
        BY <1>1, <3>2 DEF ZoneTypeRead, Break, LoopOverZones, ZONES
      <3>3. CASE ZoneTemp
        BY <1>1, <3>3 DEF ZoneTemp, Continue, LoopOverZones, ZONES
      <3>4. CASE ZoneTempRead
        <4>1. /\ sys_at = "temp_read" /\ sys_at' = "type"
              /\ zone' = zone + 1 /\ gap' = gap /\ notFound' = notFound
              /\ \/ found' = found /\ zones' = zones
                 \/ found' = 1 /\ zones' = zones \cup {zone}
          BY <3>4 DEF ZoneTempRead, Continue
        <4>2. zone \in 0 .. 3 /\ gap = 4
          BY <1>1, <4>1 DEF LoopOverZones, ZONES
        <4>3. \A z \in zones : z \in 0 .. 3 /\ z < zone
          BY <1>1 DEF LoopOverZones, ZONES
        <4>4. zones' = zones \/ zones' = zones \cup {zone}
          BY <4>1
        <4>5. ASSUME NEW z \in zones' PROVE z \in 0 .. 3 /\ z < zone' /\ z < gap'
          <5>1. CASE z \in zones
            BY <4>1, <4>2, <4>3, <5>1
          <5>2. CASE z = zone
            BY <4>1, <4>2, <5>2
          <5>3. QED
            BY <4>4, <5>1, <5>2
        <4>6. found' = IF zones' = {} THEN 0 ELSE 1
          <5>1. found = IF zones = {} THEN 0 ELSE 1
            BY <1>1 DEF LoopOverZones
          <5>2. QED
            BY <4>1, <5>1
        <4>7. zone' \in 0 .. 4 /\ gap' \in 0 .. 4 /\ gap' = 4
          BY <4>1, <4>2
        <4>8. \A z \in zones' : z \in 0 .. 4 - 1 /\ z < zone' /\ z < gap'
          BY <4>5
        <4>9. zones' \subseteq 0 .. 4 - 1
          BY <4>8
        <4>10. QED
          BY <4>1, <4>6, <4>7, <4>8, <4>9 DEF LoopOverZones, ZONES
      <3>5. CASE ZonesEnd
        <4>1. /\ sys_at' = "done" /\ notFound' = (found = 0)
              /\ UNCHANGED <<zone, found, zones, gap, reader>>
          BY <3>5 DEF ZonesEnd
        <4>2. found = IF zones = {} THEN 0 ELSE 1
          BY <1>1 DEF LoopOverZones
        <4>3. notFound' <=> zones' = {}
          <5>1. (found = 0) <=> zones = {}
            BY <4>2
          <5>2. QED
            BY <4>1, <5>1, Zenon
        <4>4. QED
          BY <1>1, <4>1, <4>3 DEF LoopOverZones
      <3>6. QED
        BY <1>5, <3>1, <3>2, <3>3, <3>4, <3>5
    <2>6. QED
      BY <2>2, <2>3, <2>4, <2>5 DEF SysInv
  <1>6. CASE UNCHANGED sysVars
    BY <1>1, <1>6
    DEF sysVars, SysInv, SysTyped, OpenNow, OwnTurn, LoopOverZones, StatsAreOwn
  <1>7. QED
    BY <1>2, <1>3, <1>4, <1>5, <1>6, [SysNext]_sysVars DEF SysNext

LEMMA SysSafe == SysInv => SysCloses /\ StatsAreOwn /\ ZonesBeforeGap
  BY DEF SysInv, OpenNow, LoopOverZones, SysCloses, ZonesBeforeGap

\* The numbers printed for an interface are its own, the zones printed come before
\* the first without a type, and nothing is left open, whatever goes away meanwhile.
THEOREM SysReadersExact == SysSpec => [](SysCloses /\ StatsAreOwn /\ ZonesBeforeGap)
  <1>1. QED
    BY SysStart, SysStep, SysSafe, PTL DEF SysSpec

------------------------------------------------------------------------------
(* All of them side by side.                                                 *)

FilesInv == MonitorInv /\ PathInv /\ ScanInv /\ SysInv

LEMMA FilesStart == MCInit => FilesInv
  BY MonitorInit, PathStart, ScanStart, SysStart DEF MCInit, FilesInv

LEMMA FilesStep ==
    ASSUME FilesInv, [MCNext]_<<prog, vars, pathVars, scanVars, sysVars, logVars>>
    PROVE  FilesInv'
  <1>1. [Next]_vars /\ [PathNext]_pathVars /\ [ScanNext]_scanVars /\ [SysNext]_sysVars
    BY DEF MCNext
  <1>2. MonitorInv'
    BY <1>1, MonitorStep DEF FilesInv
  <1>3. PathInv'
    BY <1>1, PathStep DEF FilesInv
  <1>4. ScanInv'
    BY <1>1, ScanStep DEF FilesInv
  <1>5. SysInv'
    BY <1>1, SysStep DEF FilesInv
  <1>6. QED
    BY <1>2, <1>3, <1>4, <1>5 DEF FilesInv

\* Every program that opens, allocates or creates something gives it back on every
\* way out and uses none of it afterwards: no descriptor, block or mutex is left.
THEOREM NothingLeftOpen == MCSpec => []AllClosed
  <1>1. FilesInv => AllClosed
    BY MonitorSafe, PathSafe, ScanSafe, SysSafe DEF FilesInv, AllClosed
  <1>2. QED
    BY <1>1, FilesStart, FilesStep, PTL DEF MCSpec

\* What the readers of /proc and /sys print or return is what they selected from the
\* files they read, for files of any length and any set of interfaces.
THEOREM ReadersExact == MCSpec => []ReadersShowOwn
  <1>1. FilesInv => ReadersShowOwn
    BY ScanSafe, SysSafe DEF FilesInv, ReadersShowOwn
  <1>2. QED
    BY <1>1, FilesStart, FilesStep, PTL DEF MCSpec
==============================================================================
