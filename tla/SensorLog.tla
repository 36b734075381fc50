----------------------------- MODULE SensorLog -------------------------------
(* The sensor log of module1 ex06 over several runs of the program: three    *)
(* appends, none of whose writes is checked, then a read of the whole file.  *)
(* What reaches the file survives the process; what stdio holds does not.    *)
EXTENDS Naturals, Sequences

CONSTANTS RUNS      \* bound: how often the program is started

ASSUME SensorLogAssumption == RUNS \in Nat

VARIABLES log,      \* sensor.log: the entries in it and how each was stored
          run,      \* history: which start of the program this is
          log_at,   \* where main is
          entry,    \* main's i
          pos,      \* how many entries log_read has passed
          log_shown,\* what log_print has shown in this run
          claimed,  \* "wrote 3 entries" was printed in this run
          faulty,   \* history: a write of this run failed
          shown_before  \* history: what the last run that read the file to its end showed

logVars == <<log, run, log_at, entry, pos, log_shown, claimed, faulty, shown_before>>

\* What is stored of an entry: all of it; so little that its last number has not
\* begun ("cut"); or part of that number ("altered"). The next entry is appended
\* right behind it, on the same line of the file. After a cut the text that follows
\* is not what fscanf looks for, and the loop ends there. After an altered number
\* fscanf has all four values, the number another one, and the '\n' of its format
\* matches the missing end of line as well: it goes on at the next entry.
Line(e, how) == [entry |-> e, how |-> how]
HowStored == {"whole", "cut", "altered"}

LogInit == /\ log = <<>> /\ run = 1 /\ log_at = "open"
           /\ entry = 0 /\ pos = 0 /\ log_shown = <<>>
           /\ claimed = FALSE /\ faulty = FALSE /\ shown_before = <<>>

\* Mutant: "w" for "a".
OpenTruncates == /\ log_at = "open"
                 /\ \/ log' = <<>> /\ log_at' = "close"
                    \/ log' = log /\ log_at' = "exit"
                 /\ UNCHANGED <<run, entry, pos, log_shown, claimed, faulty, shown_before>>
\* Mutant: an entry that cannot be opened for is passed over.
LogOpenSkips == /\ log_at = "open"
                /\ log_at' \in {"close", IF entry = 2 THEN "read" ELSE "open"}
                /\ entry' = IF log_at' = "close" THEN entry ELSE entry + 1
                /\ claimed' = (log_at' = "read")
                /\ UNCHANGED <<log, run, pos, log_shown, faulty, shown_before>>
\* fopen and fprintf of log_write; when the open fails main returns 1.
LogOpen == /\ log_at = "open"
           /\ log_at' \in {"close", "exit"}
           /\ UNCHANGED <<log, run, entry, pos, log_shown, claimed, faulty, shown_before>>

\* fclose writes what fprintf left in the buffer: all of it, nothing, or a part.
\* log_write returns 0 whatever happened.
Stored == {<<Line(<<run, entry>>, how)>> : how \in HowStored} \cup {<<>>}
LogClose == /\ log_at = "close"
            /\ \E w \in Stored : /\ log' = log \o w
                                 /\ faulty' = (faulty \/ w # <<Line(<<run, entry>>, "whole")>>)
            /\ entry' = entry + 1
            /\ IF entry < 2 THEN log_at' = "open" /\ UNCHANGED claimed
                            ELSE log_at' = "read" /\ claimed' = TRUE
            /\ UNCHANGED <<run, pos, log_shown, shown_before>>

\* log_read's fopen.
ReadOpen == /\ log_at = "read"
            /\ log_at' \in {"scan", "exit"}
            /\ UNCHANGED <<log, run, entry, pos, log_shown, claimed, faulty, shown_before>>

Readable(l) == l.how # "cut"
\* Mutant: an entry that cannot be read is skipped.
ScanSkips == /\ log_at = "scan"
             /\ IF pos < Len(log)
                THEN /\ pos' = pos + 1
                     /\ log_shown' = IF Readable(log[pos + 1]) THEN Append(log_shown, log[pos + 1]) ELSE log_shown
                     /\ UNCHANGED log_at
                ELSE log_at' = "done" /\ UNCHANGED <<pos, log_shown>>
             /\ UNCHANGED <<log, run, entry, claimed, faulty, shown_before>>
\* The loop ends at the first entry fscanf does not convert all of.
ScanEntry == /\ log_at = "scan"
             /\ IF pos < Len(log) /\ Readable(log[pos + 1])
                THEN /\ pos' = pos + 1
                     /\ log_shown' = Append(log_shown, log[pos + 1])
                     /\ UNCHANGED log_at
                ELSE log_at' = "done" /\ UNCHANGED <<pos, log_shown>>
             /\ UNCHANGED <<log, run, entry, claimed, faulty, shown_before>>

\* The process is killed; what the buffer held may have been written in part.
Crash == /\ log_at \notin {"exit", "done"}
         /\ \E w \in IF log_at = "close" THEN Stored ELSE {<<>>} : log' = log \o w
         /\ log_at' = "exit"
         /\ UNCHANGED <<run, entry, pos, log_shown, claimed, faulty, shown_before>>

Restart == /\ log_at \in {"exit", "done"} /\ run < RUNS
           /\ run' = run + 1 /\ log_at' = "open"
           /\ entry' = 0 /\ pos' = 0 /\ log_shown' = <<>>
           /\ claimed' = FALSE /\ faulty' = FALSE
           /\ shown_before' = IF log_at = "done" THEN log_shown ELSE shown_before
           /\ UNCHANGED log

LogNext == LogOpen \/ LogClose \/ ReadOpen \/ ScanEntry \/ Crash \/ Restart
LogSpec == LogInit /\ [][LogNext]_logVars

------------------------------------------------------------------------------
\* "wrote 3 entries" is printed only after three opens succeeded, and it is true
\* when in addition no write failed: the run's entries are then the last three.
ClaimTrueUnlessFault ==
    claimed => /\ entry = 3
               /\ faulty \/ /\ Len(log) >= 3
                            /\ \A k \in 1 .. 3 :
                                  log[Len(log) - 3 + k] = Line(<<run, k - 1>>, "whole")

\* One entry cut short by a fault or a crash hides every later one, of later runs
\* too: log_read shows exactly what is before the first such entry, in order, and
\* the whole file when there is none.
ShowsUpToFirstCut ==
    log_at = "done" =>
        /\ log_shown = SubSeq(log, 1, Len(log_shown))
        /\ \A k \in DOMAIN log_shown : log_shown[k].how # "cut"
        /\ \/ Len(log_shown) = Len(log)
           \/ log[Len(log_shown) + 1].how = "cut"

\* What one run has read back and shown, every later run that reads the file shows
\* again, first and unchanged: no crash, full disk or half-written entry in between,
\* in that run or another, costs an entry that was once readable.
ShownAgain ==
    log_at = "done" => /\ Len(shown_before) <= Len(log_shown)
                       /\ shown_before = SubSeq(log_shown, 1, Len(shown_before))
==============================================================================
