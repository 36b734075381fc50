----------------------------- MODULE SysReaders ------------------------------
(* read_cpu_thermal and read_net_stats of module5 ex03. Interfaces and zones *)
(* may go away at any time, so any open or read may fail; buffers are reused *)
(* from one file and one turn to the next.                                   *)
EXTENDS Naturals, FiniteSets

CONSTANTS Interface     \* names in /sys/class/net that are neither "." nor "lo"

ASSUME SysReadersAssumption == IsFiniteSet(Interface)

VARIABLES reader,       \* the function called
          sys_at,       \* where it is
          opened,       \* the descriptors open: "dir", "fd"
          left,         \* the directory entries still to come
          name,         \* the entry of this turn
          buf,          \* the contents of buf: the file read, Zeros or Garbage
          rx,           \* what atol made of it
          stats,        \* history: what was printed, <<name, rx, tx>>
          zone, found,  \* read_cpu_thermal's i and found
          zones,        \* history: zones whose temperature was printed
          gap,          \* history: the zone at which the type could not be read
          notFound      \* history: "no thermal zones found" was printed

sysVars == <<reader, sys_at, opened, left, name, buf, rx, stats,
             zone, found, zones, gap, notFound>>

ZONES == 4
Zeros == <<"zeros">>
Garbage == <<"garbage">>
FileOf(e, what) == <<e, what>>
Skipped == {"dot", "lo"}

SysInit == /\ \/ reader = "read_net_stats" /\ sys_at = "opendir"
              \/ reader = "read_cpu_thermal" /\ sys_at = "type"
           /\ opened = {} /\ left = Interface \cup Skipped /\ name = "dot"
           /\ buf = Garbage /\ rx = Garbage /\ stats = {}
           /\ zone = 0 /\ found = 0 /\ zones = {} /\ gap = ZONES /\ notFound = FALSE

zoneVars == <<zone, found, zones, gap, notFound>>
netVars  == <<left, name, buf, rx, stats>>

OpenDir == /\ sys_at = "opendir"
           /\ \/ opened' = {"dir"} /\ sys_at' = "readdir"
              \/ opened' = {} /\ sys_at' = "done"
           /\ UNCHANGED <<reader, netVars, zoneVars>>

\* The entries come in any order. readdir's NULL is the end or an error: either
\* ends the loop.
ReadDir == /\ sys_at = "readdir"
           /\ \/ opened' = opened \ {"dir"} /\ sys_at' = "done" /\ UNCHANGED <<left, name>>
              \/ \E e \in left :
                    /\ left' = left \ {e} /\ name' = e
                    /\ sys_at' = IF e \in Skipped THEN "readdir" ELSE "rx"
                    /\ UNCHANGED opened
           /\ UNCHANGED <<reader, buf, rx, stats, zoneVars>>

Reading(what) == IF what = "rx" THEN "rx_read" ELSE "tx_read"

\* A failed open goes to the next entry.
OpenStat(what) == /\ sys_at = what
                  /\ \/ opened' = opened \cup {"fd"} /\ sys_at' = Reading(what)
                     \/ sys_at' = "readdir" /\ UNCHANGED opened
                  /\ UNCHANGED <<reader, netVars, zoneVars>>

\* What a read into buf leaves in it; a failed one leaves what memset put there.
\* Mutant: no memset between the two files.
ReadStale(e, what) == {FileOf(e, what), buf}
ReadInto(e, what) == {FileOf(e, what), Zeros}

\* Mutant: fd is closed after the number is used, and not when it is skipped.
RxKeepsFd == /\ sys_at = "rx_read"
             /\ buf' \in ReadInto(name, "rx") /\ rx' = buf'
             /\ sys_at' = "tx"
             /\ UNCHANGED <<reader, opened, left, name, stats, zoneVars>>
ReadRx == /\ sys_at = "rx_read"
          /\ buf' \in ReadInto(name, "rx") /\ rx' = buf'
          /\ opened' = opened \ {"fd"}
          /\ sys_at' = "tx"
          /\ UNCHANGED <<reader, left, name, stats, zoneVars>>

ReadTx == /\ sys_at = "tx_read"
          /\ buf' \in ReadInto(name, "tx")
          /\ opened' = opened \ {"fd"}
          /\ stats' = stats \cup {<<name, rx, buf'>>}
          /\ sys_at' = "readdir"
          /\ UNCHANGED <<reader, left, name, rx, zoneVars>>

\* The loop over zones: on, or to its end.
\* Mutant: a zone without a type is skipped.
BreakSkips == zone' = zone + 1 /\ sys_at' = "type"
Break    == zone' = ZONES /\ sys_at' = "type"
Continue == zone' = zone + 1 /\ sys_at' = "type"

\* "no more zones" ends the loop, and so does an empty or failed read.
ZoneType == /\ sys_at = "type" /\ zone < ZONES
            /\ \/ opened' = {"fd"} /\ sys_at' = "type_read" /\ UNCHANGED <<zone, gap>>
               \/ Break /\ gap' = zone /\ UNCHANGED opened
            /\ UNCHANGED <<reader, netVars, found, zones, notFound>>
ZoneTypeRead == /\ sys_at = "type_read"
                /\ opened' = opened \ {"fd"}
                /\ \/ sys_at' = "temp" /\ UNCHANGED <<zone, gap>>
                   \/ Break /\ gap' = zone
                /\ UNCHANGED <<reader, netVars, found, zones, notFound>>
ZoneTemp == /\ sys_at = "temp"
            /\ \/ opened' = {"fd"} /\ sys_at' = "temp_read" /\ UNCHANGED zone
               \/ Continue /\ UNCHANGED opened
            /\ UNCHANGED <<reader, netVars, found, zones, gap, notFound>>
\* Mutant: found is set once the file is open.
TempReadFound == /\ sys_at = "temp_read"
                 /\ opened' = opened \ {"fd"}
                 /\ Continue /\ found' = 1
                 /\ zones' \in {zones, zones \cup {zone}}
                 /\ UNCHANGED <<reader, netVars, gap, notFound>>
\* An empty or failed read goes to the next zone; else the temperature is printed.
ZoneTempRead == /\ sys_at = "temp_read"
                /\ opened' = opened \ {"fd"}
                /\ Continue
                /\ \/ UNCHANGED <<found, zones>>
                   \/ found' = 1 /\ zones' = zones \cup {zone}
                /\ UNCHANGED <<reader, netVars, gap, notFound>>

ZonesEnd == /\ sys_at = "type" /\ zone = ZONES
            /\ notFound' = (found = 0)
            /\ sys_at' = "done"
            /\ UNCHANGED <<reader, opened, netVars, zone, found, zones, gap>>

SysNext == \/ OpenDir \/ ReadDir \/ OpenStat("rx") \/ ReadRx \/ OpenStat("tx") \/ ReadTx
           \/ ZoneType \/ ZoneTypeRead \/ ZoneTemp \/ ZoneTempRead \/ ZonesEnd
SysSpec == SysInit /\ [][SysNext]_sysVars

------------------------------------------------------------------------------
\* The two numbers printed for an interface are from its own files, or 0 when a
\* read failed: none is left in buf from the other file or another interface.
StatsAreOwn ==
    \A st \in stats : /\ st[1] \in Interface
                      /\ st[2] \in {FileOf(st[1], "rx"), Zeros}
                      /\ st[3] \in {FileOf(st[1], "tx"), Zeros}

\* Whatever fails and whichever continue or break is taken, no descriptor is
\* open at the next turn, and none at all, the directory's included, at the end.
SysCloses == /\ sys_at \in {"readdir", "rx", "tx", "type", "temp"} => "fd" \notin opened
             /\ sys_at = "done" => opened = {}

\* Zones are shown only before the first whose type cannot be read, and the
\* message that there are none is printed exactly when none was shown.
ZonesBeforeGap == /\ \A z \in zones : z < gap
                  /\ sys_at = "done" /\ reader = "read_cpu_thermal" => (notFound <=> zones = {})
==============================================================================
