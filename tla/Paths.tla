------------------------------- MODULE Paths ---------------------------------
(* Straight-line programs that acquire something, use it and give it back,   *)
(* with an early return at each thing that can fail. A path is a table of    *)
(* steps; what they print and compute is left out.                           *)
EXTENDS Naturals, Sequences

\* A step: what it does to which variable's block or descriptor, the step
\* after it, and the one after it has failed.
Get(v, ok, fail)  == [do |-> "get", var |-> v, ok |-> ok, fail |-> fail]
Try(v, ok, fail)  == [do |-> "use", var |-> v, ok |-> ok, fail |-> fail]
Use(v, next)      == Try(v, next, next)
Put(v, next)      == [do |-> "put", var |-> v, ok |-> next, fail |-> next]
\* free(p) where p may be NULL.
Free0(v, next)    == [do |-> "free", var |-> v, ok |-> next, fail |-> next]
Return == 0

\* main of module2 ex03: three blocks one after another, then three whose
\* malloc is not checked.
malloc_main ==
    << Get("reg", 2, Return), Use("reg", 3), Put("reg", 4),
       Get("registers", 5, Return), Use("registers", 6), Put("registers", 7),
       Get("heap_buf", 8, Return), Use("heap_buf", 9), Put("heap_buf", 10),
       Get("heap1", 11, 11), Get("heap2", 12, 12), Get("heap3", 13, 13),
       Free0("heap1", 14), Free0("heap2", 15), Free0("heap3", Return) >>

\* Mutant: the failed write returns without closing.
fd_main_leaks ==
    << Get("fd", 2, Return), Try("fd", 3, Return), Put("fd", 4),
       Get("fd", 5, Return), Try("fd", 6, 11), Put("fd", 7),
       Get("fd", 8, Return), Use("fd", 9), Use("fd", 10), Put("fd", Return),
       Put("fd", Return) >>
\* Mutant: the descriptor is closed before the seek.
fd_main_early ==
    << Get("fd", 2, Return), Try("fd", 3, 11), Put("fd", 4),
       Get("fd", 5, Return), Try("fd", 6, 11), Put("fd", 7),
       Get("fd", 8, Return), Put("fd", 9), Use("fd", 10), Use("fd", Return),
       Put("fd", Return) >>
\* main of module5 ex01: write, close, read, close, seek and read, close; one
\* variable fd throughout. Step 11 is the close on a failed write or read.
fd_main ==
    << Get("fd", 2, Return), Try("fd", 3, 11), Put("fd", 4),
       Get("fd", 5, Return), Try("fd", 6, 11), Put("fd", 7),
       Get("fd", 8, Return), Use("fd", 9), Use("fd", 10), Put("fd", Return),
       Put("fd", Return) >>

\* read_proc_uptime of module5 ex02, read_sys_file of ex03.
read_proc_uptime == << Get("fd", 2, Return), Use("fd", 3), Put("fd", Return) >>
read_sys_file    == << Get("fd", 2, Return), Use("fd", 3), Put("fd", Return) >>

\* read_cpu_stat and read_uptime of module5 ex06.
read_cpu_stat == << Get("fp", 2, Return), Use("fp", 3), Put("fp", Return) >>
read_uptime   == << Get("fp", 2, Return), Use("fp", 3), Put("fp", Return) >>

Table == [malloc_main |-> malloc_main, fd_main |-> fd_main,
          read_proc_uptime |-> read_proc_uptime, read_sys_file |-> read_sys_file,
          read_cpu_stat |-> read_cpu_stat, read_uptime |-> read_uptime]

VARIABLES path,     \* the function called
          step,     \* where it is in its table
          holds     \* the variables whose block or descriptor is open

pathVars == <<path, step, holds>>

PathInit == path \in DOMAIN Table /\ step = 1 /\ holds = {}

ThisStep == Table[path][step]

PathNext ==
    /\ step # Return
    /\ UNCHANGED path
    /\ \/ step' = ThisStep.ok
          /\ holds' = CASE ThisStep.do = "get"            -> holds \cup {ThisStep.var}
                        [] ThisStep.do \in {"put", "free"} -> holds \ {ThisStep.var}
                        [] OTHER                       -> holds
       \/ /\ ThisStep.do \in {"get", "use"}
          /\ step' = ThisStep.fail
          /\ UNCHANGED holds
PathSpec == PathInit /\ [][PathNext]_pathVars

------------------------------------------------------------------------------
\* Every way out of every function, early or not, leaves nothing open, and no
\* variable is given a second block or descriptor while it still has one.
NothingLeaked == /\ step = Return => holds = {}
                 /\ step # Return /\ ThisStep.do = "get" => ThisStep.var \notin holds

\* What a function reads, writes or closes is open at that point: nothing is
\* used after it is closed, or closed twice.
UsesOpen == step # Return /\ ThisStep.do \in {"use", "put"} => ThisStep.var \in holds
==============================================================================
