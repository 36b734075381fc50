# Specifications of c-ache-rein

The repository is a course of small C programs, from variables to a threaded
system monitor. Most of them print the values of expressions; about a dozen have
state that outlives a call, and the last ones have interrupts, signals and
threads. This directory holds TLA+ specifications of those programs, the TLC
configurations that check them, and proofs for TLAPS. Definitions keep the C
names. Lines after a `\* Mutant:` comment are wrong variants of the definition
that follows them; they are used only to confirm that a property can fail.

## The system

Every program is one `main.c` with its own `main`; no program calls another.

| program | state | operations | what is hard | what makes it correct |
|---|---|---|---|---|
| m4-ex02 queue | `data[]`, `head`, `tail`, `count` | init, enqueue, dequeue, peek | `data[]` is never initialized; head = tail when full and when empty; both indices wrap | it is a bounded FIFO |
| m3-ex05 ring | the same, bytes | init, push, pop | pushes from an interrupt inside pop (LESSONS.md) | FIFO between calls; no byte read that nobody pushed |
| m4-ex03 production ring | `data[]`, free-running `head`, `tail` | push, pop, push_buf, pop_buf, flush | indices wrap at 2^32; overrun; producer and consumer at once | unread bytes intact and in order; buffer calls all or nothing |
| m4-ex05 frame parser | state, frame buffer, three counters | one engine, seven events, eight actions | any event in any state; frames too long; calls nested in interrupts | buffer and checksum are what came in; every frame ends once |
| m5-ex05 threads | two counters, a mutex | four threads, main creates, joins, destroys | lost updates; who still uses the mutex | exact locked counter; exact range of the raced one |
| m5-ex04 signals | three flags, the tick counter | three handlers, the main loop | a handler between any two accesses | a stop stops; a reload is done once for each request |
| m5-ex06 monitor | `running`, `g_data`, `g_mutex` | collector thread, dashboard, SIGINT | five fields written one by one; shutdown while locked | a snapshot is one publication; Ctrl+C ends both loops |
| m3-ex06 sensor machine | state, reading, error count | table engine, actions | events out of order; the counter's width | count, state and reading tell the same story |
| m4-ex01 stack | `data[]`, `top` | init, push, pop, peek | top starts at -1 and moves inside the subscript | it is a bounded LIFO |
| m2-ex06 list | heap nodes, `head` | push front and back, walk, free | failed malloc; next of a freed node; head kept | the pushed bytes in order, nothing leaked |
| m4-ex04 tree | heap nodes, `root` | insert, search, find_min, free, inorder, height | child pointers rewritten on the way back; order of frees | sorted, complete, found on one path |
| m2-ex05 sensor, m2-ex03 malloc | two blocks, blocks of main | create, add, print, destroy | the second malloc fails; registers never set | all or no blocks; only set registers printed |
| m1-ex06 log | a file that outlives the process | append, read back | no write is checked; crash in mid-line | what one run could read every later one can; what is read is before the first damaged entry |
| m5-ex01 descriptors, m5-ex02 and m5-ex03 readers | descriptors, directories, buffers | open, read, scan, close | any open or read fails, break and continue in between | nothing left open; what is shown is from the right file |
| m3-ex03 MMIO | three registers | init, send, error check | read-modify-write; unbounded poll | the error flag stays; every send returns |
| m3-ex04 fixed point | ADC reading, voltage, temperature | two conversions | 32-bit products, rounding | no overflow, bounded error |
| m1-ex04, m2-ex04 | arrays and strings of the caller | nine loops | terminators, crossing indices, bounds | same result as the definition, nothing beside it touched |
| m3-ex01, m1-ex03, m1-ex05, m1-ex01, m1-ex02, m2-ex01, m2-ex02, m3-ex02 | local variables | single expressions, straight-line code | nothing | nothing to state |

The last row is left out for good (see Not modelled). PROJECT.json lists the
hazards line by line.

## Modules

**BoundedFifo** is the abstract queue: a sequence and the result of the last
call. It knows nothing of arrays.

**Queue** (m4-ex02) has one action per call and outcome. `data` starts with any
content, because `queue_init` does not clear it. The refinement mapping `Contents`
is the walk of `queue_print`: `count` elements from `head`, modulo the size.

**CircBuf** (m3-ex05) is the same structure with pop split at its accesses to the
ring, `count--` into its load and its store. `preempts` is chosen once: FALSE,
pushes come between calls; TRUE, they come as an interrupt anywhere in pop. The
interrupt itself is one step, as it runs to completion. `unread` is a history
variable. The fields are not volatile, so a compiler may do more than the model
lets it; the model is the program order that the notes compile with (`-g`).

**CBuf** (m4-ex03) has the calls of one thread. `head` and `tail` count modulo
`INDEX_MOD` (2^32 in C, 8 in the run) and `& CBUF_MASK` is `% CBUF_SIZE`. The loops
of `cbuf_push_buf` and `cbuf_pop_buf` are one inner call per step, with `toPush` and
`toPop` what is left of them. Clients are not restricted: they overrun the buffer
and flush at any time.

**CBufSpsc** (m4-ex03 again) splits push, pop and flush at their accesses to the
shared fields, in program order. Initially `isr` is chosen: a thread as producer,
any interleaving; or an interrupt, which runs to completion, against a main that
also flushes. Flush by one of two threads is not modelled: it stores to `head`,
which the comment on that field gives to the producer. No push is ever refused
(see the finding on `cbuf_count`), so the producer may lap the consumer any number of
times; the properties say what holds until then and after.

**FrameTable** (m4-ex05) is the transition table and the actions as functions
on the context. A byte is the set of its 1 bits, which makes `^` the symmetric
difference and lets a small set of bits stand for eight. The default case of the
table is its `action_ignore` rows. **FrameParser** runs `sm_handle_event` one call
at a time with every event in every state; `fed`, `started` and `aborted` are
histories. **FrameParserIsr** splits the engine into its lookup, its action and
its write of `current`, for three callers of increasing priority.

**ThreadsMutex** (m5-ex05) has the main thread as the list of its calls, and each
loop as test, lock, load, store, unlock. The increment is per iteration: the notes
build the program without optimization to keep the race.

**Signals** (m5-ex04) interleaves the handlers with the main loop. A pending
signal absorbs another of its kind. A signal that arrives before its `sigaction`
kills the process. Handlers are one step each: none touches what another writes.
Time is left out, so `sleep(1)` may take any time or be cut short. **MCProcesses** puts
ThreadsMutex and Signals side by side in one run: `prog` says which of the two runs.

**SystemMonitor** (m5-ex06) interleaves the collector, main and SIGINT. The five
fields are written and copied one per step, under the mutex. A value is the
number of its sample; samples are numbered modulo `Samples`. `Junk` is what an
uninitialized local holds after a read of /proc that failed and was not noticed.

**Stack** (m4-ex01) has one action per call, over an array with any initial
content. **BoundedLifo** is what it promises; the refinement mapping `StackItems` is
the walk of `stack_print`.

**SensorMachine** (m3-ex06) is the table and its engine, with `errors` and `cycle` as
histories of the events since the last reset.

**Periph** (m3-ex03) has each register as a set of bits; `|=` and `&=` on the volatile
status word are a load and a store. `RaiseError` is the hardware the bank stands in
for. A periph_send waits by not being enabled until `TXREADY` is set.

**ArrayLoops** (m1-ex04, m2-ex04) runs one turn of a loop per step, for every content of
two arrays and every length (`find_max` reads `arr[0]` first and so is called with one
element at least). Reading past the end of an array would be an error
of TLC itself. `my_strlen` and `my_strcpy` occur in both programs and are modelled once.

**Arithmetic** (m3-ex04 and `calc_cpu_usage` of m5-ex06) follows every one of the 4096
ADC readings through both conversions, and every pair of samples of counters that
do not go back. `read_cpu_stat` may fail, which the collector ignores: then the samples
hold any values. The float result of `calc_cpu_usage` is the quotient it is made of.

**LinkedList** (m2-ex06) and **BinaryTree** (m4-ex04) have the heap as a function from
addresses to nodes: `malloc` is any free address or a failure, `free` removes it from
the domain. The list's walks are one node per step. The tree's recursive calls are
one per step over a stack of frames; the stores of the returning frames of an
insert write back the pointer they had, except the last, so they are one step.
`bst_inorder` and `bst_height` change nothing and are recursive functions on the allocated nodes.

**SensorHeap** (m2-ex05) has the two blocks of a sensor, and its registers, `Unset` as
malloc leaves them.

**Paths** is for functions that only acquire, use and give back (m2-ex03's and m5-ex01's
`main`, and four readers): a table of steps for each, with the step that follows a
failure. What the readers among them read is left out: for them the model says
only that the descriptor is given back. **LineScan** has the five loops over lines or directory entries,
**SysReaders** the two readers of m5-ex03 with several files to each turn. What a line
or a buffer holds is its origin: the number of the line, the file read, or zeros.

**SensorLog** (m1-ex06) runs the program several times on one file. `fclose` stores a line
whole, in part or not at all, because nothing checks it. A part either stops `fscanf`
(`cut`) or is read with a shorter last number (`altered`). A crash may come at any point.

**MCComponents** and **MCFiles** put the components that one caller drives side by side:
`prog` is chosen at the start, that component runs and the others stay in one fixed
initial state, so that their states add up and do not multiply. They also hold the
properties that span components (`HeapSafe`, `AllClosed`, `ReadersShowOwn`,
`AllCallsReturn`).

The modules named **..._proofs** hold the theorems: one for each of ThreadsMutex, Signals, CBuf,
CBufSpsc, CircBuf and FrameParser, **Components_proofs** for what MCComponents puts together, and
**Files_proofs** for what MCFiles does, the monitor included.

A property with a summary name (`RingIntact`, `TreeIntact`, `HeapSafe`, ...) is a
conjunction of named parts in the same module; each part has its own comment.

## Runs

| run | instance | what it shows |
|---|---|---|
| components | queue 4 slots, stack 3, arrays of 3 cells over {0, 1, 2}, list of 3 nodes, tree of 4 nodes and keys, 4096 ADC readings, counters up to 4, error_count mod 4 with 6 errors | `ImplementsFifo`, `ImplementsLifo`; `ListIntact`, `TreeIntact`, `HeapSafe`; `SensorConsistent`, `ErrorFlagKept`; `LoopsMeetDefinition`, `ArithmeticExact`; every call returns |
| circbuf | 3 slots, 2 bytes, 5 unread | `CallsImplementFifo` without preemption; with it, `RingIntact` and `NoPhantomByte` still hold |
| circbuf_count | same | violated: `count` after an interrupt inside `count--` |
| cbuf | 4 slots, indices mod 8, 6 unread, buffers up to 3 | index arithmetic through the wrap, overrun, exact buffer calls |
| cbuf_count | same | violated: a full buffer counts 0 |
| cbuf_spsc | 4 slots, mod 8, 9 unread | every order of accesses, overrun included: which byte a pop takes, what the sides agree on, when they share a slot |
| cbuf_spsc_data | same | violated: the producer writes the slot being read |
| frame | 2 bits, 3-byte frames, 2 frames of up to 4 bytes | buffer, checksum and counters for every event sequence |
| frame_nested | 1 bit, 6 calls | violated: ERROR is left without RESET |
| processes | 4 iterations; auto-stop at 3, 4 signals | exclusion, exact counter, exact race range, all joins return; bounded stop, no spurious reload, termination |
| signals_reload | auto-stop at 3, 4 signals | violated: a SIGHUP is forgotten |
| files | 2 sample numbers, files of up to 10 lines, 2 interfaces, 2 runs of the log | whole snapshots and shutdown of the monitor; `AllClosed` and `ReadersShowOwn` for every failure; the log over crashes |

The bounds are enough for the cases that matter. Rings have 3 or 4 slots, so
head and tail wrap several times, pass each other and meet full and empty; in cbuf
the index space is two rings, so indices wrap at another place than slots do, and
6 unread bytes overrun 4 slots by 2. In cbuf_spsc 9 unread bytes are two laps and one
byte, one more than the index can tell apart. Frames reach one byte beyond their buffer.
Three iterations are already enough for the lowest race result, 2; the run has
4. Four signals allow each kind to be pending while another is handled and one to
be repeated. Two sample numbers are enough to tell two successive collections
apart, and a snapshot of mixed fields can only mix successive ones if any.
Three list nodes have a first, a middle and a last; four tree nodes make every shape
up to a path of height 4 and a full tree with one node below it. Arrays of three cells
have both an odd and an even length to reverse, and strings of every order with a
prefix among them. The counter of errors wraps once at 4 with 6 errors. Files of ten
lines go past both limits, 5 and 8. Two runs of the log let one run's damage meet the
next run's entries; the effect of an earlier run is in the file alone.

The components of one caller are fair while a call runs (`PeriphFairness`,
`ListFairness`, `TreeFairness`): nothing preempts them for good, and no new call is
ever owed.

Fairness of the threads is weak and per thread: main and each thread go on while they can, which
is the scheduler's promise to a runnable thread. Nothing is assumed of signals or
interrupts: none need ever come. `BothEnd` of the threads needs no strong
fairness of the mutex, as a thread gives it up for good after its last iteration;
`StopsOnSigint` needs none either, as the collector locks at most once more after
`running` is 0.

## Findings

* `cbuf_count` is 0 when `CBUF_SIZE` bytes are unread (NOTES.md:192 calls the
  formula correct). `cbuf_is_full` is never true, push never refuses.
* The producer of that buffer writes the byte that the consumer is reading, once
  `CBUF_SIZE` bytes are outstanding. NOTES.md:194 says of `data[]`: no simultaneous access.
  `SharedSlotIsOverrun` says that it happens in no other push.
* `count` of the byte ring drifts when push interrupts pop (LESSONS.md:1121 calls it
  ISR-safe; line 803 qualifies that).
* The frame parser leaves ERROR without RESET when calls nest (LESSONS.md:1509).
* A SIGHUP handled between the test and the clearing of `reload` is lost.

Seen while reading and not given a run: the automatic stop is at 50 ticks, its
comment says 10; the "checksum fail flow" of m4-ex05's main sends no
CHECKSUM_FAIL; `store_byte` does not sum bytes beyond the buffer; the monitor's first
`sleep(2)` stands in for waiting until a sample is published; return codes of its
readers are dropped. `log_write` is called a success whatever `fprintf` and `fclose`
did, so "wrote 3 entries" may be untrue (`ClaimTrueUnlessFault` says when it holds).
`read_cpu_thermal` reads `cooling_deviceN/temp`, a file that cooling devices do not
have, and would print a negative temperature with two minus signs. The comment in
`read_net_stats` says it finds the first interface that is not loopback; it prints all.
The readers that print 5 or 8 lines read one more. An edit of the status register
overwrites an error that the hardware raises between its load and its store, so
`ErrorFlagKept` is about errors raised at any other moment. For the same reason
`AllClosed` says nothing of the log, whose two functions return only before `fopen`
succeeds or after `fclose`.

## Proofs

Every invariant and every action property of the passing runs is a theorem of its
specification, and so are the two refinements; only the three liveness properties
are not. A run shows a property on one instance, the theorem for every value of the constants
that satisfies the named assumptions. The inductive invariants were checked with TLC
on the instances of the runs before they were proved. Each proof has a lemma for the initial
state, one for each action or group of actions, and one that draws the property from
the invariant.

| module | theorems | the invariant adds |
|---|---|---|
| ThreadsMutex_proofs | types, `MutualExclusion`, `SafeExact`, `RaceBounds`, `DestroyedUnused`, for any `ITERATIONS` | which threads exist at each call of main (`MainOrder`), iterations done (`LoopCount`), the holder is inside (`Held`), the locked counter is the iterations done (`Counted`), a raced store is at most that, and at least 2 at the last (`Raced`) |
| Signals_proofs | `FlagsFollowHandlers`, `StopsWithinATick`, for any automatic stop and number of signals | a signal sent is counted once, pending or handled (`Accounted`); a tick begins before the stop (`LoopGoesOn`, `TickIsDue`) |
| CBuf_proofs | `RingIntact`, `PopLoopNeverEmpty`, `BufCallsDecideExactly`, for any size and index width | `head` as `tail` plus the unread bytes modulo the width (`Agreement`); what is left to pop is at most the masked count (`Loops`) |
| CBufSpsc_proofs | `IndicesAgree`, `PopsNewestLap`, `SharedSlotIsOverrun`, for any size, index width and number of unread bytes | which slot holds each byte no later one overwrote (`BytesIntact`); the same with the reading index of a flush half done (`ReadAt`), and what each side holds of its call (`PushUnderWay`, `PopUnderWay`) |
| CircBuf_proofs | `RingIntact`, `NoPhantomByte`, `CallsImplementFifo`, for any size | `count` never exceeds what is unread but for the byte pop holds (`CountBelow`); without preemption it is exact (`CountExact`) |
| FrameParser_proofs | `FrameIntact`, `FrameAccounting`, `FrozenOnceComplete`, for bytes of any width and frames of any length | the checksum bit by bit: it is set when an odd number of bytes has it (`IsXor`) |
| Files_proofs | `WholeSnapshots`, `AllClosed`, `ReadersShowOwn`, `ClaimTrueUnlessFault`, `ShowsUpToFirstCut`, `ShownAgain`, for any number of samples, lines, interfaces and runs | who holds the mutex where (`Ownership`), how far the holder has copied (`PartWritten`, `PartCopied`); the last lines of the log are this run's (`OwnLinesLast`), and what was shown is stored (`ShownIsStored`); what may be open before each step of each path (`MayHold`, `StepSafe`); what each loop has selected so far |
| Components_proofs | `ImplementsFifo`, `ImplementsLifo`, `RingAgreement`, `SensorConsistent`, `ErrorFlagKept`, `ArithmeticExact`, `LoopsMeetDefinition`, `ListIntact`, `TreeIntact`, `HeapSafe`, `MCTypes` | see below |

**Rings.** The slot of an index is a remainder, and the solvers do no remainders of
variables. Each ring module proves the few facts it needs once: a multiple of the size
differs from another by the size at least (`Apart`), the remainder is unique, and two
indices less than a size apart share no slot. The overwritten slot is then another than those of
the unread bytes, and moving the read index by one renumbers them.

**Refinements.** A call of the queue, the stack or the byte ring maps to the same call of the
abstract one. What has to be shown is that the walk of the ring that is the refinement
mapping becomes, as a sequence, its own `Append` or `Tail` (`EnqueueAppends`, `DequeueTail`).

**List.** The invariant has a witness: a path of distinct nodes from `head` that is all
of the heap (`ListWhole`); with one node not linked yet while `list_push_back` walks
(`ListPushing`); from the cursor on while `list_free` runs (`ListFreeing`). No recursive
definition of reachability is needed.

**Tree.** The witness is `span`: for each node, the set of the keys a search can be looking for
when it gets there. Spans of two nodes are nested or disjoint, and each pointer roots the
span it stands for. That is what insert, search and find_min rely on, and what `bst_free`
takes apart from the leaves (`TreeFreeing`). `bst_inorder` and `bst_height` are recursive
functions on the nodes of the heap. That the recursion has a value is proved
from the number of keys under a node, which is less for its children (`WalkExists`);
that the walk is sorted and complete (`InorderLists`) and the height fits (`HeightsFit`)
by induction on the same number. `PowersOfTwo` comes from counting subsets.

**Loops.** Each loop of ArrayLoops (nine in the programs, two of them twice) has its own
invariant of what it has done after `i` turns (`MemcpyTurn` to `StrcmpTurn`); that of `reverse_array` is which elements have
changed places.

**Fixed point.** The proof enumerates no readings: each division is bounded by its remainder,
once for all voltages the first conversion can give.

**Induction.** It is over sets of naturals (`LeastNat`, `InductionOnSet`), as the
library's induction takes an operator. The tables of the state machines are functions of state
and then event, not of pairs, so that a proof can expand one row.

**Side by side.** A step of MCComponents is a step of each component or leaves it alone
(`StepOfEach`), so each component's invariant holds of the whole; likewise MCFiles.

Assumptions. Those on constants are ASSUMEs of the modules and are evaluated by the
runs; some theorems name one more. Those that limit what is claimed:

* `SpscAssumption` wants an index space of two rings at least; with one ring only, a full
  and an empty buffer have the same indices. 2^32 and 16 give 2^28.
* `WideInt` (Arithmetic): the integer holds a full-scale voltage in fixed point, which
  `int32_t` does.
* `MainFillsAll` (SensorHeap): main makes the three calls of `sensor_add_reg` and its sensor has
  three registers; with more, `sensor_print` would read what malloc left.
* `Unset` is no natural and `Running` no integer: the marks of an uninitialized
  register and of a loop still running are not values of the program.

Only model-checked: `BothEnd`, `StopsOnSigint` and
`AllCallsReturn`, which are liveness under fairness, and the five violated
properties of the findings. FrameParserIsr has no theorem, as its run is one of these.

## Not modelled

* m3-ex01 and m1-ex03 are macros and functions of one expression each; the read and
  write they make of a register is modelled in Periph.
* m1-ex05 prints and updates one structure by value and by pointer; m1-ex01, m1-ex02,
  m2-ex01, m2-ex02 and m3-ex02 print the values of local variables.
* The part of m3-ex04 that shows the fixed-point macros on float constants.
* The text of numbers and lines: `atol`, `sscanf` of a number, widths and padding, the copy of
  the sensor's name in m2-ex05.
* Time: `sleep` may take any time. So nothing orders the monitor's first dashboard
  after the first sample.

## Plan

All components that keep state are modelled and all safety properties of the passing runs are
proved. What may follow:

1. The safety that FrameParserIsr keeps under nesting (which fields are still consistent when
   calls interrupt each other), stated, checked and proved.
2. For the liveness properties, the safety half of each argument: a measure that every
   step of a call decreases, as an action property.
