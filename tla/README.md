# coreboot: specifications and proofs

This directory verifies parts of the coreboot tree beside it (`src/`): TLA+
modules translated from the C code, TLC configurations that check them on small
instances, and theorems that TLAPS checks for every value of the constants.
`PROJECT.json` maps each definition to the lines it models and lists components,
runs, mutants, hazards, findings and theorems.

## 1. The system

coreboot runs once per boot, as a chain of stages (bootblock, romstage,
postcar, ramstage), each loaded by the one before. Up to romstage the code is
sequential and short-lived. Ramstage is where the program has state that
several actors share: it walks the *boot state machine*, and device code called
from it may start *cooperative threads*, which sleep on *timers*. What must
survive a power cut or a reset goes to NOR flash through small log-structured
stores (MRC cache, SMM store, event log). After ramstage only the SMM handler
remains, in which every processor arrives at once.

This tree is a fork that brings up one more board (`mainboard/gooxi/g4del`);
what it adds to the common code is screen and serial instrumentation
(`lib/prog_loaders.c`, `doc/`), which changes none of the control modelled here.

### Inventory

| Component | State | Operations | Interacts through | Hard because | Correct when |
|---|---|---|---|---|---|
| Timer queue, `lib/timer_queue.c` | heap of pointers, each timer's expiration | schedule, run | callback into threads | heap order, overflow, full queue, re-arming from the callback | earliest due timer fires, exactly once |
| Threads, `lib/thread.c` | active thread, runnable and free lists, handles, mutexes | run, yield, join, lock, disable/enable, end | timers; boot state blocks | who runs next after whose sleep; stacks reused; the idle thread must remain | no thread lost or doubled, critical sections atomic, handles and mutexes truthful, sleepers resume |
| Boot states, `lib/hardwaremain.c` | current phase, callbacks and blockers per phase | walk, schedule callback, block, unblock | callbacks, timers (threads) | callbacks and blocks from within callbacks, loops, refused calls | no phase left while blocked, no callback in time missed, boot ends |
| Ramstage, both together | | `thread_run_until()` | | a thread's life against the phase it blocks | the phase waits for the thread, the tables are never changed in the middle of the walk |
| Region file, `lib/region_file.c` | metadata log and data area in flash; slot and range in memory | init, update, read | flash driver | power cut between writes; full log; several erase sectors | last completed update is what the next boot reads |
| MRC cache, `drivers/mrc_cache/mrc_cache.c` | region file with header and hash; stash in CBMEM | load, stash, update, invalidate | region file, boot states | two writes for one item; decisions on half the item | stale or torn data is never used, and is replaced |
| SMM store, `drivers/smmstore` | log of key/value records; block commands | read, append, clear | SMI from the payload | power cut in an append | the entries marked active are found, in order, and nothing else; among them all that were appended with success |
| Event log, `drivers/elog` | mirror in memory, log in flash | init, add, shrink, sync | flash; SMI | mirror against flash, erase then write | mirror and flash agree after each call, no new event is lost to shrinking |
| MP init, `cpu/x86/mp_init.c` | flight plan counters, one mailbox per processor | start, barriers, run on all, park, restart | shared memory | real concurrency, timeouts, a call block on the caller's stack | each processor does each piece of work once, none runs code that is gone |
| SMM handler, `cpu/x86/smm/smm_module_handler.c` | lock | enter, serve, leave | all processors; the two services above | real concurrency | one server, the others wait until it is done |
| IMD/CBMEM, `lib/imd.c` | root and entries, top down | create, add, find, remove, recover, lock down | all stages | recovery from memory contents | entries disjoint, in the limit, recovered as written |
| CBMEM console, `lib/cbmem_console.c` | ring buffers, cursor and flag | put byte, copy, dump | all stages, SMM, resets | wrap-around, copy between buffers, SMIs in between | the bytes written, once and in order; what is missing is accounted for |
| Memory ranges, `lib/memrange.c` | sorted list, free entries | insert, hole, update tag, fill holes, steal | resource allocator, MTRRs, bootmem | splitting and merging, no entry left | the list means the function from addresses to tags it should |
| MTRRs, `cpu/x86/mtrr/mtrr.c` | address space, solution, temporary ranges; registers of each processor | set up, use temporary range, remove it | memory ranges, boot states, MP init | covering by powers of two with overlaps, too few registers, a range that does not fit while another is in use | each page has the type asked for, and temporary ranges are gone when the payload starts |
| Resource allocator, `device/resource_allocator_v4.c` | device tree, ranges | two passes | memory ranges | arithmetic | resources disjoint and in their windows |
| CBFS, FMAP, loaders, rmodule | read-only flash | look up, map, load | threads (preload) | | |
| vboot, TPM, EFI variables, capsules | | | | | |
| Console, tables, drivers, boards, payloads, utilities | | | | | |

`PROJECT.json` gives each of these a status and, where it is not modelled, the
reason; its "hazards" are the list from which the properties were chosen.

## 2. The modules

    TimerSet         what the timer queue promises (abstract)
      ^ implemented by
    TimerQueue       the heap; MCTimerQueue, LibProofs
      ' its promise is used by
    CoopThreads      threads; MCCoopThreads, CoopThreadsProofs
    BootState        boot states; BootTable (the table of the code),
                     MCBootState, BootStateProofs
      \ both instantiated by
    Ramstage         the composition; MCRamstage, RamstageProofs

    StoredItem       what a region file promises (abstract)
      ^ implemented by (one erase sector)
    RegionFile       the log in flash; MCRegionFile, RegionFileProofs
      | instantiated by
    MrcCache         the training data cache over many boots; MCMrcCache,
                     MrcCacheProofs

    SmmHandler       the lock all processors meet at
    SmmStore         the variable store in flash
    Elog             the event log in flash
      \ all three extended by
    Smm              what one SMI after the other does; MCSmm, CpuProofs

    MpInit           start-up and work of the processors; MCMpInit,
                     CpuProofs
    CbmemConsole     the log of a boot over stages and resets; MCCbmemConsole,
                     LibProofs
    Memranges        tagged address ranges
      ^ extended by
    Mtrr             memory types computed from them; MCMemranges,
                     MtrrProofs

**TimerQueue** (`lib/timer_queue.c`). `queue`, `num_entries` are the struct,
`expiration` the field of each client's structure. `timer_sched_callback()` is
`SchedNegative`, `SchedRefused` or `SchedInsert`, the last followed by one
`SiftUp` per loop iteration and `InsertDone`; `timers_run()` is `RemoveHead`,
`SiftDown`*, `RemoveDone`. The time and the `long` of the first test have their
own moduli, because `(long)us` is narrower than the clock on a 32-bit build.
The loops are steps so that their invariants can be written down; the code runs
to completion, so no call starts while `pc` is not "idle".

**TimerSet** is the same interface without the heap: a bounded set of armed
timers. `TimerQueue!ImplementsTimerSet` is the refinement, with `due` mapped to
the expirations of the tracked timers; sifting is stuttering.

**CoopThreads** (`lib/thread.c`). A step is what happens between two points at
which another thread may run, and loops that sleep (join, lock) have a step per
iteration. `runnable` and `free` are the two stacks, `due` stands for the timers
of the sleeping threads and relies on TimerSet's promise: `TimersRun` resumes a
thread whose timer is due and which none precedes. `sections` is a ghost: it
counts the critical sections that a thread has open, whatever the flag
`can_yield` says, and `CriticalSection` is about the count, not about the flag.
Every thread calls anything at any time within what the code asserts, for
instance join and lock only where it may yield or has nothing to wait for; the
lines of the header say which. A thread may end, and main may run the timers,
with sections open: the code does not test for that. Times are relative to the
clock, so that time passes for ever in finitely many states; by how much a
thread is overdue is forgotten, the order of overdue threads is not.

**BootState** (`lib/hardwaremain.c`). `walk` is the place of `main()` in
`bs_walk_state_machine()` and `bs_call_callbacks()`; wherever the state machine
calls other code (`Open`), callbacks, blocks and unblocks may come in, from
"agents" that block one phase and later unblock it. `RunState` gives what each
`run_state()` may return: BootTable has the twelve states of the code. `held`,
`granted`, `scheduled`, `timely`, `called` record what callers asked for; they
are read by properties and by the callers' own guards, never by the machine.

**Ramstage** composes the two: workers of CoopThreads are the agents of
BootState, and main's walk goes on only while main is the running thread.
`hardwaremain.c` calls out of itself in four places. In a callback and in
`run_state()`, as in workers, any device code runs (`InDeviceCode`);
`bs_run_timers(0)` resumes at most one sleeper; and between any two statements
main may print (`PrintBegins`, `PrintDelays`, `PrintEnds`): `vprintk()` takes the
spin lock of the console, which disables yielding, and its drivers call `udelay()`,
which sleeps if it may. That nobody else gets the processor there rests on that
lock (`OthersWhenOpen`). Further, `thread_run_until()` starts a thread and blocks
a phase in one step (the new thread blocks before anybody else runs), undone
when the thread ends.

**RegionFile** (`lib/region_file.c`). `offsets` and `data` are the flash, `f`
is `struct region_file`; `pc`, `value` and `cursor` say how far
`region_file_update_data_arr()` has got. Each write of an offset or of a data
block and each erased sector is a step, since after each the power may be cut
(`PowerCut`) or the access fail (`AccessFails`), leaving nothing, a part or all
of its effect: an offset that is only partly programmed reads as some number
between the one meant and 0xffff, a block as garbage. `region_file_init()` is
the operator `RegionFileInit`, with the binary search as a recursive function.
The flash driver is there by its effect: sectors are erased in order, and
programming only clears bits.

**StoredItem** is one item with Begin, Work, Done and Cut. `ImplementsStoredItem`
maps its content to what `region_file_data()` would return after a restart.

**MrcCache** (`drivers/mrc_cache/mrc_cache.c`) runs boots one after the other,
each in normal or recovery mode and with either version of the firmware, over
an instance of RegionFile with all its steps and cuts: load, train and stash,
update, invalidate. A stored value is its first block, the metadata with the
hashes, and its data blocks, so a value is torn wherever the cut falls.
`candidates` records which data the cache may legitimately hold.

**MpInit** (`cpu/x86/mp_init.c`). Each processor has its place (`pc`, and `bpc`
for the boot processor) and its record of the flight plan; a step is one access
to memory that another processor can tell apart. `barrier` and `entered` are
the fields of the records, `slot` is `ap_callbacks[]`, `frame` the places on
the boot processor's stack to which mailboxes point: when a call returns, its
place is free and the next call may write there, so that a late processor may
copy something else (`CopyCallback`, `RunsGarbage`). `area` is what the default
SMM area holds, first the start code, then the relocation handler, then what
was there before; a processor that runs what is gone is "lost". `start_aps()`,
`bsp_do_flight_plan()`, `mp_run_on_aps()` and its relatives, `mp_park_aps()`
and `restart_aps()` are the boot processor's steps. Each wait that has a time
limit may expire at any moment at which it has not been fulfilled, both waits of
`smm_initiate_relocation_parallel()` included: when the first expires no interrupt
is sent, and when the second does, the lock is released while the interrupt is
pending (`smi`) and comes later (`RelocationSmi`), wherever the processor is by then.
A wait that ends in time means that the interrupt was delivered and handled. A startup
interrupt that cannot be sent is in `StartExpired`.

**SmmHandler** (`cpu/x86/smm/smm_module_handler.c`) is `smm_handler_start()`:
enter, exchange the lock, serve or spin, release, signal the end of the SMI. The
release comes before the end of the SMI is signalled, so that the next SMI finds
processors still inside. **SmmStore** (`drivers/smmstore/store.c`, version 1) is
the region word by word: the scan for the end of the entries is a recursive
function, an append writes one word per step, a clear erases one sector per
step, and between any two of them power may be lost or an access fail, which
leaves the word or sector untouched, torn (`Torn`) or done (`AccessDone`): the
driver may report a failure of the wait behind a program command that has taken
effect. `stored` records the entries whose last write, which marks them active,
has taken effect. **Elog** (`drivers/elog/elog.c`) has the log as a sequence of
events of some length, the mirror, `nv_last_write` and the steps of
`elog_sync_to_nv()`; lost power or a failed access leaves some or all of what
was to be written. **Smm** joins them: the processor that has the lock serves
one command (or none, when the SMI was for something else), and works on it one
flash access at a time while the others spin; a reset may come at any time.

**CbmemConsole** (`lib/cbmem_console.c`). `buf` holds the three ring buffers
(before memory, static, in CBMEM). `cbmemc_tx_byte()` is two steps, the load of
the cursor and the store of byte and cursor, because an SMI handler that prints
may come in between; `copy_console_buffer()` sends its bytes one by one through
the same two steps and ends by invalidating its source. The stages follow each
other, a reset may come at any step and leaves the buffer in CBMEM and, as the
board has it, the one before memory.

**Memranges** (`lib/memrange.c`). `entries` is the list, `free` how many
entries are left in the supply. The loops that trim, split, drop and merge in
place are recursive functions that return both, one step of a loop being an
operator of its own (`MergeNext`, `RemoveFrom`, `FillNext`). What a list means is the
function from addresses to tags (under "Meaning" in the module); each
operation is compared with what it should do to that function.

**Mtrr** (`cpu/x86/mtrr/mtrr.c`) uses that list as `addr_space`, with a supply
that does not run out, as in ramstage. Ranges are inserted one after the other, for
the resources and for the temporary ranges alike (`InsertAll`).
`calc_var_mtrr_range()` is a recursive function of what is left, which gives the
blocks in order; `optimize_var_mtrr_hole()`, which counts registers
for one alignment after the other, is the least end of least cost (its 32-bit
arithmetic is exact under `WidthAssumption`, section 5); a solution
is a default type and a sequence of blocks, with the number of temporary ranges
noted for the property. `commit_var_mtrrs()` writes it or, if it does not fit,
nothing. `Effective` is what the processor makes of overlapping registers. The
boot processor sets up first, because `mp_run_on_all_cpus()` and the callers
before it do so; temporary ranges come after that (mtrr.h:117-119). `user` says
for each behaviour whether any caller operates on the list or this code.

The type invariants are definitions of the modules; the runs list the one of
CoopThreads, and those of TimerQueue, CoopThreads, BootState, RegionFile,
MrcCache, Smm, Memranges and CbmemConsole are proved.

Operators named `Mutant...` are the definition below them with a plausible bug.
Nothing uses them; each property is shown to fail when one takes the place of
its original.

## 3. The runs

| Run | Question | Bounds |
|---|---|---|
| timer_queue | Is the heap in order, a set of timers, and what TimerSet promises, also when it is full, a due time wraps or a delay is "negative"? | 5 timers, 4 entries (three levels), 4 instants, a `long` narrower than the clock |
| coop_threads | Places, critical sections, handles, mutexes, under every order of calls; does every sleeper resume? | main, idle, 2 workers; 1 handle, 1 mutex, sleeps of 0 and 1, sections nested twice |
| boot_state | Blocks and callbacks in a walk with a branch | 4 states, 2 callbacks, 2 agents, 2 blocks |
| ramstage | Threads and walk together: does nobody else run in the middle of the walk although it prints, is a phase held for its thread, and does the boot end although threads block it and sleep? | main, idle, 2 workers; 2 states, 1 callback, 2 blocks |
| region_file | Is a region file of one erase sector a stored item, under cuts and failures? Do updates end? | 8 blocks, 2 offsets per metadata block, values of 1, 3, 7 (fills it) and 8 (too large) blocks |
| mrc_cache | Is only good training data used, and what was updated usable? | one sector of 8 blocks, 3 results of training, 2 versions |
| mrc_cache_stale | The same for two erase sectors (violated) | two sectors of 4 blocks |
| mrc_cache_uptodate | Is an invalid slot overwritten? (violated) | as mrc_cache |
| mp_init | Does anybody run code that is gone, relocate together with another that did not give up waiting, or miss a call? Do the boot processor's waits end? | the boot processor and 2 more, a mailbox without owner, 2 places on the stack, 1 restart, 1 expired wait |
| smm | One server? Are entries marked active and added events where they should be after lost power and failures? Does everybody leave? | 2 processors; a region of 3 sectors of 3 words, entries of up to 1 word of key and value, 1 fault; a log of 11 units, events of 1 and 2, shrunk by 4, 1 failure |
| memranges | Does each operation do to addresses what it should, also with no entry left? Is the stolen range the best? Do the MTRRs give each page the type asked for, with temporary ranges and, but on a resume with `post_cpus_init()`, after them? | any caller: 5 aligned blocks of 2, 2 tags, 0 to 4 entries in supply; MTRRs: 1734 memory maps over 24 pages (a third of them `late`), 4 GiB at page 16, 6 registers of which 1 is the system's, 3 temporary ranges and room for 2, 2 processors |
| console | Are the bytes in CBMEM in order and once, and is what is missing accounted for? | buffers of 2, 2 and 5 symbols, 6 bytes of stages, 2 of SMM, 2 resets |

Why these are enough. In the heap a slot interacts with its parent and its two
children; four entries have a root with two children, of which one has a child,
and SiftInv is proved for every capacity. Two workers, with main and idle, give
a thread that starts, joins or waits for another while a third runs; the lists
have an inner element. A control block is reused with the same handle or without
one. Two nested sections tell a count from a flag. A time step of one and sleeps
of 0 or 1 give sleepers that are due together, in either order, and not yet due.
Safety is proved for any number of handles, mutexes and nested sections. In the
boot states a chain of similar states repeats itself: the short table keeps one
state before the branch, the branch, both of its targets. With two agents and
two blocks, one blocks a phase while another holds it or has left it. The
assumption of the proofs, that the table only leads forward, is evaluated on the
code's full table (`CodeLeadsForward` in MCBootState). In the region file, 8
blocks with 2 offsets in each metadata block (8 in the code) give up to three
metadata blocks, so that the binary search branches, and logs that run out of
slots as well as logs that run out of blocks; the largest value leaves just one
block for metadata, and the value beyond it does not fit. `Unallocated` is a
little above the size of the region, so that a torn offset may lead into the
metadata, into the data or outside. Nothing bounds the number of cuts, failures,
updates or boots. In mp_init two processors besides the boot processor make a
barrier that one has reached and the other has not, and a lock that two contend
for; the mailbox without an owner is what `run_ap_work()` must not wait for
(CONFIG_MAX_CPUS is an upper bound). Each relocates, so a late interrupt of one
meets the relocation of another, the end of the plan, a call, or a restart. Two
places on the stack let a later call lie where an earlier one was, or elsewhere.
One expired wait may be any of them. In smm an entry of no, one or two words of
body and its two sizes and end byte (3 to 5 words) puts an entry across each
sector boundary, and a second one does or does not fit behind it. The log has
room for a few events, and the threshold is reached with different lengths left
over; what follows a fault is not bounded. The services keep to regions of their
own, so a behaviour uses one of them. In memranges five blocks give an entry two
neighbours on each side, so every case of trimming, splitting and merging
occurs, unaligned arguments included, and the supply runs out. The record of the
last operation is left out of the view: no action reads it, and the action
properties see every step. The memory maps of the MTRRs end at, before and
behind powers of two, have uncacheable pieces inside, at the end, across 4 GiB
and right below it, and frame buffers, one of them above 4 GiB behind a gap,
with and without what lies above 4 GiB: both default types come out, holes are
carved, write-combining is given up, solutions fit or not, and a second
temporary range fails while the first is in use. In the console each buffer
wraps, the one in CBMEM also over the warning that a copy adds and in a later
boot. The safety results do not rest on these bounds where section 5 proves
them. `CHECK_DEADLOCK FALSE` stands where the system ends (the boot leaves for
the payload; the clock is at its last instant; all processors are parked; the
bounds of the console are used up); CoopThreads and Smm never stop and are
checked for deadlock.

## 4. Fairness

- *CoopThreads*: time passes; the idle thread loops; the loops of join and lock
  run; whoever runs leaves its critical sections, from the innermost outwards
  (strong fairness for each nesting level);
  a thread gives way again and again (strong: it can do so only while it runs).
  The last is what cooperative threads owe each other; device code meets it by
  `udelay()`, which yields. Nothing is assumed of which thread gets a mutex.
- *Ramstage*: time, idle and main go on, printing and critical sections end, a
  thread's function returns some time, so what it blocked is unblocked. It may
  sleep as often as it likes before; that main's loop gives it the processor is
  what `ramstage` shows.
- *RegionFile*: the loop of an update runs on (weak); flash accesses may fail
  and the power may be cut as often as they like.

- *MpInit*: every processor runs on (weak, for each). A spin lock needs no more,
  since each takes it once.
- *Smm*: every processor runs on (weak, for each), in SMM and, to take an SMI,
  outside of it. SMIs, resets and faults need not come.

TLC only checks liveness: TLAPS does not reason about ENABLED here.

## 5. What is proved

All theorems hold for every value of the constants that meets the named
assumptions:

- a positive capacity of the timer queue; at least main's thread and the idle
  one (`NumThreads >= 2`); null values that are no members; a table of states
  that only leads forward (the code's does, see `CodeLeadsForward`);
- region file: whole erase sectors, at least two blocks, none beyond what an
  offset can say (`GeometryAssumption`); each value has a size; erased and
  garbage blocks are no pieces of values;
- event log: an event has a length of 1 to `MaxEvent` (ELOG_MAX_EVENT_SIZE, 127),
  header and mark (8 and 11 bytes) are together not longer than that, what is kept
  free for two events is not more than what shrinking drops, and the log holds
  what is dropped and three events, as `elog_find_flash()` and its assertion
  have it (`ShrinkAssumption`);
- SMM store: sectors divide the region; no word of a value is taken for erased;
- console: each of the three bodies has room for a byte; a printed byte, which is
  a number, is not taken for the warning, an SMM byte or an unwritten one, nor a
  position that was read for none (`SymbolAssumption`);
- lists of ranges: addresses end at a multiple of the alignment, callers pass
  ranges below it, no tag stands for "no tag", and holes are filled only up to a limit
  that leaves no entry in front of a hole beyond it (`Fillable`, a guard of
  `RangesNext`; memrange.c:344-352 has no such check). The supply of entries is any number,
  so that these theorems are also about the list of Mtrr, which never runs out;
- MTRRs (`BoardAssumption`, `TempAssumption`): page numbers have `AddressBits`
  bits, 1 MiB lies below 4 GiB and 4 GiB is in reach; resources and temporary
  ranges lie within the addresses; there is memory at 0, without which the
  addresses in front of the first resource would have the default type, since
  `memranges_fill_holes_up_to()` leaves them; and no temporary range is
  write-combining, as no call of `mtrr_use_temp_range()` asks for that (the
  solution with it may give it up). The numbers of registers, processors and
  ranges are any, and resources may overlap as they like, but for the next two
  items;
- no resource goes on over 4 GiB that ends in front of a gap, and one that ends at
  4 GiB in front of a gap is uncacheable, as the flash is that the processor starts from
  (`FlashAssumption`). mtrr.c:181 does not check this; section 6 says what the code
  does otherwise;
- write-back ranges end below 2^30 pages, which is 4 TiB (`WidthAssumption`).
  `optimize_var_mtrr_hole()` keeps its end in a `uint32_t` and, like its caller,
  takes `__ffs()` and `__fls()` of a `u32` and shifts an `int` (mtrr.c:486-494,
  585); under this assumption that is the arithmetic of the model, without it it
  is not.

Facts about data that need induction are proved without the library's
induction theorems, whose operator parameter the provers cannot instantiate:
a set of natural numbers that is not empty has a least element (`Least`, from the
library's theorem that `<` is well-founded), and a least counterexample contradicts
the step (`Induct`; `DownInduct` for the scans that run towards the end of a
region). This also gives that each recursive function exists, and its equation
(`SumsDefined`, `ScanIs`, `SearchDefined`).

*LibProofs* is about two parts of `lib/`, the heap and the log.

For TimerQueue the inductive invariant is `TypeOK`, `NoDuplicate` and `SiftInv`.
`HeadIsFirst` alone is not inductive: it says nothing of what comes up when the
head goes. `SiftInv` says that the array is a heap except at the slot being
sifted, whose children are in order with its parent; each sift step moves the
exception one level. A maximal-index argument (`HeapHead`) gets the head's
minimality from the order of parents and children: the least slot that is
smaller than the head would have a smaller parent. `Implementation` maps each
step to a step of TimerSet or a stutter; its arithmetic lemma is that the code's
overflow test is exactly "the sum does not fit" (`OverflowIsWrap`), its set
lemma that `num_entries` counts the tracked timers.

For CbmemConsole the two properties say what is in the CBMEM buffer, and the
invariant has to say it of all that is still on its way there (`Way`: the log in
CBMEM, behind it what would be copied from the buffer in use, behind that what
is being stored). `ConsoleInvariant` has three parts.

- `Shape` says where each buffer is valid, what has been loaded and what is left of a
  copy. What `cbmemc_tx_byte()` has loaded may be behind the buffer, but only over
  slots an SMI has filled since (`Loads`); what is left to copy is the end of what
  the source holds (`Halves`).
- `Orders` says that all of it, with the next byte at its end, is in order and each
  gap is a reset's or has the warning in it (`Orderly`), and the same of what will be
  in front of a byte between its load and its store (`View`).
- `Wholes` says, as long as no SMI has printed, that nothing is missing in front
  unless the buffer has overflowed (`Covered`), that the last byte printed is
  the last on the way (`Ends`) and nowhere else (`Once`), and that what has been
  copied may be copied again after a reset (`Halfway`).

What a ring holds is a sequence (`ReadRound`, `ReadStraight`), and a store puts a
symbol at its end and, when it is full, drops the first (`PutIs`). So each step
does one of a few things to a sequence: the first goes (`Shifts`), a symbol that
is no byte comes between (`Inserts`), some behind a warning or lost ones go
(`Omits`), an SMM byte takes a place (`Blots`), the next byte comes (`Extends`).
That order, cover and end are kept is proved of these once, and then each
action is shown to be one of them. A byte in an early buffer is the
delicate one (`Drops`): when that overflows, a warning appears in front of what
will be copied, and afterwards the byte behind the warning goes each time. A
reset either takes at most the byte being stored (`ShortReset`) or all that is
not in CBMEM (`LongReset`), and counts it as lost. `InOrder` excepts a copy from a
buffer that survives the reset, and `WholeUnlessFlagged` SMM output: the proofs
use these just where the code needs them, in `ResetKinds` and in `Wholes`. The
invariant was model-checked first, on several sizes of the buffers.

*CoopThreadsProofs.* The invariant adds to the type: `Places` (each thread in
one place, idle at the end of the runnable stack, main below nobody it did not
give way to), `WaitersYield` (a thread inside join or lock may yield), `Owned`
(a mutex has one owner, which is alive), `Published` (a started handle belongs
to one live thread, others to none) and `SectionsCounted` (the flag is one less
the sections open, also for a control block that is used again). Places is
proved once, over a list of the ways a step can move threads (`StepKinds`), not
per action. From the invariant follow NoThreadLost, ChainEndsWell (so the die()
of `schedule()` is dead code), OneOwner, HandlesTrue, CriticalSections. The last
is about the ghost: that sleep, wait and start are refused by the flag shows it
only because the flag says what the ghost says, over nested sections and reused
blocks (`YieldsOutside`); the switches which test nothing, a thread's end and
`timers_run()`, are the exceptions that the property names.

*BootStateProofs.* The invariant joins the place in the walk with the tables:
what is complete is behind, a refused agent's phase is behind, a timely
callback that was not called is still in its phase's list, the blockers of a
phase ahead are exactly the agents granted. From it follow BlockersCount,
BlocksHold, TimelyCalled, RefusalsStand.

*RamstageProofs.* Ramstage's invariant is that of the threads and that of the
boot states side by side, instantiated from their modules, with what ties
them: others than main run only where the walk calls other code
(`OthersWhenOpen`), main has a critical section open as long as it prints, and a
block is granted only to a live thread. That printing gives nobody the processor
follows from this and `SectionsCounted`. Each step is
a step of the threads, of the boot states, or of both (`StepOK`), which gives
`RamstageImplements`: Ramstage implements the specifications of both, so what is
proved of them holds of it. `PhaseWaitsForThreads` follows from `BlocksHold`
and the tie. The `Same...` lemmas say that the instance in the model and the one
in the proofs define the same.

*RegionFileProofs.* The first part says what the binary search finds: in a log
whose first k + 1 slots rise and whose others are unallocated, the last
allocated one (`Begun`, `FileAt`). The invariant then says that the flash is blank, is
spoilt by a torn offset, which the next start recognises, or is such a log with
nothing behind its end (`FlashInv`); that what is in memory is what a start
would read (`MemoryInv`); and how far an update has got (`PcInv`). It is inductive
only if a sector is all there is: with two, a region whose first sector has been erased
looks blank and is not, which is the finding of *mrc_cache_stale*. So
`Invariant`, `MemoryMatches` and `StoresItem` have the hypothesis `SectorBlocks =
Blocks`, while `TypeCorrect` has none. `StoresItem` is the refinement of
StoredItem: what a start would return changes only while an update is in
progress, to nothing, to something damaged or to the new value, and it is the new
value when the update reports success.

*MrcCacheProofs.* The cache rests on two facts about its region file: data
enters the latest slot only through an update in progress (`StartAfter`), and an
update that returned success is there in full (`DoneIsWhole`). `CandidatesInv`
says that whatever the latest slot begins with is a candidate; a value whose
data blocks are valid behind it is whole, hence good. `ResultInv` keeps what a
success means until the boot ends. Both are needed together with the whole
invariant of the region file, and with its hypothesis.

*CpuProofs* is about Smm and MpInit. Of Smm, `OneServer` is not inductive: it
must be known that a busy store has a processor that works on it and that the
other store is at rest. `LockInv` adds this (`AtRest`), and that the lock is
taken exactly while somebody serves. The steps of the stores matter in this
respect only, so each is first cut down to whether it begins or goes on
(`StoreStepBusy`, `LogStepBusy`, `LogCommandRests`, `ResetRests`), and the
processors are looked at after that. From it follow OneServes and
LeavesWhenDone, for any number of processors and any sizes of the stores. The
event log has an invariant of its own, of which `Sized` holds always and `Sound`
as long as no access has failed: the mirror fits with a reserve (`Roomy`), and
the flash is as far behind it as the step of `elog_sync_to_nv()` says
(`InStep`): the same, or a prefix that ends at `nv_last_write`, or erased. That
an event is found after the call is that the mirror is what was found at the
start and the event, or an end of this after a mark (`Recorded`). For the store,
`StoreInv` says that the scan ends behind the entries marked active and
finds these (`Resting`), and that while one is written the words in front of it
give the same scan, those written are the entry's, and the rest is erased
(`Writing`). A word that is torn, or that is done and then reported as failed, leaves
the entry without its end byte, or the scan without an end, which the next start
takes for what it is; only the last word, torn or not, decides whether the entry is
active, and the record goes with it. Each step of Smm
is a step of at most one of them (`StepOfLog`, `StepOfStore`).

Of MpInit, what the boot processor may do alone follows from the order of the
records of the flight plan. The invariant bounds each processor from both sides:
it is not further than what the boot processor has released, and not behind the
last barrier at which the boot processor met everybody (`Between`). The second
comes from counting: `entered` of a record is the number of processors that have
come as far as it (`Counts`), and a set of that many processors is all of them.
For the mailboxes the invariant says that an empty one belongs to a processor
that has copied what it was given (`Delivery`), and as many empty ones as there
are processors are just theirs, since those without an owner stay full; so the
call is still on the stack whenever it is copied. These parts hold as long as no
wait expires, and so `WorksAlone` and `NoneLost` do. As long as they hold, processors
relocate one at a time, with the handler in place. When waits expire the spin lock is
released with an interrupt still pending, so two may be in the handler at once; what is
left, and proved as well, is that the lock keeps apart all who still wait for
theirs (`OneRelocates`). Each action is
first cut down to what it does to the plan, or to the mailboxes (`ApKinds`,
`CallKinds`, `MailKinds`), and the conjuncts are proved over these.

What a call returns holds whatever expires, so its invariant
does without the one above and follows the calls that were abandoned too. Only
its owner empties a mailbox, once per call: as long as a call is made, an empty
mailbox belongs to a processor that has taken something since (`InCall`), and a
copy is marked as that of the current call only while there is one
(`AtMostOnce`). As many empty mailboxes as there are processors are therefore
just theirs, and if none was in use before, what they took was this call
(`Reaches`). For parking, the counter never exceeds the number of processors
that are parked (`Settled`).

*MtrrProofs* is about Memranges and Mtrr. Of the list, `RangesInv` says that the
list is `Proper` (entries aligned, not empty, any two in order), that entries
which touch have different tags (`Apart`), and that no entry is made from
nothing. What a list means is put as a relation, `Covers(es, a, t)`: an entry of
tag t covers address a; a proper list gives an address one tag at most
(`OneTag`), which is `TagAt` (`TagIs`). Each loop has an invariant over the
entries it has passed, shown by `Induct`: merging keeps what is covered
(`Merged`); cutting out leaves parts of the old entries outside the hole, all of
them if an entry was free for a split (`RemoveInv`, `Removed`); filling adds
just the gaps (`FillInv`, `FilledIs`). For that an entry that has a hole behind
it must end below the limit, or end there with the tag that is filled in
(`Fillable`): in the second case an empty range is inserted, and merging takes
it away again (`Swallows`, `FillGoesOn`). This is an assumption about callers,
which `memranges_fill_holes_up_to()` and mtrr.c:181 do not check, and all that
is said of the list rests on it. From these follow `RangesOrdered` and
`TagsChange`. For `StealsTheBest` the facts are those of alignment (`Down`,
`Up`: the nearest multiple) and that a base which fits anywhere in an entry
shows that its lowest aligned one fits (`CandidateIs`). These hold without a
bound on addresses, entries in supply or alignment; addresses do not wrap.

That the MTRRs give each page its type (`MemoryTypes`) is proved in four layers.

- *What is listed.* When a range is inserted its pages have its type and others
  keep theirs, and the supply does not run out (`RangeInserted`, `Supplied`:
  entries are apart, so there are never more of them than addresses, `ShortList`).
  By induction the last range over a page decides (`AllInserted`), which gives
  the resources with their precedence (`ResourcesAre`), those with all below
  4 GiB filled (`AddressSpaceIs`) and those under the temporary ranges
  (`TempSpaceIs`).
- *What the blocks cover.* The blocks of `calc_var_mtrr_range()` cover just the pages
  from the first to the last (`BlocksAre`); for that a block is never larger than
  what is left (`BlockIs`, from the lowest bit of the base and the highest bit of the
  size, which are maxima of sets of powers, so that no theory of the exponential
  function is needed). The end that `optimize_var_mtrr_hole()` finds lies between the
  end of the range and the limit (`OptimalEndIs`).
- *What the registers come to.* The registers of an entry reach its pages with its
  type and others only behind it, in a hole that is carved out or in the
  uncacheable entry that follows (`Gives`, `Programs`, `ForEntryIs`). Those of all
  entries together give each listed page its type, whichever default was
  chosen: where two overlap one is uncacheable (`EffectiveIs`, `SolutionGives`,
  `ListedIsEffective`). Write-combining given up is uncacheable on all its pages
  (`Given`).
- *Which solution is where.* `TypesAsAsked` alone is not inductive: a processor
  that is set up later gets the kept solution, and what is put back at the end
  is that one. `MtrrInv` adds that the kept solution is right for the resources
  and the list is theirs (`Orig`), that what a processor has is right for the
  first so many temporary ranges, and that only the boot processor has any, in
  which case it will put back the original (`Programmed`); and that where
  coreboot has been left, it has (`Restored`), except on a resume with
  `post_cpus_init()`. A range that does not fit changes nothing but the table,
  and the flag stays set from the range before it, which is the hazard at
  mtrr.c:888.

For the list in the hands of either user, `MtrrOrdered` and `MtrrListAsAsked` state of
MtrrSpec, the specification that is checked, what `RangesOrdered`, `TagsChange` and
`StealsTheBest` state of the list alone.

Only model-checked: liveness (five properties), which needs ENABLED. Every
invariant and every action property of the passing runs is also proved, those of
the region file and of MrcCache for one erase sector.

## 6. Findings

*mrc_cache_stale*: a region is erased from its first sector, which holds the
metadata. If the erase is cut off after it, the next `region_file_init()` takes
the region for empty (region_file.c:207) and nothing erases the other sectors.
An update that is later cut off between its offset and its data may then hand
out the old data in its blocks, whole and with valid hashes: the run shows a
boot that uses training data which an invalidation had replaced since. With one
erase sector it cannot happen (`region_file`, `mrc_cache`); the default size of
the MRC cache, 64 KiB (`MRC_SETTINGS_CACHE_SIZE`), is several sectors of 4 KiB.

*mrc_cache_uptodate*: `mrc_cache_needs_update()` compares metadata, not data.
After a cut between the two, a boot that trains to the very same data finds
"does not need update", against the comment at mrc_cache.c:472; the cache stays
unusable until training comes out differently.

### Observations

These came up while the models were written. No run is there to show them,
because no doc or comment says otherwise, or because a run for each would not
show more than a sentence does; the properties are stated so that they hold.

- `boot_state_sched_callback()` (hardwaremain.c:384) refuses a callback only
  when the whole state is complete. An entry callback scheduled after the entry
  phase has passed is accepted with 0 and never called, while
  bootstate.h:148-151 says that it "schedule[s] a callback to be called on
  entry/exit". `boot_state_block()` makes the finer test. What does hold is
  `TimelyAreCalled`.
- MpInit: `mp_run_on_all_aps()` with `run_parallel` false begins each call when
  the one before has been *taken*, so the work of two processors may overlap
  (mp.h:118-123).
- MpInit: a processor that was too late for a call that was abandoned may clear the
  mailbox of the next one, which then returns success although that processor
  never took it. `Delivered` therefore speaks of calls before which no mailbox was
  in use (`clean`).
- MpInit: when the wait for the delivery of the relocation interrupt expires
  (mp_init.c:667), the lock is released with the interrupt pending, so it may come
  while another processor is in the handler, or when the handler is no longer in the
  default SMM area. The comment at mp_init.c:677 speaks of "single user
  serialization"; `RelocateAlone` and `NobodyLost` claim it for boots in which no wait
  expires.
- MpInit: when `start_aps()` fails, the processors that did start wait at the
  first barrier for ever, or are overtaken by the restoring of the SMM area.
- SmmStore: an append cut off in its sizes makes `scan_end()` fail, so every
  later append is refused until the store is cleared (store.c:41-43 speaks only
  of entries that are not active). A clear of several sectors that is cut off
  leaves old words behind the erased ones, over which later appends program; `Durable`
  asks for the clear to be done again (`unerased`).
- SmmStore: an append whose last write is programmed and then reported as failed
  (spi_flash.c:350-359, store.c:294-297) returns -1 and leaves an entry that is
  active. `Durable` counts it among the entries that are found.
- Elog: a failed append is not noticed, so mirror and flash differ until the
  next start; a torn append makes the next scan drop the whole log.
- Memranges: `memranges_fill_holes_up_to()` leaves the hole before the first
  entry, while memrange.h:140 speaks of all. And when an entry goes on over the
  limit and has a hole behind it, it inserts a range that ends before it begins,
  and merging may then cut off what lies above the limit; when an entry of
  another tag ends at the limit in front of a hole, the empty range stays in the
  list. A memory map with a range that ends behind 4 GiB and another range
  higher up, with a gap in between, takes mtrr.c:181 there. The model assumes
  that callers avoid it (`Fillable`, `FlashAssumption`). A split that finds no
  free entry loses the upper part.
- Mtrr: on resume `remove_temp_solution()` (mtrr.c:904) and the
  `post_cpus_init()` of Intel's common code (soc/intel/common/block/cpu/mp_init.c:235)
  are callbacks of the same phase. The objects of ramstage are linked in the
  reverse order of their directories (Makefile.mk:214-217), so the latter is
  scheduled first, and the callback scheduled last is called first
  (hardwaremain.c:392): a range is removed that is not there yet, and then
  `post_cpus_init()` makes the temporary range for the flash, which the boot
  processor takes along into the resumed system; mtrr.h:117 says "for the
  duration of coreboot's runtime". `TypesAsAsked` speaks of the end of the
  other paths (`HandedOver`); without that condition it is violated by a board
  that is `late`.
- Mtrr: for a write-back range that ends at 8 TiB or above `optimize_var_mtrr_hole()`
  shifts a bit into or out of the sign of an `int`, and from 16 TiB on the end does not
  fit its `uint32_t`. The theorems stop below (`WidthAssumption`).
- Mtrr: that a solution does not fit is printed and not returned; such a
  processor keeps the MTRRs it had. A temporary range that failed stays in the
  table and is tried again with the next one.
- CbmemConsole: an SMI that prints between the load of the cursor and its store
  may lose its bytes, and the overflow flag with them; if CBMEM has no room for
  the console, the early log is dropped; a reset after the copy and before the source is
  invalidated copies the bytes twice. `InOrder` and `WholeUnlessFlagged` except
  just these.

## 7. What is left out of the modelled parts

- Switching stacks (`arch/*/thread_switch.S`), and initialisation before the
  first `thread_run()`: the model starts after `threads_initialize()`.
- What `run_state()` functions do to devices; only their results are kept.
- Timing measurements, post codes, output.
- The MRC cache's recovery and variable-data regions, the hash in the TPM, write
  protection, and configurations in which training is in the read-only firmware
  (VBOOT_STARTS_IN_ROMSTAGE). S3 resume, in which memory is not trained and
  nothing new is stashed.
- MP init: mirroring of MSRs, microcode, device structures; that the APIC is busy
  before the INIT of a restart, which is then not sent (mp_init.c:467-475); the board's
  callbacks; the relocation from ramstage that some boards do in parallel; calls
  by a processor other than the boot processor.
- SMM: the services other than the two stores, which keep no state here; version
  2 of the store, which reads, writes and erases blocks for the payload and
  keeps no structure. Event log: checksums, time stamps, the boot count that
  ramstage adds, reads that fail.
- Console: the dumps, and the buffer of a verstage that runs on a processor of
  its own. Memory ranges: `memranges_clone()`, the walk over the device tree.
- MTRRs: memory from 4 TiB on; the fixed ones below 1 MiB, whose loop takes it
  that ranges end where a register does; the encoding of base and mask; the
  earlier stages, which set single registers; write-back and write-protected
  ranges over one another, for which the processor has a rule of its own.
- Collisions of the 32-bit hashes: damaged data are recognised.
- Clients that break the rules of thread.h and timer.h (arm a timer twice,
  unlock a mutex they do not hold, share a live handle): the code does not
  defend against them, and the tree has none.

## 8. Plan

1. *Done*: TimerQueue, CoopThreads, BootState, Ramstage, proofs of the first
   three; RegionFile, StoredItem, MrcCache; MpInit; SmmHandler, SmmStore, Elog
   and Smm, with the proof of the lock; the proofs of MpInit's plan, mailboxes
   and calls; Memranges and Mtrr; CbmemConsole;
   RegionFileProofs with the refinement of StoredItem, MrcCacheProofs,
   RamstageProofs, and the contents of both stores in CpuProofs; the operations
   on lists of ranges and the memory types computed from them in MtrrProofs; the
   console's log in LibProofs.
2. IMD and CBMEM (`lib/imd.c`, `lib/imd_cbmem.c`): the allocator below the
   console, against disjoint entries that later stages recover; then the
   resource allocator on top of Memranges.
