# A TLA+ development of JudgePenguin

JudgePenguin runs a judge kernel (a port of JudgeDuck-OS) inside Linux.  A Linux
module stops every CPU, runs the judge kernel on CPU 0 with the whole machine to
itself, and hands the machine back.  The judge kernel loads a program into
memory, runs it under a time and a memory limit, and reports a verdict.

This directory holds TLA+ modules that model the code under `driver/` and
`kernel/`, TLC configurations that check them on small instances, and proofs
that TLAPS checks for every value of the constants.  `PROJECT.json` lists
components, runs, mutants, the definition-to-source map, findings, hazards and
theorems.

## Inventory

| Component | State | Operations | Hard behaviour | What makes it correct |
|---|---|---|---|---|
| Steady mode, `driver/entry.c` | `call_done`, interrupt flags, where each CPU is | `module_main`, `each_cpu_main` | all CPUs interleave on one counter that is reused and not waited for | nobody runs beside the judge kernel; interrupts return last; everybody gets out |
| Module life cycle, `driver/{entry,device,memory,firmware,main}.c` | registered devices, memory region, mapping, image | `init_module`, `cleanup_module`, `ioctl`, open and close | each Linux call may fail; clients use the device while the module loads | nothing used after it is unmapped; nothing left behind; the image is fresh when it runs |
| Page table, `driver/page_table.c` | tables, next free block | `init_page_table`, `map_page` | blocks run out; callers without a lock | translation is the intended one; image and stack are mapped at the switch |
| Switch, `kernel/wrapper` | saved registers of Linux, relocated pointers | `save_linux`, `restore_linux`, `fake_dynlink` | memory that is mapped on one side of CR3 only; order of restoring; relocation is not idempotent | no access to what is not mapped; Linux finds what it left |
| Kernel main, `kern/kern_main.cpp`, `lib/pic.cpp`, `lib/timer.cpp`, `Trap::init`, the kernel's own system calls | heap break, frequencies, gates and segments, the controllers' masks | `main`, `PIC::init`, `Timer::init`, `Memory::init`, `Trap::init`, `brk`, `arch_prctl` | the state Linux left the devices in; processors that do not tell | everything a judged program or a trap relies on is set up |
| Judger, `kern/judger.cpp` | buffer, kept result, statistics | buffer and cache operations, `judge` | requests resent; wrapping sums and products; uninitialised time | answers are current; verdicts consistent; outputs stay in their buffers |
| Content cache, `kern/duck_cache.cpp` | descriptors, page chains, free list | `init`, `load`, `store` | eviction in the middle of a store; stale index; raw pointers | behaves as a least-recently-used map and loses no page |
| Loader and runner, `lib/elf.cpp` | the program's memory, `App` | `load`, `run` | sums of words that may wrap; memory that is not cleared | regions disjoint and inside memory |
| Traps, `kern/trap.cpp`, `trap_entry.S` | saved registers, pending trap | `run_user_64`, trap handlers | four ways to end arrive in one frame; the time limit is no longer set | each end is reported as what it was |
| User library, `user_lib` | heap break, mmap pool, output sizes | libc's system calls | limits and zero sizes | output within its limit |
| Kernel memory, local APIC, scheduler, PCI, serial, logger | allocator | allocation; the others are not initialised in this build or only print | little | allocations disjoint |
| Network server | (its body is commented out) | | | |

The module `init_module` calls `module_main`, which runs `jpenguin_main` on CPU
0; that jumps into the image that `load_firmware` copied, whose wrapper saves
Linux's state, relocates itself and calls the kernel's `main`.  The judger uses
the caches, `ELF::load` and `ELF::run`; `run` uses traps and the timer.  At this
commit `main` has the calls of `Judger::init` and of the server commented out:
the judger is modelled as the component its interface describes, with any client.

## Modules

* `SteadyMode` - `module_main` and `each_cpu_main`.  One action per access to
  the shared counter: `local_irq_save`, `CountIn` (`atomic_inc`), `SeeAll` (the
  read that ends the first loop), `MainReturns`, `ClearCounter`, `SeeZero` (the
  read that ends the second loop), `local_irq_restore`.  `module_main_returns`
  is the return of `on_each_cpu` with wait = 0, which waits only for the calling
  CPU; the caller may be any CPU.  `cleanup_module` and `FreeModule` end a round
  and let the next begin.
* `ExclusiveMachine` - the abstract specification: Linux, the judge kernel or
  nobody owns the machine; CPUs are stopped one by one, the judge kernel takes
  the machine only when all are stopped, and CPUs are released only after it
  has given it back.
* `Driver` - loading and removing the module with failures of every Linux call,
  concurrently with clients that open the device and issue `JP_IOCTL_TEST`.
  `mod` is the step the loading thread is at, named after the call it is about
  to make.  The image is two halves, so that copies interleave, and records
  whether each half is fresh or has been relocated by a run.
* `PageTable` - the tables that the driver builds for the duck kernel, as memory:
  blocks of entries that hold addresses of blocks.  `init_page_table` starts
  `init_page_table_4k`, whose loops take one step for each block they allocate
  (`add_P4`, `add_P3Upp`, `add_P3Low`, `add_P2`, `add_P1`, `next_P2`,
  `return_P4`); `init` holds its local variables.  `load_firmware` starts a
  thread that maps page after page; its steps (`look`, `read_next`,
  `bump_next`, `clear`, `store`, `map_last`) are its accesses to memory that
  other clients share, because the ioctl takes no lock.  What a compiled thread
  has just read or stored it keeps in a register.  `Translate` is the
  processor's walk.  `overlapped` remembers whether two calls were ever active
  together.  A walk that leaves the blocks set aside (`InBlocks`) ends there: it
  would read and overwrite pages of the image.
* `DuckKernel` - `main` of the duck kernel with the initialisations it calls in
  their order, and the system calls of its own C library, which may come between
  any two.  The controllers are modelled after the data sheet, so that the
  order of the bytes `PIC::init` sends matters.  Frequencies are in Hz, and cpuid
  may answer anything: the code neither looks at the highest leaf nor tests the
  divisor, so `divide_error` is an end of `main`, as is `abort`, the assertion in
  `Memory::init`.  Gates carry the ring that may use them and the stack they
  enter the kernel on, segments their ring, and the segments of `syscall` and
  `sysret` are derived from `Star` as the processor does.
* `Switch` - extends `DuckKernel` by the wrapper around it.  `cpu` is the
  registers, each with a value that tells who set it; `linux` is a copy of them
  at the call of `entry`; `data`, `image` are the wrapper's variables.  Memory is
  regions (Linux's own, `text`, `data`, `bss`, `stack`, the low addresses), and
  `Mapped` says which ones each value of CR3 maps: `.bss` follows the file, and
  `load_firmware` maps the file and the stack only.  An access to a region that is not mapped, an `ltr`
  of a busy task state and a descriptor written beyond the table set `fault`.
* `Judger` - the buffer, the kept result and `judge`.  `Word` stands for 2^64 so
  that wrapping sums and products are kept.  `dirty` and `judged` are history
  variables.  The contents of caches are the map that `DuckCache` implements.
* `DuckCache` - the cache as the code has it: sorted descriptors, and pages
  linked through their first word.  A store that evicts is `BeginEviction`, one
  `EvictOne` per iteration and `FinishStore`; no other call interleaves with it.
  `SortedByUse` is every arrangement of the indices that `std::sort` may leave,
  and `Defrag` the move that closes the gaps, as the map from new places to old.
* `LruCache` - the abstract specification of the cache, a least-recently-used
  map: the content of each digest it holds, and for each digest those used before
  it (`older`).
* `ElfLoad` - the allocator that takes the kernel's buffers from the end of
  memory (start-up only), then `load` and `run` for one program after the other.
  `load` makes every check of `load_elf64` in its order with sums modulo `Word`
  (2^64), lays out the regions, and writes segments, inputs, the first page of
  the file and the stack to `memory`, which maps an address to what was written
  there last.  Nothing is cleared, as in the code.  `run` lets the program write
  anything to its own memory, the sizes in its duckinfo included.
* `UserProgram` - one run: `run_user_64`, the library linked with the program,
  which serves the C library's system calls inside it (one action for each kind
  of call, with the loops over vectors), and the traps that end it.  The time
  stamp counter is a clock plus `TSC_ADJUST`: the program sees it start at 0,
  `trap_handler` subtracts the shift, and `tsc_to_ns` converts the difference.
  `trap_32` is the timer's own entry, which ends a program only when its count
  runs out; nothing sets that count in this build.  `sys_mmap` rounds and adds
  modulo `Word64` (2^64), as the code does, and `maps` counts beside the blocks how
  much the program has asked for.  Bytes written are numbered; `sent`, `got`, `maps` and `ended` are history variables.
  It starts in memory no program has used, and `return_code` after an abort is
  any value, as the code leaves it uninitialised.
* `MCDuckCache`, `MCJudger`, `MCElfLoad`, `MCUserProgram`, `MCPageTable`,
  `MCSwitch` - constants for TLC.
* `SteadyModeProofs`, `JudgerProofs`, `ElfLoadProofs`, `DriverProofs`,
  `UserProgramProofs`, `SwitchProofs`, `DuckCacheProofs`,
  `PageTableProofs` - theorems.

Operators whose comment begins with "Mutant" change one definition the way a
plausible bug would; no specification uses them.  TLC finds the property of each
mutant violated, which shows that the property depends on the code.

## Runs

| Run | Result | Bounds and why they are enough |
|---|---|---|
| `steady` | passes, 1,252 states | 4 CPUs, any number of rounds. Three CPUs besides CPU 0 can be late, early and missing at once, and the caller may be CPU 0 or another. |
| `steady_restore` | violated | 2 CPUs: CPU 0 clears the counter before CPU 1 reads it. |
| `driver` | passes, 1,988 states | 2 clients and the loader, any number of loads: two concurrent copies beside the loader's. |
| `driver_leak` | violated | 1 client. |
| `duck_cache` | passes, 145,749 states | 3 pages of 2 bytes, 2 descriptors, 3 digests two of which share their hash; lengths empty, full page, page and a half, everything, too much; 4 clock readings. Pages and descriptors each run out, alone and together, and the eviction loop runs once and twice. |
| `judger` | passes, 61,194 states | 6-bit words, "kilo" 4, a buffer of 4 bytes, 2 judges that run or fail with any number of repeated requests and buffer changes around them; one request per way of being wrong. Two judges suffice for a result that is stale for the second. |
| `judger_time` | violated | the same constants. |
| `elf_load` | passes, 1,278 states | words modulo 40, pages of 2, huge pages of 4, kernel below 4, memory below 24. Files and requests are ordinary, at the edge, one too large, or make one of the sums wrap; two programs in a row and two allocations before them. |
| `elf_clear` | violated | the same constants. |
| `user_program` | passes, 2,370,980 states | 3 bytes of input, 3 of output, 1 of error output, buffers of 0 to 2 bytes, at most 5 bytes written, 2 mappings in a pool of 2 pages among addresses of 6 bits, 3 clock ticks, a counter that Linux may have shifted by 5, 32-bit numbers modulo 256. Each limit is met inside a buffer, between two buffers of a vector and exactly; mappings fill the pool, leave it, make the pointer wrap, and have a size that rounds to 0; numbers above 32 bits, whole seconds and fractions of one occur; faults have the vectors 0 and 236. |
| `page_table` | passes, 2,170,767 states | 2 clients that are alike, 2 calls, 4 entries in a table, pages of 2 bytes, 18 pages of memory, 5 blocks set aside (a call needs 4). The image takes the pages below the stack, reaches into the stack's page, or is refused; its pages and the stack's are in two tables of the last level; 18 pages make every loop end before its table is full once. Two calls one after the other show that a second image of another size needs no more; two at a time lose entries and blocks in every way. |
| `switch` | passes, 2,486 states | Linux's task register at its usual index, the last possible one, and outside the table; `gs` null or not; controllers enabled or masked; processors that report ratio and crystal, the ratio, nothing, data of another leaf that gives 12.8 MHz or divides by 0, or are of another make; a kernel that ends above its break; break arguments below, in, at the end of and beyond the heap. |

Deadlock is checked where the system should go on (`driver`, `judger`,
`elf_load`).  It is off for `user_program` and `switch`, where a run ends, for
`steady`, where the missed barrier of `steady_restore` really stops the system,
for `duck_cache`, where the bound on the clock ends behaviours, and for
`page_table`, where the number of calls is bounded and a walk that has left the
tables is not followed.

Fairness.  `steady` and `steady_restore` assume weak fairness of each CPU's
`each_cpu_main` and of the return of `module_main`: CPUs execute their code with
interrupts disabled, the pending function call interrupts are delivered, the
judge kernel returns (`main` in this build does), and the loading thread is scheduled.
Nobody is assumed to load or remove the module.

## Findings

1. `driver/entry.c:24`: a CPU that has counted itself in but does not read
   `call_done` while it is full never leaves its loop (`EveryCpuRestores`).  CPU
   0 itself always gets through (`JudgeKernelRunsAndReturns`), so the machine
   continues with a CPU lost.
2. `driver/entry.c:69`: a load that fails after `init_device` leaves devices,
   region or mapping behind (`FailedLoadLeavesNothing`), and the name that
   stays taken makes every later load fail.
3. `kernel/duck/lib/elf.cpp:405`: the measured time comes from a counter that is
   not read, so a verdict TLE does not depend on the program (`NoTLEWithinLimit`).
4. `kernel/duck/lib/elf.cpp:228`: an output buffer that is to be clear, and the
   zero-initialised part of a program, hold what the previous program left there,
   as the clearing the comment relies on is commented out (`OutputBufferIsClear`).
   The second run of one program therefore starts with the user library's
   variables of the first.

Some observations contradict no statement of the repository and are not runs.
Calls of `load_firmware` that overlap may share a block or lose each other's
entries: the pages of the image may then be missing from the table, and repeated
races use up the 50 blocks (`SwitchIsMapped` and `BlocksSuffice` are stated for
calls that do not overlap; `LowMappingHolds` holds for all, until a walk leaves
the blocks set aside).  The wrapper does not save the stack segment, the base that `swapgs` exchanges and the floating
point registers, and the duck kernel uses or changes all three (`Lost` in `Switch`).  Nor does anything give the interrupt
controllers back to Linux as they were: `PIC::init` moves their vectors and masks
every line but the cascade, and `LinuxFindsWhatItLeft` is about the registers of
the processor only.  `__trap_32` acknowledges
through `LAPIC::lapic`, which is null in this build: the write goes to low
address 0xb0, where the driver's first table lies.  `timer.cpp:21` asks for leaf
0x15 without a look at the highest leaf ("TODO: Detect older Intel CPUs"): a
processor without it answers with the data of another leaf, and then `tsc_freq`
may be anything, `clk_freq` is 0 below 50 MHz, which `elf.cpp:405` divides by, or
the detection itself divides by 0 while the gates are still Linux's.  `mmap`
compares its pool with nothing: beyond it blocks run into the heap, and a program
that asks for more than the address space gets blocks that overlap.

## Proofs

`SteadyModeProofs`, for every finite set of CPUs.  Exclusion alone is not
inductive.  `BarrierInv` adds why the barrier works: until CPU 0 clears the
counter it equals the number of CPUs in a loop or in `jpenguin_main`
(`Gathering`), nobody passes the first loop before it is full, and afterwards
it stays 0 and no CPU can be counted again before the module is unloaded
(`Dispersing`).  Proved: `TypeOK` and `BarrierInv` are invariants, and from them
exclusion, `MainDoneBeforeLoaded`, `NoEarlyRestore` and the refinement of
`ExclusiveMachine` (initial states and steps).  The counting arguments rest on
the library's cardinality theorems.  Assumption: `CpusAssumption` (finitely many
CPUs, CPU 0 among them).

`JudgerProofs`, for words, buffers, requests and ranges of every size.  The
invariant `JudgerInv` strengthens the checked properties by `ResultInv`: a cleared flag implies
the number -1, "Not Judged" implies the number -1, and a result without error
belongs to the request recorded.  Two facts about machine arithmetic carry the
rest.  `CheckedBuffersDisjoint`: buffers that pass `is_valid_buffer` and
`check_overlap` share no byte, although the ends are computed modulo the word
size.  `AcceptedLimitIsExact`: the check `kb * 1024 < kb` misses some overflows,
but together with the checks of `ELF::load` none gets through, provided memory
is less than a 1024th of the address space (`WordAssumption`).

`ElfLoadProofs`, for every word, page and memory size, file and request that
the assumptions of `ElfLoad` allow (whole pages, a stack frame and a header that
fit a page, words for everything that is read from a file or a request).
`LoadInv` is `TypeOK`, the four state properties and `AppInv`, which says that a
program that is loaded has passed every check and records where its memory begins and
ends; without it nothing bounds what `run` may write.  The lemmas go through the checks in the order of the
code: `WrapValue` and `RoundUp` say when a sum or a rounding wraps, `LimitIsExact` and
`ImageBounds` that the memory limit and the image cannot once the checks have passed,
`AcceptedSegment` that each segment lies in the image and reads only the file,
and `PartHolds` carries the bound from one part of the special region to the
next.  `LoadedValue` says what each address holds after `load`.  From these:
`KernelIsNeverWritten`, `ImagesAreIntact`, `InputsAreComplete`,
`OutputsAreInside` and `BuffersNeverOverlap`.

`DriverProofs`, for any set of clients.  `DriverInv` is `TypeOK` and five
parts: a client inside an ioctl has the device open, and the device is open only
from `misc_register` to the end of `live` (`ClientsInv`); the loading thread is in
`load_firmware` exactly while `init_module` waits (`LoaderInv`); the area is
mapped from `load_firmware` to `free_memory` (`MappedInv`); the loader's copy
covers both halves, whatever clients copy meanwhile (`ImageInv`); without a
failed load, the driver's pointers know of all that is held, and nothing is
held before its turn (`HeldInv`; the proof asked for the parts about the device and
the region at each step).  From it `MainRunsFreshImage`, `MappedUnderIoctl` and
`UnloadReleasesAll`.  Assumption: the loading thread is not a client.

`UserProgramProofs`, for every input, limit, page size and pool.  `UserInv`: the
library is either ready or not yet touched (`LibInv`); what was sent and what was
got are at the front of outputs and input (`StreamsInv`); while the start of
the pool and the pages asked for stay below 2^64, `mmap_p` is their sum and the end
of the last block (`MapsInv`); the counter the program sees is the clock since it
was entered (`ClockInv`); what is reported is how it ended (`ResultInv`).
`AppendPrefix` is why a write that is cut off at the limit, and every later one,
keep the output a prefix.  `MmapSizeValue` says when the rounding of `mmap` wraps, and
`MmapKeeps` that a size that wraps, or a pointer that does, has used up the addresses
above the pool, the only case in which blocks overlap.  Vectors have two buffers in the model, so the loops over
them are unfolded (`WritevTwo`, `ReadvTwo`).  `TscToNs` shows that the two-part
conversion of time neither wraps nor loses more than the fraction of a
nanosecond.  Assumptions: a run takes fewer than 2^64 ticks and nanoseconds, the
frequency that was detected is not 0, 2^64 is whole pages, the program's end is a
page below it, and faults have vectors below that of the system call.  Two corrections of the model
came from this proof: vector 0 is a legal end, and a trap whose own vector is the
number that stands for an abort has the return code 0, unlike an abort.

`SwitchProofs`, for every index of the task state, every list of pointers and
every processor.  `SwitchInv` says at each `pc` what each group of registers, the
image and the kernel's variables hold (`RegistersInv`, `ImageInv`, `KernelInv`), and
that nothing has faulted; there is one lemma per step of the wrapper.
`PicInitValue` computes what the controllers hold after the bytes of `PIC::init`
whatever state Linux left them in.  Proved: `NoFault`, `LinuxFindsWhatItLeft`,
`KernelIsSetUp`.  Assumptions: Linux's task state is not the last descriptor of
the table (`TssAssumption`); of the answers of cpuid only that they are numbers
(`LeafAssumption`), so that `KernelIsSetUp` can say of the frequencies no more than how they
are related: `clk_freq` is `tsc_freq` to 50 MHz, and 0 exactly when that is less than
50 MHz.  Sizes and pointers are numbers (`HeapAssumption`,
`SwitchAssumption`).

`DuckCacheProofs`, for every number of pages, size of a page and number of
descriptors (`CacheAssumption`: at least two pages, which `DuckCache::init`
insists on, one byte and one descriptor).  `CacheInv` is the types, the bound on the
descriptors, their order, `PoolInv` and `JobInv`.  `PoolInv` says that the chain
of the free list and the chains of the live objects are injective, apart, and
cover the pages (`SharedOut`).  It speaks of chains as they are walked, so the
lemmas first show that a walk is determined by its start and by the links of the
addresses it meets (`SameChain`, by the least address at which two walks could
differ, in place of an induction); then that one iteration of the eviction loop
puts one chain before the free list (`GiveBack`, `EvictChain`), and that an insertion
cuts the free list in two (`TakeOff`, `TakeChain`).  `JobInv` is the account that
the loop keeps in `ids`, `n_removed_pages` and `still_need_remove`; with it `RoomHolds`
shows that the loop ends with room even when it runs out of objects.  `FindPlace`
shows that the two binary searches and the scan find the place of a digest in sorted descriptors,
which is why an insertion keeps them sorted.  Proved from `CacheInv`: `TypeOK`,
`PagesPartitioned`, `SortedByDigest`, `RoomAfterEviction`, `DescriptorsFit`, and four
statements that no run checks by themselves, since `ImplementsLru` implies them:
contents never change while they are in the cache and come
from the store that put them there (`ContentsComeFromStores`), are whole
(`CacheContents`), are what a load of their digest and length returns
(`LoadsAreExact`), and are evicted in the order of use and only while there is no
room (`EvictionIsLru`).

`CacheIsLru`, in the same module, is the refinement itself: `Spec => ImplementsLru`
for every size.  The mapping takes the content of a digest from its descriptor and
chain, and the order of use from the descriptors' times.  It needs `UseInv` besides
`CacheInv`: no time of use is ahead of the clock, so that what is used now becomes
the youngest, and the length of the content that a store carries is a legal one.
`UsedPages` relates the two accounts of pages: the code counts pages on chains, the
abstract cache the pages its contents take, and a numbering of the pages one by one
(a bijection) shows that they agree without adding up anything.  With it, the code's
tests for room are those of the map (`RoomIs`).  Then there is one lemma for each
step (`...Maps`): a load, a refused store and a store of what is there map to
`Load`, `Refuse` and `AlreadyStored`, `BeginEviction` to `Begin`, each iteration of
the loop to `Evict`, and the end of a store, with or without a loop before it, to
`Insert` (`EndMaps`).  No step of the cache is invisible.

`PageTableProofs`, for any number of clients and calls and any sizes of table,
memory and image.  There are two invariants.  `TableInv` holds even when calls
race: it says how far `init_page_table_4k` has come, and that `map_page` works
apart from its tables, because no entry that `map_page` reads leads into them
and no block it takes is one of them.  So the low mapping, once built, stays
until a walk leaves the blocks set aside (`LowMappingStays`: `LowMappingHolds`).  `TreeInv` holds while calls do not
overlap: `map_page` has built a tree with one table for each part of the address
space that image and stack touch.  Different tables serve different parts, so
there are at most as many tables as parts, and the blocks suffice for any number of calls
(`BlocksAlwaysSuffice`: `BlocksSuffice`); and the processor's walk finds what was
mapped (`SwitchAlwaysMapped`: `SwitchIsMapped`).  Assumptions: the memory fits one
entry of the root (`TableAssumption`; it is 512 MiB and an entry maps 512 GiB);
page table and stack fit the kernel's area, and the offset of the image is within the size
of the stack (`FirmwareAssumption`; 1,024 pages, of which the table takes about 310 and the
stack 16, and an offset of 0x160); Linux maps the area through none of the entries 0,
510 and 511 of the root (`LinuxAssumption`); and the blocks set aside are as
many as image and stack have parts (`ReservedAssumption`; at most 7 of the 50).

The type invariants of `SteadyMode`, `Judger` and `ElfLoad` are theorems too
(`SteadyTypes`, `JudgerTypes`, `LoaderTypes`).

Only model-checked: liveness (`JudgeKernelRunsAndReturns`), which the prover does
not do.  Induction over data is out of its reach as well; where an argument asked
for it, it was put otherwise: two walks are compared at the least place where they differ, pages
are counted by a bijection, and a loop is a step machine with an invariant.

## Not modelled

CPU hot-plug (the CPUs of a round are fixed, and CPU 0 is online); clients that
keep a file of a module that failed to load (the code they would call is
freed, and they are not followed further); a time stamp counter that
goes back or stands still between two uses of a cache; cache transfers with
ranges outside the buffer (the caches check none and no caller is compiled
in); contents of logs; a judged program that writes outside its own memory
(page protection is outside the models, and the theorems about `ElfLoad` are
about what the loader writes); a non-maskable interrupt or a machine check between
a write of CR3 and the load of the matching gates (the code has no answer to it);
what a walk through the page table does after it has left the tables; what
follows a division by zero in `Timer::init` or the failed assertion of
`Memory::init` (the machine does not return to Linux); traps of the kernel itself
in `trap_handler` (a timer interrupt returns with interrupts disabled, any other
reboots); the serial line and the queries that change nothing.  The components without a module are listed with reasons
in `PROJECT.json`.

## Plan

1. Done: `SteadyMode` with its abstract specification and proofs, `Driver`,
   `DuckCache` with `LruCache`, `Judger` and `ElfLoad` with proofs, `UserProgram`,
   `PageTable`, `DuckKernel` and `Switch`.
2. Proofs done: every invariant and action property that a run expects to hold,
   and both refinements.  Left is liveness, which stays with TLC.
3. What would need code that this build does not run: the network server, the
   scheduler that puts it to sleep, the local APIC and the time limit of a run.
