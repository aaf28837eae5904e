---------------------------- MODULE DuckKernel ------------------------------
(***************************************************************************)
(* The duck kernel from _start to exit: main of kern/kern_main.cpp, the    *)
(* initialisations it calls (lib/pic.cpp, lib/timer.cpp, Memory::init,     *)
(* Trap::init of kern/trap.cpp) and the system calls that its own C        *)
(* library makes (kern/duck64_syscall_handler.cpp), which may come at any  *)
(* time: a printf writes, an allocation moves the break.  The calls of     *)
(* LAPIC, PCI, Scheduler, DuckServer and Judger are commented out in main. *)
(*                                                                         *)
(* The registers of the processor are a function cpu, whose values name    *)
(* who set them; the two interrupt controllers are modelled after their    *)
(* data sheet, as far as the bytes that PIC::init sends them go.           *)
(* What is written to the serial line, and the program that run_tests      *)
(* loads (see ElfLoad), are left out.                                      *)
(***************************************************************************)
EXTENDS Integers, Sequences, SequencesExt

CONSTANTS heap, KERNEL_HEAP_SIZE,   \* the array that serves as the heap
          BrkArgs,                  \* the arguments of brk
          Leaf15,                   \* what cpuid may return for leaf 0x15
          MHz,                      \* 10^6, in Hz as all frequencies
          Counters,                 \* readings of the time stamp counter
          KERNEL_BREAK,             \* header.kernel_stack_top
          Ebss                      \* where a kernel may end: the values of &ebss

\* cpuid is asked for leaf 0x15 without a look at the highest leaf there is, and
\* older processors answer with the data of another leaf: any words.  The
\* product of two words, and 50 MHz more, fits in 64 bits.
ASSUME LeafAssumption ==
    /\ Leaf15 \subseteq [eax : Nat, ebx : Nat, ecx : Nat]
    /\ MHz \in Nat \ {0} /\ Counters \subseteq Nat

ASSUME HeapAssumption ==
    /\ heap \in Nat /\ KERNEL_HEAP_SIZE \in Nat /\ BrkArgs \subseteq Nat
    /\ KERNEL_BREAK \in Nat /\ Ebss \subseteq Nat

VARIABLES pc,     \* the statement that is executed next
          cpu,
          pic,    \* the interrupt controllers, by number
          duck    \* the kernel's variables

kernel_vars == <<pc, cpu, pic, duck>>

At(label) == pc = label
Goto(label) == pc' = label

\* Some registers get new values.
Set(regs) == cpu' = [r \in DOMAIN cpu |-> IF r \in DOMAIN regs THEN regs[r] ELSE cpu[r]]

\* The image as it is loaded.
ZeroDuck == [mask_8259A |-> 65531, did_init |-> FALSE, heap_brk |-> 0,
             tsc_freq |-> 0, ext_freq |-> 0, clk_freq |-> 0, tsc_epoch |-> 0,
             kernel_break |-> 0, idt |-> <<>>, gdt |-> <<>>, stacks |-> <<>>,
             IOPB_offset |-> 0, syscall_stack |-> 0]

----------------------------------------------------------------------------
(* lib/pic.cpp *)

IO_PIC1 == 32
IO_PIC2 == 160
IRQ_SLAVE == 2
IRQ_OFFSET == 32

\* An 8259A: want is the number of the initialisation word it waits for, 0
\* for none.  The first word clears the mask.
Command(chip, byte) ==
    IF byte = 17 THEN [chip EXCEPT !.want = 2, !.mask = 0] ELSE chip

Data(chip, byte) ==
    CASE chip.want = 2 -> [chip EXCEPT !.want = 3, !.offset = byte]
      [] chip.want = 3 -> [chip EXCEPT !.want = 4, !.cascade = byte]
      [] chip.want = 4 -> [chip EXCEPT !.want = 0]
      [] OTHER -> [chip EXCEPT !.mask = byte]

\* out is a pair of a port and a byte.
outb(p, out) ==
    CASE out[1] = IO_PIC1 -> [p EXCEPT ![1] = Command(@, out[2])]
      [] out[1] = IO_PIC1 + 1 -> [p EXCEPT ![1] = Data(@, out[2])]
      [] out[1] = IO_PIC2 -> [p EXCEPT ![2] = Command(@, out[2])]
      [] out[1] = IO_PIC2 + 1 -> [p EXCEPT ![2] = Data(@, out[2])]

set_mask_8259A(p, did_init, mask) ==
    IF ~did_init THEN p
    ELSE outb(outb(p, <<IO_PIC1 + 1, mask % 256>>), <<IO_PIC2 + 1, mask \div 256>>)

mask_all(p) == outb(outb(p, <<IO_PIC1 + 1, 255>>), <<IO_PIC2 + 1, 255>>)

\* The four initialisation words of the chip at port.
initialise(p, port, offset, cascade, mode) ==
    LET started == outb(p, <<port, 17>>)
        placed == outb(started, <<port + 1, offset>>)
    IN  outb(outb(placed, <<port + 1, cascade>>), <<port + 1, mode>>)

Master(p) == initialise(p, IO_PIC1, IRQ_OFFSET, 4, 3)
Slave(p) == initialise(p, IO_PIC2, IRQ_OFFSET + 8, IRQ_SLAVE, 1)

\* Mutant: the controllers count as initialised only when they are.
pic_init_flag_last(p, d) ==
    set_mask_8259A(Slave(Master(mask_all(p))), d.did_init, d.mask_8259A)

\* The controllers after PIC::init, which sets did_init first.  The OCW3s that
\* end the sequence choose what a read returns; nothing is ever read.
pic_init(p, d) ==
    LET set_up == Slave(Master(mask_all(p)))
    IN  IF d.mask_8259A # 65535 THEN set_mask_8259A(set_up, TRUE, d.mask_8259A) ELSE set_up

PIC_init ==
    /\ At("PIC") /\ Goto("Timer")
    /\ pic' = pic_init(pic, duck)
    /\ duck' = [duck EXCEPT !.did_init = TRUE]
    /\ UNCHANGED cpu

----------------------------------------------------------------------------
(* lib/timer.cpp *)

round_down(a, b) == (a \div b) * b

ext_freq_of(leaf) == IF leaf.ecx = 0 THEN 24 * MHz ELSE leaf.ecx

\* leaf.ebx / leaf.eax is the ratio of the time stamp counter to the crystal.
\* Only leaf.ebx is tested, and the ratio is unknown if it is 0.
RatioIsKnown(leaf) == leaf.ebx # 0

detect_cpu_speed_intel(leaf) ==
    LET tsc == IF RatioIsKnown(leaf) THEN (ext_freq_of(leaf) * leaf.ebx) \div leaf.eax
               ELSE 3600 * MHz
    IN  [tsc_freq |-> tsc,
         ext_freq |-> IF RatioIsKnown(leaf) THEN ext_freq_of(leaf) ELSE 1000 * MHz,
         clk_freq |-> round_down(tsc + 50 * MHz, 100 * MHz)]

detect_cpu_speed_others ==
    [tsc_freq |-> 3700 * MHz, ext_freq |-> 100 * MHz, clk_freq |-> 3700 * MHz]

Timer_init(speed) ==
    /\ At("Timer") /\ Goto("Memory")
    /\ \E tsc \in Counters :
          duck' = [duck EXCEPT !.tsc_freq = speed.tsc_freq, !.ext_freq = speed.ext_freq,
                               !.clk_freq = speed.clk_freq, !.tsc_epoch = tsc]
    /\ UNCHANGED <<cpu, pic>>

Timer_init_intel(leaf) ==
    /\ RatioIsKnown(leaf) => leaf.eax # 0
    /\ Timer_init(detect_cpu_speed_intel(leaf))

\* A ratio over 0.  The gates are still those of Linux, which the page table
\* of the kernel does not map, so that no handler runs: the machine resets.
divide_error(leaf) ==
    /\ RatioIsKnown(leaf) /\ leaf.eax = 0
    /\ At("Timer") /\ Goto("divide_error")
    /\ duck' = [duck EXCEPT !.ext_freq = ext_freq_of(leaf)]
    /\ UNCHANGED <<cpu, pic>>

----------------------------------------------------------------------------
(* Memory::init and Trap::init *)

\* After the assignment it asserts that the kernel ends below its stack top; a
\* kernel for which this fails is aborted, and does not return to Linux.
Memory_init ==
    /\ At("Memory")
    /\ duck' = [duck EXCEPT !.kernel_break = KERNEL_BREAK]
    /\ \E ebss \in Ebss : Goto(IF ebss <= KERNEL_BREAK THEN "Trap" ELSE "abort")
    /\ UNCHANGED <<cpu, pic>>

GDT_KERNEL_CS == 8
GDT_KERNEL_SS == 16
GDT_USER32_CS == 24
GDT_USER_SS == 32
GDT_USER_CS == 40
GDT_TSS == 80
TRAP_RUN_USER == 233

\* The descriptors, by selector, with the ring that may use them.  The one of
\* the task state is made again in init, with the address the kernel runs at.
gdt ==
    [sel \in {GDT_KERNEL_CS, GDT_KERNEL_SS, GDT_USER32_CS, GDT_USER_SS, GDT_USER_CS, GDT_TSS} |->
        CASE sel = GDT_KERNEL_CS -> [kind |-> "code64", ring |-> 0]
          [] sel = GDT_KERNEL_SS -> [kind |-> "data", ring |-> 0]
          [] sel = GDT_USER32_CS -> [kind |-> "code32", ring |-> 3]
          [] sel = GDT_USER_SS -> [kind |-> "data", ring |-> 3]
          [] sel = GDT_USER_CS -> [kind |-> "code64", ring |-> 3]
          [] sel = GDT_TSS -> [kind |-> "task", ring |-> 0]]

\* A gate: the ring that may call it, the code segment and the stack it enters
\* the kernel with, 0 for the stack of the task state's rsp[0].
set_idt == [selector |-> GDT_KERNEL_CS, ist |-> 0, ring |-> 0]

\* The 256 gates, then the exceptions to the rule.
idt == [[v \in 0..255 |-> set_idt] EXCEPT ![3].ring = 3, ![TRAP_RUN_USER].ist = 7]

\* The segments of syscall and of sysret, which the processor derives from the
\* two selectors in Star.
Star == [syscall |-> GDT_KERNEL_CS, sysret |-> GDT_USER32_CS]
SyscallSegments(star) == <<star.syscall, star.syscall + 8>>
SysretSegments(star) == <<star.sysret + 16, star.sysret + 8>>

\* The tops of the eight stacks, numbered from 1 because a pointer that was not
\* set is 0: the one of the task state's rsp[0], then those of ist[1] to ist[7].
interrupt_stack == [i \in 0..7 |-> i + 1]

\* sizeof(TaskState)
TaskStateSize == 112

\* The tables are built in the kernel's own data, then loaded; then the
\* registers of the system call instruction, and its stack.
TrapRegisters ==
    [idtr |-> "duck", gdtr |-> "duck", tr |-> GDT_TSS \div 8, efer |-> "duck", lstar |-> "duck",
     cstar |-> "duck", star |-> Star, sfmask |-> "duck"]

Trap_init ==
    /\ At("Trap") /\ Goto("tests")
    /\ duck' = [duck EXCEPT !.idt = idt, !.gdt = gdt, !.stacks = interrupt_stack,
                            !.IOPB_offset = TaskStateSize,
                            !.syscall_stack = interrupt_stack[0]]
    /\ Set(TrapRegisters)
    /\ UNCHANGED pic

----------------------------------------------------------------------------
(* The system calls *)

brk_allowed(d, addr) == addr > d.heap_brk /\ addr <= heap + KERNEL_HEAP_SIZE

\* duck_brk; its result, the break, is all the caller learns.
sys_brk(addr) ==
    LET d == IF duck.heap_brk = 0 THEN [duck EXCEPT !.heap_brk = heap] ELSE duck
    IN  /\ pc \in {"hello", "PIC", "Timer", "Memory", "Trap", "tests"}
        /\ duck' = IF addr # 0 /\ brk_allowed(d, addr) THEN [d EXCEPT !.heap_brk = addr] ELSE d
        /\ UNCHANGED <<pc, cpu, pic>>

\* The C library's start: ARCH_SET_FS for the thread's own data.
sys_arch_prctl ==
    /\ At("start") /\ Goto("hello")
    /\ cpu' = [cpu EXCEPT !["fs_base"] = "duck"]
    /\ UNCHANGED <<pic, duck>>

----------------------------------------------------------------------------
(* main *)

\* print_hello computes with floating point numbers.
print_hello ==
    /\ At("hello") /\ Goto("PIC")
    /\ cpu' = [cpu EXCEPT !["fpu"] = "duck"]
    /\ UNCHANGED <<pic, duck>>

\* The load that run_test asserts succeeds: the file is part of the kernel.
run_tests ==
    /\ At("tests") /\ Goto("exit")
    /\ UNCHANGED <<cpu, pic, duck>>

KernelStep ==
    \/ sys_arch_prctl \/ print_hello \/ PIC_init
    \/ \E leaf \in Leaf15 : Timer_init_intel(leaf) \/ divide_error(leaf)
    \/ Timer_init(detect_cpu_speed_others)
    \/ Memory_init \/ Trap_init \/ run_tests
    \/ \E addr \in BrkArgs : sys_brk(addr)

----------------------------------------------------------------------------
(* When main begins to load programs, what they rely on has been set up,    *)
(* whatever state Linux left the interrupt controllers in: no line but the  *)
(* cascade is enabled, and none shares a vector with an exception.  By the  *)
(* tables of Trap::init, traps and system calls enter the 64-bit code       *)
(* segment of the kernel, on a stack that is set and is not the one from    *)
(* which the kernel entered the program; programs run in segments of their  *)
(* ring alone, although the processor computes both from Star, may call     *)
(* int3 only and have no port.  The heap never leaves its array.  Of the    *)
(* frequencies only ext_freq is never zero: clk_freq is tsc_freq to 50 MHz, *)
(* and 0 for whatever answer of cpuid gives less.                           *)
KernelIsSetUp ==
    LET star == cpu["star"]
        stack(v) == duck.stacks[duck.idt[v].ist]
    IN  /\ duck.heap_brk = 0 \/ duck.heap_brk \in heap..(heap + KERNEL_HEAP_SIZE)
        /\ pc \in {"tests", "exit"} =>
              /\ pic[1] = [want |-> 0, offset |-> 32, cascade |-> 4, mask |-> 251]
              /\ pic[2] = [want |-> 0, offset |-> 40, cascade |-> 2, mask |-> 255]
              /\ duck.ext_freq # 0
              /\ duck.tsc_freq - 50 * MHz < duck.clk_freq
              /\ duck.clk_freq <= duck.tsc_freq + 50 * MHz
              /\ (duck.clk_freq = 0) <=> (duck.tsc_freq < 50 * MHz)
              /\ {v \in 0..255 : duck.idt[v].ring = 3} = {3}
              /\ duck.gdt[8 * cpu["tr"]].kind = "task" /\ duck.IOPB_offset >= TaskStateSize
              /\ \A sel \in {duck.idt[v].selector : v \in 0..255} \cup {SyscallSegments(star)[1]} :
                    duck.gdt[sel] = [kind |-> "code64", ring |-> 0]
              /\ duck.gdt[SyscallSegments(star)[2]] = [kind |-> "data", ring |-> 0]
              /\ duck.gdt[SysretSegments(star)[1]] = [kind |-> "code64", ring |-> 3]
              /\ duck.gdt[SysretSegments(star)[2]] = [kind |-> "data", ring |-> 3]
              /\ \A top \in {stack(v) : v \in (0..255) \ {TRAP_RUN_USER}} \cup {duck.syscall_stack} :
                    top \notin {0, stack(TRAP_RUN_USER)}
              /\ stack(TRAP_RUN_USER) # 0
=============================================================================
