---------------------------- MODULE UserProgram -----------------------------
(***************************************************************************)
(* One run of a judged program: run_user_64 and trap_handler of            *)
(* kern/trap.cpp, and the library every program is linked with             *)
(* (user_lib/duck64_syscall_handler.cpp), which serves the system calls of *)
(* the C library inside the program and enters the kernel only to end it.  *)
(*                                                                         *)
(* The run starts with the library's variables zero, as in memory that no  *)
(* program has used (what a later run finds there is the subject of        *)
(* ElfLoad's OutputBufferIsClear), and with the duckinfo that ELF::load    *)
(* made.  Files are sequences of bytes; the bytes a program writes are     *)
(* numbered, so that no two are alike.  Calls that change nothing          *)
(* (clock_gettime, fstat, uname, and those that only return a constant)    *)
(* initialise the library and are one action.                              *)
(*                                                                         *)
(* The time stamp counter reads clock + tsc_adjust: clock is the time      *)
(* since the processor started, tsc_adjust the register that writing the   *)
(* counter changes.  The calls that program the local timer are commented  *)
(* out in trap.cpp, so nothing but the program, its faults and interrupts  *)
(* left over from Linux ends a run.                                        *)
(***************************************************************************)
EXTENDS Integers, Sequences, SequencesExt

CONSTANTS Stdin,                     \* the bytes of stdin
          StdoutLimit, StderrLimit,
          PageSize,
          PoolStart, PoolSize,       \* __mmap_pool
          End,                       \* &_end
          Word32,                    \* 2^32
          Lens,                      \* the arguments programs use
          Addrs, MapSizes, Codes, Syscalls, Faults,
          Word64,                    \* 2^64
          Giga,                      \* 10^9
          tsc_freq,                  \* what Timer::init has detected
          Adjusts,                   \* what Linux left in TSC_ADJUST
          MaxSent, MaxMaps, MaxClock \* bounds: bytes written, mappings, ticks

SYS_exit == 60
SYS_tkill == 200
TRAP_TIMER == 32     \* TRAP_IRQ + IRQ_TIMER
TRAP_ABORT == 253
TRAP_INVALID_SYSCALL == 254
TRAP_SYSCALL == 255

\* 255 is the number that the entry of the system call instruction gives
\* itself: no exception has it, and an interrupt at that vector is excluded.
\* A run is shorter than 2^64 ticks and than 2^64 nanoseconds.
ASSUME UserAssumption ==
    /\ Stdin \in Seq(Nat) /\ StdoutLimit \in Nat /\ StderrLimit \in Nat
    /\ PageSize \in Nat \ {0} /\ PoolStart \in Nat /\ PoolSize \in Nat /\ End \in Nat
    /\ PoolStart % PageSize = 0 /\ PoolStart + PoolSize <= End
    /\ Word32 \in Nat /\ Word32 > SYS_tkill
    /\ Word64 \in Nat \ {0} /\ Word64 % PageSize = 0 /\ End + PageSize <= Word64
    /\ Lens \subseteq Nat /\ Addrs \subseteq Nat /\ MapSizes \subseteq 0..(Word64 - 1)
    /\ Codes \subseteq 0..(Word32 - 1) /\ Syscalls \subseteq Nat
    /\ tsc_freq \in Nat \ {0} /\ Giga \in Nat /\ tsc_freq * Giga < Word64
    /\ Adjusts \subseteq Int
    /\ MaxClock \in Nat \ {0} /\ MaxClock < Word64 /\ MaxClock * Giga < Word64 * tsc_freq
    /\ Faults \subseteq 0..(TRAP_SYSCALL - 1) /\ TRAP_TIMER \notin Faults

VARIABLES mode,    \* "kernel", "user", or "done" when run_user_64 has returned
          lib,     \* the variables of the library and the sizes in duckinfo
          mmap_p,
          clock, tsc_adjust,
          tf_to_user_tsc,
          lapic_timer_cnt,
          result,  \* what run_user_64 and ELF::run report
          sent,    \* every byte written, truncated or not, by descriptor
          got,     \* every byte read
          maps,    \* the blocks mmap has returned, and the sum of their sizes in
                   \* whole pages, which does not wrap
          ended    \* how the program ended, and how long it had run

timing == <<clock, tsc_adjust, tf_to_user_tsc, lapic_timer_cnt>>
vars == <<mode, lib, mmap_p, timing, result, sent, got, maps, ended>>

----------------------------------------------------------------------------
(* The library *)

min(a, b) == IF a < b THEN a ELSE b
PageDown(x) == (x \div PageSize) * PageSize
PageUp(x) == PageDown(x + PageSize - 1)

\* Its variables in zeroed memory; the limits and sizes are those of duckinfo.
ZeroLib == [inited |-> FALSE, stdin_curr_pos |-> 0, stdout |-> <<>>, stderr |-> <<>>,
            stdout_max_size |-> 0, stderr_max_size |-> 0, heap_brk |-> 0]

init == [inited |-> TRUE, stdin_curr_pos |-> 0, stdout |-> <<>>, stderr |-> <<>>,
         stdout_max_size |-> StdoutLimit, stderr_max_size |-> StderrLimit,
         heap_brk |-> PageUp(End)]

\* Mutant: every call initialises the library.
ReadyAgain(l) == init

\* if (!inited) init();
Ready(l) == IF l.inited THEN l ELSE init

\* Mutant: the bytes already written do not count.
room_without_used(limit, used) == limit

room(limit, used) == limit - used

\* What a write of buf leaves in an output.
append(out, limit, buf) == out \o SubSeq(buf, 1, min(Len(buf), room(limit, Len(out))))

duck_write(l, fd, buf) ==
    CASE fd = 1 -> [l EXCEPT !.stdout = append(l.stdout, l.stdout_max_size, buf)]
      [] fd = 2 -> [l EXCEPT !.stderr = append(l.stderr, l.stderr_max_size, buf)]
      [] OTHER -> l

\* A write to stdout or stderr returns the full length, so the loop goes on;
\* to another descriptor it returns 0 and changes nothing.
duck_writev(l, fd, iov) == FoldLeft(LAMBDA m, buf : duck_write(m, fd, buf), l, iov)

actual_len(l, len) == min(len, Len(Stdin) - l.stdin_curr_pos)

\* The bytes that a read copies to the program.
copied(l, len) == SubSeq(Stdin, l.stdin_curr_pos + 1, l.stdin_curr_pos + actual_len(l, len))

\* Mutant: a short read does not move the position.
duck_read_repeats(r, len) ==
    [lib |-> IF actual_len(r.lib, len) = len THEN [r.lib EXCEPT !.stdin_curr_pos = @ + len]
             ELSE r.lib,
     got |-> r.got \o copied(r.lib, len), stop |-> actual_len(r.lib, len) # len]

\* A read in progress is the library's variables, what the program has got,
\* and whether the last buffer was not filled.
duck_read(r, len) ==
    [lib |-> [r.lib EXCEPT !.stdin_curr_pos = @ + actual_len(r.lib, len)],
     got |-> r.got \o copied(r.lib, len),
     stop |-> actual_len(r.lib, len) # len]

\* The loop ends at the first short read.
duck_readv(r, lens) ==
    FoldLeft(LAMBDA q, len : IF q.stop THEN q ELSE duck_read(q, len), r, lens)

duck_brk(l, addr) == IF addr > l.heap_brk THEN [l EXCEPT !.heap_brk = addr] ELSE l

----------------------------------------------------------------------------
(* __duck64__syscall_handler, one action for each kind of call *)

Call(l) == /\ mode = "user"
           /\ lib' = l
           /\ UNCHANGED <<mode, timing, result, ended>>

\* The next n bytes of the program, and room for them in the model.
Bytes(n) == [i \in 1..n |-> Len(sent[1]) + Len(sent[2]) + i]
Fits(n) == Len(sent[1]) + Len(sent[2]) + n <= MaxSent
Sent(fd, n) == IF fd \in {1, 2} THEN [sent EXCEPT ![fd] = @ \o Bytes(n)] ELSE sent

sys_write(fd, len) ==
    /\ Fits(len)
    /\ Call(duck_write(Ready(lib), fd, Bytes(len)))
    /\ sent' = Sent(fd, len)
    /\ UNCHANGED <<mmap_p, got, maps>>

sys_writev(fd, len1, len2) ==
    LET all == Bytes(len1 + len2)
    IN  /\ Fits(len1 + len2)
        /\ Call(duck_writev(Ready(lib), fd, <<SubSeq(all, 1, len1),
                                              SubSeq(all, len1 + 1, len1 + len2)>>))
        /\ sent' = Sent(fd, len1 + len2)
        /\ UNCHANGED <<mmap_p, got, maps>>

Reading == [lib |-> Ready(lib), got |-> got, stop |-> FALSE]

sys_read(len) ==
    /\ Call(duck_read(Reading, len).lib)
    /\ got' = duck_read(Reading, len).got
    /\ UNCHANGED <<mmap_p, sent, maps>>

sys_readv(lens) ==
    /\ Call(duck_readv(Reading, lens).lib)
    /\ got' = duck_readv(Reading, lens).got
    /\ UNCHANGED <<mmap_p, sent, maps>>

sys_brk(addr) ==
    /\ Call(duck_brk(Ready(lib), addr))
    /\ UNCHANGED <<mmap_p, sent, got, maps>>

\* Mutant: the size is not rounded to pages.
mmap_size_plain(size) == size - (size % PageSize)

\* (size + 4095u) & -4096ul in 64 bits: a size in the last page wraps to 0.
mmap_size(size) == PageDown((size + PageSize - 1) % Word64)

\* duck_mmap_temp: the pool is never compared with its size, and the pointer
\* wraps.
sys_mmap(size) ==
    /\ Len(maps.blocks) < MaxMaps
    /\ Call(Ready(lib))
    /\ maps' = [blocks |-> Append(maps.blocks, [start |-> mmap_p, size |-> size]),
                asked |-> maps.asked + PageUp(size)]
    /\ mmap_p' = (mmap_p + mmap_size(size)) % Word64
    /\ UNCHANGED <<sent, got>>

sys_other == Call(Ready(lib)) /\ UNCHANGED <<mmap_p, sent, got, maps>>

----------------------------------------------------------------------------
(* kern/trap.cpp *)

rdtsc == (clock + tsc_adjust) % Word64

\* TRAP_RUN_USER in trap_handler clears TSC_ADJUST; syscall_return_record_tsc
\* records the counter, then sets it to 0.
run_user_trap == tf_to_user_tsc' = clock /\ tsc_adjust' = 0 - clock

\* make_trapframe, and int TRAP_RUN_USER.
run_user_64 ==
    /\ mode = "kernel"
    /\ mode' = "user"
    /\ run_user_trap
    /\ UNCHANGED <<lib, mmap_p, clock, lapic_timer_cnt, result, sent, got, maps, ended>>

\* The program computes, and the counter goes on.
Compute ==
    /\ mode = "user" /\ clock < MaxClock
    /\ clock' = clock + 1
    /\ ended' = [ended EXCEPT !.ran = @ + 1]
    /\ UNCHANGED <<mode, lib, mmap_p, tsc_adjust, tf_to_user_tsc, lapic_timer_cnt, result,
                   sent, got, maps>>

\* The number run_user_64 reports for a trap and the rax saved with it.
ReportedTrap(num, rax) ==
    CASE num # TRAP_SYSCALL -> num
      [] num = TRAP_SYSCALL /\ rax % Word32 = SYS_tkill -> TRAP_ABORT
      [] num = TRAP_SYSCALL /\ rax % Word32 = SYS_exit -> TRAP_SYSCALL
      [] OTHER -> TRAP_INVALID_SYSCALL

\* return_code: for an abort it is not assigned and keeps what the caller's
\* uninitialised result held.
ReturnCodes(num, rax, rdi) ==
    CASE ReportedTrap(num, rax) = TRAP_SYSCALL -> {rdi % Word32}
      [] num = TRAP_SYSCALL /\ rax % Word32 = SYS_tkill -> Codes
      [] OTHER -> {0}

tsc_to_ns(tsc) ==
    LET q == tsc \div tsc_freq
        r == tsc % tsc_freq
    IN  (q * Giga + ((r * Giga) % Word64) \div tsc_freq) % Word64

\* Mutant: the counter of the program is compared with the kernel's.
kernel_tsc_unadjusted == rdtsc

\* restore kernel tsc
kernel_tsc == (rdtsc - tsc_adjust) % Word64

\* trap_handler from user mode, the rest of run_user_64 and of ELF::run.
trap_handler(num, rax, rdi) ==
    /\ mode = "user"
    /\ mode' = "done"
    /\ tsc_adjust' = 0
    /\ LET tsc == (kernel_tsc - tf_to_user_tsc) % Word64
       IN  \E code \in ReturnCodes(num, rax, rdi) :
              result' = [trap_num |-> ReportedTrap(num, rax), return_code |-> code,
                         tsc |-> tsc, time_ns_real |-> tsc_to_ns(tsc),
                         stdout_size |-> min(StdoutLimit, Len(lib'.stdout)),
                         stderr_size |-> min(StderrLimit, Len(lib'.stderr))]
    /\ UNCHANGED <<mmap_p, clock, tf_to_user_tsc, sent, got, maps>>

\* duck_exit: the upper half of rdi is whatever the register held.
sys_exit(code) ==
    /\ lib' = Ready(lib)
    /\ ended' = [ended EXCEPT !.how = "exit", !.value = code]
    /\ \E high \in {0, 1} : trap_handler(TRAP_SYSCALL, SYS_exit, code + high * Word32)
    /\ UNCHANGED lapic_timer_cnt

duck_tkill_abort ==
    /\ lib' = Ready(lib)
    /\ ended' = [ended EXCEPT !.how = "abort", !.value = 0]
    /\ trap_handler(TRAP_SYSCALL, SYS_tkill, 0)
    /\ UNCHANGED lapic_timer_cnt

\* A system call instruction of the program itself.
RawSyscall(rax, rdi) ==
    /\ lib' = lib
    /\ ended' = [ended EXCEPT !.how = "raw", !.value = rax]
    /\ trap_handler(TRAP_SYSCALL, rax, rdi)
    /\ UNCHANGED lapic_timer_cnt

\* An exception, or an interrupt while the program runs.
Fault(num) ==
    /\ lib' = lib
    /\ ended' = [ended EXCEPT !.how = "fault", !.value = num]
    /\ trap_handler(num, 0, 0)
    /\ UNCHANGED lapic_timer_cnt

\* An interrupt of the local timer has an entry of its own: it ends the program
\* only when the count, which nothing sets in this build, goes from 1 to 0.
trap_32 ==
    LET cnt == (lapic_timer_cnt - 1) % Word64
    IN  /\ cnt # 0
        /\ mode = "user" /\ clock < MaxClock
        /\ lapic_timer_cnt' = cnt
        /\ clock' = clock + 1
        /\ ended' = [ended EXCEPT !.ran = @ + 1]
        /\ UNCHANGED <<mode, lib, mmap_p, tsc_adjust, tf_to_user_tsc, result, sent, got, maps>>

Init ==
    /\ mode = "kernel"
    /\ lib = ZeroLib
    /\ mmap_p = PoolStart
    /\ clock \in 0..1
    /\ tsc_adjust \in Adjusts
    /\ tf_to_user_tsc = 0
    /\ lapic_timer_cnt = 0
    /\ result = [trap_num |-> 0, return_code |-> 0, tsc |-> 0, time_ns_real |-> 0,
                 stdout_size |-> 0, stderr_size |-> 0]
    /\ sent = [fd \in 1..2 |-> <<>>]
    /\ got = <<>>
    /\ maps = [blocks |-> <<>>, asked |-> 0]
    /\ ended = [how |-> "running", value |-> 0, ran |-> 0]

Next ==
    \/ run_user_64
    \/ Compute
    \/ \E fd \in 1..3, len \in Lens : sys_write(fd, len)
    \/ \E fd \in 1..3, len1, len2 \in Lens : sys_writev(fd, len1, len2)
    \/ \E len \in Lens : sys_read(len)
    \/ \E len1, len2 \in Lens : sys_readv(<<len1, len2>>)
    \/ \E addr \in Addrs : sys_brk(addr)
    \/ \E size \in MapSizes : sys_mmap(size)
    \/ sys_other
    \/ \E code \in Codes : sys_exit(code)
    \/ duck_tkill_abort
    \/ \E rax \in Syscalls, rdi \in Codes : RawSyscall(rax, rdi)
    \/ \E num \in Faults : Fault(num)
    \/ trap_32

Spec == Init /\ [][Next]_vars

----------------------------------------------------------------------------
Prefix(s, n) == SubSeq(s, 1, min(n, Len(s)))

TypeOK ==
    /\ mode \in {"kernel", "user", "done"}
    /\ lib.inited \in BOOLEAN /\ lib.stdin_curr_pos \in 0..Len(Stdin)
    /\ Len(lib.stdout) \in 0..StdoutLimit /\ Len(lib.stderr) \in 0..StderrLimit
    /\ mmap_p % PageSize = 0 /\ clock \in 0..MaxClock
    /\ mode = "done" => result.trap_num \in 0..TRAP_SYSCALL /\ result.return_code \in 0..(Word32 - 1)

(* However a program mixes write and writev, stdout and stderr hold exactly *)
(* the first bytes it wrote to them, in order, up to the limit: the silent  *)
(* truncation drops a tail, never a middle, and the sizes that the run      *)
(* reports are those of what is there.                                      *)
OutputIsPrefix ==
    /\ lib.stdout = Prefix(sent[1], StdoutLimit)
    /\ lib.stderr = Prefix(sent[2], StderrLimit)
    /\ mode = "done" => /\ result.stdout_size = Len(lib.stdout)
                        /\ result.stderr_size = Len(lib.stderr)

(* However a program mixes read and readv, with short reads at the end of   *)
(* the input, it gets each byte of stdin once and in order.                 *)
InputIsInOrder == got = SubSeq(Stdin, 1, lib.stdin_curr_pos)

(* The blocks of mmap overlap only when the program has asked for more than *)
(* all the addresses above the pool: the code compares the pool with        *)
(* nothing, and from there on the size or the pointer wraps in 64 bits.     *)
(* Until it has asked for more than the pool, they lie in the pool, below   *)
(* the heap that brk hands out.                                             *)
MapsAreApart ==
    LET blocks == maps.blocks
        end(i) == blocks[i].start + blocks[i].size
    IN  /\ PoolStart + maps.asked < Word64 =>
              \A i, j \in DOMAIN blocks : i < j => end(i) <= blocks[j].start
        /\ maps.asked <= PoolSize => \A i \in DOMAIN blocks :
              /\ PoolStart <= blocks[i].start /\ end(i) <= End
              /\ lib.inited => End <= lib.heap_brk

(* The kernel tells the ways a program can end apart: an exit with its code *)
(* (whatever the upper half of the register holds), an abort, a system call *)
(* of its own, a fault with its number; and it reports the time from entry  *)
(* to trap, although the program's own counter starts at 0 and Linux may    *)
(* have shifted the kernel's, in nanoseconds rounded down.                  *)
EndIsReported ==
    /\ mode = "user" => rdtsc = ended.ran
    /\ mode = "done" =>
        /\ result.tsc = ended.ran
        /\ result.time_ns_real = (ended.ran * Giga) \div tsc_freq
        /\ ended.how = "exit" => /\ result.trap_num = TRAP_SYSCALL
                                 /\ result.return_code = ended.value
        /\ ended.how = "abort" => result.trap_num = TRAP_ABORT
        /\ ended.how = "raw" => ((result.trap_num = TRAP_SYSCALL) <=> (ended.value % Word32 = SYS_exit))
        /\ ended.how = "fault" => /\ result.trap_num = ended.value
                                  /\ result.return_code = 0
=============================================================================
