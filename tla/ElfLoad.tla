------------------------------ MODULE ElfLoad -------------------------------
(***************************************************************************)
(* The memory a judged program gets: the allocator of lib/memory.cpp, which *)
(* takes the kernel's own buffers from the top of the reserved memory, and *)
(* ELF::load and ELF::run of lib/elf.cpp, which place a program, its       *)
(* inputs and its stack below them, run it, and say where its output is.   *)
(*                                                                         *)
(* Every size and address of the checks comes from the file or from the    *)
(* request, so the 64-bit arithmetic wraps: words are numbers below Word   *)
(* and Wrap is applied where the code adds, subtracts or rounds.  A byte   *)
(* of memory is a pair: where its contents come from, and their position   *)
(* there.  A program is taken to keep to the memory it was given.          *)
(***************************************************************************)
EXTENDS Integers, Sequences

CONSTANTS Word,           \* 2^64
          PageSize, HugePageSize,
          KernelBreak,    \* header.kernel_stack_top
          ReservedSize,   \* RESERVED_MEM_SIZE
          LoadStart,      \* load_vaddr_start
          EhdrSize, PhdrSize,
          StackFrame,     \* what load pushes on the stack
          RandomSize,     \* the two words of random bytes
          Files, Configs, \* the programs and the configurations load is given
          AllocSizes,     \* the sizes of the kernel's buffers
          Sizes           \* what a program may leave in its duckinfo

Words == 0..(Word - 1)

Segments == [p_load : BOOLEAN, p_offset : Words, p_vaddr : Words,
             p_filesz : Words, p_memsz : Words, p_align : Words]

ASSUME SizesAssumption ==
    /\ Word \in Nat /\ PageSize \in Nat \ {0} /\ HugePageSize \in Nat \ {0}
    /\ EhdrSize \in Nat /\ PhdrSize \in Nat
    /\ StackFrame \in 1..PageSize /\ RandomSize \in 0..PageSize
    /\ KernelBreak \in Nat \ {0} /\ ReservedSize \in Nat /\ KernelBreak <= ReservedSize
    /\ LoadStart \in Words
    /\ ReservedSize + PageSize <= Word /\ HugePageSize <= Word

\* A file is what load reads of it.  Its length is a 32-bit word, far from 2^64.
ASSUME FilesAssumption ==
    Files \subseteq [len : 0..(Word - ReservedSize - 1), ident : BOOLEAN,
                     e_phoff : Words, e_phentsize : Nat, phdrs : Seq(Segments)]

ASSUME ConfigsAssumption ==
    Configs \subseteq [memory_hard_limit : Words, stdin_size : Words,
                       stdout_max_size : Words, stderr_max_size : Words,
                       IB_size : Words, OB_size : Words, OB_need_clear : BOOLEAN]

\* The sizes of the buffers are constants of the kernel, far from 2^64.
ASSUME InputsAssumption ==
    AllocSizes \subseteq 1..(Word - HugePageSize) /\ Sizes \subseteq Words

VARIABLES vaddr_break,
          buffers,   \* what the allocator has given away: [start, size]
          memory,
          app,       \* the file, the configuration and the addresses of the last load
          res        \* the output the last run reported

vars == <<vaddr_break, buffers, memory, app, res>>

NoApp == [none |-> "no app"]
NoResult == [none |-> "no result"]
Zero == <<"zero", 0>>
User == <<"user", 0>>

----------------------------------------------------------------------------
(* inc/utils.hpp *)

Wrap(x) == x % Word
\* Mutant: nothing is rounded up.
round_up_plain(x, r) == (x \div r) * r

round_up(x, r) == (Wrap(x + r - 1) \div r) * r
round_down(x, r) == (x \div r) * r

\* The addresses of size bytes at start.
In(a, start, size) == Wrap(a - start) < size

\* memory after memcpy of the first size bytes of an input to start.
Put(m, start, size, what) ==
    [a \in Words |-> IF In(a, start, size) THEN <<what, Wrap(a - start)>> ELSE m[a]]

----------------------------------------------------------------------------
(* lib/memory.cpp *)

kernel_break == KernelBreak

\* Mutant: the size is compared with the whole memory.
can_allocate_anything(size) == ReservedSize >= round_up(size, HugePageSize)

can_allocate_virtual_memory(size) ==
    Wrap(vaddr_break - kernel_break) >= round_up(size, HugePageSize)

\* A NULL result changes nothing.  All of it happens while the kernel starts.
allocate_virtual_memory(size) ==
    /\ app = NoApp /\ res = NoResult
    /\ can_allocate_virtual_memory(size)
    /\ vaddr_break' = Wrap(vaddr_break - round_up(size, HugePageSize))
    /\ buffers' = buffers \cup {[start |-> vaddr_break', size |-> size]}
    /\ UNCHANGED <<memory, app, res>>

----------------------------------------------------------------------------
(* The checks of load_elf64, in their order *)

Loads(f) == {i \in DOMAIN f.phdrs : f.phdrs[i].p_load}

HeaderOK(f) ==
    /\ f.len >= EhdrSize
    /\ f.ident
    /\ f.e_phoff < f.len /\ f.e_phentsize < f.len /\ Len(f.phdrs) < f.len
    /\ \A i \in DOMAIN f.phdrs :
          Wrap(Wrap(f.e_phoff + (i - 1) * f.e_phentsize) + PhdrSize) <= f.len

SegmentEnd(s) == Wrap(s.p_vaddr + s.p_memsz)

\* Mutant: only the beginning of the segment is compared with the file.
FileRangeStartOK(f, s) == s.p_filesz # 0 => s.p_offset <= f.len

FileRangeOK(f, s) ==
    s.p_filesz # 0 => s.p_offset <= f.len /\ Wrap(s.p_offset + s.p_filesz) <= f.len

SegmentOK(f, s) ==
    /\ FileRangeOK(f, s)
    /\ s.p_align \in {PageSize, HugePageSize}
    /\ s.p_memsz >= s.p_filesz
    /\ SegmentEnd(s) >= s.p_vaddr

Least(S) == CHOOSE x \in S : \A y \in S : x <= y
Greatest(S) == CHOOSE x \in S : \A y \in S : x >= y

min_vaddr(f) ==
    round_down(Least({Word - 1} \cup {f.phdrs[i].p_vaddr : i \in Loads(f)}), PageSize)
max_vaddr(f) ==
    round_up(Greatest({0} \cup {SegmentEnd(f.phdrs[i]) : i \in Loads(f)}), PageSize)

memory_limit(c) == round_up(c.memory_hard_limit, PageSize)
memory_needed(f) == Wrap(max_vaddr(f) - min_vaddr(f))
load_vaddr_break(c) == Wrap(LoadStart + memory_limit(c))

FitsWithStack(f, c) ==
    /\ memory_limit(c) >= memory_needed(f)
    /\ memory_limit(c) >= Wrap(memory_needed(f) + PageSize)

ImageFits(f, c) ==
    /\ min_vaddr(f) >= kernel_break
    /\ max_vaddr(f) > min_vaddr(f) /\ max_vaddr(f) <= vaddr_break
    /\ FitsWithStack(f, c)
    /\ min_vaddr(f) = LoadStart
    /\ load_vaddr_break(c) >= LoadStart
    /\ load_vaddr_break(c) <= vaddr_break

\* The special region: one part after the other.
\* Mutant: the part after an input begins in its last page.
AfterPartRoundedDown(start, size) == Wrap(start + round_down(size, PageSize))

AfterPart(start, size) == Wrap(start + round_up(size, PageSize))
PartOK(start, size) == /\ round_up(size, PageSize) >= size
                       /\ AfterPart(start, size) >= start

stdin_load_vaddr(c) == load_vaddr_break(c)
stdout_load_vaddr(c) == AfterPart(stdin_load_vaddr(c), c.stdin_size)
stderr_load_vaddr(c) == AfterPart(stdout_load_vaddr(c), c.stdout_max_size)
IB_load_vaddr(c) == AfterPart(stderr_load_vaddr(c), c.stderr_max_size)
OB_load_vaddr(c) == AfterPart(IB_load_vaddr(c), c.IB_size)
ELF_image_load_vaddr(c) == AfterPart(OB_load_vaddr(c), c.OB_size)
random_bytes_load_vaddr(c) == Wrap(ELF_image_load_vaddr(c) + PageSize)
special_region_break(c) == Wrap(random_bytes_load_vaddr(c) + PageSize)

\* Mutant: the end of the special region is not compared with the buffers.
EndsAnywhere(c) == special_region_break(c) >= load_vaddr_break(c)

EndsBelowBuffers(c) ==
    /\ special_region_break(c) >= load_vaddr_break(c)
    /\ special_region_break(c) <= vaddr_break

SpecialRegionFits(c) ==
    /\ PartOK(stdin_load_vaddr(c), c.stdin_size)
    /\ PartOK(stdout_load_vaddr(c), c.stdout_max_size)
    /\ PartOK(stderr_load_vaddr(c), c.stderr_max_size)
    /\ PartOK(IB_load_vaddr(c), c.IB_size)
    /\ PartOK(OB_load_vaddr(c), c.OB_size)
    /\ random_bytes_load_vaddr(c) >= ELF_image_load_vaddr(c)
    /\ special_region_break(c) >= random_bytes_load_vaddr(c)
    /\ EndsBelowBuffers(c)

Accepts(f, c) ==
    /\ HeaderOK(f)
    /\ \A i \in Loads(f) : SegmentOK(f, f.phdrs[i])
    /\ ImageFits(f, c)
    /\ SpecialRegionFits(c)

----------------------------------------------------------------------------
(* What load_elf64 writes, in its order *)

Copies(s, a) == In(a, s.p_vaddr, s.p_filesz)

\* The segments are copied one after the other: of two that overlap the
\* later one stays.
PutSegments(m, f) ==
    [a \in Words |->
        LET Over == {i \in Loads(f) : Copies(f.phdrs[i], a)}
            s == f.phdrs[Greatest(Over)]
        IN  IF Over = {} THEN m[a] ELSE <<"elf", Wrap(s.p_offset + Wrap(a - s.p_vaddr))>>]

PutInputs(m, c) ==
    LET m1 == Put(m, stdin_load_vaddr(c), c.stdin_size, "stdin")
        m2 == Put(m1, IB_load_vaddr(c), c.IB_size, "IB")
    IN  IF c.OB_need_clear THEN m2 ELSE Put(m2, OB_load_vaddr(c), c.OB_size, "OB")

\* The image is the beginning of the file, at most a page of it.
PutImage(m, f, c) ==
    Put(m, ELF_image_load_vaddr(c), IF f.len < PageSize THEN f.len ELSE PageSize, "image")

\* The random bytes and the stack, which grows down from load_vaddr_break.
PutStack(m, c) ==
    Put(Put(m, random_bytes_load_vaddr(c), RandomSize, "random"),
        Wrap(load_vaddr_break(c) - StackFrame), StackFrame, "stack")

Loaded(m, f, c) == PutStack(PutImage(PutInputs(PutSegments(m, f), c), f, c), c)

load(f, c) ==
    /\ app = NoApp
    /\ Accepts(f, c)
    /\ memory' = Loaded(memory, f, c)
    /\ app' = [file |-> f, config |-> c,
               start |-> LoadStart, break |-> special_region_break(c)]
    /\ res' = NoResult
    /\ UNCHANGED <<vaddr_break, buffers>>

\* Every return false of load_elf64: judge answers "Can't load ELF".
load_refused(f, c) == app = NoApp /\ ~Accepts(f, c) /\ UNCHANGED vars

----------------------------------------------------------------------------
(* ELF::run: the program uses its memory as it likes, leaves any sizes in  *)
(* its duckinfo, and ends.                                                 *)

\* Mutant: run believes the size the program left.
reported_size_unlimited(limit, size) == size

reported_size(limit, size) == IF size < limit THEN size ELSE limit

run(out, err) ==
    /\ app # NoApp
    /\ memory' = [a \in Words |-> IF app.start <= a /\ a < app.break THEN User ELSE memory[a]]
    /\ res' = [stdout_ptr |-> stdout_load_vaddr(app.config),
               stdout_size |-> reported_size(app.config.stdout_max_size, out),
               stderr_ptr |-> stderr_load_vaddr(app.config),
               stderr_size |-> reported_size(app.config.stderr_max_size, err),
               OB_ptr |-> OB_load_vaddr(app.config), OB_size |-> app.config.OB_size,
               break |-> app.break]
    /\ app' = NoApp
    /\ UNCHANGED <<vaddr_break, buffers>>

Init ==
    /\ vaddr_break = ReservedSize
    /\ buffers = {}
    /\ memory = [a \in Words |->
          IF a < KernelBreak THEN <<"kernel", a>>
          ELSE IF a < ReservedSize THEN Zero ELSE <<"outside", a>>]
    /\ app = NoApp
    /\ res = NoResult

Next ==
    \/ \E size \in AllocSizes : allocate_virtual_memory(size)
    \/ \E f \in Files, c \in Configs : load(f, c)
    \/ \E f \in Files, c \in Configs : load_refused(f, c)
    \/ \E out, err \in Sizes : run(out, err)

Spec == Init /\ [][Next]_vars

----------------------------------------------------------------------------
Kinds == {"kernel", "outside", "zero", "user", "elf", "stdin", "IB", "OB",
          "image", "random", "stack"}

TypeOK ==
    /\ vaddr_break \in KernelBreak..ReservedSize
    /\ buffers \subseteq [start : Words, size : Words]
    /\ memory \in [Words -> Kinds \X Words]
    /\ app = NoApp \/ app \in [file : Files, config : Configs, start : Words, break : Words]
    /\ res = NoResult \/ res \in [stdout_ptr : Words, stdout_size : Words, stderr_ptr : Words,
                                 stderr_size : Words, OB_ptr : Words, OB_size : Words, break : Words]

(* The allocator never gives the same memory twice, nor memory of the      *)
(* kernel, and everything it gave lies above what programs may use         *)
(* (allocate_virtual_memory lowering vaddr_break).                         *)
BuffersAreApart ==
    \A b \in buffers :
        /\ vaddr_break <= b.start /\ b.start + b.size <= ReservedSize
        /\ \A d \in buffers : b # d => \/ b.start + b.size <= d.start
                                       \/ d.start + d.size <= b.start

(* Whatever the file and the request say, loading and running a program    *)
(* changes no byte of the kernel, none of the buffers that hold the file,  *)
(* its inputs and the caches, and none outside the reserved memory: the    *)
(* checks of load_elf64 exclude every overflow of their own arithmetic.    *)
OnlyUserMemoryIsWritten ==
    [][\A a \in Words : memory'[a] # memory[a] => KernelBreak <= a /\ a < vaddr_break]_vars

\* s is the last segment of f that copies a byte to a.
LastAt(f, i, a) ==
    /\ i \in Loads(f) /\ Copies(f.phdrs[i], a)
    /\ \A j \in Loads(f) : Copies(f.phdrs[j], a) => j <= i

(* When load succeeds, the bytes of each segment are bytes of the file     *)
(* (none from beyond its end, although p_offset + p_filesz may wrap in the *)
(* check), at the place the segment asks for, and nothing that load writes *)
(* after them (inputs, random bytes, the stack) has overwritten them.      *)
ImageIsIntact ==
    app # NoApp =>
        \A i \in DOMAIN app.file.phdrs, a \in Words :
            LastAt(app.file, i, a) =>
                LET s == app.file.phdrs[i]
                    pos == s.p_offset + (a - s.p_vaddr)
                IN  pos < app.file.len /\ memory[a] = <<"elf", pos>>

Holds(start, size, what) ==
    \A k \in 0..(size - 1) : start + k \in Words /\ memory[start + k] = <<what, k>>

(* When load succeeds, stdin, the input buffer and the output buffer the   *)
(* request asks to keep are complete at the addresses duckinfo names: the  *)
(* parts of the special region do not overlap each other nor the stack.    *)
InputsArePlaced ==
    app # NoApp =>
        /\ Holds(stdin_load_vaddr(app.config), app.config.stdin_size, "stdin")
        /\ Holds(IB_load_vaddr(app.config), app.config.IB_size, "IB")
        /\ ~app.config.OB_need_clear =>
              Holds(OB_load_vaddr(app.config), app.config.OB_size, "OB")

(* Whatever sizes the program leaves in its duckinfo, the output that run  *)
(* reports, and that judge copies back, is memory of its own region, in    *)
(* order and apart from the other outputs and from every buffer.           *)
OutputIsInside ==
    res # NoResult =>
        /\ LoadStart <= res.stdout_ptr
        /\ res.stdout_ptr + res.stdout_size <= res.stderr_ptr
        /\ res.stderr_ptr + res.stderr_size <= res.OB_ptr
        /\ res.OB_ptr + res.OB_size <= res.break
        /\ res.break <= vaddr_break

(* What elf.cpp:229 says of an output buffer to be cleared, "No need to    *)
(* memset": its memory is zero when the program starts.                    *)
OutputBufferIsClear ==
    app # NoApp /\ app.config.OB_need_clear =>
        \A a \in Words : In(a, OB_load_vaddr(app.config), app.config.OB_size)
                            => memory[a] = Zero
=============================================================================
