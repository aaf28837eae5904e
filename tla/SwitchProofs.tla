---------------------------- MODULE SwitchProofs ----------------------------
(***************************************************************************)
(* Proofs about the switch into the duck kernel and back (Switch), with    *)
(* the kernel in between (DuckKernel), for any table index of Linux's task *)
(* state, any state of the interrupt controllers, any pointers of the      *)
(* image and any answer of cpuid.                                          *)
(*                                                                         *)
(* The switch is a straight line, and the invariant follows it: KernelInv  *)
(* says what each initialisation of main has left, ImageInv what the       *)
(* wrapper keeps and when, and RegistersInv which registers may differ     *)
(* from the ones Linux had, statement by statement.                        *)
(***************************************************************************)
EXTENDS Switch, TLAPS

Chips == [want : Nat, offset : Nat, cascade : Nat, mask : Nat]
Pics == [1..2 -> Chips]

\* A controller, and the pair of them with number k replaced.
Chip(want, offset, cascade, mask) ==
    [want |-> want, offset |-> offset, cascade |-> cascade, mask |-> mask]
With(p, k, c) == [p EXCEPT ![k] = c]

-----------------------------------------------------------------------------
(* The interrupt controllers *)

\* The fields of an interrupt controller.
LEMMA ChipType ==
    ASSUME NEW w \in Nat, NEW o \in Nat, NEW s \in Nat, NEW m \in Nat
    PROVE  Chip(w, o, s, m) \in Chips
BY DEF Chip, Chips

\* A chip is its fields.
LEMMA SameChip ==
    ASSUME NEW c \in Chips, NEW d \in Chips, c.want = d.want, c.offset = d.offset,
           c.cascade = d.cascade, c.mask = d.mask
    PROVE  c = d
BY DEF Chips

\* Replacing one chip leaves the other.
LEMMA WithValue ==
    ASSUME NEW p \in Pics, NEW k \in 1..2, NEW c \in Chips
    PROVE  /\ With(p, k, c) \in Pics
           /\ With(p, k, c)[k] = c
           /\ \A j \in 1..2 : j # k => With(p, k, c)[j] = p[j]
BY DEF With, Pics

(* The first word, and what the others do in their turn.                     *)
LEMMA CommandValue ==
    ASSUME NEW c \in Chips
    PROVE  Command(c, 17) = Chip(2, c.offset, c.cascade, 0)
BY DEF Command, Chip, Chips

\* What a byte on the data port does to a chip that waits for each word.
LEMMA DataValue ==
    ASSUME NEW o \in Nat, NEW s \in Nat, NEW m \in Nat, NEW byte \in Nat
    PROVE  /\ Data(Chip(2, o, s, m), byte) = Chip(3, byte, s, m)
           /\ Data(Chip(3, o, s, m), byte) = Chip(4, o, byte, m)
           /\ Data(Chip(4, o, s, m), byte) = Chip(0, o, s, m)
           /\ Data(Chip(0, o, s, m), byte) = Chip(0, o, s, byte)
<1> DEFINE c2 == Chip(2, o, s, m)
           c3 == Chip(3, o, s, m)
           c4 == Chip(4, o, s, m)
           c0 == Chip(0, o, s, m)
<1>1. c2.want = 2 /\ c3.want = 3 /\ c4.want = 4 /\ c0.want = 0
  BY DEF Chip
<1>2. /\ [c2 EXCEPT !.want = 3, !.offset = byte] = Chip(3, byte, s, m)
      /\ [c3 EXCEPT !.want = 4, !.cascade = byte] = Chip(4, o, byte, m)
      /\ [c4 EXCEPT !.want = 0] = Chip(0, o, s, m)
      /\ [c0 EXCEPT !.mask = byte] = Chip(0, o, s, byte)
  <2>1. [c2 EXCEPT !.want = 3, !.offset = byte] = Chip(3, byte, s, m)
    <3> DEFINE d == [c2 EXCEPT !.want = 3, !.offset = byte]
               e == Chip(3, byte, s, m)
    <3>1. c2 \in Chips /\ c2.offset = o /\ c2.cascade = s /\ c2.mask = m
      BY DEF Chip, Chips
    <3>2. e \in Chips /\ <<e.want, e.offset, e.cascade, e.mask>> = <<3, byte, s, m>>
      BY DEF Chip, Chips
    <3> HIDE DEF c2, e
    <3>3. d \in Chips /\ <<d.want, d.offset, d.cascade, d.mask>> = <<3, byte, s, m>>
      BY <3>1 DEF Chips
    <3> HIDE DEF d
    <3>4. d = e
      BY <3>2, <3>3, SameChip
    <3> QED BY <3>4 DEF d, e, c2
  <2>2. [c3 EXCEPT !.want = 4, !.cascade = byte] = Chip(4, o, byte, m)
    <3> DEFINE d == [c3 EXCEPT !.want = 4, !.cascade = byte]
               e == Chip(4, o, byte, m)
    <3>1. c3 \in Chips /\ c3.offset = o /\ c3.cascade = s /\ c3.mask = m
      BY DEF Chip, Chips
    <3>2. e \in Chips /\ <<e.want, e.offset, e.cascade, e.mask>> = <<4, o, byte, m>>
      BY DEF Chip, Chips
    <3> HIDE DEF c3, e
    <3>3. d \in Chips /\ <<d.want, d.offset, d.cascade, d.mask>> = <<4, o, byte, m>>
      BY <3>1 DEF Chips
    <3> HIDE DEF d
    <3>4. d = e
      BY <3>2, <3>3, SameChip
    <3> QED BY <3>4 DEF d, e, c3
  <2>3. [c4 EXCEPT !.want = 0] = Chip(0, o, s, m)
    BY DEF Chip
  <2>4. [c0 EXCEPT !.mask = byte] = Chip(0, o, s, byte)
    BY DEF Chip
  <2> QED BY <2>1, <2>2, <2>3, <2>4
<1> HIDE DEF c2, c3, c4, c0
<1>3. /\ Data(c2, byte) = [c2 EXCEPT !.want = 3, !.offset = byte]
      /\ Data(c3, byte) = [c3 EXCEPT !.want = 4, !.cascade = byte]
      /\ Data(c4, byte) = [c4 EXCEPT !.want = 0]
      /\ Data(c0, byte) = [c0 EXCEPT !.mask = byte]
  <2>1. Data(c2, byte) = [c2 EXCEPT !.want = 3, !.offset = byte]
    BY <1>1 DEF Data
  <2>2. Data(c3, byte) = [c3 EXCEPT !.want = 4, !.cascade = byte]
    BY <1>1 DEF Data
  <2>3. Data(c4, byte) = [c4 EXCEPT !.want = 0]
    BY <1>1 DEF Data
  <2>4. Data(c0, byte) = [c0 EXCEPT !.mask = byte]
    BY <1>1 DEF Data
  <2> QED BY <2>1, <2>2, <2>3, <2>4
<1> QED BY <1>2, <1>3 DEF c2, c3, c4, c0

(* Whatever a controller waits for, a byte leaves it a controller.           *)
LEMMA DataType ==
    ASSUME NEW c \in Chips, NEW byte \in Nat
    PROVE  Data(c, byte) \in Chips
<1>1. /\ [c EXCEPT !.want = 3, !.offset = byte] \in Chips
      /\ [c EXCEPT !.want = 4, !.cascade = byte] \in Chips
      /\ [c EXCEPT !.want = 0] \in Chips
      /\ [c EXCEPT !.mask = byte] \in Chips
  BY DEF Chips
<1> QED BY <1>1 DEF Data

(* A byte sent to a controller reaches that controller alone.                *)
LEMMA OutbValue ==
    ASSUME NEW p, NEW byte
    PROVE  /\ outb(p, <<32, byte>>) = With(p, 1, Command(p[1], byte))
           /\ outb(p, <<33, byte>>) = With(p, 1, Data(p[1], byte))
           /\ outb(p, <<160, byte>>) = With(p, 2, Command(p[2], byte))
           /\ outb(p, <<161, byte>>) = With(p, 2, Data(p[2], byte))
BY DEF outb, IO_PIC1, IO_PIC2, With

(* The four words program the controller they are sent to, whatever it was   *)
(* doing, and leave the other one alone.                                     *)
LEMMA FourWords ==
    ASSUME NEW p \in Pics, NEW k \in 1..2, NEW offset \in Nat, NEW cascade \in Nat,
           NEW last \in Nat
    PROVE  LET p1 == With(p, k, Command(p[k], 17))
               p2 == With(p1, k, Data(p1[k], offset))
               p3 == With(p2, k, Data(p2[k], cascade))
               p4 == With(p3, k, Data(p3[k], last))
           IN  /\ p4 \in Pics
               /\ p4[k] = Chip(0, offset, cascade, 0)
               /\ \A j \in 1..2 : j # k => p4[j] = p[j]
<1> DEFINE p1 == With(p, k, Command(p[k], 17))
           p2 == With(p1, k, Data(p1[k], offset))
           p3 == With(p2, k, Data(p2[k], cascade))
           p4 == With(p3, k, Data(p3[k], last))
           c == p[k]
<1>1. c \in Chips
  BY DEF Pics
<1>2. c.offset \in Nat /\ c.cascade \in Nat
  BY <1>1 DEF Chips
<1>3. /\ Command(c, 17) = Chip(2, c.offset, c.cascade, 0)
      /\ Chip(2, c.offset, c.cascade, 0) \in Chips
  BY <1>1, <1>2, CommandValue, ChipType
<1>4. p1 \in Pics /\ p1[k] = Chip(2, c.offset, c.cascade, 0)
      /\ \A j \in 1..2 : j # k => p1[j] = p[j]
  BY <1>3, WithValue
<1> HIDE DEF p1, c
<1>5. /\ Data(p1[k], offset) = Chip(3, offset, c.cascade, 0)
      /\ Chip(3, offset, c.cascade, 0) \in Chips
  BY <1>2, <1>4, DataValue, ChipType
<1>6. p2 \in Pics /\ p2[k] = Chip(3, offset, c.cascade, 0)
      /\ \A j \in 1..2 : j # k => p2[j] = p1[j]
  BY <1>4, <1>5, WithValue
<1> HIDE DEF p2
<1>7. /\ Data(p2[k], cascade) = Chip(4, offset, cascade, 0)
      /\ Chip(4, offset, cascade, 0) \in Chips
  BY <1>2, <1>6, DataValue, ChipType
<1>8. p3 \in Pics /\ p3[k] = Chip(4, offset, cascade, 0)
      /\ \A j \in 1..2 : j # k => p3[j] = p2[j]
  BY <1>6, <1>7, WithValue
<1> HIDE DEF p3
<1>9. /\ Data(p3[k], last) = Chip(0, offset, cascade, 0)
      /\ Chip(0, offset, cascade, 0) \in Chips
  BY <1>8, DataValue, ChipType
<1>10. p4 \in Pics /\ p4[k] = Chip(0, offset, cascade, 0)
       /\ \A j \in 1..2 : j # k => p4[j] = p3[j]
  BY <1>8, <1>9, WithValue
<1> HIDE DEF p4
<1>11. \A j \in 1..2 : j # k => p4[j] = p[j]
  BY <1>4, <1>6, <1>8, <1>10
<1> QED BY <1>10, <1>11 DEF p1, p2, p3, p4, c

\* The master after the four words of its initialisation and its mask.
LEMMA MasterValue ==
    ASSUME NEW p \in Pics
    PROVE  Master(p) \in Pics /\ Master(p)[1] = Chip(0, 32, 4, 0) /\ Master(p)[2] = p[2]
<1> DEFINE p1 == With(p, 1, Command(p[1], 17))
           p2 == With(p1, 1, Data(p1[1], 32))
           p3 == With(p2, 1, Data(p2[1], 4))
           p4 == With(p3, 1, Data(p3[1], 3))
<1>1. p4 \in Pics /\ p4[1] = Chip(0, 32, 4, 0) /\ \A j \in 1..2 : j # 1 => p4[j] = p[j]
  BY FourWords, SMTT(30)
<1>2. IO_PIC1 = 32 /\ IO_PIC1 + 1 = 33 /\ IRQ_OFFSET = 32
  BY DEF IO_PIC1, IRQ_OFFSET
<1>3. Master(p) = p4
  <2>1. outb(p, <<32, 17>>) = p1
    BY OutbValue, ZenonT(40)
  <2> HIDE DEF p1
  <2>2. outb(p1, <<33, 32>>) = p2
    BY OutbValue, ZenonT(40)
  <2> HIDE DEF p2
  <2>3. outb(p2, <<33, 4>>) = p3
    BY OutbValue, ZenonT(40)
  <2> HIDE DEF p3
  <2>4. outb(p3, <<33, 3>>) = p4
    BY OutbValue, ZenonT(40)
  <2> HIDE DEF p4
  <2> QED BY <1>2, <2>1, <2>2, <2>3, <2>4 DEF Master, initialise
<1> HIDE DEF p4
<1>4. 2 \in 1..2 /\ 2 # 1
  OBVIOUS
<1> QED BY <1>1, <1>3, <1>4

\* The slave, likewise.
LEMMA SlaveValue ==
    ASSUME NEW p \in Pics
    PROVE  Slave(p) \in Pics /\ Slave(p)[2] = Chip(0, 40, 2, 0) /\ Slave(p)[1] = p[1]
<1> DEFINE p1 == With(p, 2, Command(p[2], 17))
           p2 == With(p1, 2, Data(p1[2], 40))
           p3 == With(p2, 2, Data(p2[2], 2))
           p4 == With(p3, 2, Data(p3[2], 1))
<1>1. p4 \in Pics /\ p4[2] = Chip(0, 40, 2, 0) /\ \A j \in 1..2 : j # 2 => p4[j] = p[j]
  BY FourWords, SMTT(30)
<1>2. IO_PIC2 = 160 /\ IO_PIC2 + 1 = 161 /\ IRQ_OFFSET + 8 = 40 /\ IRQ_SLAVE = 2
  BY DEF IO_PIC2, IRQ_OFFSET, IRQ_SLAVE
<1>3. Slave(p) = p4
  <2>1. outb(p, <<160, 17>>) = p1
    BY OutbValue, ZenonT(40)
  <2> HIDE DEF p1
  <2>2. outb(p1, <<161, 40>>) = p2
    BY OutbValue, ZenonT(40)
  <2> HIDE DEF p2
  <2>3. outb(p2, <<161, 2>>) = p3
    BY OutbValue, ZenonT(40)
  <2> HIDE DEF p3
  <2>4. outb(p3, <<161, 1>>) = p4
    BY OutbValue, ZenonT(40)
  <2> HIDE DEF p4
  <2> QED BY <1>2, <2>1, <2>2, <2>3, <2>4 DEF Slave, initialise
<1> HIDE DEF p4
<1>4. 1 \in 1..2 /\ 1 # 2
  OBVIOUS
<1> QED BY <1>1, <1>3, <1>4

(* Two bytes to the data ports.                                              *)
LEMMA TwoData ==
    ASSUME NEW p \in Pics, NEW a \in Nat, NEW b \in Nat
    PROVE  LET q == outb(outb(p, <<IO_PIC1 + 1, a>>), <<IO_PIC2 + 1, b>>)
           IN  q \in Pics /\ q[1] = Data(p[1], a) /\ q[2] = Data(p[2], b)
<1> DEFINE r == With(p, 1, Data(p[1], a))
           q == With(r, 2, Data(r[2], b))
<1>1. IO_PIC1 + 1 = 33 /\ IO_PIC2 + 1 = 161
  BY DEF IO_PIC1, IO_PIC2
<1>2. outb(p, <<33, a>>) = r
  BY OutbValue, ZenonT(40)
<1>3. p[1] \in Chips /\ 1 \in 1..2 /\ 2 \in 1..2 /\ 1 # 2
  BY DEF Pics
<1>4. r \in Pics /\ r[1] = Data(p[1], a) /\ r[2] = p[2]
  <2> DEFINE c == Data(p[1], a)
  <2>1. c \in Chips
    BY <1>3, DataType
  <2> HIDE DEF c
  <2>2. /\ With(p, 1, c) \in Pics /\ With(p, 1, c)[1] = c
        /\ \A j \in 1..2 : j # 1 => With(p, 1, c)[j] = p[j]
    BY <1>3, <2>1, WithValue
  <2>3. With(p, 1, c)[2] = p[2]
    BY <1>3, <2>2
  <2> QED BY <2>2, <2>3 DEF c
<1> HIDE DEF r
<1>5. outb(r, <<161, b>>) = q
  BY OutbValue, ZenonT(40)
<1>6. r[2] \in Chips
  BY <1>4 DEF Pics
<1>7. q \in Pics /\ q[2] = Data(r[2], b) /\ q[1] = r[1]
  <2> DEFINE c == Data(r[2], b)
  <2>1. c \in Chips
    BY <1>6, DataType
  <2> HIDE DEF c
  <2>2. /\ With(r, 2, c) \in Pics /\ With(r, 2, c)[2] = c
        /\ \A j \in 1..2 : j # 2 => With(r, 2, c)[j] = r[j]
    BY <1>3, <1>4, <2>1, WithValue
  <2>3. With(r, 2, c)[1] = r[1]
    BY <1>3, <2>2
  <2> QED BY <2>2, <2>3 DEF c
<1> HIDE DEF q
<1> QED BY <1>1, <1>2, <1>4, <1>5, <1>7

(* PIC::init leaves both controllers programmed, and only the line of the    *)
(* cascade enabled, whatever Linux did with them.                            *)
LEMMA PicInitValue ==
    ASSUME NEW p \in Pics, NEW d, d.mask_8259A = 65531
    PROVE  /\ pic_init(p, d) \in Pics
           /\ pic_init(p, d)[1] = Chip(0, 32, 4, 251)
           /\ pic_init(p, d)[2] = Chip(0, 40, 2, 255)
<1> DEFINE r == mask_all(p)
           m == Master(r)
           s == Slave(m)
           u == outb(outb(s, <<IO_PIC1 + 1, 251>>), <<IO_PIC2 + 1, 255>>)
<1>1. r \in Pics
  BY TwoData DEF mask_all
<1> HIDE DEF r
<1>2. m \in Pics /\ m[1] = Chip(0, 32, 4, 0)
  BY <1>1, MasterValue
<1> HIDE DEF m
<1>3. s \in Pics /\ s[1] = Chip(0, 32, 4, 0) /\ s[2] = Chip(0, 40, 2, 0)
  BY <1>2, SlaveValue
<1> HIDE DEF s
<1>4. u \in Pics /\ u[1] = Data(s[1], 251) /\ u[2] = Data(s[2], 255)
  BY <1>3, TwoData
<1> HIDE DEF u
<1>5. u[1] = Chip(0, 32, 4, 251) /\ u[2] = Chip(0, 40, 2, 255)
  BY <1>3, <1>4, DataValue
<1>6. pic_init(p, d) = u
  <2>1. 65531 % 256 = 251 /\ 65531 \div 256 = 255 /\ 65531 # 65535
    OBVIOUS
  <2> QED BY <2>1, SMT DEF pic_init, set_mask_8259A, u, s, m, r
<1> QED BY <1>4, <1>5, <1>6

-----------------------------------------------------------------------------
(* The invariant *)

Ducks ==
    [mask_8259A : Nat, did_init : BOOLEAN, heap_brk : Nat, tsc_freq : Nat, ext_freq : Nat,
     clk_freq : Nat, tsc_epoch : Nat, kernel_break : Nat, idt : {<<>>, idt}, gdt : {<<>>, gdt},
     stacks : {<<>>, interrupt_stack}, IOPB_offset : Nat, syscall_stack : Nat]

PicsAreSet == pic[1] = Chip(0, 32, 4, 251) /\ pic[2] = Chip(0, 40, 2, 255)

\* What Timer::init finds out, whatever cpuid answers.
Speed(s) ==
    /\ s.tsc_freq \in Nat /\ s.ext_freq \in Nat \ {0} /\ s.clk_freq \in Nat
    /\ s.tsc_freq - 50 * MHz < s.clk_freq /\ s.clk_freq <= s.tsc_freq + 50 * MHz
    /\ (s.clk_freq = 0) <=> (s.tsc_freq < 50 * MHz)

TrapsAreSet ==
    /\ duck.idt = idt /\ duck.gdt = gdt /\ duck.stacks = interrupt_stack
    /\ duck.IOPB_offset = TaskStateSize /\ duck.syscall_stack = 1
    /\ \A r \in DOMAIN TrapRegisters : cpu[r] = TrapRegisters[r]

(* What main has set up so far.                                              *)
KernelInv ==
    /\ pic \in Pics /\ duck \in Ducks
    /\ duck.mask_8259A = ZeroDuck.mask_8259A
    /\ duck.heap_brk = 0 \/ duck.heap_brk \in heap..(heap + KERNEL_HEAP_SIZE)
    /\ pc \in {"Timer", "Memory", "Trap", "tests", "exit"} => PicsAreSet
    /\ pc \in {"Memory", "Trap", "tests", "exit"} => Speed(duck)
    /\ pc \in {"tests", "exit"} => TrapsAreSet

Running == {"start", "hello", "PIC", "Timer", "Memory", "Trap", "tests", "exit"}
Stopped == {"divide_error", "abort"}
Back6 == {"leave"}
Back5 == Back6 \cup {"restore_msrs"}
Back4 == Back5 \cup {"restore_segments"}
Back3 == Back4 \cup {"restore_tables"}
Back2 == Back3 \cup {"restore_tr"}
Back1 == Back2 \cup {"restore_cr"}
Linked == Running \cup {"duck_entry", "restore_cr3"} \cup (Back1 \ {"leave"})

Relocated == [i \in DOMAIN Pointers |-> dynlink_ptr(Pointers[i])]
Descriptors == {"none", "code", "available tss", "busy tss", "upper half"}
Images == [linux_cr3 : {"none", "linux"}, linux_rsp : {"none", "linux"},
           wrapper_rsp : {"none", "stack"}, magic : {"deadbeef", "abcd1234"},
           pointers : {Pointers, Relocated}, gdt : [0..15 -> Descriptors]]

(* What the wrapper keeps of Linux, and what it has done to the image.       *)
ImageInv ==
    /\ image \in Images
    /\ pc # "linux" => image.linux_rsp = "linux"
    /\ pc \in {"save", "gdt", "segments"} =>
          image.gdt[1] = "code" /\ image.gdt[2] = "available tss"
    /\ pc \in {"save", "gdt", "segments", "cr", "dynlink"} =>
          image.magic = "deadbeef" /\ image.pointers = Pointers
    /\ pc \in Linked => image.magic = "abcd1234" /\ image.pointers = Relocated
    /\ pc \in {"gdt", "segments", "cr", "dynlink"} \cup Linked =>
          /\ linux["tr"] < NUM_GDT_DESC
          /\ \A r \in Saved : data[r] = linux[r]
          /\ image.linux_cr3 = "linux"
    /\ pc \in {"leave", "back"} => ((linux["tr"] >= NUM_GDT_DESC) <=> (image.magic = "deadbeef"))

IsCpu(f) == f = [r \in Regs |-> f[r]]
Same(regs) == \A r \in regs : cpu[r] = linux[r]

(* Which registers are Linux's again, and where the others matter.           *)
RegistersInv ==
    /\ IsCpu(cpu) /\ IsCpu(linux)
    /\ pc = "linux" => cpu = LinuxCpu
    /\ pc # "linux" => /\ linux["tr"] \in TssIndices
                       /\ \A r \in Regs \ {"tr", "gs"} : linux[r] = "linux"
    /\ pc \in {"save", "gdt"} => Same(Regs \ {"rsp"})
    /\ pc \in {"duck_entry", "dynlink", "cr", "segments", "save", "gdt"} => cpu["rsp"] = "stack"
    /\ pc \in {"segments", "cr"} => cpu["cr3"] = "linux" /\ cpu["gdtr"] = "wrapper"
    /\ pc \in {"dynlink", "duck_entry", "restore_cr3"} \cup Running => cpu["cr3"] = "duck"
    /\ pc \in {"dynlink", "duck_entry"} \cup Running => cpu["cr4"] = "fsgsbase"
    /\ pc \in Back1 => Same({"cr3"})
    /\ pc \in Back2 => Same({"cr0", "cr4"})
    /\ pc \in Back3 => Same({"tr"})
    /\ pc \in Back4 => Same({"gdtr", "idtr"})
    /\ pc \in Back5 => Same({"cs", "ds", "es", "fs", "gs"})
    /\ pc \in Back6 => Same(Msrs)
    /\ pc = "leave" /\ image.magic = "deadbeef" => Same(Regs \ {"rsp"})
    /\ pc = "back" => Same(Regs \ Lost)
    /\ pc = "back" /\ image.magic = "deadbeef" => cpu = linux

SwitchInv == KernelInv /\ ImageInv /\ RegistersInv /\ NoFault

USE DEF At, Goto

-----------------------------------------------------------------------------
(* The kernel *)

(* Division with remainder.                                                  *)
LEMMA Division ==
    ASSUME NEW x \in Nat, NEW d \in Nat \ {0}
    PROVE  x \div d \in Nat /\ x % d \in 0..(d - 1) /\ x = d * (x \div d) + (x % d)
<1> DEFINE q == x \div d
           m == x % d
<1>1. q \in Int /\ m \in 0..(d - 1) /\ x = d * q + m
  OBVIOUS
<1> HIDE DEF q, m
<1>2. q >= 0
  <2> SUFFICES ASSUME q <= -1 PROVE FALSE
    BY <1>1
  <2>1. d * q <= d * (-1)
    BY <1>1
  <2> QED BY <1>1, <2>1
<1>3. q \in Nat
  BY <1>1, <1>2
<1> QED BY <1>1, <1>3 DEF q, m

(* The rounding of clk_freq, for any frequency.                              *)
LEMMA ClkFreqValue ==
    ASSUME NEW tsc \in Nat
    PROVE  LET clk == round_down(tsc + 50 * MHz, 100 * MHz)
           IN  /\ clk \in Nat /\ tsc - 50 * MHz < clk /\ clk <= tsc + 50 * MHz
               /\ (clk = 0) <=> (tsc < 50 * MHz)
<1> DEFINE x == tsc + 50 * MHz
           d == 100 * MHz
           q == x \div d
           m == x % d
<1>1. MHz \in Nat \ {0}
  BY LeafAssumption
<1>2. x \in Nat /\ d \in Nat \ {0} /\ d = 50 * MHz + 50 * MHz
  BY <1>1
<1>3. q \in Nat /\ m \in 0..(d - 1) /\ x = d * q + m
  <2>1. x \in Nat /\ d \in Nat \ {0}
    BY <1>2
  <2> HIDE DEF x, d
  <2>2. x \div d \in Nat /\ x % d \in 0..(d - 1) /\ x = d * (x \div d) + (x % d)
    BY <2>1, Division, Zenon
  <2> QED BY <2>2, Zenon
<1> HIDE DEF q, m
<1>4. q * d = d * q /\ q * d \in Nat /\ x = q * d + m
  <2> HIDE DEF x, d
  <2> QED BY <1>2, <1>3
<1>5. (q * d = 0) <=> (x < d)
  <2> HIDE DEF x, d
  <2>1. CASE q = 0
    BY <1>2, <1>3, <1>4, <2>1
  <2>2. CASE q # 0
    <3>1. d * 1 <= d * q
      BY <1>2, <1>3, <2>2
    <3> QED BY <1>2, <1>3, <1>4, <3>1
  <2> QED BY <2>1, <2>2
<1> DEFINE clk == q * d
           h == 50 * MHz
<1>6. h \in Nat /\ d = h + h /\ x = tsc + h
  BY <1>1
<1>7. clk \in Nat /\ tsc - h < clk /\ clk <= tsc + h /\ ((clk = 0) <=> (tsc < h))
  <2>1. clk \in Nat /\ x = clk + m /\ ((clk = 0) <=> (x < d)) /\ m \in 0..(d - 1)
    BY <1>3, <1>4, <1>5
  <2> HIDE DEF clk, h, x, d
  <2> QED BY <1>2, <1>6, <2>1
<1>8. round_down(x, d) = clk
  BY DEF round_down, q
<1> QED BY <1>7, <1>8

(* Any words that cpuid may return give such a speed, if the division can be *)
(* done.                                                                     *)
LEMMA SpeedValue ==
    /\ \A leaf \in Leaf15 :
          (RatioIsKnown(leaf) => leaf.eax # 0) => Speed(detect_cpu_speed_intel(leaf))
    /\ Speed(detect_cpu_speed_others)
<1>0. MHz \in Nat \ {0}
  BY LeafAssumption
<1>1. ASSUME NEW leaf \in Leaf15, RatioIsKnown(leaf) => leaf.eax # 0
      PROVE  Speed(detect_cpu_speed_intel(leaf))
  <2> DEFINE ext == ext_freq_of(leaf)
             known == RatioIsKnown(leaf)
             tsc == IF known THEN (ext * leaf.ebx) \div leaf.eax ELSE 3600 * MHz
             clk == round_down(tsc + 50 * MHz, 100 * MHz)
             speed == detect_cpu_speed_intel(leaf)
  <2>1. leaf \in [eax : Nat, ebx : Nat, ecx : Nat]
    BY LeafAssumption
  <2>2. leaf.eax \in Nat /\ leaf.ebx \in Nat /\ ext \in Nat /\ ext > 0
    BY <1>0, <2>1 DEF ext_freq_of
  <2>3. /\ speed.tsc_freq = tsc /\ speed.clk_freq = clk
        /\ speed.ext_freq = IF known THEN ext ELSE 1000 * MHz
    BY DEF detect_cpu_speed_intel
  <2> HIDE DEF ext, speed
  <2>4. tsc \in Nat
    <3>1. CASE ~ known
      BY <1>0, <3>1
    <3>2. CASE known
      <4> DEFINE num == ext * leaf.ebx
                 den == leaf.eax
      <4>1. num \in Nat /\ den \in Nat /\ den > 0
        BY <1>1, <2>2, <3>2
      <4> HIDE DEF num, den
      <4>2. num \div den \in Nat
        BY <4>1, Z3
      <4> QED BY <3>2, <4>2 DEF num, den
    <3> QED BY <3>1, <3>2
  <2> HIDE DEF tsc
  <2>5. /\ clk \in Nat /\ tsc - 50 * MHz < clk /\ clk <= tsc + 50 * MHz
        /\ (clk = 0) <=> (tsc < 50 * MHz)
    BY <2>4, ClkFreqValue
  <2> HIDE DEF clk, known
  <2>6. speed.ext_freq \in Nat \ {0}
    BY <1>0, <2>2, <2>3
  <2> QED BY <2>3, <2>4, <2>5, <2>6 DEF Speed, speed
<1>2. Speed(detect_cpu_speed_others)
  BY <1>0 DEF detect_cpu_speed_others, Speed
<1> QED BY <1>1, <1>2

(* The image as loaded is one of a kernel that has set up nothing.           *)
LEMMA ZeroDuckValue ==
    ZeroDuck \in Ducks /\ ZeroDuck.heap_brk = 0 /\ ZeroDuck.mask_8259A = 65531
BY SMT DEF ZeroDuck, Ducks

\* PIC_init keeps the invariant of the kernel.
LEMMA PicKeeps == KernelInv /\ PIC_init => KernelInv'
<1> SUFFICES ASSUME KernelInv, PIC_init PROVE KernelInv'
  OBVIOUS
<1>1. pic \in Pics /\ duck.mask_8259A = 65531
  BY ZeroDuckValue, SMT DEF KernelInv
<1>2. pic' \in Pics /\ PicsAreSet'
  BY <1>1, PicInitValue, SMT DEF PIC_init, PicsAreSet
<1>3. duck' \in Ducks /\ duck'.mask_8259A = duck.mask_8259A /\ duck'.heap_brk = duck.heap_brk
  BY DEF KernelInv, Ducks, PIC_init
<1> QED BY <1>2, <1>3 DEF KernelInv, PIC_init

\* So does setting up the timer, ...
LEMMA TimerKeeps ==
    ASSUME KernelInv, NEW speed, Speed(speed), Timer_init(speed)
    PROVE  KernelInv'
<1>1. PICK tsc \in Counters :
          duck' = [duck EXCEPT !.tsc_freq = speed.tsc_freq, !.ext_freq = speed.ext_freq,
                               !.clk_freq = speed.clk_freq, !.tsc_epoch = tsc]
  BY DEF Timer_init
<1>2. tsc \in Nat /\ duck \in Ducks
  BY LeafAssumption DEF KernelInv
<1>3. /\ duck' \in Ducks /\ duck'.mask_8259A = duck.mask_8259A /\ duck'.heap_brk = duck.heap_brk
      /\ duck'.tsc_freq = speed.tsc_freq /\ duck'.ext_freq = speed.ext_freq
      /\ duck'.clk_freq = speed.clk_freq
  BY <1>1, <1>2 DEF Ducks, Speed
<1>4. Speed(duck')
  BY <1>3 DEF Speed
<1>5. pic' = pic /\ pc = "Timer" /\ pc' = "Memory"
  BY DEF Timer_init
<1> QED BY <1>3, <1>4, <1>5 DEF KernelInv, PicsAreSet

\* ... the division by zero, which ends everything, ...
LEMMA DivideKeeps ==
    ASSUME KernelInv, NEW leaf \in Leaf15, divide_error(leaf)
    PROVE  KernelInv'
<1>1. leaf \in [eax : Nat, ebx : Nat, ecx : Nat] /\ MHz \in Nat
  BY LeafAssumption
<1>2. ext_freq_of(leaf) \in Nat
  BY <1>1 DEF ext_freq_of
<1>3. duck' \in Ducks /\ duck'.mask_8259A = duck.mask_8259A /\ duck'.heap_brk = duck.heap_brk
  BY <1>2 DEF KernelInv, Ducks, divide_error
<1>4. pic' = pic /\ pc' = "divide_error"
  BY DEF divide_error
<1> QED BY <1>3, <1>4 DEF KernelInv

\* ... Memory_init, whether its assertion holds or not, ...
LEMMA MemoryKeeps == KernelInv /\ Memory_init => KernelInv'
<1> SUFFICES ASSUME KernelInv, Memory_init PROVE KernelInv'
  OBVIOUS
<1>1. KERNEL_BREAK \in Nat
  BY HeapAssumption
<1>2. /\ duck' \in Ducks /\ duck'.mask_8259A = duck.mask_8259A /\ duck'.heap_brk = duck.heap_brk
      /\ duck'.tsc_freq = duck.tsc_freq /\ duck'.ext_freq = duck.ext_freq
      /\ duck'.clk_freq = duck.clk_freq
  BY <1>1 DEF KernelInv, Ducks, Memory_init
<1>3. pic' = pic /\ pc = "Memory" /\ pc' \in {"Trap", "abort"}
  BY DEF Memory_init
<1>4. pic' \in Pics /\ (duck.heap_brk = 0 \/ duck.heap_brk \in heap..(heap + KERNEL_HEAP_SIZE))
      /\ PicsAreSet /\ Speed(duck) /\ duck.mask_8259A = ZeroDuck.mask_8259A
  BY <1>3 DEF KernelInv
<1>5. PicsAreSet' /\ Speed(duck')
  BY <1>2, <1>3, <1>4 DEF PicsAreSet, Speed
<1> QED BY <1>2, <1>3, <1>4, <1>5 DEF KernelInv

(* Set changes the registers it names and no other.                          *)
LEMMA SetValue ==
    ASSUME IsCpu(cpu), NEW regs, Set(regs)
    PROVE  /\ IsCpu(cpu')
           /\ \A r \in Regs : cpu'[r] = IF r \in DOMAIN regs THEN regs[r] ELSE cpu[r]
BY DEF IsCpu, Set

\* Trap_init writes registers of the processor ...
LEMMA TrapDomain == DOMAIN TrapRegisters \subseteq Regs
BY DEF TrapRegisters, Regs

\* ... and keeps the invariant.
LEMMA TrapKeeps == KernelInv /\ IsCpu(cpu) /\ Trap_init => KernelInv'
<1> SUFFICES ASSUME KernelInv, IsCpu(cpu), Trap_init PROVE KernelInv'
  OBVIOUS
<1>1. /\ duck' \in Ducks /\ duck'.mask_8259A = duck.mask_8259A /\ duck'.heap_brk = duck.heap_brk
      /\ duck'.tsc_freq = duck.tsc_freq /\ duck'.ext_freq = duck.ext_freq
      /\ duck'.clk_freq = duck.clk_freq
      /\ duck'.idt = idt /\ duck'.gdt = gdt /\ duck'.stacks = interrupt_stack
      /\ duck'.IOPB_offset = TaskStateSize /\ duck'.syscall_stack = 1
  <2> DEFINE d == [duck EXCEPT !.idt = idt, !.gdt = gdt, !.stacks = interrupt_stack]
  <2>1. interrupt_stack[0] = 1 /\ TaskStateSize \in Nat
    BY DEF interrupt_stack, TaskStateSize
  <2>2. duck \in Ducks
    BY DEF KernelInv
  <2>3. duck' = [d EXCEPT !.IOPB_offset = TaskStateSize, !.syscall_stack = 1]
    BY <2>1, <2>2 DEF Trap_init, Ducks
  <2>4. /\ d \in Ducks /\ d.mask_8259A = duck.mask_8259A /\ d.heap_brk = duck.heap_brk
        /\ d.tsc_freq = duck.tsc_freq /\ d.ext_freq = duck.ext_freq
        /\ d.clk_freq = duck.clk_freq
        /\ d.idt = idt /\ d.gdt = gdt /\ d.stacks = interrupt_stack
    BY <2>2 DEF Ducks
  <2> HIDE DEF d
  <2> QED BY <2>1, <2>3, <2>4 DEF Ducks
<1>2. pic' = pic /\ pc = "Trap" /\ pc' = "tests" /\ Set(TrapRegisters)
  BY DEF Trap_init
<1>3. \A r \in DOMAIN TrapRegisters : cpu'[r] = TrapRegisters[r]
  BY <1>2, SetValue, TrapDomain
<1>4. pic' \in Pics /\ (duck.heap_brk = 0 \/ duck.heap_brk \in heap..(heap + KERNEL_HEAP_SIZE))
      /\ PicsAreSet /\ Speed(duck) /\ duck.mask_8259A = ZeroDuck.mask_8259A
  BY <1>2 DEF KernelInv
<1>5. PicsAreSet' /\ Speed(duck') /\ TrapsAreSet'
  BY <1>1, <1>2, <1>3, <1>4 DEF PicsAreSet, Speed, TrapsAreSet
<1> QED BY <1>1, <1>2, <1>4, <1>5 DEF KernelInv

(* The break stays in its array, at any time and for any argument.           *)
LEMMA SysBrkKeeps ==
    ASSUME KernelInv, NEW addr \in BrkArgs, sys_brk(addr)
    PROVE  KernelInv'
<1> DEFINE d == IF duck.heap_brk = 0 THEN [duck EXCEPT !.heap_brk = heap] ELSE duck
           top == heap + KERNEL_HEAP_SIZE
           Others(e) == /\ e \in Ducks /\ e.mask_8259A = duck.mask_8259A
                        /\ e.tsc_freq = duck.tsc_freq /\ e.ext_freq = duck.ext_freq
                        /\ e.clk_freq = duck.clk_freq
                        /\ e.idt = duck.idt /\ e.gdt = duck.gdt /\ e.stacks = duck.stacks
                        /\ e.IOPB_offset = duck.IOPB_offset
                        /\ e.syscall_stack = duck.syscall_stack
<1>1. heap \in Nat /\ KERNEL_HEAP_SIZE \in Nat /\ addr \in Nat
  BY HeapAssumption
<1>2. duck \in Ducks /\ (duck.heap_brk = 0 \/ duck.heap_brk \in heap..top)
  BY DEF KernelInv
<1>3. Others(d) /\ d.heap_brk \in heap..top
  <2>1. CASE duck.heap_brk = 0
    <3>1. d = [duck EXCEPT !.heap_brk = heap]
      BY <2>1
    <3> HIDE DEF d
    <3> QED BY <1>1, <1>2, <3>1, SMTT(30) DEF Ducks
  <2>2. CASE duck.heap_brk # 0
    BY <1>2, <2>2
  <2> QED BY <2>1, <2>2
<1>4. duck' = IF addr # 0 /\ brk_allowed(d, addr) THEN [d EXCEPT !.heap_brk = addr] ELSE d
  BY DEF sys_brk
<1> HIDE DEF d
<1>5. Others(duck') /\ duck'.heap_brk \in heap..top
  <2>1. CASE addr # 0 /\ brk_allowed(d, addr)
    <3>1. duck' = [d EXCEPT !.heap_brk = addr]
      BY <1>4, <2>1
    <3>2. addr \in heap..top
      BY <1>1, <1>3, <2>1 DEF brk_allowed
    <3> QED BY <1>1, <1>3, <3>1, <3>2 DEF Ducks
  <2>2. CASE ~ (addr # 0 /\ brk_allowed(d, addr))
    BY <1>3, <1>4, <2>2
  <2> QED BY <2>1, <2>2
<1>6. pc' = pc /\ cpu' = cpu /\ pic' = pic
  BY DEF sys_brk
<1>7. (PicsAreSet => PicsAreSet') /\ (Speed(duck) => Speed(duck'))
      /\ (TrapsAreSet => TrapsAreSet')
  BY <1>5, <1>6 DEF PicsAreSet, Speed, TrapsAreSet
<1>8. duck'.mask_8259A = duck.mask_8259A /\ duck' \in Ducks
  BY <1>5
<1> QED BY <1>5, <1>6, <1>7, <1>8 DEF KernelInv

(* A step of the kernel keeps what the kernel needs, its table of pages and  *)
(* the instructions that CR4 allows.                                         *)
LEMMA KernelKeeps ==
    ASSUME KernelInv, IsCpu(cpu), KernelStep
    PROVE  /\ KernelInv' /\ IsCpu(cpu')
           /\ cpu'["cr3"] = cpu["cr3"] /\ cpu'["cr4"] = cpu["cr4"]
           /\ pc \in Running \ {"exit"} /\ pc' \in Running \cup Stopped
<1> USE DEF Running, Stopped
<1>1. CASE sys_arch_prctl
  <2>1. pic' = pic /\ duck' = duck /\ pc = "start" /\ pc' = "hello"
    BY <1>1 DEF sys_arch_prctl
  <2>2. KernelInv'
    BY <2>1 DEF KernelInv
  <2>3. IsCpu(cpu') /\ cpu'["cr3"] = cpu["cr3"] /\ cpu'["cr4"] = cpu["cr4"]
    BY <1>1 DEF sys_arch_prctl, IsCpu, Regs
  <2> QED BY <2>1, <2>2, <2>3
<1>2. CASE print_hello
  <2>1. pic' = pic /\ duck' = duck /\ pc = "hello" /\ pc' = "PIC"
    BY <1>2 DEF print_hello
  <2>2. KernelInv'
    BY <2>1 DEF KernelInv
  <2>3. IsCpu(cpu') /\ cpu'["cr3"] = cpu["cr3"] /\ cpu'["cr4"] = cpu["cr4"]
    BY <1>2 DEF print_hello, IsCpu, Regs
  <2> QED BY <2>1, <2>2, <2>3
<1>3. CASE PIC_init
  BY <1>3, PicKeeps DEF PIC_init
<1>4. CASE \E leaf \in Leaf15 : Timer_init_intel(leaf) \/ divide_error(leaf)
  <2>1. ASSUME NEW leaf \in Leaf15, Timer_init_intel(leaf)
        PROVE  KernelInv' /\ pc = "Timer" /\ pc' = "Memory" /\ cpu' = cpu
    <3>1. Speed(detect_cpu_speed_intel(leaf)) /\ Timer_init(detect_cpu_speed_intel(leaf))
      BY <2>1, SpeedValue DEF Timer_init_intel
    <3> QED BY <3>1, TimerKeeps DEF Timer_init
  <2>2. ASSUME NEW leaf \in Leaf15, divide_error(leaf)
        PROVE  KernelInv' /\ pc = "Timer" /\ pc' = "divide_error" /\ cpu' = cpu
    BY <2>2, DivideKeeps DEF divide_error
  <2> QED BY <1>4, <2>1, <2>2
<1>5. CASE Timer_init(detect_cpu_speed_others)
  BY <1>5, SpeedValue, TimerKeeps DEF Timer_init
<1>6. CASE Memory_init
  BY <1>6, MemoryKeeps DEF Memory_init
<1>7. CASE Trap_init
  <2>1. Set(TrapRegisters) /\ pc = "Trap" /\ pc' = "tests"
    BY <1>7 DEF Trap_init
  <2>2. "cr3" \in Regs /\ "cr4" \in Regs /\ "cr3" \notin DOMAIN TrapRegisters
        /\ "cr4" \notin DOMAIN TrapRegisters
    BY DEF Regs, TrapRegisters
  <2>3. IsCpu(cpu') /\ cpu'["cr3"] = cpu["cr3"] /\ cpu'["cr4"] = cpu["cr4"]
    BY <2>1, <2>2, SetValue
  <2> QED BY <1>7, <2>1, <2>3, TrapKeeps
<1>8. CASE run_tests
  <2>1. pic' = pic /\ duck' = duck /\ cpu' = cpu /\ pc = "tests" /\ pc' = "exit"
    BY <1>8 DEF run_tests
  <2>2. KernelInv'
    BY <2>1 DEF KernelInv, PicsAreSet, Speed, TrapsAreSet
  <2> QED BY <2>1, <2>2
<1>9. CASE \E addr \in BrkArgs : sys_brk(addr)
  BY <1>9, SysBrkKeeps DEF sys_brk
<1> QED BY <1>1, <1>2, <1>3, <1>4, <1>5, <1>6, <1>7, <1>8, <1>9 DEF KernelStep

-----------------------------------------------------------------------------
(* The wrapper *)

\* The image before it has run.
LEMMA FreshImageValue ==
    /\ FreshImage \in Images
    /\ FreshImage.gdt[1] = "code" /\ FreshImage.gdt[2] = "available tss"
    /\ FreshImage.magic = "deadbeef" /\ FreshImage.pointers = Pointers
<1> DEFINE g == [i \in 0..(NUM_GDT_DESC - 1) |->
                    CASE i = 1 -> "code" [] i = 2 -> "available tss" [] OTHER -> "none"]
<1>1. g \in [0..15 -> Descriptors] /\ g[1] = "code" /\ g[2] = "available tss"
  <2>1. NUM_GDT_DESC - 1 = 15 /\ 1 \in 0..15 /\ 2 \in 0..15 /\ 1 # 2
    BY DEF NUM_GDT_DESC
  <2>2. g[1] = "code" /\ g[2] = "available tss"
    BY <2>1
  <2>3. \A i \in 0..15 :
           (CASE i = 1 -> "code" [] i = 2 -> "available tss" [] OTHER -> "none") \in Descriptors
    BY DEF Descriptors
  <2> QED BY <2>1, <2>2, <2>3
<1>2. FreshImage = [linux_cr3 |-> "none", linux_rsp |-> "none", wrapper_rsp |-> "none",
                    magic |-> "deadbeef", pointers |-> Pointers, gdt |-> g]
  BY DEF FreshImage
<1> HIDE DEF g
<1> QED BY <1>1, <1>2 DEF Images

\* The invariant holds at first.
LEMMA InitSwitch == Init => SwitchInv
<1> SUFFICES ASSUME Init PROVE SwitchInv
  OBVIOUS
<1>1. pc = "linux" /\ cpu = LinuxCpu /\ linux = LinuxCpu /\ image = FreshImage
      /\ duck = ZeroDuck
      /\ pic \in PicStates /\ ~fault
  BY DEF Init
<1>2. KernelInv
  <2>1. pic \in Pics
    BY <1>1, SwitchAssumption DEF Pics, Chips
  <2> QED BY <1>1, <2>1, ZeroDuckValue, SMT DEF KernelInv
<1>3. ImageInv
  BY <1>1, FreshImageValue
       DEF ImageInv, Linked, Running, Back1, Back2, Back3, Back4, Back5, Back6
<1>4. RegistersInv
  BY <1>1 DEF RegistersInv, Running, Back1, Back2, Back3, Back4, Back5, Back6, IsCpu, LinuxCpu
<1> QED BY <1>1, <1>2, <1>3, <1>4 DEF SwitchInv, NoFault

(* Nothing outside main changes what the kernel has set up, and nothing that *)
(* is outside main relies on it.                                             *)
LEMMA OutsideKernel ==
    ASSUME KernelInv, pic' = pic, duck' = duck,
           pc' \notin {"Timer", "Memory", "Trap", "tests", "exit"}
    PROVE  KernelInv'
BY DEF KernelInv

\* One lemma for each part of the wrapper: the entry, ...
LEMMA EntryKeeps == SwitchInv /\ entry => SwitchInv'
<1> SUFFICES ASSUME SwitchInv, entry PROVE SwitchInv'
  OBVIOUS
<1>1. pc = "linux" /\ pc' = "save" /\ cpu = LinuxCpu
  BY DEF SwitchInv, RegistersInv, entry
<1>2. PICK i \in TssIndices, gs \in {"null", "linux"} :
          linux' = [LinuxCpu EXCEPT !["tr"] = i, !["gs"] = gs]
  BY <1>1 DEF entry
<1>3. /\ pic' \in PicStates /\ cpu' = [linux' EXCEPT !["rsp"] = "stack"] /\ duck' = ZeroDuck
      /\ image' = [FreshImage EXCEPT !.linux_rsp = "linux"]
  BY <1>1 DEF entry, LinuxCpu, Regs
<1>4. IsCpu(linux') /\ linux'["tr"] = i /\ \A r \in Regs \ {"tr", "gs"} : linux'[r] = "linux"
  BY <1>2 DEF IsCpu, LinuxCpu, Regs
<1>5. IsCpu(cpu') /\ cpu'["rsp"] = "stack" /\ \A r \in Regs \ {"rsp"} : cpu'[r] = linux'[r]
  BY <1>3, <1>4 DEF IsCpu, Regs
<1>6. KernelInv'
  <2>1. pic' \in Pics
    BY <1>3, SwitchAssumption DEF Pics, Chips
  <2> QED BY <1>1, <1>3, <2>1, ZeroDuckValue, SMT DEF KernelInv
<1>7. /\ image' \in Images /\ image'.linux_rsp = "linux" /\ image'.gdt = FreshImage.gdt
      /\ image'.magic = FreshImage.magic /\ image'.pointers = FreshImage.pointers
  BY <1>3, FreshImageValue DEF Images
<1>8. ImageInv'
  BY <1>1, <1>7, FreshImageValue
     DEF ImageInv, Linked, Running, Back1, Back2, Back3, Back4, Back5, Back6
<1>9. RegistersInv'
  BY <1>1, <1>4, <1>5
     DEF RegistersInv, Running, Back1, Back2, Back3, Back4, Back5, Back6, Same
<1>10. NoFault'
  <2>1. cpu["cr3"] = "linux"
    BY <1>1 DEF LinuxCpu, Regs
  <2> QED BY <2>1 DEF entry, Accesses, Mapped, SwitchInv, NoFault
<1> QED BY <1>6, <1>8, <1>9, <1>10 DEF SwitchInv

\* ... saving the registers, ...
LEMMA SaveKeeps == SwitchInv /\ save_registers => SwitchInv'
<1> SUFFICES ASSUME SwitchInv, save_registers PROVE SwitchInv'
  OBVIOUS
<1>1. pc = "save" /\ cpu' = cpu /\ pic' = pic /\ duck' = duck /\ linux' = linux
  BY DEF save_registers
<1>2. /\ image \in Images /\ image.linux_rsp = "linux" /\ image.magic = "deadbeef"
      /\ image.pointers = Pointers /\ image.gdt[1] = "code" /\ image.gdt[2] = "available tss"
  BY <1>1 DEF SwitchInv, ImageInv
<1>3. /\ IsCpu(cpu) /\ IsCpu(linux) /\ linux["tr"] \in TssIndices /\ cpu["rsp"] = "stack"
      /\ \A r \in Regs \ {"tr", "gs"} : linux[r] = "linux"
      /\ \A r \in Regs \ {"rsp"} : cpu[r] = linux[r]
  BY <1>1 DEF SwitchInv, RegistersInv, Same
<1>4. linux["tr"] \in Nat /\ cpu["tr"] = linux["tr"] /\ cpu["cr3"] = "linux"
  BY <1>3, TssAssumption DEF Regs
<1>5. NoFault'
  BY <1>4 DEF save_registers, Accesses, Mapped, SwitchInv, NoFault
<1>6. CASE cpu["tr"] >= NUM_GDT_DESC
  <2>1. pc' = "leave" /\ data' = data /\ image' = image
    BY <1>6 DEF save_registers
  <2>2. KernelInv'
    BY <1>1, <2>1, OutsideKernel DEF SwitchInv
  <2>3. ImageInv'
    BY <1>1, <1>2, <1>4, <1>6, <2>1
       DEF ImageInv, Linked, Running, Back1, Back2, Back3, Back4, Back5, Back6
  <2>4. RegistersInv'
    BY <1>1, <1>2, <1>3, <2>1
       DEF RegistersInv, Running, Back1, Back2, Back3, Back4, Back5, Back6, Same, Regs, Msrs
  <2> QED BY <1>5, <2>2, <2>3, <2>4 DEF SwitchInv
<1>7. CASE ~ (cpu["tr"] >= NUM_GDT_DESC)
  <2>1. /\ pc' = "gdt" /\ data' = [r \in Saved |-> cpu[r]]
        /\ image' = [image EXCEPT !.linux_cr3 = "linux"]
    BY <1>4, <1>7 DEF save_registers
  <2>2. KernelInv'
    BY <1>1, <2>1, OutsideKernel DEF SwitchInv
  <2>3. /\ image' \in Images /\ image'.linux_rsp = "linux" /\ image'.magic = "deadbeef"
        /\ image'.pointers = Pointers /\ image'.gdt = image.gdt /\ image'.linux_cr3 = "linux"
    BY <1>2, <2>1 DEF Images
  <2>4. \A r \in Saved : data'[r] = linux'[r]
    BY <1>1, <1>3, <2>1 DEF Saved, Regs
  <2>5. linux'["tr"] < NUM_GDT_DESC
    BY <1>1, <1>4, <1>7 DEF NUM_GDT_DESC
  <2>6. ImageInv'
    BY <1>2, <2>1, <2>3, <2>4, <2>5
       DEF ImageInv, Linked, Running, Back1, Back2, Back3, Back4, Back5, Back6
  <2>7. RegistersInv'
    BY <1>1, <1>3, <2>1
       DEF RegistersInv, Running, Back1, Back2, Back3, Back4, Back5, Back6, Same
  <2> QED BY <1>5, <2>2, <2>6, <2>7 DEF SwitchInv
<1> QED BY <1>6, <1>7

\* ... loading the GDT, ...
LEMMA GdtKeeps == SwitchInv /\ set_gdt => SwitchInv'
<1> SUFFICES ASSUME SwitchInv, set_gdt PROVE SwitchInv'
  OBVIOUS
<1> DEFINE regs == [gdtr |-> "wrapper", cs |-> 8]
<1>1. /\ pc = "gdt" /\ pc' = "segments" /\ Set(regs)
      /\ UNCHANGED <<pic, duck, linux, data, image>>
  BY DEF set_gdt
<1>2. cpu["cr3"] = "linux" /\ cpu["rsp"] = "stack" /\ image.gdt[1] = "code"
  BY <1>1, ZenonT(40) DEF SwitchInv, RegistersInv, ImageInv, Same, Regs
<1>3. IsCpu(cpu) /\ IsCpu(cpu')
      /\ \A r \in Regs : cpu'[r] = IF r \in DOMAIN regs THEN regs[r] ELSE cpu[r]
  <2>1. IsCpu(cpu)
    BY DEF SwitchInv, RegistersInv
  <2> HIDE DEF regs
  <2> QED BY <1>1, <2>1, SetValue
<1>4. KernelInv'
  BY <1>1, OutsideKernel DEF SwitchInv
<1>5. ImageInv'
  BY <1>1 DEF SwitchInv, ImageInv, Linked, Running, Back1, Back2, Back3, Back4, Back5, Back6
<1>6. RegistersInv'
  <2>1. cpu'["cr3"] = "linux" /\ cpu'["rsp"] = "stack" /\ cpu'["gdtr"] = "wrapper"
    BY <1>2, <1>3 DEF Regs
  <2> QED BY <1>1, <1>3, <2>1
       DEF SwitchInv, RegistersInv, Running, Back1, Back2, Back3, Back4, Back5, Back6, Same
<1>7. NoFault'
  BY <1>2 DEF set_gdt, Mapped, GdtRegion, SwitchInv, NoFault
<1> QED BY <1>4, <1>5, <1>6, <1>7 DEF SwitchInv

\* ... the segments, ...
LEMMA SegmentsKeep == SwitchInv /\ set_segments => SwitchInv'
<1> SUFFICES ASSUME SwitchInv, set_segments PROVE SwitchInv'
  OBVIOUS
<1> DEFINE regs == [ds |-> "null", es |-> "null", ss |-> "null", tr |-> 2]
<1>1. /\ pc = "segments" /\ pc' = "cr" /\ Set(regs)
      /\ image' = [image EXCEPT !.gdt[2] = "busy tss"]
      /\ UNCHANGED <<pic, duck, linux, data>>
  BY DEF set_segments
<1>2. /\ cpu["cr3"] = "linux" /\ cpu["rsp"] = "stack" /\ cpu["gdtr"] = "wrapper"
      /\ image \in Images /\ image.gdt[2] = "available tss"
  BY <1>1 DEF SwitchInv, RegistersInv, ImageInv
<1>3. IsCpu(cpu) /\ IsCpu(cpu')
      /\ \A r \in Regs : cpu'[r] = IF r \in DOMAIN regs THEN regs[r] ELSE cpu[r]
  <2>1. IsCpu(cpu)
    BY DEF SwitchInv, RegistersInv
  <2> HIDE DEF regs
  <2> QED BY <1>1, <2>1, SetValue
<1>4. KernelInv'
  BY <1>1, OutsideKernel DEF SwitchInv
<1>5. ImageInv'
  <2>1. image.gdt \in [0..15 -> Descriptors]
    BY <1>2 DEF Images
  <2>2. [image.gdt EXCEPT ![2] = "busy tss"] \in [0..15 -> Descriptors]
    BY <2>1 DEF Descriptors
  <2>3. /\ image' \in Images /\ image'.linux_rsp = image.linux_rsp /\ image'.magic = image.magic
        /\ image'.pointers = image.pointers /\ image'.linux_cr3 = image.linux_cr3
    BY <1>1, <1>2, <2>2 DEF Images
  <2> QED BY <1>1, <2>3
       DEF SwitchInv, ImageInv, Linked, Running, Back1, Back2, Back3, Back4, Back5, Back6
<1>6. RegistersInv'
  <2>1. cpu'["cr3"] = "linux" /\ cpu'["rsp"] = "stack" /\ cpu'["gdtr"] = "wrapper"
    BY <1>2, <1>3 DEF Regs
  <2> QED BY <1>1, <1>3, <2>1
       DEF SwitchInv, RegistersInv, Running, Back1, Back2, Back3, Back4, Back5, Back6, Same
<1>7. NoFault'
  BY <1>2 DEF set_segments, not_busy, Mapped, GdtRegion, SwitchInv, NoFault
<1> QED BY <1>4, <1>5, <1>6, <1>7 DEF SwitchInv

\* ... the control registers, ...
LEMMA CrKeeps == SwitchInv /\ set_cr => SwitchInv'
<1> SUFFICES ASSUME SwitchInv, set_cr PROVE SwitchInv'
  OBVIOUS
<1> DEFINE regs == [cr4 |-> "fsgsbase", cr3 |-> "duck"]
<1>1. /\ pc = "cr" /\ pc' = "dynlink" /\ Set(regs)
      /\ UNCHANGED <<pic, duck, linux, data, image>>
  BY DEF set_cr
<1>2. cpu["cr3"] = "linux" /\ cpu["rsp"] = "stack"
  BY <1>1 DEF SwitchInv, RegistersInv
<1>3. IsCpu(cpu) /\ IsCpu(cpu')
      /\ \A r \in Regs : cpu'[r] = IF r \in DOMAIN regs THEN regs[r] ELSE cpu[r]
  <2>1. IsCpu(cpu)
    BY DEF SwitchInv, RegistersInv
  <2> HIDE DEF regs
  <2> QED BY <1>1, <2>1, SetValue
<1>4. KernelInv'
  BY <1>1, OutsideKernel DEF SwitchInv
<1>5. ImageInv'
  BY <1>1 DEF SwitchInv, ImageInv, Linked, Running, Back1, Back2, Back3, Back4, Back5, Back6
<1>6. RegistersInv'
  <2>1. cpu'["cr3"] = "duck" /\ cpu'["rsp"] = "stack" /\ cpu'["cr4"] = "fsgsbase"
    BY <1>2, <1>3 DEF Regs
  <2> QED BY <1>1, <1>3, <2>1
       DEF SwitchInv, RegistersInv, Running, Back1, Back2, Back3, Back4, Back5, Back6, Same
<1>7. NoFault'
  BY <1>2 DEF set_cr, Accesses, Mapped, SwitchInv, NoFault
<1> QED BY <1>4, <1>5, <1>6, <1>7 DEF SwitchInv

\* ... the pointers of the image, ...
LEMMA DynlinkKeeps == SwitchInv /\ fake_dynlink => SwitchInv'
<1> SUFFICES ASSUME SwitchInv, fake_dynlink PROVE SwitchInv'
  OBVIOUS
<1>1. pc = "dynlink" /\ pc' = "duck_entry" /\ UNCHANGED <<cpu, pic, duck, linux, data>>
  BY DEF fake_dynlink
<1>2. image \in Images /\ image.pointers = Pointers /\ cpu["cr3"] = "duck"
  BY <1>1 DEF SwitchInv, RegistersInv, ImageInv
<1>3. image' = [image EXCEPT !.pointers = Relocated, !.magic = "abcd1234"]
  BY <1>2 DEF fake_dynlink, Relocated
<1>4. KernelInv'
  BY <1>1, OutsideKernel DEF SwitchInv
<1>5. ImageInv'
  <2>1. /\ image' \in Images /\ image'.linux_rsp = image.linux_rsp /\ image'.magic = "abcd1234"
        /\ image'.pointers = Relocated /\ image'.linux_cr3 = image.linux_cr3
    BY <1>2, <1>3 DEF Images
  <2> QED BY <1>1, <2>1
       DEF SwitchInv, ImageInv, Linked, Running, Back1, Back2, Back3, Back4, Back5, Back6
<1>6. RegistersInv'
  BY <1>1 DEF SwitchInv, RegistersInv, Running, Back1, Back2, Back3, Back4, Back5, Back6, Same
<1>7. NoFault'
  BY <1>2 DEF fake_dynlink, Accesses, Mapped, SwitchInv, NoFault
<1> QED BY <1>4, <1>5, <1>6, <1>7 DEF SwitchInv

\* ... the call of the kernel, ...
LEMMA DuckEntryKeeps == SwitchInv /\ duck_entry => SwitchInv'
<1> SUFFICES ASSUME SwitchInv, duck_entry PROVE SwitchInv'
  OBVIOUS
<1> DEFINE regs == [rsp |-> "low"]
<1>1. /\ pc = "duck_entry" /\ pc' = "start" /\ Set(regs)
      /\ image' = [image EXCEPT !.wrapper_rsp = cpu["rsp"]]
      /\ UNCHANGED <<pic, duck, linux, data>>
  BY DEF duck_entry
<1>2. /\ cpu["cr3"] = "duck" /\ cpu["cr4"] = "fsgsbase" /\ cpu["rsp"] = "stack"
      /\ image \in Images
  BY <1>1 DEF SwitchInv, RegistersInv, ImageInv
<1>3. IsCpu(cpu) /\ IsCpu(cpu')
      /\ \A r \in Regs : cpu'[r] = IF r \in DOMAIN regs THEN regs[r] ELSE cpu[r]
  <2>1. IsCpu(cpu)
    BY DEF SwitchInv, RegistersInv
  <2> HIDE DEF regs
  <2> QED BY <1>1, <2>1, SetValue
<1>4. KernelInv'
  BY <1>1, OutsideKernel DEF SwitchInv
<1>5. ImageInv'
  <2>1. /\ image' \in Images /\ image'.linux_rsp = image.linux_rsp /\ image'.magic = image.magic
        /\ image'.pointers = image.pointers /\ image'.linux_cr3 = image.linux_cr3
    BY <1>1, <1>2 DEF Images
  <2> QED BY <1>1, <2>1
       DEF SwitchInv, ImageInv, Linked, Running, Back1, Back2, Back3, Back4, Back5, Back6
<1>6. RegistersInv'
  <2>1. cpu'["cr3"] = "duck" /\ cpu'["cr4"] = "fsgsbase"
    BY <1>2, <1>3 DEF Regs
  <2> QED BY <1>1, <1>3, <2>1
       DEF SwitchInv, RegistersInv, Running, Back1, Back2, Back3, Back4, Back5, Back6, Same
<1>7. NoFault'
  BY <1>2 DEF duck_entry, Accesses, Mapped, SwitchInv, NoFault
<1> QED BY <1>4, <1>5, <1>6, <1>7 DEF SwitchInv

(* The kernel runs on pointers that fake_dynlink has moved once.             *)
LEMMA MainKeeps == SwitchInv /\ duck_main => SwitchInv'
<1> SUFFICES ASSUME SwitchInv, duck_main PROVE SwitchInv'
  OBVIOUS
<1>1. KernelStep /\ UNCHANGED <<linux, data, image>>
  BY DEF duck_main
<1>2. KernelInv /\ IsCpu(cpu)
  BY DEF SwitchInv, RegistersInv
<1>3. /\ KernelInv' /\ IsCpu(cpu')
      /\ cpu'["cr3"] = cpu["cr3"] /\ cpu'["cr4"] = cpu["cr4"]
      /\ pc \in Running \ {"exit"} /\ pc' \in Running \cup Stopped
  BY <1>1, <1>2, KernelKeeps
<1>4. image.pointers = Relocated /\ cpu["cr3"] = "duck" /\ cpu["cr4"] = "fsgsbase"
  BY <1>3 DEF SwitchInv, RegistersInv, ImageInv, Linked, Running, Back1, Back2, Back3, Back4,
       Back5, Back6
<1>5. ImageInv'
  BY <1>1, <1>3 DEF SwitchInv, ImageInv, Linked, Running, Stopped, Back1, Back2, Back3, Back4,
       Back5, Back6
<1>6. RegistersInv'
  BY <1>1, <1>3, <1>4
       DEF SwitchInv, RegistersInv, Running, Stopped, Back1, Back2, Back3, Back4, Back5, Back6,
           Same
<1>7. NoFault'
  <2>1. \A i \in DOMAIN Pointers : Pointers[i] # 0 => image.pointers[i] = Pointers[i] + kernel_base
    BY <1>4 DEF Relocated, dynlink_ptr
  <2> QED BY <1>4, <2>1 DEF duck_main, Mapped, SwitchInv, NoFault
<1> QED BY <1>3, <1>5, <1>6, <1>7 DEF SwitchInv

\* ... its return, ...
LEMMA ExitKeeps == SwitchInv /\ duck_exit => SwitchInv'
<1> SUFFICES ASSUME SwitchInv, duck_exit PROVE SwitchInv'
  OBVIOUS
<1> DEFINE regs == [rsp |-> image.wrapper_rsp, callee_saved |-> "wrapper"]
<1>1. /\ pc = "exit" /\ pc' = "restore_cr3" /\ Set(regs)
      /\ UNCHANGED <<pic, duck, linux, data, image>>
  BY DEF duck_exit
<1>2. cpu["cr3"] = "duck"
  BY <1>1 DEF SwitchInv, RegistersInv, Running
<1>3. IsCpu(cpu) /\ IsCpu(cpu')
      /\ \A r \in Regs : cpu'[r] = IF r \in DOMAIN regs THEN regs[r] ELSE cpu[r]
  <2>1. IsCpu(cpu)
    BY DEF SwitchInv, RegistersInv
  <2> HIDE DEF regs
  <2> QED BY <1>1, <2>1, SetValue
<1>4. KernelInv'
  BY <1>1, OutsideKernel DEF SwitchInv
<1>5. ImageInv'
  BY <1>1 DEF SwitchInv, ImageInv, Linked, Running, Back1, Back2, Back3, Back4, Back5, Back6
<1>6. RegistersInv'
  <2>1. cpu'["cr3"] = "duck"
    BY <1>2, <1>3 DEF Regs
  <2> QED BY <1>1, <1>3, <2>1
       DEF SwitchInv, RegistersInv, Running, Back1, Back2, Back3, Back4, Back5, Back6, Same
<1>7. NoFault'
  BY <1>2 DEF duck_exit, Accesses, Mapped, SwitchInv, NoFault
<1> QED BY <1>4, <1>5, <1>6, <1>7 DEF SwitchInv

(* The copy of CR3 that .text holds is reached through the duck table.       *)
LEMMA RestoreCr3Keeps == SwitchInv /\ restore_cr3 => SwitchInv'
<1> SUFFICES ASSUME SwitchInv, restore_cr3 PROVE SwitchInv'
  OBVIOUS
<1> DEFINE regs == [cr3 |-> image.linux_cr3]
<1>1. /\ pc = "restore_cr3" /\ pc' = "restore_cr" /\ Set(regs)
      /\ UNCHANGED <<pic, duck, linux, data, image>>
  BY DEF restore_cr3
<1>2. cpu["cr3"] = "duck" /\ image.linux_cr3 = "linux" /\ linux["cr3"] = "linux"
  BY <1>1 DEF SwitchInv, RegistersInv, ImageInv, Linked, Regs
<1>3. IsCpu(cpu) /\ IsCpu(cpu')
      /\ \A r \in Regs : cpu'[r] = IF r \in DOMAIN regs THEN regs[r] ELSE cpu[r]
  <2>1. IsCpu(cpu)
    BY DEF SwitchInv, RegistersInv
  <2> HIDE DEF regs
  <2> QED BY <1>1, <2>1, SetValue
<1>4. KernelInv'
  BY <1>1, OutsideKernel DEF SwitchInv
<1>5. ImageInv'
  BY <1>1 DEF SwitchInv, ImageInv, Linked, Running, Back1, Back2, Back3, Back4, Back5, Back6
<1>6. RegistersInv'
  <2>1. Same({"cr3"})'
    BY <1>1, <1>2, <1>3 DEF Same, Regs
  <2> QED BY <1>1, <1>3, <2>1
       DEF SwitchInv, RegistersInv, Running, Back1, Back2, Back3, Back4, Back5, Back6
<1>7. NoFault'
  BY <1>2 DEF restore_cr3, Accesses, Mapped, SwitchInv, NoFault
<1> QED BY <1>4, <1>5, <1>6, <1>7 DEF SwitchInv

\* ... and the restoring of the control registers, ...
LEMMA RestoreCrKeeps == SwitchInv /\ restore_cr => SwitchInv'
<1> SUFFICES ASSUME SwitchInv, restore_cr PROVE SwitchInv'
  OBVIOUS
<1> DEFINE regs == [cr0 |-> data["cr0"], cr4 |-> data["cr4"]]
<1>1. /\ pc = "restore_cr" /\ pc' = "restore_tr" /\ Set(regs)
      /\ UNCHANGED <<pic, duck, linux, data, image>>
  BY DEF restore_cr
<1>2. /\ cpu["cr3"] = "linux" /\ IsCpu(linux)
      /\ \A r \in Saved : data[r] = linux[r]
      /\ Same({"cr3"})
  <2>1. linux["cr3"] = "linux" /\ cpu["cr3"] = linux["cr3"]
    BY <1>1 DEF SwitchInv, RegistersInv, Same, Regs, Back1, Back2, Back3, Back4, Back5, Back6
  <2>2. \A r \in Saved : data[r] = linux[r]
    BY <1>1 DEF SwitchInv, ImageInv, Linked, Running, Back1, Back2, Back3, Back4, Back5, Back6
  <2> QED BY <1>1, <2>1, <2>2 DEF SwitchInv, RegistersInv, Running, Back1, Back2, Back3, Back4,
       Back5, Back6, Same, Msrs
<1>3. IsCpu(cpu) /\ IsCpu(cpu')
      /\ \A r \in Regs : cpu'[r] = IF r \in DOMAIN regs THEN regs[r] ELSE cpu[r]
  <2>1. IsCpu(cpu)
    BY DEF SwitchInv, RegistersInv
  <2> HIDE DEF regs
  <2> QED BY <1>1, <2>1, SetValue
<1>4. KernelInv'
  BY <1>1, OutsideKernel DEF SwitchInv
<1>5. ImageInv'
  BY <1>1 DEF SwitchInv, ImageInv, Linked, Running, Back1, Back2, Back3, Back4, Back5, Back6
<1>6. RegistersInv'
  <2>1. Same({"cr3", "cr0", "cr4"})'
    BY <1>1, <1>2, <1>3 DEF Same, Regs, Saved, Msrs
  <2> QED BY <1>1, <1>3, <2>1 DEF SwitchInv, RegistersInv, ImageInv, Linked, Running, Back1,
       Back2, Back3, Back4, Back5, Back6, Same, Msrs
<1>7. NoFault'
  BY <1>2 DEF restore_cr, Accesses, Mapped, SwitchInv, NoFault
<1> QED BY <1>4, <1>5, <1>6, <1>7 DEF SwitchInv

(* The copy of the task state's descriptor fits the wrapper's table.         *)
LEMMA RestoreTrKeeps == SwitchInv /\ restore_tr => SwitchInv'
<1> SUFFICES ASSUME SwitchInv, restore_tr PROVE SwitchInv'
  OBVIOUS
<1> DEFINE i == data["tr"]
           regs == [gdtr |-> "wrapper", tr |-> i]
<1>1. /\ pc = "restore_tr" /\ pc' = "restore_tables" /\ Set(regs)
      /\ image' = [image EXCEPT !.gdt[i] = "busy tss", !.gdt[i + 1] = "upper half"]
      /\ UNCHANGED <<pic, duck, linux, data>>
  BY DEF restore_tr
<1>2. /\ cpu["cr3"] = "linux" /\ image \in Images
      /\ i = linux["tr"] /\ i \in TssIndices /\ i < NUM_GDT_DESC
      /\ Same({"cr3", "cr0", "cr4"})
  <2>1. linux["cr3"] = "linux" /\ cpu["cr3"] = linux["cr3"] /\ linux["tr"] \in TssIndices
    BY <1>1 DEF SwitchInv, RegistersInv, Same, Regs, Back1, Back2, Back3, Back4, Back5, Back6
  <2>2. linux["tr"] < NUM_GDT_DESC /\ i = linux["tr"] /\ image \in Images
    BY <1>1 DEF SwitchInv, ImageInv, Linked, Running, Back1, Back2, Back3, Back4, Back5, Back6,
         Saved
  <2> QED BY <1>1, <2>1, <2>2
       DEF SwitchInv, RegistersInv, Running, Back1, Back2, Back3, Back4, Back5, Back6, Same
<1>3. IsCpu(cpu) /\ IsCpu(cpu')
      /\ \A r \in Regs : cpu'[r] = IF r \in DOMAIN regs THEN regs[r] ELSE cpu[r]
  <2>1. IsCpu(cpu)
    BY DEF SwitchInv, RegistersInv
  <2> HIDE DEF regs
  <2> QED BY <1>1, <2>1, SetValue
<1>4. KernelInv'
  BY <1>1, OutsideKernel DEF SwitchInv
<1>5. i \in Nat /\ i \in 0..15 /\ i + 1 \in 0..15
  BY <1>2, TssAssumption DEF NUM_GDT_DESC
<1>6. image.gdt \in [0..15 -> Descriptors]
  BY <1>2 DEF Images
<1>7. ImageInv'
  <2> DEFINE g == [[image.gdt EXCEPT ![i] = "busy tss"] EXCEPT ![i + 1] = "upper half"]
  <2>1. g \in [0..15 -> Descriptors]
    BY <1>5, <1>6 DEF Descriptors
  <2>2. image' = [image EXCEPT !.gdt = g]
    BY <1>1, <1>2 DEF Images
  <2> HIDE DEF g, i
  <2>3. /\ image' \in Images /\ image'.linux_rsp = image.linux_rsp /\ image'.magic = image.magic
        /\ image'.pointers = image.pointers /\ image'.linux_cr3 = image.linux_cr3
    BY <1>2, <2>1, <2>2 DEF Images
  <2> QED BY <1>1, <2>3
       DEF SwitchInv, ImageInv, Linked, Running, Back1, Back2, Back3, Back4, Back5, Back6
<1>8. RegistersInv'
  <2>1. Same({"cr3", "cr0", "cr4", "tr"})'
    BY <1>1, <1>2, <1>3 DEF Same, Regs
  <2>2. image'.magic = "abcd1234"
    BY <1>1, <1>7 DEF ImageInv, Linked, Running, Back1, Back2, Back3, Back4, Back5, Back6
  <2> QED BY <1>1, <1>3, <2>1, <2>2 DEF SwitchInv, RegistersInv, ImageInv, Linked, Running,
       Back1, Back2, Back3, Back4, Back5, Back6, Same
<1>9. NoFault'
  <2>1. i + 1 \in DOMAIN image.gdt
    BY <1>5, <1>6
  <2> HIDE DEF i
  <2> QED BY <1>2, <2>1 DEF restore_tr, i, not_busy, LinuxTss, Mapped, SwitchInv, NoFault
<1> QED BY <1>4, <1>7, <1>8, <1>9 DEF SwitchInv

\* ... of the tables ...
LEMMA TablesKeep == SwitchInv /\ restore_tables => SwitchInv'
<1> SUFFICES ASSUME SwitchInv, restore_tables PROVE SwitchInv'
  OBVIOUS
<1> DEFINE regs == [gdtr |-> data["gdtr"], idtr |-> data["idtr"]]
<1>1. /\ pc = "restore_tables" /\ pc' = "restore_segments" /\ Set(regs)
      /\ UNCHANGED <<pic, duck, linux, data, image>>
  BY DEF restore_tables
<1>2. /\ cpu["cr3"] = "linux" /\ IsCpu(linux)
      /\ \A r \in Saved : data[r] = linux[r]
      /\ Same({"cr3", "cr0", "cr4", "tr"})
  <2>1. linux["cr3"] = "linux" /\ cpu["cr3"] = linux["cr3"]
    BY <1>1 DEF SwitchInv, RegistersInv, Same, Regs, Back1, Back2, Back3, Back4, Back5, Back6
  <2>2. \A r \in Saved : data[r] = linux[r]
    BY <1>1 DEF SwitchInv, ImageInv, Linked, Running, Back1, Back2, Back3, Back4, Back5, Back6
  <2> QED BY <1>1, <2>1, <2>2 DEF SwitchInv, RegistersInv, Running, Back1, Back2, Back3, Back4,
       Back5, Back6, Same, Msrs
<1>3. IsCpu(cpu) /\ IsCpu(cpu')
      /\ \A r \in Regs : cpu'[r] = IF r \in DOMAIN regs THEN regs[r] ELSE cpu[r]
  <2>1. IsCpu(cpu)
    BY DEF SwitchInv, RegistersInv
  <2> HIDE DEF regs
  <2> QED BY <1>1, <2>1, SetValue
<1>4. KernelInv'
  BY <1>1, OutsideKernel DEF SwitchInv
<1>5. ImageInv'
  BY <1>1 DEF SwitchInv, ImageInv, Linked, Running, Back1, Back2, Back3, Back4, Back5, Back6
<1>6. RegistersInv'
  <2>1. Same({"cr3", "cr0", "cr4", "tr", "gdtr", "idtr"})'
    BY <1>1, <1>2, <1>3 DEF Same, Regs, Saved, Msrs
  <2> QED BY <1>1, <1>3, <2>1 DEF SwitchInv, RegistersInv, ImageInv, Linked, Running, Back1,
       Back2, Back3, Back4, Back5, Back6, Same, Msrs
<1>7. NoFault'
  BY <1>2 DEF restore_tables, Accesses, Mapped, SwitchInv, NoFault
<1> QED BY <1>4, <1>5, <1>6, <1>7 DEF SwitchInv

(* The base of kerngs may be lost here; it is one of the three registers.    *)
LEMMA RestoreSegmentsKeep == SwitchInv /\ restore_segments => SwitchInv'
<1> SUFFICES ASSUME SwitchInv, restore_segments PROVE SwitchInv'
  OBVIOUS
<1>0. PICK base \in KernGsBases :
          Set([cs |-> data["cs"], ds |-> data["ds"], es |-> data["es"], fs |-> data["fs"],
               gs |-> data["gs"], fs_base |-> "descriptor", kerngs_base |-> base])
  BY DEF restore_segments
<1> DEFINE regs == [cs |-> data["cs"], ds |-> data["ds"], es |-> data["es"], fs |-> data["fs"],
                    gs |-> data["gs"], fs_base |-> "descriptor", kerngs_base |-> base]
<1>1. /\ pc = "restore_segments" /\ pc' = "restore_msrs" /\ Set(regs)
      /\ UNCHANGED <<pic, duck, linux, data, image>>
  BY <1>0 DEF restore_segments
<1>2. /\ cpu["cr3"] = "linux" /\ cpu["gdtr"] = "linux"
      /\ \A r \in Saved : data[r] = linux[r]
      /\ Same({"cr3", "cr0", "cr4", "tr", "gdtr", "idtr"})
  <2>1. linux["cr3"] = "linux" /\ cpu["cr3"] = linux["cr3"]
    BY <1>1 DEF SwitchInv, RegistersInv, Same, Regs, Back1, Back2, Back3, Back4, Back5, Back6
  <2>2. linux["gdtr"] = "linux" /\ cpu["gdtr"] = linux["gdtr"]
    BY <1>1 DEF SwitchInv, RegistersInv, Same, Regs, Back4, Back5, Back6
  <2>3. \A r \in Saved : data[r] = linux[r]
    BY <1>1 DEF SwitchInv, ImageInv, Linked, Running, Back1, Back2, Back3, Back4, Back5, Back6
  <2> QED BY <1>1, <2>1, <2>2, <2>3
       DEF SwitchInv, RegistersInv, Running, Back1, Back2, Back3, Back4, Back5, Back6, Same
<1>3. IsCpu(cpu) /\ IsCpu(cpu')
      /\ \A r \in Regs : cpu'[r] = IF r \in DOMAIN regs THEN regs[r] ELSE cpu[r]
  <2>1. IsCpu(cpu)
    BY DEF SwitchInv, RegistersInv
  <2> HIDE DEF regs
  <2> QED BY <1>1, <2>1, SetValue
<1>4. KernelInv'
  BY <1>1, OutsideKernel DEF SwitchInv
<1>5. ImageInv'
  BY <1>1 DEF SwitchInv, ImageInv, Linked, Running, Back1, Back2, Back3, Back4, Back5, Back6
<1>6. RegistersInv'
  <2>1. Same({"cr3", "cr0", "cr4", "tr", "gdtr", "idtr", "cs", "ds", "es", "fs", "gs"})'
    BY <1>1, <1>2, <1>3 DEF Same, Regs, Saved
  <2> QED BY <1>1, <1>3, <2>1 DEF SwitchInv, RegistersInv, ImageInv, Linked, Running, Back1,
       Back2, Back3, Back4, Back5, Back6, Same
<1>7. NoFault'
  BY <1>2 DEF restore_segments, GdtRegion, Accesses, Mapped, SwitchInv, NoFault
<1> QED BY <1>4, <1>5, <1>6, <1>7 DEF SwitchInv

\* ... and of the MSRs.
LEMMA MsrsKeep == SwitchInv /\ restore_msrs => SwitchInv'
<1> SUFFICES ASSUME SwitchInv, restore_msrs PROVE SwitchInv'
  OBVIOUS
<1> DEFINE regs == [r \in Msrs |-> data[r]]
<1>1. /\ pc = "restore_msrs" /\ pc' = "leave" /\ Set(regs)
      /\ UNCHANGED <<pic, duck, linux, data, image>>
  BY DEF restore_msrs, RestoredMsrs
<1>2. /\ cpu["cr3"] = "linux" /\ linux["tr"] \in Nat /\ linux["tr"] < NUM_GDT_DESC
      /\ \A r \in Saved : data[r] = linux[r]
      /\ image.magic = "abcd1234"
      /\ Same({"cr3", "cr0", "cr4", "tr", "gdtr", "idtr", "cs", "ds", "es", "fs", "gs"})
  <2>1. linux["cr3"] = "linux" /\ cpu["cr3"] = linux["cr3"] /\ linux["tr"] \in TssIndices
    BY <1>1 DEF SwitchInv, RegistersInv, Same, Regs, Back1, Back2, Back3, Back4, Back5, Back6
  <2>2. linux["tr"] < NUM_GDT_DESC /\ image.magic = "abcd1234"
        /\ \A r \in Saved : data[r] = linux[r]
    BY <1>1 DEF SwitchInv, ImageInv, Linked, Running, Back1, Back2, Back3, Back4, Back5, Back6
  <2>3. linux["tr"] \in Nat
    BY <2>1, TssAssumption
  <2> QED BY <1>1, <2>1, <2>2, <2>3
       DEF SwitchInv, RegistersInv, Running, Back1, Back2, Back3, Back4, Back5, Back6, Same
<1>3. IsCpu(cpu) /\ IsCpu(cpu')
      /\ \A r \in Regs : cpu'[r] = IF r \in Msrs THEN data[r] ELSE cpu[r]
  <2>1. IsCpu(cpu)
    BY DEF SwitchInv, RegistersInv
  <2>2. DOMAIN regs = Msrs /\ \A r \in Msrs : regs[r] = data[r]
    OBVIOUS
  <2> HIDE DEF regs
  <2> QED BY <1>1, <2>1, <2>2, SetValue
<1>4. KernelInv'
  BY <1>1, OutsideKernel DEF SwitchInv
<1>5. ImageInv'
  BY <1>1, <1>2 DEF SwitchInv, ImageInv, Linked, Running, Back1, Back2, Back3, Back4, Back5,
       Back6, NUM_GDT_DESC
<1>6. RegistersInv'
  <2>1. Same({"cr3", "cr0", "cr4", "tr", "gdtr", "idtr", "cs", "ds", "es", "fs", "gs"})'
        /\ Same(Msrs)'
    BY <1>1, <1>2, <1>3 DEF Same, Regs, Saved, Msrs
  <2> QED BY <1>1, <1>2, <1>3, <2>1
       DEF SwitchInv, RegistersInv, Running, Back1, Back2, Back3, Back4, Back5, Back6, Same
<1>7. NoFault'
  BY <1>2 DEF restore_msrs, Accesses, Mapped, SwitchInv, NoFault
<1> QED BY <1>4, <1>5, <1>6, <1>7 DEF SwitchInv

(* Both ways end here: after a run, and after save_linux has given up.       *)
LEMMA LeaveKeeps == SwitchInv /\ leave => SwitchInv'
<1> SUFFICES ASSUME SwitchInv, leave PROVE SwitchInv'
  OBVIOUS
<1> DEFINE regs == [rsp |-> image.linux_rsp, callee_saved |-> linux["callee_saved"]]
<1>1. /\ pc = "leave" /\ pc' = "back" /\ Set(regs)
      /\ UNCHANGED <<pic, duck, linux, data, image>>
  BY DEF leave
<1>2. /\ cpu["cr3"] = "linux" /\ image.linux_rsp = linux["rsp"] /\ IsCpu(linux)
      /\ Same({"cr3", "cr0", "cr4", "tr", "gdtr", "idtr", "cs", "ds", "es", "fs", "gs"} \cup Msrs)
      /\ image.magic = "deadbeef" => Same(Regs \ {"rsp"})
  <2>1. linux["cr3"] = "linux" /\ linux["rsp"] = "linux" /\ image.linux_rsp = "linux"
    BY <1>1 DEF SwitchInv, RegistersInv, ImageInv, Regs
  <2>2. Same({"cr3", "cr0", "cr4", "tr", "gdtr", "idtr", "cs", "ds", "es", "fs", "gs"} \cup Msrs)
    BY <1>1 DEF SwitchInv, RegistersInv, Same, Back1, Back2, Back3, Back4, Back5, Back6
  <2>3. cpu["cr3"] = linux["cr3"]
    BY <2>2 DEF Same
  <2> QED BY <1>1, <2>1, <2>2, <2>3 DEF SwitchInv, RegistersInv
<1>3. IsCpu(cpu) /\ IsCpu(cpu')
      /\ \A r \in Regs : cpu'[r] = IF r \in DOMAIN regs THEN regs[r] ELSE cpu[r]
  <2>1. IsCpu(cpu)
    BY DEF SwitchInv, RegistersInv
  <2> HIDE DEF regs
  <2> QED BY <1>1, <2>1, SetValue
<1>4. KernelInv'
  BY <1>1, OutsideKernel DEF SwitchInv
<1>5. ImageInv'
  BY <1>1 DEF SwitchInv, ImageInv, Linked, Running, Back1, Back2, Back3, Back4, Back5, Back6
<1>6. RegistersInv'
  <2>1. \A r \in Regs : cpu'[r] = IF r \in {"rsp", "callee_saved"} THEN linux[r] ELSE cpu[r]
    BY <1>2, <1>3
  <2>2. Same(Regs \ Lost)'
    <3>1. Regs \ Lost \subseteq
             {"cr3", "cr0", "cr4", "tr", "gdtr", "idtr", "cs", "ds", "es", "fs", "gs"}
                \cup Msrs \cup {"rsp", "callee_saved"}
      BY DEF Regs, Lost, Msrs
    <3> QED BY <1>1, <1>2, <2>1, <3>1 DEF Same
  <2>3. ASSUME image.magic = "deadbeef" PROVE cpu' = linux'
    <3>1. \A r \in Regs : cpu'[r] = linux[r]
      BY <1>2, <2>1, <2>3 DEF Same
    <3> QED BY <1>1, <1>2, <1>3, <3>1 DEF IsCpu
  <2>4. pc # "linux" => linux["tr"] \in TssIndices
        /\ \A r \in Regs \ {"tr", "gs"} : linux[r] = "linux"
    BY DEF SwitchInv, RegistersInv
  <2> QED BY <1>1, <1>2, <1>3, <2>2, <2>3, <2>4
          DEF RegistersInv, Running, Back1, Back2, Back3, Back4, Back5, Back6
<1>7. NoFault'
  BY <1>2 DEF leave, Accesses, Mapped, SwitchInv, NoFault
<1> QED BY <1>4, <1>5, <1>6, <1>7 DEF SwitchInv

-----------------------------------------------------------------------------
(* The theorems *)

\* Every step preserves the invariant.
LEMMA NextSwitch == SwitchInv /\ [Next]_vars => SwitchInv'
<1> SUFFICES ASSUME SwitchInv, [Next]_vars PROVE SwitchInv'
  OBVIOUS
<1>1. CASE UNCHANGED vars
  <2>1. UNCHANGED <<pc, cpu, pic, duck, linux, data, image, fault>>
    BY <1>1 DEF vars
  <2>2. KernelInv'
    BY <2>1 DEF SwitchInv, KernelInv, PicsAreSet, Speed, TrapsAreSet
  <2>3. ImageInv'
    BY <2>1 DEF SwitchInv, ImageInv
  <2>4. RegistersInv'
    BY <2>1 DEF SwitchInv, RegistersInv, Same, IsCpu
  <2> QED BY <2>1, <2>2, <2>3, <2>4 DEF SwitchInv, NoFault
<1>2. CASE Next
  BY <1>2, EntryKeeps, SaveKeeps, GdtKeeps, SegmentsKeep, CrKeeps, DynlinkKeeps, DuckEntryKeeps,
     MainKeeps, ExitKeeps, RestoreCr3Keeps, RestoreCrKeeps, RestoreTrKeeps, TablesKeep,
     RestoreSegmentsKeep, MsrsKeep, LeaveKeeps DEF Next
<1> QED BY <1>1, <1>2

(* The invariant holds along the whole way, for any constants.               *)
THEOREM SwitchCorrect == Spec => []SwitchInv
<1> QED BY InitSwitch, NextSwitch, PTL DEF Spec

(* No instruction of switch.cpp, entry.S and duck.S accesses what the page   *)
(* table of the moment does not map, loads a busy task state or writes past  *)
(* the wrapper's table, and the kernel runs on pointers relocated once.      *)
THEOREM SwitchNeverFaults == Spec => []NoFault
<1>1. SwitchInv => NoFault
  BY DEF SwitchInv
<1> QED BY <1>1, SwitchCorrect, PTL

(* After main of the wrapper has returned, Linux finds the registers it left *)
(* (all but the three that nothing saves), and all of them and an image that *)
(* has not run when save_linux gave up.                                      *)
THEOREM LinuxIsRestored == Spec => []LinuxFindsWhatItLeft
<1>1. SwitchInv => LinuxFindsWhatItLeft
  BY DEF SwitchInv, ImageInv, RegistersInv, Same, LinuxFindsWhatItLeft
<1> QED BY <1>1, SwitchCorrect, PTL

(* The tables that Trap::init builds, entry by entry.                        *)
LEMMA IdtValue ==
    \A v \in 0..255 : /\ idt[v].selector = GDT_KERNEL_CS /\ idt[v].ring = IF v = 3 THEN 3 ELSE 0
                      /\ idt[v].ist = IF v = TRAP_RUN_USER THEN 7 ELSE 0
<1> DEFINE t0 == [v \in 0..255 |-> set_idt]
           t1 == [t0 EXCEPT ![3].ring = 3]
           t2 == [t1 EXCEPT ![TRAP_RUN_USER].ist = 7]
<1>1. idt = t2
  BY DEF idt
<1>2. set_idt.selector = GDT_KERNEL_CS /\ set_idt.ring = 0 /\ set_idt.ist = 0
  BY DEF set_idt
<1>3. ASSUME NEW v \in 0..255
      PROVE  /\ t1[v].selector = GDT_KERNEL_CS /\ t1[v].ring = IF v = 3 THEN 3 ELSE 0
             /\ t1[v].ist = 0
  <2>1. CASE v = 3
    BY <1>2, <2>1 DEF set_idt
  <2>2. CASE v # 3
    BY <1>2, <2>2
  <2> QED BY <2>1, <2>2
<1>4. ASSUME NEW v \in 0..255
      PROVE  /\ t2[v].selector = t1[v].selector /\ t2[v].ring = t1[v].ring
             /\ t2[v].ist = IF v = TRAP_RUN_USER THEN 7 ELSE 0
  <2>1. CASE v = TRAP_RUN_USER
    <3>1. v # 3
      BY <2>1 DEF TRAP_RUN_USER
    <3>2. t1[v] = set_idt
      BY <3>1
    <3> HIDE DEF t1
    <3>3. t2[v] = [set_idt EXCEPT !.ist = 7]
      <4>1. DOMAIN t1 = 0..255
        BY DEF t1
      <4> QED BY <2>1, <3>2, <4>1
    <3> HIDE DEF t2
    <3> QED BY <2>1, <3>2, <3>3 DEF set_idt
  <2>2. CASE v # TRAP_RUN_USER
    <3>1. t2[v] = t1[v]
      BY <2>2
    <3> HIDE DEF t1, t2
    <3> QED BY <1>3, <2>2, <3>1
  <2> QED BY <2>1, <2>2
<1> QED BY <1>1, <1>3, <1>4

\* The descriptors that the selectors of the kernel name, ...
LEMMA GdtValue ==
    /\ gdt[8] = [kind |-> "code64", ring |-> 0] /\ gdt[16] = [kind |-> "data", ring |-> 0]
    /\ gdt[40] = [kind |-> "code64", ring |-> 3] /\ gdt[32] = [kind |-> "data", ring |-> 3]
    /\ gdt[80] = [kind |-> "task", ring |-> 0]
BY DEF gdt, GDT_KERNEL_CS, GDT_KERNEL_SS, GDT_USER32_CS, GDT_USER_SS, GDT_USER_CS, GDT_TSS

\* ... and the selectors that syscall and sysret derive from STAR.
LEMMA RegisterValue ==
    /\ TrapRegisters["tr"] = 10 /\ {"tr", "star"} \subseteq DOMAIN TrapRegisters
    /\ SyscallSegments(TrapRegisters["star"]) = <<8, 16>>
    /\ SysretSegments(TrapRegisters["star"]) = <<40, 32>>
BY DEF TrapRegisters, GDT_TSS, Star, SyscallSegments, SysretSegments, GDT_KERNEL_CS,
     GDT_USER32_CS

(* Whatever cpuid answers and whatever Linux left in the controllers, what   *)
(* programs rely on is set up when main begins to load them, or main has     *)
(* stopped in a division by zero or an assertion: the controllers, the       *)
(* rounding of clk_freq, and the tables, segments and stacks of Trap::init.  *)
THEOREM KernelSetsUp == Spec => []KernelIsSetUp
<1>1. ASSUME KernelInv PROVE KernelIsSetUp
  <2>1. CASE pc \notin {"tests", "exit"}
    BY <1>1, <2>1 DEF KernelInv, KernelIsSetUp
  <2>2. CASE pc \in {"tests", "exit"}
    <3>1. PicsAreSet /\ Speed(duck) /\ TrapsAreSet
          /\ (duck.heap_brk = 0 \/ duck.heap_brk \in heap..(heap + KERNEL_HEAP_SIZE))
      BY <1>1, <2>2 DEF KernelInv
    <3>2. /\ pic[1] = [want |-> 0, offset |-> 32, cascade |-> 4, mask |-> 251]
          /\ pic[2] = [want |-> 0, offset |-> 40, cascade |-> 2, mask |-> 255]
      BY <3>1, SMT DEF PicsAreSet, Chip
    <3>3. /\ duck.idt = idt /\ duck.gdt = gdt /\ duck.stacks = interrupt_stack
          /\ duck.IOPB_offset = TaskStateSize /\ duck.syscall_stack = 1
          /\ \A r \in DOMAIN TrapRegisters : cpu[r] = TrapRegisters[r]
      BY <3>1 DEF TrapsAreSet
    <3>4. cpu["tr"] = 10 /\ cpu["star"] = TrapRegisters["star"]
      BY <3>3, RegisterValue
    <3>5. {v \in 0..255 : duck.idt[v].ring = 3} = {3}
      <4>1. ASSUME NEW v \in 0..255 PROVE duck.idt[v].ring = 3 <=> v = 3
        <5>1. duck.idt[v].ring = IF v = 3 THEN 3 ELSE 0
          BY <3>3, IdtValue
        <5>2. v = 3 \/ v # 3
          OBVIOUS
        <5> QED BY <5>1, <5>2, SMT
      <4>2. 3 \in 0..255
        BY SMT
      <4> QED BY <4>1, <4>2
    <3>6. duck.gdt[8 * cpu["tr"]].kind = "task"
      BY <3>3, <3>4, GdtValue, SMT
    <3>7. SyscallSegments(cpu["star"]) = <<8, 16>> /\ SysretSegments(cpu["star"]) = <<40, 32>>
      BY <3>4, RegisterValue
    <3>8. \A sel \in {duck.idt[v].selector : v \in 0..255} \cup {SyscallSegments(cpu["star"])[1]} :
             sel = 8
      <4>1. \A v \in 0..255 : duck.idt[v].selector = 8
        <5>1. GDT_KERNEL_CS = 8 /\ \A v \in 0..255 : idt[v].selector = GDT_KERNEL_CS
          BY IdtValue DEF GDT_KERNEL_CS
        <5> QED BY <3>3, <5>1
      <4>2. SyscallSegments(cpu["star"])[1] = 8
        BY <3>7, SMT
      <4> QED BY <4>1, <4>2
    <3>9. \A sel \in {duck.idt[v].selector : v \in 0..255} \cup {SyscallSegments(cpu["star"])[1]} :
             duck.gdt[sel] = [kind |-> "code64", ring |-> 0]
      BY <3>3, <3>8, GdtValue
    <3>10. /\ duck.gdt[SyscallSegments(cpu["star"])[2]] = [kind |-> "data", ring |-> 0]
           /\ duck.gdt[SysretSegments(cpu["star"])[1]] = [kind |-> "code64", ring |-> 3]
           /\ duck.gdt[SysretSegments(cpu["star"])[2]] = [kind |-> "data", ring |-> 3]
      BY <3>3, <3>7, GdtValue, SMT
    <3> DEFINE stack(v) == duck.stacks[duck.idt[v].ist]
    <3>11. TRAP_RUN_USER \in 0..255 /\ stack(TRAP_RUN_USER) = 8
           /\ \A v \in (0..255) \ {TRAP_RUN_USER} : stack(v) = 1
      <4>1. interrupt_stack[0] = 1 /\ interrupt_stack[7] = 8
        BY DEF interrupt_stack
      <4>2. TRAP_RUN_USER \in 0..255
        BY DEF TRAP_RUN_USER
      <4> QED BY <3>3, <4>1, <4>2, IdtValue
    <3>12. /\ \A top \in {stack(v) : v \in (0..255) \ {TRAP_RUN_USER}} \cup {duck.syscall_stack} :
                 top \notin {0, stack(TRAP_RUN_USER)}
           /\ stack(TRAP_RUN_USER) # 0
      <4> HIDE DEF stack
      <4>1. \A top \in {stack(v) : v \in (0..255) \ {TRAP_RUN_USER}} \cup {duck.syscall_stack} :
               top = 1
        BY <3>3, <3>11
      <4> QED BY <3>11, <4>1
    <3>13. duck.IOPB_offset >= TaskStateSize
      BY <3>3 DEF TaskStateSize
    <3>14. /\ duck.ext_freq # 0 /\ duck.tsc_freq - 50 * MHz < duck.clk_freq
           /\ duck.clk_freq <= duck.tsc_freq + 50 * MHz
           /\ (duck.clk_freq = 0) <=> (duck.tsc_freq < 50 * MHz)
      BY <3>1 DEF Speed
    <3> QED BY <3>1, <3>2, <3>5, <3>6, <3>9, <3>10, <3>12, <3>13, <3>14 DEF KernelIsSetUp
  <2> QED BY <2>1, <2>2
<1>2. SwitchInv => KernelInv
  BY DEF SwitchInv
<1> QED BY <1>1, <1>2, SwitchCorrect, PTL
=============================================================================
