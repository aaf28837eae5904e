------------------------------- MODULE Switch -------------------------------
(***************************************************************************)
(* The way from Linux into the duck kernel and back (wrapper/switch.cpp,   *)
(* entry.S, duck.S, dynlink.hpp), with the duck kernel in between.         *)
(*                                                                         *)
(* Three things can go wrong unseen: an access to memory that the page     *)
(* table of the moment does not map, a register that Linux does not find   *)
(* as it left it, and a pointer of the image that is not relocated once.   *)
(* Memory is divided into regions.  At their Linux addresses the duck      *)
(* table maps only the pages that load_firmware entered (see PageTable),   *)
(* those of the file and of the stack; what follows the file, .bss, is     *)
(* mapped at its low address alone.                                        *)
(*                                                                         *)
(* Interrupts are off all the time (SteadyMode).  A non-maskable interrupt *)
(* between a write of CR3 and the load of the other table of gates finds   *)
(* no handler; the code has no answer to it, and it is left out.           *)
(***************************************************************************)
EXTENDS DuckKernel

CONSTANTS TssIndices,        \* where Linux's task register may point
          PicStates,         \* what the controllers may hold
          Pointers,          \* pointers of the image that fake_dynlink visits
          kernel_base

NUM_GDT_DESC == 16

\* A task state takes two of the 16 entries of Linux's table; an index that
\* is not in that table can only come from another table.
ASSUME TssAssumption == \A i \in TssIndices : i \in Nat /\ i # NUM_GDT_DESC - 1

ASSUME SwitchAssumption ==
    /\ \A p \in PicStates : p \in [1..2 -> [want : Nat, offset : Nat, cascade : Nat, mask : Nat]]
    /\ Pointers \in Seq(Nat) /\ kernel_base \in Nat

VARIABLES linux,   \* how the processor was when Linux called entry
          data,    \* the registers saved, in .bss
          image,   \* what the wrapper keeps in .text and .data
          fault    \* an instruction has accessed what is not there

vars == <<pc, cpu, pic, duck, linux, data, image, fault>>

Regs == {"gdtr", "idtr", "tr", "cs", "ds", "es", "ss", "fs", "gs", "fs_base", "gs_base",
         "kerngs_base", "cr0", "cr3", "cr4", "efer", "lstar", "cstar", "star", "sfmask",
         "rsp", "callee_saved", "fpu"}

\* What save_linux saves: not the stack segment, not the base that swapgs
\* exchanges, not the floating point registers.
Saved == {"gdtr", "idtr", "tr", "cs", "ds", "es", "fs", "gs", "fs_base", "gs_base",
          "cr0", "cr3", "cr4", "efer", "lstar", "cstar", "star", "sfmask"}

NoData == [r \in Saved |-> "none"]
FreshImage == [linux_cr3 |-> "none", linux_rsp |-> "none", wrapper_rsp |-> "none",
               magic |-> "deadbeef", pointers |-> Pointers,
               gdt |-> [i \in 0..(NUM_GDT_DESC - 1) |->
                           CASE i = 1 -> "code" [] i = 2 -> "available tss" [] OTHER -> "none"]]

----------------------------------------------------------------------------
(* Memory *)

Mapped(cr3) == IF cr3 = "linux" THEN {"linux", "text", "data", "bss", "stack"}
               ELSE {"low", "text", "data", "stack"}

\* The region that holds the descriptor table gdtr points to.
GdtRegion(gdtr) ==
    CASE gdtr = "linux" -> "linux" [] gdtr = "wrapper" -> "data" [] OTHER -> "low"

Accesses(cr3, regions) == fault' = (fault \/ ~(regions \subseteq Mapped(cr3)))

\* A descriptor of a task state: the processor loads only one that is not
\* busy, and makes it busy.
LinuxTss == "busy tss"

not_busy(desc) == IF desc = "busy tss" THEN "available tss" ELSE desc

----------------------------------------------------------------------------
(* Into the duck kernel *)

\* The driver's main with the image that its init has loaded (see Driver),
\* and entry.S: the registers go to the stack of Linux.
entry ==
    /\ At("linux") /\ Goto("save")
    /\ \E i \in TssIndices, gs \in {"null", "linux"}, p \in PicStates :
          /\ linux' = [cpu EXCEPT !["tr"] = i, !["gs"] = gs]
          /\ pic' = p
    /\ cpu' = [linux' EXCEPT !["rsp"] = "stack"]
    /\ image' = [FreshImage EXCEPT !.linux_rsp = cpu["rsp"]]
    /\ duck' = ZeroDuck
    /\ data' = NoData
    /\ Accesses(cpu["cr3"], {"linux", "text"})

\* save_linux up to the registers of the system call instruction.
save_registers ==
    /\ At("save")
    /\ Accesses(cpu["cr3"], {"bss", "text", "stack"})
    /\ IF cpu["tr"] >= NUM_GDT_DESC
       THEN Goto("leave") /\ UNCHANGED <<data, image>>
       ELSE /\ Goto("gdt")
            /\ data' = [r \in Saved |-> cpu[r]]
            /\ image' = [image EXCEPT !.linux_cr3 = cpu["cr3"]]
    /\ UNCHANGED <<cpu, pic, duck, linux>>

\* dtr, lgdtq, set_cs.
set_gdt ==
    /\ At("gdt") /\ Goto("segments")
    /\ fault' = (fault \/ ~({"bss", "stack", GdtRegion("wrapper")} \subseteq Mapped(cpu["cr3"]))
                       \/ image.gdt[1] # "code")
    /\ Set([gdtr |-> "wrapper", cs |-> 8])
    /\ UNCHANGED <<pic, duck, linux, data, image>>

\* The null selectors, and the task register: its descriptor is marked
\* available before ltr marks it busy.
set_segments ==
    /\ At("segments") /\ Goto("cr")
    /\ fault' = (fault \/ ~({GdtRegion(cpu["gdtr"])} \subseteq Mapped(cpu["cr3"]))
                       \/ not_busy(image.gdt[2]) # "available tss")
    /\ Set([ds |-> "null", es |-> "null", ss |-> "null", tr |-> 2])
    /\ image' = [image EXCEPT !.gdt[2] = "busy tss"]
    /\ UNCHANGED <<pic, duck, linux, data>>

\* CR4 is computed from data, and only then CR3 is written.
set_cr ==
    /\ At("cr") /\ Goto("dynlink")
    /\ Accesses(cpu["cr3"], {"bss"})
    /\ Set([cr4 |-> "fsgsbase", cr3 |-> "duck"])
    /\ UNCHANGED <<pic, duck, linux, data, image>>

dynlink_ptr(ptr) == IF ptr # 0 THEN ptr + kernel_base ELSE ptr

\* fake_dynlink: the arrays of constructors and destructors, the files of the
\* C library and the entries of the traps.  Then the magic number.
fake_dynlink ==
    /\ At("dynlink") /\ Goto("duck_entry")
    /\ Accesses(cpu["cr3"], {"text", "data", "stack"})
    /\ image' = [image EXCEPT !.pointers = [i \in DOMAIN Pointers |-> dynlink_ptr(@[i])],
                              !.magic = "abcd1234"]
    /\ UNCHANGED <<cpu, pic, duck, linux, data>>

\* duck.S: the stack pointer and the next instruction move to low addresses.
duck_entry ==
    /\ At("duck_entry") /\ Goto("start")
    /\ Accesses(cpu["cr3"], {"text", "stack", "low"})
    /\ image' = [image EXCEPT !.wrapper_rsp = cpu["rsp"]]
    /\ Set([rsp |-> "low"])
    /\ UNCHANGED <<pic, duck, linux, data>>

\* The kernel runs at low addresses; its start writes the base of fs with an
\* instruction that CR4 must allow, and its pointers must have been relocated.
duck_main ==
    /\ KernelStep
    /\ fault' = \/ fault
                \/ ~({"low"} \subseteq Mapped(cpu["cr3"]))
                \/ cpu["cr4"] # "fsgsbase"
                \/ \E i \in DOMAIN Pointers : Pointers[i] # 0 /\ image.pointers[i] # Pointers[i] + kernel_base
    /\ UNCHANGED <<linux, data, image>>

----------------------------------------------------------------------------
(* Back to Linux *)

\* SYS_exit calls duck_exit, which returns where duck_entry was called.
duck_exit ==
    /\ At("exit") /\ Goto("restore_cr3")
    /\ Accesses(cpu["cr3"], {"low", "stack", "text"})
    /\ Set([rsp |-> image.wrapper_rsp, callee_saved |-> "wrapper"])
    /\ UNCHANGED <<pic, duck, linux, data, image>>

\* Mutant: the copy of CR3 in data is used.
restore_cr3_of_data ==
    /\ At("restore_cr3") /\ Goto("restore_cr")
    /\ Accesses(cpu["cr3"], {"bss", "stack"})
    /\ Set([cr3 |-> data["cr3"]])
    /\ UNCHANGED <<pic, duck, linux, data, image>>

restore_cr3 ==
    /\ At("restore_cr3") /\ Goto("restore_cr")
    /\ Accesses(cpu["cr3"], {"text", "stack"})
    /\ Set([cr3 |-> image.linux_cr3])
    /\ UNCHANGED <<pic, duck, linux, data, image>>

restore_cr ==
    /\ At("restore_cr") /\ Goto("restore_tr")
    /\ Accesses(cpu["cr3"], {"bss"})
    /\ Set([cr0 |-> data["cr0"], cr4 |-> data["cr4"]])
    /\ UNCHANGED <<pic, duck, linux, data, image>>

\* The descriptor of Linux's task state is busy, and ltr refuses a busy one:
\* it is loaded from a copy, marked available, in the wrapper's table.  The
\* copy has two entries.
restore_tr ==
    LET i == data["tr"]
    IN  /\ At("restore_tr") /\ Goto("restore_tables")
        /\ fault' = (fault \/ ~({"bss", "data", "linux"} \subseteq Mapped(cpu["cr3"]))
                           \/ i + 1 \notin DOMAIN image.gdt
                           \/ not_busy(LinuxTss) # "available tss")
        /\ Set([gdtr |-> "wrapper", tr |-> i])
        /\ image' = [image EXCEPT !.gdt[i] = "busy tss", !.gdt[i + 1] = "upper half"]
        /\ UNCHANGED <<pic, duck, linux, data>>

restore_tables ==
    /\ At("restore_tables") /\ Goto("restore_segments")
    /\ Accesses(cpu["cr3"], {"bss"})
    /\ Set([gdtr |-> data["gdtr"], idtr |-> data["idtr"]])
    /\ UNCHANGED <<pic, duck, linux, data, image>>

\* A null selector loaded into gs clears the base on some processors and keeps
\* it on others; gs is loaded between two swapgs, so that the base at stake is
\* the one of kerngs_base.  A selector that is not null loads the base of its
\* descriptor.  The base of fs, also lost, is written again in a moment.
KernGsBases ==
    IF data["gs"] = "null" THEN {cpu["kerngs_base"], "zero"} ELSE {"descriptor"}

restore_segments ==
    /\ At("restore_segments") /\ Goto("restore_msrs")
    /\ Accesses(cpu["cr3"], {"bss", "stack", GdtRegion(cpu["gdtr"])})
    /\ \E base \in KernGsBases :
          Set([cs |-> data["cs"], ds |-> data["ds"], es |-> data["es"], fs |-> data["fs"],
               gs |-> data["gs"], fs_base |-> "descriptor", kerngs_base |-> base])
    /\ UNCHANGED <<pic, duck, linux, data, image>>

Msrs == {"fs_base", "gs_base", "efer", "lstar", "cstar", "star", "sfmask"}

\* Mutant: the mask of the flags is forgotten.
MsrsWithoutMask == Msrs \ {"sfmask"}

RestoredMsrs == Msrs

restore_msrs ==
    /\ At("restore_msrs") /\ Goto("leave")
    /\ Accesses(cpu["cr3"], {"bss"})
    /\ Set([r \in RestoredMsrs |-> data[r]])
    /\ UNCHANGED <<pic, duck, linux, data, image>>

\* The end of entry.S, also after save_linux has given up.
leave ==
    /\ At("leave") /\ Goto("back")
    /\ Accesses(cpu["cr3"], {"linux", "text"})
    /\ Set([rsp |-> image.linux_rsp, callee_saved |-> linux["callee_saved"]])
    /\ UNCHANGED <<pic, duck, linux, data, image>>

LinuxCpu == [r \in Regs |-> "linux"]

Init ==
    /\ pc = "linux"
    /\ cpu = LinuxCpu /\ linux = LinuxCpu
    /\ pic \in PicStates
    /\ duck = ZeroDuck
    /\ data = NoData /\ image = FreshImage
    /\ fault = FALSE

Next ==
    \/ entry \/ save_registers \/ set_gdt \/ set_segments \/ set_cr \/ fake_dynlink \/ duck_entry
    \/ duck_main
    \/ duck_exit \/ restore_cr3 \/ restore_cr \/ restore_tr \/ restore_tables
    \/ restore_segments \/ restore_msrs \/ leave

Spec == Init /\ [][Next]_vars

----------------------------------------------------------------------------
(* On the way in, in the kernel and on the way back, no instruction touches  *)
(* memory that the page table of the moment does not map, loads a busy task  *)
(* state or writes beyond the wrapper's table of descriptors, and the duck   *)
(* kernel runs on pointers that were relocated exactly once.  linux_cr3 lies *)
(* in .text for this reason: "we can't access `data` after switching page    *)
(* table" (switch.cpp).  A division by zero in Timer::init is not counted    *)
(* here: it ends the behaviour (divide_error in DuckKernel).                 *)
NoFault == ~fault

\* Registers that nothing saves.
Lost == {"ss", "kerngs_base", "fpu"}

(* Linux finds every register of the processor as it was when it called      *)
(* entry, except the three that the wrapper does not save; and when          *)
(* save_linux gives up (the task register points outside the table) all of   *)
(* them, and an image that has not run.  Devices are another matter: nothing *)
(* restores the interrupt controllers that PIC::init programs.               *)
LinuxFindsWhatItLeft ==
    pc = "back" =>
        /\ \A r \in Regs \ Lost : cpu[r] = linux[r]
        /\ (linux["tr"] >= NUM_GDT_DESC) <=> (image.magic = "deadbeef")
        /\ image.magic = "deadbeef" => cpu = linux
=============================================================================
