----------------------------- MODULE SteadyMode -----------------------------
(***************************************************************************)
(* Entering and leaving steady mode: module_main and each_cpu_main of      *)
(* driver/entry.c.  module_main clears the counter call_done and has the   *)
(* kernel run each_cpu_main on every online CPU, on the calling CPU        *)
(* directly and on the others through an inter-processor interrupt it does *)
(* not wait for (on_each_cpu with wait = 0).  Each CPU disables its        *)
(* interrupts, counts itself in and spins until the counter shows all of   *)
(* them; CPU 0 then runs the judge kernel and clears the counter, the      *)
(* others spin until they read that zero.                                  *)
(*                                                                         *)
(* A read of call_done that keeps a CPU in its loop changes nothing and is *)
(* a stuttering step; the read that ends the loop is an action.            *)
(***************************************************************************)
EXTENDS Naturals, FiniteSets

CONSTANTS Cpus,   \* the online CPUs
          Cpu0    \* the one whose smp_processor_id() is 0

ASSUME CpusAssumption == IsFiniteSet(Cpus) /\ Cpu0 \in Cpus

VARIABLES call_done,  \* the atomic counter
          pc,         \* where each CPU is in each_cpu_main
          irqs_off,   \* the CPUs between local_irq_save and local_irq_restore
          loader,     \* what the thread that loads or removes the module does
          caller      \* the CPU on which module_main was called

vars == <<call_done, pc, irqs_off, loader, caller>>

(* Mutant: num_possible_cpus() counts a CPU that is not there.               *)
cpus_possible == Cardinality(Cpus) + 1

cpus == Cardinality(Cpus)   \* num_online_cpus(); no CPU is hot-plugged

InitSteady ==
    /\ call_done = 0
    /\ pc = [c \in Cpus |-> "linux"]
    /\ irqs_off = {}
    /\ loader = "unloaded"
    /\ caller = Cpu0

(* init_module has reached module_main on CPU c: the counter is cleared and *)
(* every CPU has each_cpu_main pending.                                     *)
module_main(c) ==
    /\ loader = "unloaded"
    /\ call_done' = 0
    /\ pc' = [d \in Cpus |-> "pending"]
    /\ loader' = "in_module_main"
    /\ caller' = c
    /\ UNCHANGED irqs_off

(* Mutant: the interrupts stay enabled.                                      *)
local_irq_save_missing(c) ==
    /\ pc[c] = "pending"
    /\ pc' = [pc EXCEPT ![c] = "irqs_saved"]
    /\ UNCHANGED <<call_done, irqs_off, loader, caller>>

local_irq_save(c) ==
    /\ pc[c] = "pending"
    /\ pc' = [pc EXCEPT ![c] = "irqs_saved"]
    /\ irqs_off' = irqs_off \cup {c}
    /\ UNCHANGED <<call_done, loader, caller>>

(* Mutant: the counter is incremented twice.                                 *)
CountInTwice(c) ==
    /\ pc[c] = "irqs_saved"
    /\ pc' = [pc EXCEPT ![c] = "await_all"]
    /\ call_done' = call_done + 2
    /\ UNCHANGED <<irqs_off, loader, caller>>

CountIn(c) ==
    /\ pc[c] = "irqs_saved"
    /\ pc' = [pc EXCEPT ![c] = "await_all"]
    /\ call_done' = call_done + 1
    /\ UNCHANGED <<irqs_off, loader, caller>>

(* Mutant: the loop waits for the other CPUs but one.                        *)
SeeAllButOne(c) ==
    /\ pc[c] = "await_all"
    /\ call_done + 1 >= cpus
    /\ pc' = [pc EXCEPT ![c] = IF c = Cpu0 THEN "main" ELSE "await_zero"]
    /\ UNCHANGED <<call_done, irqs_off, loader, caller>>

(* Mutant: the second loop is missing.                                       *)
SeeAllOnly(c) ==
    /\ pc[c] = "await_all"
    /\ call_done = cpus
    /\ pc' = [pc EXCEPT ![c] = IF c = Cpu0 THEN "main" ELSE "leaving"]
    /\ UNCHANGED <<call_done, irqs_off, loader, caller>>

(* The read of line 24 that shows every CPU: CPU 0 goes on to jpenguin_main, *)
(* any other CPU to its second loop.                                         *)
SeeAll(c) ==
    /\ pc[c] = "await_all"
    /\ call_done = cpus
    /\ pc' = [pc EXCEPT ![c] = IF c = Cpu0 THEN "main" ELSE "await_zero"]
    /\ UNCHANGED <<call_done, irqs_off, loader, caller>>

MainReturns ==
    /\ pc[Cpu0] = "main"
    /\ pc' = [pc EXCEPT ![Cpu0] = "main_done"]
    /\ UNCHANGED <<call_done, irqs_off, loader, caller>>

(* Mutant: CPU 0 leaves without clearing the counter.                        *)
ClearCounterMissing ==
    /\ pc[Cpu0] = "main_done"
    /\ pc' = [pc EXCEPT ![Cpu0] = "leaving"]
    /\ UNCHANGED <<call_done, irqs_off, loader, caller>>

ClearCounter ==
    /\ pc[Cpu0] = "main_done"
    /\ pc' = [pc EXCEPT ![Cpu0] = "leaving"]
    /\ call_done' = 0
    /\ UNCHANGED <<irqs_off, loader, caller>>

SeeZero(c) ==
    /\ pc[c] = "await_zero"
    /\ call_done = 0
    /\ pc' = [pc EXCEPT ![c] = "leaving"]
    /\ UNCHANGED <<call_done, irqs_off, loader, caller>>

local_irq_restore(c) ==
    /\ pc[c] = "leaving"
    /\ pc' = [pc EXCEPT ![c] = "linux"]
    /\ irqs_off' = irqs_off \ {c}
    /\ UNCHANGED <<call_done, loader, caller>>

(* Mutant: each_cpu_main is only scheduled on the calling CPU as well.       *)
module_main_returns_at_once ==
    /\ loader = "in_module_main"
    /\ loader' = "loaded"
    /\ UNCHANGED <<call_done, pc, irqs_off, caller>>

(* on_each_cpu, and with it init_module, returns when the calling CPU is out *)
(* of its own each_cpu_main; the other CPUs are not waited for.              *)
module_main_returns ==
    /\ loader = "in_module_main"
    /\ pc[caller] = "linux"
    /\ loader' = "loaded"
    /\ UNCHANGED <<call_done, pc, irqs_off, caller>>

(* rmmod: cleanup_module unmaps the judge kernel's memory at once ...        *)
cleanup_module ==
    /\ loader = "loaded"
    /\ loader' = "cleaned"
    /\ UNCHANGED <<call_done, pc, irqs_off, caller>>

(* ... and Linux frees the module's code after a grace period, which no CPU  *)
(* that spins in it with interrupts disabled lets pass.                      *)
FreeModule ==
    /\ loader = "cleaned"
    /\ \A c \in Cpus : pc[c] = "linux"
    /\ loader' = "unloaded"
    /\ UNCHANGED <<call_done, pc, irqs_off, caller>>

each_cpu_main(c) ==
    \/ local_irq_save(c)
    \/ CountIn(c)
    \/ SeeAll(c)
    \/ c = Cpu0 /\ (MainReturns \/ ClearCounter)
    \/ SeeZero(c)
    \/ local_irq_restore(c)

Next ==
    \/ \E c \in Cpus : module_main(c) \/ each_cpu_main(c)
    \/ module_main_returns
    \/ cleanup_module
    \/ FreeModule

Spec == InitSteady /\ [][Next]_vars

(* Every CPU that can take its next step does, the judge kernel returns and  *)
(* the loading thread goes on when its CPU is back; nobody has to load or    *)
(* remove the module.                                                        *)
Fairness == \A c \in Cpus : WF_vars(each_cpu_main(c))

FairSpec == Spec /\ Fairness /\ WF_vars(module_main_returns)
-----------------------------------------------------------------------------
PCs == {"linux", "pending", "irqs_saved", "await_all", "await_zero",
        "main", "main_done", "leaving"}

Loaders == {"unloaded", "in_module_main", "loaded", "cleaned"}

TypeOK ==
    /\ call_done \in 0..cpus
    /\ pc \in [Cpus -> PCs]
    /\ irqs_off \subseteq Cpus
    /\ loader \in Loaders
    /\ caller \in Cpus

(* Steady mode is exclusive: from the moment CPU 0 calls jpenguin_main until *)
(* it clears the counter, every CPU is held in one of the two spin loops     *)
(* with its interrupts disabled.                                             *)
InSteadyMode == pc[Cpu0] \in {"main", "main_done"}

SteadyExclusive ==
    InSteadyMode =>
        /\ irqs_off = Cpus
        /\ \A c \in Cpus \ {Cpu0} : pc[c] \in {"await_all", "await_zero"}

(* Although nobody waits for the other CPUs, init_module returns, and        *)
(* cleanup_module unmaps the judge kernel, only when CPU 0 has left          *)
(* jpenguin_main: the caller is held by the same barrier.                    *)
MainDoneBeforeLoaded ==
    loader \in {"loaded", "cleaned"} => pc[Cpu0] \in {"leaving", "linux"}

(* A CPU's interrupts come back only when the judge kernel has returned and  *)
(* CPU 0 has cleared the counter, never because of the zero module_main      *)
(* wrote at the start of the round.                                          *)
NoEarlyRestore ==
    [][\A c \in Cpus : (c \in irqs_off /\ c \notin irqs_off') =>
            pc[Cpu0] \in {"leaving", "linux"}]_vars

(* Once module_main has started a round CPU 0 gets to run the judge kernel   *)
(* and hands the machine back: the counter reaches num_online_cpus(), CPU 0  *)
(* cannot miss it, and nothing waits for the CPUs that spin.                 *)
JudgeKernelRunsAndReturns == (pc[Cpu0] = "pending") ~> (pc[Cpu0] = "leaving")

(* entry.c line 44 announces "restore interrupt on cpu %d" for every CPU     *)
(* that announced "disable interrupt on cpu %d" on line 19.                  *)
EveryCpuRestores == \A c \in Cpus : (c \in irqs_off) ~> (c \notin irqs_off)
-----------------------------------------------------------------------------
(* Why the barrier works, as an inductive invariant: until CPU 0 clears the  *)
(* counter it is exactly the number of CPUs in a loop or in jpenguin_main,   *)
(* nobody passes the first loop before it is full, and after that it stays 0 *)
(* and no CPU can count itself in again before the module is unloaded.       *)
Counted == {c \in Cpus : pc[c] \in {"await_all", "await_zero", "main", "main_done"}}

Gathering ==
    /\ loader = "in_module_main"
    /\ call_done = Cardinality(Counted)
    /\ \A c \in Cpus \ {Cpu0} :
            pc[c] \in {"pending", "irqs_saved", "await_all", "await_zero"}
    /\ (InSteadyMode \/ \E c \in Cpus : pc[c] = "await_zero") => Counted = Cpus

Dispersing ==
    /\ call_done = 0
    /\ \A c \in Cpus \ {Cpu0} :
            pc[c] \in {"await_all", "await_zero", "leaving", "linux"}

BarrierInv ==
    /\ irqs_off = {c \in Cpus : pc[c] \notin {"linux", "pending"}}
    /\ pc[Cpu0] # "await_zero"
    /\ IF pc[Cpu0] \in {"leaving", "linux"} THEN Dispersing ELSE Gathering
    /\ loader = "unloaded" => \A c \in Cpus : pc[c] = "linux"
-----------------------------------------------------------------------------
(* The abstract machine owner that this protocol implements.                 *)
owner ==
    IF InSteadyMode THEN "judge"
    ELSE IF pc[Cpu0] = "leaving" \/ (pc[Cpu0] = "linux" /\ loader # "unloaded")
         THEN "released"
         ELSE "linux"

Exclusive == INSTANCE ExclusiveMachine WITH stopped <- irqs_off

ImplementsExclusive == Exclusive!Spec
=============================================================================
