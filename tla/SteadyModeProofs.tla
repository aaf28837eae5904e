-------------------------- MODULE SteadyModeProofs --------------------------
(***************************************************************************)
(* Proofs, for any finite set of CPUs, that the steady-mode barrier of     *)
(* driver/entry.c counts right and therefore is exclusive.                 *)
(***************************************************************************)
EXTENDS SteadyMode, FiniteSetTheorems, TLAPS

(* The facts about the number of CPUs that the counting argument uses: a     *)
(* set of CPUs has at most num_online_cpus() members, and has that many only *)
(* if it has them all.                                                       *)
LEMMA CpuCounting ==
    /\ cpus \in Nat /\ cpus > 0
    /\ \A T \in SUBSET Cpus :
          /\ IsFiniteSet(T)
          /\ Cardinality(T) \in 0..cpus
          /\ Cardinality(T) = cpus => T = Cpus
<1>1. cpus \in Nat
  BY CpusAssumption, FS_CardinalityType DEF cpus
<1>2. cpus # 0
  BY CpusAssumption, FS_EmptySet DEF cpus
<1>3. ASSUME NEW T \in SUBSET Cpus
      PROVE  /\ IsFiniteSet(T)
             /\ Cardinality(T) \in 0..cpus
             /\ Cardinality(T) = cpus => T = Cpus
  <2>1. IsFiniteSet(T) /\ Cardinality(T) <= cpus /\ (cpus = Cardinality(T) => Cpus = T)
    BY CpusAssumption, FS_Subset DEF cpus
  <2>2. Cardinality(T) \in Nat
    BY <2>1, FS_CardinalityType
  <2> QED BY <1>1, <2>1, <2>2
<1> QED BY <1>1, <1>2, <1>3

(* A CPU that executes the atomic_inc of line 23 raises the number of CPUs   *)
(* counted by exactly one.                                                   *)
LEMMA CountInCounts ==
    ASSUME NEW c \in Cpus, TypeOK, CountIn(c)
    PROVE  Cardinality(Counted') = Cardinality(Counted) + 1
<1>1. Counted' = Counted \cup {c} /\ c \notin Counted
  BY DEF Counted, CountIn, TypeOK
<1>2. IsFiniteSet(Counted)
  BY CpuCounting DEF Counted
<1> QED BY <1>1, <1>2, FS_AddElement

(* The barrier invariant holds before the module is loaded.                  *)
LEMMA InitBarrier == InitSteady => TypeOK /\ BarrierInv
<1> SUFFICES ASSUME InitSteady PROVE TypeOK /\ BarrierInv
  OBVIOUS
<1>1. TypeOK
  BY CpuCounting, CpusAssumption DEF InitSteady, TypeOK, PCs, Loaders
<1>2. BarrierInv
  BY CpusAssumption DEF InitSteady, BarrierInv, Dispersing
<1> QED BY <1>1, <1>2

(* Every step of the loading thread and of every CPU keeps the barrier       *)
(* invariant.                                                                *)
LEMMA NextBarrier == TypeOK /\ BarrierInv /\ [Next]_vars => TypeOK' /\ BarrierInv'
<1> SUFFICES ASSUME TypeOK, BarrierInv, [Next]_vars
             PROVE  TypeOK' /\ BarrierInv'
  OBVIOUS
<1> USE CpusAssumption
<1>1. ASSUME NEW c \in Cpus, module_main(c)
      PROVE  TypeOK' /\ BarrierInv'
  <2>1. TypeOK'
    BY <1>1, CpuCounting DEF module_main, TypeOK, PCs, Loaders
  <2>2. Counted' = {}
    BY <1>1 DEF module_main, Counted
  <2>3. BarrierInv'
    BY <1>1, <2>2, FS_EmptySet
       DEF module_main, BarrierInv, Gathering, TypeOK, InSteadyMode
  <2> QED BY <2>1, <2>3
<1>2. ASSUME NEW c \in Cpus, local_irq_save(c)
      PROVE  TypeOK' /\ BarrierInv'
  <2>1. TypeOK'
    BY <1>2 DEF local_irq_save, TypeOK, PCs
  <2>2. Counted' = Counted
    BY <1>2 DEF local_irq_save, Counted, TypeOK
  <2>3. BarrierInv'
    BY <1>2, <2>2
       DEF local_irq_save, BarrierInv, Gathering, Dispersing, TypeOK, PCs, InSteadyMode
  <2> QED BY <2>1, <2>3
<1>3. ASSUME NEW c \in Cpus, CountIn(c)
      PROVE  TypeOK' /\ BarrierInv'
  <2>1. Cardinality(Counted') = Cardinality(Counted) + 1
    BY <1>3, CountInCounts
  <2>2. Counted' = Counted \cup {c} /\ c \notin Counted
    BY <1>3 DEF Counted, CountIn, TypeOK
  <2>3. pc[Cpu0] \notin {"leaving", "linux"} /\ Gathering
    BY <1>3 DEF CountIn, BarrierInv, Dispersing
  <2>4. Counted' \in SUBSET Cpus
    BY DEF Counted
  <2>5. call_done' = Cardinality(Counted') /\ call_done' \in 0..cpus
    BY <1>3, <2>1, <2>3, <2>4, CpuCounting DEF CountIn, Gathering
  <2>6. TypeOK'
    BY <1>3, <2>5 DEF CountIn, TypeOK, PCs
  <2>7. ~ InSteadyMode /\ \A d \in Cpus : pc[d] # "await_zero"
    BY <1>3, <2>2, <2>3 DEF Gathering, CountIn
  <2>8. BarrierInv'
    BY <1>3, <2>3, <2>5, <2>7
       DEF CountIn, BarrierInv, Gathering, TypeOK, PCs, InSteadyMode
  <2> QED BY <2>6, <2>8
<1>4. ASSUME NEW c \in Cpus, SeeAll(c)
      PROVE  TypeOK' /\ BarrierInv'
  <2>1. TypeOK'
    BY <1>4 DEF SeeAll, TypeOK, PCs
  <2>2. Counted' = Counted
    BY <1>4 DEF SeeAll, Counted, TypeOK
  <2>3. pc[Cpu0] \notin {"leaving", "linux"} /\ Gathering
    BY <1>4, CpuCounting DEF SeeAll, BarrierInv, Dispersing
  <2>4. Counted = Cpus
    BY <1>4, <2>3, CpuCounting DEF SeeAll, Gathering, Counted
  <2>5. BarrierInv'
    BY <1>4, <2>2, <2>3, <2>4
       DEF SeeAll, BarrierInv, Gathering, TypeOK, PCs
  <2> QED BY <2>1, <2>5
<1>5. ASSUME MainReturns
      PROVE  TypeOK' /\ BarrierInv'
  <2>1. TypeOK'
    BY <1>5 DEF MainReturns, TypeOK, PCs
  <2>2. Counted' = Counted
    BY <1>5 DEF MainReturns, Counted, TypeOK
  <2>3. Gathering /\ Counted = Cpus
    BY <1>5 DEF MainReturns, BarrierInv, Gathering, InSteadyMode
  <2>4. BarrierInv'
    BY <1>5, <2>2, <2>3
       DEF MainReturns, BarrierInv, Gathering, TypeOK, PCs
  <2> QED BY <2>1, <2>4
<1>6. ASSUME ClearCounter
      PROVE  TypeOK' /\ BarrierInv'
  <2>1. TypeOK'
    BY <1>6, CpuCounting DEF ClearCounter, TypeOK, PCs
  <2>2. Gathering /\ Counted = Cpus
    BY <1>6 DEF ClearCounter, BarrierInv, Gathering, InSteadyMode
  <2>3. \A d \in Cpus \ {Cpu0} : pc[d] \in {"await_all", "await_zero"}
    BY <2>2 DEF Gathering, Counted
  <2>4. BarrierInv'
    BY <1>6, <2>2, <2>3
       DEF ClearCounter, BarrierInv, Gathering, Dispersing, TypeOK, PCs
  <2> QED BY <2>1, <2>4
<1>7. ASSUME NEW c \in Cpus, SeeZero(c)
      PROVE  TypeOK' /\ BarrierInv'
  <2>1. TypeOK'
    BY <1>7 DEF SeeZero, TypeOK, PCs
  <2>2. c # Cpu0
    BY <1>7 DEF SeeZero, BarrierInv
  <2>3. pc[Cpu0] \in {"leaving", "linux"} /\ Dispersing
    <3>1. CASE pc[Cpu0] \in {"leaving", "linux"}
      BY <3>1 DEF BarrierInv
    <3>2. CASE pc[Cpu0] \notin {"leaving", "linux"}
      <4>1. Gathering /\ Counted = Cpus
        BY <1>7, <3>2 DEF SeeZero, BarrierInv, Gathering
      <4>2. call_done = cpus
        BY <4>1 DEF Gathering, cpus
      <4> QED BY <1>7, <4>2, CpuCounting DEF SeeZero
    <3> QED BY <3>1, <3>2
  <2>4. BarrierInv'
    BY <1>7, <2>2, <2>3
       DEF SeeZero, BarrierInv, Dispersing, TypeOK, PCs
  <2> QED BY <2>1, <2>4
<1>8. ASSUME NEW c \in Cpus, local_irq_restore(c)
      PROVE  TypeOK' /\ BarrierInv'
  <2>1. TypeOK'
    BY <1>8 DEF local_irq_restore, TypeOK, PCs
  <2>2. pc[Cpu0] \in {"leaving", "linux"} /\ Dispersing
    BY <1>8 DEF local_irq_restore, BarrierInv, Gathering
  <2>3. BarrierInv'
    BY <1>8, <2>2
       DEF local_irq_restore, BarrierInv, Dispersing, TypeOK, PCs
  <2> QED BY <2>1, <2>3
<1>9. ASSUME module_main_returns \/ cleanup_module \/ FreeModule
      PROVE  TypeOK' /\ BarrierInv'
  <2>1. UNCHANGED <<call_done, pc, irqs_off, caller>> /\ loader' \in Loaders
    BY <1>9 DEF module_main_returns, cleanup_module, FreeModule, Loaders
  <2>2. TypeOK'
    BY <2>1 DEF TypeOK
  <2>3. pc[Cpu0] \in {"leaving", "linux"}
    <3>1. CASE module_main_returns
      BY <3>1 DEF module_main_returns, BarrierInv, Gathering, TypeOK
    <3>2. CASE cleanup_module \/ FreeModule
      BY <3>2 DEF cleanup_module, FreeModule, BarrierInv, Gathering
    <3> QED BY <1>9, <3>1, <3>2
  <2>4. loader' = "unloaded" => \A c \in Cpus : pc'[c] = "linux"
    BY <1>9, <2>1 DEF module_main_returns, cleanup_module, FreeModule
  <2>5. BarrierInv'
    BY <2>1, <2>3, <2>4 DEF BarrierInv, Dispersing
  <2> QED BY <2>2, <2>5
<1>10. ASSUME UNCHANGED vars
       PROVE  TypeOK' /\ BarrierInv'
  BY <1>10 DEF vars, TypeOK, BarrierInv, Gathering, Dispersing, Counted, InSteadyMode
<1> QED
  BY <1>1, <1>2, <1>3, <1>4, <1>5, <1>6, <1>7, <1>8, <1>9, <1>10
     DEF Next, each_cpu_main

(* Whatever the number of CPUs, call_done counts the CPUs that wait until    *)
(* CPU 0 clears it, and the state stays well typed.                          *)
THEOREM BarrierCorrect == Spec => [](TypeOK /\ BarrierInv)
<1> QED BY InitBarrier, NextBarrier, PTL DEF Spec

(* The state of entry.c stays well typed; in particular call_done never      *)
(* exceeds the number of CPUs, however many CPUs there are.                  *)
THEOREM SteadyTypes == Spec => []TypeOK
<1>1. TypeOK /\ BarrierInv => TypeOK
  OBVIOUS
<1> QED BY <1>1, BarrierCorrect, PTL

(* Steady mode is exclusive: while CPU 0 runs jpenguin_main every CPU has    *)
(* its interrupts disabled and spins.                                        *)
THEOREM SteadyModeIsExclusive == Spec => []SteadyExclusive
<1>1. TypeOK /\ BarrierInv => SteadyExclusive
  BY CpusAssumption
     DEF TypeOK, BarrierInv, SteadyExclusive, InSteadyMode, Gathering, Counted
<1> QED BY <1>1, BarrierCorrect, PTL

(* init_module returns, and cleanup_module frees the judge kernel's memory,  *)
(* only after CPU 0 has left jpenguin_main.                                  *)
THEOREM NoUnmapUnderMain == Spec => []MainDoneBeforeLoaded
<1>1. TypeOK /\ BarrierInv => MainDoneBeforeLoaded
  BY CpusAssumption DEF TypeOK, BarrierInv, MainDoneBeforeLoaded, Gathering
<1> QED BY <1>1, BarrierCorrect, PTL

(* A CPU's interrupts are restored only after CPU 0 has cleared the counter. *)
THEOREM InterruptsComeBackLast == Spec => NoEarlyRestore
<1>1. TypeOK /\ BarrierInv /\ [Next]_vars =>
        [\A c \in Cpus : (c \in irqs_off /\ c \notin irqs_off') =>
             pc[Cpu0] \in {"leaving", "linux"}]_vars
  <2> SUFFICES ASSUME TypeOK, BarrierInv, Next,
                      NEW c \in Cpus, c \in irqs_off, c \notin irqs_off'
               PROVE  pc[Cpu0] \in {"leaving", "linux"}
    BY DEF vars
  <2>1. PICK d \in Cpus : local_irq_restore(d)
    BY DEF Next, each_cpu_main, module_main, local_irq_save, CountIn, SeeAll,
           MainReturns, ClearCounter, SeeZero, module_main_returns,
           cleanup_module, FreeModule
  <2> QED BY <2>1, CpusAssumption DEF local_irq_restore, BarrierInv, Gathering
<1> QED BY <1>1, BarrierCorrect, PTL DEF Spec, NoEarlyRestore

(* The counter protocol implements the abstract exclusive machine: every     *)
(* step of a CPU or of the loading thread is a step of ExclusiveMachine or   *)
(* leaves the machine's owner and the stopped CPUs alone.                    *)
THEOREM SteadyModeImplementsExclusive == Spec => ImplementsExclusive
<1> USE CpusAssumption
<1>1. InitSteady => Exclusive!Init
  BY DEF InitSteady, Exclusive!Init, owner, InSteadyMode
<1>2. TypeOK /\ BarrierInv /\ [Next]_vars => [Exclusive!Next]_<<owner, irqs_off>>
  <2> SUFFICES ASSUME TypeOK, BarrierInv, [Next]_vars
               PROVE  Exclusive!Next \/ UNCHANGED <<owner, irqs_off>>
    OBVIOUS
  <2>1. ASSUME NEW c \in Cpus, module_main(c)
        PROVE  UNCHANGED <<owner, irqs_off>>
    <3>1. owner = "linux" /\ owner' = "linux" /\ irqs_off' = irqs_off
      BY <2>1 DEF module_main, owner, InSteadyMode, BarrierInv, TypeOK
    <3> QED BY <3>1
  <2>2. ASSUME NEW c \in Cpus, local_irq_save(c)
        PROVE  Exclusive!Stop(c)
    <3>1. c \notin irqs_off /\ irqs_off' = irqs_off \cup {c}
      BY <2>2 DEF local_irq_save, BarrierInv
    <3>2. pc[Cpu0] \notin {"leaving", "linux"} /\ Gathering
      BY <2>2 DEF local_irq_save, BarrierInv, Dispersing
    <3>3. ~ InSteadyMode
      BY <2>2, <3>2 DEF local_irq_save, Gathering, Counted
    <3>4. owner = "linux"
      BY <3>2, <3>3 DEF owner
    <3>5. pc'[Cpu0] \in {"irqs_saved", pc[Cpu0]}
      BY <2>2 DEF local_irq_save, TypeOK
    <3>6. owner' = "linux"
      BY <3>2, <3>3, <3>5 DEF owner, InSteadyMode
    <3> QED BY <3>1, <3>4, <3>6 DEF Exclusive!Stop
  <2>3. ASSUME NEW c \in Cpus, CountIn(c)
        PROVE  UNCHANGED <<owner, irqs_off>>
    BY <2>3 DEF CountIn, owner, InSteadyMode, TypeOK
  <2>4. ASSUME NEW c \in Cpus, SeeAll(c)
        PROVE  Exclusive!TakeMachine \/ UNCHANGED <<owner, irqs_off>>
    <3>1. CASE c = Cpu0
      <4>1. pc[Cpu0] = "await_all" /\ Gathering /\ Counted = Cpus
        BY <2>4, <3>1, CpuCounting DEF SeeAll, BarrierInv, Gathering, Counted
      <4>2. irqs_off = Cpus
        BY <4>1 DEF BarrierInv, Counted
      <4>3. owner = "linux" /\ owner' = "judge" /\ irqs_off' = irqs_off
        BY <2>4, <3>1 DEF SeeAll, owner, InSteadyMode, TypeOK
      <4> QED BY <4>2, <4>3 DEF Exclusive!TakeMachine
    <3>2. CASE c # Cpu0
      BY <2>4, <3>2 DEF SeeAll, owner, InSteadyMode, TypeOK
    <3> QED BY <3>1, <3>2
  <2>5. ASSUME MainReturns
        PROVE  UNCHANGED <<owner, irqs_off>>
    BY <2>5 DEF MainReturns, owner, InSteadyMode, TypeOK
  <2>6. ASSUME ClearCounter
        PROVE  Exclusive!GiveBack
    BY <2>6 DEF ClearCounter, owner, InSteadyMode, TypeOK, Exclusive!GiveBack
  <2>7. ASSUME NEW c \in Cpus, SeeZero(c)
        PROVE  UNCHANGED <<owner, irqs_off>>
    BY <2>7 DEF SeeZero, owner, InSteadyMode, TypeOK, BarrierInv
  <2>8. ASSUME NEW c \in Cpus, local_irq_restore(c)
        PROVE  Exclusive!Release(c)
    <3>1. pc[Cpu0] \in {"leaving", "linux"} /\ pc'[Cpu0] \in {"linux", pc[Cpu0]}
      BY <2>8 DEF local_irq_restore, BarrierInv, Gathering, TypeOK
    <3>2. loader # "unloaded" /\ loader' = loader
      BY <2>8 DEF local_irq_restore, BarrierInv
    <3>3. c \in irqs_off /\ irqs_off' = irqs_off \ {c}
      BY <2>8 DEF local_irq_restore, BarrierInv
    <3>4. owner = "released" /\ owner' = "released"
      BY <3>1, <3>2 DEF owner, InSteadyMode
    <3> QED BY <3>3, <3>4 DEF Exclusive!Release
  <2>9. ASSUME module_main_returns \/ cleanup_module
        PROVE  UNCHANGED <<owner, irqs_off>>
    BY <2>9 DEF module_main_returns, cleanup_module, owner, InSteadyMode
  <2>10. ASSUME FreeModule
         PROVE  Exclusive!NextRound
    <3>1. irqs_off = {} /\ irqs_off' = {}
      BY <2>10 DEF FreeModule, BarrierInv
    <3>2. owner = "released" /\ owner' = "linux"
      BY <2>10 DEF FreeModule, owner, InSteadyMode
    <3> QED BY <3>1, <3>2 DEF Exclusive!NextRound
  <2>11. ASSUME UNCHANGED vars
         PROVE  UNCHANGED <<owner, irqs_off>>
    BY <2>11 DEF vars, owner, InSteadyMode
  <2> QED
    BY <2>1, <2>2, <2>3, <2>4, <2>5, <2>6, <2>7, <2>8, <2>9, <2>10, <2>11
       DEF Next, each_cpu_main, Exclusive!Next
<1> QED
  BY <1>1, <1>2, BarrierCorrect, PTL DEF Spec, ImplementsExclusive, Exclusive!Spec
=============================================================================
