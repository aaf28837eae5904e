---------------------------- MODULE DriverProofs ----------------------------
(***************************************************************************)
(* Proofs, for any number of clients, that the module runs its kernel on a *)
(* fresh image, unmaps nothing under an ioctl and gives back what it took. *)
(***************************************************************************)
EXTENDS Driver, TLAPS

----------------------------------------------------------------------------
(* The inductive invariant, in parts.                                       *)

\* A client in load_firmware has the device open, and an open device keeps
\* rmmod out: nobody is in an ioctl when the memory is freed.
ClientsInv ==
    /\ \A c \in Clients : lf[c] \notin {"out", "dead"} => c \in opened
    /\ opened # {} => mod \in {"request_mem_region", "get_vm_area", "ioremap_page_range",
                               "load_firmware", "module_main", "in_main", "live"}

\* The loading thread is in load_firmware exactly while init_module waits for it.
LoaderInv ==
    /\ lf[Loader] # "dead"
    /\ lf[Loader] # "out" <=> mod = "load_firmware"

\* From the mapping to free_memory the area is mapped.
MappedInv ==
    mod \in {"load_firmware", "module_main", "in_main", "live", "free_memory"} => vm_area = "mapped"

\* The loading thread's own copy covers both halves; a client can only copy the
\* same image again.
ImageInv ==
    /\ lf[Loader] = "copy_second" => image[1] = "fresh"
    /\ mod \in {"module_main", "in_main"} => \A h \in Halves : image[h] = "fresh"

\* Without a failure the driver's two pointers know of everything that is
\* held, and nothing is held before its turn.
HeldInv ==
    ~ failed =>
        /\ region => mem_res
        /\ vm_area # "none" => mem_virt
        /\ mod \in {"absent", "root_device_register"} => NothingHeld
        /\ mod = "misc_register" => ~ misc_dev
        /\ mod \in {"misc_register", "request_mem_region", "exit_device"} => ~ region
        /\ mod \in {"misc_register", "request_mem_region", "get_vm_area", "exit_device"}
              => vm_area = "none"
        /\ mod = "ioremap_page_range" => mem_virt

DriverInv ==
    /\ TypeOK
    /\ ClientsInv /\ LoaderInv /\ MappedInv /\ ImageInv /\ HeldInv
-----------------------------------------------------------------------------
(* Before the first insmod nothing is held and nobody runs.                  *)
LEMMA InitDriver == Init => DriverInv
<1> SUFFICES ASSUME Init PROVE DriverInv
  OBVIOUS
<1>1. TypeOK
  BY DEF Init, TypeOK
<1>2. ClientsInv /\ LoaderInv /\ MappedInv /\ ImageInv
  BY DEF Init, ClientsInv, LoaderInv, MappedInv, ImageInv, Threads
<1>3. HeldInv
  BY DEF Init, HeldInv, NothingHeld
<1> QED
  BY <1>1, <1>2, <1>3 DEF DriverInv

-----------------------------------------------------------------------------
(* One step of each thread.                                                  *)

(* The driver's data starts afresh, which is right because nothing is held. *)
LEMMA InsmodKeeps ==
    ASSUME DriverInv, insmod
    PROVE  DriverInv'
<1> USE ThreadsAssumption DEF DriverInv, Threads, Halves
<1>1. TypeOK'
  BY DEF insmod, devices, memory, users, TypeOK
<1>2. ClientsInv'
  BY DEF insmod, devices, memory, users, TypeOK, ClientsInv
<1>3. LoaderInv'
  BY DEF insmod, devices, memory, users, TypeOK, LoaderInv
<1>4. MappedInv'
  BY DEF insmod, devices, memory, users, TypeOK, LoaderInv, MappedInv
<1>5. ImageInv'
  BY DEF insmod, devices, memory, users, TypeOK, LoaderInv, ImageInv
<1>6. HeldInv'
  BY DEF insmod, devices, memory, users, TypeOK, HeldInv, NothingHeld
<1> QED
  BY <1>1, <1>2, <1>3, <1>4, <1>5, <1>6

(* The first registration: nobody has the device open yet. *)
LEMMA RootDeviceKeeps ==
    ASSUME DriverInv, RootDeviceRegister
    PROVE  DriverInv'
<1> USE ThreadsAssumption DEF DriverInv, Threads, Halves
<1>1. TypeOK'
  BY DEF RootDeviceRegister, ReturnError, Succeed, devices, memory, users, TypeOK
<1>2. ClientsInv'
  BY DEF RootDeviceRegister, ReturnError, Succeed, devices, memory, users, TypeOK, ClientsInv
<1>3. LoaderInv'
  BY DEF RootDeviceRegister, ReturnError, Succeed, devices, memory, users, TypeOK, LoaderInv
<1>4. MappedInv'
  BY DEF RootDeviceRegister, ReturnError, Succeed, devices, memory, users, TypeOK, LoaderInv,
       MappedInv
<1>5. ImageInv'
  BY DEF RootDeviceRegister, ReturnError, Succeed, devices, memory, users, TypeOK, LoaderInv,
       ImageInv
<1>6. HeldInv'
  BY DEF RootDeviceRegister, ReturnError, Succeed, devices, memory, users, TypeOK, HeldInv,
       NothingHeld
<1> QED
  BY <1>1, <1>2, <1>3, <1>4, <1>5, <1>6

(* The second registration, which takes the first back if it fails. *)
LEMMA MiscKeeps ==
    ASSUME DriverInv, MiscRegister
    PROVE  DriverInv'
<1> USE ThreadsAssumption DEF DriverInv, Threads, Halves
<1>1. TypeOK'
  BY DEF MiscRegister, ReturnError, Succeed, devices, memory, users, TypeOK
<1>2. ClientsInv'
  BY DEF MiscRegister, ReturnError, Succeed, devices, memory, users, TypeOK, ClientsInv
<1>3. LoaderInv'
  BY DEF MiscRegister, ReturnError, Succeed, devices, memory, users, TypeOK, LoaderInv
<1>4. MappedInv'
  BY DEF MiscRegister, ReturnError, Succeed, devices, memory, users, TypeOK, LoaderInv,
       MappedInv
<1>5. ImageInv'
  BY DEF MiscRegister, ReturnError, Succeed, devices, memory, users, TypeOK, LoaderInv, ImageInv
<1>6. HeldInv'
  BY DEF MiscRegister, ReturnError, Succeed, devices, memory, users, TypeOK, HeldInv,
       NothingHeld
<1> QED
  BY <1>1, <1>2, <1>3, <1>4, <1>5, <1>6

(* From here on clients run; an error leaves them with freed code. *)
LEMMA RegionKeeps ==
    ASSUME DriverInv, RequestMemRegion
    PROVE  DriverInv'
<1> USE ThreadsAssumption DEF DriverInv, Threads, Halves
<1>1. TypeOK'
  BY DEF RequestMemRegion, ReturnError, Succeed, devices, memory, users, TypeOK
<1>2. ClientsInv'
  BY DEF RequestMemRegion, ReturnError, Succeed, devices, memory, users, TypeOK, ClientsInv
<1>3. LoaderInv'
  BY DEF RequestMemRegion, ReturnError, Succeed, devices, memory, users, TypeOK, LoaderInv
<1>4. MappedInv'
  BY DEF RequestMemRegion, ReturnError, Succeed, devices, memory, users, TypeOK, LoaderInv,
       MappedInv
<1>5. ImageInv'
  BY DEF RequestMemRegion, ReturnError, Succeed, devices, memory, users, TypeOK, LoaderInv,
       ImageInv
<1>6. HeldInv'
  BY DEF RequestMemRegion, ReturnError, Succeed, devices, memory, users, TypeOK, HeldInv,
       NothingHeld
<1> QED
  BY <1>1, <1>2, <1>3, <1>4, <1>5, <1>6

(* The area is reserved. *)
LEMMA AreaKeeps ==
    ASSUME DriverInv, GetVmArea
    PROVE  DriverInv'
<1> USE ThreadsAssumption DEF DriverInv, Threads, Halves
<1>1. TypeOK'
  BY DEF GetVmArea, ReturnError, Succeed, devices, memory, users, TypeOK
<1>2. ClientsInv'
  BY DEF GetVmArea, ReturnError, Succeed, devices, memory, users, TypeOK, ClientsInv
<1>3. LoaderInv'
  BY DEF GetVmArea, ReturnError, Succeed, devices, memory, users, TypeOK, LoaderInv
<1>4. MappedInv'
  BY DEF GetVmArea, ReturnError, Succeed, devices, memory, users, TypeOK, LoaderInv, MappedInv
<1>5. ImageInv'
  BY DEF GetVmArea, ReturnError, Succeed, devices, memory, users, TypeOK, LoaderInv, ImageInv
<1>6. HeldInv'
  BY DEF GetVmArea, ReturnError, Succeed, devices, memory, users, TypeOK, HeldInv, NothingHeld
<1> QED
  BY <1>1, <1>2, <1>3, <1>4, <1>5, <1>6

(* The area is mapped and the loading thread enters load_firmware. *)
LEMMA MappingKeeps ==
    ASSUME DriverInv, IoremapPageRange
    PROVE  DriverInv'
<1> USE ThreadsAssumption DEF DriverInv, Threads, Halves
<1>1. TypeOK'
  BY DEF IoremapPageRange, ReturnError, Succeed, devices, memory, users, TypeOK
<1>2. ClientsInv'
  BY DEF IoremapPageRange, ReturnError, Succeed, devices, memory, users, TypeOK, ClientsInv
<1>3. LoaderInv'
  BY DEF IoremapPageRange, ReturnError, Succeed, devices, memory, users, TypeOK, LoaderInv
<1>4. MappedInv'
  BY DEF IoremapPageRange, ReturnError, Succeed, devices, memory, users, TypeOK, LoaderInv,
       MappedInv
<1>5. ImageInv'
  BY DEF IoremapPageRange, ReturnError, Succeed, devices, memory, users, TypeOK, LoaderInv,
       ImageInv
<1>6. HeldInv'
  BY DEF IoremapPageRange, ReturnError, Succeed, devices, memory, users, TypeOK, HeldInv,
       NothingHeld
<1> QED
  BY <1>1, <1>2, <1>3, <1>4, <1>5, <1>6

(* The kernel runs on the image that the loading thread has copied. *)
LEMMA MainKeeps ==
    ASSUME DriverInv, EnterMain \/ jpenguin_main
    PROVE  DriverInv'
<1> USE ThreadsAssumption DEF DriverInv, Threads, Halves
<1>1. TypeOK'
  BY DEF EnterMain, jpenguin_main, devices, memory, users, TypeOK
<1>2. ClientsInv'
  BY DEF EnterMain, jpenguin_main, devices, memory, users, TypeOK, ClientsInv
<1>3. LoaderInv'
  BY DEF EnterMain, jpenguin_main, devices, memory, users, TypeOK, LoaderInv
<1>4. MappedInv'
  BY DEF EnterMain, jpenguin_main, devices, memory, users, TypeOK, LoaderInv, MappedInv
<1>5. ImageInv'
  BY DEF EnterMain, jpenguin_main, devices, memory, users, TypeOK, LoaderInv, ImageInv
<1>6. HeldInv'
  BY DEF EnterMain, jpenguin_main, devices, memory, users, TypeOK, HeldInv, NothingHeld
<1> QED
  BY <1>1, <1>2, <1>3, <1>4, <1>5, <1>6

(* Removal starts only when the device is closed, and gives back both pointers. *)
LEMMA RemoveKeeps ==
    ASSUME DriverInv, rmmod \/ free_memory \/ exit_device
    PROVE  DriverInv'
<1> USE ThreadsAssumption DEF DriverInv, Threads, Halves
<1>1. TypeOK'
  BY DEF rmmod, free_memory, exit_device, devices, memory, users, TypeOK
<1>2. ClientsInv'
  BY DEF rmmod, free_memory, exit_device, devices, memory, users, TypeOK, ClientsInv
<1>3. LoaderInv'
  BY DEF rmmod, free_memory, exit_device, devices, memory, users, TypeOK, LoaderInv
<1>4. MappedInv'
  BY DEF rmmod, free_memory, exit_device, devices, memory, users, TypeOK, LoaderInv, MappedInv
<1>5. ImageInv'
  BY DEF rmmod, free_memory, exit_device, devices, memory, users, TypeOK, LoaderInv, ImageInv
<1>6. HeldInv'
  BY DEF rmmod, free_memory, exit_device, devices, memory, users, TypeOK, HeldInv, NothingHeld
<1> QED
  BY <1>1, <1>2, <1>3, <1>4, <1>5, <1>6

(* The firmware is requested and checked by the loading thread or by a client. *)
LEMMA RequestKeeps ==
    ASSUME DriverInv, NEW t \in Threads, RequestAndCheckFails(t) \/ RequestAndCheck(t)
    PROVE  DriverInv'
<1> USE ThreadsAssumption DEF DriverInv, Threads, Halves
<1>1. TypeOK'
  BY DEF RequestAndCheckFails, RequestAndCheck, Running, ReturnError, devices, memory, users,
       TypeOK
<1>2. ClientsInv'
  BY DEF RequestAndCheckFails, RequestAndCheck, Running, ReturnError, devices, memory, users,
       TypeOK, ClientsInv
<1>3. LoaderInv'
  BY DEF RequestAndCheckFails, RequestAndCheck, Running, ReturnError, devices, memory, users,
       TypeOK, LoaderInv
<1>4. MappedInv'
  BY DEF RequestAndCheckFails, RequestAndCheck, Running, ReturnError, devices, memory, users,
       TypeOK, LoaderInv, MappedInv
<1>5. ImageInv'
  BY DEF RequestAndCheckFails, RequestAndCheck, Running, ReturnError, devices, memory, users,
       TypeOK, LoaderInv, ImageInv
<1>6. HeldInv'
  BY DEF RequestAndCheckFails, RequestAndCheck, Running, ReturnError, devices, memory, users,
       TypeOK, HeldInv, NothingHeld
<1> QED
  BY <1>1, <1>2, <1>3, <1>4, <1>5, <1>6

(* A copy writes nothing but fresh halves; the loading thread's second half follows its first. *)
LEMMA CopyKeeps ==
    ASSUME DriverInv, NEW t \in Threads, CopyFirst(t) \/ CopySecond(t)
    PROVE  DriverInv'
<1> USE ThreadsAssumption DEF DriverInv, Threads, Halves
<1>1. TypeOK'
  BY DEF CopyFirst, CopySecond, Running, devices, memory, users, TypeOK
<1>2. ClientsInv'
  BY DEF CopyFirst, CopySecond, Running, devices, memory, users, TypeOK, ClientsInv
<1>3. LoaderInv'
  BY DEF CopyFirst, CopySecond, Running, devices, memory, users, TypeOK, LoaderInv
<1>4. MappedInv'
  BY DEF CopyFirst, CopySecond, Running, devices, memory, users, TypeOK, LoaderInv, MappedInv
<1>5. ImageInv'
  BY DEF CopyFirst, CopySecond, Running, devices, memory, users, TypeOK, LoaderInv, ImageInv
<1>6. HeldInv'
  BY DEF CopyFirst, CopySecond, Running, devices, memory, users, TypeOK, HeldInv, NothingHeld
<1> QED
  BY <1>1, <1>2, <1>3, <1>4, <1>5, <1>6

(* A client opens the device, calls the ioctl, closes it or is killed. *)
LEMMA ClientKeeps ==
    ASSUME DriverInv, NEW c \in Clients, Open(c) \/ jpenguin_ioctl(c) \/ Close(c) \/ CopyFaults(c)
    PROVE  DriverInv'
<1> USE ThreadsAssumption DEF DriverInv, Threads, Halves
<1>1. TypeOK'
  BY DEF Open, jpenguin_ioctl, Close, CopyFaults, Running, devices, memory, users, TypeOK
<1>2. ClientsInv'
  BY DEF Open, jpenguin_ioctl, Close, CopyFaults, Running, devices, memory, users, TypeOK,
       ClientsInv
<1>3. LoaderInv'
  BY DEF Open, jpenguin_ioctl, Close, CopyFaults, Running, devices, memory, users, TypeOK,
       LoaderInv
<1>4. MappedInv'
  BY DEF Open, jpenguin_ioctl, Close, CopyFaults, Running, devices, memory, users, TypeOK,
       LoaderInv, MappedInv
<1>5. ImageInv'
  BY DEF Open, jpenguin_ioctl, Close, CopyFaults, Running, devices, memory, users, TypeOK,
       LoaderInv, ImageInv
<1>6. HeldInv'
  BY DEF Open, jpenguin_ioctl, Close, CopyFaults, Running, devices, memory, users, TypeOK,
       HeldInv, NothingHeld
<1> QED
  BY <1>1, <1>2, <1>3, <1>4, <1>5, <1>6

\* Every step of the driver preserves the invariant.
LEMMA NextDriver == DriverInv /\ [Next]_vars => DriverInv'
<1> SUFFICES ASSUME DriverInv, [Next]_vars PROVE DriverInv'
  OBVIOUS
<1>1. CASE insmod
  BY <1>1, InsmodKeeps
<1>2. CASE init_module
  BY <1>2, RootDeviceKeeps, MiscKeeps, RegionKeeps, AreaKeeps, MappingKeeps, MainKeeps
     DEF init_module
<1>3. CASE rmmod \/ cleanup_module
  BY <1>3, RemoveKeeps DEF cleanup_module
<1>4. CASE \E t \in Threads : load_firmware(t)
  BY <1>4, RequestKeeps, CopyKeeps DEF load_firmware
<1>5. CASE \E c \in Clients : Open(c) \/ jpenguin_ioctl(c) \/ Close(c) \/ CopyFaults(c)
  BY <1>5, ClientKeeps
<1>6. CASE UNCHANGED vars
  BY <1>6 DEF vars, DriverInv, TypeOK, ClientsInv, LoaderInv, MappedInv, ImageInv, HeldInv,
              NothingHeld
<1> QED
  BY <1>1, <1>2, <1>3, <1>4, <1>5, <1>6 DEF Next
-----------------------------------------------------------------------------
(* The invariant holds of init_module, cleanup_module and the ioctl for any  *)
(* set of clients and any failures of Linux.                                 *)
THEOREM DriverCorrect == Spec => []DriverInv
<1> QED
  BY InitDriver, NextDriver, PTL DEF Spec

(* The states of the module, of the device's users and of what Linux has     *)
(* registered for the driver are those of entry.c, device.c and memory.c.    *)
THEOREM DriverTypes == Spec => []TypeOK
<1>1. DriverInv => TypeOK
  BY DEF DriverInv
<1> QED
  BY <1>1, DriverCorrect, PTL

(* jpenguin_main starts the judge kernel only on an image no part of which   *)
(* an earlier run has relocated: init_module has copied both halves, and the *)
(* clients in jpenguin_ioctl can only copy them again.                       *)
THEOREM MainAlwaysFresh == Spec => []MainRunsFreshImage
<1>1. DriverInv => MainRunsFreshImage
  BY DEF DriverInv, ImageInv, MainRunsFreshImage
<1> QED
  BY <1>1, DriverCorrect, PTL

(* An ioctl that copies the image on a loaded module finds it mapped, and    *)
(* cleanup_module unmaps it when no ioctl runs: a client in load_firmware    *)
(* has the device open, which keeps rmmod out.                               *)
THEOREM NoUnmapUnderIoctl == Spec => []MappedUnderIoctl
<1>1. DriverInv => MappedUnderIoctl
  BY DEF DriverInv, ClientsInv, MappedInv, MappedUnderIoctl
<1> QED
  BY <1>1, DriverCorrect, PTL

(* As long as no init_module fails, cleanup_module gives back all devices,   *)
(* the region and the area.                                                  *)
THEOREM UnloadReleases == Spec => []UnloadReleasesAll
<1>1. DriverInv => UnloadReleasesAll
  BY DEF DriverInv, HeldInv, UnloadReleasesAll
<1> QED
  BY <1>1, DriverCorrect, PTL
=============================================================================
