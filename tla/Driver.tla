------------------------------- MODULE Driver -------------------------------
(***************************************************************************)
(* Loading and removing the JudgePenguin kernel module, and its character  *)
(* device: init_module and cleanup_module (driver/entry.c), init_device,   *)
(* exit_device and jpenguin_ioctl (driver/device.c), init_memory and       *)
(* free_memory (driver/memory.c), load_firmware (driver/firmware.c) and    *)
(* jpenguin_main (driver/main.c).                                          *)
(*                                                                         *)
(* The device is registered before the memory is set up, so clients run    *)
(* JP_IOCTL_TEST, which is load_firmware, concurrently with the loading    *)
(* thread.  Any call of Linux that can fail may fail.  The judge kernel    *)
(* image is two halves, to let copies of it interleave.  While             *)
(* jpenguin_main runs nobody else does (SteadyExclusive in SteadyMode).    *)
(***************************************************************************)
EXTENDS Naturals, FiniteSets

CONSTANTS Clients,  \* processes that open the device
          Loader    \* the process that runs insmod and rmmod

ASSUME ThreadsAssumption == Loader \notin Clients

VARIABLES mod,       \* what the loading thread does with the module
          root_dev,  \* the root device "JudgePenguin" is registered
          misc_dev,  \* the misc device is registered
          region,    \* Linux has the memory region marked busy
          vm_area,   \* the virtual area: "none", "reserved" or "mapped"
          mem_res,   \* the driver's pointer to the region is not NULL
          mem_virt,  \* the driver's address of the area is not 0
          lf,        \* where each thread is in load_firmware
          image,     \* what each half of the image holds
          opened,    \* the clients that have the device open
          failed     \* history: some load has failed since boot

vars == <<mod, root_dev, misc_dev, region, vm_area, mem_res, mem_virt, lf,
          image, opened, failed>>
devices == <<root_dev, misc_dev>>
memory == <<region, vm_area, mem_res, mem_virt>>
users == <<lf, image, opened>>

Threads == Clients \cup {Loader}
Halves == {1, 2}

Init ==
    /\ mod = "absent"
    /\ root_dev = FALSE /\ misc_dev = FALSE
    /\ region = FALSE /\ vm_area = "none"
    /\ mem_res = FALSE /\ mem_virt = FALSE
    /\ lf = [t \in Threads |-> "out"]
    /\ image = [h \in Halves |-> "garbage"]
    /\ opened = {}
    /\ failed = FALSE

(* init_module returns an error: Linux frees the module, with its code and   *)
(* its static variables, and calls nothing else.  A client that has the      *)
(* device open is left with freed code and is not followed any further.      *)
ReturnError ==
    /\ mod' = "absent"
    /\ failed' = TRUE
    /\ lf' = [t \in Threads |-> IF t \in opened THEN "dead" ELSE
                                IF t = Loader THEN "out" ELSE lf[t]]
    /\ opened' = {}

Succeed(step) ==
    /\ mod' = step
    /\ UNCHANGED <<failed, lf, opened>>

insmod ==
    /\ mod = "absent"
    /\ mod' = "root_device_register"
    /\ mem_res' = FALSE /\ mem_virt' = FALSE
    /\ UNCHANGED <<devices, region, vm_area, users, failed>>
-----------------------------------------------------------------------------
(* init_device.  A name can be registered only once.                         *)
RootDeviceRegister ==
    /\ mod = "root_device_register"
    /\ \/ /\ ~ root_dev
          /\ root_dev' = TRUE
          /\ Succeed("misc_register")
       \/ ReturnError /\ UNCHANGED root_dev
    /\ UNCHANGED <<misc_dev, memory, image>>

MiscRegister ==
    /\ mod = "misc_register"
    /\ \/ /\ misc_dev' = TRUE
          /\ UNCHANGED root_dev
          /\ Succeed("request_mem_region")
       \/ ReturnError /\ root_dev' = FALSE /\ UNCHANGED misc_dev
    /\ UNCHANGED <<memory, image>>

(* init_memory; the page table is built in the mapped area.                  *)
RequestMemRegion ==
    /\ mod = "request_mem_region"
    /\ \/ /\ ~ region
          /\ region' = TRUE
          /\ mem_res' = TRUE
          /\ Succeed("get_vm_area")
       \/ ReturnError /\ UNCHANGED <<region, mem_res>>
    /\ UNCHANGED <<devices, vm_area, mem_virt, image>>

GetVmArea ==
    /\ mod = "get_vm_area"
    /\ \/ /\ vm_area' = "reserved"
          /\ mem_virt' = TRUE
          /\ Succeed("ioremap_page_range")
       \/ ReturnError /\ UNCHANGED <<vm_area, mem_virt>>
    /\ UNCHANGED <<devices, region, mem_res, image>>

(* Mutant: an image that is already in memory is not loaded again.           *)
IoremapAndSkipFirmware ==
    /\ mod = "ioremap_page_range"
    /\ vm_area' = "mapped"
    /\ mod' = IF image[1] = "garbage" THEN "load_firmware" ELSE "module_main"
    /\ lf' = [lf EXCEPT ![Loader] = IF image[1] = "garbage" THEN "request_firmware" ELSE "out"]
    /\ UNCHANGED <<devices, region, mem_res, mem_virt, image, failed, opened>>

IoremapPageRange ==
    /\ mod = "ioremap_page_range"
    /\ \/ /\ vm_area' = "mapped"
          /\ mod' = "load_firmware"
          /\ lf' = [lf EXCEPT ![Loader] = "request_firmware"]
          /\ UNCHANGED <<failed, opened>>
       \/ ReturnError /\ vm_area' = "none"
    /\ UNCHANGED <<devices, region, mem_res, mem_virt, image>>
-----------------------------------------------------------------------------
(* load_firmware, called by init_module and by jpenguin_ioctl, which ignores *)
(* its result.                                                               *)
Running == mod \notin {"absent", "in_main"}

RequestAndCheckFails(t) ==
    /\ Running
    /\ lf[t] = "request_firmware"
    /\ IF t = Loader THEN ReturnError
       ELSE lf' = [lf EXCEPT ![t] = "out"] /\ UNCHANGED <<mod, failed, opened>>
    /\ UNCHANGED <<devices, memory, image>>

RequestAndCheck(t) ==
    /\ Running
    /\ lf[t] = "request_firmware"
    /\ lf' = [lf EXCEPT ![t] = "copy_first"]
    /\ UNCHANGED <<mod, failed, devices, memory, image, opened>>

CopyFirst(t) ==
    /\ Running
    /\ lf[t] = "copy_first" /\ vm_area = "mapped"
    /\ lf' = [lf EXCEPT ![t] = "copy_second"]
    /\ image' = [image EXCEPT ![1] = "fresh"]
    /\ UNCHANGED <<mod, failed, devices, memory, opened>>

(* The rest of the copy, the mapping of the pages and the return.            *)
CopySecond(t) ==
    /\ Running
    /\ lf[t] = "copy_second"
    /\ lf' = [lf EXCEPT ![t] = "out"]
    /\ image' = [image EXCEPT ![2] = "fresh"]
    /\ IF t = Loader THEN mod' = "module_main" ELSE UNCHANGED mod
    /\ UNCHANGED <<failed, devices, memory, opened>>

(* kernel_base_linux is still 0: the client is killed by the page fault and  *)
(* its file is closed.                                                       *)
CopyFaults(c) ==
    /\ Running
    /\ lf[c] = "copy_first" /\ vm_area # "mapped"
    /\ lf' = [lf EXCEPT ![c] = "dead"]
    /\ opened' = opened \ {c}
    /\ UNCHANGED <<mod, failed, devices, memory, image>>
-----------------------------------------------------------------------------
(* Steady mode: jpenguin_main calls the judge kernel, which relocates its    *)
(* own pointers in place (fake_dynlink in kernel/wrapper/switch.cpp).        *)
EnterMain ==
    /\ mod = "module_main"
    /\ mod' = "in_main"
    /\ UNCHANGED <<devices, memory, users, failed>>

jpenguin_main ==
    /\ mod = "in_main"
    /\ image' = [h \in Halves |-> "relocated"]
    /\ mod' = "live"
    /\ UNCHANGED <<devices, memory, lf, opened, failed>>

(* Mutant: the file operations name no owner, so an open file holds nothing. *)
rmmod_unowned ==
    /\ mod = "live"
    /\ mod' = "free_memory"
    /\ UNCHANGED <<devices, memory, users, failed>>

(* rmmod: Linux refuses while the device is open, and from here on no open   *)
(* succeeds (the file operations name THIS_MODULE as their owner).           *)
rmmod ==
    /\ mod = "live"
    /\ opened = {}
    /\ mod' = "free_memory"
    /\ UNCHANGED <<devices, memory, users, failed>>

(* Mutant: release_mem_region is missing.                                    *)
free_memory_partly ==
    /\ mod = "free_memory"
    /\ vm_area' = IF mem_virt THEN "none" ELSE vm_area
    /\ mem_res' = FALSE /\ mem_virt' = FALSE
    /\ mod' = "exit_device"
    /\ UNCHANGED <<devices, region, users, failed>>

(* Mutant: the area is unmapped but not given back.                          *)
free_memory_unmaps_only ==
    /\ mod = "free_memory"
    /\ region' = (region /\ ~ mem_res)
    /\ vm_area' = "unmapped"
    /\ mem_res' = FALSE /\ mem_virt' = FALSE
    /\ mod' = "exit_device"
    /\ UNCHANGED <<devices, users, failed>>

free_memory ==
    /\ mod = "free_memory"
    /\ region' = (region /\ ~ mem_res)
    /\ vm_area' = IF mem_virt THEN "none" ELSE vm_area
    /\ mem_res' = FALSE /\ mem_virt' = FALSE
    /\ mod' = "exit_device"
    /\ UNCHANGED <<devices, users, failed>>

exit_device ==
    /\ mod = "exit_device"
    /\ misc_dev' = FALSE /\ root_dev' = FALSE
    /\ mod' = "absent"
    /\ UNCHANGED <<memory, users, failed>>
-----------------------------------------------------------------------------
(* The device can be opened from misc_register until the module begins to    *)
(* go away.  A client opens it, asks for tests and closes it; the other      *)
(* ioctl commands only return constants.                                     *)
Open(c) ==
    /\ mod \in {"request_mem_region", "get_vm_area", "ioremap_page_range",
               "load_firmware", "module_main", "live"}
    /\ lf[c] = "out"
    /\ opened' = opened \cup {c}
    /\ UNCHANGED <<mod, devices, memory, lf, image, failed>>

jpenguin_ioctl(c) ==
    /\ Running
    /\ c \in opened /\ lf[c] = "out"
    /\ lf' = [lf EXCEPT ![c] = "request_firmware"]
    /\ UNCHANGED <<mod, devices, memory, image, opened, failed>>

Close(c) ==
    /\ Running
    /\ c \in opened /\ lf[c] = "out"
    /\ opened' = opened \ {c}
    /\ UNCHANGED <<mod, devices, memory, lf, image, failed>>

load_firmware(t) ==
    \/ RequestAndCheckFails(t) \/ RequestAndCheck(t)
    \/ CopyFirst(t) \/ CopySecond(t)

init_module ==
    \/ RootDeviceRegister \/ MiscRegister
    \/ RequestMemRegion \/ GetVmArea \/ IoremapPageRange
    \/ EnterMain \/ jpenguin_main

cleanup_module == free_memory \/ exit_device

Next ==
    \/ insmod \/ rmmod
    \/ init_module
    \/ cleanup_module
    \/ \E t \in Threads : load_firmware(t)
    \/ \E c \in Clients : Open(c) \/ jpenguin_ioctl(c) \/ Close(c) \/ CopyFaults(c)

Spec == Init /\ [][Next]_vars
-----------------------------------------------------------------------------
TypeOK ==
    /\ mod \in {"absent", "root_device_register", "misc_register",
                "request_mem_region", "get_vm_area", "ioremap_page_range",
                "load_firmware", "module_main", "in_main", "live",
                "free_memory", "exit_device"}
    /\ {root_dev, misc_dev, region, mem_res, mem_virt, failed} \subseteq BOOLEAN
    /\ vm_area \in {"none", "reserved", "mapped"}
    /\ lf \in [Threads -> {"out", "request_firmware", "copy_first",
                           "copy_second", "dead"}]
    /\ image \in [Halves -> {"garbage", "fresh", "relocated"}]
    /\ opened \subseteq Clients

(* The judge kernel relocates its image in place, so it may run only on an   *)
(* image no part of which was relocated by an earlier load, whatever clients *)
(* copy over it meanwhile.                                                   *)
MainRunsFreshImage == mod = "in_main" => \A h \in Halves : image[h] = "fresh"

(* cleanup_module unmaps the memory while no ioctl writes to it, and an      *)
(* ioctl on a loaded module always finds it mapped.                          *)
MappedUnderIoctl ==
    \A c \in Clients :
        (lf[c] \in {"copy_first", "copy_second"} /\ mod \in {"live", "free_memory", "exit_device"})
            => vm_area = "mapped"

(* Removing a module gives back everything it took, if no load has failed.   *)
NothingHeld == ~ root_dev /\ ~ misc_dev /\ ~ region /\ vm_area = "none"
UnloadReleasesAll == (mod = "absent" /\ ~ failed) => NothingHeld

(* "A non 0 return means init_module failed; module can't be loaded."        *)
(* (entry.c line 74): after such a failure nothing of the module may stay    *)
(* registered or mapped.                                                     *)
FailedLoadLeavesNothing == mod = "absent" => NothingHeld
=============================================================================
