-------------------------- MODULE ExclusiveMachine --------------------------
(***************************************************************************)
(* What the "steady mode" of driver/entry.c promises, with no counter and  *)
(* no spinning in sight: the judge kernel owns the machine only while      *)
(* every CPU is stopped with its interrupts disabled, and a CPU goes back  *)
(* to Linux only after the judge kernel has finished.                      *)
(***************************************************************************)
CONSTANT Cpus

VARIABLES owner,    \* who runs: Linux, the judge kernel, or Linux again
          stopped   \* the CPUs held with interrupts disabled

Init == owner = "linux" /\ stopped = {}

Stop(c) ==
    /\ owner = "linux"
    /\ c \notin stopped
    /\ stopped' = stopped \cup {c}
    /\ UNCHANGED owner

TakeMachine ==
    /\ owner = "linux"
    /\ stopped = Cpus
    /\ owner' = "judge"
    /\ UNCHANGED stopped

GiveBack ==
    /\ owner = "judge"
    /\ owner' = "released"
    /\ UNCHANGED stopped

Release(c) ==
    /\ owner = "released"
    /\ c \in stopped
    /\ stopped' = stopped \ {c}
    /\ UNCHANGED owner

NextRound ==
    /\ owner = "released"
    /\ stopped = {}
    /\ owner' = "linux"
    /\ UNCHANGED stopped

Next ==
    \/ \E c \in Cpus : Stop(c) \/ Release(c)
    \/ TakeMachine \/ GiveBack \/ NextRound

Spec == Init /\ [][Next]_<<owner, stopped>>
=============================================================================
