------------------------------ MODULE MCSwitch ------------------------------
(***************************************************************************)
(* Linux's task register at its usual index, at the last one that its      *)
(* table allows, and outside; controllers that Linux uses or has masked;   *)
(* processors that know the ratio and the crystal, the ratio only, or      *)
(* neither, and two that answer with another leaf: one to 12.8 MHz, one to *)
(* a division by 0.  With 10 Hz to the MHz the numbers stay small.  One of *)
(* the two kernels is too long for its break.                              *)
(***************************************************************************)
EXTENDS Switch

PicStatesValue ==
    {[i \in 1..2 |-> [want |-> 0, offset |-> 48, cascade |-> 4, mask |-> 0]],
     [i \in 1..2 |-> [want |-> 0, offset |-> 48, cascade |-> 4, mask |-> 255]]}

Leaf15Value == {[eax |-> 0, ebx |-> 0, ecx |-> 0], [eax |-> 2, ebx |-> 216, ecx |-> 0],
                [eax |-> 2, ebx |-> 250, ecx |-> 250], [eax |-> 7, ebx |-> 30, ecx |-> 30],
                [eax |-> 0, ebx |-> 30, ecx |-> 30]}

PointersValue == <<0, 5, 9>>
=============================================================================
