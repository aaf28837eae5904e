--------------------------- MODULE MCUserProgram ----------------------------
(***************************************************************************)
(* Three bytes of input, three of output and one of error output, buffers    *)
(* of up to two bytes: every limit is met in the middle of a buffer and    *)
(* between two buffers of a vector.  The pool has room for two pages; of   *)
(* the sizes that mmap is asked for, 44 leaves the pool, two of them wrap  *)
(* the pointer in 6 bits, and 63 is rounded to 0.                          *)
(***************************************************************************)
EXTENDS UserProgram

StdinValue == <<1, 2, 3>>
=============================================================================
