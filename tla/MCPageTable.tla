---------------------------- MODULE MCPageTable -----------------------------
(***************************************************************************)
(* Two clients.  An image takes the two pages below the stack, or, with    *)
(* the offset, reaches into the stack's page, or is too large.  Image and  *)
(* stack lie in two tables of the last level, so that a call needs four    *)
(* blocks.  Two gigabytes, the second not full, make every loop of         *)
(* init_page_table_4k stop early once.                                     *)
(***************************************************************************)
EXTENDS PageTable, TLC

ClientSymmetry == Permutations(Clients)
=============================================================================
