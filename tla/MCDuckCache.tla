---------------------------- MODULE MCDuckCache -----------------------------
(***************************************************************************)
(* Three pages of two bytes and two descriptors.  Two of the digests share *)
(* their first word.  The lengths are: empty, one full page, a page and a  *)
(* half, all pages exactly, and one page too many.                         *)
(***************************************************************************)
EXTENDS DuckCache

DigestsValue == {<<0, 1>>, <<1, 0>>, <<1, 1>>}
LensValue == {0, 2, 3, 6, 7}
PayloadSymmetry == Permutations(Payloads)
=============================================================================
