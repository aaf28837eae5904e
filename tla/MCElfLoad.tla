----------------------------- MODULE MCElfLoad ------------------------------
(***************************************************************************)
(* Words below 40, pages of 2 bytes, 20 bytes for programs and buffers.    *)
(* The values of each field are the ordinary ones, the first and the last  *)
(* that the check accepts, and ones whose sum wraps.                       *)
(***************************************************************************)
EXTENDS ElfLoad

Seg(pt_load, off, vaddr, filesz, memsz, align) ==
    [p_load |-> pt_load, p_offset |-> off, p_vaddr |-> vaddr,
     p_filesz |-> filesz, p_memsz |-> memsz, p_align |-> align]

\* The first segment of a program: any combination.
First == {Seg(TRUE, off, vaddr, filesz, memsz, PageSize) :
              off \in {0, 7, 8, 9}, vaddr \in {3, 4, 5, 36},
              filesz \in {0, 1, 2, 34, 39}, memsz \in {0, 2, 3, 16, 34, 39}}

\* The second: overlapping the first, after it, wrapping, or not loaded.
Second == {Seg(TRUE, 2, 5, 3, 3, PageSize), Seg(TRUE, 6, 7, 2, 4, HugePageSize),
           Seg(TRUE, 2, 4, 0, 2, 1), Seg(TRUE, 5, 6, 35, 35, PageSize),
           Seg(TRUE, 0, 38, 1, 1, PageSize), Seg(FALSE, 30, 39, 39, 1, 1)}

File(phdrs) == [len |-> 8, ident |-> TRUE, e_phoff |-> 2, e_phentsize |-> 3, phdrs |-> phdrs]
Plain == Seg(TRUE, 0, 4, 2, 2, PageSize)

FilesValue ==
    {File(<<s>>) : s \in First}
    \cup {File(<<Plain, s>>) : s \in Second} \cup {File(<<s, Plain>>) : s \in Second}
    \cup {File(<<>>), File(<<Plain, Plain, Plain>>),
          [File(<<Plain>>) EXCEPT !.ident = FALSE], [File(<<Plain>>) EXCEPT !.len = 1],
          [File(<<Plain>>) EXCEPT !.e_phoff = 8], [File(<<Plain>>) EXCEPT !.e_phentsize = 8]}

Config(limit, in, out, err, ib, ob, clear) ==
    [memory_hard_limit |-> limit, stdin_size |-> in, stdout_max_size |-> out,
     stderr_max_size |-> err, IB_size |-> ib, OB_size |-> ob, OB_need_clear |-> clear]

ConfigsValue ==
    {Config(limit, 1, 1, 1, 0, 2, clear) :
        limit \in {1, 3, 4, 5, 8, 10, 36, 39}, clear \in BOOLEAN}
    \cup {Config(4, 3, 0, 0, 1, 1, FALSE), Config(4, 39, 1, 0, 0, 0, FALSE),
          Config(4, 0, 36, 0, 0, 0, FALSE), Config(4, 2, 0, 31, 0, 0, TRUE),
          Config(4, 0, 0, 0, 30, 0, FALSE), Config(4, 0, 0, 0, 0, 28, FALSE),
          Config(4, 0, 5, 2, 0, 0, TRUE)}
=============================================================================
