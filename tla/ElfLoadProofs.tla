--------------------------- MODULE ElfLoadProofs ----------------------------
(***************************************************************************)
(* Proofs, for words, pages, files and requests of any size, that the      *)
(* checks of ELF::load (kernel/duck/lib/elf.cpp) keep a program inside the *)
(* memory below the kernel's buffers and in one piece.                     *)
(***************************************************************************)
EXTENDS ElfLoad, WellFoundedInduction, TLAPS

----------------------------------------------------------------------------
(* Words *)

(* Arithmetic on 64-bit words: the result is a word, exact when it fits, off *)
(* by one Word when it wraps once.                                           *)
LEMMA WrapValue ==
    ASSUME NEW x \in Int
    PROVE  /\ Wrap(x) \in Words
           /\ x \in Words => Wrap(x) = x
           /\ x >= Word /\ x < Word + Word => Wrap(x) = x - Word
           /\ x < 0 /\ x >= 0 - Word => Wrap(x) = x + Word
<1>1. Word \in Nat /\ Word > 0
  BY SizesAssumption
<1>2. x % Word \in 0..(Word - 1)
  BY <1>1
<1>3. x \in Words => x % Word = x
  BY <1>1 DEF Words
<1>4. x >= Word /\ x < Word + Word => x % Word = x - Word
  BY <1>1
<1>5. x < 0 /\ x >= 0 - Word => x % Word = x + Word
  BY <1>1
<1> QED BY <1>2, <1>3, <1>4, <1>5 DEF Wrap, Words

(* round_up of inc/utils.hpp: it rounds up, unless the sum wraps, and then   *)
(* it is 0.                                                                  *)
LEMMA RoundUp ==
    ASSUME NEW x \in Words, NEW r \in 1..Word
    PROVE  /\ round_up(x, r) \in Words
           /\ round_up(x, r) >= x \/ round_up(x, r) = 0
           /\ x + r <= Word => round_up(x, r) >= x
<1> DEFINE s == x + r - 1
           w == Wrap(s)
<1>1. Word \in Nat /\ Word > 0 /\ x \in Nat /\ r \in Nat /\ r > 0 /\ s \in Nat
  BY SizesAssumption DEF Words
<1>2. w \in Nat /\ w < Word
  BY <1>1, WrapValue DEF Words
<1>3. (w \div r) * r \in Nat /\ (w \div r) * r <= w
  <2> HIDE DEF w
  <2> QED BY <1>1, <1>2
<1>4. CASE s < Word
  <2>1. w = s
    BY <1>1, <1>4, WrapValue DEF Words
  <2>2. (s \div r) * r >= x
    BY <1>1
  <2> HIDE DEF w, s
  <2> QED BY <1>1, <1>2, <1>3, <2>1, <2>2 DEF round_up, Words, s, w
<1>5. CASE s >= Word
  <2>1. w = s - Word
    BY <1>1, <1>5, WrapValue DEF Words
  <2>2. w \in Nat /\ w < r
    BY <1>1, <1>2, <2>1 DEF Words
  <2>3. w \div r = 0
    <3> HIDE DEF w
    <3> QED BY <1>1, <2>2
  <2>4. round_up(x, r) = 0
    <3> HIDE DEF w
    <3>1. (w \div r) * r = 0
      BY <1>1, <2>3
    <3> QED BY <3>1 DEF round_up, w
  <2> QED BY <1>1, <1>5, <2>4 DEF Words
<1> QED BY <1>1, <1>4, <1>5

(* round_down of inc/utils.hpp rounds down.                                  *)
LEMMA RoundDown ==
    ASSUME NEW x \in Words, NEW r \in 1..Word
    PROVE  round_down(x, r) \in Words /\ round_down(x, r) <= x
<1>1. x \in Nat /\ r \in Nat /\ r > 0 /\ Word \in Nat
  BY SizesAssumption DEF Words
<1>2. (x \div r) * r \in Nat /\ (x \div r) * r <= x
  BY <1>1
<1> QED BY <1>1, <1>2 DEF round_down, Words

(* The sizes the pages are rounded to are words themselves.                  *)
LEMMA PagesAreWords == PageSize \in 1..Word /\ HugePageSize \in 1..Word
BY SizesAssumption

(* The loop of load_elf64 that keeps the least address.                      *)
LEMMA LeastOfNats ==
    ASSUME NEW T, T \subseteq Nat, T # {}
    PROVE  Least(T) \in T /\ \A y \in T : Least(T) <= y
<1> DEFINE R == {ss \in Nat \X Nat : ss[1] < ss[2]}
<1>1. IsWellFoundedOn(R, Nat)
  BY NatLessThanWellFounded DEF OpToRel
<1>2. \E x \in T : \A y \in T : ~ (<<y, x>> \in R)
  <2> HIDE DEF R
  <2> QED BY <1>1, WFMin
<1>3. PICK x \in T : \A y \in T : ~ (<<y, x>> \in R)
  BY <1>2
<1>4. ASSUME NEW y \in T PROVE x <= y
  <2>1. <<y, x>> \in Nat \X Nat /\ <<y, x>>[1] = y /\ <<y, x>>[2] = x
    OBVIOUS
  <2>2. ~ (y < x)
    BY <1>3, <2>1
  <2> QED BY <2>2
<1> QED BY <1>4 DEF Least

(* The loop of load_elf64 that keeps the greatest end.                       *)
LEMMA GreatestOfBounded ==
    ASSUME NEW N \in Nat, NEW T, T \subseteq 0..N, T # {}
    PROVE  Greatest(T) \in T /\ \A y \in T : Greatest(T) >= y
<1> DEFINE U == {N - x : x \in T}
<1>1. U \subseteq Nat /\ U # {}
  <2>1. \A x \in T : N - x \in Nat
    OBVIOUS
  <2>2. PICK x \in T : TRUE
    OBVIOUS
  <2>3. N - x \in U
    OBVIOUS
  <2> QED BY <2>1, <2>3
<1>2. Least(U) \in U /\ \A y \in U : Least(U) <= y
  BY <1>1, LeastOfNats
<1>3. PICK x \in T : Least(U) = N - x
  BY <1>2
<1>4. \A y \in T : N - x <= N - y
  BY <1>2, <1>3
<1>5. \A y \in T : x >= y
  BY <1>4
<1> QED BY <1>5 DEF Greatest

(* The addresses of a copy that does not wrap.                               *)
LEMMA InSpan ==
    ASSUME NEW a \in Words, NEW start \in Words, NEW size \in Nat, start + size <= Word
    PROVE  /\ In(a, start, size) <=> (start <= a /\ a < start + size)
           /\ start <= a => Wrap(a - start) = a - start
<1>1. a \in Nat /\ start \in Nat /\ Word \in Nat /\ a < Word /\ start < Word
  BY SizesAssumption DEF Words
<1>2. CASE start <= a
  <2>1. Wrap(a - start) = a - start
    BY <1>1, <1>2, WrapValue DEF Words
  <2> QED BY <1>1, <1>2, <2>1 DEF In
<1>3. CASE a < start
  <2>1. Wrap(a - start) = a - start + Word
    BY <1>1, <1>3, WrapValue
  <2> QED BY <1>1, <1>3, <2>1 DEF In
<1> QED BY <1>1, <1>2, <1>3

----------------------------------------------------------------------------
(* The checks of load_elf64 *)

Breaks == KernelBreak..ReservedSize

(* What a segment of a file is.                                              *)
LEMMA SegmentType ==
    ASSUME NEW f \in Files, NEW i \in Loads(f)
    PROVE  /\ f.phdrs[i] \in Segments /\ i \in DOMAIN f.phdrs
           /\ f.len \in Nat /\ f.len + ReservedSize < Word
<1>1. f \in [len : 0..(Word - ReservedSize - 1), ident : BOOLEAN,
             e_phoff : Words, e_phentsize : Nat, phdrs : Seq(Segments)]
  BY FilesAssumption
<1>2. f.phdrs \in Seq(Segments) /\ f.len \in 0..(Word - ReservedSize - 1)
  BY <1>1
<1>3. i \in DOMAIN f.phdrs
  BY DEF Loads
<1>4. f.phdrs[i] \in Segments
  BY <1>2, <1>3
<1> QED BY <1>2, <1>3, <1>4, SizesAssumption

(* min_vaddr is at most every segment's address, and max_vaddr, unless it    *)
(* wrapped to 0, at least every segment's end.                               *)
LEMMA ImageBounds ==
    ASSUME NEW f \in Files, \A i \in Loads(f) : SegmentOK(f, f.phdrs[i])
    PROVE  /\ min_vaddr(f) \in Words /\ max_vaddr(f) \in Words
           /\ \A i \in Loads(f) : min_vaddr(f) <= f.phdrs[i].p_vaddr
           /\ max_vaddr(f) # 0 =>
                 \A i \in Loads(f) : f.phdrs[i].p_vaddr + f.phdrs[i].p_memsz <= max_vaddr(f)
<1> DEFINE A == {Word - 1} \cup {f.phdrs[i].p_vaddr : i \in Loads(f)}
           B == {0} \cup {SegmentEnd(f.phdrs[i]) : i \in Loads(f)}
<1>1. Word \in Nat /\ Word > 0
  BY SizesAssumption
<1>2. ASSUME NEW i \in Loads(f)
      PROVE  /\ f.phdrs[i].p_vaddr \in Words /\ f.phdrs[i].p_memsz \in Words
             /\ SegmentEnd(f.phdrs[i]) \in Words
             /\ SegmentEnd(f.phdrs[i]) = f.phdrs[i].p_vaddr + f.phdrs[i].p_memsz
  <2> DEFINE v == f.phdrs[i].p_vaddr
             z == f.phdrs[i].p_memsz
  <2>1. v \in Words /\ z \in Words
    BY SegmentType DEF Segments
  <2>2. Wrap(v + z) >= v
    BY DEF SegmentOK, SegmentEnd
  <2> HIDE DEF v, z
  <2>3. v + z \in Nat /\ v \in Nat /\ z \in Nat /\ z < Word /\ v < Word
    BY <1>1, <2>1 DEF Words
  <2>4. v + z < Word
    <3> SUFFICES ASSUME v + z >= Word PROVE FALSE
      BY <1>1, <2>3
    <3>1. Wrap(v + z) = v + z - Word
      BY <1>1, <2>3, WrapValue
    <3> QED BY <1>1, <2>2, <2>3, <3>1
  <2>5. Wrap(v + z) = v + z
    BY <1>1, <2>3, <2>4, WrapValue DEF Words
  <2> QED BY <1>1, <2>1, <2>3, <2>4, <2>5 DEF SegmentEnd, Words, v, z
<1>3. A \subseteq Words /\ B \subseteq Words /\ A # {} /\ B # {}
  <2>1. \A i \in Loads(f) : f.phdrs[i].p_vaddr \in Words /\ SegmentEnd(f.phdrs[i]) \in Words
    BY <1>2
  <2>2. Word - 1 \in Words /\ 0 \in Words
    BY <1>1 DEF Words
  <2> QED BY <2>1, <2>2
<1>4. Least(A) \in Words /\ \A y \in A : Least(A) <= y
  <2>1. A \subseteq Nat
    BY <1>3 DEF Words
  <2> HIDE DEF A
  <2> QED BY <1>3, <2>1, LeastOfNats
<1>5. Greatest(B) \in Words /\ \A y \in B : Greatest(B) >= y
  <2>1. B \subseteq 0..(Word - 1) /\ Word - 1 \in Nat
    BY <1>1, <1>3 DEF Words
  <2> HIDE DEF B
  <2> QED BY <1>3, <2>1, GreatestOfBounded
<1>6. \A i \in Loads(f) : f.phdrs[i].p_vaddr \in A /\ SegmentEnd(f.phdrs[i]) \in B
  OBVIOUS
<1>7. min_vaddr(f) = round_down(Least(A), PageSize)
      /\ max_vaddr(f) = round_up(Greatest(B), PageSize)
  BY DEF min_vaddr, max_vaddr
<1> HIDE DEF A, B
<1>8. min_vaddr(f) \in Words /\ min_vaddr(f) <= Least(A)
  BY <1>4, <1>7, PagesAreWords, RoundDown
<1>9. /\ max_vaddr(f) \in Words
      /\ max_vaddr(f) >= Greatest(B) \/ max_vaddr(f) = 0
  BY <1>5, <1>7, PagesAreWords, RoundUp
<1>10. ASSUME NEW i \in Loads(f)
       PROVE  /\ min_vaddr(f) <= f.phdrs[i].p_vaddr
              /\ max_vaddr(f) # 0 => f.phdrs[i].p_vaddr + f.phdrs[i].p_memsz <= max_vaddr(f)
  <2>1. Least(A) <= f.phdrs[i].p_vaddr
    BY <1>4, <1>6
  <2>2. Greatest(B) >= SegmentEnd(f.phdrs[i])
    BY <1>5, <1>6
  <2> QED BY <1>2, <1>4, <1>5, <1>8, <1>9, <2>1, <2>2 DEF Words
<1> QED BY <1>8, <1>9, <1>10

(* An accepted program ends one page below load_vaddr_break, which is where  *)
(* the memory limit puts it: none of the sums of these checks wraps.         *)
LEMMA LimitIsExact ==
    ASSUME NEW f \in Files, NEW c \in Configs, vaddr_break \in Breaks,
           \A i \in Loads(f) : SegmentOK(f, f.phdrs[i]), ImageFits(f, c)
    PROVE  /\ KernelBreak <= LoadStart /\ LoadStart = min_vaddr(f)
           /\ load_vaddr_break(c) \in Nat /\ load_vaddr_break(c) <= vaddr_break
           /\ max_vaddr(f) \in Nat /\ max_vaddr(f) # 0 /\ LoadStart <= max_vaddr(f)
           /\ max_vaddr(f) + PageSize <= load_vaddr_break(c)
<1> DEFINE lo == min_vaddr(f)
           hi == max_vaddr(f)
           lim == memory_limit(c)
           brk == load_vaddr_break(c)
<1>1. /\ Word \in Nat /\ PageSize \in Nat /\ KernelBreak \in Nat /\ KernelBreak > 0
      /\ vaddr_break \in Nat /\ vaddr_break + PageSize <= Word
  BY SizesAssumption DEF Breaks
<1>2. lo \in Nat /\ lo < Word /\ hi \in Nat /\ hi < Word
  BY <1>1, ImageBounds DEF Words
<1>3. lim \in Nat /\ lim < Word
  <2>1. c.memory_hard_limit \in Words
    BY ConfigsAssumption
  <2> QED BY <1>1, <2>1, RoundUp, PagesAreWords DEF memory_limit, Words
<1>4. /\ lo >= KernelBreak /\ hi > lo /\ hi <= vaddr_break /\ lo = LoadStart
      /\ lim >= Wrap(Wrap(hi - lo) + PageSize)
      /\ brk >= LoadStart /\ brk <= vaddr_break /\ brk = Wrap(LoadStart + lim)
  BY DEF ImageFits, FitsWithStack, memory_needed, load_vaddr_break, kernel_break
<1> HIDE DEF lo, hi, lim, brk
<1>5. Wrap(hi - lo) = hi - lo
  BY <1>1, <1>2, <1>4, WrapValue DEF Words
<1>6. Wrap(Wrap(hi - lo) + PageSize) = hi - lo + PageSize
  <2>1. hi - lo + PageSize \in Words
    BY <1>1, <1>2, <1>4 DEF Words
  <2> QED BY <1>5, <2>1, WrapValue DEF Words
<1>7. brk = LoadStart + lim
  <2>1. CASE LoadStart + lim < Word
    BY <1>1, <1>2, <1>3, <1>4, <2>1, WrapValue DEF Words
  <2>2. CASE LoadStart + lim >= Word
    <3>1. Wrap(LoadStart + lim) = LoadStart + lim - Word
      BY <1>1, <1>2, <1>3, <1>4, <2>2, WrapValue
    <3> QED BY <1>1, <1>2, <1>3, <1>4, <3>1
  <2> QED BY <1>1, <1>2, <1>3, <1>4, <2>1, <2>2
<1>8. hi + PageSize <= brk
  BY <1>1, <1>2, <1>3, <1>4, <1>6, <1>7
<1> QED BY <1>1, <1>2, <1>3, <1>4, <1>7, <1>8 DEF lo, hi, lim, brk

(* The bytes an accepted program asks to copy are bytes of the file, also    *)
(* when p_offset + p_filesz is computed with a wrapping sum: a p_filesz that *)
(* wraps it leaves no room for p_memsz below vaddr_break.                    *)
LEMMA AcceptedSegment ==
    ASSUME NEW f \in Files, NEW c \in Configs, vaddr_break \in Breaks, Accepts(f, c),
           NEW i \in Loads(f)
    PROVE  LET s == f.phdrs[i]
           IN  /\ s.p_offset \in Nat /\ s.p_vaddr \in Words /\ s.p_filesz \in Nat
               /\ LoadStart <= s.p_vaddr
               /\ s.p_vaddr + s.p_filesz + PageSize <= load_vaddr_break(c)
               /\ s.p_filesz # 0 => s.p_offset + s.p_filesz <= f.len
<1> DEFINE off == f.phdrs[i].p_offset
           v == f.phdrs[i].p_vaddr
           z == f.phdrs[i].p_filesz
           mz == f.phdrs[i].p_memsz
           brk == load_vaddr_break(c)
           hi == max_vaddr(f)
           len == f.len
<1>1. /\ Word \in Nat /\ PageSize \in Nat /\ ReservedSize \in Nat /\ LoadStart \in Nat
      /\ vaddr_break \in Nat /\ vaddr_break <= ReservedSize
  BY SizesAssumption DEF Breaks, Words
<1>2. /\ off \in Words /\ v \in Words /\ z \in Words /\ mz \in Words
      /\ len \in Nat /\ len + ReservedSize < Word
  BY SegmentType DEF Segments
<1>3. (\A j \in Loads(f) : SegmentOK(f, f.phdrs[j])) /\ ImageFits(f, c)
  BY DEF Accepts
<1>4. /\ LoadStart = min_vaddr(f)
      /\ brk \in Nat /\ brk <= vaddr_break
      /\ hi \in Nat /\ hi # 0 /\ hi + PageSize <= brk
  BY <1>3, LimitIsExact
<1>5. LoadStart <= v /\ v + mz <= hi
  BY <1>3, <1>4, ImageBounds
<1>6. z <= mz /\ (z # 0 => off <= len /\ Wrap(off + z) <= len)
  BY <1>1, <1>2, <1>3 DEF SegmentOK, FileRangeOK, Words
<1> HIDE DEF off, v, z, mz, brk, hi, len
<1>7. v + z + PageSize <= brk
  BY <1>1, <1>2, <1>4, <1>5, <1>6 DEF Words
<1>8. ASSUME z # 0 PROVE off + z <= len
  <2>1. off + z \in Words
    BY <1>1, <1>2, <1>4, <1>6, <1>7, <1>8 DEF Words
  <2>2. Wrap(off + z) = off + z
    BY <1>1, <1>2, <2>1, WrapValue DEF Words
  <2> QED BY <1>6, <1>8, <2>2
<1> QED BY <1>1, <1>2, <1>5, <1>7, <1>8 DEF off, v, z, brk, len, Words

(* A part of the special region that passes its two checks holds its size.   *)
LEMMA PartHolds ==
    ASSUME NEW start \in Words, NEW size \in Words, PartOK(start, size)
    PROVE  AfterPart(start, size) \in Words /\ start + size <= AfterPart(start, size)
<1> DEFINE r == round_up(size, PageSize)
<1>1. Word \in Nat /\ start \in Nat /\ start < Word /\ size \in Nat
  BY SizesAssumption DEF Words
<1>2. r \in Nat /\ r < Word /\ r >= size
  BY <1>1, RoundUp, PagesAreWords DEF PartOK, Words
<1>3. Wrap(start + r) >= start
  BY DEF PartOK, AfterPart
<1>4. AfterPart(start, size) = Wrap(start + r)
  BY DEF AfterPart
<1> HIDE DEF r
<1>5. start + r < Word
  <2> SUFFICES ASSUME start + r >= Word PROVE FALSE
    BY <1>1, <1>2
  <2>1. Wrap(start + r) = start + r - Word
    BY <1>1, <1>2, WrapValue
  <2> QED BY <1>1, <1>2, <1>3, <2>1
<1>6. Wrap(start + r) = start + r
  BY <1>1, <1>2, <1>5, WrapValue DEF Words
<1> QED BY <1>1, <1>2, <1>4, <1>5, <1>6 DEF Words

(* A page added to an address without falling below it is added exactly.     *)
LEMMA PageHolds ==
    ASSUME NEW start \in Words, Wrap(start + PageSize) >= start
    PROVE  Wrap(start + PageSize) \in Words /\ Wrap(start + PageSize) = start + PageSize
<1>1. Word \in Nat /\ start \in Nat /\ start < Word /\ PageSize \in Nat /\ PageSize > 0
      /\ PageSize <= Word
  BY SizesAssumption DEF Words
<1>2. CASE start + PageSize < Word
  BY <1>1, <1>2, WrapValue DEF Words
<1>3. CASE start + PageSize >= Word
  <2>1. Wrap(start + PageSize) = start + PageSize - Word
    BY <1>1, <1>3, WrapValue
  <2>2. PageSize = Word
    BY <1>1, <2>1
  <2> QED BY <1>1, <2>2, SizesAssumption
<1> QED BY <1>1, <1>2, <1>3

(* The parts of an accepted special region follow each other from            *)
(* load_vaddr_break to special_region_break, which is below the buffers.     *)
InOrder(c) ==
    /\ load_vaddr_break(c) \in Words
    /\ stdin_load_vaddr(c) = load_vaddr_break(c)
    /\ stdout_load_vaddr(c) \in Words
    /\ stdin_load_vaddr(c) + c.stdin_size <= stdout_load_vaddr(c)
    /\ stderr_load_vaddr(c) \in Words
    /\ stdout_load_vaddr(c) + c.stdout_max_size <= stderr_load_vaddr(c)
    /\ IB_load_vaddr(c) \in Words
    /\ stderr_load_vaddr(c) + c.stderr_max_size <= IB_load_vaddr(c)
    /\ OB_load_vaddr(c) \in Words
    /\ IB_load_vaddr(c) + c.IB_size <= OB_load_vaddr(c)
    /\ ELF_image_load_vaddr(c) \in Words
    /\ OB_load_vaddr(c) + c.OB_size <= ELF_image_load_vaddr(c)
    /\ random_bytes_load_vaddr(c) \in Words
    /\ random_bytes_load_vaddr(c) = ELF_image_load_vaddr(c) + PageSize
    /\ special_region_break(c) \in Words
    /\ special_region_break(c) = random_bytes_load_vaddr(c) + PageSize
    /\ special_region_break(c) <= vaddr_break

\* The fields of a configuration.
LEMMA ConfigType ==
    ASSUME NEW c \in Configs
    PROVE  /\ c.stdin_size \in Words /\ c.stdout_max_size \in Words
           /\ c.stderr_max_size \in Words /\ c.IB_size \in Words /\ c.OB_size \in Words
           /\ c.OB_need_clear \in BOOLEAN
BY ConfigsAssumption

\* When the checks of the special regions pass, the regions are in order.
LEMMA SpecialRegion ==
    ASSUME NEW c \in Configs, vaddr_break \in Breaks, SpecialRegionFits(c)
    PROVE  InOrder(c)
<1>1. load_vaddr_break(c) \in Words
  <2>1. memory_limit(c) \in Words
    BY ConfigsAssumption, RoundUp, PagesAreWords DEF memory_limit
  <2> QED BY <2>1, WrapValue, SizesAssumption DEF load_vaddr_break, Words
<1>2. stdin_load_vaddr(c) \in Words /\ stdin_load_vaddr(c) = load_vaddr_break(c)
  BY <1>1 DEF stdin_load_vaddr
<1>3. /\ stdout_load_vaddr(c) \in Words
      /\ stdin_load_vaddr(c) + c.stdin_size <= stdout_load_vaddr(c)
  BY <1>2, ConfigType, PartHolds DEF SpecialRegionFits, stdout_load_vaddr
<1>4. /\ stderr_load_vaddr(c) \in Words
      /\ stdout_load_vaddr(c) + c.stdout_max_size <= stderr_load_vaddr(c)
  BY <1>3, ConfigType, PartHolds DEF SpecialRegionFits, stderr_load_vaddr
<1>5. /\ IB_load_vaddr(c) \in Words
      /\ stderr_load_vaddr(c) + c.stderr_max_size <= IB_load_vaddr(c)
  BY <1>4, ConfigType, PartHolds DEF SpecialRegionFits, IB_load_vaddr
<1>6. OB_load_vaddr(c) \in Words /\ IB_load_vaddr(c) + c.IB_size <= OB_load_vaddr(c)
  BY <1>5, ConfigType, PartHolds DEF SpecialRegionFits, OB_load_vaddr
<1>7. /\ ELF_image_load_vaddr(c) \in Words
      /\ OB_load_vaddr(c) + c.OB_size <= ELF_image_load_vaddr(c)
  BY <1>6, ConfigType, PartHolds DEF SpecialRegionFits, ELF_image_load_vaddr
<1>8. /\ random_bytes_load_vaddr(c) \in Words
      /\ random_bytes_load_vaddr(c) = ELF_image_load_vaddr(c) + PageSize
  BY <1>7, PageHolds DEF SpecialRegionFits, random_bytes_load_vaddr
<1>9. /\ special_region_break(c) \in Words
      /\ special_region_break(c) = random_bytes_load_vaddr(c) + PageSize
      /\ special_region_break(c) <= vaddr_break
  BY <1>8, PageHolds DEF SpecialRegionFits, EndsBelowBuffers, special_region_break
<1> QED BY <1>1, <1>2, <1>3, <1>4, <1>5, <1>6, <1>7, <1>8, <1>9 DEF InOrder

----------------------------------------------------------------------------
(* What load_elf64 writes *)

(* A copy that does not wrap writes its bytes and nothing else.              *)
LEMMA PutValue ==
    ASSUME NEW m, NEW start \in Words, NEW size \in Nat, start + size <= Word,
           NEW what, NEW a \in Words
    PROVE  Put(m, start, size, what)[a] =
               IF start <= a /\ a < start + size THEN <<what, a - start>> ELSE m[a]
BY InSpan DEF Put

(* The segments of an accepted program are copied from the file to the       *)
(* addresses they name, the later over the earlier.                          *)
LEMMA SegmentsValue ==
    ASSUME NEW f \in Files, NEW c \in Configs, vaddr_break \in Breaks, Accepts(f, c),
           NEW m, NEW a \in Words
    PROVE  /\ \A i \in DOMAIN f.phdrs : LastAt(f, i, a) =>
                 LET s == f.phdrs[i]
                     pos == s.p_offset + (a - s.p_vaddr)
                 IN  /\ PutSegments(m, f)[a] = <<"elf", pos>> /\ pos < f.len
                     /\ LoadStart <= a /\ a + PageSize < load_vaddr_break(c)
           /\ \/ PutSegments(m, f)[a] = m[a]
              \/ /\ PutSegments(m, f)[a] \in {"elf"} \X Words
                 /\ LoadStart <= a /\ a + PageSize < load_vaddr_break(c)
<1> DEFINE Over == {i \in Loads(f) : Copies(f.phdrs[i], a)}
           last == f.phdrs[Greatest(Over)]
<1>1. /\ Word \in Nat /\ PageSize \in Nat /\ PageSize > 0 /\ ReservedSize \in Nat
      /\ LoadStart \in Nat /\ a \in Nat /\ a < Word
      /\ load_vaddr_break(c) \in Nat /\ load_vaddr_break(c) <= ReservedSize
      /\ ReservedSize < Word
  <2>1. InOrder(c)
    BY SpecialRegion DEF Accepts
  <2>2. load_vaddr_break(c) \in Nat
    BY <2>1, SizesAssumption DEF InOrder, Words
  <2>3. load_vaddr_break(c) <= vaddr_break
    BY DEF Accepts, ImageFits
  <2> QED BY <2>2, <2>3, SizesAssumption DEF Breaks, Words
<1>2. PutSegments(m, f)[a] =
        IF Over = {} THEN m[a]
        ELSE <<"elf", Wrap(last.p_offset + Wrap(a - last.p_vaddr))>>
  BY DEF PutSegments
<1>3. ASSUME NEW i \in Over
      PROVE  LET s == f.phdrs[i]
                 pos == s.p_offset + (a - s.p_vaddr)
             IN  /\ Wrap(s.p_offset + Wrap(a - s.p_vaddr)) = pos
                 /\ pos \in Words /\ pos < f.len
                 /\ LoadStart <= a /\ a + PageSize < load_vaddr_break(c)
  <2> DEFINE off == f.phdrs[i].p_offset
             v == f.phdrs[i].p_vaddr
             z == f.phdrs[i].p_filesz
  <2>1. i \in Loads(f) /\ In(a, v, z)
    BY DEF Copies
  <2>2. /\ off \in Nat /\ v \in Words /\ z \in Nat /\ LoadStart <= v
        /\ v + z + PageSize <= load_vaddr_break(c)
        /\ z # 0 => off + z <= f.len
    BY <2>1, AcceptedSegment
  <2>3. f.len \in Nat /\ f.len + ReservedSize < Word
    BY <2>1, SegmentType
  <2> HIDE DEF off, v, z
  <2>4. v \in Nat /\ v + z <= Word
    BY <1>1, <2>2 DEF Words
  <2>5. v <= a /\ a < v + z /\ Wrap(a - v) = a - v
    BY <2>1, <2>2, <2>4, InSpan
  <2>6. z # 0
    BY <1>1, <2>2, <2>4, <2>5
  <2>7. /\ off + (a - v) \in Words /\ off + (a - v) < f.len
        /\ LoadStart <= a /\ a + PageSize < load_vaddr_break(c)
    BY <1>1, <2>2, <2>3, <2>4, <2>5, <2>6 DEF Words
  <2>8. Wrap(off + Wrap(a - v)) = off + (a - v)
    BY <1>1, <2>5, <2>7, WrapValue DEF Words
  <2> QED BY <2>7, <2>8 DEF off, v
<1>4. ASSUME NEW i \in DOMAIN f.phdrs, LastAt(f, i, a)
      PROVE  i \in Over /\ Greatest(Over) = i
  <2>1. i \in Over /\ \A j \in Over : j <= i
    BY <1>4 DEF LastAt
  <2>2. Over \subseteq Nat
    <3>1. f.phdrs \in Seq(Segments)
      BY FilesAssumption
    <3>2. DOMAIN f.phdrs \subseteq Nat
      BY <3>1
    <3> QED BY <3>2 DEF Loads
  <2> HIDE DEF Over
  <2>3. \A j \in Over : (\A y \in Over : j >= y) => j = i
    BY <2>1, <2>2
  <2>4. \A y \in Over : i >= y
    BY <2>1, <2>2
  <2> QED BY <2>1, <2>3, <2>4 DEF Greatest
<1>5. ASSUME Over # {} PROVE Greatest(Over) \in Over
  <2>1. f.phdrs \in Seq(Segments)
    BY FilesAssumption
  <2>2. DOMAIN f.phdrs = 1..Len(f.phdrs) /\ Len(f.phdrs) \in Nat
    BY <2>1
  <2>3. Over \subseteq 0..Len(f.phdrs)
    BY <2>2 DEF Loads
  <2> HIDE DEF Over
  <2> QED BY <1>5, <2>2, <2>3, GreatestOfBounded
<1>6. ASSUME NEW i \in DOMAIN f.phdrs, LastAt(f, i, a)
      PROVE  LET s == f.phdrs[i]
                 pos == s.p_offset + (a - s.p_vaddr)
             IN  /\ PutSegments(m, f)[a] = <<"elf", pos>> /\ pos < f.len
                 /\ LoadStart <= a /\ a + PageSize < load_vaddr_break(c)
  <2>1. i \in Over /\ Greatest(Over) = i
    BY <1>4, <1>6
  <2> HIDE DEF Over
  <2> QED BY <1>2, <1>3, <2>1
<1>7. \/ PutSegments(m, f)[a] = m[a]
      \/ /\ PutSegments(m, f)[a] \in {"elf"} \X Words
         /\ LoadStart <= a /\ a + PageSize < load_vaddr_break(c)
  <2> HIDE DEF Over
  <2> QED BY <1>2, <1>3, <1>5
<1> QED BY <1>6, <1>7

(* What each address holds after a successful load: outside the program's    *)
(* region what it held before, below the stack's page the segments, and the  *)
(* inputs at their places.                                                   *)
LEMMA LoadedValue ==
    ASSUME NEW f \in Files, NEW c \in Configs, vaddr_break \in Breaks, Accepts(f, c),
           NEW m, NEW a \in Words
    PROVE  /\ ~ (LoadStart <= a /\ a < special_region_break(c)) => Loaded(m, f, c)[a] = m[a]
           /\ a + PageSize < load_vaddr_break(c) =>
                 Loaded(m, f, c)[a] = PutSegments(m, f)[a]
           /\ stdin_load_vaddr(c) <= a /\ a < stdin_load_vaddr(c) + c.stdin_size =>
                 Loaded(m, f, c)[a] = <<"stdin", a - stdin_load_vaddr(c)>>
           /\ IB_load_vaddr(c) <= a /\ a < IB_load_vaddr(c) + c.IB_size =>
                 Loaded(m, f, c)[a] = <<"IB", a - IB_load_vaddr(c)>>
           /\ ~c.OB_need_clear /\ OB_load_vaddr(c) <= a /\ a < OB_load_vaddr(c) + c.OB_size =>
                 Loaded(m, f, c)[a] = <<"OB", a - OB_load_vaddr(c)>>
           /\ m[a] \in Kinds \X Words => Loaded(m, f, c)[a] \in Kinds \X Words
<1> DEFINE lb == load_vaddr_break(c)
           pin == stdin_load_vaddr(c)
           pout == stdout_load_vaddr(c)
           perr == stderr_load_vaddr(c)
           pIB == IB_load_vaddr(c)
           pOB == OB_load_vaddr(c)
           img == ELF_image_load_vaddr(c)
           rnd == random_bytes_load_vaddr(c)
           brk == special_region_break(c)
           ilen == IF f.len < PageSize THEN f.len ELSE PageSize
           nin == c.stdin_size
           nout == c.stdout_max_size
           nerr == c.stderr_max_size
           nIB == c.IB_size
           nOB == c.OB_size
           sp == Wrap(lb - StackFrame)
           m1 == PutSegments(m, f)
           m2 == Put(m1, pin, nin, "stdin")
           m3 == Put(m2, pIB, nIB, "IB")
           m4 == IF c.OB_need_clear THEN m3 ELSE Put(m3, pOB, nOB, "OB")
           m5 == Put(m4, img, ilen, "image")
           m6 == Put(m5, rnd, RandomSize, "random")
           m7 == Put(m6, sp, StackFrame, "stack")
<1>1. /\ Word \in Nat /\ PageSize \in Nat /\ PageSize > 0 /\ LoadStart \in Nat
      /\ StackFrame \in Nat /\ StackFrame > 0 /\ StackFrame <= PageSize
      /\ RandomSize \in Nat /\ RandomSize <= PageSize
      /\ a \in Nat /\ a < Word
  BY SizesAssumption DEF Words
<1>2. /\ lb \in Words /\ pin = lb /\ pout \in Words /\ perr \in Words /\ pIB \in Words
      /\ pOB \in Words /\ img \in Words /\ rnd \in Words /\ brk \in Words
      /\ pin + nin <= pout /\ pout + nout <= perr /\ perr + nerr <= pIB
      /\ pIB + nIB <= pOB /\ pOB + nOB <= img
      /\ rnd = img + PageSize /\ brk = rnd + PageSize
  BY SpecialRegion DEF Accepts, InOrder
<1>3. /\ nin \in Words /\ nout \in Words /\ nerr \in Words /\ nIB \in Words /\ nOB \in Words
      /\ c.OB_need_clear \in BOOLEAN
  BY ConfigType
<1>4. ilen \in Nat /\ ilen <= PageSize
  <2>1. f.len \in Nat
    BY FilesAssumption
  <2> QED BY <1>1, <2>1
<1>5. LoadStart + PageSize <= lb
  <2>1. max_vaddr(f) + PageSize <= lb /\ LoadStart <= max_vaddr(f) /\ max_vaddr(f) \in Nat
    BY LimitIsExact DEF Accepts
  <2>2. lb \in Nat
    BY <1>1, <1>2 DEF Words
  <2> HIDE DEF lb
  <2> QED BY <1>1, <2>1, <2>2
<1>6. Loaded(m, f, c) = m7
  BY DEF Loaded, PutStack, PutImage, PutInputs
<1>7. \/ m1[a] = m[a]
      \/ m1[a] \in {"elf"} \X Words /\ LoadStart <= a /\ a + PageSize < lb
  BY SegmentsValue
<1> HIDE DEF lb, pin, pout, perr, pIB, pOB, img, rnd, brk, ilen, nin, nout, nerr, nIB, nOB, m1
<1>8. /\ lb \in Nat /\ pin \in Nat /\ pout \in Nat /\ perr \in Nat /\ pIB \in Nat /\ pOB \in Nat
      /\ img \in Nat /\ rnd \in Nat /\ brk \in Nat /\ brk < Word
      /\ nin \in Nat /\ nout \in Nat /\ nerr \in Nat /\ nIB \in Nat /\ nOB \in Nat
  BY <1>1, <1>2, <1>3 DEF Words
<1>9. sp = lb - StackFrame /\ sp \in Words
  BY <1>1, <1>2, <1>5, <1>8, WrapValue DEF Words
<1> HIDE DEF sp
<1>10. m2[a] = IF pin <= a /\ a < pin + nin THEN <<"stdin", a - pin>> ELSE m1[a]
  <2>1. pin \in Words /\ nin \in Nat /\ pin + nin <= Word
    BY <1>1, <1>2, <1>8 DEF Words
  <2> QED BY <2>1, PutValue
<1> HIDE DEF m2
<1>11. m3[a] = IF pIB <= a /\ a < pIB + nIB THEN <<"IB", a - pIB>> ELSE m2[a]
  <2>1. pIB \in Words /\ nIB \in Nat /\ pIB + nIB <= Word
    BY <1>1, <1>2, <1>8 DEF Words
  <2> QED BY <2>1, PutValue
<1> HIDE DEF m3
<1>12. m4[a] = IF ~c.OB_need_clear /\ pOB <= a /\ a < pOB + nOB
                 THEN <<"OB", a - pOB>> ELSE m3[a]
  <2>1. pOB + nOB <= Word
    BY <1>1, <1>2, <1>8 DEF Words
  <2>2. Put(m3, pOB, nOB, "OB")[a] = IF pOB <= a /\ a < pOB + nOB
                                       THEN <<"OB", a - pOB>> ELSE m3[a]
    BY <1>2, <1>8, <2>1, PutValue
  <2> QED BY <1>3, <2>2
<1> HIDE DEF m4
<1>13. m5[a] = IF img <= a /\ a < img + ilen THEN <<"image", a - img>> ELSE m4[a]
  <2>1. img \in Words /\ ilen \in Nat /\ img + ilen <= Word
    BY <1>1, <1>2, <1>4, <1>8 DEF Words
  <2> QED BY <2>1, PutValue
<1> HIDE DEF m5
<1>14. m6[a] = IF rnd <= a /\ a < rnd + RandomSize THEN <<"random", a - rnd>> ELSE m5[a]
  <2>1. rnd \in Words /\ RandomSize \in Nat /\ rnd + RandomSize <= Word
    BY <1>1, <1>2, <1>8 DEF Words
  <2> QED BY <2>1, PutValue
<1> HIDE DEF m6
<1>15. m7[a] = IF sp <= a /\ a < sp + StackFrame THEN <<"stack", a - sp>> ELSE m6[a]
  <2>1. sp \in Words /\ StackFrame \in Nat /\ sp + StackFrame <= Word
    BY <1>1, <1>2, <1>8, <1>9 DEF Words
  <2> QED BY <2>1, PutValue
<1> HIDE DEF m7
<1>16. ~ (LoadStart <= a /\ a < brk) => m7[a] = m[a]
  BY <1>1, <1>2, <1>4, <1>5, <1>7, <1>8, <1>9, <1>10, <1>11, <1>12, <1>13, <1>14, <1>15
<1>17. a + PageSize < lb => m7[a] = m1[a]
  BY <1>1, <1>2, <1>4, <1>5, <1>8, <1>9, <1>10, <1>11, <1>12, <1>13, <1>14, <1>15
<1>18. pin <= a /\ a < pin + nin => m7[a] = <<"stdin", a - pin>>
  BY <1>1, <1>2, <1>4, <1>8, <1>9, <1>10, <1>11, <1>12, <1>13, <1>14, <1>15
<1>19. pIB <= a /\ a < pIB + nIB => m7[a] = <<"IB", a - pIB>>
  BY <1>1, <1>2, <1>4, <1>8, <1>9, <1>11, <1>12, <1>13, <1>14, <1>15
<1>20. ~c.OB_need_clear /\ pOB <= a /\ a < pOB + nOB => m7[a] = <<"OB", a - pOB>>
  BY <1>1, <1>2, <1>4, <1>8, <1>9, <1>12, <1>13, <1>14, <1>15
<1>21. ASSUME m[a] \in Kinds \X Words PROVE m7[a] \in Kinds \X Words
  <2>1. \A x \in Words : x <= a => a - x \in Words
    BY <1>1 DEF Words
  <2>2. m1[a] \in Kinds \X Words
    BY <1>7, <1>21 DEF Kinds
  <2>3. pin \in Words
    BY <1>2
  <2>4. m2[a] \in Kinds \X Words
    BY <1>10, <2>1, <2>2, <2>3 DEF Kinds
  <2>5. m3[a] \in Kinds \X Words
    BY <1>2, <1>11, <2>1, <2>4 DEF Kinds
  <2>6. m4[a] \in Kinds \X Words
    BY <1>2, <1>12, <2>1, <2>5 DEF Kinds
  <2>7. m5[a] \in Kinds \X Words
    BY <1>2, <1>13, <2>1, <2>6 DEF Kinds
  <2>8. m6[a] \in Kinds \X Words
    BY <1>2, <1>14, <2>1, <2>7 DEF Kinds
  <2> QED BY <1>9, <1>15, <2>1, <2>8 DEF Kinds
<1> QED BY <1>6, <1>16, <1>17, <1>18, <1>19, <1>20, <1>21
     DEF lb, pin, pIB, pOB, brk, nin, nIB, nOB, m1

----------------------------------------------------------------------------
(* The inductive invariant.  AppInv keeps, for the loaded program, that the  *)
(* checks accepted it below the present vaddr_break: run needs it to say     *)
(* where the output ends and what the program may write.                     *)

AppInv ==
    app # NoApp =>
        /\ Accepts(app.file, app.config)
        /\ app.start = LoadStart
        /\ app.break = special_region_break(app.config)

LoadInv ==
    /\ TypeOK /\ BuffersAreApart /\ ImageIsIntact /\ InputsArePlaced /\ OutputIsInside
    /\ AppInv

(* Nothing is loaded or allocated when the kernel starts.                    *)
LEMMA InitLoad == Init => LoadInv
<1> SUFFICES ASSUME Init PROVE LoadInv
  OBVIOUS
<1>1. memory \in [Words -> Kinds \X Words]
  BY SizesAssumption DEF Init, Kinds, Words, Zero
<1>2. TypeOK
  BY <1>1, SizesAssumption DEF Init, TypeOK
<1>3. BuffersAreApart
  BY DEF Init, BuffersAreApart
<1>4. ImageIsIntact /\ InputsArePlaced /\ OutputIsInside /\ AppInv
  BY DEF Init, ImageIsIntact, InputsArePlaced, OutputIsInside, AppInv
<1> QED BY <1>2, <1>3, <1>4 DEF LoadInv

(* A buffer is taken from below all others and above the kernel: the rounded *)
(* size fits, and it is at least the size asked for.                         *)
LEMMA AllocatePreserves ==
    ASSUME LoadInv, NEW size \in AllocSizes, allocate_virtual_memory(size)
    PROVE  LoadInv'
<1> DEFINE r == round_up(size, HugePageSize)
           b == [start |-> vaddr_break', size |-> size]
<1>1. /\ Word \in Nat /\ KernelBreak \in Nat /\ ReservedSize \in Nat /\ ReservedSize < Word
      /\ KernelBreak > 0 /\ vaddr_break \in Nat /\ KernelBreak <= vaddr_break
      /\ vaddr_break <= ReservedSize
  BY SizesAssumption DEF LoadInv, TypeOK
<1>2. size \in Words /\ size \in Nat /\ size > 0 /\ size + HugePageSize <= Word
  BY InputsAssumption, SizesAssumption DEF Words
<1>3. r \in Nat /\ r >= size
  BY <1>1, <1>2, RoundUp, PagesAreWords DEF Words
<1>4. r <= vaddr_break - KernelBreak
  <2>1. Wrap(vaddr_break - KernelBreak) = vaddr_break - KernelBreak
    BY <1>1, WrapValue DEF Words
  <2> QED BY <2>1 DEF allocate_virtual_memory, can_allocate_virtual_memory, kernel_break
<1>5. vaddr_break' = Wrap(vaddr_break - r) /\ buffers' = buffers \cup {b}
  BY DEF allocate_virtual_memory
<1> HIDE DEF r
<1>6. vaddr_break' = vaddr_break - r
  BY <1>1, <1>3, <1>4, <1>5, WrapValue DEF Words
<1>7. /\ vaddr_break' \in KernelBreak..ReservedSize /\ vaddr_break' \in Words
      /\ vaddr_break' + size <= vaddr_break
  BY <1>1, <1>2, <1>3, <1>4, <1>6 DEF Words
<1>8. UNCHANGED <<memory, app, res>> /\ app = NoApp /\ res = NoResult
  BY DEF allocate_virtual_memory
<1>9. TypeOK'
  BY <1>2, <1>5, <1>7, <1>8 DEF LoadInv, TypeOK
<1>10. BuffersAreApart'
  <2>1. \A d \in buffers : /\ d.start \in Nat /\ d.size \in Nat
                           /\ vaddr_break <= d.start /\ d.start + d.size <= ReservedSize
    BY SizesAssumption DEF LoadInv, BuffersAreApart, TypeOK, Words
  <2>2. b.start = vaddr_break' /\ b.size = size
    OBVIOUS
  <2>3. ASSUME NEW d \in buffers'
        PROVE  vaddr_break' <= d.start /\ d.start + d.size <= ReservedSize
    BY <1>1, <1>2, <1>5, <1>7, <2>1, <2>2
  <2>4. \A x \in buffers : b.start + b.size <= x.start
    <3> SUFFICES ASSUME NEW x \in buffers PROVE b.start + b.size <= x.start
      OBVIOUS
    <3> DEFINE w == vaddr_break'
    <3>1. w \in Nat /\ w + size <= vaddr_break
      BY <1>1, <1>7
    <3>2. x.start \in Nat /\ vaddr_break <= x.start
      BY <2>1
    <3>3. b.start = w /\ b.size = size
      BY <2>2
    <3> HIDE DEF w, b
    <3>4. w + size <= x.start
      BY <1>1, <1>2, <3>1, <3>2
    <3> QED BY <3>3, <3>4
  <2>5. ASSUME NEW d \in buffers', NEW e \in buffers', d # e
        PROVE  d.start + d.size <= e.start \/ e.start + e.size <= d.start
    <3>1. CASE d \in buffers /\ e \in buffers
      BY <2>5, <3>1 DEF LoadInv, BuffersAreApart
    <3> HIDE DEF b
    <3>3. CASE d = b \/ e = b
      BY <1>5, <2>5, <2>4, <3>3
    <3> QED BY <1>5, <2>5, <3>1, <3>3
  <2> QED BY <2>3, <2>5 DEF BuffersAreApart
<1>11. ImageIsIntact' /\ InputsArePlaced' /\ OutputIsInside' /\ AppInv'
  BY <1>8 DEF ImageIsIntact, InputsArePlaced, OutputIsInside, AppInv
<1> QED BY <1>9, <1>10, <1>11 DEF LoadInv

(* A successful load puts every byte where it belongs.                       *)
LEMMA LoadPreserves ==
    ASSUME LoadInv, NEW f \in Files, NEW c \in Configs, load(f, c)
    PROVE  LoadInv'
<1> DEFINE p == [file |-> f, config |-> c, start |-> LoadStart, break |-> special_region_break(c)]
<1>1. /\ Accepts(f, c) /\ vaddr_break \in Breaks /\ memory \in [Words -> Kinds \X Words]
      /\ memory' = Loaded(memory, f, c) /\ app' = p /\ res' = NoResult
      /\ UNCHANGED <<vaddr_break, buffers>>
  BY DEF LoadInv, TypeOK, load, Breaks
<1>2. p.file = f /\ p.config = c /\ p.start = LoadStart /\ p.break = special_region_break(c)
  OBVIOUS
<1>3. InOrder(c)
  BY <1>1, SpecialRegion DEF Accepts
<1>4. TypeOK'
  <2>1. \A a \in Words : memory'[a] \in Kinds \X Words
    BY <1>1, LoadedValue
  <2>2. memory' = [a \in Words |-> memory'[a]]
    BY <1>1 DEF Loaded, PutStack, Put
  <2>3. memory' \in [Words -> Kinds \X Words]
    BY <2>1, <2>2
  <2>4. p \in [file : Files, config : Configs, start : Words, break : Words]
    BY <1>3, SizesAssumption DEF InOrder
  <2> HIDE DEF p
  <2> QED BY <1>1, <2>3, <2>4 DEF LoadInv, TypeOK
<1>5. BuffersAreApart'
  BY <1>1 DEF LoadInv, BuffersAreApart
<1>6. ImageIsIntact'
  <2> SUFFICES ASSUME NEW i \in DOMAIN f.phdrs, NEW a \in Words, LastAt(f, i, a)
               PROVE  LET s == f.phdrs[i]
                          pos == s.p_offset + (a - s.p_vaddr)
                      IN  pos < f.len /\ memory'[a] = <<"elf", pos>>
    BY <1>1, <1>2 DEF ImageIsIntact
  <2>1. LET s == f.phdrs[i]
            pos == s.p_offset + (a - s.p_vaddr)
        IN  /\ PutSegments(memory, f)[a] = <<"elf", pos>> /\ pos < f.len
            /\ LoadStart <= a /\ a + PageSize < load_vaddr_break(c)
    BY <1>1, SegmentsValue
  <2>2. memory'[a] = PutSegments(memory, f)[a]
    BY <1>1, <2>1, LoadedValue
  <2> QED BY <2>1, <2>2
<1>7. InputsArePlaced'
  <2>1. ASSUME NEW start \in Words, NEW size \in Words, NEW what, start + size <= Word,
               \A a \in Words : start <= a /\ a < start + size =>
                   memory'[a] = <<what, a - start>>
        PROVE  Holds(start, size, what)'
    <3> SUFFICES ASSUME NEW k \in 0..(size - 1)
                 PROVE  start + k \in Words /\ memory'[start + k] = <<what, k>>
      BY DEF Holds
    <3>1. /\ start + k \in Words /\ start <= start + k /\ start + k < start + size
          /\ (start + k) - start = k
      BY <2>1, SizesAssumption DEF Words
    <3> QED BY <2>1, <3>1
  <2> DEFINE pin == stdin_load_vaddr(c)
             pIB == IB_load_vaddr(c)
             pOB == OB_load_vaddr(c)
  <2>2. /\ pin \in Words /\ pIB \in Words /\ pOB \in Words
        /\ c.stdin_size \in Words /\ c.IB_size \in Words /\ c.OB_size \in Words
    BY <1>3, ConfigType DEF InOrder
  <2>3. pin + c.stdin_size <= Word /\ pIB + c.IB_size <= Word /\ pOB + c.OB_size <= Word
    <3>1. /\ stdout_load_vaddr(c) \in Words /\ pin + c.stdin_size <= stdout_load_vaddr(c)
          /\ pIB + c.IB_size <= pOB
          /\ ELF_image_load_vaddr(c) \in Words /\ pOB + c.OB_size <= ELF_image_load_vaddr(c)
      BY <1>3 DEF InOrder
    <3> HIDE DEF pin, pIB, pOB
    <3> QED BY <2>2, <3>1, SizesAssumption DEF Words
  <2>4. \A a \in Words :
           /\ pin <= a /\ a < pin + c.stdin_size => memory'[a] = <<"stdin", a - pin>>
           /\ pIB <= a /\ a < pIB + c.IB_size => memory'[a] = <<"IB", a - pIB>>
           /\ ~c.OB_need_clear /\ pOB <= a /\ a < pOB + c.OB_size =>
                 memory'[a] = <<"OB", a - pOB>>
    BY <1>1, LoadedValue
  <2> HIDE DEF pin, pIB, pOB
  <2>5. Holds(pin, c.stdin_size, "stdin")'
    BY <2>1, <2>2, <2>3, <2>4
  <2>6. Holds(pIB, c.IB_size, "IB")'
    BY <2>1, <2>2, <2>3, <2>4
  <2>7. ~c.OB_need_clear => Holds(pOB, c.OB_size, "OB")'
    BY <2>1, <2>2, <2>3, <2>4
  <2> QED BY <1>1, <1>2, <2>5, <2>6, <2>7 DEF InputsArePlaced, Holds, pin, pIB, pOB
<1>8. OutputIsInside'
  BY <1>1 DEF OutputIsInside
<1>9. AppInv'
  <2>1. Accepts(f, c)'
    BY <1>1 DEF Accepts, ImageFits, SpecialRegionFits, EndsBelowBuffers
  <2> QED BY <1>1, <1>2, <2>1 DEF AppInv
<1> QED BY <1>4, <1>5, <1>6, <1>7, <1>8, <1>9 DEF LoadInv

(* What the program did to its memory does not change where its output is.   *)
LEMMA RunPreserves ==
    ASSUME LoadInv, NEW out \in Sizes, NEW err \in Sizes, run(out, err)
    PROVE  LoadInv'
<1> DEFINE c == app.config
           nout == reported_size(c.stdout_max_size, out)
           nerr == reported_size(c.stderr_max_size, err)
           q == [stdout_ptr |-> stdout_load_vaddr(c), stdout_size |-> nout,
                 stderr_ptr |-> stderr_load_vaddr(c), stderr_size |-> nerr,
                 OB_ptr |-> OB_load_vaddr(c), OB_size |-> c.OB_size, break |-> app.break]
<1>1. /\ app # NoApp /\ app' = NoApp /\ res' = q
      /\ vaddr_break \in Breaks /\ UNCHANGED <<vaddr_break, buffers>>
      /\ c \in Configs /\ app.file \in Files /\ Accepts(app.file, c)
      /\ app.break = special_region_break(c)
  BY DEF LoadInv, TypeOK, AppInv, run, Breaks
<1>2. InOrder(c) /\ LoadStart <= load_vaddr_break(c)
  BY <1>1, SpecialRegion DEF Accepts, ImageFits
<1>3. /\ c.stdout_max_size \in Words /\ c.stderr_max_size \in Words /\ c.OB_size \in Words
      /\ c.stdin_size \in Words /\ c.IB_size \in Words
  BY <1>1, ConfigType
<1>4. /\ nout \in Words /\ nout <= c.stdout_max_size
      /\ nerr \in Words /\ nerr <= c.stderr_max_size
  BY <1>3, InputsAssumption, SizesAssumption DEF reported_size, Words
<1>5. memory' \in [Words -> Kinds \X Words]
  <2>1. User \in Kinds \X Words
    BY SizesAssumption DEF User, Kinds, Words
  <2>2. memory' = [a \in Words |-> IF app.start <= a /\ a < app.break THEN User ELSE memory[a]]
    BY DEF run
  <2>3. memory \in [Words -> Kinds \X Words]
    BY DEF LoadInv, TypeOK
  <2> QED BY <2>1, <2>2, <2>3
<1>6. TypeOK'
  <2>1. q \in [stdout_ptr : Words, stdout_size : Words, stderr_ptr : Words,
               stderr_size : Words, OB_ptr : Words, OB_size : Words, break : Words]
    BY <1>1, <1>2, <1>3, <1>4 DEF InOrder
  <2> HIDE DEF q
  <2> QED BY <1>1, <1>5, <2>1 DEF LoadInv, TypeOK
<1>7. BuffersAreApart'
  BY <1>1 DEF LoadInv, BuffersAreApart
<1>8. OutputIsInside'
  <2>1. /\ LoadStart <= stdout_load_vaddr(c)
        /\ stdout_load_vaddr(c) + nout <= stderr_load_vaddr(c)
        /\ stderr_load_vaddr(c) + nerr <= OB_load_vaddr(c)
        /\ OB_load_vaddr(c) + c.OB_size <= app.break
        /\ app.break <= vaddr_break
    <3> HIDE DEF nout, nerr, c
    <3> QED BY <1>1, <1>2, <1>3, <1>4, SizesAssumption DEF InOrder, Words
  <2> HIDE DEF nout, nerr, c
  <2> QED BY <1>1, <2>1 DEF OutputIsInside
<1>9. ImageIsIntact' /\ InputsArePlaced' /\ AppInv'
  BY <1>1 DEF ImageIsIntact, InputsArePlaced, AppInv
<1> QED BY <1>6, <1>7, <1>8, <1>9 DEF LoadInv

(* Every step preserves the invariant.                                       *)
LEMMA NextLoad == LoadInv /\ [Next]_vars => LoadInv'
<1> SUFFICES ASSUME LoadInv, [Next]_vars PROVE LoadInv'
  OBVIOUS
<1>1. ASSUME NEW size \in AllocSizes, allocate_virtual_memory(size) PROVE LoadInv'
  BY <1>1, AllocatePreserves
<1>2. ASSUME NEW f \in Files, NEW c \in Configs, load(f, c) PROVE LoadInv'
  BY <1>2, LoadPreserves
<1>3. ASSUME NEW out \in Sizes, NEW err \in Sizes, run(out, err) PROVE LoadInv'
  BY <1>3, RunPreserves
<1>4. CASE UNCHANGED vars
  BY <1>4 DEF vars, LoadInv, TypeOK, BuffersAreApart, ImageIsIntact, InputsArePlaced, Holds,
              OutputIsInside, AppInv, Accepts, ImageFits, SpecialRegionFits, EndsBelowBuffers
<1>5. ASSUME NEW f \in Files, NEW c \in Configs, load_refused(f, c) PROVE LoadInv'
  BY <1>4, <1>5 DEF load_refused
<1> QED BY <1>1, <1>2, <1>3, <1>4, <1>5 DEF Next

(* The invariant of the loader holds in every reachable state.               *)
THEOREM LoaderCorrect == Spec => []LoadInv
<1>1. Init => LoadInv
  BY InitLoad
<1>2. LoadInv /\ [Next]_vars => LoadInv'
  BY NextLoad
<1> QED BY <1>1, <1>2, PTL DEF Spec

(* The loader's addresses stay words, and vaddr_break stays between the      *)
(* kernel and the end of the memory, for any files and requests.             *)
THEOREM LoaderTypes == Spec => []TypeOK
<1>1. LoadInv => TypeOK
  BY DEF LoadInv
<1> QED BY <1>1, LoaderCorrect, PTL

(* For any words, pages and buffer sizes, allocate_virtual_memory never      *)
(* gives the same memory, or memory of the kernel, away twice.               *)
THEOREM BuffersNeverOverlap == Spec => []BuffersAreApart
<1>1. LoadInv => BuffersAreApart
  BY DEF LoadInv
<1> QED BY <1>1, LoaderCorrect, PTL

(* For any file, a program that load accepts consists of bytes of the file   *)
(* and is complete when it starts.                                           *)
THEOREM ImagesAreIntact == Spec => []ImageIsIntact
<1>1. LoadInv => ImageIsIntact
  BY DEF LoadInv
<1> QED BY <1>1, LoaderCorrect, PTL

(* For any request that load accepts the inputs are complete in memory.      *)
THEOREM InputsAreComplete == Spec => []InputsArePlaced
<1>1. LoadInv => InputsArePlaced
  BY DEF LoadInv
<1> QED BY <1>1, LoaderCorrect, PTL

(* The output ELF::run reports is always memory of the program's region.     *)
THEOREM OutputsAreInside == Spec => []OutputIsInside
<1>1. LoadInv => OutputIsInside
  BY DEF LoadInv
<1> QED BY <1>1, LoaderCorrect, PTL

(* No file and no request make load write to the kernel or to its buffers.   *)
THEOREM KernelIsNeverWritten == Spec => OnlyUserMemoryIsWritten
<1> DEFINE Kept == \A a \in Words :
                      memory'[a] # memory[a] => KernelBreak <= a /\ a < vaddr_break
<1>1. ASSUME LoadInv, [Next]_vars PROVE [Kept]_vars
  <2>1. ASSUME NEW f \in Files, NEW c \in Configs, load(f, c) PROVE Kept
    <3>1. /\ Accepts(f, c) /\ vaddr_break \in Breaks /\ memory' = Loaded(memory, f, c)
      BY <1>1, <2>1 DEF load, LoadInv, TypeOK, Breaks
    <3>2. KernelBreak <= LoadStart
      BY <3>1, LimitIsExact DEF Accepts
    <3>3. special_region_break(c) \in Words /\ special_region_break(c) <= vaddr_break
      BY <3>1, SpecialRegion DEF Accepts, InOrder
    <3>4. \A a \in Words : ~ (LoadStart <= a /\ a < special_region_break(c))
                               => memory'[a] = memory[a]
      BY <3>1, LoadedValue
    <3> QED BY <3>1, <3>2, <3>3, <3>4, SizesAssumption DEF Words, Breaks
  <2>2. ASSUME NEW out \in Sizes, NEW err \in Sizes, run(out, err) PROVE Kept
    <3>1. /\ app # NoApp /\ app.file \in Files /\ app.config \in Configs
          /\ vaddr_break \in Breaks /\ Accepts(app.file, app.config)
          /\ app.start = LoadStart /\ app.break = special_region_break(app.config)
      BY <1>1, <2>2 DEF run, LoadInv, TypeOK, AppInv, Breaks
    <3>2. KernelBreak <= LoadStart
      BY <3>1, LimitIsExact DEF Accepts
    <3>3. app.break \in Words /\ app.break <= vaddr_break
      BY <3>1, SpecialRegion DEF Accepts, InOrder
    <3>4. \A a \in Words : ~ (LoadStart <= a /\ a < app.break) => memory'[a] = memory[a]
      BY <2>2, <3>1 DEF run
    <3> QED BY <3>1, <3>2, <3>3, <3>4, SizesAssumption DEF Words, Breaks
  <2>3. ASSUME NEW size \in AllocSizes, allocate_virtual_memory(size) PROVE Kept
    BY <2>3 DEF allocate_virtual_memory
  <2>4. ASSUME NEW f \in Files, NEW c \in Configs, load_refused(f, c) PROVE UNCHANGED vars
    BY <2>4 DEF load_refused
  <2> HIDE DEF Kept
  <2> QED BY <1>1, <2>1, <2>2, <2>3, <2>4 DEF Next
<1>2. LoadInv /\ [Next]_vars => [Kept]_vars
  BY <1>1
<1>3. OnlyUserMemoryIsWritten <=> [][Kept]_vars
  BY PTL DEF OnlyUserMemoryIsWritten
<1> QED BY <1>2, <1>3, LoaderCorrect, PTL DEF Spec
=============================================================================
