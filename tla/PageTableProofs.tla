-------------------------- MODULE PageTableProofs ---------------------------
(***************************************************************************)
(* The page table of the driver, for any number of clients and of calls,   *)
(* any sizes of table, memory and images within the assumptions of         *)
(* PageTable.                                                              *)
(*                                                                         *)
(* Two invariants.  TableInv says how far init_page_table_4k has come and  *)
(* that map_page works apart from its tables: no entry that map_page reads *)
(* leads into them and no block it takes is one of them, even when calls   *)
(* race.  It implies LowMappingHolds.  TreeInv says what map_page has      *)
(* built while calls did not overlap: a tree with one table for each part  *)
(* of the address space that image and stack touch.  So there are no more  *)
(* tables than such parts, for which the blocks suffice, and the processor *)
(* finds what was mapped.                                                  *)
(***************************************************************************)
EXTENDS PageTable, FiniteSetTheorems, TLAPS

\* Arithmetic that the provers need in small pieces.
LEMMA ProductGrows ==
    ASSUME NEW a \in Int, NEW b \in Int, NEW d \in Nat, a <= b
    PROVE  a * d <= b * d
<1>1. PICK e \in Nat : b = a + e
  BY b - a \in Nat
<1>2. b * d = a * d + e * d
  BY <1>1
<1>3. e * d >= 0
  OBVIOUS
<1> QED
  BY <1>2, <1>3

\* Quotient and rest.
LEMMA DivisionHolds ==
    ASSUME NEW x \in Nat, NEW d \in Nat \ {0}
    PROVE  /\ x \div d \in Nat /\ x % d \in 0..(d - 1)
           /\ x = (x \div d) * d + (x % d)
OBVIOUS

\* They are unique, ...
LEMMA QuotientUnique ==
    ASSUME NEW d \in Nat \ {0}, NEW q \in Int, NEW r \in 0..(d - 1),
           NEW p \in Int, NEW s \in 0..(d - 1), q * d + r = p * d + s
    PROVE  q = p /\ r = s
<1>1. CASE q < p
  <2>1. (q + 1) * d <= p * d
    BY <1>1, ProductGrows
  <2>2. (q + 1) * d = q * d + d
    OBVIOUS
  <2>3. q * d \in Int /\ p * d \in Int
    OBVIOUS
  <2> QED
    BY <2>1, <2>2, <2>3
<1>2. CASE p < q
  <2>1. (p + 1) * d <= q * d
    BY <1>2, ProductGrows
  <2>2. (p + 1) * d = p * d + d
    OBVIOUS
  <2>3. q * d \in Int /\ p * d \in Int
    OBVIOUS
  <2> QED
    BY <2>1, <2>2, <2>3
<1>3. CASE q = p
  <2>1. q * d \in Int
    OBVIOUS
  <2> QED
    BY <1>3, <2>1
<1> QED
  BY <1>1, <1>2, <1>3

\* ... so they can be read off a sum.
LEMMA QuotientIs ==
    ASSUME NEW d \in Nat \ {0}, NEW q \in Nat, NEW r \in 0..(d - 1)
    PROVE  (q * d + r) \div d = q /\ (q * d + r) % d = r
<1> DEFINE x == q * d + r
<1>1. q * d \in Nat
  OBVIOUS
<1>2. x \in Nat
  BY <1>1
<1>3. x \div d \in Nat /\ x % d \in 0..(d - 1) /\ x = (x \div d) * d + (x % d)
  BY <1>2, DivisionHolds
<1> DEFINE p == x \div d
           s == x % d
<1>4. p \in Nat /\ s \in 0..(d - 1) /\ q * d + r = p * d + s
  BY <1>3
<1> HIDE DEF x, p, s
<1>5. q = p /\ r = s
  BY <1>4, QuotientUnique
<1> QED
  BY <1>5 DEF x, p, s

\* Quotients are monotonic.
LEMMA QuotientGrows ==
    ASSUME NEW d \in Nat \ {0}, NEW x \in Nat, NEW y \in Nat, x <= y
    PROVE  x \div d <= y \div d
<1>1. /\ x \div d \in Nat /\ x % d \in 0..(d - 1) /\ x = (x \div d) * d + (x % d)
      /\ y \div d \in Nat /\ y % d \in 0..(d - 1) /\ y = (y \div d) * d + (y % d)
  BY DivisionHolds
<1> SUFFICES ASSUME y \div d < x \div d PROVE FALSE
  BY <1>1
<1> DEFINE q == x \div d
           p == y \div d
<1>2. (p + 1) * d <= q * d
  BY <1>1, ProductGrows
<1>3. (p + 1) * d = p * d + d /\ p * d \in Int /\ q * d \in Int
  BY <1>1
<1> QED
  BY <1>1, <1>2, <1>3

\* Dividing twice is dividing by the product.
LEMMA QuotientTwice ==
    ASSUME NEW d \in Nat \ {0}, NEW e \in Nat \ {0}, NEW x \in Nat
    PROVE  x \div (d * e) = (x \div d) \div e
<1> DEFINE q == x \div d
           r == x % d
           p == q \div e
           s == q % e
<1>1. q \in Nat /\ r \in 0..(d - 1) /\ x = q * d + r
  BY DivisionHolds
<1> HIDE DEF q, r
<1>2. p \in Nat /\ s \in 0..(e - 1) /\ q = p * e + s
  BY <1>1, DivisionHolds
<1> HIDE DEF p, s
<1>3. x = (p * e + s) * d + r
  BY <1>1, <1>2
<1>4. (p * e + s) * d = p * (d * e) + s * d
  BY <1>2
<1>5. s * d + d <= e * d
  <2>1. (s + 1) * d <= e * d
    BY <1>2, ProductGrows
  <2>2. (s + 1) * d = s * d + d
    BY <1>2
  <2> QED
    BY <2>1, <2>2
<1>6. s * d >= 0 /\ s * d \in Int /\ p * (d * e) \in Int
  BY <1>2
<1>7. e * d = d * e /\ d * e \in Nat \ {0}
  BY <1>5, <1>6
<1>8. s * d + r \in 0..(d * e - 1)
  BY <1>1, <1>5, <1>6, <1>7
<1>9. x = p * (d * e) + (s * d + r)
  <2> DEFINE a == p * (d * e)
             b == s * d
  <2>1. x = (a + b) + r /\ a \in Int /\ b \in Int
    BY <1>3, <1>4, <1>6
  <2> HIDE DEF a, b
  <2>2. x = a + (b + r)
    BY <1>1, <2>1
  <2> QED
    BY <2>2 DEF a, b
<1>10. x \div (d * e) = p
  BY <1>2, <1>7, <1>8, <1>9, QuotientIs
<1> QED
  BY <1>10 DEF p, q

\* div_round_up is the least number of parts that suffices.
LEMMA RoundUpIs ==
    ASSUME NEW x \in Nat \ {0}, NEW d \in Nat \ {0}
    PROVE  LET c == div_round_up(x, d)
           IN  c \in Nat \ {0} /\ x <= c * d /\ c * d < x + d
<1> DEFINE c == (x + d - 1) \div d
           s == (x + d - 1) % d
<1>1. c \in Nat /\ s \in 0..(d - 1) /\ x + d - 1 = c * d + s
  BY x + d - 1 \in Nat, DivisionHolds
<1>2. c * d \in Int
  BY <1>1
<1>3. c # 0
  <2>1. 0 * d = 0
    OBVIOUS
  <2> QED
    BY <1>1, <2>1
<1> HIDE DEF c, s
<1>4. x <= c * d /\ c * d < x + d
  BY <1>1, <1>2
<1> QED
  BY <1>1, <1>3, <1>4 DEF c, div_round_up

----------------------------------------------------------------------------
(* The blocks of init_page_table_4k *)

P4_PAGE == PT_ENTRIES * PT_ENTRIES * PT_ENTRIES

\* The first block that map_page may take.
Low == phys_base_addr + 3 + P2Num + div_round_up(total_size, PT_ENTRIES)

\* What the assumptions on the constants amount to.
LEMMA ConstantsFit ==
    /\ PT_ENTRIES \in Nat /\ PT_ENTRIES >= 4
    /\ P3_PAGE \in Nat \ {0} /\ P4_PAGE \in Nat \ {0} /\ P4_PAGE = P3_PAGE * PT_ENTRIES
    /\ P2Num \in 1..PT_ENTRIES
    /\ Low \in Nat /\ Low > phys_base_addr + 2
    /\ page_table_break = Low + Reserved
    /\ page_table_size = Low + Reserved - phys_base_addr /\ page_table_size \in Nat
<1> USE TableAssumption
<1>1. P3_PAGE \in Nat \ {0}
  BY SMT DEF P3_PAGE
<1>2. P4_PAGE = P3_PAGE * PT_ENTRIES /\ P4_PAGE \in Nat \ {0}
  <2>1. P4_PAGE = P3_PAGE * PT_ENTRIES
    BY DEF P4_PAGE, P3_PAGE
  <2>2. \A x, y \in Nat \ {0} : x * y \in Nat \ {0}
    BY SMT
  <2> QED
    BY <1>1, <2>1, <2>2
<1>3. PT_ENTRIES >= 4
  <2>1. P4_PAGE < (PT_ENTRIES - 2) * P4_PAGE
    BY <1>2, LinuxAssumption DEF P4_PAGE
  <2> SUFFICES ASSUME PT_ENTRIES - 2 <= 1 PROVE FALSE
    OBVIOUS
  <2>2. (PT_ENTRIES - 2) * P4_PAGE <= 1 * P4_PAGE
    BY <1>2, ProductGrows
  <2> QED
    BY <1>2, <2>1, <2>2
<1> DEFINE D == div_round_up(total_size, PT_ENTRIES)
<1>0. total_size \in Nat \ {0}
  OBVIOUS
<1>4. D \in Nat \ {0}
  BY <1>0, RoundUpIs
<1>5. P2Num \in Nat \ {0} /\ P2Num * P3_PAGE < total_size + P3_PAGE
  BY <1>0, <1>1, RoundUpIs DEF P2Num
<1>6. P2Num <= PT_ENTRIES
  <2>1. total_size <= PT_ENTRIES * P3_PAGE
    BY <1>1, <1>2 DEF P4_PAGE
  <2> SUFFICES ASSUME PT_ENTRIES + 1 <= P2Num PROVE FALSE
    BY <1>5
  <2>2. (PT_ENTRIES + 1) * P3_PAGE <= P2Num * P3_PAGE
    BY <1>1, <1>5, ProductGrows
  <2>3. (PT_ENTRIES + 1) * P3_PAGE = PT_ENTRIES * P3_PAGE + P3_PAGE
    BY <1>1
  <2>4. PT_ENTRIES * P3_PAGE \in Int /\ P2Num * P3_PAGE \in Int
    BY <1>1, <1>5
  <2> HIDE DEF D
  <2> QED
    BY <1>1, <1>5, <2>1, <2>2, <2>3, <2>4
<1>7. num_blocks = Reserved + D + P2Num + 3
  BY DEF num_blocks, P2Num, P3_PAGE
<1> HIDE DEF D
<1>8. Low = phys_base_addr + 3 + P2Num + D
  BY DEF Low, D
<1> QED
  BY <1>1, <1>2, <1>3, <1>4, <1>5, <1>6, <1>7, <1>8 DEF page_table_break, page_table_size

\* Where the loops put their tables.
P2At(a) == phys_base_addr + 3 + a * (PT_ENTRIES + 1)
P1At(a, b) == P2At(a) + 1 + b

\* A gigabyte that is begun has its tables in the memory, and all of them
\* unless it is the last.
LEMMA TablesOfGigabyte ==
    ASSUME NEW a \in Nat, a < P2Num
    PROVE  LET D == div_round_up(total_size, PT_ENTRIES)
           IN  /\ P1Num(a) \in 1..PT_ENTRIES
               /\ a * PT_ENTRIES + P1Num(a) <= D
               /\ a + 1 < P2Num => P1Num(a) = PT_ENTRIES
               /\ a + 1 = P2Num => a * PT_ENTRIES + P1Num(a) = D
               /\ \A b \in 0..(PT_ENTRIES - 1) : a * PT_ENTRIES + b < D => b < P1Num(a)
<1> DEFINE E == PT_ENTRIES
           G == P3_PAGE
           T == total_size
           D == div_round_up(T, E)
           rest == T - a * G
           c == div_round_up(rest, E)
<1>1. E \in Nat /\ E >= 4 /\ G \in Nat \ {0} /\ T \in Nat \ {0} /\ P2Num \in Nat
  BY ConstantsFit, TableAssumption
<1>2. G = E * E
  BY DEF P3_PAGE
<1>3. T <= P2Num * G /\ P2Num * G < T + G
  BY <1>1, RoundUpIs DEF P2Num
<1>4. a * G + G <= P2Num * G /\ a * G \in Int /\ P2Num * G \in Int
  <2>1. (a + 1) * G <= P2Num * G
    BY <1>1, ProductGrows
  <2>2. (a + 1) * G = a * G + G
    BY <1>1
  <2> QED
    BY <1>1, <2>1, <2>2
<1>5. rest \in Nat \ {0}
  BY <1>1, <1>3, <1>4
<1>6. D \in Nat \ {0} /\ T <= D * E /\ D * E < T + E
  BY <1>1, RoundUpIs
<1>7. c \in Nat \ {0} /\ rest <= c * E /\ c * E < rest + E
  BY <1>1, <1>5, RoundUpIs
<1>8. P1Num(a) = IF c < E THEN c ELSE E
  BY DEF P1Num, min
<1> HIDE DEF E, G, T, D, rest, c
<1>9. (a * E + c) * E = a * G + c * E
  BY <1>1, <1>2, <1>7
<1>10. a * E + c = D
  <2> DEFINE x == a * E + c
  <2>1. x \in Int /\ x * E \in Int /\ D * E \in Int /\ c * E \in Int
    BY <1>1, <1>6, <1>7
  <2>2. T <= x * E /\ x * E < T + E
    <3> HIDE DEF x
    <3>1. x * E = a * G + c * E
      BY <1>9 DEF x
    <3>2. rest = T - a * G
      BY DEF rest, T, G
    <3> QED
      BY <1>1, <1>4, <1>7, <2>1, <3>1, <3>2
  <2> HIDE DEF x
  <2>3. CASE x + 1 <= D
    <3>1. (x + 1) * E <= D * E
      BY <1>1, <1>6, <2>1, <2>3, ProductGrows
    <3>2. (x + 1) * E = x * E + E
      BY <1>1, <2>1
    <3> QED
      BY <1>1, <1>6, <2>1, <2>2, <3>1, <3>2
  <2>4. CASE D + 1 <= x
    <3>1. (D + 1) * E <= x * E
      BY <1>1, <1>6, <2>1, <2>4, ProductGrows
    <3>2. (D + 1) * E = D * E + E
      BY <1>1, <1>6
    <3> QED
      BY <1>1, <1>6, <2>1, <2>2, <3>1, <3>2
  <2> QED
    BY <1>6, <2>1, <2>3, <2>4 DEF x
<1>11. a + 1 < P2Num => c > E
  <2> SUFFICES ASSUME a + 1 < P2Num, c <= E PROVE FALSE
    BY <1>1, <1>7
  <2>1. (a + 2) * G <= P2Num * G
    BY <1>1, ProductGrows
  <2>2. (a + 2) * G = a * G + G + G
    BY <1>1
  <2>3. c * E <= E * E
    BY <1>1, <1>7, ProductGrows
  <2>4. rest = T - a * G
    BY DEF rest, T, G
  <2>5. c * E \in Int
    BY <1>1, <1>7
  <2> QED
    BY <1>1, <1>2, <1>3, <1>4, <1>7, <2>1, <2>2, <2>3, <2>4, <2>5
<1>12. a + 1 = P2Num => c <= E
  <2> SUFFICES ASSUME a + 1 = P2Num, E + 1 <= c PROVE FALSE
    BY <1>1, <1>7
  <2>1. P2Num * G = a * G + G
    BY <1>1
  <2>2. (E + 1) * E <= c * E
    BY <1>1, <1>7, ProductGrows
  <2>3. (E + 1) * E = G + E
    BY <1>1, <1>2
  <2>4. rest = T - a * G
    BY DEF rest, T, G
  <2>5. c * E \in Int
    BY <1>1, <1>7
  <2> QED
    BY <1>1, <1>3, <1>4, <1>7, <2>1, <2>2, <2>3, <2>4, <2>5
<1>13. a * E \in Int
  BY <1>1
<1> DEFINE aE == a * E
           n == P1Num(a)
<1>14. aE \in Int /\ aE + c = D /\ n = IF c < E THEN c ELSE E
  BY <1>8, <1>10, <1>13
<1> HIDE DEF aE, n
<1>15. /\ n \in 1..E /\ aE + n <= D
       /\ a + 1 < P2Num => n = E
       /\ a + 1 = P2Num => aE + n = D
       /\ \A b \in 0..(E - 1) : aE + b < D => b < n
  BY <1>1, <1>6, <1>7, <1>11, <1>12, <1>14
<1> QED
  BY <1>15 DEF aE, n, E, D, T

\* The tables of a gigabyte lie below those of the next, and all below Low.
LEMMA TablesInOrder ==
    ASSUME NEW a \in Nat
    PROVE  /\ P2At(a) \in Nat /\ P2At(a) > phys_base_addr + 2
           /\ \A x \in Nat, y \in Index : x < a => P1At(x, y) < P2At(a)
           /\ a < P2Num => \A b \in Nat : b < P1Num(a) => P1At(a, b) < Low
           /\ a < P2Num => P1At(a, P1Num(a)) = IF a + 1 < P2Num THEN P2At(a + 1) ELSE Low
<1> DEFINE E == PT_ENTRIES
           D == div_round_up(total_size, PT_ENTRIES)
<1>1. /\ E \in Nat /\ E >= 4 /\ P2Num \in Nat /\ Low \in Nat
      /\ phys_base_addr \in Nat
  BY ConstantsFit, TableAssumption
<1>2. Low = phys_base_addr + 3 + P2Num + D
  BY DEF Low
<1>3. D \in Int
  <2>1. total_size \in Nat \ {0} /\ PT_ENTRIES \in Nat \ {0}
    BY <1>1, TableAssumption
  <2> QED
    BY <2>1, RoundUpIs
<1>4. a * (E + 1) = a * E + a /\ a * E \in Nat
  BY <1>1
<1>5. \A x \in Nat, y \in Index : x < a => P1At(x, y) < P2At(a)
  <2> SUFFICES ASSUME NEW x \in Nat, NEW y \in Index, x < a PROVE P1At(x, y) < P2At(a)
    OBVIOUS
  <2>1. (x + 1) * (E + 1) <= a * (E + 1)
    BY <1>1, ProductGrows
  <2>2. (x + 1) * (E + 1) = x * (E + 1) + (E + 1) /\ x * (E + 1) \in Nat
    BY <1>1
  <2>3. y <= E - 1 /\ y \in Nat
    BY <1>1 DEF Index
  <2>4. a * (E + 1) \in Nat
    BY <1>1
  <2> QED
    BY <1>1, <2>1, <2>2, <2>3, <2>4 DEF P1At, P2At
<1>6. P2At(a) \in Nat /\ P2At(a) > phys_base_addr + 2
  BY <1>1, <1>4 DEF P2At
<1>7. CASE a < P2Num
  <2> DEFINE n == P1Num(a)
             aE == a * E
  <2>1. /\ n \in 1..E /\ aE + n <= D
        /\ a + 1 < P2Num => n = E
        /\ a + 1 = P2Num => aE + n = D
    BY <1>7, TablesOfGigabyte
  <2>2. P2At(a) = phys_base_addr + 3 + aE + a /\ aE \in Nat
    BY <1>1, <1>4 DEF P2At
  <2>3. P2At(a + 1) = phys_base_addr + 3 + aE + a + E + 1
    <3>1. (a + 1) * (E + 1) = aE + a + E + 1
      BY <1>1
    <3> HIDE DEF aE
    <3> QED
      BY <1>1, <2>2, <3>1 DEF P2At
  <2> HIDE DEF n, aE, E, D
  <2>4. \A b \in Nat : b < n => P1At(a, b) < Low
    BY <1>1, <1>2, <1>3, <1>7, <2>1, <2>2 DEF P1At
  <2>5. P1At(a, n) = IF a + 1 < P2Num THEN P2At(a + 1) ELSE Low
    BY <1>1, <1>2, <1>3, <1>7, <2>1, <2>2, <2>3 DEF P1At
  <2> QED
    BY <1>5, <1>6, <2>4, <2>5 DEF n
<1> QED
  BY <1>5, <1>6, <1>7

\* A page of the memory lies in a table that the loops reach.
LEMMA PagesInTables ==
    ASSUME NEW x \in Nat, NEW y \in Index, NEW z \in Index, P0(x, y, z) < total_size
    PROVE  x < P2Num /\ y < P1Num(x)
<1> DEFINE E == PT_ENTRIES
           G == P3_PAGE
           T == total_size
           D == div_round_up(T, E)
<1>1. E \in Nat \ {0} /\ E >= 4 /\ G \in Nat \ {0} /\ T \in Nat \ {0} /\ P2Num \in Nat
  BY ConstantsFit, TableAssumption
<1>2. G = E * E
  BY DEF P3_PAGE
<1>3. y \in 0..(E - 1) /\ z \in 0..(E - 1)
  BY DEF Index
<1>4. x * G \in Nat /\ y * E \in Nat /\ x * G + y * E + z < T
  BY <1>1, <1>3 DEF P0
<1>5. D \in Nat \ {0} /\ T <= D * E
  BY <1>1, RoundUpIs
<1>6. T <= P2Num * G
  BY <1>1, RoundUpIs DEF P2Num
<1> HIDE DEF E, G, T, D
<1>7. x < P2Num
  <2> SUFFICES ASSUME P2Num <= x PROVE FALSE
    BY <1>1
  <2>1. P2Num * G <= x * G
    BY <1>1, ProductGrows
  <2>2. P2Num * G \in Int
    BY <1>1
  <2> QED
    BY <1>1, <1>3, <1>4, <1>6, <2>1, <2>2
<1>8. x * E + y < D
  <2> DEFINE w == x * E + y
  <2>1. w \in Nat
    BY <1>1, <1>3
  <2>2. w * E = x * G + y * E
    BY <1>1, <1>2, <1>3
  <2> HIDE DEF w
  <2> SUFFICES ASSUME D <= w PROVE FALSE
    BY <1>5, <2>1 DEF w
  <2>3. D * E <= w * E
    BY <1>1, <1>5, <2>1, ProductGrows
  <2>4. D * E \in Int /\ w * E \in Int
    BY <1>1, <1>5, <2>1
  <2> QED
    BY <1>1, <1>3, <1>4, <1>5, <2>2, <2>3, <2>4
<1>9. y < P1Num(x)
  BY <1>3, <1>7, <1>8, TablesOfGigabyte DEF E, D, T
<1> QED
  BY <1>7, <1>9

----------------------------------------------------------------------------
(* What is true of the memory while it is set up, and while clients race *)

Blocks == phys_base_addr..(page_table_break - 1)
LowBlocks == phys_base_addr..(Low - 1)
EntryType == [p : BOOLEAN, h : BOOLEAN, to : Int]
MemType == [Blocks -> [Index -> EntryType]]

\* The entries of the root that init_page_table_4k writes.
Special == {0, PT_ENTRIES - 2, PT_ENTRIES - 1}

\* With g tables of the second level entered and those of the first level
\* up to table b of gigabyte a: every page there is found.
LowTables(m, g, a, b) ==
    \A x \in Nat, y \in Index, z \in Index : P0(x, y, z) < total_size =>
        /\ x < g => m[phys_base_addr + 2][x] = Entry(P2At(x))
        /\ x < a \/ (x = a /\ y < b) =>
              /\ m[P2At(x)][y] = Entry(P1At(x, y))
              /\ m[P1At(x, y)][z] = Entry(P0(x, y, z) + phys_base_addr)

\* init_page_table_4k at each of its steps.
AtP4(m) == m[phys_base_addr][PT_ENTRIES - 1] = Entry(phys_base_addr)
AtP3Upp(m) ==
    /\ m[phys_base_addr][PT_ENTRIES - 2] = Entry(phys_base_addr + 1)
    /\ m[phys_base_addr + 1] = [i \in Index |-> HugeEntry(i * P3_PAGE)]
AtP3Low(m) == m[phys_base_addr][0] = Entry(phys_base_addr + 2)

Building(m, next, i) ==
    /\ i.pc # "P4" => i.P4 = phys_base_addr /\ AtP4(m)
    /\ i.pc = "P3Upp" => next = phys_base_addr + 1
    /\ i.pc = "P3Low" => next = phys_base_addr + 2
    /\ i.pc \in {"P3Low", "P2", "P1", "done"} => AtP3Upp(m)
    /\ i.pc \in {"P3Upp", "P3Low"} => i.P3Idx = 0
    /\ i.pc = "P4" => i.P3Idx = 0 /\ next = 0
    /\ i.pc \in {"P2", "P1", "done"} => AtP3Low(m) /\ i.P3Low = phys_base_addr + 2
    /\ i.pc = "P2" => /\ i.P3Idx <= P2Num
                      /\ next = IF i.P3Idx < P2Num THEN P2At(i.P3Idx) ELSE Low
                      /\ LowTables(m, i.P3Idx, i.P3Idx, 0)
    /\ i.pc = "P1" => /\ i.P3Idx < P2Num /\ i.P2Idx <= P1Num(i.P3Idx)
                      /\ i.P2 = P2At(i.P3Idx)
                      /\ next = P1At(i.P3Idx, i.P2Idx)
                      /\ LowTables(m, i.P3Idx + 1, i.P3Idx, i.P2Idx)
    /\ i.pc = "done" => next >= Low /\ LowTables(m, P2Num, P2Num, 0)

\* No entry that map_page reads leads into the tables of init_page_table_4k.
Outside(e) == e.to \notin LowBlocks
Separate(m, i) ==
    /\ \A t \in Low..(page_table_break - 1), k \in Index : Outside(m[t][k])
    /\ i.pc # "P4" => \A k \in Index \ Special : Outside(m[phys_base_addr][k])
    /\ i.pc \notin {"P4", "done"} => \A k \in Index \ Special : m[phys_base_addr][k] = Absent

\* A client in map_page: it writes neither to those tables nor to the special
\* entries of the root.
Walking(t) ==
    /\ t.pc \in {"look", "read_next", "bump_next", "clear", "store"}
    /\ t.size \in Nat \ {0} /\ ~TooLarge(t.size)
    /\ t.page \in 1..(num_pages(t.size) + KERNEL_STACK_SIZE)
    /\ t.level \in 1..4 /\ (t.pc # "look" => t.level > 1)
    /\ t.table \in Int /\ (t.level = 4 => t.table = phys_base_addr)
    /\ t.level < 4 => t.table \notin LowBlocks
    /\ t.block \in Int /\ t.block \notin LowBlocks
    /\ t.pc = "bump_next" => t.block >= Low
    /\ t.pc = "clear" => t.block \in Low..(page_table_break - 1)

InitType == [pc : {"P4", "P3Upp", "P3Low", "P2", "P1", "done"}, P4 : Int, P3Low : Int,
             P2 : Int, P3Idx : Nat, P2Idx : Nat]
ThreadType == [pc : {"idle", "look", "read_next", "bump_next", "clear", "store"},
               size : Int, page : Int, level : Int, table : Int, block : Int]

\* The inductive invariant that also holds when calls overlap.
TableInv ==
    /\ mem \in MemType /\ next_block_phys_addr \in Int /\ init \in InitType
    /\ P4_base = (IF init.pc = "done" THEN phys_base_addr ELSE 0)
    /\ thread \in [Clients -> ThreadType]
    /\ \A c \in Clients : thread[c] = Idle \/ (init.pc = "done" /\ Walking(thread[c]))
    /\ Building(mem, next_block_phys_addr, init)
    /\ Separate(mem, init)

----------------------------------------------------------------------------
(* Storing *)

\* Entries and cleared tables have their types.
LEMMA EntriesFit ==
    /\ Zeroed \in [Index -> EntryType] /\ Absent \in EntryType
    /\ \A x \in Int : Entry(x) \in EntryType /\ HugeEntry(x) \in EntryType
BY DEF Zeroed, Absent, EntryType, Entry, HugeEntry

\* What a store through PTE changes.
LEMMA StoreIs ==
    ASSUME NEW m \in MemType, NEW t \in Int, NEW k \in Index, NEW e \in EntryType
    PROVE  /\ Store(m, t, k, e) \in MemType
           /\ \A u \in Blocks : u # t => Store(m, t, k, e)[u] = m[u]
           /\ t \in Blocks => /\ Store(m, t, k, e)[t][k] = e
                              /\ \A j \in Index : j # k => Store(m, t, k, e)[t][j] = m[t][j]
BY DEF Store, MemType

\* What a loop of stores changes.
LEMMA StoreAllIs ==
    ASSUME NEW m \in MemType, NEW t \in Blocks, NEW n \in Int, NEW e \in [Index -> EntryType]
    PROVE  /\ StoreAll(m, t, n, e) \in MemType
           /\ \A u \in Blocks : u # t => StoreAll(m, t, n, e)[u] = m[u]
           /\ \A j \in Index : StoreAll(m, t, n, e)[t][j] = IF j < n THEN e[j] ELSE m[t][j]
BY DEF StoreAll, MemType

\* What the memset of alloc_block changes.
LEMMA ClearIs ==
    ASSUME NEW m \in MemType, NEW t \in Blocks
    PROVE  /\ [m EXCEPT ![t] = Zeroed] \in MemType
           /\ [m EXCEPT ![t] = Zeroed][t] = Zeroed
           /\ \A u \in Blocks : u # t => [m EXCEPT ![t] = Zeroed][u] = m[u]
BY EntriesFit DEF MemType

\* init_page_table_4k never runs out of blocks.
LEMMA AllocIs ==
    ASSUME NEW m \in MemType, NEW next \in LowBlocks
    PROVE  /\ next \in Blocks
           /\ alloc_block(next) = next
           /\ Cleared(m, next) = [m EXCEPT ![next] = Zeroed]
<1>1. Low \in Nat /\ page_table_break = Low + Reserved /\ Reserved \in Nat /\ phys_base_addr \in Nat
  BY ConstantsFit, TableAssumption
<1>2. next + 1 <= page_table_break /\ next \in Int
  BY <1>1 DEF LowBlocks
<1> QED
  BY <1>1, <1>2 DEF alloc_block, Cleared, Blocks, LowBlocks

\* What taking a block and entering it in a table changes.
LEMMA LinkIs ==
    ASSUME mem \in MemType, next_block_phys_addr \in LowBlocks, NEW t \in LowBlocks,
           t # next_block_phys_addr, NEW k \in Index
    PROVE  LET next == next_block_phys_addr
           IN  /\ Link(t, k) \in MemType
               /\ Link(t, k)[next] = Zeroed
               /\ Link(t, k)[t][k] = Entry(next)
               /\ \A j \in Index : j # k => Link(t, k)[t][j] = mem[t][j]
               /\ \A u \in Blocks : u # t /\ u # next => Link(t, k)[u] = mem[u]
<1> DEFINE next == next_block_phys_addr
           m == [mem EXCEPT ![next] = Zeroed]
<1>1. next \in Blocks /\ alloc_block(next) = next /\ Cleared(mem, next) = m
  BY AllocIs
<1>2. t \in Blocks /\ t \in Int /\ next \in Int
  BY AllocIs DEF LowBlocks
<1>3. m \in MemType /\ m[next] = Zeroed /\ \A u \in Blocks : u # next => m[u] = mem[u]
  BY <1>1, ClearIs
<1>4. Entry(next) \in EntryType
  BY <1>2, EntriesFit
<1>5. Link(t, k) = Store(m, t, k, Entry(next))
  BY <1>1 DEF Link
<1> HIDE DEF m
<1>6. /\ Link(t, k) \in MemType
      /\ \A u \in Blocks : u # t => Link(t, k)[u] = m[u]
      /\ Link(t, k)[t][k] = Entry(next)
      /\ \A j \in Index : j # k => Link(t, k)[t][j] = m[t][j]
  BY <1>2, <1>3, <1>4, <1>5, StoreIs
<1> QED
  BY <1>1, <1>2, <1>3, <1>6

----------------------------------------------------------------------------
(* The steps of init_page_table_4k *)

\* The three tables that every set-up has, and their entries in the root.
LEMMA PlacesFit ==
    /\ 0 \in Index /\ PT_ENTRIES - 2 \in Index /\ PT_ENTRIES - 1 \in Index
    /\ 0 # PT_ENTRIES - 2 /\ 0 # PT_ENTRIES - 1 /\ PT_ENTRIES - 2 # PT_ENTRIES - 1
    /\ phys_base_addr \in LowBlocks /\ phys_base_addr + 1 \in LowBlocks
    /\ phys_base_addr + 2 \in LowBlocks
    /\ phys_base_addr \in Nat \ {0} /\ 0 \notin LowBlocks
    /\ LowBlocks \subseteq Blocks /\ Low..(page_table_break - 1) \subseteq Blocks
    /\ \A u \in Low..(page_table_break - 1) : u \notin LowBlocks
    /\ \A u \in Blocks : u \notin LowBlocks => u \in Low..(page_table_break - 1)
<1>1. /\ PT_ENTRIES \in Nat /\ PT_ENTRIES >= 4
      /\ Low \in Nat /\ Low > phys_base_addr + 2 /\ page_table_break = Low + Reserved
      /\ Reserved \in Nat /\ phys_base_addr \in Nat \ {0}
  BY ConstantsFit, TableAssumption
<1> QED
  BY <1>1 DEF Index, LowBlocks, Blocks

\* Separate depends on the blocks of map_page and on the rest of the root.
LEMMA SeparateKept ==
    ASSUME NEW m \in MemType, NEW n \in MemType, NEW i, NEW j,
           i.pc \notin {"P4", "done"}, Separate(m, i),
           \A u \in Low..(page_table_break - 1) : n[u] = m[u],
           \A k \in Index \ Special : n[phys_base_addr][k] = m[phys_base_addr][k]
    PROVE  Separate(n, j)
BY DEF Separate

\* Before init_page_table nothing is promised.
LEMMA InitEstablishes == Init => TableInv
<1> SUFFICES ASSUME Init PROVE TableInv
  OBVIOUS
<1>1. mem \in MemType
  BY EntriesFit DEF Init, MemType, Blocks, Stale
<1>2. init \in InitType /\ next_block_phys_addr \in Int
  BY DEF Init, InitType
<1>3. thread \in [Clients -> ThreadType]
  BY DEF Init, ThreadType, Idle
<1>4. Building(mem, next_block_phys_addr, init)
  BY DEF Init, Building
<1>5. Separate(mem, init)
  <2> SUFFICES ASSUME NEW t \in Low..(page_table_break - 1), NEW k \in Index
               PROVE  Outside(mem[t][k])
    BY DEF Init, Separate
  <2>1. mem[t][k].to = 0
    BY PlacesFit DEF Init, Blocks, Stale, Entry
  <2> QED
    BY <2>1, PlacesFit DEF Outside
<1> QED
  BY <1>1, <1>2, <1>3, <1>4, <1>5 DEF TableInv, Init

\* While the table is set up no client is active.
LEMMA AloneWhileBuilding ==
    ASSUME TableInv, init.pc # "done", UNCHANGED <<P4_base, thread>>,
           init'.pc # "done"
    PROVE  /\ P4_base' = (IF init'.pc = "done" THEN phys_base_addr ELSE 0)
           /\ thread' \in [Clients -> ThreadType]
           /\ \A c \in Clients : thread'[c] = Idle
BY DEF TableInv

\* The root maps itself.
LEMMA P4Step == TableInv /\ add_P4 => TableInv'
<1> SUFFICES ASSUME TableInv, add_P4 PROVE TableInv'
  OBVIOUS
<1> DEFINE B == phys_base_addr
           m == [mem EXCEPT ![B] = Zeroed]
<1>1. mem \in MemType /\ init \in InitType /\ init.pc = "P4" /\ Separate(mem, init)
      /\ Building(mem, next_block_phys_addr, init)
  BY DEF TableInv, add_P4
<1>2. B \in LowBlocks /\ B \in Blocks /\ B \in Nat \ {0}
  BY PlacesFit
<1>3. mem' = Store(m, B, PT_ENTRIES - 1, Entry(B))
  BY <1>1, <1>2, AllocIs DEF add_P4
<1>4. m \in MemType /\ m[B] = Zeroed /\ \A u \in Blocks : u # B => m[u] = mem[u]
  BY <1>1, <1>2, ClearIs
<1>5. Entry(B) \in EntryType /\ PT_ENTRIES - 1 \in Index
  BY <1>2, EntriesFit, PlacesFit
<1> HIDE DEF m
<1>6. /\ mem' \in MemType /\ mem'[B][PT_ENTRIES - 1] = Entry(B)
      /\ \A u \in Blocks : u # B => mem'[u] = m[u]
      /\ \A j \in Index : j # PT_ENTRIES - 1 => mem'[B][j] = m[B][j]
  BY <1>2, <1>3, <1>4, <1>5, StoreIs
<1>7. init' = [init EXCEPT !.pc = "P3Upp", !.P4 = B] /\ next_block_phys_addr' = B + 1
  BY <1>1, <1>2, AllocIs DEF add_P4
<1>8. init' \in InitType /\ init'.pc = "P3Upp" /\ init'.P4 = B /\ init'.P3Idx = init.P3Idx
  <2>1. B \in Int
    BY <1>2
  <2> HIDE DEF B
  <2> QED
    BY <1>1, <1>7, <2>1 DEF InitType
<1>9. Building(mem', next_block_phys_addr', init')
  BY <1>1, <1>6, <1>7, <1>8 DEF Building, AtP4
<1>10. Separate(mem', init')
  <2>1. ASSUME NEW u \in Low..(page_table_break - 1), NEW k \in Index PROVE Outside(mem'[u][k])
    <3>1. u \in Blocks /\ u # B
      BY <1>2, PlacesFit
    <3> QED
      BY <1>1, <1>4, <1>6, <3>1 DEF Separate
  <2>2. ASSUME NEW k \in Index \ Special PROVE Outside(mem'[B][k]) /\ mem'[B][k] = Absent
    <3>1. mem'[B][k] = Absent
      BY <1>4, <1>6 DEF Special, Zeroed
    <3> QED
      BY <3>1, PlacesFit DEF Absent, Outside
  <2> QED
    BY <2>1, <2>2 DEF Separate
<1>11. UNCHANGED <<P4_base, thread>>
  BY DEF add_P4
<1> QED
  BY <1>1, <1>2, <1>6, <1>7, <1>8, <1>9, <1>10, <1>11, AloneWhileBuilding DEF TableInv

\* All physical memory is entered, in huge pages.
LEMMA P3UppStep == TableInv /\ add_P3Upp => TableInv'
<1> SUFFICES ASSUME TableInv, add_P3Upp PROVE TableInv'
  OBVIOUS
<1> DEFINE B == phys_base_addr
           next == next_block_phys_addr
           m == Link(B, PT_ENTRIES - 2)
           e == [i \in Index |-> HugeEntry(i * P3_PAGE)]
<1>1. /\ mem \in MemType /\ init \in InitType /\ init.pc = "P3Upp" /\ Separate(mem, init)
      /\ Building(mem, next, init)
  BY DEF TableInv, add_P3Upp
<1>2. init.P4 = B /\ AtP4(mem) /\ next = B + 1 /\ init.P3Idx = 0
  BY <1>1 DEF Building
<1>3. /\ B \in LowBlocks /\ next \in LowBlocks /\ B # next /\ B \in Blocks /\ next \in Blocks
      /\ B \in Nat
  BY <1>2, PlacesFit
<1>4. mem' = StoreAll(m, next, PT_ENTRIES, e)
  BY <1>1, <1>2, <1>3, AllocIs DEF add_P3Upp
<1>5. /\ m \in MemType /\ m[B][PT_ENTRIES - 2] = Entry(next)
      /\ \A j \in Index : j # PT_ENTRIES - 2 => m[B][j] = mem[B][j]
      /\ \A u \in Blocks : u # B /\ u # next => m[u] = mem[u]
  BY <1>1, <1>3, LinkIs, PlacesFit
<1>6. e \in [Index -> EntryType] /\ PT_ENTRIES \in Int
  BY EntriesFit, ConstantsFit DEF Index
<1> HIDE DEF m, e
<1>7. /\ mem' \in MemType /\ \A u \in Blocks : u # next => mem'[u] = m[u]
      /\ \A j \in Index : mem'[next][j] = IF j < PT_ENTRIES THEN e[j] ELSE m[next][j]
  BY <1>3, <1>4, <1>5, <1>6, StoreAllIs
<1>8. mem'[next] = e
  <2>1. \A j \in Index : mem'[next][j] = e[j]
    BY <1>6, <1>7, ConstantsFit DEF Index
  <2>2. mem'[next] \in [Index -> EntryType]
    BY <1>3, <1>7 DEF MemType
  <2> QED
    BY <1>6, <2>1, <2>2
<1>9. /\ init' = [init EXCEPT !.pc = "P3Low"] /\ next_block_phys_addr' = B + 2
      /\ UNCHANGED <<P4_base, thread>>
  BY <1>2, <1>3 DEF add_P3Upp
<1>10. init' \in InitType /\ init'.pc = "P3Low" /\ init'.P4 = B /\ init'.P3Idx = 0
  BY <1>1, <1>2, <1>9 DEF InitType
<1>11. Building(mem', next_block_phys_addr', init')
  <2>1. AtP4(mem') /\ AtP3Upp(mem')
    BY <1>2, <1>3, <1>5, <1>7, <1>8, PlacesFit DEF AtP4, AtP3Upp, e
  <2> QED
    BY <1>9, <1>10, <2>1 DEF Building
<1>12. Separate(mem', init')
  <2>1. \A u \in Low..(page_table_break - 1) : mem'[u] = mem[u]
    BY <1>3, <1>5, <1>7, PlacesFit
  <2>2. \A k \in Index \ Special : mem'[B][k] = mem[B][k]
    BY <1>3, <1>5, <1>7 DEF Special
  <2> QED
    BY <1>1, <1>7, <2>1, <2>2, SeparateKept
<1> QED
  BY <1>1, <1>3, <1>7, <1>9, <1>10, <1>11, <1>12, AloneWhileBuilding DEF TableInv

\* The third level of the low mapping is entered.
LEMMA P3LowStep == TableInv /\ add_P3Low => TableInv'
<1> SUFFICES ASSUME TableInv, add_P3Low PROVE TableInv'
  OBVIOUS
<1> DEFINE B == phys_base_addr
           next == next_block_phys_addr
<1>1. /\ mem \in MemType /\ init \in InitType /\ init.pc = "P3Low" /\ Separate(mem, init)
      /\ Building(mem, next, init)
  BY DEF TableInv, add_P3Low
<1>2. init.P4 = B /\ AtP4(mem) /\ AtP3Upp(mem) /\ next = B + 2 /\ init.P3Idx = 0
  BY <1>1 DEF Building
<1>3. /\ B \in LowBlocks /\ next \in LowBlocks /\ B # next /\ B \in Blocks /\ next \in Blocks
      /\ B \in Nat /\ B + 1 \in Blocks /\ B + 1 # next /\ B # B + 1
  BY <1>2, PlacesFit
<1>4. mem' = Link(B, 0)
  BY <1>2 DEF add_P3Low
<1>5. /\ mem' \in MemType /\ mem'[B][0] = Entry(next)
      /\ \A j \in Index : j # 0 => mem'[B][j] = mem[B][j]
      /\ \A u \in Blocks : u # B /\ u # next => mem'[u] = mem[u]
  BY <1>1, <1>3, <1>4, LinkIs, PlacesFit
<1>6. /\ init' = [init EXCEPT !.pc = "P2", !.P3Low = next]
      /\ next_block_phys_addr' = B + 3 /\ UNCHANGED <<P4_base, thread>>
  <2>1. alloc_block(next) = next
    BY <1>1, <1>3, AllocIs
  <2>2. next + 1 = B + 3
    BY <1>2, <1>3
  <2> QED
    BY <2>1, <2>2 DEF add_P3Low
<1>7. /\ init' \in InitType /\ init'.pc = "P2" /\ init'.P4 = B /\ init'.P3Low = next
      /\ init'.P3Idx = 0
  <2>1. next \in Int
    BY <1>2, <1>3
  <2> HIDE DEF B, next
  <2> QED
    BY <1>1, <1>2, <1>6, <2>1 DEF InitType
<1>8. Building(mem', next_block_phys_addr', init')
  <2>1. AtP4(mem') /\ AtP3Upp(mem') /\ AtP3Low(mem')
    BY <1>2, <1>3, <1>5, PlacesFit DEF AtP4, AtP3Upp, AtP3Low
  <2>2. 0 < P2Num /\ P2At(0) = B + 3 /\ 0 <= P2Num
    BY <1>3, ConstantsFit DEF P2At
  <2>3. LowTables(mem', 0, 0, 0)
    BY DEF LowTables, Index
  <2> QED
    BY <1>2, <1>6, <1>7, <2>1, <2>2, <2>3 DEF Building
<1>9. Separate(mem', init')
  <2>1. \A u \in Low..(page_table_break - 1) : mem'[u] = mem[u]
    BY <1>3, <1>5, PlacesFit
  <2>2. \A k \in Index \ Special : mem'[B][k] = mem[B][k]
    BY <1>5 DEF Special
  <2> QED
    BY <1>1, <1>5, <2>1, <2>2, SeparateKept
<1> QED
  BY <1>1, <1>3, <1>5, <1>6, <1>7, <1>8, <1>9, AloneWhileBuilding DEF TableInv

\* The tables of earlier gigabytes, and of this one, are other blocks than the
\* next.
LEMMA EarlierTables ==
    ASSUME NEW a \in Nat, NEW x \in Nat, NEW y \in Index, x < a
    PROVE  /\ P2At(x) \in Int /\ P1At(x, y) \in Int
           /\ P2At(x) > phys_base_addr + 2 /\ P1At(x, y) > P2At(x) /\ P1At(x, y) < P2At(a)
<1>1. P2At(x) \in Nat /\ P2At(x) > phys_base_addr + 2
  BY TablesInOrder
<1>2. P1At(x, y) < P2At(a)
  BY TablesInOrder
<1>3. y \in Nat
  BY ConstantsFit DEF Index
<1> QED
  BY <1>1, <1>2, <1>3 DEF P1At

\* One gigabyte more has its table.
LEMMA P2Step == TableInv /\ add_P2 => TableInv'
<1> SUFFICES ASSUME TableInv, add_P2 PROVE TableInv'
  OBVIOUS
<1> DEFINE B == phys_base_addr
           next == next_block_phys_addr
           a == init.P3Idx
<1>1. /\ mem \in MemType /\ init \in InitType /\ init.pc = "P2" /\ Separate(mem, init)
      /\ Building(mem, next, init) /\ a < P2Num /\ a \in Nat
  BY DEF TableInv, add_P2, InitType
<1>2. /\ init.P4 = B /\ AtP4(mem) /\ AtP3Upp(mem) /\ AtP3Low(mem) /\ init.P3Low = B + 2
      /\ next = P2At(a) /\ LowTables(mem, a, a, 0)
  BY <1>1 DEF Building
<1>3. /\ B \in LowBlocks /\ B \in Blocks /\ B \in Nat /\ B + 1 \in Blocks /\ B + 2 \in LowBlocks
      /\ B + 2 \in Blocks
  BY PlacesFit
<1>4. next \in LowBlocks /\ next \in Int /\ next > B + 2
  <2>1. /\ P2At(a) \in Nat /\ P2At(a) > B + 2
        /\ \A b \in Nat : b < P1Num(a) => P1At(a, b) < Low
    BY <1>1, TablesInOrder
  <2>2. 0 < P1Num(a)
    BY <1>1, TablesOfGigabyte, ConstantsFit
  <2>3. P1At(a, 0) < Low
    BY <2>1, <2>2
  <2>4. Low \in Nat
    BY ConstantsFit
  <2> QED
    BY <1>2, <1>3, <2>1, <2>3, <2>4 DEF P1At, LowBlocks
<1>5. a \in Index
  BY <1>1, ConstantsFit DEF Index
<1>6. mem' = Link(B + 2, a)
  BY <1>2 DEF add_P2
<1>7. /\ mem' \in MemType /\ mem'[B + 2][a] = Entry(next)
      /\ \A j \in Index : j # a => mem'[B + 2][j] = mem[B + 2][j]
      /\ \A u \in Blocks : u # B + 2 /\ u # next => mem'[u] = mem[u]
  <2>1. B + 2 # next
    BY <1>3, <1>4
  <2> QED
    BY <1>1, <1>3, <1>4, <1>5, <1>6, <2>1, LinkIs
<1>8. /\ init' = [init EXCEPT !.pc = "P1", !.P2 = next, !.P2Idx = 0]
      /\ next_block_phys_addr' = next + 1 /\ UNCHANGED <<P4_base, thread>>
  BY <1>1, <1>4, AllocIs DEF add_P2
<1>9. /\ init' \in InitType /\ init'.pc = "P1" /\ init'.P4 = B /\ init'.P3Low = B + 2
      /\ init'.P3Idx = a /\ init'.P2 = next /\ init'.P2Idx = 0
  <2> HIDE DEF B, next
  <2> QED
    BY <1>1, <1>2, <1>4, <1>8 DEF InitType
<1>10. LowTables(mem', a + 1, a, 0)
  <2> SUFFICES ASSUME NEW x \in Nat, NEW y \in Index, NEW z \in Index, P0(x, y, z) < total_size
               PROVE  /\ x < a + 1 => mem'[B + 2][x] = Entry(P2At(x))
                      /\ x < a => /\ mem'[P2At(x)][y] = Entry(P1At(x, y))
                                  /\ mem'[P1At(x, y)][z] = Entry(P0(x, y, z) + B)
    BY DEF LowTables, Index
  <2>1. CASE x < a
    <3>1. /\ mem[B + 2][x] = Entry(P2At(x)) /\ mem[P2At(x)][y] = Entry(P1At(x, y))
          /\ mem[P1At(x, y)][z] = Entry(P0(x, y, z) + B)
      BY <1>2, <2>1 DEF LowTables
    <3> DEFINE p2 == P2At(x)
               p1 == P1At(x, y)
    <3>2. p2 \in Int /\ p1 \in Int /\ p2 > B + 2 /\ p1 > p2 /\ p1 < next
      BY <1>1, <1>2, <2>1, EarlierTables
    <3> HIDE DEF p1, p2
    <3>5. next < Low /\ Low \in Nat
      BY <1>4, ConstantsFit DEF LowBlocks
    <3>3. p2 \in LowBlocks /\ p1 \in LowBlocks /\ p2 # next /\ p1 # next /\ p2 # B + 2 /\ p1 # B + 2
      BY <1>3, <1>4, <3>2, <3>5 DEF LowBlocks
    <3>6. p2 \in Blocks /\ p1 \in Blocks
      BY <3>3, PlacesFit
    <3>4. x \in Index /\ x # a
      BY <1>1, <2>1, ConstantsFit DEF Index
    <3> QED
      BY <1>7, <3>1, <3>3, <3>4, <3>6 DEF p1, p2
  <2>2. CASE x = a
    BY <1>1, <1>2, <1>7, <2>2
  <2> QED
    BY <1>1, <2>1, <2>2
<1>11. Building(mem', next_block_phys_addr', init')
  <2>1. AtP4(mem') /\ AtP3Upp(mem') /\ AtP3Low(mem')
    BY <1>2, <1>3, <1>4, <1>7 DEF AtP4, AtP3Upp, AtP3Low
  <2>2. 0 <= P1Num(a) /\ next + 1 = P1At(a, 0)
    BY <1>1, <1>2, <1>4, TablesOfGigabyte, ConstantsFit DEF P1At
  <2> QED
    BY <1>1, <1>2, <1>8, <1>9, <1>10, <2>1, <2>2 DEF Building
<1>12. Separate(mem', init')
  <2>1. \A u \in Low..(page_table_break - 1) : mem'[u] = mem[u]
    BY <1>3, <1>4, <1>7, PlacesFit
  <2>2. \A k \in Index \ Special : mem'[B][k] = mem[B][k]
    BY <1>3, <1>4, <1>7
  <2> QED
    BY <1>1, <1>7, <2>1, <2>2, SeparateKept
<1> QED
  BY <1>1, <1>4, <1>7, <1>8, <1>9, <1>11, <1>12, AloneWhileBuilding DEF TableInv

\* One table more of a gigabyte is filled.
LEMMA P1Step == TableInv /\ add_P1 => TableInv'
<1> SUFFICES ASSUME TableInv, add_P1 PROVE TableInv'
  OBVIOUS
<1> DEFINE B == phys_base_addr
           next == next_block_phys_addr
           a == init.P3Idx
           b == init.P2Idx
           P2 == P2At(a)
           n == P0Num(a, b)
           m == Link(P2, b)
           e == [i \in Index |-> Entry(P0(a, b, i) + B)]
<1>1. /\ mem \in MemType /\ init \in InitType /\ init.pc = "P1" /\ Separate(mem, init)
      /\ Building(mem, next, init) /\ a \in Nat /\ b \in Nat /\ b < P1Num(a)
  BY DEF TableInv, add_P1, InitType
<1>2. /\ init.P4 = B /\ AtP4(mem) /\ AtP3Upp(mem) /\ AtP3Low(mem) /\ init.P3Low = B + 2
      /\ a < P2Num /\ init.P2 = P2 /\ next = P1At(a, b) /\ LowTables(mem, a + 1, a, b)
  BY <1>1 DEF Building
<1>3. /\ B \in Blocks /\ B \in Nat /\ B + 1 \in Blocks /\ B + 2 \in Blocks
  BY PlacesFit
<1>4. P1Num(a) \in 1..PT_ENTRIES /\ b \in Index
  BY <1>1, <1>2, TablesOfGigabyte, ConstantsFit DEF Index
<1>5. /\ P2 \in Int /\ P2 > B + 2 /\ next = P2 + 1 + b /\ next < Low /\ Low \in Nat
      /\ P2 \in LowBlocks /\ next \in LowBlocks /\ next \in Int /\ next > P2
  <2>1. P2 \in Nat /\ P2 > B + 2 /\ P1At(a, b) < Low
    BY <1>1, <1>2, TablesInOrder
  <2>2. next = P2 + 1 + b
    BY <1>2 DEF P1At
  <2> HIDE DEF P2
  <2> QED
    BY <1>1, <1>2, <1>3, <2>1, <2>2, ConstantsFit DEF LowBlocks
<1>6. mem' = StoreAll(m, next, n, e)
  BY <1>1, <1>2, <1>5, AllocIs DEF add_P1
<1> HIDE DEF P2
<1>7. /\ m \in MemType /\ m[P2][b] = Entry(next)
      /\ \A j \in Index : j # b => m[P2][j] = mem[P2][j]
      /\ \A u \in Blocks : u # P2 /\ u # next => m[u] = mem[u]
  BY <1>1, <1>4, <1>5, LinkIs
<1>8. n \in Int /\ e \in [Index -> EntryType]
  <2>1. a * P3_PAGE \in Int /\ b * PT_ENTRIES \in Int /\ total_size \in Int /\ PT_ENTRIES \in Int
    BY <1>1, ConstantsFit, TableAssumption
  <2>2. \A i \in Index : P0(a, b, i) + B \in Int
    BY <1>3, <2>1 DEF P0, Index
  <2> QED
    BY <2>1, <2>2, EntriesFit DEF P0Num, min
<1>9. \A z \in Index : P0(a, b, z) < total_size => z < n
  <2>1. a * P3_PAGE \in Int /\ b * PT_ENTRIES \in Int /\ total_size \in Int /\ PT_ENTRIES \in Int
    BY <1>1, ConstantsFit, TableAssumption
  <2> QED
    BY <2>1 DEF P0, P0Num, min, Index
<1> HIDE DEF m, n
<1>10. /\ mem' \in MemType /\ \A u \in Blocks : u # next => mem'[u] = m[u]
       /\ \A j \in Index : j < n => mem'[next][j] = e[j]
  <2>1. next \in Blocks
    BY <1>5, PlacesFit
  <2> HIDE DEF e
  <2> QED
    BY <1>6, <1>7, <1>8, <2>1, StoreAllIs
<1>11. /\ mem'[P2][b] = Entry(next)
       /\ \A j \in Index : j # b => mem'[P2][j] = mem[P2][j]
       /\ \A u \in Blocks : u # P2 /\ u # next => mem'[u] = mem[u]
  <2>1. P2 \in Blocks /\ P2 # next
    BY <1>5, PlacesFit
  <2> QED
    BY <1>7, <1>10, <2>1
<1>12. /\ init' = [init EXCEPT !.P2Idx = b + 1]
       /\ next_block_phys_addr' = next + 1 /\ UNCHANGED <<P4_base, thread>>
  BY DEF add_P1
<1>13. /\ init' \in InitType /\ init'.pc = "P1" /\ init'.P4 = B /\ init'.P3Low = B + 2
       /\ init'.P3Idx = a /\ init'.P2 = P2 /\ init'.P2Idx = b + 1
  <2> HIDE DEF B
  <2> QED
    BY <1>1, <1>2, <1>12 DEF InitType
<1>14. LowTables(mem', a + 1, a, b + 1)
  <2> SUFFICES ASSUME NEW x \in Nat, NEW y \in Index, NEW z \in Index, P0(x, y, z) < total_size
               PROVE  /\ x < a + 1 => mem'[B + 2][x] = Entry(P2At(x))
                      /\ x < a \/ (x = a /\ y < b + 1) =>
                           /\ mem'[P2At(x)][y] = Entry(P1At(x, y))
                           /\ mem'[P1At(x, y)][z] = Entry(P0(x, y, z) + B)
    BY DEF LowTables
  <2>1. x < a + 1 => mem'[B + 2][x] = Entry(P2At(x))
    <3>1. B + 2 # P2 /\ B + 2 # next
      BY <1>3, <1>5
    <3> QED
      BY <1>2, <1>3, <1>11, <3>1 DEF LowTables
  <2>2. CASE x < a
    <3> DEFINE p2 == P2At(x)
               p1 == P1At(x, y)
    <3>1. mem[p2][y] = Entry(p1) /\ mem[p1][z] = Entry(P0(x, y, z) + B)
      BY <1>2, <2>2 DEF LowTables
    <3>2. p2 \in Int /\ p1 \in Int /\ p2 > B + 2 /\ p1 > p2 /\ p1 < P2
      BY <1>1, <2>2, EarlierTables DEF P2
    <3> HIDE DEF p1, p2
    <3>3. p2 \in LowBlocks /\ p1 \in LowBlocks /\ p2 # next /\ p1 # next /\ p2 # P2 /\ p1 # P2
      BY <1>3, <1>5, <3>2 DEF LowBlocks
    <3>4. p2 \in Blocks /\ p1 \in Blocks
      BY <3>3, PlacesFit
    <3>5. mem'[p2][y] = Entry(p1) /\ mem'[p1][z] = Entry(P0(x, y, z) + B)
      BY <1>11, <3>1, <3>3, <3>4
    <3> QED
      BY <2>1, <3>5 DEF p1, p2
  <2>3. CASE x = a /\ y < b
    <3> DEFINE p1 == P1At(a, y)
    <3>1. mem[P2][y] = Entry(p1) /\ mem[p1][z] = Entry(P0(a, y, z) + B)
      BY <1>2, <2>3 DEF LowTables, P2
    <3>2. p1 = P2 + 1 + y /\ y \in Nat
      BY ConstantsFit DEF P1At, Index, P2
    <3> HIDE DEF p1
    <3>3. p1 \in LowBlocks /\ p1 # P2 /\ p1 # next /\ y # b
      BY <1>1, <1>3, <1>5, <2>3, <3>2 DEF LowBlocks
    <3>4. p1 \in Blocks
      BY <3>3, PlacesFit
    <3>5. mem'[P2][y] = Entry(p1) /\ mem'[p1][z] = Entry(P0(a, y, z) + B)
      BY <1>11, <3>1, <3>3, <3>4
    <3> QED
      BY <2>1, <2>3, <3>5 DEF p1, P2
  <2>4. CASE x = a /\ y = b
    <3>1. z < n
      BY <1>9, <2>4
    <3>2. mem'[next][z] = Entry(P0(a, b, z) + B)
      BY <1>10, <3>1
    <3> QED
      BY <1>2, <1>11, <2>1, <2>4, <3>2 DEF P2
  <2>5. x < a \/ (x = a /\ y < b) \/ (x = a /\ y = b) \/ ~(x < a \/ (x = a /\ y < b + 1))
    BY <1>1, ConstantsFit DEF Index
  <2> QED
    BY <2>1, <2>2, <2>3, <2>4, <2>5
<1>15. Building(mem', next_block_phys_addr', init')
  <2>1. AtP4(mem') /\ AtP3Upp(mem') /\ AtP3Low(mem')
    <3>1. B # P2 /\ B # next /\ B + 1 # P2 /\ B + 1 # next
      BY <1>3, <1>5
    <3> QED
      BY <1>2, <1>3, <1>11, <3>1 DEF AtP4, AtP3Upp, AtP3Low
  <2>2. b + 1 <= P1Num(a) /\ next + 1 = P1At(a, b + 1)
    BY <1>1, <1>4, <1>5, ConstantsFit DEF P1At, P2
  <2> QED
    BY <1>1, <1>2, <1>12, <1>13, <1>14, <2>1, <2>2 DEF Building, P2
<1>16. Separate(mem', init')
  <2>1. \A u \in Low..(page_table_break - 1) : mem'[u] = mem[u]
    BY <1>5, <1>11, PlacesFit
  <2>2. \A k \in Index \ Special : mem'[B][k] = mem[B][k]
    BY <1>3, <1>5, <1>11
  <2> QED
    BY <1>1, <1>10, <2>1, <2>2, SeparateKept
<1> QED
  BY <1>1, <1>5, <1>10, <1>12, <1>13, <1>15, <1>16, AloneWhileBuilding DEF TableInv

\* A gigabyte is complete.
LEMMA NextP2Step == TableInv /\ next_P2 => TableInv'
<1> SUFFICES ASSUME TableInv, next_P2 PROVE TableInv'
  OBVIOUS
<1> DEFINE B == phys_base_addr
           next == next_block_phys_addr
           a == init.P3Idx
           b == init.P2Idx
<1>1. /\ mem \in MemType /\ init \in InitType /\ init.pc = "P1" /\ Separate(mem, init)
      /\ Building(mem, next, init) /\ a \in Nat /\ b \in Nat /\ ~(b < P1Num(a))
      /\ next \in Int
  BY DEF TableInv, next_P2, InitType
<1>2. /\ init.P4 = B /\ AtP4(mem) /\ AtP3Upp(mem) /\ AtP3Low(mem) /\ init.P3Low = B + 2
      /\ a < P2Num /\ b <= P1Num(a) /\ next = P1At(a, b) /\ LowTables(mem, a + 1, a, b)
  BY <1>1 DEF Building
<1>3. b = P1Num(a)
  BY <1>1, <1>2, TablesOfGigabyte, ConstantsFit
<1>4. /\ init' = [init EXCEPT !.pc = "P2", !.P3Idx = a + 1] /\ mem' = mem
      /\ next_block_phys_addr' = next /\ UNCHANGED <<P4_base, thread>>
  BY DEF next_P2
<1>5. /\ init' \in InitType /\ init'.pc = "P2" /\ init'.P4 = B /\ init'.P3Low = B + 2
      /\ init'.P3Idx = a + 1
  <2> DEFINE g == a + 1
  <2>1. g \in Nat /\ init' = [init EXCEPT !.pc = "P2", !.P3Idx = g]
    BY <1>1, <1>4
  <2> HIDE DEF B, g
  <2>2. /\ init' \in InitType /\ init'.pc = "P2" /\ init'.P4 = B /\ init'.P3Low = B + 2
        /\ init'.P3Idx = g
    BY <1>1, <1>2, <2>1 DEF InitType
  <2> QED
    BY <2>2 DEF g
<1>6. next = IF a + 1 < P2Num THEN P2At(a + 1) ELSE Low
  BY <1>1, <1>2, <1>3, TablesInOrder
<1>7. LowTables(mem, a + 1, a + 1, 0)
  <2> SUFFICES ASSUME NEW x \in Nat, NEW y \in Index, NEW z \in Index, P0(x, y, z) < total_size
               PROVE  /\ x < a + 1 => mem[B + 2][x] = Entry(P2At(x))
                      /\ x < a + 1 \/ (x = a + 1 /\ y < 0) =>
                            /\ mem[P2At(x)][y] = Entry(P1At(x, y))
                            /\ mem[P1At(x, y)][z] = Entry(P0(x, y, z) + B)
    BY DEF LowTables
  <2>1. y < P1Num(x) /\ y \in Nat
    BY PagesInTables, ConstantsFit DEF Index
  <2>2. x < a + 1 \/ (x = a + 1 /\ y < 0) => x < a \/ (x = a /\ y < b)
    BY <1>1, <1>3, <2>1
  <2> QED
    BY <1>2, <2>2 DEF LowTables
<1>8. Building(mem', next_block_phys_addr', init')
  <2>1. a + 1 <= P2Num
    BY <1>1, <1>2, ConstantsFit
  <2> QED
    BY <1>2, <1>4, <1>5, <1>6, <1>7, <2>1 DEF Building
<1>9. Separate(mem', init')
  BY <1>1, <1>4, <1>5 DEF Separate
<1> QED
  BY <1>1, <1>4, <1>5, <1>8, <1>9, AloneWhileBuilding DEF TableInv

\* The low mapping is complete.
LEMMA ReturnStep == TableInv /\ return_P4 => TableInv'
<1> SUFFICES ASSUME TableInv, return_P4 PROVE TableInv'
  OBVIOUS
<1> DEFINE B == phys_base_addr
           next == next_block_phys_addr
<1>1. /\ mem \in MemType /\ init \in InitType /\ init.pc = "P2" /\ Separate(mem, init)
      /\ Building(mem, next, init) /\ init.P3Idx \in Nat /\ ~(init.P3Idx < P2Num)
      /\ next \in Int /\ thread \in [Clients -> ThreadType]
      /\ \A c \in Clients : thread[c] = Idle
  BY DEF TableInv, return_P4, InitType
<1>2. /\ init.P4 = B /\ AtP4(mem) /\ AtP3Upp(mem) /\ AtP3Low(mem) /\ init.P3Low = B + 2
      /\ init.P3Idx <= P2Num /\ next = Low /\ LowTables(mem, init.P3Idx, init.P3Idx, 0)
  BY <1>1 DEF Building
<1>3. init.P3Idx = P2Num /\ next >= Low
  BY <1>1, <1>2, ConstantsFit
<1>4. /\ init' = [init EXCEPT !.pc = "done"] /\ mem' = mem /\ P4_base' = B
      /\ next_block_phys_addr' = next /\ thread' = thread
  BY <1>2 DEF return_P4
<1>5. init' \in InitType /\ init'.pc = "done" /\ init'.P4 = B /\ init'.P3Low = B + 2
  <2> HIDE DEF B
  <2> QED
    BY <1>1, <1>2, <1>4 DEF InitType
<1>6. Building(mem', next_block_phys_addr', init')
  BY <1>2, <1>3, <1>4, <1>5 DEF Building
<1>7. Separate(mem', init')
  BY <1>1, <1>4, <1>5 DEF Separate
<1> QED
  BY <1>1, <1>4, <1>5, <1>6, <1>7 DEF TableInv

----------------------------------------------------------------------------
(* The pages that load_firmware maps, and where they are in the tables *)

\* The pages of an image that is not too large, and of the stack, lie after
\* the page table and inside the memory of the kernel.
LEMMA OffsetsFit ==
    ASSUME NEW sz \in Nat \ {0}, ~TooLarge(sz),
           NEW k \in 1..(num_pages(sz) + KERNEL_STACK_SIZE)
    PROVE  /\ num_pages(sz) \in Nat \ {0}
           /\ PageOffset(sz, k) \in page_table_size..(KERNEL_SIZE - 1)
<1> DEFINE S == KERNEL_STACK_SIZE
           P == page_table_size
           n == num_pages(sz)
           room == KERNEL_SIZE - S - P
<1>1. /\ S \in Nat \ {0} /\ P \in Nat /\ KERNEL_SIZE \in Nat /\ room \in Nat
      /\ PAGE_SIZE \in Nat \ {0} /\ KERNEL_OFFSET \in Nat
  BY FirmwareAssumption, TableAssumption, ConstantsFit
<1>2. sz <= room * PAGE_SIZE /\ KERNEL_OFFSET <= S * PAGE_SIZE /\ S * PAGE_SIZE \in Int
      /\ room * PAGE_SIZE \in Int
  BY <1>1, FirmwareAssumption DEF TooLarge
<1>3. room * PAGE_SIZE + S * PAGE_SIZE = (room + S) * PAGE_SIZE
  BY <1>1
<1> DEFINE x == sz + KERNEL_OFFSET
<1>4. x \in Nat \ {0} /\ n = div_round_up(x, PAGE_SIZE)
  BY <1>1 DEF num_pages, div_round_up
<1>5. n \in Nat \ {0} /\ n * PAGE_SIZE < x + PAGE_SIZE
  BY <1>1, <1>4, RoundUpIs
<1>6. n <= room + S
  <2> HIDE DEF n, room, S
  <2> SUFFICES ASSUME room + S + 1 <= n PROVE FALSE
    BY <1>1, <1>5
  <2>1. (room + S + 1) * PAGE_SIZE <= n * PAGE_SIZE
    BY <1>1, <1>5, ProductGrows
  <2>2. (room + S + 1) * PAGE_SIZE = (room + S) * PAGE_SIZE + PAGE_SIZE
    BY <1>1
  <2>3. (room + S) * PAGE_SIZE \in Int /\ n * PAGE_SIZE \in Int
    BY <1>1, <1>5
  <2> QED
    BY <1>1, <1>2, <1>3, <1>5, <2>1, <2>2, <2>3
<1> HIDE DEF n
<1>7. k \in 1..(n + S)
  BY DEF n
<1>8. PageOffset(sz, k) = IF k <= n THEN P + k - 1 ELSE KERNEL_SIZE - S + (k - n - 1)
  BY DEF PageOffset, n
<1>9. PageOffset(sz, k) \in P..(KERNEL_SIZE - 1)
  BY <1>1, <1>5, <1>6, <1>7, <1>8
<1> QED
  BY <1>5, <1>9 DEF n

\* The indices of a page are the digits of its number.
LEMMA Digits ==
    ASSUME NEW v \in Nat
    PROVE  LET a == v \div PT_ENTRIES
               b == v \div P3_PAGE
               c == v \div P4_PAGE
           IN  /\ a \in Nat /\ b \in Nat /\ c \in Nat
               /\ v = a * PT_ENTRIES + P1_index(v) /\ P1_index(v) \in Index
               /\ a = b * PT_ENTRIES + P2_index(v) /\ P2_index(v) \in Index
               /\ b = c * PT_ENTRIES + P3_index(v) /\ P3_index(v) \in Index
               /\ P4_index(v) = c % PT_ENTRIES /\ P4_index(v) \in Index
               /\ c < PT_ENTRIES => P4_index(v) = c
<1>1. /\ PT_ENTRIES \in Nat \ {0} /\ PT_ENTRIES >= 4 /\ P3_PAGE \in Nat \ {0} /\ P4_PAGE \in Nat \ {0}
      /\ P3_PAGE = PT_ENTRIES * PT_ENTRIES /\ P4_PAGE = P3_PAGE * PT_ENTRIES
  BY ConstantsFit DEF P3_PAGE
<1> DEFINE a == v \div PT_ENTRIES
           b == v \div P3_PAGE
           c == v \div P4_PAGE
<1>3. b = a \div PT_ENTRIES /\ c = b \div PT_ENTRIES
  BY <1>1, QuotientTwice
<1>4. a \in Nat /\ b \in Nat /\ c \in Nat
  BY <1>1, DivisionHolds
<1>5. /\ P1_index(v) = v % PT_ENTRIES /\ P2_index(v) = a % PT_ENTRIES
      /\ P3_index(v) = b % PT_ENTRIES /\ P4_index(v) = c % PT_ENTRIES
  BY DEF P1_index, P2_index, P3_index, P4_index, P3_PAGE, P4_PAGE
<1>6. c % PT_ENTRIES \in Index /\ (c < PT_ENTRIES => c % PT_ENTRIES = c)
  <2> HIDE DEF c
  <2>1. c % PT_ENTRIES \in Index
    BY <1>1, <1>4, DivisionHolds DEF Index
  <2> SUFFICES ASSUME c < PT_ENTRIES PROVE c % PT_ENTRIES = c
    BY <2>1
  <2>2. 0 * PT_ENTRIES + c = c /\ c \in 0..(PT_ENTRIES - 1)
    BY <1>1, <1>4
  <2> QED
    BY <1>1, <2>2, QuotientIs
<1>7. /\ v = a * PT_ENTRIES + P1_index(v) /\ P1_index(v) \in Index
      /\ a = b * PT_ENTRIES + P2_index(v) /\ P2_index(v) \in Index
      /\ b = c * PT_ENTRIES + P3_index(v) /\ P3_index(v) \in Index
  <2>1. v = a * PT_ENTRIES + P1_index(v) /\ P1_index(v) \in Index
    <3>1. v = (v \div PT_ENTRIES) * PT_ENTRIES + (v % PT_ENTRIES)
      BY <1>1, DivisionHolds
    <3>2. v % PT_ENTRIES \in 0..(PT_ENTRIES - 1)
      BY <1>1, DivisionHolds
    <3> QED
      BY <1>5, <3>1, <3>2 DEF Index
  <2> HIDE DEF a, b, c
  <2>2. a = b * PT_ENTRIES + P2_index(v) /\ P2_index(v) \in Index
    <3>1. a = (a \div PT_ENTRIES) * PT_ENTRIES + (a % PT_ENTRIES)
      BY <1>1, <1>4, DivisionHolds
    <3>2. a % PT_ENTRIES \in 0..(PT_ENTRIES - 1)
      BY <1>1, <1>4, DivisionHolds
    <3>3. b = a \div PT_ENTRIES /\ P2_index(v) = a % PT_ENTRIES
      BY <1>3, <1>5
    <3> QED
      BY <3>1, <3>2, <3>3 DEF Index
  <2>3. b = c * PT_ENTRIES + P3_index(v) /\ P3_index(v) \in Index
    <3>1. b = (b \div PT_ENTRIES) * PT_ENTRIES + (b % PT_ENTRIES)
      BY <1>1, <1>4, DivisionHolds
    <3>2. b % PT_ENTRIES \in 0..(PT_ENTRIES - 1)
      BY <1>1, <1>4, DivisionHolds
    <3>3. c = b \div PT_ENTRIES /\ P3_index(v) = b % PT_ENTRIES
      BY <1>3, <1>5
    <3> QED
      BY <3>1, <3>2, <3>3 DEF Index
  <2> QED
    BY <2>1, <2>2, <2>3
<1> QED
  BY <1>4, <1>5, <1>6, <1>7

\* The addresses that Linux gives to the memory.
LinuxPages == virt_base_addr..(virt_base_addr + total_size - 1)

\* The number of v among the tables or pages of level k, the root's page being 0.
Prefix(k, v) ==
    CASE k = 0 -> v [] k = 1 -> v \div PT_ENTRIES [] k = 2 -> v \div P3_PAGE
      [] k = 3 -> v \div P4_PAGE [] k = 4 -> 0

\* They are mapped through entries of the root that init_page_table_4k does
\* not use.
LEMMA LinuxPagesFit ==
    ASSUME NEW v \in LinuxPages
    PROVE  v \in Nat /\ v \div P4_PAGE \in 1..(PT_ENTRIES - 3)
<1>1. /\ PT_ENTRIES \in Nat /\ P4_PAGE \in Nat \ {0} /\ total_size \in Nat
  BY ConstantsFit, TableAssumption
<1>2. /\ virt_base_addr \in Nat /\ P4_PAGE <= virt_base_addr
      /\ virt_base_addr + total_size <= (PT_ENTRIES - 2) * P4_PAGE
  BY LinuxAssumption DEF P4_PAGE
<1>3. v \in Nat /\ P4_PAGE <= v /\ v < (PT_ENTRIES - 2) * P4_PAGE
  <2>1. (PT_ENTRIES - 2) * P4_PAGE \in Int
    BY <1>1
  <2> QED
    BY <1>1, <1>2, <2>1 DEF LinuxPages
<1> DEFINE q == v \div P4_PAGE
           r == v % P4_PAGE
<1>4. q \in Nat /\ r \in 0..(P4_PAGE - 1) /\ v = q * P4_PAGE + r
  BY <1>1, <1>3, DivisionHolds
<1> HIDE DEF q, r
<1>5. q >= 1
  <2> SUFFICES ASSUME q = 0 PROVE FALSE
    BY <1>4
  <2> QED
    BY <1>1, <1>3, <1>4
<1>6. q <= PT_ENTRIES - 3
  <2> SUFFICES ASSUME PT_ENTRIES - 2 <= q PROVE FALSE
    BY <1>1, <1>4
  <2>1. (PT_ENTRIES - 2) * P4_PAGE <= q * P4_PAGE
    BY <1>1, <1>4, ProductGrows
  <2>2. (PT_ENTRIES - 2) * P4_PAGE \in Int /\ q * P4_PAGE \in Int
    BY <1>1, <1>4
  <2> QED
    BY <1>1, <1>3, <1>4, <2>1, <2>2
<1> QED
  BY <1>1, <1>3, <1>4, <1>5, <1>6 DEF q

\* The index at a level is where the page's number on the level below lies in
\* the table with its number on this one.
LEMMA IndexSplits ==
    ASSUME NEW v \in LinuxPages, NEW k \in 1..4
    PROVE  /\ LevelIndex(k, v) \in Index
           /\ k = 4 => LevelIndex(k, v) \notin Special
           /\ Prefix(k, v) \in Nat /\ Prefix(k - 1, v) \in Nat
           /\ Prefix(k - 1, v) = Prefix(k, v) * PT_ENTRIES + LevelIndex(k, v)
<1>1. /\ PT_ENTRIES \in Nat \ {0} /\ PT_ENTRIES >= 4
  BY ConstantsFit
<1>2. v \in Nat /\ v \div P4_PAGE \in 1..(PT_ENTRIES - 3)
  BY LinuxPagesFit
<1> DEFINE a == v \div PT_ENTRIES
           b == v \div P3_PAGE
           c == v \div P4_PAGE
<1>4. a \in Nat /\ b \in Nat /\ c \in Nat
  BY <1>2, Digits
<1>7. /\ v = a * PT_ENTRIES + P1_index(v) /\ P1_index(v) \in Index
      /\ a = b * PT_ENTRIES + P2_index(v) /\ P2_index(v) \in Index
      /\ b = c * PT_ENTRIES + P3_index(v) /\ P3_index(v) \in Index
  BY <1>2, Digits
<1>5. c < PT_ENTRIES => P4_index(v) = c
  BY <1>2, Digits
<1>8. P4_index(v) = c /\ c \in Index /\ c \notin Special /\ c = 0 * PT_ENTRIES + c
  <2>1. c \in 1..(PT_ENTRIES - 3)
    BY <1>2
  <2> HIDE DEF c
  <2> QED
    BY <1>1, <1>5, <2>1 DEF Index, Special
<1> HIDE DEF a, b, c
<1>9. CASE k = 1
  <2>1. LevelIndex(k, v) = P1_index(v) /\ Prefix(k, v) = a /\ Prefix(k - 1, v) = v
    BY <1>9 DEF LevelIndex, Prefix, a
  <2> QED
    BY <1>2, <1>4, <1>7, <1>9, <2>1
<1>10. CASE k = 2
  <2>1. LevelIndex(k, v) = P2_index(v) /\ Prefix(k, v) = b /\ Prefix(k - 1, v) = a
    BY <1>10 DEF LevelIndex, Prefix, a, b
  <2> QED
    BY <1>4, <1>7, <1>10, <2>1
<1>11. CASE k = 3
  <2>1. LevelIndex(k, v) = P3_index(v) /\ Prefix(k, v) = c /\ Prefix(k - 1, v) = b
    BY <1>11 DEF LevelIndex, Prefix, b, c
  <2> QED
    BY <1>4, <1>7, <1>11, <2>1
<1>12. CASE k = 4
  <2>1. LevelIndex(k, v) = P4_index(v) /\ Prefix(k, v) = 0 /\ Prefix(k - 1, v) = c
    BY <1>12 DEF LevelIndex, Prefix, c
  <2> QED
    BY <1>4, <1>8, <1>12, <2>1
<1> QED
  BY <1>9, <1>10, <1>11, <1>12

----------------------------------------------------------------------------
(* The steps of the clients *)

\* n has all that init_page_table_4k wrote to m.
LowKept(m, n) ==
    /\ \A u \in LowBlocks : u # phys_base_addr => n[u] = m[u]
    /\ \A k \in Special : n[phys_base_addr][k] = m[phys_base_addr][k]

\* The low mapping depends on its own tables only.
LEMMA BuildingKept ==
    ASSUME NEW m, NEW n, NEW x, NEW y, NEW i, i.pc = "done",
           Building(m, x, i), LowKept(m, n), y >= Low
    PROVE  Building(n, y, i)
<1> DEFINE B == phys_base_addr
<1>1. /\ i.P4 = B /\ AtP4(m) /\ AtP3Upp(m) /\ AtP3Low(m) /\ i.P3Low = B + 2
      /\ LowTables(m, P2Num, P2Num, 0)
  BY DEF Building
<1>2. AtP4(n) /\ AtP3Upp(n) /\ AtP3Low(n)
  <2>1. B + 1 \in LowBlocks /\ B + 1 # B
    BY PlacesFit
  <2> QED
    BY <1>1, <2>1 DEF AtP4, AtP3Upp, AtP3Low, LowKept, Special
<1>3. LowTables(n, P2Num, P2Num, 0)
  <2> SUFFICES ASSUME NEW a \in Nat, NEW b \in Index, NEW c \in Index, P0(a, b, c) < total_size
               PROVE  /\ n[B + 2][a] = Entry(P2At(a))
                      /\ n[P2At(a)][b] = Entry(P1At(a, b))
                      /\ n[P1At(a, b)][c] = Entry(P0(a, b, c) + B)
    BY DEF LowTables
  <2>1. a < P2Num /\ b < P1Num(a) /\ b \in Nat
    BY PagesInTables, ConstantsFit DEF Index
  <2>2. /\ m[B + 2][a] = Entry(P2At(a)) /\ m[P2At(a)][b] = Entry(P1At(a, b))
        /\ m[P1At(a, b)][c] = Entry(P0(a, b, c) + B)
    BY <1>1, <2>1 DEF LowTables
  <2>3. P2At(a) \in Nat /\ P2At(a) > B + 2 /\ P1At(a, b) < Low
    BY <2>1, TablesInOrder
  <2>4. P1At(a, b) = P2At(a) + 1 + b
    BY DEF P1At
  <2>5. /\ B + 2 \in LowBlocks /\ B + 2 # B /\ P2At(a) \in LowBlocks /\ P2At(a) # B
        /\ P1At(a, b) \in LowBlocks /\ P1At(a, b) # B
    BY <2>1, <2>3, <2>4, PlacesFit, ConstantsFit DEF LowBlocks
  <2> QED
    BY <2>2, <2>5 DEF LowKept
<1> QED
  BY <1>1, <1>2, <1>3 DEF Building

\* A store that map_page makes, or a block that it clears.
LEMMA StoreKeeps ==
    ASSUME NEW m \in MemType, NEW t \in Int, NEW k \in Index, NEW e \in EntryType, NEW i,
           t = phys_base_addr => k \notin Special, t \in LowBlocks => t = phys_base_addr,
           Outside(e), Separate(m, i), i.pc = "done"
    PROVE  /\ Store(m, t, k, e) \in MemType
           /\ LowKept(m, Store(m, t, k, e))
           /\ Separate(Store(m, t, k, e), i)
<1> DEFINE n == Store(m, t, k, e)
<1>1. /\ n \in MemType /\ \A u \in Blocks : u # t => n[u] = m[u]
      /\ t \in Blocks => /\ n[t][k] = e
                         /\ \A j \in Index : j # k => n[t][j] = m[t][j]
  BY StoreIs
<1> HIDE DEF n
<1>2. Special \subseteq Index /\ phys_base_addr \in Blocks /\ LowBlocks \subseteq Blocks
  BY PlacesFit DEF Special
<1>3. LowKept(m, n)
  BY <1>1, <1>2 DEF LowKept
<1>4. Separate(n, i)
  <2>1. ASSUME NEW u \in Low..(page_table_break - 1), NEW j \in Index PROVE Outside(n[u][j])
    <3>1. u \in Blocks /\ Outside(m[u][j])
      BY PlacesFit DEF Separate
    <3> QED
      BY <1>1, <3>1
  <2>2. ASSUME NEW j \in Index \ Special PROVE Outside(n[phys_base_addr][j])
    <3>1. Outside(m[phys_base_addr][j])
      BY DEF Separate
    <3> QED
      BY <1>1, <1>2, <3>1
  <2> QED
    BY <2>1, <2>2 DEF Separate
<1> QED
  BY <1>1, <1>3, <1>4 DEF n

\* Clearing a block of map_page leaves the low mapping alone.
LEMMA ClearKeeps ==
    ASSUME NEW m \in MemType, NEW t \in Low..(page_table_break - 1), NEW i,
           Separate(m, i), i.pc = "done"
    PROVE  LET n == [m EXCEPT ![t] = Zeroed]
           IN  n \in MemType /\ LowKept(m, n) /\ Separate(n, i)
<1> DEFINE n == [m EXCEPT ![t] = Zeroed]
<1>1. t \in Blocks /\ t \notin LowBlocks
  BY PlacesFit
<1>2. n \in MemType /\ n[t] = Zeroed /\ \A u \in Blocks : u # t => n[u] = m[u]
  BY <1>1, ClearIs
<1> HIDE DEF n
<1>3. phys_base_addr \in Blocks /\ phys_base_addr # t /\ LowBlocks \subseteq Blocks
  BY <1>1, PlacesFit
<1>4. LowKept(m, n)
  BY <1>1, <1>2, <1>3 DEF LowKept
<1>5. \A j \in Index : Outside(Zeroed[j])
  BY PlacesFit DEF Zeroed, Absent, Outside
<1>6. Separate(n, i)
  BY <1>2, <1>3, <1>5, PlacesFit DEF Separate
<1> QED
  BY <1>2, <1>4, <1>6 DEF n

\* What TableInv says of a client in map_page.
LEMMA ClientPlace ==
    ASSUME TableInv, NEW c \in Clients, thread[c].pc # "idle"
    PROVE  /\ Walking(thread[c]) /\ init.pc = "done" /\ P4_base = phys_base_addr
           /\ thread[c] # Idle
           /\ Offset(c) \in page_table_size..(KERNEL_SIZE - 1)
           /\ virt_base_addr + Offset(c) \in LinuxPages
           /\ ThreadIndex(c) \in Index
           /\ thread[c].level = 4 => ThreadIndex(c) \notin Special
           /\ thread[c].table = phys_base_addr => ThreadIndex(c) \notin Special
           /\ thread[c].table \in LowBlocks => thread[c].table = phys_base_addr
<1>1. Walking(thread[c]) /\ init.pc = "done" /\ P4_base = phys_base_addr /\ thread[c] # Idle
  BY DEF TableInv, Idle
<1>2. Offset(c) \in page_table_size..(KERNEL_SIZE - 1)
  BY <1>1, OffsetsFit DEF Walking, Offset
<1>3. virt_base_addr + Offset(c) \in LinuxPages
  <2>1. page_table_size \in Nat /\ KERNEL_SIZE <= total_size /\ total_size \in Nat /\ KERNEL_SIZE \in Nat
    BY ConstantsFit, FirmwareAssumption, TableAssumption
  <2>2. virt_base_addr \in Nat
    BY LinuxAssumption
  <2> QED
    BY <1>2, <2>1, <2>2 DEF LinuxPages
<1>4. ThreadIndex(c) \in Index /\ (thread[c].level = 4 => ThreadIndex(c) \notin Special)
  <2> DEFINE v == virt_base_addr + Offset(c)
             k == thread[c].level
  <2>1. v \in LinuxPages /\ k \in 1..4 /\ ThreadIndex(c) = LevelIndex(k, v)
    BY <1>1, <1>3 DEF Walking, ThreadIndex
  <2> HIDE DEF v, k
  <2>2. LevelIndex(k, v) \in Index /\ (k = 4 => LevelIndex(k, v) \notin Special)
    BY <2>1, IndexSplits
  <2> QED
    BY <2>1, <2>2 DEF k
<1>5. /\ thread[c].table = phys_base_addr => thread[c].level = 4
      /\ thread[c].table \in LowBlocks => thread[c].table = phys_base_addr
  <2> DEFINE k == thread[c].level
             t == thread[c].table
  <2>1. k \in 1..4 /\ (k = 4 => t = phys_base_addr) /\ (k < 4 => t \notin LowBlocks)
    BY <1>1 DEF Walking
  <2> HIDE DEF k, t
  <2>2. phys_base_addr \in LowBlocks /\ (k = 4 \/ k < 4)
    BY <2>1, PlacesFit
  <2>3. (t = phys_base_addr => k = 4) /\ (t \in LowBlocks => t = phys_base_addr)
    BY <2>1, <2>2
  <2> QED
    BY <2>3 DEF k, t
<1> QED
  BY <1>1, <1>2, <1>3, <1>4, <1>5

\* What a step of one client leaves to show.
LEMMA OneMoves ==
    ASSUME TableInv, NEW c \in Clients, init.pc = "done", UNCHANGED <<P4_base, init>>,
           NEW t \in ThreadType, thread' = [thread EXCEPT ![c] = t], t = Idle \/ Walking(t),
           mem' \in MemType, LowKept(mem, mem'), Separate(mem', init),
           next_block_phys_addr' \in Int, next_block_phys_addr' >= Low
    PROVE  TableInv'
<1>1. Building(mem', next_block_phys_addr', init')
  BY BuildingKept DEF TableInv
<1>2. thread' \in [Clients -> ThreadType] /\ thread'[c] = t
      /\ \A d \in Clients : d # c => thread'[d] = thread[d]
  BY DEF TableInv
<1>3. \A d \in Clients : thread'[d] = Idle \/ (init'.pc = "done" /\ Walking(thread'[d]))
  BY <1>2 DEF TableInv
<1> QED
  BY <1>1, <1>2, <1>3 DEF TableInv

\* Steps that store nothing.
LEMMA NothingStored ==
    ASSUME TableInv, UNCHANGED mem
    PROVE  mem' \in MemType /\ LowKept(mem, mem') /\ Separate(mem', init)
BY DEF TableInv, LowKept

\* The counter is past the tables of init_page_table_4k.
LEMMA NextFits ==
    ASSUME TableInv, init.pc = "done"
    PROVE  next_block_phys_addr \in Int /\ next_block_phys_addr >= Low
BY DEF TableInv, Building

\* The entry that a client reads leads outside the low tables.
LEMMA FoundOutside ==
    ASSUME TableInv, NEW c \in Clients, thread[c].pc # "idle", thread[c].table \in DOMAIN mem
    PROVE  Found(c) \in EntryType /\ Outside(Found(c)) /\ thread[c].table \in Blocks
<1> DEFINE t == thread[c].table
           k == ThreadIndex(c)
<1>1. mem \in MemType /\ t \in Blocks /\ Separate(mem, init)
  BY DEF TableInv, MemType
<1>2. k \in Index /\ init.pc = "done" /\ (t = phys_base_addr => k \notin Special)
      /\ (t \in LowBlocks => t = phys_base_addr)
  BY ClientPlace
<1>3. Found(c) = mem[t][k]
  BY DEF Found
<1> HIDE DEF t, k
<1>4. mem[t][k] \in EntryType
  BY <1>1, <1>2 DEF MemType
<1>5. Outside(mem[t][k])
  BY <1>1, <1>2, PlacesFit DEF Separate
<1> QED
  BY <1>1, <1>3, <1>4, <1>5 DEF t

\* load_firmware begins a walk at the root.
LEMMA LoadStep == ASSUME TableInv, NEW c \in Clients, NEW sz \in Sizes, load_firmware(c, sz)
                  PROVE  TableInv'
<1>1. sz \in Nat \ {0} /\ ~TooLarge(sz) /\ init.pc = "done" /\ P4_base = phys_base_addr
  BY FirmwareAssumption DEF load_firmware, TableInv
<1> DEFINE t == MapPage(sz, 1)
<1>2. /\ thread' = [thread EXCEPT ![c] = t] /\ UNCHANGED <<mem, next_block_phys_addr, P4_base, init>>
  BY DEF load_firmware
<1>3. t = [pc |-> "look", size |-> sz, page |-> 1, level |-> 4, table |-> phys_base_addr, block |-> 0]
  BY <1>1 DEF MapPage, Reading
<1>4. phys_base_addr \in Int /\ 0 \notin LowBlocks
  BY PlacesFit
<1>5. 1 \in 1..(num_pages(sz) + KERNEL_STACK_SIZE)
  <2>1. KERNEL_STACK_SIZE \in Nat \ {0} /\ PAGE_SIZE \in Nat \ {0} /\ KERNEL_OFFSET \in Nat
    BY FirmwareAssumption, TableAssumption
  <2>2. num_pages(sz) \in Nat
    <3>1. num_pages(sz) = (sz + KERNEL_OFFSET + PAGE_SIZE - 1) \div PAGE_SIZE
      BY DEF num_pages
    <3>2. sz + KERNEL_OFFSET + PAGE_SIZE - 1 \in Nat
      BY <1>1, <2>1
    <3> QED
      BY <2>1, <3>1, <3>2, DivisionHolds
  <2> QED
    BY <2>1, <2>2
<1> HIDE DEF t
<1>6. t \in ThreadType
  BY <1>1, <1>3, <1>4 DEF ThreadType
<1>7. Walking(t)
  BY <1>1, <1>3, <1>4, <1>5 DEF Walking
<1>8. mem' \in MemType /\ LowKept(mem, mem') /\ Separate(mem', init)
  BY <1>2, NothingStored
<1>9. next_block_phys_addr' \in Int /\ next_block_phys_addr' >= Low
  BY <1>1, <1>2, NextFits
<1> QED
  BY <1>1, <1>2, <1>6, <1>7, <1>8, <1>9, OneMoves

\* An entry that map_page follows leads out of the low tables.
LEMMA LookStep == ASSUME TableInv, NEW c \in Clients, look(c) PROVE TableInv'
<1> DEFINE t == thread[c]
           f == Found(c).to
           d == [pc |-> "look", size |-> t.size, page |-> t.page, level |-> t.level - 1,
                 table |-> f, block |-> 0]
           r == [t EXCEPT !.pc = "read_next"]
<1>1. t \in ThreadType /\ t.pc = "look" /\ t # Idle /\ t.level > 1 /\ t.table \in DOMAIN mem
  BY DEF look, At, InBlocks, TableInv, Idle
<1>2. Walking(t) /\ init.pc = "done"
  BY <1>1, ClientPlace
<1>3. f \in Int /\ f \notin LowBlocks
  BY <1>1, FoundOutside DEF EntryType, Outside
<1>4. UNCHANGED <<mem, next_block_phys_addr, P4_base, init>>
  BY DEF look
<1>5. thread \in [Clients -> ThreadType]
  BY DEF TableInv
<1>6. thread' = [thread EXCEPT ![c] = d] \/ thread' = [thread EXCEPT ![c] = r]
  <2> HIDE DEF f
  <2>1. thread' = Descend(c, f) \/ thread' = [thread EXCEPT ![c].pc = "read_next"]
    BY DEF look, f
  <2>2. Descend(c, f) = [thread EXCEPT ![c] = d]
    BY DEF Descend, Reading
  <2>3. [thread EXCEPT ![c].pc = "read_next"] = [thread EXCEPT ![c] = r]
    BY <1>5
  <2> QED
    BY <2>1, <2>2, <2>3
<1>7. d \in ThreadType /\ r \in ThreadType
  <2>1. t.size \in Int /\ t.page \in Int /\ t.level - 1 \in Int /\ f \in Int /\ t \in ThreadType
    BY <1>1, <1>3 DEF ThreadType
  <2> HIDE DEF t, f
  <2>3. d \in ThreadType
    BY <2>1 DEF ThreadType
  <2>4. r \in ThreadType
    BY <2>1 DEF ThreadType
  <2> QED
    BY <2>3, <2>4
<1>8. Walking(r)
  <2> HIDE DEF t
  <2> QED
    BY <1>1, <1>2 DEF Walking, ThreadType
<1>9. Walking(d)
  <2>1. /\ d.pc = "look" /\ d.size = t.size /\ d.page = t.page /\ d.level = t.level - 1
        /\ d.table = f /\ d.block = 0
    OBVIOUS
  <2>2. d.level \in 1..4 /\ d.level < 4
    BY <1>1, <1>2, <2>1 DEF Walking
  <2> HIDE DEF t, d, f
  <2> QED
    BY <1>2, <1>3, <2>1, <2>2, PlacesFit DEF Walking
<1>10. mem' \in MemType /\ LowKept(mem, mem') /\ Separate(mem', init)
  BY <1>4, NothingStored
<1>11. next_block_phys_addr' \in Int /\ next_block_phys_addr' >= Low
  BY <1>2, <1>4, NextFits
<1> HIDE DEF d, r, t
<1> QED
  BY <1>2, <1>4, <1>6, <1>7, <1>8, <1>9, <1>10, <1>11, OneMoves

\* The counter that alloc_block reads is past the low tables, ...
LEMMA ReadNextStep == ASSUME TableInv, NEW c \in Clients, read_next(c) PROVE TableInv'
<1> DEFINE t == thread[c]
           b == next_block_phys_addr
           r == [t EXCEPT !.pc = "bump_next", !.block = b]
<1>1. t \in ThreadType /\ t.pc = "read_next" /\ thread \in [Clients -> ThreadType]
  BY DEF read_next, At, TableInv
<1>2. Walking(t) /\ init.pc = "done"
  BY <1>1, ClientPlace
<1>3. b \in Int /\ b >= Low /\ b \notin LowBlocks
  BY <1>2, NextFits, ConstantsFit, PlacesFit DEF LowBlocks
<1>4. UNCHANGED <<mem, next_block_phys_addr, P4_base, init>>
  BY DEF read_next
<1>5. thread' = [thread EXCEPT ![c] = r]
  BY <1>1 DEF read_next
<1> HIDE DEF t, b
<1>6. r \in ThreadType
  BY <1>1, <1>3 DEF ThreadType
<1>7. Walking(r)
  <2>1. /\ r.pc = "bump_next" /\ r.size = t.size /\ r.page = t.page /\ r.level = t.level
        /\ r.table = t.table /\ r.block = b
    BY <1>1 DEF ThreadType
  <2> HIDE DEF r
  <2> QED
    BY <1>1, <1>2, <1>3, <2>1 DEF Walking
<1>8. mem' \in MemType /\ LowKept(mem, mem') /\ Separate(mem', init)
  BY <1>4, NothingStored
<1>9. next_block_phys_addr' \in Int /\ next_block_phys_addr' >= Low
  BY <1>2, <1>4, NextFits
<1> HIDE DEF r
<1> QED
  BY <1>2, <1>4, <1>5, <1>6, <1>7, <1>8, <1>9, OneMoves

\* ... and so is the one it writes, whatever others wrote meanwhile.
LEMMA BumpNextStep == ASSUME TableInv, NEW c \in Clients, bump_next(c) PROVE TableInv'
<1> DEFINE t == thread[c]
           s == [t EXCEPT !.pc = "store", !.block = 0]
           r == [t EXCEPT !.pc = "clear"]
<1>1. t \in ThreadType /\ t.pc = "bump_next" /\ thread \in [Clients -> ThreadType]
  BY DEF bump_next, At, TableInv
<1>2. Walking(t) /\ init.pc = "done" /\ t.block \in Int /\ t.block >= Low
  BY <1>1, ClientPlace DEF Walking
<1>3. /\ UNCHANGED <<mem, P4_base, init>> /\ next_block_phys_addr' = t.block + 1
      /\ \/ thread' = [thread EXCEPT ![c] = s]
         \/ t.block + 1 <= page_table_break /\ thread' = [thread EXCEPT ![c] = r]
  <2>1. page_table_break \in Int
    BY ConstantsFit, TableAssumption
  <2>2. UNCHANGED <<mem, P4_base, init>> /\ next_block_phys_addr' = t.block + 1
    BY DEF bump_next
  <2>3. /\ t.block + 1 > page_table_break => thread' = [thread EXCEPT ![c] = s]
        /\ ~(t.block + 1 > page_table_break) => thread' = [thread EXCEPT ![c] = r]
    BY <1>1 DEF bump_next
  <2> QED
    BY <1>2, <2>1, <2>2, <2>3
<1> HIDE DEF t
<1>4. s \in ThreadType /\ r \in ThreadType
  <2>1. \A b \in Int : [t EXCEPT !.pc = "store", !.block = b] \in ThreadType
    BY <1>1 DEF ThreadType
  <2>2. r \in ThreadType
    BY <1>1 DEF ThreadType
  <2>4. 0 \in Int
    OBVIOUS
  <2>3. s \in ThreadType
    BY <2>1, <2>4, Zenon
  <2> QED
    BY <2>2, <2>3
<1>5. Walking(s)
  <2>1. /\ s.pc = "store" /\ s.size = t.size /\ s.page = t.page /\ s.level = t.level
        /\ s.table = t.table /\ s.block = 0
    BY <1>1 DEF ThreadType
  <2> HIDE DEF s
  <2> QED
    BY <1>1, <1>2, <2>1, PlacesFit DEF Walking
<1>6. t.block + 1 <= page_table_break => Walking(r)
  <2>1. /\ r.pc = "clear" /\ r.size = t.size /\ r.page = t.page /\ r.level = t.level
        /\ r.table = t.table /\ r.block = t.block
    BY <1>1 DEF ThreadType
  <2>2. page_table_break \in Int /\ Low \in Int
    BY ConstantsFit, TableAssumption
  <2>3. t.block + 1 <= page_table_break => t.block \in Low..(page_table_break - 1)
    BY <1>2, <2>2
  <2> HIDE DEF r
  <2> QED
    BY <1>1, <1>2, <2>1, <2>3 DEF Walking
<1>7. mem' \in MemType /\ LowKept(mem, mem') /\ Separate(mem', init)
  BY <1>3, NothingStored
<1>8. next_block_phys_addr' \in Int /\ next_block_phys_addr' >= Low
  BY <1>2, <1>3, ConstantsFit
<1> HIDE DEF r, s
<1> QED
  BY <1>2, <1>3, <1>4, <1>5, <1>6, <1>7, <1>8, OneMoves

\* The block cleared is none of the low tables.
LEMMA ClearStep == ASSUME TableInv, NEW c \in Clients, clear(c) PROVE TableInv'
<1> DEFINE t == thread[c]
           r == [t EXCEPT !.pc = "store"]
<1>1. t \in ThreadType /\ t.pc = "clear" /\ thread \in [Clients -> ThreadType]
      /\ mem \in MemType /\ Separate(mem, init)
  BY DEF clear, At, TableInv
<1>2. Walking(t) /\ init.pc = "done" /\ t.block \in Low..(page_table_break - 1)
  BY <1>1, ClientPlace DEF Walking
<1>3. /\ UNCHANGED <<next_block_phys_addr, P4_base, init>>
      /\ mem' = [mem EXCEPT ![t.block] = Zeroed] /\ thread' = [thread EXCEPT ![c] = r]
  BY <1>1 DEF clear
<1> HIDE DEF t
<1>4. r \in ThreadType
  BY <1>1 DEF ThreadType
<1>5. Walking(r)
  <2>1. /\ r.pc = "store" /\ r.size = t.size /\ r.page = t.page /\ r.level = t.level
        /\ r.table = t.table /\ r.block = t.block
    BY <1>1 DEF ThreadType
  <2> HIDE DEF r
  <2> QED
    BY <1>1, <1>2, <2>1 DEF Walking
<1>6. mem' \in MemType /\ LowKept(mem, mem') /\ Separate(mem', init)
  BY <1>1, <1>2, <1>3, ClearKeeps
<1>7. next_block_phys_addr' \in Int /\ next_block_phys_addr' >= Low
  BY <1>2, <1>3, NextFits
<1> HIDE DEF r
<1> QED
  BY <1>2, <1>3, <1>4, <1>5, <1>6, <1>7, OneMoves

\* Nor is the table that the block is entered in, except for free entries
\* of the root.
LEMMA StoreStep == ASSUME TableInv, NEW c \in Clients, store(c) PROVE TableInv'
<1> DEFINE t == thread[c]
           b == t.block
           k == ThreadIndex(c)
           d == Reading(t.size, t.page, t.level - 1, b)
<1>1. t \in ThreadType /\ t.pc = "store" /\ thread \in [Clients -> ThreadType]
      /\ mem \in MemType /\ Separate(mem, init)
  BY DEF store, At, TableInv
<1>2. /\ Walking(t) /\ init.pc = "done" /\ k \in Index
      /\ t.table = phys_base_addr => k \notin Special
      /\ t.table \in LowBlocks => t.table = phys_base_addr
  BY <1>1, ClientPlace
<1>3. b \in Int /\ b \notin LowBlocks /\ t.level \in 2..4 /\ t.table \in Int
      /\ t.size \in Int /\ t.page \in Int
  BY <1>1, <1>2 DEF Walking
<1>4. /\ UNCHANGED <<next_block_phys_addr, P4_base, init>>
      /\ mem' = Store(mem, t.table, k, Entry(b)) /\ thread' = [thread EXCEPT ![c] = d]
  BY <1>1 DEF store, Descend
<1> HIDE DEF t, k, b
<1>5. d = [pc |-> "look", size |-> t.size, page |-> t.page, level |-> t.level - 1,
           table |-> b, block |-> 0]
  BY DEF Reading
<1>6. t.level - 1 \in 1..3
  BY <1>3
<1> HIDE DEF d
<1>7. d \in ThreadType
  BY <1>3, <1>5, <1>6 DEF ThreadType
<1>8. Walking(d)
  <2>1. /\ d.pc = "look" /\ d.size = t.size /\ d.page = t.page /\ d.level = t.level - 1
        /\ d.table = b /\ d.block = 0
    BY <1>5
  <2> QED
    BY <1>2, <1>3, <1>6, <2>1, PlacesFit DEF Walking
<1>9. Entry(b) \in EntryType /\ Outside(Entry(b))
  BY <1>3, EntriesFit DEF Outside, Entry
<1>10. mem' \in MemType /\ LowKept(mem, mem') /\ Separate(mem', init)
  BY <1>1, <1>2, <1>3, <1>4, <1>9, StoreKeeps
<1>11. next_block_phys_addr' \in Int /\ next_block_phys_addr' >= Low
  BY <1>2, <1>4, NextFits
<1> QED
  BY <1>2, <1>4, <1>7, <1>8, <1>10, <1>11, OneMoves

\* The entry of a page is stored in a table of map_page.
LEMMA MapLastStep == ASSUME TableInv, NEW c \in Clients, map_last(c) PROVE TableInv'
<1> DEFINE t == thread[c]
           k == ThreadIndex(c)
           e == Entry(phys_base_addr + Offset(c))
           d == IF t.page < num_pages(t.size) + KERNEL_STACK_SIZE
                THEN Reading(t.size, t.page + 1, 4, phys_base_addr) ELSE Idle
<1>1. t \in ThreadType /\ t.pc = "look" /\ thread \in [Clients -> ThreadType]
      /\ mem \in MemType /\ Separate(mem, init)
  BY DEF map_last, At, TableInv
<1>2. /\ Walking(t) /\ init.pc = "done" /\ k \in Index /\ P4_base = phys_base_addr
      /\ t.table = phys_base_addr => k \notin Special
      /\ t.table \in LowBlocks => t.table = phys_base_addr
      /\ Offset(c) \in page_table_size..(KERNEL_SIZE - 1)
  BY <1>1, ClientPlace
<1>3. /\ UNCHANGED <<next_block_phys_addr, P4_base, init>> /\ thread' = [thread EXCEPT ![c] = d]
      /\ mem' = mem \/ mem' = Store(mem, t.table, k, e)
  BY <1>1, <1>2 DEF map_last, MapPage
<1>4. e \in EntryType /\ Outside(e)
  <2>1. phys_base_addr + Offset(c) \in Int /\ phys_base_addr + Offset(c) >= Low
    BY <1>2, ConstantsFit, TableAssumption
  <2> QED
    BY <2>1, EntriesFit, ConstantsFit DEF Outside, Entry, LowBlocks
<1>5. phys_base_addr \in Int /\ 0 \notin LowBlocks /\ num_pages(t.size) \in Nat
      /\ KERNEL_STACK_SIZE \in Nat
  BY <1>2, PlacesFit, OffsetsFit, FirmwareAssumption DEF Walking
<1>6. t.table \in Int /\ t.size \in Int /\ t.page \in Int
  BY <1>2, <1>5 DEF Walking
<1> HIDE DEF t, k, e
<1>7. mem' \in MemType /\ LowKept(mem, mem') /\ Separate(mem', init)
  BY <1>1, <1>2, <1>3, <1>4, <1>6, StoreKeeps, NothingStored
<1>8. next_block_phys_addr' \in Int /\ next_block_phys_addr' >= Low
  BY <1>2, <1>3, NextFits
<1>9. d \in ThreadType /\ (d = Idle \/ Walking(d))
  <2>1. CASE t.page < num_pages(t.size) + KERNEL_STACK_SIZE
    <3>1. d = [pc |-> "look", size |-> t.size, page |-> t.page + 1, level |-> 4,
               table |-> phys_base_addr, block |-> 0]
      BY <2>1 DEF Reading
    <3>2. t.page + 1 \in 1..(num_pages(t.size) + KERNEL_STACK_SIZE)
      BY <1>2, <1>5, <2>1 DEF Walking
    <3> HIDE DEF d
    <3>3. d \in ThreadType
      BY <1>5, <1>6, <3>1 DEF ThreadType
    <3>4. Walking(d)
      BY <1>2, <1>5, <3>1, <3>2 DEF Walking
    <3> QED
      BY <3>3, <3>4
  <2>2. CASE ~(t.page < num_pages(t.size) + KERNEL_STACK_SIZE)
    <3>1. d = Idle
      BY <2>2
    <3>2. Idle \in ThreadType
      BY DEF Idle, ThreadType
    <3> QED
      BY <3>1, <3>2
  <2> QED
    BY <2>1, <2>2
<1> HIDE DEF d
<1> QED
  BY <1>2, <1>3, <1>7, <1>8, <1>9, OneMoves

\* The tables of init_page_table_4k are built, and stay, at every step.
THEOREM TablesStay == Spec => []TableInv
<1>1. TableInv /\ [Next]_vars => TableInv'
  <2> SUFFICES ASSUME TableInv, [Next]_vars PROVE TableInv'
    OBVIOUS
  <2>1. CASE init_page_table
    BY <2>1, P4Step, P3UppStep, P3LowStep, P2Step, P1Step, NextP2Step, ReturnStep
       DEF init_page_table
  <2>2. CASE \E c \in Clients : \/ \E sz \in Sizes : load_firmware(c, sz)
                                \/ look(c) \/ read_next(c) \/ bump_next(c)
                                \/ clear(c) \/ store(c) \/ map_last(c)
    BY <2>2, LoadStep, LookStep, ReadNextStep, BumpNextStep, ClearStep, StoreStep, MapLastStep
  <2>3. CASE UNCHANGED vars
    BY <2>3 DEF vars, TableInv
  <2> QED
    BY <2>1, <2>2, <2>3 DEF Next
<1> QED
  BY <1>1, InitEstablishes, PTL DEF Spec

----------------------------------------------------------------------------
(* What the processor finds *)

\* Tables a, b and c are on the way from r to page v.
Leads(m, r, v, a, b, c) ==
    /\ {a, b, c} \subseteq DOMAIN m
    /\ m[r][P4_index(v)] = Entry(a) /\ m[a][P3_index(v)] = Entry(b)
    /\ m[b][P2_index(v)] = Entry(c) /\ m[c][P1_index(v)].p = TRUE

\* A walk through four levels.
LEMMA WalkIsSmall ==
    \A m, r, v, a, b, c : Leads(m, r, v, a, b, c) => Translate(m, r, v) = m[c][P1_index(v)].to
<1> SUFFICES ASSUME NEW m, NEW r, NEW v, NEW a, NEW b, NEW c, Leads(m, r, v, a, b, c)
             PROVE  Translate(m, r, v) = m[c][P1_index(v)].to
  OBVIOUS
<1> DEFINE e4 == m[r][P4_index(v)]
           e3 == m[a][P3_index(v)]
           e2 == m[b][P2_index(v)]
           e1 == m[c][P1_index(v)]
<1>1. \A x : Entry(x).p = TRUE /\ Entry(x).h = FALSE /\ Entry(x).to = x
  BY DEF Entry
<1>2. /\ e4.p = TRUE /\ e4.h = FALSE /\ e4.to = a /\ e3.p = TRUE /\ e3.h = FALSE /\ e3.to = b
      /\ e2.p = TRUE /\ e2.h = FALSE /\ e2.to = c /\ e1.p = TRUE
      /\ a \in DOMAIN m /\ b \in DOMAIN m /\ c \in DOMAIN m
  BY <1>1 DEF Leads
<1> QED
  BY <1>2 DEF Translate

LeadsHuge(m, r, v, a, b) ==
    a \in DOMAIN m /\ m[r][P4_index(v)] = Entry(a) /\ m[a][P3_index(v)] = HugeEntry(b)

\* A walk that ends at a huge page.
LEMMA WalkIsHuge ==
    \A m, r, v, a, b : LeadsHuge(m, r, v, a, b) => Translate(m, r, v) = b + (v % P3_PAGE)
<1> SUFFICES ASSUME NEW m, NEW r, NEW v, NEW a, NEW b, LeadsHuge(m, r, v, a, b)
             PROVE  Translate(m, r, v) = b + (v % P3_PAGE)
  OBVIOUS
<1>1. /\ Entry(a).p = TRUE /\ Entry(a).h = FALSE /\ Entry(a).to = a
      /\ HugeEntry(b).h = TRUE /\ HugeEntry(b).to = b
  BY DEF Entry, HugeEntry
<1> QED
  BY <1>1 DEF Translate, LeadsHuge, P3_PAGE

\* The memory is found at its low addresses, ...
LEMMA LowPagesMapped ==
    ASSUME TableInv, P4_base # 0, NEW v \in 0..(total_size - 1)
    PROVE  Translate(mem, P4_base, v) = phys_base_addr + v
<1> DEFINE B == phys_base_addr
           x == P3_index(v)
           y == P2_index(v)
           z == P1_index(v)
           a == v \div PT_ENTRIES
           b == v \div P3_PAGE
           c == v \div P4_PAGE
<1>1. P4_base = B /\ init.pc = "done" /\ mem \in MemType
  BY DEF TableInv
<1>2. AtP3Low(mem) /\ LowTables(mem, P2Num, P2Num, 0)
  BY <1>1 DEF TableInv, Building
<1>3. /\ PT_ENTRIES \in Nat /\ PT_ENTRIES >= 4 /\ P4_PAGE \in Nat \ {0} /\ total_size \in Nat
      /\ total_size <= P4_PAGE /\ P3_PAGE = PT_ENTRIES * PT_ENTRIES
  BY ConstantsFit, TableAssumption DEF P4_PAGE, P3_PAGE
<1>4. v \in Nat /\ v < P4_PAGE /\ v < total_size
  BY <1>3
<1>5. /\ a \in Nat /\ b \in Nat /\ c \in Nat /\ x \in Index /\ y \in Index /\ z \in Index
      /\ v = a * PT_ENTRIES + z /\ a = b * PT_ENTRIES + y /\ b = c * PT_ENTRIES + x
      /\ c < PT_ENTRIES => P4_index(v) = c
  BY <1>4, Digits
<1>6. c = 0
  <2>1. v = 0 * P4_PAGE + v /\ v \in 0..(P4_PAGE - 1)
    BY <1>3, <1>4
  <2> QED
    BY <1>3, <2>1, QuotientIs
<1> HIDE DEF x, y, z, a, b, c
<1>7. P4_index(v) = 0 /\ b = x
  BY <1>3, <1>5, <1>6 DEF Index
<1>8. x \in Nat /\ P0(x, y, z) = v
  <2>1. x \in Nat /\ y \in Nat /\ z \in Nat
    BY <1>3, <1>5 DEF Index
  <2>2. v = (x * PT_ENTRIES + y) * PT_ENTRIES + z
    BY <1>5, <1>7
  <2>3. (x * PT_ENTRIES + y) * PT_ENTRIES = x * P3_PAGE + y * PT_ENTRIES
    BY <1>3, <2>1
  <2> QED
    BY <2>1, <2>2, <2>3 DEF P0
<1>9. x < P2Num /\ y < P1Num(x)
  BY <1>4, <1>5, <1>8, PagesInTables
<1>10. /\ mem[B][0] = Entry(B + 2) /\ mem[B + 2][x] = Entry(P2At(x))
       /\ mem[P2At(x)][y] = Entry(P1At(x, y)) /\ mem[P1At(x, y)][z] = Entry(v + B)
  BY <1>2, <1>4, <1>5, <1>8, <1>9 DEF AtP3Low, LowTables
<1>11. B + 2 \in Blocks /\ P2At(x) \in Blocks /\ P1At(x, y) \in Blocks
  <2>1. P2At(x) \in Nat /\ P2At(x) > B + 2
    BY <1>8, TablesInOrder
  <2>2. y \in Nat /\ P1At(x, y) < Low
    BY <1>3, <1>5, <1>8, <1>9, TablesInOrder DEF Index
  <2>3. P1At(x, y) = P2At(x) + 1 + y
    BY DEF P1At
  <2>4. P2At(x) \in LowBlocks /\ P1At(x, y) \in LowBlocks
    BY <2>1, <2>2, <2>3, ConstantsFit, PlacesFit DEF LowBlocks
  <2> QED
    BY <2>4, PlacesFit
<1>12. DOMAIN mem = Blocks
  BY <1>1 DEF MemType
<1>13. Translate(mem, B, v) = mem[P1At(x, y)][P1_index(v)].to
  <2> DEFINE p3 == B + 2
             p2 == P2At(x)
             p1 == P1At(x, y)
  <2>1. mem[p1][P1_index(v)].p = TRUE
    BY <1>10 DEF Entry, z
  <2>2. /\ mem[B][P4_index(v)] = Entry(p3) /\ mem[p3][P3_index(v)] = Entry(p2)
        /\ mem[p2][P2_index(v)] = Entry(p1)
    BY <1>7, <1>10 DEF x, y
  <2>3. p3 \in DOMAIN mem /\ p2 \in DOMAIN mem /\ p1 \in DOMAIN mem
    BY <1>11, <1>12
  <2> HIDE DEF p1, p2, p3
  <2>4. Leads(mem, B, v, p3, p2, p1)
    BY <2>1, <2>2, <2>3 DEF Leads
  <2>5. Translate(mem, B, v) = mem[p1][P1_index(v)].to
    <3> HIDE DEF B
    <3> QED
      BY <2>4, WalkIsSmall, SMT
  <2> QED
    BY <2>5 DEF p1
<1>14. v + B = B + v
  BY <1>4, PlacesFit
<1> QED
  BY <1>1, <1>10, <1>13, <1>14 DEF Entry, z

\* ... all physical memory at the remapped ones, ...
LEMMA HugePagesMapped ==
    ASSUME TableInv, P4_base # 0, NEW i \in Index, NEW rest \in 0..(P3_PAGE - 1)
    PROVE  LET p == i * P3_PAGE + rest
           IN  Translate(mem, P4_base, (PT_ENTRIES - 2) * PT_ENTRIES * P3_PAGE + p) = p
<1> DEFINE B == phys_base_addr
           E == PT_ENTRIES
           G == P3_PAGE
           p == i * G + rest
           v == (E - 2) * E * G + p
           x == (E - 2) * E + i
<1>1. P4_base = B /\ init.pc = "done" /\ mem \in MemType
  BY DEF TableInv
<1>2. AtP3Upp(mem)
  BY <1>1 DEF TableInv, Building
<1>3. /\ E \in Nat \ {0} /\ E >= 4 /\ G \in Nat \ {0} /\ P4_PAGE = G * E /\ i \in 0..(E - 1)
      /\ rest \in 0..(G - 1)
  BY ConstantsFit DEF Index
<1>4. x \in Nat /\ (E - 2) * E \in Nat
  BY <1>3
<1>5. v = x * G + rest
  <2> DEFINE w == (E - 2) * E
  <2>1. x * G = w * G + i * G
    BY <1>3, <1>4
  <2>2. w * G \in Int /\ i * G \in Int
    BY <1>3, <1>4
  <2>3. v = w * G + (i * G + rest)
    OBVIOUS
  <2> DEFINE wG == w * G
             iG == i * G
  <2>4. v = wG + (iG + rest) /\ x * G = wG + iG /\ wG \in Int /\ iG \in Int
    BY <2>1, <2>2, <2>3
  <2> HIDE DEF wG, iG, x, v
  <2> QED
    BY <1>3, <2>4
<1> HIDE DEF v
<1>6. v \in Nat /\ v \div G = x /\ v % G = rest
  <2>1. x * G \in Nat
    BY <1>3, <1>4
  <2> HIDE DEF x
  <2> QED
    BY <1>3, <1>4, <1>5, <2>1, QuotientIs
<1>7. v \div P4_PAGE = E - 2 /\ x % E = i
  <2>1. v \div P4_PAGE = (v \div G) \div E
    BY <1>3, <1>6, QuotientTwice
  <2>2. E - 2 \in Nat
    BY <1>3
  <2>3. x \div E = E - 2 /\ x % E = i
    BY <1>3, <2>2, QuotientIs
  <2> QED
    BY <1>6, <2>1, <2>3
<1>8. P4_index(v) = E - 2
  <2>1. v \div P4_PAGE < PT_ENTRIES => P4_index(v) = v \div P4_PAGE
    BY <1>6, Digits
  <2>2. E - 2 < E
    BY <1>3
  <2> QED
    BY <1>7, <2>1, <2>2
<1>9. P3_index(v) = i
  BY <1>6, <1>7 DEF P3_index, P3_PAGE
<1>10. /\ mem[B][E - 2] = Entry(B + 1) /\ mem[B + 1][i] = HugeEntry(i * G)
       /\ B + 1 \in DOMAIN mem
  BY <1>1, <1>2, PlacesFit DEF AtP3Upp, MemType
<1>11. LeadsHuge(mem, B, v, B + 1, i * G)
  BY <1>8, <1>9, <1>10 DEF LeadsHuge
<1>12. Translate(mem, B, v) = i * G + (v % P3_PAGE)
  <2> HIDE DEF B
  <2> QED
    BY <1>11, WalkIsHuge, SMT
<1>13. Translate(mem, P4_base, v) = p
  BY <1>1, <1>6, <1>12
<1> QED
  BY <1>13 DEF v

\* ... and the tables of the next level at the recursive ones.
LEMMA RootMapped ==
    ASSUME TableInv, P4_base # 0, NEW i \in Index, mem[P4_base][i].p
    PROVE  Translate(mem, P4_base,
               (PT_ENTRIES - 1) * (PT_ENTRIES * P3_PAGE + P3_PAGE + PT_ENTRIES) + i)
               = mem[P4_base][i].to
<1> DEFINE B == phys_base_addr
           E == PT_ENTRIES
           G == P3_PAGE
           e == E - 1
           v == e * (E * G + G + E) + i
           b == e * E + e
           a == b * E + e
<1>1. P4_base = B /\ init.pc = "done" /\ mem \in MemType
  BY DEF TableInv
<1>2. AtP4(mem)
  BY <1>1 DEF TableInv, Building
<1>3. /\ E \in Nat \ {0} /\ E >= 4 /\ G \in Nat \ {0} /\ G = E * E /\ P4_PAGE = G * E
      /\ i \in 0..(E - 1) /\ e \in Nat /\ e \in 0..(E - 1)
  BY ConstantsFit DEF Index, P3_PAGE
<1>4. b \in Nat /\ a \in Nat
  <2>1. b \in Nat
    BY <1>3
  <2> HIDE DEF b
  <2> QED
    BY <1>3, <2>1
<1>5. v = a * E + i
  <2>1. e * (E * G + G + E) = a * E
    <3> HIDE DEF e
    <3>1. b * E = e * G + e * E
      BY <1>3
    <3>2. a * E = (e * G + e * E + e) * E
      BY <3>1
    <3>3. (e * G + e * E + e) * E = e * (E * G) + e * G + e * E
      <4>1. (e * G) * E = e * (E * G) /\ (e * E) * E = e * G
        BY <1>3
      <4>2. \A x, y, z \in Int : (x + y + z) * E = x * E + y * E + z * E
        BY <1>3
      <4>3. e * G \in Int /\ e * E \in Int /\ e \in Int
        BY <1>3
      <4> QED
        BY <4>1, <4>2, <4>3
    <3>4. e * (E * G + G + E) = e * (E * G) + e * G + e * E
      <4>1. \A x, y, z \in Int : e * (x + y + z) = e * x + e * y + e * z
        BY <1>3
      <4>2. E * G \in Int /\ G \in Int /\ E \in Int
        BY <1>3
      <4> QED
        BY <4>1, <4>2
    <3> QED
      BY <3>2, <3>3, <3>4
  <2> QED
    BY <2>1
<1> HIDE DEF v
<1>6. v \in Nat /\ v \div E = a /\ v % E = i
  <2>1. a * E \in Nat
    BY <1>3, <1>4
  <2> HIDE DEF a
  <2> QED
    BY <1>3, <1>4, <1>5, <2>1, QuotientIs
<1>7. a \div E = b /\ a % E = e /\ b \div E = e /\ b % E = e
  <2>1. b \div E = e /\ b % E = e
    BY <1>3, QuotientIs
  <2> HIDE DEF b
  <2>2. a \div E = b /\ a % E = e
    BY <1>3, <1>4, QuotientIs
  <2> QED
    BY <2>1, <2>2
<1> HIDE DEF a, b
<1>8. v \div G = b /\ v \div P4_PAGE = e
  <2>1. v \div G = (v \div E) \div E /\ v \div P4_PAGE = (v \div G) \div E
    BY <1>3, <1>6, QuotientTwice
  <2> QED
    BY <1>6, <1>7, <2>1
<1>9. P4_index(v) = e
  <2>1. v \div P4_PAGE < PT_ENTRIES => P4_index(v) = v \div P4_PAGE
    BY <1>6, Digits
  <2>2. e < E
    BY <1>3
  <2> QED
    BY <1>8, <2>1, <2>2
<1>10. P3_index(v) = e /\ P2_index(v) = e /\ P1_index(v) = i
  BY <1>6, <1>7, <1>8 DEF P3_index, P2_index, P1_index, P3_PAGE
<1>11. mem[B][e] = Entry(B) /\ B \in DOMAIN mem
  BY <1>1, <1>2, PlacesFit DEF AtP4, MemType
<1>12. mem[B][i].p = TRUE
  <2>1. mem[B][i].p \in BOOLEAN
    BY <1>1, PlacesFit DEF MemType, EntryType
  <2> QED
    BY <1>1, <2>1
<1>13. Leads(mem, B, v, B, B, B)
  BY <1>9, <1>10, <1>11, <1>12 DEF Leads
<1>14. Translate(mem, B, v) = mem[B][P1_index(v)].to
  <2> HIDE DEF B
  <2> QED
    BY <1>13, WalkIsSmall, SMT
<1>15. Translate(mem, P4_base, v) = mem[P4_base][i].to
  BY <1>1, <1>10, <1>14
<1> QED
  BY <1>15 DEF v

\* LowMappingHolds: what the comments of init_page_table_4k promise to the
\* duck kernel (low, remapped and recursive addresses) holds in every state
\* after init_page_table, for any number of clients racing in map_page.
THEOREM LowMappingStays == Spec => []LowMappingHolds
<1>1. TableInv => LowMappingHolds
  <2> SUFFICES ASSUME TableInv, P4_base # 0 PROVE LowMappingHolds
    BY DEF LowMappingHolds
  <2>1. P3_PAGE \in Nat \ {0}
    BY ConstantsFit
  <2>2. {0, P3_PAGE - 1} \subseteq 0..(P3_PAGE - 1)
    BY <2>1
  <2>3. \A v \in 0..(total_size - 1) : Translate(mem, P4_base, v) = phys_base_addr + v
    BY LowPagesMapped
  <2>4. \A i \in Index, rest \in {0, P3_PAGE - 1} :
           LET p == i * P3_PAGE + rest
           IN  Translate(mem, P4_base, (PT_ENTRIES - 2) * PT_ENTRIES * P3_PAGE + p) = p
    BY <2>2, HugePagesMapped
  <2>5. \A i \in Index : mem[P4_base][i].p =>
           Translate(mem, P4_base, (PT_ENTRIES - 1) * (PT_ENTRIES * P3_PAGE + P3_PAGE + PT_ENTRIES) + i)
               = mem[P4_base][i].to
    BY RootMapped
  <2> QED
    BY <2>3, <2>4, <2>5 DEF LowMappingHolds
<1> QED
  BY <1>1, TablesStay, PTL

----------------------------------------------------------------------------
(* The tree that map_page builds while calls do not overlap.  lev and pre    *)
(* give the level of each of its tables and the number of its part of the    *)
(* address space on that level; the blocks from Low to n - 1 are in use.     *)

TreeBlocks(n) == {phys_base_addr} \cup (Low..(n - 1))
First(k) == Prefix(k, virt_base_addr + page_table_size)
Last(k) == Prefix(k, virt_base_addr + KERNEL_SIZE - 1)

\* An entry that the tree may use.
Free(t, i) == t = phys_base_addr => i \notin Special

TreeType(n, lev, pre) ==
    /\ n \in Int /\ n >= Low
    /\ lev \in [TreeBlocks(n) -> 1..4] /\ pre \in [TreeBlocks(n) -> Nat]
    /\ lev[phys_base_addr] = 4 /\ pre[phys_base_addr] = 0
    /\ \A u \in Low..(n - 1) : lev[u] \in 1..3 /\ pre[u] \in First(lev[u])..Last(lev[u])

\* There is one table for each part of the address space ...
OnePerPart(n, lev, pre) ==
    \A t, u \in TreeBlocks(n) : lev[t] = lev[u] /\ pre[t] = pre[u] => t = u

\* ... an entry leads to the table, or the page, for its part ...
LinksTo(e, t, i, n, lev, pre) ==
    IF lev[t] = 1 THEN e = Entry(phys_base_addr + (pre[t] * PT_ENTRIES + i) - virt_base_addr)
    ELSE /\ e = Entry(e.to) /\ e.to \in Low..(n - 1)
         /\ lev[e.to] = lev[t] - 1 /\ pre[e.to] = pre[t] * PT_ENTRIES + i

Linked(m, n, lev, pre) ==
    \A t \in TreeBlocks(n), i \in Index :
        Free(t, i) /\ m[t][i].p = TRUE => LinksTo(m[t][i], t, i, n, lev, pre)

\* ... and every table but the root has an entry.
IsParent(t, i, u, m, lev, pre) ==
    lev[t] = lev[u] + 1 /\ pre[u] = pre[t] * PT_ENTRIES + i /\ Free(t, i) /\ m[t][i].p = TRUE

Entered(m, n, lev, pre) ==
    \A u \in Low..(n - 1) : \E t \in TreeBlocks(n), i \in Index : IsParent(t, i, u, m, lev, pre)

Tree(m, n, lev, pre) ==
    TreeType(n, lev, pre) /\ OnePerPart(n, lev, pre) /\ Linked(m, n, lev, pre) /\ Entered(m, n, lev, pre)

\* The parts of the address space are in the order of the addresses.
LEMMA PrefixGrows ==
    ASSUME NEW v \in Nat, NEW w \in Nat, v <= w, NEW k \in 1..3
    PROVE  Prefix(k, v) \in Nat /\ Prefix(k, w) \in Nat /\ Prefix(k, v) <= Prefix(k, w)
<1>1. PT_ENTRIES \in Nat \ {0} /\ P3_PAGE \in Nat \ {0} /\ P4_PAGE \in Nat \ {0}
  BY ConstantsFit
<1>2. CASE k = 1
  BY <1>1, <1>2, QuotientGrows, DivisionHolds DEF Prefix
<1>3. CASE k = 2
  BY <1>1, <1>3, QuotientGrows, DivisionHolds DEF Prefix
<1>4. CASE k = 3
  BY <1>1, <1>4, QuotientGrows, DivisionHolds DEF Prefix
<1> QED
  BY <1>2, <1>3, <1>4

\* Image and stack touch no more parts than blocks are set aside.
LEMMA PartsFit ==
    /\ \A k \in 1..3 : First(k) \in Nat /\ Last(k) \in Nat /\ First(k) <= Last(k)
    /\ (Last(1) - First(1) + 1) + (Last(2) - First(2) + 1) + (Last(3) - First(3) + 1) <= Reserved
<1> DEFINE v == virt_base_addr + page_table_size
           w == virt_base_addr + KERNEL_SIZE - 1
<1>1. v \in Nat /\ w \in Nat /\ v <= w
  <2>1. virt_base_addr \in Nat /\ page_table_size \in Nat /\ KERNEL_SIZE \in Nat
    BY LinuxAssumption, ConstantsFit, FirmwareAssumption
  <2>2. KERNEL_STACK_SIZE \in Nat \ {0} /\ page_table_size + KERNEL_STACK_SIZE <= KERNEL_SIZE
    BY FirmwareAssumption
  <2> QED
    BY <2>1, <2>2
<1>2. \A k \in 1..3 : First(k) = Prefix(k, v) /\ Last(k) = Prefix(k, w)
  BY DEF First, Last
<1>3. /\ TablesNeeded(PT_ENTRIES) = Last(1) - First(1) + 1
      /\ TablesNeeded(PT_ENTRIES * PT_ENTRIES) = Last(2) - First(2) + 1
      /\ TablesNeeded(PT_ENTRIES * PT_ENTRIES * PT_ENTRIES) = Last(3) - First(3) + 1
  BY DEF TablesNeeded, Last, First, Prefix, P3_PAGE, P4_PAGE
<1> HIDE DEF v, w
<1>4. \A k \in 1..3 : First(k) \in Nat /\ Last(k) \in Nat /\ First(k) <= Last(k)
  BY <1>1, <1>2, PrefixGrows
<1> QED
  BY <1>3, <1>4, ReservedAssumption

\* A page that load_firmware maps lies in the parts that are counted.
LEMMA PartOfPage ==
    ASSUME NEW off \in page_table_size..(KERNEL_SIZE - 1), NEW k \in 1..3
    PROVE  Prefix(k, virt_base_addr + off) \in First(k)..Last(k)
<1>1. /\ virt_base_addr \in Nat /\ page_table_size \in Nat /\ KERNEL_SIZE \in Nat
  BY LinuxAssumption, ConstantsFit, FirmwareAssumption
<1> DEFINE u == virt_base_addr + page_table_size
           v == virt_base_addr + off
           w == virt_base_addr + KERNEL_SIZE - 1
<1>2. u \in Nat /\ v \in Nat /\ w \in Nat /\ u <= v /\ v <= w
  BY <1>1
<1>3. First(k) = Prefix(k, u) /\ Last(k) = Prefix(k, w)
  BY DEF First, Last
<1> HIDE DEF u, v, w
<1>4. /\ Prefix(k, u) \in Nat /\ Prefix(k, v) \in Nat /\ Prefix(k, u) <= Prefix(k, v)
      /\ Prefix(k, w) \in Nat /\ Prefix(k, v) <= Prefix(k, w)
  BY <1>2, PrefixGrows
<1> QED
  BY <1>3, <1>4 DEF v

\* Tables for different parts are not more than the parts.
LEMMA TreeIsSmall ==
    ASSUME NEW n, NEW lev, NEW pre, TreeType(n, lev, pre), OnePerPart(n, lev, pre)
    PROVE  n <= page_table_break
<1> DEFINE n1 == Last(1) - First(1) + 1
           n2 == Last(2) - First(2) + 1
           n3 == Last(3) - First(3) + 1
           R == n1 + n2 + n3
           S == Low..(n - 1)
           T == 0..(R - 1)
           number(k, q) == IF k = 1 THEN q - First(1)
                           ELSE IF k = 2 THEN n1 + (q - First(2)) ELSE n1 + n2 + (q - First(3))
           f == [u \in S |-> number(lev[u], pre[u])]
<1>1. /\ n1 \in Nat /\ n2 \in Nat /\ n3 \in Nat /\ R <= Reserved /\ R \in Nat
      /\ First(1) \in Nat /\ First(2) \in Nat /\ First(3) \in Nat
      /\ Last(1) = First(1) + n1 - 1 /\ Last(2) = First(2) + n2 - 1 /\ Last(3) = First(3) + n3 - 1
  <2>1. /\ First(1) \in Nat /\ Last(1) \in Nat /\ First(1) <= Last(1)
        /\ First(2) \in Nat /\ Last(2) \in Nat /\ First(2) <= Last(2)
        /\ First(3) \in Nat /\ Last(3) \in Nat /\ First(3) <= Last(3)
        /\ n1 + n2 + n3 <= Reserved
    BY PartsFit
  <2> QED
    BY <2>1
<1>2. n \in Int /\ Low \in Nat /\ Reserved \in Nat /\ page_table_break = Low + Reserved
  BY ConstantsFit, TableAssumption DEF TreeType
<1>3. \A u \in S : lev[u] \in 1..3 /\ pre[u] \in First(lev[u])..Last(lev[u])
  BY DEF TreeType
<1>4. \A k \in 1..3 : \A q \in First(k)..Last(k) : number(k, q) \in T
  <2> SUFFICES ASSUME NEW k \in 1..3, NEW q \in First(k)..Last(k) PROVE number(k, q) \in T
    OBVIOUS
  <2> HIDE DEF n1, n2, n3
  <2>1. CASE k = 1
    BY <1>1, <2>1
  <2>2. CASE k = 2
    BY <1>1, <2>2
  <2>3. CASE k = 3
    BY <1>1, <2>3
  <2> QED
    BY <2>1, <2>2, <2>3
<1>5. \A k, l \in 1..3 : \A q \in First(k)..Last(k), r \in First(l)..Last(l) :
         number(k, q) = number(l, r) => k = l /\ q = r
  <2> SUFFICES ASSUME NEW k \in 1..3, NEW l \in 1..3, NEW q \in First(k)..Last(k),
                      NEW r \in First(l)..Last(l), number(k, q) = number(l, r)
               PROVE  k = l /\ q = r
    OBVIOUS
  <2> HIDE DEF n1, n2, n3
  <2>1. (k = 1 \/ k = 2 \/ k = 3) /\ (l = 1 \/ l = 2 \/ l = 3)
    OBVIOUS
  <2> QED
    BY <1>1, <2>1
<1> HIDE DEF number, R, n1, n2, n3
<1>6. f \in [S -> T]
  BY <1>3, <1>4
<1>7. \A x, y \in S : f[x] = f[y] => x = y
  <2> SUFFICES ASSUME NEW x \in S, NEW y \in S, f[x] = f[y] PROVE x = y
    OBVIOUS
  <2>1. lev[x] = lev[y] /\ pre[x] = pre[y]
    BY <1>3, <1>5
  <2>2. x \in TreeBlocks(n) /\ y \in TreeBlocks(n)
    BY DEF TreeBlocks
  <2> QED
    BY <2>1, <2>2 DEF OnePerPart
<1>8. IsFiniteSet(S) /\ IsFiniteSet(T) /\ Cardinality(T) = R
      /\ Cardinality(S) = IF Low > n - 1 THEN 0 ELSE n - 1 - Low + 1
  <2>1. 0 \in Int /\ R - 1 \in Int /\ Low \in Int /\ n - 1 \in Int
    BY <1>1, <1>2
  <2>2. IsFiniteSet(T) /\ Cardinality(T) = IF 0 > R - 1 THEN 0 ELSE R - 1 - 0 + 1
    BY <2>1, FS_Interval
  <2>3. IsFiniteSet(S) /\ Cardinality(S) = IF Low > n - 1 THEN 0 ELSE n - 1 - Low + 1
    BY <2>1, FS_Interval
  <2> QED
    BY <1>1, <2>2, <2>3
<1>9. ~(Cardinality(T) < Cardinality(S))
  <2> HIDE DEF S, T, f
  <2> QED
    BY <1>6, <1>7, <1>8, FS_PigeonHole
<1> QED
  BY <1>1, <1>2, <1>8, <1>9

\* An entry that is absent: no table has its part.
LEMMA PartIsNew ==
    ASSUME NEW m, NEW n, NEW lev, NEW pre, Tree(m, n, lev, pre),
           NEW t \in TreeBlocks(n), NEW i \in Index, lev[t] > 1, m[t][i].p # TRUE,
           NEW u \in TreeBlocks(n)
    PROVE  ~(lev[u] = lev[t] - 1 /\ pre[u] = pre[t] * PT_ENTRIES + i)
<1> SUFFICES ASSUME lev[u] = lev[t] - 1, pre[u] = pre[t] * PT_ENTRIES + i PROVE FALSE
  OBVIOUS
<1>1. TreeType(n, lev, pre) /\ OnePerPart(n, lev, pre) /\ Entered(m, n, lev, pre)
  BY DEF Tree
<1>2. lev[t] \in 1..4 /\ lev[u] \in 1..4 /\ pre[t] \in Nat
  BY <1>1 DEF TreeType
<1>3. u \in Low..(n - 1)
  BY <1>1, <1>2 DEF TreeBlocks, TreeType
<1>4. PICK s \in TreeBlocks(n) : \E j \in Index : IsParent(s, j, u, m, lev, pre)
  BY <1>1, <1>3 DEF Entered
<1>5. PICK j \in Index : IsParent(s, j, u, m, lev, pre)
  BY <1>4
<1>6. lev[s] = lev[t] /\ pre[s] * PT_ENTRIES + j = pre[t] * PT_ENTRIES + i /\ m[s][j].p = TRUE
  BY <1>2, <1>5 DEF IsParent
<1>7. pre[s] = pre[t] /\ j = i
  <2>1. pre[s] \in Nat /\ PT_ENTRIES \in Nat \ {0} /\ i \in 0..(PT_ENTRIES - 1) /\ j \in 0..(PT_ENTRIES - 1)
    BY <1>1, ConstantsFit DEF TreeType, Index
  <2> DEFINE q == pre[s]
             r == pre[t]
  <2>2. q \in Int /\ r \in Int /\ q * PT_ENTRIES + j = r * PT_ENTRIES + i
    BY <1>2, <1>6, <2>1
  <2> HIDE DEF q, r
  <2>3. q = r /\ j = i
    BY <2>1, <2>2, QuotientUnique
  <2> QED
    BY <2>3 DEF q, r
<1>8. s = t
  BY <1>1, <1>6, <1>7 DEF OnePerPart
<1> QED
  BY <1>6, <1>7, <1>8

\* Block n becomes the table below entry i of t.
With(n, f, x) == [u \in TreeBlocks(n + 1) |-> IF u = n THEN x ELSE f[u]]

\* The blocks in use when one more is taken.
LEMMA BlocksGrow ==
    ASSUME NEW n \in Int, n >= Low
    PROVE  /\ TreeBlocks(n + 1) = TreeBlocks(n) \cup {n}
           /\ n \notin TreeBlocks(n) /\ phys_base_addr \in TreeBlocks(n)
           /\ Low..((n + 1) - 1) = (Low..(n - 1)) \cup {n}
           /\ n \in Low..((n + 1) - 1) /\ phys_base_addr \notin Low..((n + 1) - 1)
<1>1. Low \in Nat /\ Low > phys_base_addr + 2 /\ phys_base_addr \in Nat
  BY ConstantsFit, TableAssumption
<1> QED
  BY <1>1 DEF TreeBlocks

\* A table for a part that has none keeps one table per part.
LEMMA TypeGrows ==
    ASSUME NEW m, NEW n, NEW lev, NEW pre, Tree(m, n, lev, pre),
           NEW t \in TreeBlocks(n), NEW i \in Index, lev[t] > 1, m[t][i].p # TRUE,
           pre[t] * PT_ENTRIES + i \in First(lev[t] - 1)..Last(lev[t] - 1)
    PROVE  LET l == With(n, lev, lev[t] - 1)
               p == With(n, pre, pre[t] * PT_ENTRIES + i)
           IN  TreeType(n + 1, l, p) /\ OnePerPart(n + 1, l, p)
<1> DEFINE k == lev[t] - 1
           q == pre[t] * PT_ENTRIES + i
           l == With(n, lev, k)
           p == With(n, pre, q)
<1>1. TreeType(n, lev, pre) /\ OnePerPart(n, lev, pre)
  BY DEF Tree
<1>2. n \in Int /\ n >= Low /\ k \in 1..3 /\ q \in First(k)..Last(k)
  BY <1>1 DEF TreeType
<1>3. q \in Nat
  BY <1>2, PartsFit
<1>4. \A u \in TreeBlocks(n) : ~(lev[u] = k /\ pre[u] = q)
  BY PartIsNew
<1> HIDE DEF k, q
<1>5. /\ l[n] = k /\ p[n] = q
      /\ \A u \in TreeBlocks(n) : l[u] = lev[u] /\ p[u] = pre[u]
  BY <1>2, BlocksGrow DEF With
<1>6. l \in [TreeBlocks(n + 1) -> 1..4] /\ p \in [TreeBlocks(n + 1) -> Nat]
  BY <1>1, <1>2, <1>3, BlocksGrow DEF With, TreeType
<1> HIDE DEF l, p
<1>7. TreeType(n + 1, l, p)
  <2>1. n + 1 \in Int /\ n + 1 >= Low
    BY <1>2, ConstantsFit
  <2>2. l[phys_base_addr] = 4 /\ p[phys_base_addr] = 0
    BY <1>1, <1>2, <1>5, BlocksGrow DEF TreeType
  <2>3. ASSUME NEW u \in Low..((n + 1) - 1)
        PROVE  l[u] \in 1..3 /\ p[u] \in First(l[u])..Last(l[u])
    <3>1. u = n \/ u \in Low..(n - 1)
      BY <1>2, BlocksGrow
    <3>2. CASE u = n
      BY <1>2, <1>5, <3>2
    <3>3. CASE u \in Low..(n - 1)
      BY <1>1, <1>5, <3>3 DEF TreeType, TreeBlocks
    <3> QED
      BY <3>1, <3>2, <3>3
  <2> QED
    BY <1>6, <2>1, <2>2, <2>3 DEF TreeType
<1>8. OnePerPart(n + 1, l, p)
  <2> SUFFICES ASSUME NEW a \in TreeBlocks(n + 1), NEW b \in TreeBlocks(n + 1),
                      l[a] = l[b], p[a] = p[b]
               PROVE  a = b
    BY DEF OnePerPart
  <2>1. (a = n \/ a \in TreeBlocks(n)) /\ (b = n \/ b \in TreeBlocks(n))
    BY <1>2, BlocksGrow
  <2> QED
    BY <1>1, <1>4, <1>5, <2>1 DEF OnePerPart
<1> QED
  BY <1>7, <1>8 DEF l, p, k, q

\* One entry of a table changes, or one block that is in no table.
Changed(m, w, n, t, i, e) ==
    /\ w[t][i] = e
    /\ \A u \in TreeBlocks(n), j \in Index : ~(u = t /\ j = i) => w[u][j] = m[u][j]

\* A cleared block that is entered becomes a table of the tree.
LEMMA TreeGrows ==
    ASSUME NEW m, NEW w, NEW n, NEW lev, NEW pre, Tree(m, n, lev, pre),
           NEW t \in TreeBlocks(n), NEW i \in Index, lev[t] > 1, m[t][i].p # TRUE, Free(t, i),
           pre[t] * PT_ENTRIES + i \in First(lev[t] - 1)..Last(lev[t] - 1),
           Changed(m, w, n, t, i, Entry(n)), w[n] = Zeroed
    PROVE  Tree(w, n + 1, With(n, lev, lev[t] - 1), With(n, pre, pre[t] * PT_ENTRIES + i))
<1> DEFINE k == lev[t] - 1
           q == pre[t] * PT_ENTRIES + i
           l == With(n, lev, k)
           p == With(n, pre, q)
<1>1. TreeType(n + 1, l, p) /\ OnePerPart(n + 1, l, p)
  BY TypeGrows
<1>2. /\ TreeType(n, lev, pre) /\ OnePerPart(n, lev, pre)
      /\ Linked(m, n, lev, pre) /\ Entered(m, n, lev, pre)
  BY DEF Tree
<1>3. n \in Int /\ n >= Low /\ lev[t] \in 1..4 /\ lev[t] # 1
  BY <1>2 DEF TreeType
<1>4. /\ l[n] = k /\ p[n] = q
      /\ \A u \in TreeBlocks(n) : l[u] = lev[u] /\ p[u] = pre[u]
  BY <1>3, BlocksGrow DEF With
<1> HIDE DEF l, p
<1>5. Entry(n).p = TRUE /\ Entry(n).to = n /\ \A j \in Index : Zeroed[j].p = FALSE
  BY DEF Entry, Zeroed, Absent
<1>6. Linked(w, n + 1, l, p)
  <2> SUFFICES ASSUME NEW s \in TreeBlocks(n + 1), NEW j \in Index, Free(s, j), w[s][j].p = TRUE
               PROVE  LinksTo(w[s][j], s, j, n + 1, l, p)
    BY DEF Linked
  <2>1. s \in TreeBlocks(n)
    BY <1>3, <1>5, BlocksGrow
  <2>2. CASE s = t /\ j = i
    <3>1. w[s][j] = Entry(n) /\ l[s] = lev[t] /\ p[s] = pre[t]
      BY <1>4, <2>2 DEF Changed
    <3>2. n \in Low..((n + 1) - 1)
      BY <1>3, BlocksGrow
    <3> QED
      BY <1>3, <1>4, <1>5, <2>2, <3>1, <3>2 DEF LinksTo
  <2>3. CASE ~(s = t /\ j = i)
    <3>1. w[s][j] = m[s][j]
      BY <2>1, <2>3 DEF Changed
    <3> DEFINE e == m[s][j]
    <3>2. LinksTo(e, s, j, n, lev, pre)
      BY <1>2, <2>1, <3>1 DEF Linked
    <3> HIDE DEF e
    <3>3. l[s] = lev[s] /\ p[s] = pre[s]
      BY <1>4, <2>1
    <3>4. e.to \in Low..(n - 1) => /\ e.to \in Low..((n + 1) - 1)
                                   /\ l[e.to] = lev[e.to] /\ p[e.to] = pre[e.to]
      BY <1>3, <1>4, BlocksGrow DEF TreeBlocks
    <3>5. LinksTo(e, s, j, n + 1, l, p)
      BY <3>2, <3>3, <3>4 DEF LinksTo
    <3> QED
      BY <3>1, <3>5 DEF e
  <2> QED
    BY <2>2, <2>3
<1>7. Entered(w, n + 1, l, p)
  <2> SUFFICES ASSUME NEW u \in Low..((n + 1) - 1)
               PROVE  \E s \in TreeBlocks(n + 1), j \in Index : IsParent(s, j, u, w, l, p)
    BY DEF Entered
  <2>1. CASE u = n
    <3>1. t \in TreeBlocks(n + 1) /\ l[t] = lev[t] /\ p[t] = pre[t] /\ w[t][i] = Entry(n)
      BY <1>3, <1>4, BlocksGrow DEF Changed
    <3>2. l[t] = l[u] + 1
      BY <1>3, <1>4, <2>1, <3>1
    <3>3. IsParent(t, i, u, w, l, p)
      BY <1>4, <1>5, <2>1, <3>1, <3>2 DEF IsParent
    <3> QED
      BY <3>1, <3>3
  <2>2. CASE u # n
    <3>1. u \in Low..(n - 1) /\ u \in TreeBlocks(n)
      BY <1>3, <2>2, BlocksGrow DEF TreeBlocks
    <3>2. PICK s \in TreeBlocks(n) : \E j \in Index : IsParent(s, j, u, m, lev, pre)
      BY <1>2, <3>1 DEF Entered
    <3>3. PICK j \in Index : IsParent(s, j, u, m, lev, pre)
      BY <3>2
    <3>4. w[s][j].p = TRUE
      BY <1>5, <3>3 DEF Changed, IsParent
    <3>5. s \in TreeBlocks(n + 1) /\ IsParent(s, j, u, w, l, p)
      BY <1>3, <1>4, <3>1, <3>3, <3>4, BlocksGrow DEF IsParent
    <3> QED
      BY <3>5
  <2> QED
    BY <2>1, <2>2
<1>8. Tree(w, n + 1, l, p)
  BY <1>1, <1>6, <1>7 DEF Tree, l, p
<1> QED
  BY <1>8 DEF l, p

\* The tree depends on its own tables only.
LEMMA TreeSame ==
    ASSUME NEW m, NEW w, NEW n, NEW lev, NEW pre, Tree(m, n, lev, pre),
           \A u \in TreeBlocks(n), j \in Index : w[u][j] = m[u][j]
    PROVE  Tree(w, n, lev, pre)
<1>1. Linked(w, n, lev, pre)
  BY DEF Tree, Linked
<1>2. Entered(w, n, lev, pre)
  BY DEF Tree, Entered, IsParent
<1> QED
  BY <1>1, <1>2 DEF Tree

\* Entering a page keeps the tree.
LEMMA TreeMaps ==
    ASSUME NEW m, NEW w, NEW n, NEW lev, NEW pre, Tree(m, n, lev, pre),
           NEW t \in TreeBlocks(n), NEW i \in Index, lev[t] = 1,
           Changed(m, w, n, t, i, Entry(phys_base_addr + (pre[t] * PT_ENTRIES + i) - virt_base_addr))
    PROVE  Tree(w, n, lev, pre)
<1> DEFINE e == Entry(phys_base_addr + (pre[t] * PT_ENTRIES + i) - virt_base_addr)
<1>1. e.p = TRUE
  BY DEF Entry
<1>2. Linked(w, n, lev, pre)
  <2> SUFFICES ASSUME NEW s \in TreeBlocks(n), NEW j \in Index, Free(s, j), w[s][j].p = TRUE
               PROVE  LinksTo(w[s][j], s, j, n, lev, pre)
    BY DEF Linked
  <2>1. CASE s = t /\ j = i
    BY <2>1 DEF Changed, LinksTo
  <2>2. CASE ~(s = t /\ j = i)
    BY <2>2 DEF Changed, Tree, Linked
  <2> QED
    BY <2>1, <2>2
<1>3. Entered(w, n, lev, pre)
  <2> SUFFICES ASSUME NEW u \in Low..(n - 1)
               PROVE  \E s \in TreeBlocks(n), j \in Index : IsParent(s, j, u, w, lev, pre)
    BY DEF Entered
  <2>1. PICK s \in TreeBlocks(n) : \E j \in Index : IsParent(s, j, u, m, lev, pre)
    BY DEF Tree, Entered
  <2>2. PICK j \in Index : IsParent(s, j, u, m, lev, pre)
    BY <2>1
  <2>3. w[s][j].p = TRUE
    BY <1>1, <2>2 DEF Changed, IsParent
  <2>4. IsParent(s, j, u, w, lev, pre)
    BY <2>2, <2>3 DEF IsParent
  <2> QED
    BY <2>4
<1> QED
  BY <1>2, <1>3 DEF Tree

----------------------------------------------------------------------------
(* The client that walks the tree *)

\* The page at an offset of the memory has its entry.
Mapped(m, n, lev, pre, off) ==
    \E t \in TreeBlocks(n) : /\ lev[t] = 1 /\ pre[t] = Prefix(1, virt_base_addr + off)
                             /\ m[t][P1_index(virt_base_addr + off)].p = TRUE

MappedUpTo(m, n, lev, pre, sz, k) == \A j \in 1..k : Mapped(m, n, lev, pre, PageOffset(sz, j))

PageOf(t) == virt_base_addr + PageOffset(t.size, t.page)
IndexOf(t) == LevelIndex(t.level, PageOf(t))

Placed(t, m, next, n, lev, pre) ==
    /\ t.table \in TreeBlocks(n)
    /\ lev[t.table] = t.level /\ pre[t.table] = Prefix(t.level, PageOf(t))
    /\ n = IF t.pc \in {"clear", "store"} THEN next - 1 ELSE next
    /\ t.pc \in {"clear", "store"} => t.block = n
    /\ t.pc = "bump_next" => t.block = n
    /\ t.pc # "look" => m[t.table][IndexOf(t)].p # TRUE
    /\ t.pc = "store" => m[t.block] = Zeroed
    /\ MappedUpTo(m, n, lev, pre, t.size, t.page - 1)

\* All that load_firmware maps for an image of this size.
AllMapped(m, n, lev, pre, sz) ==
    sz # 0 => /\ sz \in Nat \ {0} /\ ~TooLarge(sz)
              /\ MappedUpTo(m, n, lev, pre, sz, num_pages(sz) + KERNEL_STACK_SIZE)

Alone(th) == \A c, d \in Clients : th[c] # Idle /\ th[d] # Idle => c = d

TreeState(m, next, th, sz, n, lev, pre) ==
    /\ Tree(m, n, lev, pre) /\ next <= page_table_break /\ Alone(th)
    /\ \A c \in Clients : th[c] # Idle => th[c].size = sz /\ Placed(th[c], m, next, n, lev, pre)
    /\ (\A c \in Clients : th[c] = Idle) => n = next /\ AllMapped(m, n, lev, pre, sz)

HasTree(m, next, th, sz) == \E n \in Int : \E lev, pre : TreeState(m, next, th, sz, n, lev, pre)

\* The tree, how full it is and what it maps; before init_page_table returns
\* no firmware is loaded.
TreeInv ==
    /\ init.pc # "done" => size = 0
    /\ init.pc = "done" /\ ~overlapped => HasTree(mem, next_block_phys_addr, thread, size)

\* Pages that are mapped stay mapped when no entry is taken away, ...
LEMMA MappedKept ==
    ASSUME NEW m, NEW w, NEW n, NEW lev, NEW pre, NEW sz, NEW k,
           MappedUpTo(m, n, lev, pre, sz, k),
           \A j \in 1..k : PageOffset(sz, j) \in page_table_size..(KERNEL_SIZE - 1),
           \A t \in TreeBlocks(n), i \in Index : m[t][i].p = TRUE => w[t][i].p = TRUE
    PROVE  MappedUpTo(w, n, lev, pre, sz, k)
<1> SUFFICES ASSUME NEW j \in 1..k PROVE Mapped(w, n, lev, pre, PageOffset(sz, j))
  BY DEF MappedUpTo
<1> DEFINE off == PageOffset(sz, j)
           v == virt_base_addr + off
<1>1. Mapped(m, n, lev, pre, off)
  BY DEF MappedUpTo
<1>2. P1_index(v) \in Index
  <2>1. v \in Nat
    <3>1. off \in page_table_size..(KERNEL_SIZE - 1)
      OBVIOUS
    <3> QED
      BY <3>1, ConstantsFit, LinuxAssumption
  <2> QED
    BY <2>1, Digits
<1> HIDE DEF off
<1>3. Mapped(w, n, lev, pre, off)
  BY <1>1, <1>2 DEF Mapped
<1> QED
  BY <1>3 DEF off

\* ... and when the tree grows.
LEMMA MappedGrows ==
    ASSUME NEW m, NEW n \in Int, n >= Low, NEW lev, NEW pre, NEW sz, NEW k, NEW x, NEW y,
           MappedUpTo(m, n, lev, pre, sz, k)
    PROVE  MappedUpTo(m, n + 1, With(n, lev, x), With(n, pre, y), sz, k)
<1>1. \A t \in TreeBlocks(n) : /\ t \in TreeBlocks(n + 1) /\ With(n, lev, x)[t] = lev[t]
                               /\ With(n, pre, y)[t] = pre[t]
  BY BlocksGrow DEF With
<1> QED
  BY <1>1 DEF MappedUpTo, Mapped

\* The state after a step of the only client.
LEMMA OneActs ==
    ASSUME NEW th \in [Clients -> ThreadType], NEW c \in Clients, NEW t,
           \A d \in Clients : d # c => th[d] = Idle,
           NEW w, NEW next, NEW sz, NEW n \in Int, NEW lev, NEW pre,
           Tree(w, n, lev, pre), next <= page_table_break,
           t # Idle => t.size = sz /\ Placed(t, w, next, n, lev, pre),
           t = Idle => n = next /\ AllMapped(w, n, lev, pre, sz)
    PROVE  HasTree(w, next, [th EXCEPT ![c] = t], sz)
<1> DEFINE h == [th EXCEPT ![c] = t]
<1>1. h[c] = t /\ \A d \in Clients : d # c => h[d] = Idle
  OBVIOUS
<1> HIDE DEF h
<1>2. TreeState(w, next, h, sz, n, lev, pre)
  BY <1>1 DEF TreeState, Alone
<1> QED
  BY <1>2 DEF HasTree, h

\* What is known of the only client.
LEMMA OneIsPlaced ==
    ASSUME NEW m, NEW next, NEW th, NEW sz, NEW n, NEW lev, NEW pre,
           TreeState(m, next, th, sz, n, lev, pre), NEW c \in Clients, th[c] # Idle
    PROVE  /\ Tree(m, n, lev, pre) /\ next <= page_table_break
           /\ \A d \in Clients : d # c => th[d] = Idle
           /\ th[c].size = sz /\ Placed(th[c], m, next, n, lev, pre)
BY DEF TreeState, Alone

\* A table on the way to a page, and the part of its entry for that page.
LEMMA PlaceOfEntry ==
    ASSUME NEW t, Walking(t)
    PROVE  /\ PageOf(t) \in LinuxPages /\ IndexOf(t) \in Index
           /\ t.level = 4 => IndexOf(t) \notin Special
           /\ Prefix(t.level, PageOf(t)) * PT_ENTRIES + IndexOf(t) = Prefix(t.level - 1, PageOf(t))
           /\ t.level > 1 => Prefix(t.level - 1, PageOf(t)) \in First(t.level - 1)..Last(t.level - 1)
           /\ \A j \in 1..t.page : PageOffset(t.size, j) \in page_table_size..(KERNEL_SIZE - 1)
<1>1. /\ t.level \in 1..4 /\ t.size \in Nat \ {0} /\ ~TooLarge(t.size)
      /\ t.page \in 1..(num_pages(t.size) + KERNEL_STACK_SIZE)
  BY DEF Walking
<1>2. num_pages(t.size) \in Nat /\ KERNEL_STACK_SIZE \in Nat
  BY <1>1, OffsetsFit, FirmwareAssumption
<1>3. \A j \in 1..t.page : PageOffset(t.size, j) \in page_table_size..(KERNEL_SIZE - 1)
  <2> SUFFICES ASSUME NEW j \in 1..t.page
               PROVE  PageOffset(t.size, j) \in page_table_size..(KERNEL_SIZE - 1)
    OBVIOUS
  <2>1. j \in 1..(num_pages(t.size) + KERNEL_STACK_SIZE)
    BY <1>1, <1>2
  <2> QED
    BY <1>1, <2>1, OffsetsFit
<1> DEFINE off == PageOffset(t.size, t.page)
           v == PageOf(t)
           k == t.level
<1>4. off \in page_table_size..(KERNEL_SIZE - 1) /\ v = virt_base_addr + off
  BY <1>1, OffsetsFit DEF PageOf
<1>5. v \in LinuxPages
  <2>1. page_table_size \in Nat /\ KERNEL_SIZE <= total_size /\ total_size \in Nat /\ KERNEL_SIZE \in Nat
    BY ConstantsFit, FirmwareAssumption, TableAssumption
  <2>2. virt_base_addr \in Nat
    BY LinuxAssumption
  <2> HIDE DEF off, v
  <2> QED
    BY <1>4, <2>1, <2>2 DEF LinuxPages
<1>6. k \in 1..4 /\ IndexOf(t) = LevelIndex(k, v)
  BY <1>1 DEF IndexOf
<1>7. k > 1 => Prefix(k - 1, v) \in First(k - 1)..Last(k - 1)
  <2> SUFFICES ASSUME k > 1 PROVE Prefix(k - 1, v) \in First(k - 1)..Last(k - 1)
    OBVIOUS
  <2> DEFINE j == k - 1
  <2>1. j \in 1..3
    BY <1>6
  <2> HIDE DEF j, off, v
  <2>2. Prefix(j, v) \in First(j)..Last(j)
    BY <1>4, <2>1, PartOfPage
  <2> QED
    BY <2>2 DEF j
<1> HIDE DEF v, k
<1>8. /\ LevelIndex(k, v) \in Index /\ (k = 4 => LevelIndex(k, v) \notin Special)
      /\ Prefix(k, v) * PT_ENTRIES + LevelIndex(k, v) = Prefix(k - 1, v)
  BY <1>5, <1>6, IndexSplits
<1> QED
  BY <1>3, <1>5, <1>6, <1>7, <1>8 DEF v, k

\* After init_page_table the tree is its root.
LEMMA TreeStart ==
    ASSUME NEW m, \A k \in Index \ Special : m[phys_base_addr][k] = Absent
    PROVE  Tree(m, Low, [u \in TreeBlocks(Low) |-> 4], [u \in TreeBlocks(Low) |-> 0])
<1> DEFINE lev == [u \in TreeBlocks(Low) |-> 4]
           pre == [u \in TreeBlocks(Low) |-> 0]
<1>1. Low \in Nat /\ Low..(Low - 1) = {} /\ TreeBlocks(Low) = {phys_base_addr}
  BY ConstantsFit DEF TreeBlocks
<1>2. TreeType(Low, lev, pre)
  BY <1>1 DEF TreeType
<1>3. OnePerPart(Low, lev, pre) /\ Entered(m, Low, lev, pre)
  BY <1>1 DEF OnePerPart, Entered
<1>4. Linked(m, Low, lev, pre)
  <2>1. Absent.p = FALSE
    BY DEF Absent
  <2> QED
    BY <1>1, <2>1 DEF Linked, Free
<1> QED
  BY <1>2, <1>3, <1>4 DEF Tree

----------------------------------------------------------------------------
(* The steps keep the tree *)

\* At first there is no tree.
LEMMA TreeInit == Init => TreeInv
BY DEF Init, TreeInv

\* init_page_table leaves a tree that is empty.
LEMMA TreeReturn == ASSUME TableInv, TreeInv, return_P4 PROVE TreeInv'
<1>1. /\ init.pc = "P2" /\ Separate(mem, init) /\ \A c \in Clients : thread[c] = Idle
      /\ Building(mem, next_block_phys_addr, init) /\ size = 0 /\ init'.pc = "done"
  BY DEF TableInv, TreeInv, return_P4, InitType
<1>2. next_block_phys_addr = Low
  BY <1>1 DEF Building, return_P4
<1>3. \A k \in Index \ Special : mem[phys_base_addr][k] = Absent
  BY <1>1 DEF Separate
<1> DEFINE lev == [u \in TreeBlocks(Low) |-> 4]
           pre == [u \in TreeBlocks(Low) |-> 0]
<1>4. Tree(mem, Low, lev, pre)
  BY <1>3, TreeStart
<1>5. Low \in Int /\ Low <= page_table_break
  BY ConstantsFit, TableAssumption
<1> HIDE DEF lev, pre
<1>6. AllMapped(mem, Low, lev, pre, size)
  BY <1>1 DEF AllMapped
<1>7. TreeState(mem, next_block_phys_addr, thread, size, Low, lev, pre)
  BY <1>1, <1>2, <1>4, <1>5, <1>6 DEF TreeState, Alone
<1>8. HasTree(mem, next_block_phys_addr, thread, size)
  BY <1>5, <1>7 DEF HasTree
<1> QED
  BY <1>1, <1>8 DEF TreeInv, return_P4

\* Its other steps are not yet about the tree.
LEMMA TreeBuild ==
    ASSUME TableInv, TreeInv, add_P4 \/ add_P3Upp \/ add_P3Low \/ add_P2 \/ add_P1 \/ next_P2
    PROVE  TreeInv'
<1>1. init \in InitType /\ (init.pc # "done" => size = 0)
  BY DEF TableInv, TreeInv
<1>2. size' = size /\ init.pc # "done" /\ init'.pc # "done"
  BY <1>1 DEF add_P4, add_P3Upp, add_P3Low, add_P2, add_P1, next_P2, InitType
<1> QED
  BY <1>1, <1>2 DEF TreeInv

\* load_firmware begins at the root of the tree.
LEMMA TreeLoad == ASSUME TableInv, TreeInv, NEW c \in Clients, NEW sz \in Sizes, load_firmware(c, sz)
                  PROVE  TreeInv'
<1> DEFINE B == phys_base_addr
           next == next_block_phys_addr
           t == MapPage(sz, 1)
<1>1. /\ sz \in Nat \ {0} /\ ~TooLarge(sz) /\ init.pc = "done" /\ P4_base = B
      /\ thread \in [Clients -> ThreadType]
  BY FirmwareAssumption DEF load_firmware, TableInv
<1>2. /\ thread' = [thread EXCEPT ![c] = t] /\ size' = sz
      /\ UNCHANGED <<mem, next_block_phys_addr, init>> /\ overlapped' = (overlapped \/ ~Quiet)
  BY DEF load_firmware
<1> SUFFICES ASSUME ~overlapped' PROVE HasTree(mem, next, [thread EXCEPT ![c] = t], sz)
  BY <1>1, <1>2 DEF TreeInv
<1>3. ~overlapped /\ \A d \in Clients : thread[d] = Idle
  BY <1>2 DEF Quiet
<1>4. PICK n \in Int : \E lev, pre : TreeState(mem, next, thread, size, n, lev, pre)
  BY <1>1, <1>3 DEF TreeInv, HasTree
<1>5. PICK lev, pre : TreeState(mem, next, thread, size, n, lev, pre)
  BY <1>4
<1>6. Tree(mem, n, lev, pre) /\ next <= page_table_break /\ n = next
  BY <1>3, <1>5 DEF TreeState
<1>7. t = [pc |-> "look", size |-> sz, page |-> 1, level |-> 4, table |-> B, block |-> 0]
  BY <1>1 DEF MapPage, Reading
<1> HIDE DEF t
<1>8. B \in TreeBlocks(n) /\ lev[B] = 4 /\ pre[B] = 0
  BY <1>6 DEF Tree, TreeType, TreeBlocks
<1>9. Prefix(4, PageOf(t)) = 0
  BY DEF Prefix
<1>10. MappedUpTo(mem, n, lev, pre, t.size, t.page - 1)
  BY <1>7 DEF MappedUpTo
<1>11. Placed(t, mem, next, n, lev, pre)
  BY <1>6, <1>7, <1>8, <1>9, <1>10 DEF Placed
<1>12. t # Idle /\ t.size = sz
  BY <1>7 DEF Idle
<1> QED
  BY <1>1, <1>3, <1>6, <1>11, <1>12, OneActs

\* What the steps of a client begin with.
ClientInTree(c, n, lev, pre) ==
    /\ thread \in [Clients -> ThreadType] /\ Walking(thread[c]) /\ init.pc = "done"
    /\ mem \in MemType /\ thread[c].table \in Blocks
    /\ Tree(mem, n, lev, pre) /\ next_block_phys_addr <= page_table_break
    /\ next_block_phys_addr \in Int
    /\ \A d \in Clients : d # c => thread[d] = Idle
    /\ thread[c].size = size /\ Placed(thread[c], mem, next_block_phys_addr, n, lev, pre)
    /\ ThreadIndex(c) = IndexOf(thread[c]) /\ Offset(c) = PageOffset(thread[c].size, thread[c].page)
    /\ Found(c) = mem[thread[c].table][IndexOf(thread[c])] /\ Found(c) \in EntryType
    /\ Free(thread[c].table, IndexOf(thread[c]))

\* The tree that the only client walks, and where it is in it.
LEMMA ClientHasTree ==
    ASSUME TableInv, TreeInv, NEW c \in Clients, thread[c].pc # "idle", InBlocks(c), ~overlapped
    PROVE  \E n \in Int : \E lev, pre : ClientInTree(c, n, lev, pre)
<1>1. /\ Walking(thread[c]) /\ init.pc = "done" /\ thread[c] # Idle
      /\ thread[c].table = phys_base_addr => ThreadIndex(c) \notin Special
  BY ClientPlace
<1>2. thread[c].table \in DOMAIN mem
  BY <1>1 DEF InBlocks
<1>3. Found(c) \in EntryType /\ thread[c].table \in Blocks
  BY <1>2, FoundOutside
<1>4. PICK n \in Int : \E lev, pre :
          TreeState(mem, next_block_phys_addr, thread, size, n, lev, pre)
  BY <1>1 DEF TreeInv, HasTree
<1>5. PICK lev, pre : TreeState(mem, next_block_phys_addr, thread, size, n, lev, pre)
  BY <1>4
<1>6. /\ Tree(mem, n, lev, pre) /\ next_block_phys_addr <= page_table_break
      /\ \A d \in Clients : d # c => thread[d] = Idle
      /\ thread[c].size = size /\ Placed(thread[c], mem, next_block_phys_addr, n, lev, pre)
  BY <1>1, <1>5, OneIsPlaced
<1>7. /\ ThreadIndex(c) = IndexOf(thread[c])
      /\ Offset(c) = PageOffset(thread[c].size, thread[c].page)
      /\ Found(c) = mem[thread[c].table][IndexOf(thread[c])]
  BY DEF ThreadIndex, IndexOf, PageOf, Offset, Found
<1>8. thread \in [Clients -> ThreadType] /\ mem \in MemType /\ next_block_phys_addr \in Int
  BY DEF TableInv
<1>9. Free(thread[c].table, IndexOf(thread[c]))
  BY <1>1, <1>7 DEF Free
<1>10. ClientInTree(c, n, lev, pre)
  BY <1>1, <1>3, <1>6, <1>7, <1>8, <1>9 DEF ClientInTree
<1> QED
  BY <1>10

\* map_page goes down the tree, or finds that a table is missing.
LEMMA TreeLook == ASSUME TableInv, TreeInv, NEW c \in Clients, look(c) PROVE TreeInv'
<1> DEFINE t == thread[c]
           next == next_block_phys_addr
           i == IndexOf(t)
           e == Found(c)
           d == Reading(t.size, t.page, t.level - 1, e.to)
           r == [t EXCEPT !.pc = "read_next"]
<1>1. /\ t.pc = "look" /\ InBlocks(c) /\ t.level > 1
      /\ UNCHANGED <<mem, next_block_phys_addr, init, size, overlapped>>
      /\ thread' = IF e.p THEN Descend(c, e.to) ELSE [thread EXCEPT ![c].pc = "read_next"]
  BY DEF look, At
<1>2. t.pc # "idle"
  BY <1>1
<1>3. CASE overlapped
  BY <1>1, <1>3 DEF TreeInv
<1>4. CASE ~overlapped
  <2>1. PICK n \in Int : \E lev, pre : ClientInTree(c, n, lev, pre)
    BY <1>1, <1>2, <1>4, ClientHasTree
  <2>2. PICK lev, pre : ClientInTree(c, n, lev, pre)
    BY <2>1
  <2>3. /\ thread \in [Clients -> ThreadType] /\ Walking(t) /\ init.pc = "done"
        /\ Tree(mem, n, lev, pre) /\ next <= page_table_break
        /\ \A x \in Clients : x # c => thread[x] = Idle
        /\ t.size = size /\ Placed(t, mem, next, n, lev, pre)
        /\ e = mem[t.table][i] /\ e \in EntryType /\ Free(t.table, i)
    BY <2>2 DEF ClientInTree
  <2>4. /\ t.table \in TreeBlocks(n) /\ lev[t.table] = t.level
        /\ pre[t.table] = Prefix(t.level, PageOf(t)) /\ n = next
        /\ MappedUpTo(mem, n, lev, pre, t.size, t.page - 1)
    BY <1>1, <2>3 DEF Placed
  <2>5. /\ i \in Index
        /\ Prefix(t.level, PageOf(t)) * PT_ENTRIES + i = Prefix(t.level - 1, PageOf(t))
    BY <2>3, PlaceOfEntry
  <2>6. t \in ThreadType
    BY <2>3
  <2>7. CASE e.p = TRUE
    <3>1. thread' = [thread EXCEPT ![c] = d]
      BY <1>1, <2>7 DEF Descend
    <3>2. LinksTo(e, t.table, i, n, lev, pre)
      BY <2>3, <2>4, <2>5, <2>7 DEF Tree, Linked
    <3>3. lev[t.table] # 1
      BY <1>1, <2>3, <2>4 DEF Walking
    <3>4. /\ e.to \in Low..(n - 1) /\ lev[e.to] = t.level - 1
          /\ pre[e.to] = Prefix(t.level - 1, PageOf(t))
      BY <2>4, <2>5, <3>2, <3>3 DEF LinksTo
    <3>5. d = [pc |-> "look", size |-> t.size, page |-> t.page, level |-> t.level - 1,
               table |-> e.to, block |-> 0]
      BY DEF Reading
    <3> HIDE DEF d, t, e, i
    <3>6. PageOf(d) = PageOf(t) /\ d # Idle
      BY <3>5 DEF PageOf, Idle
    <3>7. Placed(d, mem, next, n, lev, pre)
      BY <2>4, <3>4, <3>5, <3>6 DEF Placed, TreeBlocks
    <3>8. d.size = size
      BY <2>3, <3>5
    <3>9. HasTree(mem, next, [thread EXCEPT ![c] = d], size)
      BY <2>3, <3>6, <3>7, <3>8, OneActs
    <3> QED
      BY <1>1, <2>3, <3>1, <3>9 DEF TreeInv
  <2>8. CASE e.p # TRUE
    <3>1. thread' = [thread EXCEPT ![c] = r]
      <4>1. e.p = FALSE
        BY <2>3, <2>8 DEF EntryType
      <4> QED
        BY <1>1, <2>3, <4>1
    <3> HIDE DEF t, e, i
    <3>2. /\ r.pc = "read_next" /\ r.size = t.size /\ r.page = t.page /\ r.level = t.level
          /\ r.table = t.table /\ r.block = t.block
      BY <2>6 DEF ThreadType
    <3> HIDE DEF r
    <3>3. PageOf(r) = PageOf(t) /\ IndexOf(r) = IndexOf(t) /\ r # Idle
      BY <3>2 DEF PageOf, IndexOf, Idle
    <3>4. Placed(r, mem, next, n, lev, pre)
      BY <2>3, <2>4, <2>8, <3>2, <3>3 DEF Placed, i
    <3>5. HasTree(mem, next, [thread EXCEPT ![c] = r], size)
      BY <2>3, <3>2, <3>3, <3>4, OneActs
    <3> QED
      BY <1>1, <2>3, <3>1, <3>5 DEF TreeInv
  <2> QED
    BY <2>7, <2>8
<1> QED
  BY <1>3, <1>4

\* alloc_block reads the number of the next block of the tree.
LEMMA TreeReadNext == ASSUME TableInv, TreeInv, NEW c \in Clients, read_next(c) PROVE TreeInv'
<1> DEFINE t == thread[c]
           next == next_block_phys_addr
           r == [t EXCEPT !.pc = "bump_next", !.block = next]
<1>1. /\ t.pc = "read_next" /\ InBlocks(c)
      /\ UNCHANGED <<mem, next_block_phys_addr, init, size, overlapped>>
      /\ thread' = [thread EXCEPT ![c].pc = "bump_next", ![c].block = next]
  BY DEF read_next, At
<1>2. t.pc # "idle"
  BY <1>1
<1>3. CASE overlapped
  BY <1>1, <1>3 DEF TreeInv
<1>4. CASE ~overlapped
  <2>1. PICK n \in Int : \E lev, pre : ClientInTree(c, n, lev, pre)
    BY <1>1, <1>2, <1>4, ClientHasTree
  <2>2. PICK lev, pre : ClientInTree(c, n, lev, pre)
    BY <2>1
  <2>3. /\ thread \in [Clients -> ThreadType] /\ init.pc = "done"
        /\ Tree(mem, n, lev, pre) /\ next <= page_table_break
        /\ \A x \in Clients : x # c => thread[x] = Idle
        /\ t.size = size /\ Placed(t, mem, next, n, lev, pre)
    BY <2>2 DEF ClientInTree
  <2>4. t \in ThreadType /\ thread' = [thread EXCEPT ![c] = r]
    BY <1>1, <2>3
  <2> HIDE DEF t
  <2>5. /\ r.pc = "bump_next" /\ r.size = t.size /\ r.page = t.page /\ r.level = t.level
        /\ r.table = t.table /\ r.block = next
    BY <2>4 DEF ThreadType
  <2> HIDE DEF r
  <2>6. PageOf(r) = PageOf(t) /\ IndexOf(r) = IndexOf(t) /\ r # Idle
    BY <2>5 DEF PageOf, IndexOf, Idle
  <2>7. Placed(r, mem, next, n, lev, pre)
    BY <1>1, <2>3, <2>5, <2>6 DEF Placed
  <2>8. HasTree(mem, next, [thread EXCEPT ![c] = r], size)
    BY <2>3, <2>5, <2>6, <2>7, OneActs
  <2> QED
    BY <1>1, <2>3, <2>4, <2>8 DEF TreeInv
<1> QED
  BY <1>3, <1>4

\* There is a block for the table that a client misses, and a part for it.
HasRoom(t, m, n, lev, pre) ==
    LET s == t.table
        i == IndexOf(t)
        q == pre[s] * PT_ENTRIES + i
    IN  /\ n + 1 <= page_table_break
        /\ q \in First(lev[s] - 1)..Last(lev[s] - 1) /\ q = Prefix(t.level - 1, PageOf(t))
        /\ lev[s] = t.level /\ s \in TreeBlocks(n) /\ i \in Index /\ m[s][i].p # TRUE

\* When a table is missing there is a block for it: otherwise there would be
\* more tables than parts.
LEMMA BlockIsThere ==
    ASSUME NEW m, NEW next, NEW n, NEW lev, NEW pre, NEW t, Walking(t), t.level > 1, t.pc # "look",
           Tree(m, n, lev, pre), Placed(t, m, next, n, lev, pre)
    PROVE  HasRoom(t, m, n, lev, pre)
<1> DEFINE s == t.table
           i == IndexOf(t)
           q == pre[s] * PT_ENTRIES + i
<1>1. /\ s \in TreeBlocks(n) /\ lev[s] = t.level /\ pre[s] = Prefix(t.level, PageOf(t))
      /\ m[s][i].p # TRUE
  BY DEF Placed
<1>2. /\ i \in Index /\ Prefix(t.level, PageOf(t)) * PT_ENTRIES + i = Prefix(t.level - 1, PageOf(t))
      /\ Prefix(t.level - 1, PageOf(t)) \in First(t.level - 1)..Last(t.level - 1)
  BY PlaceOfEntry
<1>3. q = Prefix(t.level - 1, PageOf(t)) /\ q \in First(lev[s] - 1)..Last(lev[s] - 1) /\ lev[s] > 1
  BY <1>1, <1>2
<1> DEFINE l == With(n, lev, lev[s] - 1)
           p == With(n, pre, q)
<1>4. TreeType(n + 1, l, p) /\ OnePerPart(n + 1, l, p)
  BY <1>1, <1>2, <1>3, TypeGrows
<1> HIDE DEF l, p
<1>5. n + 1 <= page_table_break
  BY <1>4, TreeIsSmall
<1> QED
  BY <1>1, <1>2, <1>3, <1>5 DEF HasRoom

\* So alloc_block does not fail.
LEMMA TreeBumpNext == ASSUME TableInv, TreeInv, NEW c \in Clients, bump_next(c) PROVE TreeInv'
<1> DEFINE t == thread[c]
           next == next_block_phys_addr
           r == [t EXCEPT !.pc = "clear"]
<1>1. /\ t.pc = "bump_next" /\ InBlocks(c) /\ UNCHANGED <<mem, init, size, overlapped>>
      /\ next' = t.block + 1
      /\ ~(t.block + 1 > page_table_break) => thread' = [thread EXCEPT ![c].pc = "clear"]
  BY DEF bump_next, At
<1>2. t.pc # "idle"
  BY <1>1
<1>3. CASE overlapped
  BY <1>1, <1>3 DEF TreeInv
<1>4. CASE ~overlapped
  <2>1. PICK n \in Int : \E lev, pre : ClientInTree(c, n, lev, pre)
    BY <1>1, <1>2, <1>4, ClientHasTree
  <2>2. PICK lev, pre : ClientInTree(c, n, lev, pre)
    BY <2>1
  <2>3. /\ thread \in [Clients -> ThreadType] /\ init.pc = "done" /\ Walking(t)
        /\ Tree(mem, n, lev, pre) /\ next <= page_table_break
        /\ \A x \in Clients : x # c => thread[x] = Idle
        /\ t.size = size /\ Placed(t, mem, next, n, lev, pre)
    BY <2>2 DEF ClientInTree
  <2>4. t \in ThreadType /\ t.block = n /\ t.level > 1
    BY <1>1, <2>3 DEF Placed, Walking
  <2>5. n + 1 <= page_table_break
    BY <1>1, <2>3, <2>4, BlockIsThere DEF HasRoom
  <2>6. page_table_break \in Int
    BY ConstantsFit, TableAssumption
  <2>7. next' = n + 1 /\ thread' = [thread EXCEPT ![c] = r]
    BY <1>1, <2>3, <2>4, <2>5, <2>6
  <2> HIDE DEF t
  <2>8. /\ r.pc = "clear" /\ r.size = t.size /\ r.page = t.page /\ r.level = t.level
        /\ r.table = t.table /\ r.block = t.block
    BY <2>4 DEF ThreadType
  <2> HIDE DEF r
  <2>9. PageOf(r) = PageOf(t) /\ IndexOf(r) = IndexOf(t) /\ r # Idle
    BY <2>8 DEF PageOf, IndexOf, Idle
  <2>10. n = (n + 1) - 1
    OBVIOUS
  <2>11. Placed(r, mem, n + 1, n, lev, pre)
    BY <1>1, <2>3, <2>4, <2>8, <2>9, <2>10 DEF Placed
  <2>12. HasTree(mem, n + 1, [thread EXCEPT ![c] = r], size)
    BY <2>3, <2>5, <2>8, <2>9, <2>11, OneActs
  <2> QED
    BY <1>1, <2>3, <2>7, <2>12 DEF TreeInv
<1> QED
  BY <1>3, <1>4

\* The block taken is in no use.
LEMMA TreeClear == ASSUME TableInv, TreeInv, NEW c \in Clients, clear(c) PROVE TreeInv'
<1> DEFINE t == thread[c]
           next == next_block_phys_addr
           r == [t EXCEPT !.pc = "store"]
           w == [mem EXCEPT ![t.block] = Zeroed]
<1>1. /\ t.pc = "clear" /\ InBlocks(c) /\ UNCHANGED <<next_block_phys_addr, init, size, overlapped>>
      /\ mem' = w /\ thread' = [thread EXCEPT ![c].pc = "store"]
  BY DEF clear, At
<1>2. t.pc # "idle"
  BY <1>1
<1>3. CASE overlapped
  BY <1>1, <1>3 DEF TreeInv
<1>4. CASE ~overlapped
  <2>1. PICK n \in Int : \E lev, pre : ClientInTree(c, n, lev, pre)
    BY <1>1, <1>2, <1>4, ClientHasTree
  <2>2. PICK lev, pre : ClientInTree(c, n, lev, pre)
    BY <2>1
  <2>3. /\ thread \in [Clients -> ThreadType] /\ init.pc = "done" /\ Walking(t) /\ mem \in MemType
        /\ Tree(mem, n, lev, pre) /\ next <= page_table_break
        /\ \A x \in Clients : x # c => thread[x] = Idle
        /\ t.size = size /\ Placed(t, mem, next, n, lev, pre)
    BY <2>2 DEF ClientInTree
  <2>4. t \in ThreadType /\ t.block = n /\ t.block \in Low..(page_table_break - 1)
    BY <1>1, <2>3 DEF Placed, Walking
  <2>5. n >= Low /\ n \in Blocks /\ n \notin TreeBlocks(n)
    BY <2>4, PlacesFit, ConstantsFit, BlocksGrow
  <2>6. TreeBlocks(n) \subseteq Blocks
    BY <2>4, PlacesFit, ConstantsFit, TableAssumption DEF TreeBlocks, Blocks
  <2>7. w[n] = Zeroed /\ \A u \in Blocks : u # n => w[u] = mem[u]
    <3>1. w = [mem EXCEPT ![n] = Zeroed]
      BY <2>4
    <3> HIDE DEF w
    <3> QED
      BY <2>3, <2>5, <3>1, ClearIs
  <2> HIDE DEF w
  <2>8. \A u \in TreeBlocks(n), j \in Index : w[u][j] = mem[u][j]
    BY <2>5, <2>6, <2>7
  <2>9. Tree(w, n, lev, pre)
    BY <2>3, <2>8, TreeSame
  <2>10. thread' = [thread EXCEPT ![c] = r]
    BY <1>1, <2>3
  <2>11. /\ IndexOf(t) \in Index
         /\ \A j \in 1..t.page : PageOffset(t.size, j) \in page_table_size..(KERNEL_SIZE - 1)
    BY <2>3, PlaceOfEntry
  <2> HIDE DEF t
  <2>12. /\ r.pc = "store" /\ r.size = t.size /\ r.page = t.page /\ r.level = t.level
         /\ r.table = t.table /\ r.block = t.block
    BY <2>4 DEF ThreadType
  <2> HIDE DEF r
  <2>13. PageOf(r) = PageOf(t) /\ IndexOf(r) = IndexOf(t) /\ r # Idle
    BY <2>12 DEF PageOf, IndexOf, Idle
  <2>14. MappedUpTo(w, n, lev, pre, t.size, t.page - 1)
    <3> DEFINE k == t.page - 1
               sz == t.size
    <3>1. MappedUpTo(mem, n, lev, pre, sz, k)
      BY <2>3 DEF Placed
    <3>2. \A j \in 1..k : PageOffset(sz, j) \in page_table_size..(KERNEL_SIZE - 1)
      BY <2>4, <2>11 DEF ThreadType
    <3>3. \A u \in TreeBlocks(n), j \in Index : mem[u][j].p = TRUE => w[u][j].p = TRUE
      BY <2>8
    <3> HIDE DEF k, sz
    <3>4. MappedUpTo(w, n, lev, pre, sz, k)
      BY <3>1, <3>2, <3>3, MappedKept
    <3> QED
      BY <3>4 DEF k, sz
  <2>15. w[t.table][IndexOf(t)].p # TRUE
    BY <1>1, <2>3, <2>8, <2>11 DEF Placed
  <2>16. Placed(r, w, next, n, lev, pre)
    BY <1>1, <2>3, <2>4, <2>7, <2>12, <2>13, <2>14, <2>15 DEF Placed
  <2>17. HasTree(w, next, [thread EXCEPT ![c] = r], size)
    BY <2>3, <2>9, <2>12, <2>13, <2>16, OneActs
  <2> QED
    BY <1>1, <2>3, <2>10, <2>17 DEF TreeInv
<1> QED
  BY <1>3, <1>4

\* Entering it adds it to the tree.
LEMMA TreeStore == ASSUME TableInv, TreeInv, NEW c \in Clients, store(c) PROVE TreeInv'
<1> DEFINE t == thread[c]
           next == next_block_phys_addr
           i == IndexOf(t)
           d == Reading(t.size, t.page, t.level - 1, t.block)
           w == Store(mem, t.table, i, Entry(t.block))
<1>1. /\ t.pc = "store" /\ InBlocks(c) /\ UNCHANGED <<next_block_phys_addr, init, size, overlapped>>
      /\ thread' = [thread EXCEPT ![c] = d]
      /\ mem' = Store(mem, t.table, ThreadIndex(c), Entry(t.block))
  BY DEF store, At, Descend
<1>2. t.pc # "idle"
  BY <1>1
<1>3. CASE overlapped
  BY <1>1, <1>3 DEF TreeInv
<1>4. CASE ~overlapped
  <2>1. PICK n \in Int : \E lev, pre : ClientInTree(c, n, lev, pre)
    BY <1>1, <1>2, <1>4, ClientHasTree
  <2>2. PICK lev, pre : ClientInTree(c, n, lev, pre)
    BY <2>1
  <2>3. /\ thread \in [Clients -> ThreadType] /\ init.pc = "done" /\ Walking(t) /\ mem \in MemType
        /\ Tree(mem, n, lev, pre) /\ next <= page_table_break
        /\ \A x \in Clients : x # c => thread[x] = Idle
        /\ t.size = size /\ Placed(t, mem, next, n, lev, pre) /\ ThreadIndex(c) = i
        /\ Free(t.table, i) /\ t.table \in Blocks /\ next \in Int
    BY <2>2 DEF ClientInTree
  <2>4. /\ t \in ThreadType /\ t.block = n /\ n = next - 1 /\ mem[n] = Zeroed /\ t.level \in 2..4
        /\ MappedUpTo(mem, n, lev, pre, t.size, t.page - 1)
    BY <1>1, <2>3 DEF Placed, Walking
  <2>5. t.level > 1 /\ t.pc # "look"
    BY <1>1, <2>4
  <2> DEFINE s == t.table
             q == pre[s] * PT_ENTRIES + i
  <2>6. /\ n + 1 <= page_table_break /\ q \in First(lev[s] - 1)..Last(lev[s] - 1)
        /\ q = Prefix(t.level - 1, PageOf(t)) /\ lev[s] = t.level /\ s \in TreeBlocks(n)
        /\ i \in Index /\ mem[s][i].p # TRUE
    <3>1. HasRoom(t, mem, n, lev, pre)
      BY <2>3, <2>5, BlockIsThere
    <3> QED
      BY <3>1 DEF HasRoom
  <2>7. n \in Int /\ n >= Low /\ n \notin TreeBlocks(n)
    BY <2>3, BlocksGrow DEF Tree, TreeType
  <2>8. TreeBlocks(n) \subseteq Blocks /\ n \in Blocks
    BY <2>6, <2>7, PlacesFit, ConstantsFit, TableAssumption DEF TreeBlocks, Blocks
  <2>9. s \in Int /\ Entry(n) \in EntryType /\ Entry(n).p = TRUE
    BY <2>4, <2>7, EntriesFit DEF ThreadType, Entry
  <2> HIDE DEF t, i
  <2>10. /\ \A u \in Blocks : u # s => w[u] = mem[u]
         /\ w[s][i] = Entry(n) /\ \A j \in Index : j # i => w[s][j] = mem[s][j]
    <3>1. w = Store(mem, s, i, Entry(n)) /\ s \in Blocks
      BY <2>3, <2>4
    <3>2. mem \in MemType /\ s \in Int /\ i \in Index /\ Entry(n) \in EntryType
      BY <2>3, <2>6, <2>9
    <3> HIDE DEF w, s
    <3> QED
      BY <3>1, <3>2, StoreIs
  <2>11. mem' = w
    BY <1>1, <2>3
  <2> HIDE DEF w, s
  <2>12. Changed(mem, w, n, s, i, Entry(n)) /\ w[n] = Zeroed
    BY <2>4, <2>6, <2>7, <2>8, <2>10 DEF Changed
  <2> DEFINE l == With(n, lev, lev[s] - 1)
             p == With(n, pre, q)
  <2>13. Tree(w, n + 1, l, p)
    <3>1. Free(s, i) /\ lev[s] > 1
      BY <2>3, <2>5, <2>6 DEF s
    <3> QED
      BY <2>3, <2>6, <2>12, <3>1, TreeGrows
  <2>14. l[n] = t.level - 1 /\ p[n] = Prefix(t.level - 1, PageOf(t)) /\ n \in TreeBlocks(n + 1)
    BY <2>6, <2>7, BlocksGrow DEF With
  <2> HIDE DEF q
  <2>15. MappedUpTo(w, n + 1, l, p, t.size, t.page - 1)
    <3> DEFINE k == t.page - 1
               sz == t.size
    <3>1. MappedUpTo(mem, n, lev, pre, sz, k)
      BY <2>4
    <3>2. \A j \in 1..t.page : PageOffset(t.size, j) \in page_table_size..(KERNEL_SIZE - 1)
      BY <2>3, PlaceOfEntry
    <3>3. \A j \in 1..k : PageOffset(sz, j) \in page_table_size..(KERNEL_SIZE - 1)
      BY <2>4, <3>2 DEF ThreadType
    <3>4. \A u \in TreeBlocks(n), j \in Index : mem[u][j].p = TRUE => w[u][j].p = TRUE
      BY <2>9, <2>12 DEF Changed
    <3> HIDE DEF k, sz
    <3>5. MappedUpTo(w, n, lev, pre, sz, k)
      BY <3>1, <3>3, <3>4, MappedKept
    <3>6. MappedUpTo(w, n + 1, l, p, sz, k)
      BY <2>7, <3>5, MappedGrows
    <3> QED
      BY <3>6 DEF k, sz
  <2> HIDE DEF l, p
  <2>16. d = [pc |-> "look", size |-> t.size, page |-> t.page, level |-> t.level - 1,
              table |-> n, block |-> 0]
    BY <2>4 DEF Reading
  <2> HIDE DEF d
  <2>17. PageOf(d) = PageOf(t) /\ d # Idle
    BY <2>16 DEF PageOf, Idle
  <2>18. n + 1 = next /\ n + 1 \in Int
    BY <2>3, <2>4, <2>7
  <2>19. Placed(d, w, next, n + 1, l, p)
    BY <2>14, <2>15, <2>16, <2>17, <2>18 DEF Placed
  <2>20. d.size = size
    BY <2>3, <2>16
  <2>21. HasTree(w, next, [thread EXCEPT ![c] = d], size)
    BY <2>3, <2>13, <2>17, <2>18, <2>19, <2>20, OneActs
  <2> QED
    BY <1>1, <2>3, <2>11, <2>21 DEF TreeInv
<1> QED
  BY <1>3, <1>4

\* The step of the last level: the page has its entry, the other pages keep theirs.
LEMMA PageIsMapped ==
    ASSUME NEW m, NEW w, NEW next, NEW n, NEW lev, NEW pre, NEW t, Walking(t), t.level = 1,
           Tree(m, n, lev, pre), Placed(t, m, next, n, lev, pre),
           \/ w = m /\ m[t.table][IndexOf(t)].p = TRUE
           \/ Changed(m, w, n, t.table, IndexOf(t),
                      Entry(phys_base_addr + PageOffset(t.size, t.page)))
    PROVE  Tree(w, n, lev, pre) /\ MappedUpTo(w, n, lev, pre, t.size, t.page)
<1> DEFINE s == t.table
           i == IndexOf(t)
           off == PageOffset(t.size, t.page)
           v == PageOf(t)
           e == Entry(phys_base_addr + (pre[s] * PT_ENTRIES + i) - virt_base_addr)
<1>1. /\ s \in TreeBlocks(n) /\ lev[s] = 1 /\ pre[s] = Prefix(1, v)
      /\ MappedUpTo(m, n, lev, pre, t.size, t.page - 1)
  BY DEF Placed
<1>2. /\ i \in Index /\ Prefix(1, v) * PT_ENTRIES + i = Prefix(1 - 1, v)
      /\ \A j \in 1..t.page : PageOffset(t.size, j) \in page_table_size..(KERNEL_SIZE - 1)
  BY PlaceOfEntry
<1>3. v = virt_base_addr + off /\ i = P1_index(v) /\ t.page \in Nat \ {0}
  <2>1. t.page \in 1..(num_pages(t.size) + KERNEL_STACK_SIZE)
    BY DEF Walking
  <2>2. v = virt_base_addr + off /\ i = P1_index(v)
    BY DEF PageOf, IndexOf, LevelIndex
  <2> QED
    BY <2>1, <2>2
<1>4. off \in page_table_size..(KERNEL_SIZE - 1)
  BY <1>2, <1>3
<1>5. e = Entry(phys_base_addr + off)
  <2>1. Prefix(1 - 1, v) = v
    BY DEF Prefix
  <2>2. pre[s] * PT_ENTRIES + i = virt_base_addr + off
    BY <1>1, <1>2, <1>3, <2>1
  <2>3. phys_base_addr \in Int /\ virt_base_addr \in Int /\ off \in Int
    BY <1>4, PlacesFit, LinuxAssumption, ConstantsFit
  <2> HIDE DEF off
  <2>4. phys_base_addr + (virt_base_addr + off) - virt_base_addr = phys_base_addr + off
    BY <2>3
  <2> QED
    BY <2>2, <2>4
<1>6. e.p = TRUE
  BY DEF Entry
<1> HIDE DEF s, i, off, v, e
<1>7. (w = m /\ m[s][i].p = TRUE) \/ Changed(m, w, n, s, i, e)
  BY <1>5 DEF s, i, off
<1>8. Tree(w, n, lev, pre)
  <2>1. CASE w = m
    BY <2>1
  <2>2. CASE Changed(m, w, n, s, i, e)
    BY <1>1, <1>2, <2>2, TreeMaps DEF e
  <2> QED
    BY <1>7, <2>1, <2>2
<1>9. /\ w[s][i].p = TRUE
      /\ \A u \in TreeBlocks(n), j \in Index : m[u][j].p = TRUE => w[u][j].p = TRUE
  BY <1>6, <1>7 DEF Changed
<1>10. MappedUpTo(w, n, lev, pre, t.size, t.page - 1)
  <2> DEFINE k == t.page - 1
             sz == t.size
  <2>1. \A j \in 1..k : PageOffset(sz, j) \in page_table_size..(KERNEL_SIZE - 1)
    BY <1>2, <1>3
  <2>2. MappedUpTo(m, n, lev, pre, sz, k)
    BY <1>1
  <2> HIDE DEF k, sz
  <2>3. MappedUpTo(w, n, lev, pre, sz, k)
    BY <1>9, <2>1, <2>2, MappedKept
  <2> QED
    BY <2>3 DEF k, sz
<1>11. Mapped(w, n, lev, pre, off)
  BY <1>1, <1>3, <1>9 DEF Mapped
<1>12. MappedUpTo(w, n, lev, pre, t.size, t.page)
  <2> SUFFICES ASSUME NEW j \in 1..t.page PROVE Mapped(w, n, lev, pre, PageOffset(t.size, j))
    BY DEF MappedUpTo
  <2>1. CASE j = t.page
    BY <1>11, <2>1 DEF off
  <2>2. CASE j # t.page
    <3>1. j \in 1..(t.page - 1)
      BY <1>3, <2>2
    <3> QED
      BY <1>10, <3>1 DEF MappedUpTo
  <2> QED
    BY <2>1, <2>2
<1> QED
  BY <1>8, <1>12

\* The last level maps the page, or finds it mapped to the same place.
LEMMA TreeMapLast == ASSUME TableInv, TreeInv, NEW c \in Clients, map_last(c) PROVE TreeInv'
<1> DEFINE t == thread[c]
           next == next_block_phys_addr
           i == IndexOf(t)
           e == Entry(phys_base_addr + PageOffset(t.size, t.page))
           K == num_pages(t.size) + KERNEL_STACK_SIZE
           d == IF t.page < K THEN Reading(t.size, t.page + 1, 4, phys_base_addr) ELSE Idle
           w == IF Found(c).p THEN mem ELSE Store(mem, t.table, i, e)
<1>1. /\ t.pc = "look" /\ t.level = 1 /\ InBlocks(c)
      /\ UNCHANGED <<next_block_phys_addr, init, size, overlapped>>
  BY DEF map_last, At
<1>2. t.pc # "idle"
  BY <1>1
<1>3. CASE overlapped
  BY <1>1, <1>3 DEF TreeInv
<1>4. CASE ~overlapped
  <2>1. PICK n \in Int : \E lev, pre : ClientInTree(c, n, lev, pre)
    BY <1>1, <1>2, <1>4, ClientHasTree
  <2>2. PICK lev, pre : ClientInTree(c, n, lev, pre)
    BY <2>1
  <2>3. /\ thread \in [Clients -> ThreadType] /\ init.pc = "done" /\ Walking(t) /\ mem \in MemType
        /\ Tree(mem, n, lev, pre) /\ next <= page_table_break
        /\ \A x \in Clients : x # c => thread[x] = Idle
        /\ t.size = size /\ Placed(t, mem, next, n, lev, pre) /\ ThreadIndex(c) = i
        /\ Free(t.table, i) /\ t.table \in Blocks /\ next \in Int
        /\ Offset(c) = PageOffset(t.size, t.page) /\ Found(c) = mem[t.table][i] /\ Found(c) \in EntryType
    BY <2>2 DEF ClientInTree
  <2>4. mem' = w /\ thread' = [thread EXCEPT ![c] = d]
    <3>1. P4_base = phys_base_addr
      BY <2>3 DEF TableInv
    <3>2. mem' = IF Found(c).p THEN mem
                 ELSE Store(mem, t.table, ThreadIndex(c), Entry(phys_base_addr + Offset(c)))
      BY DEF map_last
    <3>3. thread' = [thread EXCEPT ![c] = d]
      BY <3>1 DEF map_last, MapPage
    <3> QED
      BY <2>3, <3>2, <3>3
  <2>5. t \in ThreadType /\ t.table \in TreeBlocks(n) /\ n = next
    BY <1>1, <2>3 DEF Placed
  <2>6. /\ i \in Index /\ PageOffset(t.size, t.page) \in page_table_size..(KERNEL_SIZE - 1)
        /\ t.page \in 1..K /\ K \in Nat /\ ~TooLarge(t.size) /\ t.size \in Nat \ {0}
    <3>1. t.page \in 1..K /\ ~TooLarge(t.size) /\ t.size \in Nat \ {0}
      BY <2>3 DEF Walking
    <3>2. num_pages(t.size) \in Nat /\ PageOffset(t.size, t.page) \in page_table_size..(KERNEL_SIZE - 1)
      BY <3>1, OffsetsFit
    <3>3. i \in Index
      BY <2>3, PlaceOfEntry
    <3> QED
      BY <3>1, <3>2, <3>3, FirmwareAssumption
  <2>7. TreeBlocks(n) \subseteq Blocks
    BY <2>3, <2>5, PlacesFit, ConstantsFit, TableAssumption DEF TreeBlocks, Blocks
  <2>8. e \in EntryType
    BY <2>6, EntriesFit, PlacesFit, ConstantsFit
  <2>9. \/ w = mem /\ mem[t.table][i].p = TRUE
        \/ Changed(mem, w, n, t.table, i, e)
    <3>1. CASE Found(c).p = TRUE
      BY <2>3, <3>1
    <3>2. CASE Found(c).p # TRUE
      <4>1. Found(c).p = FALSE
        BY <2>3, <3>2 DEF EntryType
      <4>2. w = Store(mem, t.table, i, e)
        BY <4>1
      <4> DEFINE s == t.table
      <4>3. s \in Int /\ s \in Blocks /\ mem \in MemType /\ i \in Index /\ e \in EntryType
        BY <2>3, <2>5, <2>6, <2>8 DEF ThreadType
      <4> HIDE DEF s, i, e, w
      <4>4. w = Store(mem, s, i, e)
        BY <4>2 DEF s
      <4>5. /\ \A u \in Blocks : u # s => w[u] = mem[u]
            /\ w[s][i] = e /\ \A j \in Index : j # i => w[s][j] = mem[s][j]
        BY <4>3, <4>4, StoreIs
      <4>6. Changed(mem, w, n, s, i, e)
        BY <2>7, <4>5 DEF Changed
      <4> QED
        BY <4>6 DEF s
    <3> QED
      BY <3>1, <3>2
  <2> HIDE DEF w
  <2>10. Tree(w, n, lev, pre) /\ MappedUpTo(w, n, lev, pre, t.size, t.page)
    <3> HIDE DEF t, next
    <3> QED
      BY <1>1, <2>3, <2>9, PageIsMapped
  <2>11. CASE t.page < K
    <3>1. d = [pc |-> "look", size |-> t.size, page |-> t.page + 1, level |-> 4,
               table |-> phys_base_addr, block |-> 0]
      BY <2>11 DEF Reading
    <3> HIDE DEF t, d, K
    <3>2. (t.page + 1) - 1 = t.page
      BY <2>5 DEF ThreadType
    <3>3. /\ phys_base_addr \in TreeBlocks(n) /\ lev[phys_base_addr] = 4 /\ pre[phys_base_addr] = 0
          /\ Prefix(4, PageOf(d)) = 0
      BY <2>3 DEF Tree, TreeType, TreeBlocks, Prefix
    <3>4. Placed(d, w, next, n, lev, pre)
      BY <2>5, <2>10, <3>1, <3>2, <3>3 DEF Placed
    <3>5. d # Idle /\ d.size = size
      BY <2>3, <3>1 DEF Idle
    <3>6. HasTree(w, next, [thread EXCEPT ![c] = d], size)
      BY <2>3, <2>10, <3>4, <3>5, OneActs
    <3> QED
      BY <1>1, <2>3, <2>4, <3>6 DEF TreeInv
  <2>12. CASE ~(t.page < K)
    <3>1. d = Idle /\ t.page = K
      BY <2>6, <2>12
    <3> HIDE DEF d
    <3>2. AllMapped(w, n, lev, pre, size)
      BY <2>3, <2>6, <2>10, <3>1 DEF AllMapped
    <3>3. HasTree(w, next, [thread EXCEPT ![c] = d], size)
      BY <2>3, <2>5, <2>10, <3>1, <3>2, OneActs
    <3> QED
      BY <1>1, <2>3, <2>4, <3>3 DEF TreeInv
  <2> QED
    BY <2>11, <2>12
<1> QED
  BY <1>3, <1>4

\* Every step keeps the tree, or makes calls overlap.
LEMMA TreeSteps == ASSUME TableInv, TreeInv, [Next]_vars PROVE TreeInv'
<1>1. CASE init_page_table
  BY <1>1, TreeBuild, TreeReturn DEF init_page_table
<1>2. CASE \E c \in Clients : \/ \E sz \in Sizes : load_firmware(c, sz)
                              \/ look(c) \/ read_next(c) \/ bump_next(c)
                              \/ clear(c) \/ store(c) \/ map_last(c)
  BY <1>2, TreeLoad, TreeLook, TreeReadNext, TreeBumpNext, TreeClear, TreeStore, TreeMapLast
<1>3. CASE UNCHANGED vars
  BY <1>3 DEF vars, TreeInv
<1> QED
  BY <1>1, <1>2, <1>3 DEF Next

\* While no two calls of load_firmware overlap, what map_page builds is a
\* tree with one table for each part of the address space, and each call maps
\* the pages of its image and of the stack one after the other.
THEOREM TreeStays == Spec => []TreeInv
<1>1. Init => TreeInv
  BY TreeInit
<1>2. TableInv /\ TreeInv /\ [Next]_vars => TreeInv'
  BY TreeSteps
<1> QED
  BY <1>1, <1>2, TablesStay, PTL DEF Spec

\* While init_page_table runs the counter stays below the blocks of map_page.
LEMMA TablesBelowLow ==
    ASSUME NEW a \in Nat, a < P2Num, NEW b \in Nat, b <= P1Num(a)
    PROVE  P2At(a) <= Low /\ P1At(a, b) <= Low
<1>1. P2At(a) \in Nat /\ Low \in Nat /\ P1Num(a) \in 1..PT_ENTRIES /\ PT_ENTRIES \in Nat
  BY TablesInOrder, ConstantsFit, TablesOfGigabyte
<1>2. 0 < P1Num(a) /\ (b # 0 => b - 1 \in Nat /\ b - 1 < P1Num(a))
  BY <1>1
<1>3. P1At(a, 0) < Low /\ (b # 0 => P1At(a, b - 1) < Low)
  BY <1>2, TablesInOrder
<1>4. P1At(a, 0) = P2At(a) + 1 /\ P1At(a, b) = P2At(a) + 1 + b /\ P1At(a, b - 1) = P2At(a) + b
  BY <1>1 DEF P1At
<1> QED
  BY <1>1, <1>3, <1>4

\* The tree is no larger than its parts.
LEMMA BlocksSufficeHere == TableInv /\ TreeInv => BlocksSuffice
<1> SUFFICES ASSUME TableInv, TreeInv, ~overlapped
             PROVE  /\ next_block_phys_addr <= page_table_break
                    /\ \A c \in Clients : InBlocks(c)
  BY DEF BlocksSuffice
<1> DEFINE next == next_block_phys_addr
<1>1. /\ Low \in Nat /\ page_table_break = Low + Reserved /\ Reserved \in Nat /\ next \in Int
      /\ phys_base_addr \in Nat /\ phys_base_addr + 2 < Low
  BY ConstantsFit, TableAssumption DEF TableInv
<1>2. CASE init.pc = "done"
  <2>1. PICK n \in Int : \E lev, pre : TreeState(mem, next, thread, size, n, lev, pre)
    BY <1>2 DEF TreeInv, HasTree
  <2>2. PICK lev, pre : TreeState(mem, next, thread, size, n, lev, pre)
    BY <2>1
  <2>3. TreeType(n, lev, pre) /\ OnePerPart(n, lev, pre) /\ next <= page_table_break
    BY <2>2 DEF TreeState, Tree
  <2>4. n <= page_table_break
    BY <2>3, TreeIsSmall
  <2>5. TreeBlocks(n) \subseteq Blocks
    BY <1>1, <2>4 DEF TreeBlocks, Blocks
  <2>6. DOMAIN mem = Blocks
    BY DEF TableInv, MemType
  <2>7. ASSUME NEW c \in Clients, thread[c] # Idle PROVE thread[c].table \in Blocks
    BY <2>2, <2>5, <2>7 DEF TreeState, Placed
  <2> QED
    BY <2>3, <2>6, <2>7 DEF InBlocks
<1>3. CASE init.pc # "done"
  <2>1. \A c \in Clients : InBlocks(c)
    BY <1>3 DEF TableInv, InBlocks
  <2>2. Building(mem, next, init) /\ init \in InitType
    BY DEF TableInv
  <2>3. CASE init.pc \in {"P4", "P3Upp", "P3Low"}
    BY <1>1, <2>1, <2>2, <2>3 DEF Building
  <2>4. CASE init.pc = "P2"
    <3>1. next = IF init.P3Idx < P2Num THEN P2At(init.P3Idx) ELSE Low
      BY <2>2, <2>4 DEF Building
    <3>2. init.P3Idx \in Nat
      BY <2>2 DEF InitType
    <3>3. init.P3Idx < P2Num => P2At(init.P3Idx) <= Low
      <4> SUFFICES ASSUME init.P3Idx < P2Num PROVE P2At(init.P3Idx) <= Low
        OBVIOUS
      <4>1. P1Num(init.P3Idx) \in Nat
        BY <3>2, TablesOfGigabyte, ConstantsFit
      <4> QED
        BY <3>2, <4>1, TablesBelowLow
    <3> QED
      BY <1>1, <2>1, <3>1, <3>3
  <2>5. CASE init.pc = "P1"
    <3>1. init.P3Idx < P2Num /\ init.P2Idx <= P1Num(init.P3Idx) /\ next = P1At(init.P3Idx, init.P2Idx)
      BY <2>2, <2>5 DEF Building
    <3>2. init.P3Idx \in Nat /\ init.P2Idx \in Nat
      BY <2>2 DEF InitType
    <3>3. next <= Low
      BY <3>1, <3>2, TablesBelowLow
    <3> QED
      BY <1>1, <2>1, <3>3
  <2> QED
    BY <1>3, <2>2, <2>3, <2>4, <2>5 DEF InitType
<1> QED
  BY <1>2, <1>3

\* The blocks set aside suffice, for any number of calls of load_firmware and
\* images of any sizes, as long as the calls do not overlap.
THEOREM BlocksAlwaysSuffice == Spec => []BlocksSuffice
BY TablesStay, TreeStays, BlocksSufficeHere, PTL

----------------------------------------------------------------------------
(* From the entry of a page up to the root *)

IsTableFor(t, k, v, n, lev, pre) == t \in TreeBlocks(n) /\ lev[t] = k /\ pre[t] = Prefix(k, v)

\* From a table of the tree one level up.
LEMMA ParentLeads ==
    ASSUME NEW m, NEW n, NEW lev, NEW pre, Tree(m, n, lev, pre), NEW v \in LinuxPages,
           NEW k \in 2..4, NEW u, IsTableFor(u, k - 1, v, n, lev, pre)
    PROVE  \E t \in TreeBlocks(n) : IsTableFor(t, k, v, n, lev, pre) /\ m[t][LevelIndex(k, v)] = Entry(u)
<1>1. /\ TreeType(n, lev, pre) /\ OnePerPart(n, lev, pre)
      /\ Linked(m, n, lev, pre) /\ Entered(m, n, lev, pre)
  BY DEF Tree
<1>2. u \in TreeBlocks(n) /\ lev[u] = k - 1 /\ pre[u] = Prefix(k - 1, v)
  BY DEF IsTableFor
<1>3. u \in Low..(n - 1)
  BY <1>1, <1>2 DEF TreeBlocks, TreeType
<1>4. PICK s \in TreeBlocks(n) : \E j \in Index : IsParent(s, j, u, m, lev, pre)
  BY <1>1, <1>3 DEF Entered
<1>5. PICK j \in Index : IsParent(s, j, u, m, lev, pre)
  BY <1>4
<1>6. /\ lev[s] = k /\ pre[u] = pre[s] * PT_ENTRIES + j /\ Free(s, j) /\ m[s][j].p = TRUE
  BY <1>2, <1>5 DEF IsParent
<1>7. pre[s] = Prefix(k, v) /\ j = LevelIndex(k, v)
  <2> DEFINE q == pre[s]
             r == Prefix(k, v)
             i == LevelIndex(k, v)
  <2>1. i \in Index /\ r \in Nat /\ Prefix(k - 1, v) = r * PT_ENTRIES + i
    BY IndexSplits
  <2>2. q \in Int /\ r \in Int /\ PT_ENTRIES \in Nat \ {0}
    BY <1>1, <2>1, ConstantsFit DEF TreeType
  <2>3. q * PT_ENTRIES + j = r * PT_ENTRIES + i
    BY <1>2, <1>6, <2>1
  <2> HIDE DEF q, r, i
  <2>4. q = r /\ j = i
    BY <2>1, <2>2, <2>3, QuotientUnique DEF Index
  <2> QED
    BY <2>4 DEF q, r, i
<1> DEFINE e == m[s][j]
<1>8. LinksTo(e, s, j, n, lev, pre)
  BY <1>1, <1>6 DEF Linked
<1> HIDE DEF e
<1>9. e = Entry(e.to) /\ e.to \in Low..(n - 1) /\ lev[e.to] = lev[u] /\ pre[e.to] = pre[u]
  BY <1>2, <1>6, <1>8 DEF LinksTo
<1>10. e.to = u
  BY <1>1, <1>2, <1>9 DEF OnePerPart, TreeBlocks
<1>11. IsTableFor(s, k, v, n, lev, pre) /\ m[s][LevelIndex(k, v)] = Entry(u)
  BY <1>6, <1>7, <1>9, <1>10 DEF IsTableFor, e
<1> QED
  BY <1>11

\* The processor finds a page that the tree maps.
LEMMA MappedIsFound ==
    ASSUME NEW m \in MemType, NEW n, NEW lev, NEW pre, Tree(m, n, lev, pre),
           NEW off \in page_table_size..(KERNEL_SIZE - 1), Mapped(m, n, lev, pre, off)
    PROVE  Translate(m, phys_base_addr, virt_base_addr + off) = phys_base_addr + off
<1> DEFINE B == phys_base_addr
           v == virt_base_addr + off
<1>1. /\ TreeType(n, lev, pre) /\ OnePerPart(n, lev, pre) /\ Linked(m, n, lev, pre)
  BY DEF Tree
<1>2. v \in LinuxPages /\ off \in Int /\ virt_base_addr \in Int /\ B \in Int
  <2>1. page_table_size \in Nat /\ KERNEL_SIZE <= total_size /\ total_size \in Nat /\ KERNEL_SIZE \in Nat
    BY ConstantsFit, FirmwareAssumption, TableAssumption
  <2>2. virt_base_addr \in Nat /\ B \in Nat
    BY LinuxAssumption, TableAssumption
  <2> QED
    BY <2>1, <2>2 DEF LinuxPages
<1>3. PICK a \in TreeBlocks(n) : /\ lev[a] = 1 /\ pre[a] = Prefix(1, v)
                                 /\ m[a][P1_index(v)].p = TRUE
  BY DEF Mapped
<1> HIDE DEF v
<1>4. IsTableFor(a, 2 - 1, v, n, lev, pre)
  BY <1>3 DEF IsTableFor
<1>5. PICK b \in TreeBlocks(n) : IsTableFor(b, 2, v, n, lev, pre) /\ m[b][LevelIndex(2, v)] = Entry(a)
  BY <1>2, <1>4, ParentLeads
<1>6. IsTableFor(b, 3 - 1, v, n, lev, pre)
  BY <1>5
<1>7. PICK c \in TreeBlocks(n) : IsTableFor(c, 3, v, n, lev, pre) /\ m[c][LevelIndex(3, v)] = Entry(b)
  BY <1>2, <1>6, ParentLeads
<1>8. IsTableFor(c, 4 - 1, v, n, lev, pre)
  BY <1>7
<1>9. PICK d \in TreeBlocks(n) : IsTableFor(d, 4, v, n, lev, pre) /\ m[d][LevelIndex(4, v)] = Entry(c)
  BY <1>2, <1>8, ParentLeads
<1>10. d = B
  <2>1. B \in TreeBlocks(n) /\ lev[B] = 4 /\ pre[B] = 0 /\ Prefix(4, v) = 0
    BY <1>1 DEF TreeType, TreeBlocks, Prefix
  <2> QED
    BY <1>1, <1>9, <2>1 DEF OnePerPart, IsTableFor
<1>11. a \in DOMAIN m /\ b \in DOMAIN m /\ c \in DOMAIN m
  <2>1. n <= page_table_break /\ n \in Int
    BY <1>1, TreeIsSmall DEF TreeType
  <2>2. TreeBlocks(n) \subseteq Blocks
    BY <2>1, PlacesFit, ConstantsFit, TableAssumption DEF TreeBlocks, Blocks
  <2> QED
    BY <2>2 DEF MemType
<1>12. Leads(m, B, v, c, b, a)
  BY <1>3, <1>5, <1>7, <1>9, <1>10, <1>11 DEF Leads, LevelIndex
<1>13. Translate(m, B, v) = m[a][P1_index(v)].to
  <2> HIDE DEF B
  <2> QED
    BY <1>12, WalkIsSmall, SMT
<1>14. m[a][P1_index(v)] = Entry(B + (pre[a] * PT_ENTRIES + P1_index(v)) - virt_base_addr)
  <2>1. P1_index(v) \in Index
    BY <1>2, LinuxPagesFit, Digits
  <2>2. Free(a, P1_index(v))
    BY <1>1, <1>3 DEF Free, TreeType
  <2>3. LinksTo(m[a][P1_index(v)], a, P1_index(v), n, lev, pre)
    BY <1>1, <1>3, <2>1, <2>2 DEF Linked
  <2> QED
    BY <1>3, <2>3 DEF LinksTo
<1>15. pre[a] * PT_ENTRIES + P1_index(v) = v
  <2>1. Prefix(1 - 1, v) = Prefix(1, v) * PT_ENTRIES + LevelIndex(1, v)
    BY <1>2, IndexSplits
  <2>2. Prefix(1 - 1, v) = v /\ LevelIndex(1, v) = P1_index(v)
    BY DEF Prefix, LevelIndex
  <2> QED
    BY <1>3, <2>1, <2>2
<1>16. B + v - virt_base_addr = B + off
  BY <1>2 DEF v
<1>17. Translate(m, B, v) = B + off
  BY <1>13, <1>14, <1>15, <1>16 DEF Entry
<1> QED
  BY <1>17 DEF v

\* So it finds image and stack.
LEMMA SwitchMappedHere == TableInv /\ TreeInv => SwitchIsMapped
<1> SUFFICES ASSUME TableInv, TreeInv, size # 0, Quiet, ~overlapped
             PROVE  /\ \A byte \in 0..(KERNEL_OFFSET + size - 1) :
                          LET off == page_table_size + byte \div PAGE_SIZE
                          IN  Translate(mem, P4_base, virt_base_addr + off) = phys_base_addr + off
                    /\ \A off \in (KERNEL_SIZE - KERNEL_STACK_SIZE)..(KERNEL_SIZE - 1) :
                          Translate(mem, P4_base, virt_base_addr + off) = phys_base_addr + off
  BY DEF SwitchIsMapped
<1> DEFINE B == phys_base_addr
           S == KERNEL_STACK_SIZE
           P == page_table_size
           K == num_pages(size)
<1>1. init.pc = "done" /\ P4_base = B /\ mem \in MemType
  BY DEF TreeInv, TableInv
<1>2. PICK n \in Int : \E lev, pre : TreeState(mem, next_block_phys_addr, thread, size, n, lev, pre)
  BY <1>1 DEF TreeInv, HasTree
<1>3. PICK lev, pre : TreeState(mem, next_block_phys_addr, thread, size, n, lev, pre)
  BY <1>2
<1>4. /\ Tree(mem, n, lev, pre) /\ size \in Nat \ {0} /\ ~TooLarge(size)
      /\ MappedUpTo(mem, n, lev, pre, size, K + S)
  BY <1>3 DEF TreeState, Quiet, AllMapped
<1>5. /\ S \in Nat \ {0} /\ P \in Nat /\ KERNEL_SIZE \in Nat /\ PAGE_SIZE \in Nat \ {0}
      /\ KERNEL_OFFSET \in Nat /\ B \in Nat
  BY FirmwareAssumption, TableAssumption, ConstantsFit
<1>6. K \in Nat
  <2>1. K = (size + KERNEL_OFFSET + PAGE_SIZE - 1) \div PAGE_SIZE
    BY DEF num_pages
  <2>2. size + KERNEL_OFFSET + PAGE_SIZE - 1 \in Nat
    BY <1>4, <1>5
  <2> QED
    BY <1>5, <2>1, <2>2, DivisionHolds
<1>7. ASSUME NEW k \in 1..(K + S)
      PROVE  LET off == PageOffset(size, k)
             IN  Translate(mem, P4_base, virt_base_addr + off) = B + off
  <2> DEFINE off == PageOffset(size, k)
  <2>1. off \in page_table_size..(KERNEL_SIZE - 1)
    BY <1>4, OffsetsFit
  <2>2. Mapped(mem, n, lev, pre, off)
    BY <1>4 DEF MappedUpTo
  <2> HIDE DEF off
  <2>3. Translate(mem, B, virt_base_addr + off) = B + off
    BY <1>1, <1>4, <2>1, <2>2, MappedIsFound
  <2> QED
    BY <1>1, <2>3 DEF off
<1>8. ASSUME NEW byte \in 0..(KERNEL_OFFSET + size - 1)
      PROVE  LET off == P + byte \div PAGE_SIZE
             IN  Translate(mem, P4_base, virt_base_addr + off) = B + off
  <2> DEFINE q == byte \div PAGE_SIZE
             N == size + KERNEL_OFFSET + PAGE_SIZE - 1
  <2>1. byte \in Nat /\ q \in Nat
    <3>1. byte \in Nat
      BY <1>4, <1>5
    <3> QED
      BY <1>5, <3>1, DivisionHolds
  <2>2. N \in Nat /\ byte + PAGE_SIZE \in Nat /\ byte + PAGE_SIZE <= N
    BY <1>4, <1>5, <2>1
  <2>3. (byte + PAGE_SIZE) \div PAGE_SIZE = q + 1
    <3>1. byte = q * PAGE_SIZE + (byte % PAGE_SIZE) /\ byte % PAGE_SIZE \in 0..(PAGE_SIZE - 1)
      BY <1>5, <2>1, DivisionHolds
    <3> DEFINE r == byte % PAGE_SIZE
    <3> HIDE DEF q, r
    <3>2. (q + 1) * PAGE_SIZE = q * PAGE_SIZE + PAGE_SIZE /\ q * PAGE_SIZE \in Int
      BY <1>5, <2>1
    <3>3. byte + PAGE_SIZE = (q + 1) * PAGE_SIZE + r /\ r \in 0..(PAGE_SIZE - 1)
      BY <1>5, <2>1, <3>1, <3>2 DEF r
    <3> DEFINE x == q + 1
               y == byte + PAGE_SIZE
    <3>4. x \in Nat /\ y = x * PAGE_SIZE + r
      BY <2>1, <3>3
    <3> HIDE DEF x, y
    <3>5. y \div PAGE_SIZE = x
      BY <1>5, <3>3, <3>4, QuotientIs
    <3> QED
      BY <3>5 DEF x, y
  <2>4. (byte + PAGE_SIZE) \div PAGE_SIZE <= N \div PAGE_SIZE
    BY <1>5, <2>2, QuotientGrows
  <2>5. K = N \div PAGE_SIZE
    BY DEF num_pages
  <2> HIDE DEF q, N, K
  <2>6. q + 1 \in 1..K
    BY <1>6, <2>1, <2>3, <2>4, <2>5
  <2>7. PageOffset(size, q + 1) = P + q
    BY <1>5, <1>6, <2>1, <2>6 DEF PageOffset, K
  <2>8. q + 1 \in 1..(K + S)
    BY <1>5, <1>6, <2>6
  <2> QED
    BY <1>7, <2>7, <2>8 DEF q
<1>9. ASSUME NEW off \in (KERNEL_SIZE - S)..(KERNEL_SIZE - 1)
      PROVE  Translate(mem, P4_base, virt_base_addr + off) = B + off
  <2> DEFINE k == K + 1 + (off - (KERNEL_SIZE - S))
  <2> HIDE DEF K
  <2>1. k \in 1..(K + S) /\ ~(k <= K) /\ k - K - 1 = off - (KERNEL_SIZE - S)
    BY <1>5, <1>6
  <2>2. KERNEL_SIZE - S + (off - (KERNEL_SIZE - S)) = off
    BY <1>5
  <2> HIDE DEF k
  <2>3. PageOffset(size, k) = off
    BY <2>1, <2>2 DEF PageOffset, K
  <2> QED
    BY <1>7, <2>1, <2>3
<1> QED
  BY <1>8, <1>9

\* After a load_firmware that no other overlapped, the processor finds every
\* byte of the image and of the stack at its Linux address.
THEOREM SwitchAlwaysMapped == Spec => []SwitchIsMapped
BY TablesStay, TreeStays, SwitchMappedHere, PTL
=============================================================================
