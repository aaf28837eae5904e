------------------------- MODULE UserProgramProofs --------------------------
(***************************************************************************)
(* Proofs, for inputs, limits, pages and clocks of any size, of what a     *)
(* judged program finds in its library and what the kernel reports of it.  *)
(***************************************************************************)
EXTENDS UserProgram, TLAPS

----------------------------------------------------------------------------
(* Arithmetic *)

(* Division with remainder.                                                  *)
LEMMA Division ==
    ASSUME NEW x \in Nat, NEW d \in Nat \ {0}
    PROVE  x \div d \in Nat /\ x % d \in 0..(d - 1) /\ x = d * (x \div d) + (x % d)
<1> DEFINE q == x \div d
           r == x % d
<1>1. q \in Int /\ r \in 0..(d - 1) /\ x = d * q + r
  OBVIOUS
<1>2. q >= 0
  <2> HIDE DEF q, r
  <2> SUFFICES ASSUME q <= -1 PROVE FALSE
    BY <1>1
  <2>1. d * q <= d * (-1)
    BY <1>1
  <2> QED BY <1>1, <2>1
<1> HIDE DEF q, r
<1>3. q \in Nat /\ r \in 0..(d - 1) /\ x = d * q + r
  BY <1>1, <1>2
<1> QED BY <1>3 DEF q, r

(* The quotient is the only number with this property.                       *)
LEMMA Quotient ==
    ASSUME NEW x \in Nat, NEW d \in Nat \ {0}, NEW k \in Nat, k * d <= x, x < k * d + d
    PROVE  x \div d = k
<1> DEFINE q == x \div d
           r == x % d
<1>1. q \in Int /\ r \in 0..(d - 1) /\ x = d * q + r
  OBVIOUS
<1> HIDE DEF q, r
<1>2. ASSUME q < k PROVE FALSE
  <2>1. q + 1 <= k
    BY <1>1, <1>2
  <2>2. d * (q + 1) <= d * k
    BY <1>1, <2>1
  <2> QED BY <1>1, <2>2
<1>3. ASSUME q > k PROVE FALSE
  <2>1. k + 1 <= q
    BY <1>1, <1>3
  <2>2. d * (k + 1) <= d * q
    BY <1>1, <2>1
  <2> QED BY <1>1, <2>2
<1> QED BY <1>1, <1>2, <1>3 DEF q

(* Rounding down to pages loses less than a page.                            *)
LEMMA PageDownValue ==
    ASSUME NEW x \in Nat
    PROVE  \E k \in Nat : /\ PageDown(x) = k * PageSize /\ k * PageSize \in Nat
                         /\ k * PageSize <= x /\ x < k * PageSize + PageSize
<1> DEFINE k == x \div PageSize
<1>1. PageSize \in Nat /\ PageSize > 0
  BY UserAssumption
<1>2. k \in Nat /\ x = PageSize * k + (x % PageSize) /\ x % PageSize \in 0..(PageSize - 1)
  BY <1>1, Division
<1>3. k * PageSize = PageSize * k /\ k * PageSize \in Nat
  <2> HIDE DEF k
  <2> QED BY <1>1, <1>2
<1>4. PageDown(x) = k * PageSize
  BY DEF PageDown
<1> HIDE DEF k
<1>5. k * PageSize <= x /\ x < k * PageSize + PageSize
  BY <1>1, <1>2, <1>3
<1> QED BY <1>2, <1>3, <1>4, <1>5

(* PAGE_UP: rounding up to pages loses nothing.                              *)
LEMMA PageUpValue ==
    ASSUME NEW x \in Nat
    PROVE  PageUp(x) \in Nat /\ PageUp(x) >= x
<1>1. PageSize \in Nat /\ PageSize > 0 /\ x + PageSize - 1 \in Nat
  BY UserAssumption
<1>2. PICK k \in Nat : /\ PageUp(x) = k * PageSize /\ k * PageSize \in Nat
                       /\ x + PageSize - 1 < k * PageSize + PageSize
  BY <1>1, PageDownValue DEF PageUp
<1> QED BY <1>1, <1>2

(* A multiple of the page size plus a multiple is one.                       *)
LEMMA PagesAdd ==
    ASSUME NEW a \in Nat, a % PageSize = 0, NEW k \in Nat
    PROVE  (a + k * PageSize) % PageSize = 0
<1> DEFINE j == a \div PageSize
<1>1. PageSize \in Nat /\ PageSize > 0
  BY UserAssumption
<1>2. j \in Nat /\ a = j * PageSize
  BY <1>1
<1> HIDE DEF j
<1>3. a + k * PageSize = (j + k) * PageSize
  BY <1>1, <1>2
<1>4. ASSUME NEW n \in Nat PROVE (n * PageSize) % PageSize = 0
  <2>1. n * PageSize \in Nat
    BY <1>1
  <2>2. (n * PageSize) \div PageSize = n
    <3>1. n * PageSize <= n * PageSize /\ n * PageSize < n * PageSize + PageSize
      BY <1>1, <2>1
    <3> QED BY <1>1, <2>1, <3>1, Quotient
  <2> DEFINE p == n * PageSize
  <2>3. p = PageSize * (p \div PageSize) + (p % PageSize)
    <3>1. p \in Nat
      BY <2>1
    <3> HIDE DEF p
    <3> QED BY <1>1, <3>1, Division
  <2>4. PageSize * n = p /\ p % PageSize \in Int
    BY <1>1, <2>1
  <2>5. p \div PageSize = n /\ p \in Nat
    BY <2>1, <2>2
  <2> HIDE DEF p
  <2>6. p % PageSize = 0
    BY <2>3, <2>4, <2>5
  <2> QED BY <2>6 DEF p
<1> QED BY <1>2, <1>3, <1>4

(* 2^64 is a whole number of pages.                                          *)
LEMMA WordIsPages == \E w \in Nat : Word64 = w * PageSize
<1> DEFINE w == Word64 \div PageSize
<1>1. PageSize \in Nat \ {0} /\ Word64 \in Nat /\ Word64 % PageSize = 0
  BY UserAssumption
<1>2. w \in Nat /\ Word64 = PageSize * w + 0
  BY <1>1, Division
<1> HIDE DEF w
<1> QED BY <1>1, <1>2

(* So an address on a page stays on one when it wraps.                       *)
LEMMA PagesWrap ==
    ASSUME NEW a \in Nat, a % PageSize = 0
    PROVE  a % Word64 \in Nat /\ (a % Word64) % PageSize = 0
<1> DEFINE j == a \div PageSize
           q == a \div Word64
           m == a % Word64
<1>1. PageSize \in Nat /\ PageSize > 0 /\ Word64 \in Nat \ {0}
  BY UserAssumption
<1>2. j \in Nat /\ a = PageSize * j
  BY <1>1, Division
<1>3. q \in Nat /\ m \in Nat /\ a = Word64 * q + m
  BY <1>1, Division
<1>4. PICK w \in Nat : Word64 = w * PageSize
  BY WordIsPages
<1> HIDE DEF j, q, m
<1> DEFINE n == j - w * q
<1>5. n \in Int /\ m = n * PageSize
  <2>1. w * q \in Nat
    BY <1>3, <1>4
  <2>2. (w * PageSize) * q = (w * q) * PageSize /\ PageSize * j = j * PageSize
    BY <1>1, <1>2, <1>3, <1>4
  <2>3. (j - w * q) * PageSize = j * PageSize - (w * q) * PageSize
    BY <1>1, <1>2, <2>1
  <2> QED BY <1>1, <1>2, <1>3, <1>4, <2>1, <2>2, <2>3
<1> HIDE DEF n
<1>6. n \in Nat
  <2> SUFFICES ASSUME n <= -1 PROVE FALSE
    BY <1>5
  <2>1. n * PageSize <= (-1) * PageSize
    BY <1>1, <1>5
  <2> QED BY <1>1, <1>3, <1>5, <2>1
<1>7. 0 % PageSize = 0
  BY <1>1
<1>8. (0 + n * PageSize) % PageSize = 0
  BY <1>6, <1>7, PagesAdd
<1>9. 0 + n * PageSize = m
  BY <1>1, <1>5
<1> QED BY <1>3, <1>8, <1>9 DEF m

(* The sum in mmap_size wraps only for a size that takes all 2^64 bytes.     *)
LEMMA MmapSizeValue ==
    ASSUME NEW size \in Nat
    PROVE  /\ \E k \in Nat : mmap_size(size) = k * PageSize
           /\ PageUp(size) < Word64 => mmap_size(size) = PageUp(size)
<1> DEFINE s == size + PageSize - 1
<1>1. PageSize \in Nat /\ PageSize > 0 /\ Word64 \in Nat \ {0} /\ s \in Nat
  BY UserAssumption
<1>2. \E k \in Nat : mmap_size(size) = k * PageSize
  <2>1. s % Word64 \in Nat
    BY <1>1, Division
  <2>2. \E k \in Nat : PageDown(s % Word64) = k * PageSize
    <3> HIDE DEF s
    <3> QED BY <2>1, PageDownValue
  <2> QED BY <2>2 DEF mmap_size
<1>3. ASSUME PageUp(size) < Word64 PROVE mmap_size(size) = PageUp(size)
  <2>1. PICK k \in Nat : /\ PageUp(size) = k * PageSize /\ k * PageSize \in Nat
                         /\ s < k * PageSize + PageSize
    BY <1>1, PageDownValue DEF PageUp
  <2>2. PICK w \in Nat : Word64 = w * PageSize
    BY WordIsPages
  <2>3. k + 1 <= w
    <3> SUFFICES ASSUME w <= k PROVE FALSE
      BY <2>1, <2>2
    <3>1. w * PageSize <= k * PageSize
      BY <1>1
    <3> QED BY <1>1, <1>3, <2>1, <2>2, <3>1
  <2>4. (k + 1) * PageSize <= w * PageSize /\ (k + 1) * PageSize = k * PageSize + PageSize
    BY <1>1, <2>3
  <2>5. s < Word64
    <3> HIDE DEF s
    <3> QED BY <1>1, <2>1, <2>2, <2>4
  <2>6. s % Word64 = s
    <3> HIDE DEF s
    <3> QED BY <1>1, <2>5
  <2> QED BY <2>6 DEF mmap_size, PageUp
<1> QED BY <1>2, <1>3

(* tsc_to_ns multiplies the quotient and the remainder apart: neither        *)
(* product wraps, and their sum is the time rounded down.                    *)
LEMMA TscToNs ==
    ASSUME NEW t \in 0..MaxClock
    PROVE  tsc_to_ns(t) = (t * Giga) \div tsc_freq
<1> DEFINE f == tsc_freq
           q == t \div f
           r == t % f
           b == q * Giga
           a == r * Giga
           n == a \div f
           m == a % f
<1>1. f \in Nat /\ f > 0 /\ Giga \in Nat /\ Word64 \in Nat /\ f * Giga < Word64 /\ t \in Nat
      /\ MaxClock \in Nat /\ t <= MaxClock /\ MaxClock * Giga < Word64 * f
  BY UserAssumption
<1>2. q \in Nat /\ r \in 0..(f - 1) /\ t = f * q + r
  <2> HIDE DEF f
  <2> QED BY <1>1
<1> HIDE DEF q, r, f
<1>3. a \in Nat /\ b \in Nat /\ a <= f * Giga /\ t * Giga = f * b + a
  <2>1. r * Giga <= f * Giga
    BY <1>1, <1>2
  <2>2. (f * q + r) * Giga = f * (q * Giga) + r * Giga
    BY <1>1, <1>2
  <2> QED BY <1>1, <1>2, <2>1, <2>2
<1>4. a % Word64 = a
  <2> HIDE DEF a
  <2> QED BY <1>1, <1>3
<1>5. n \in Nat /\ m \in 0..(f - 1) /\ a = f * n + m
  <2> HIDE DEF a
  <2> QED BY <1>1, <1>3
<1> HIDE DEF a, b, n, m
<1>6. t * Giga \in Nat /\ t * Giga <= MaxClock * Giga
  BY <1>1
<1>7. (b + n) * f = f * b + f * n /\ b + n \in Nat /\ (b + n) * f \in Nat
  BY <1>1, <1>3, <1>5
<1>8. (t * Giga) \div f = b + n
  <2>1. (b + n) * f <= t * Giga /\ t * Giga < (b + n) * f + f
    BY <1>1, <1>3, <1>5, <1>6, <1>7
  <2> DEFINE x == t * Giga
  <2> HIDE DEF x
  <2> QED BY <1>1, <1>6, <1>7, <2>1, Quotient DEF x
<1>9. b + n < Word64
  <2> SUFFICES ASSUME b + n >= Word64 PROVE FALSE
    BY <1>1, <1>7
  <2>1. (b + n) * f >= Word64 * f
    BY <1>1, <1>7
  <2> QED BY <1>1, <1>3, <1>5, <1>6, <1>7, <2>1
<1>10. (b + n) % Word64 = b + n
  <2> DEFINE x == b + n
  <2> HIDE DEF x
  <2> QED BY <1>1, <1>7, <1>9 DEF x
<1> QED BY <1>4, <1>8, <1>10 DEF tsc_to_ns, a, b, n, q, r, f

----------------------------------------------------------------------------
(* Sequences *)

(* Concatenation, element by element.                                        *)
LEMMA ConcatValue ==
    ASSUME NEW s \in Seq(Nat), NEW t \in Seq(Nat)
    PROVE  /\ s \o t \in Seq(Nat) /\ Len(s \o t) = Len(s) + Len(t)
           /\ Len(s) \in Nat /\ Len(t) \in Nat
           /\ \A i \in 1..(Len(s) + Len(t)) :
                 (s \o t)[i] = IF i <= Len(s) THEN s[i] ELSE t[i - Len(s)]
OBVIOUS

(* Sequences with the same elements are equal.                               *)
LEMMA SameSequence ==
    ASSUME NEW s \in Seq(Nat), NEW t \in Seq(Nat), Len(s) = Len(t),
           \A i \in 1..Len(s) : s[i] = t[i]
    PROVE  s = t
OBVIOUS

(* A prefix, element by element.                                             *)
LEMMA PrefixValue ==
    ASSUME NEW s \in Seq(Nat), NEW n \in Nat
    PROVE  /\ Prefix(s, n) \in Seq(Nat)
           /\ Len(Prefix(s, n)) = min(n, Len(s))
           /\ \A i \in 1..min(n, Len(s)) : Prefix(s, n)[i] = s[i]
BY DEF Prefix, min

(* Writing to an output that holds the first bytes written leaves the first  *)
(* bytes of all, up to the limit.                                            *)
LEMMA AppendPrefix ==
    ASSUME NEW s \in Seq(Nat), NEW buf \in Seq(Nat), NEW limit \in Nat
    PROVE  append(Prefix(s, limit), limit, buf) = Prefix(s \o buf, limit)
<1> DEFINE out == Prefix(s, limit)
           n == min(Len(buf), room(limit, Len(out)))
           new == append(out, limit, buf)
           all == Prefix(s \o buf, limit)
<1>1. /\ out \in Seq(Nat) /\ Len(out) = min(limit, Len(s))
      /\ \A i \in 1..Len(out) : out[i] = s[i]
  BY PrefixValue
<1>2. /\ s \o buf \in Seq(Nat) /\ Len(s \o buf) = Len(s) + Len(buf)
      /\ \A i \in 1..(Len(s) + Len(buf)) :
            (s \o buf)[i] = IF i <= Len(s) THEN s[i] ELSE buf[i - Len(s)]
  BY ConcatValue
<1>3. /\ all \in Seq(Nat) /\ Len(all) = min(limit, Len(s) + Len(buf))
      /\ \A i \in 1..Len(all) : all[i] = (s \o buf)[i]
  BY <1>2, PrefixValue
<1>0. Len(s) \in Nat /\ Len(buf) \in Nat
  OBVIOUS
<1> HIDE DEF out, all
<1>4. n \in 0..Len(buf) /\ Len(out) + n = Len(all) /\ (n > 0 => Len(out) = Len(s))
  <2>1. n = IF Len(buf) < limit - Len(out) THEN Len(buf) ELSE limit - Len(out)
    BY DEF min, room
  <2>2. Len(out) = IF limit < Len(s) THEN limit ELSE Len(s)
    BY <1>1 DEF min
  <2>3. Len(all) = IF limit < Len(s) + Len(buf) THEN limit ELSE Len(s) + Len(buf)
    BY <1>3 DEF min
  <2> HIDE DEF n
  <2>4. CASE limit < Len(s)
    BY <1>0, <2>1, <2>2, <2>3, <2>4
  <2>5. CASE ~ (limit < Len(s))
    <3>1. Len(out) = Len(s)
      BY <2>2, <2>5
    <3>2. CASE Len(buf) < limit - Len(s)
      BY <1>0, <2>1, <2>3, <2>5, <3>1, <3>2
    <3>3. CASE ~ (Len(buf) < limit - Len(s))
      <4>1. n = limit - Len(s)
        BY <2>1, <3>1, <3>3
      <4>2. Len(all) = limit
        BY <1>0, <2>3, <3>3, SMTT(30)
      <4> QED BY <1>0, <2>5, <3>1, <3>3, <4>1, <4>2
    <3> QED BY <3>2, <3>3
  <2> QED BY <2>4, <2>5
<1> HIDE DEF n
<1>5. /\ new \in Seq(Nat) /\ Len(new) = Len(out) + n
      /\ \A i \in 1..Len(new) :
            new[i] = IF i <= Len(out) THEN out[i] ELSE buf[i - Len(out)]
  <2>1. new = out \o SubSeq(buf, 1, n)
    BY DEF append, n
  <2>2. SubSeq(buf, 1, n) \in Seq(Nat) /\ Len(SubSeq(buf, 1, n)) = n
        /\ \A i \in 1..n : SubSeq(buf, 1, n)[i] = buf[i]
    BY <1>4
  <2> DEFINE part == SubSeq(buf, 1, n)
  <2> HIDE DEF new, part
  <2>3. /\ new = out \o part /\ part \in Seq(Nat) /\ Len(part) = n
        /\ \A i \in 1..n : part[i] = buf[i]
    BY <2>1, <2>2 DEF part
  <2>4. /\ new \in Seq(Nat) /\ Len(new) = Len(out) + n
        /\ \A i \in 1..Len(new) :
              new[i] = IF i <= Len(out) THEN out[i] ELSE part[i - Len(out)]
    <3>1. out \in Seq(Nat) /\ part \in Seq(Nat) /\ new = out \o part /\ Len(part) = n
      BY <1>1, <2>3
    <3> QED BY <3>1, ConcatValue, ZenonT(40)
  <2>5. Len(out) \in Nat
    BY <1>1
  <2> QED BY <1>4, <2>3, <2>4, <2>5, SMTT(30)
<1> HIDE DEF new
<1>6. ASSUME NEW i \in 1..Len(new) PROVE new[i] = all[i]
  <2>1. Len(out) \in Nat /\ Len(new) = Len(all) /\ Len(out) <= Len(s)
    BY <1>0, <1>1, <1>4, <1>5 DEF min
  <2>2. all[i] = IF i <= Len(s) THEN s[i] ELSE buf[i - Len(s)]
    BY <1>0, <1>2, <1>3, <2>1 DEF min
  <2>3. new[i] = IF i <= Len(out) THEN s[i] ELSE buf[i - Len(out)]
    BY <1>1, <1>5, <2>1
  <2> QED BY <1>0, <1>4, <1>5, <2>1, <2>2, <2>3, SMTT(30)
<1> QED
  <2>1. Len(new) = Len(all)
    BY <1>4, <1>5
  <2>2. new = all
    BY <1>3, <1>5, <1>6, <2>1, SameSequence
  <2> QED BY <2>2 DEF new, out, all

(* Two parts of a sequence follow each other.                                *)
LEMMA TwoParts ==
    ASSUME NEW s \in Seq(Nat), NEW m \in 0..Len(s), NEW n \in m..Len(s)
    PROVE  SubSeq(s, 1, m) \o SubSeq(s, m + 1, n) = SubSeq(s, 1, n)
<1>1. /\ SubSeq(s, 1, m) \in Seq(Nat) /\ Len(SubSeq(s, 1, m)) = m
      /\ \A i \in 1..m : SubSeq(s, 1, m)[i] = s[i]
  OBVIOUS
<1>2. /\ SubSeq(s, m + 1, n) \in Seq(Nat) /\ Len(SubSeq(s, m + 1, n)) = n - m
      /\ \A i \in 1..(n - m) : SubSeq(s, m + 1, n)[i] = s[m + i]
  <2> DEFINE k == m + 1
  <2>1. k \in Nat /\ n \in Nat /\ Len(s) \in Nat /\ 1 <= k /\ k <= n + 1 /\ n <= Len(s)
        /\ m = k - 1
    OBVIOUS
  <2> HIDE DEF k
  <2>2. \A i \in k..n : s[i] \in Nat
    BY <2>1
  <2>3. /\ SubSeq(s, k, n) \in Seq(Nat) /\ Len(SubSeq(s, k, n)) = n - k + 1
        /\ \A i \in 1..(n - k + 1) : SubSeq(s, k, n)[i] = s[k + i - 1]
    BY <2>1, <2>2
  <2>4. n - k + 1 = n - m /\ \A i \in Int : k + i - 1 = m + i
    BY <2>1
  <2> QED BY <2>1, <2>3, <2>4 DEF k
<1>3. /\ SubSeq(s, 1, n) \in Seq(Nat) /\ Len(SubSeq(s, 1, n)) = n
      /\ \A i \in 1..n : SubSeq(s, 1, n)[i] = s[i]
  OBVIOUS
<1> DEFINE a == SubSeq(s, 1, m)
           b == SubSeq(s, m + 1, n)
           c == SubSeq(s, 1, n)
<1> HIDE DEF a, b, c
<1>4. /\ a \o b \in Seq(Nat) /\ Len(a \o b) = n
      /\ \A i \in 1..n : (a \o b)[i] = s[i]
  BY <1>1, <1>2 DEF a, b
<1> QED BY <1>3, <1>4 DEF a, b, c

(* The loop of duck_writev over two buffers.                                 *)
LEMMA WritevTwo ==
    ASSUME NEW l, NEW fd, NEW b1, NEW b2
    PROVE  duck_writev(l, fd, <<b1, b2>>) = duck_write(duck_write(l, fd, b1), fd, b2)
<1> DEFINE D == {1, 2}
           w1 == duck_write(l, fd, b1)
           w2 == duck_write(w1, fd, b2)
           step(g, t) == IF t = {} THEN l
                         ELSE duck_write(g[t \ {Max(t)}], fd, <<b1, b2>>[Max(t)])
           F == [t \in SUBSET D |-> IF t = {} THEN l ELSE
                                    IF t = {1} THEN w1 ELSE
                                    IF t = {2} THEN duck_write(l, fd, b2) ELSE w2]
           G == CHOOSE g : g = [t \in SUBSET D |-> step(g, t)]
<1>1. Max({1}) = 1 /\ Max({2}) = 2 /\ Max({1, 2}) = 2
  BY DEF Max
<1>2. {1} \ {1} = {} /\ {2} \ {2} = {} /\ {1, 2} \ {2} = {1}
  OBVIOUS
<1>3. F = [t \in SUBSET D |-> step(F, t)]
  <2> SUFFICES ASSUME NEW t \in SUBSET D PROVE F[t] = step(F, t)
    OBVIOUS
  <2>1. t = {} \/ t = {1} \/ t = {2} \/ t = {1, 2}
    OBVIOUS
  <2>2. {} \in SUBSET D /\ {1} \in SUBSET D /\ {1} # {2} /\ {1, 2} # {1} /\ {1, 2} # {2}
    OBVIOUS
  <2>3. F[{}] = l /\ F[{1}] = w1
    BY <2>2
  <2>4. CASE t = {}
    BY <2>3, <2>4
  <2>5. CASE t = {1}
    BY <1>1, <1>2, <2>3, <2>5
  <2>6. CASE t = {2}
    BY <1>1, <1>2, <2>2, <2>3, <2>6
  <2>7. CASE t = {1, 2}
    BY <1>1, <1>2, <2>2, <2>3, <2>7
  <2> QED BY <2>1, <2>4, <2>5, <2>6, <2>7
<1>4. G = [t \in SUBSET D |-> step(G, t)]
  BY <1>3
<1>5. G[{}] = l /\ G[{1}] = w1 /\ G[{1, 2}] = w2
  <2> HIDE DEF G
  <2>1. G[{}] = l
    BY <1>4
  <2>2. G[{1}] = step(G, {1}) /\ G[{1, 2}] = step(G, {1, 2})
    <3> HIDE DEF step
    <3> QED BY <1>4
  <2>3. step(G, {1}) = duck_write(G[{}], fd, b1)
    BY <1>1, <1>2
  <2>4. step(G, {1, 2}) = duck_write(G[{1}], fd, b2)
    BY <1>1, <1>2
  <2> QED BY <2>1, <2>2, <2>3, <2>4
<1>6. DOMAIN <<b1, b2>> = {1, 2}
  OBVIOUS
<1> QED BY <1>5, <1>6 DEF duck_writev, FoldLeft, MapThenFoldSet

(* The loop of duck_readv over two buffers.                                  *)
LEMMA ReadvTwo ==
    ASSUME NEW r, NEW n1, NEW n2
    PROVE  LET once(q, n) == IF q.stop THEN q ELSE duck_read(q, n)
           IN  duck_readv(r, <<n1, n2>>) = once(once(r, n1), n2)
<1> DEFINE D == {1, 2}
           once(q, n) == IF q.stop THEN q ELSE duck_read(q, n)
           w1 == once(r, n1)
           w2 == once(w1, n2)
           step(g, t) == IF t = {} THEN r
                         ELSE once(g[t \ {Max(t)}], <<n1, n2>>[Max(t)])
           F == [t \in SUBSET D |-> IF t = {} THEN r ELSE
                                    IF t = {1} THEN w1 ELSE
                                    IF t = {2} THEN once(r, n2) ELSE w2]
           G == CHOOSE g : g = [t \in SUBSET D |-> step(g, t)]
<1>1. Max({1}) = 1 /\ Max({2}) = 2 /\ Max({1, 2}) = 2
  BY DEF Max
<1>2. {1} \ {1} = {} /\ {2} \ {2} = {} /\ {1, 2} \ {2} = {1}
  OBVIOUS
<1>3. F = [t \in SUBSET D |-> step(F, t)]
  <2> SUFFICES ASSUME NEW t \in SUBSET D PROVE F[t] = step(F, t)
    OBVIOUS
  <2> HIDE DEF once
  <2>1. t = {} \/ t = {1} \/ t = {2} \/ t = {1, 2}
    OBVIOUS
  <2>2. {} \in SUBSET D /\ {1} \in SUBSET D /\ {1} # {2} /\ {1, 2} # {1} /\ {1, 2} # {2}
    OBVIOUS
  <2>3. F[{}] = r /\ F[{1}] = w1
    BY <2>2
  <2>4. CASE t = {}
    BY <2>3, <2>4
  <2>5. CASE t = {1}
    BY <1>1, <1>2, <2>3, <2>5
  <2>6. CASE t = {2}
    BY <1>1, <1>2, <2>2, <2>3, <2>6
  <2>7. CASE t = {1, 2}
    BY <1>1, <1>2, <2>2, <2>3, <2>7
  <2> QED BY <2>1, <2>4, <2>5, <2>6, <2>7
<1>4. G = [t \in SUBSET D |-> step(G, t)]
  BY <1>3
<1>5. G[{1, 2}] = w2
  <2> HIDE DEF G, once
  <2>1. G[{}] = r
    BY <1>4
  <2>2. G[{1}] = step(G, {1}) /\ G[{1, 2}] = step(G, {1, 2})
    <3> HIDE DEF step
    <3> QED BY <1>4
  <2>3. step(G, {1}) = once(G[{}], n1)
    BY <1>1, <1>2
  <2>4. step(G, {1, 2}) = once(G[{1}], n2)
    BY <1>1, <1>2
  <2> QED BY <2>1, <2>2, <2>3, <2>4
<1>6. DOMAIN <<n1, n2>> = {1, 2}
  OBVIOUS
<1> QED BY <1>5, <1>6 DEF duck_readv, FoldLeft, MapThenFoldSet

----------------------------------------------------------------------------
(* The library *)

Libs == [inited : BOOLEAN, stdin_curr_pos : 0..Len(Stdin), stdout : Seq(Nat), stderr : Seq(Nat),
         stdout_max_size : Nat, stderr_max_size : Nat, heap_brk : Nat]

\* A library that a call has initialised.
Working(l) ==
    /\ l \in Libs /\ l.inited
    /\ l.stdout_max_size = StdoutLimit /\ l.stderr_max_size = StderrLimit
    /\ PageUp(End) <= l.heap_brk

(* The first call initialises the library, and what was not written before   *)
(* is not written after it.                                                  *)
LEMMA ReadyWorks ==
    ASSUME NEW l, Working(l) \/ l = ZeroLib
    PROVE  /\ Working(Ready(l))
           /\ Ready(l).stdout = l.stdout /\ Ready(l).stderr = l.stderr
           /\ Ready(l).stdin_curr_pos = l.stdin_curr_pos
<1>1. PageUp(End) \in Nat /\ Len(Stdin) \in Nat /\ StdoutLimit \in Nat /\ StderrLimit \in Nat
  <2>1. Stdin \in Seq(Nat) /\ StdoutLimit \in Nat /\ StderrLimit \in Nat
    BY UserAssumption
  <2>2. End \in Nat
    BY UserAssumption
  <2>3. PageUp(End) \in Nat
    BY <2>2, PageUpValue
  <2> QED BY <2>1, <2>3
<1>2. <<>> \in Seq(Nat)
  OBVIOUS
<1>3. Working(init)
  BY <1>1, <1>2 DEF Working, Libs, init
<1> QED BY <1>3 DEF Ready, Working, ZeroLib, init

(* A write appends to its own output only.                                   *)
LEMMA WriteWorks ==
    ASSUME NEW l, Working(l), NEW fd \in 1..3, NEW buf \in Seq(Nat),
           NEW s1 \in Seq(Nat), l.stdout = Prefix(s1, StdoutLimit),
           NEW s2 \in Seq(Nat), l.stderr = Prefix(s2, StderrLimit)
    PROVE  /\ Working(duck_write(l, fd, buf))
           /\ duck_write(l, fd, buf).stdout = Prefix(IF fd = 1 THEN s1 \o buf ELSE s1, StdoutLimit)
           /\ duck_write(l, fd, buf).stderr = Prefix(IF fd = 2 THEN s2 \o buf ELSE s2, StderrLimit)
           /\ duck_write(l, fd, buf).stdin_curr_pos = l.stdin_curr_pos
<1>1. StdoutLimit \in Nat /\ StderrLimit \in Nat
  BY UserAssumption
<1>2. CASE fd = 1
  <2>1. append(l.stdout, l.stdout_max_size, buf) = Prefix(s1 \o buf, StdoutLimit)
    BY <1>1, AppendPrefix DEF Working
  <2>2. Prefix(s1 \o buf, StdoutLimit) \in Seq(Nat)
    BY <1>1, ConcatValue, PrefixValue
  <2> DEFINE out == Prefix(s1 \o buf, StdoutLimit)
             d == duck_write(l, fd, buf)
  <2>3. d = [l EXCEPT !.stdout = out] /\ out \in Seq(Nat)
    BY <1>2, <2>1, <2>2 DEF duck_write
  <2> HIDE DEF out, d
  <2>4. Working(d) /\ d.stdout = out /\ d.stderr = l.stderr
        /\ d.stdin_curr_pos = l.stdin_curr_pos
    BY <2>3 DEF Working, Libs
  <2> QED BY <1>2, <2>4 DEF out, d
<1>3. CASE fd = 2
  <2>1. append(l.stderr, l.stderr_max_size, buf) = Prefix(s2 \o buf, StderrLimit)
    BY <1>1, AppendPrefix DEF Working
  <2>2. Prefix(s2 \o buf, StderrLimit) \in Seq(Nat)
    BY <1>1, ConcatValue, PrefixValue
  <2> DEFINE out == Prefix(s2 \o buf, StderrLimit)
             d == duck_write(l, fd, buf)
  <2>3. d = [l EXCEPT !.stderr = out] /\ out \in Seq(Nat)
    BY <1>3, <2>1, <2>2 DEF duck_write
  <2> HIDE DEF out, d
  <2>4. Working(d) /\ d.stderr = out /\ d.stdout = l.stdout
        /\ d.stdin_curr_pos = l.stdin_curr_pos
    BY <2>3 DEF Working, Libs
  <2> QED BY <1>3, <2>4 DEF out, d
<1>4. CASE fd = 3
  <2>1. duck_write(l, fd, buf) = l
    BY <1>4 DEF duck_write
  <2> QED BY <1>4, <2>1
<1> QED BY <1>2, <1>3, <1>4

\* A read in progress that has copied the input up to its position.
InOrder(r) ==
    /\ Working(r.lib)
    /\ r.got = SubSeq(Stdin, 1, r.lib.stdin_curr_pos)

(* A read goes on where the last one stopped.                                *)
LEMMA ReadWorks ==
    ASSUME NEW r, InOrder(r), NEW len \in Nat
    PROVE  /\ InOrder(duck_read(r, len))
           /\ duck_read(r, len).lib.stdout = r.lib.stdout
           /\ duck_read(r, len).lib.stderr = r.lib.stderr
<1> DEFINE l == r.lib
           p == l.stdin_curr_pos
           n == actual_len(l, len)
<1>1. l \in Libs /\ p \in 0..Len(Stdin) /\ Len(Stdin) \in Nat /\ Stdin \in Seq(Nat)
  BY UserAssumption DEF InOrder, Working, Libs
<1>2. n \in Nat /\ p + n \in p..Len(Stdin)
  BY <1>1 DEF actual_len, min
<1> DEFINE d == duck_read(r, len)
<1>3. d.lib = [l EXCEPT !.stdin_curr_pos = p + n]
      /\ d.got = r.got \o SubSeq(Stdin, p + 1, p + n)
  BY <1>1 DEF duck_read, copied, Libs
<1>4. SubSeq(Stdin, 1, p) \o SubSeq(Stdin, p + 1, p + n) = SubSeq(Stdin, 1, p + n)
  BY <1>1, <1>2, TwoParts
<1> HIDE DEF n, d
<1>5. d.lib.stdin_curr_pos = p + n /\ p + n \in 0..Len(Stdin)
  BY <1>1, <1>2, <1>3 DEF Libs
<1>6. Working(d.lib)
  BY <1>1, <1>3, <1>5 DEF InOrder, Working, Libs
<1>7. d.lib.stdout = l.stdout /\ d.lib.stderr = l.stderr
  BY <1>1, <1>3 DEF Libs
<1> QED BY <1>3, <1>4, <1>5, <1>6, <1>7 DEF InOrder, d

----------------------------------------------------------------------------
(* The inductive invariant *)

LibInv == Working(lib) \/ lib = ZeroLib

\* What was sent is at the front of the outputs, what was got at the front of
\* the input.
StreamsInv ==
    /\ sent \in [1..2 -> Seq(Nat)]
    /\ lib.stdout = Prefix(sent[1], StdoutLimit)
    /\ lib.stderr = Prefix(sent[2], StderrLimit)
    /\ InputIsInOrder

\* Until it wraps, mmap_p is the end of the last block, and what has been asked
\* for above the start of the pool.
MapsInv ==
    /\ mmap_p \in Nat /\ mmap_p % PageSize = 0
    /\ maps.asked \in Nat /\ maps.blocks \in Seq([start : Nat, size : Nat])
    /\ PoolStart + maps.asked < Word64 =>
          /\ mmap_p = PoolStart + maps.asked
          /\ \A i \in DOMAIN maps.blocks :
                /\ PoolStart <= maps.blocks[i].start
                /\ maps.blocks[i].start + maps.blocks[i].size <= mmap_p
          /\ \A i, j \in DOMAIN maps.blocks :
                i < j => maps.blocks[i].start + maps.blocks[i].size <= maps.blocks[j].start

\* The program runs since tf_to_user_tsc, and TSC_ADJUST hides the time before.
ClockInv ==
    /\ mode \in {"kernel", "user", "done"} /\ clock \in 0..MaxClock
    /\ DOMAIN ended = {"how", "value", "ran"}
    /\ mode = "kernel" => ended.ran = 0
    /\ mode = "user" => /\ tf_to_user_tsc \in Nat /\ tf_to_user_tsc <= clock
                        /\ tsc_adjust = 0 - tf_to_user_tsc
                        /\ ended.ran = clock - tf_to_user_tsc

\* What is reported at the end.
ResultInv ==
    mode = "done" =>
        /\ result.trap_num \in 0..TRAP_SYSCALL /\ result.return_code \in 0..(Word32 - 1)
        /\ result.stdout_size = Len(lib.stdout) /\ result.stderr_size = Len(lib.stderr)
        /\ EndIsReported

UserInv == LibInv /\ StreamsInv /\ MapsInv /\ ClockInv /\ ResultInv

(* A fresh library, no streams, no mappings, the kernel's clock.             *)
LEMMA InitUser == Init => UserInv
<1> SUFFICES ASSUME Init PROVE UserInv
  OBVIOUS
<1>1. LibInv
  BY DEF Init, LibInv
<1>2. StreamsInv
  <2>1. <<>> \in Seq(Nat) /\ Len(<<>>) = 0 /\ StdoutLimit \in Nat /\ StderrLimit \in Nat
        /\ Stdin \in Seq(Nat)
    BY UserAssumption
  <2>2. Prefix(<<>>, StdoutLimit) = <<>> /\ Prefix(<<>>, StderrLimit) = <<>>
    BY <2>1 DEF Prefix, min
  <2>3. SubSeq(Stdin, 1, 0) = <<>>
    BY <2>1
  <2> QED BY <2>1, <2>2, <2>3 DEF Init, StreamsInv, InputIsInOrder, ZeroLib
<1>3. MapsInv
  <2>1. PoolStart \in Nat /\ PoolStart % PageSize = 0
    BY UserAssumption
  <2>2. <<>> \in Seq([start : Nat, size : Nat]) /\ DOMAIN <<>> = {}
    OBVIOUS
  <2> QED BY <2>1, <2>2 DEF Init, MapsInv
<1>4. ClockInv
  <2>1. MaxClock \in Nat \ {0}
    BY UserAssumption
  <2> QED BY <2>1 DEF Init, ClockInv
<1>5. ResultInv
  BY DEF Init, ResultInv
<1> QED BY <1>1, <1>2, <1>3, <1>4, <1>5 DEF UserInv

(* A system call that the library serves leaves the clock and the result     *)
(* alone.                                                                    *)
LEMMA CallKeeps ==
    ASSUME UserInv, NEW l, Call(l)
    PROVE  ClockInv' /\ ResultInv'
<1>1. mode = "user" /\ mode' = "user"
  BY DEF Call
<1>2. ClockInv'
  BY DEF Call, UserInv, ClockInv, timing
<1> QED BY <1>1, <1>2 DEF ResultInv

(* The next bytes of the program, and what becomes of sent.                  *)
LEMMA BytesType ==
    ASSUME StreamsInv, NEW n \in Nat
    PROVE  /\ sent[1] \in Seq(Nat) /\ sent[2] \in Seq(Nat)
           /\ Bytes(n) \in Seq(Nat) /\ Len(Bytes(n)) = n
<1>1. sent[1] \in Seq(Nat) /\ sent[2] \in Seq(Nat)
  BY DEF StreamsInv
<1>2. Len(sent[1]) \in Nat /\ Len(sent[2]) \in Nat
  BY <1>1
<1> DEFINE k == Len(sent[1]) + Len(sent[2])
<1>3. k \in Nat
  <2>1. \A m, j \in Nat : m + j \in Nat
    OBVIOUS
  <2> QED BY <1>2, <2>1, Zenon
<1>4. Bytes(n) = [i \in 1..n |-> k + i]
  BY DEF Bytes
<1> HIDE DEF k
<1> DEFINE f == [i \in 1..n |-> k + i]
<1>5. f \in [1..n -> Nat] /\ DOMAIN f = 1..n
  BY <1>3
<1> HIDE DEF f
<1>6. f \in Seq(Nat) /\ Len(f) = n
  BY <1>5
<1> QED BY <1>1, <1>4, <1>6 DEF f

(* write                                                                     *)
LEMMA WriteKeeps ==
    ASSUME UserInv, NEW fd \in 1..3, NEW len \in Lens, sys_write(fd, len)
    PROVE  UserInv'
<1> DEFINE buf == Bytes(len)
           l == Ready(lib)
           d == duck_write(l, fd, buf)
<1>1. len \in Nat
  BY UserAssumption
<1>2. /\ sent[1] \in Seq(Nat) /\ sent[2] \in Seq(Nat) /\ buf \in Seq(Nat)
      /\ sent[1] \o buf \in Seq(Nat) /\ sent[2] \o buf \in Seq(Nat)
  BY <1>1, BytesType DEF UserInv
<1>3. /\ Working(l) /\ l.stdout = Prefix(sent[1], StdoutLimit)
      /\ l.stderr = Prefix(sent[2], StderrLimit) /\ l.stdin_curr_pos = lib.stdin_curr_pos
  BY ReadyWorks DEF UserInv, LibInv, StreamsInv
<1> HIDE DEF buf, l
<1>4. /\ Working(d) /\ d.stdin_curr_pos = l.stdin_curr_pos
      /\ d.stdout = Prefix(IF fd = 1 THEN sent[1] \o buf ELSE sent[1], StdoutLimit)
      /\ d.stderr = Prefix(IF fd = 2 THEN sent[2] \o buf ELSE sent[2], StderrLimit)
  BY <1>2, <1>3, WriteWorks
<1> HIDE DEF d
<1>5. /\ lib' = d /\ got' = got /\ mmap_p' = mmap_p /\ maps' = maps
      /\ sent' = IF fd \in {1, 2} THEN [sent EXCEPT ![fd] = @ \o buf] ELSE sent
  BY DEF sys_write, Call, Sent, buf, l, d
<1>6. LibInv'
  BY <1>4, <1>5 DEF LibInv
<1>7. StreamsInv'
  <2>1. /\ sent' \in [1..2 -> Seq(Nat)]
        /\ sent'[1] = IF fd = 1 THEN sent[1] \o buf ELSE sent[1]
        /\ sent'[2] = IF fd = 2 THEN sent[2] \o buf ELSE sent[2]
    BY <1>2, <1>5 DEF UserInv, StreamsInv
  <2> QED BY <1>3, <1>4, <1>5, <2>1 DEF UserInv, StreamsInv, InputIsInOrder
<1>8. MapsInv'
  BY <1>5 DEF UserInv, MapsInv
<1>9. ClockInv' /\ ResultInv'
  BY CallKeeps DEF sys_write
<1> QED BY <1>6, <1>7, <1>8, <1>9 DEF UserInv

(* writev: the second buffer goes where the first has ended.                 *)
LEMMA WritevKeeps ==
    ASSUME UserInv, NEW fd \in 1..3, NEW len1 \in Lens, NEW len2 \in Lens,
           sys_writev(fd, len1, len2)
    PROVE  UserInv'
<1> DEFINE all == Bytes(len1 + len2)
           b1 == SubSeq(all, 1, len1)
           b2 == SubSeq(all, len1 + 1, len1 + len2)
           l == Ready(lib)
           d1 == duck_write(l, fd, b1)
           d == duck_write(d1, fd, b2)
           s1 == IF fd = 1 THEN sent[1] \o b1 ELSE sent[1]
           s2 == IF fd = 2 THEN sent[2] \o b1 ELSE sent[2]
<1>1. len1 \in Nat /\ len2 \in Nat /\ len1 + len2 \in Nat
  BY UserAssumption
<1>2. /\ sent[1] \in Seq(Nat) /\ sent[2] \in Seq(Nat) /\ all \in Seq(Nat)
      /\ Len(all) = len1 + len2
  BY <1>1, BytesType DEF UserInv
<1> HIDE DEF all
<1>3. b1 \in Seq(Nat) /\ b2 \in Seq(Nat)
  BY <1>1, <1>2
<1>4. b1 \o b2 = all
  <2>1. SubSeq(all, 1, len1 + len2) = all
    BY <1>1, <1>2
  <2>2. len1 \in 0..Len(all) /\ len1 + len2 \in len1..Len(all)
    BY <1>1, <1>2
  <2> QED BY <1>2, <2>1, <2>2, TwoParts
<1>5. /\ Working(l) /\ l.stdout = Prefix(sent[1], StdoutLimit)
      /\ l.stderr = Prefix(sent[2], StderrLimit) /\ l.stdin_curr_pos = lib.stdin_curr_pos
  BY ReadyWorks DEF UserInv, LibInv, StreamsInv
<1> HIDE DEF l, b1, b2
<1>6. /\ Working(d1) /\ d1.stdin_curr_pos = l.stdin_curr_pos
      /\ d1.stdout = Prefix(s1, StdoutLimit) /\ d1.stderr = Prefix(s2, StderrLimit)
  BY <1>2, <1>3, <1>5, WriteWorks
<1>7. s1 \in Seq(Nat) /\ s2 \in Seq(Nat)
  BY <1>2, <1>3
<1>8. /\ (sent[1] \o b1) \o b2 = sent[1] \o all /\ (sent[2] \o b1) \o b2 = sent[2] \o all
      /\ sent[1] \o all \in Seq(Nat) /\ sent[2] \o all \in Seq(Nat)
  <2>1. ASSUME NEW s \in Seq(Nat) PROVE (s \o b1) \o b2 = s \o (b1 \o b2)
    BY <1>3, SMTT(30)
  <2>2. \A s \in Seq(Nat) : (s \o b1) \o b2 = s \o all /\ s \o all \in Seq(Nat)
    BY <1>2, <1>4, <2>1, ConcatValue
  <2> QED BY <1>2, <2>2
<1> HIDE DEF d1
<1>9. /\ Working(d) /\ d.stdin_curr_pos = d1.stdin_curr_pos
      /\ d.stdout = Prefix(IF fd = 1 THEN s1 \o b2 ELSE s1, StdoutLimit)
      /\ d.stderr = Prefix(IF fd = 2 THEN s2 \o b2 ELSE s2, StderrLimit)
  <2> HIDE DEF s1, s2
  <2> QED BY <1>3, <1>6, <1>7, WriteWorks
<1> HIDE DEF d
<1>10. /\ d.stdout = Prefix(IF fd = 1 THEN sent[1] \o all ELSE sent[1], StdoutLimit)
       /\ d.stderr = Prefix(IF fd = 2 THEN sent[2] \o all ELSE sent[2], StderrLimit)
  BY <1>8, <1>9
<1>11. /\ lib' = d /\ got' = got /\ mmap_p' = mmap_p /\ maps' = maps
       /\ sent' = IF fd \in {1, 2} THEN [sent EXCEPT ![fd] = @ \o all] ELSE sent
  <2>1. Call(duck_writev(l, fd, <<b1, b2>>))
    BY DEF sys_writev, all, b1, b2, l
  <2>2. lib' = d
    BY <2>1, WritevTwo DEF Call, d, d1
  <2> QED BY <2>2 DEF sys_writev, Sent, all
<1>12. LibInv'
  BY <1>9, <1>11 DEF LibInv
<1>13. StreamsInv'
  <2>1. /\ sent' \in [1..2 -> Seq(Nat)]
        /\ sent'[1] = IF fd = 1 THEN sent[1] \o all ELSE sent[1]
        /\ sent'[2] = IF fd = 2 THEN sent[2] \o all ELSE sent[2]
    BY <1>8, <1>11 DEF UserInv, StreamsInv
  <2> QED BY <1>5, <1>6, <1>9, <1>10, <1>11, <2>1 DEF UserInv, StreamsInv, InputIsInOrder
<1>14. MapsInv'
  BY <1>11 DEF UserInv, MapsInv
<1>15. ClockInv' /\ ResultInv'
  BY CallKeeps DEF sys_writev
<1> QED BY <1>12, <1>13, <1>14, <1>15 DEF UserInv

(* read and readv: the second buffer is filled after the first, unless the   *)
(* input has ended.                                                          *)
LEMMA ReadKeeps ==
    ASSUME UserInv, NEW len1 \in Lens, NEW len2 \in Lens,
           sys_read(len1) \/ sys_readv(<<len1, len2>>)
    PROVE  UserInv'
<1>1. len1 \in Nat /\ len2 \in Nat
  BY UserAssumption
<1>2. InOrder(Reading) /\ Reading.lib.stdout = lib.stdout /\ Reading.lib.stderr = lib.stderr
      /\ ~ Reading.stop
  BY ReadyWorks DEF UserInv, LibInv, StreamsInv, InputIsInOrder, InOrder, Reading
<1> DEFINE r1 == duck_read(Reading, len1)
           r2 == IF r1.stop THEN r1 ELSE duck_read(r1, len2)
<1>3. InOrder(r1) /\ r1.lib.stdout = lib.stdout /\ r1.lib.stderr = lib.stderr
  BY <1>1, <1>2, ReadWorks
<1> HIDE DEF r1
<1>4. InOrder(r2) /\ r2.lib.stdout = lib.stdout /\ r2.lib.stderr = lib.stderr
  BY <1>1, <1>3, ReadWorks
<1> HIDE DEF r2
<1>5. PICK r : /\ InOrder(r) /\ r.lib.stdout = lib.stdout /\ r.lib.stderr = lib.stderr
               /\ Call(r.lib) /\ got' = r.got /\ UNCHANGED <<mmap_p, sent, maps>>
  <2>1. CASE sys_read(len1)
    BY <1>3, <2>1 DEF sys_read, r1
  <2>2. CASE sys_readv(<<len1, len2>>)
    <3>1. duck_readv(Reading, <<len1, len2>>) = r2
      BY <1>2, ReadvTwo DEF r1, r2
    <3> QED BY <1>4, <2>2, <3>1 DEF sys_readv
  <2> QED BY <2>1, <2>2
<1>6. LibInv'
  BY <1>5 DEF LibInv, InOrder, Call
<1>7. StreamsInv'
  BY <1>5 DEF UserInv, StreamsInv, InputIsInOrder, InOrder, Call
<1>8. MapsInv'
  BY <1>5 DEF UserInv, MapsInv
<1>9. ClockInv' /\ ResultInv'
  BY <1>5, CallKeeps
<1> QED BY <1>6, <1>7, <1>8, <1>9 DEF UserInv

(* A call that changes nothing of the library but the break.                 *)
LEMMA LibraryKeeps ==
    ASSUME UserInv, NEW d, Working(d), d.stdout = lib.stdout, d.stderr = lib.stderr,
           d.stdin_curr_pos = lib.stdin_curr_pos,
           Call(d), UNCHANGED <<mmap_p, sent, got, maps>>
    PROVE  UserInv'
<1>1. LibInv'
  BY DEF LibInv, Call
<1>2. StreamsInv'
  BY DEF UserInv, StreamsInv, InputIsInOrder, Call
<1>3. MapsInv'
  BY DEF UserInv, MapsInv
<1>4. ClockInv' /\ ResultInv'
  BY CallKeeps
<1> QED BY <1>1, <1>2, <1>3, <1>4 DEF UserInv

(* The calls that only initialise the library.                               *)
LEMMA OtherKeeps == UserInv /\ sys_other => UserInv'
<1> SUFFICES ASSUME UserInv, sys_other PROVE UserInv'
  OBVIOUS
<1>1. /\ Working(Ready(lib)) /\ Ready(lib).stdout = lib.stdout /\ Ready(lib).stderr = lib.stderr
      /\ Ready(lib).stdin_curr_pos = lib.stdin_curr_pos
  BY ReadyWorks DEF UserInv, LibInv
<1> QED BY <1>1, LibraryKeeps DEF sys_other

(* brk only ever raises the break.                                           *)
LEMMA BrkKeeps ==
    ASSUME UserInv, NEW addr \in Addrs, sys_brk(addr)
    PROVE  UserInv'
<1> DEFINE l == Ready(lib)
           d == duck_brk(l, addr)
<1>1. addr \in Nat /\ End \in Nat
  BY UserAssumption
<1>2. PageUp(End) \in Nat
  BY <1>1, PageUpValue
<1>3. /\ Working(l) /\ l.stdout = lib.stdout /\ l.stderr = lib.stderr
      /\ l.stdin_curr_pos = lib.stdin_curr_pos
  BY ReadyWorks DEF UserInv, LibInv
<1> HIDE DEF l
<1>4. /\ Working(d) /\ d.stdout = lib.stdout /\ d.stderr = lib.stderr
      /\ d.stdin_curr_pos = lib.stdin_curr_pos
  <2>1. l.heap_brk \in Nat
    BY <1>3 DEF Working, Libs
  <2>2. CASE addr > l.heap_brk
    <3>1. d = [l EXCEPT !.heap_brk = addr]
      BY <2>2 DEF duck_brk
    <3> HIDE DEF d
    <3>2. l \in Libs /\ l.inited /\ l.stdout_max_size = StdoutLimit
          /\ l.stderr_max_size = StderrLimit /\ PageUp(End) <= l.heap_brk
      BY <1>3 DEF Working
    <3>3. /\ d \in Libs /\ d.inited = l.inited /\ d.stdout_max_size = l.stdout_max_size
          /\ d.stderr_max_size = l.stderr_max_size /\ d.heap_brk = addr
          /\ d.stdout = l.stdout /\ d.stderr = l.stderr /\ d.stdin_curr_pos = l.stdin_curr_pos
      BY <1>1, <3>1, <3>2 DEF Libs
    <3>4. PageUp(End) <= addr
      <4> DEFINE h == l.heap_brk
                 e == PageUp(End)
      <4>1. h \in Nat /\ e \in Nat /\ e <= h /\ addr > h /\ addr \in Nat
        BY <1>1, <1>2, <2>1, <2>2, <3>2
      <4> HIDE DEF h, e
      <4>2. e <= addr
        BY <4>1
      <4> QED BY <4>2 DEF e
    <3> QED BY <1>3, <3>2, <3>3, <3>4 DEF Working
  <2>3. CASE ~ (addr > l.heap_brk)
    BY <1>3, <2>3 DEF duck_brk
  <2> QED BY <2>2, <2>3
<1>5. Call(d) /\ UNCHANGED <<mmap_p, sent, got, maps>>
  BY DEF sys_brk, l
<1> HIDE DEF d
<1> QED BY <1>4, <1>5, LibraryKeeps

(* mmap: until the pointer wraps, the new block starts where the last one    *)
(* has ended.                                                                *)
LEMMA MmapKeeps ==
    ASSUME UserInv, NEW size \in MapSizes, sys_mmap(size)
    PROVE  UserInv'
<1> DEFINE B == [start : Nat, size : Nat]
           b == [start |-> mmap_p, size |-> size]
           s == maps.blocks
           t == Append(s, b)
           a == maps.asked
           up == PageUp(size)
<1>1. size \in Nat /\ PoolStart \in Nat /\ Word64 \in Nat \ {0}
  BY UserAssumption
<1>2. up \in Nat /\ up >= size
  BY <1>1, PageUpValue
<1>3. PICK k \in Nat : mmap_size(size) = k * PageSize
  BY <1>1, MmapSizeValue
<1>4. up < Word64 => mmap_size(size) = up
  BY <1>1, MmapSizeValue
<1>5. /\ mmap_p \in Nat /\ mmap_p % PageSize = 0 /\ s \in Seq(B) /\ a \in Nat
      /\ b \in B /\ b.start = mmap_p /\ b.size = size
  BY <1>1 DEF UserInv, MapsInv
<1>6. maps'.blocks = t /\ maps'.asked = a + up /\ mmap_p' = (mmap_p + mmap_size(size)) % Word64
  BY DEF sys_mmap
<1>7. /\ t \in Seq(B)
      /\ DOMAIN s = 1..Len(s) /\ DOMAIN t = 1..(Len(s) + 1) /\ Len(s) \in Nat
      /\ \A i \in 1..Len(s) : t[i] = s[i] /\ s[i] \in B
      /\ t[Len(s) + 1] = b
  <2> HIDE DEF B, b, s
  <2> QED BY <1>5
<1>8. MapsInv'
  <2>1. mmap_p' \in Nat /\ mmap_p' % PageSize = 0
    <3>1. PageSize \in Nat /\ (mmap_p + k * PageSize) % PageSize = 0
      BY <1>5, PagesAdd, UserAssumption
    <3>2. mmap_p + k * PageSize \in Nat
      <4>1. k * PageSize \in Nat
        BY <3>1
      <4> QED BY <1>5, <4>1
    <3> QED BY <1>3, <1>6, <3>1, <3>2, PagesWrap
  <2>2. ASSUME PoolStart + maps'.asked < Word64
        PROVE  /\ mmap_p' = PoolStart + maps'.asked
               /\ \A i \in DOMAIN t : PoolStart <= t[i].start /\ t[i].start + t[i].size <= mmap_p'
               /\ \A i, j \in DOMAIN t : i < j => t[i].start + t[i].size <= t[j].start
    <3> HIDE DEF B, b, s, t, a, up
    <3>1. up < Word64 /\ PoolStart + a < Word64 /\ PoolStart + a + up < Word64
      BY <1>1, <1>2, <1>5, <1>6, <2>2
    <3>2. /\ mmap_p = PoolStart + a
          /\ \A i \in DOMAIN s : PoolStart <= s[i].start /\ s[i].start + s[i].size <= mmap_p
          /\ \A i, j \in DOMAIN s : i < j => s[i].start + s[i].size <= s[j].start
      BY <3>1 DEF UserInv, MapsInv, s, a
    <3>3. mmap_p' = mmap_p + up /\ mmap_p' = PoolStart + maps'.asked
      <4>1. mmap_p + up \in Nat /\ mmap_p + up < Word64
        BY <1>1, <1>2, <1>5, <3>1, <3>2
      <4>2. (mmap_p + up) % Word64 = mmap_p + up
        BY <1>1, <4>1
      <4> QED BY <1>1, <1>2, <1>4, <1>5, <1>6, <3>1, <3>2, <4>2
    <3>4. \A i \in 1..Len(s) : s[i].start \in Nat /\ s[i].size \in Nat
      BY <1>7 DEF B
    <3>5. ASSUME NEW i \in DOMAIN t
          PROVE  PoolStart <= t[i].start /\ t[i].start + t[i].size <= mmap_p'
      <4>1. CASE i \in 1..Len(s)
        BY <1>2, <1>5, <1>7, <3>2, <3>3, <3>4, <4>1
      <4>2. CASE i = Len(s) + 1
        BY <1>1, <1>2, <1>5, <1>7, <3>2, <3>3, <4>2
      <4> QED BY <1>7, <3>5, <4>1, <4>2
    <3>6. ASSUME NEW i \in DOMAIN t, NEW j \in DOMAIN t, i < j
          PROVE  t[i].start + t[i].size <= t[j].start
      <4>1. i \in 1..Len(s) /\ (j \in 1..Len(s) \/ j = Len(s) + 1)
        BY <1>7, <3>6
      <4> QED BY <1>5, <1>7, <3>2, <3>6, <4>1
    <3> QED BY <3>3, <3>5, <3>6
  <2> HIDE DEF t
  <2>3. maps'.asked \in Nat /\ maps'.blocks \in Seq(B)
    BY <1>2, <1>5, <1>6, <1>7
  <2> QED BY <1>6, <2>1, <2>2, <2>3 DEF MapsInv
<1>9. LibInv' /\ StreamsInv'
  <2>1. lib' = Ready(lib) /\ UNCHANGED <<sent, got>>
    BY DEF sys_mmap, Call
  <2>2. /\ Working(lib') /\ lib'.stdout = lib.stdout /\ lib'.stderr = lib.stderr
        /\ lib'.stdin_curr_pos = lib.stdin_curr_pos
    BY <2>1, ReadyWorks DEF UserInv, LibInv
  <2> QED BY <2>1, <2>2 DEF UserInv, LibInv, StreamsInv, InputIsInOrder
<1>10. ClockInv' /\ ResultInv'
  BY CallKeeps DEF sys_mmap
<1> QED BY <1>8, <1>9, <1>10 DEF UserInv

(* Entering the program hides the time before; then the clock goes on.       *)
LEMMA RunKeeps ==
    ASSUME UserInv, run_user_64 \/ Compute \/ trap_32
    PROVE  UserInv'
<1>1. UNCHANGED <<lib, mmap_p, sent, got, maps>> /\ mode' = "user"
  BY DEF run_user_64, Compute, trap_32
<1>2. LibInv' /\ StreamsInv' /\ MapsInv'
  BY <1>1 DEF UserInv, LibInv, StreamsInv, InputIsInOrder, MapsInv
<1>3. MaxClock \in Nat
  BY UserAssumption
<1>4. ClockInv'
  <2>1. CASE run_user_64
    BY <1>3, <2>1 DEF UserInv, ClockInv, run_user_64, run_user_trap
  <2>2. CASE Compute \/ trap_32
    <3>1. /\ mode = "user" /\ clock < MaxClock /\ clock' = clock + 1
          /\ ended' = [ended EXCEPT !.ran = @ + 1]
          /\ UNCHANGED <<mode, tsc_adjust, tf_to_user_tsc>>
      BY <2>2 DEF Compute, trap_32
    <3>2. ended'.ran = ended.ran + 1 /\ DOMAIN ended' = {"how", "value", "ran"}
      BY <3>1 DEF UserInv, ClockInv
    <3> QED BY <1>3, <3>1, <3>2 DEF UserInv, ClockInv
  <2> QED BY <2>1, <2>2
<1>5. ResultInv'
  BY <1>1 DEF ResultInv
<1> QED BY <1>2, <1>4, <1>5 DEF UserInv

(* While the program runs, its counter shows how long it has run.            *)
LEMMA CounterShowsRun ==
    ASSUME ClockInv, mode = "user"
    PROVE  /\ ended.ran \in 0..MaxClock /\ rdtsc = ended.ran
           /\ (kernel_tsc - tf_to_user_tsc) % Word64 = ended.ran
<1> DEFINE t == tf_to_user_tsc
           n == ended.ran
<1>1. MaxClock \in Nat /\ Word64 \in Nat /\ MaxClock < Word64
  BY UserAssumption
<1>2. /\ clock \in 0..MaxClock /\ t \in Nat /\ t <= clock
      /\ tsc_adjust = 0 - t /\ n = clock - t
  BY DEF ClockInv
<1>3. n \in 0..MaxClock /\ n % Word64 = n /\ clock % Word64 = clock
  <2> HIDE DEF t, n
  <2> QED BY <1>1, <1>2
<1>4. rdtsc = n
  <2>1. clock + tsc_adjust = n
    BY <1>2
  <2> QED BY <1>3, <2>1 DEF rdtsc
<1>5. kernel_tsc = clock
  <2>1. n - tsc_adjust = clock
    BY <1>2
  <2> QED BY <1>3, <1>4, <2>1 DEF kernel_tsc
<1> QED BY <1>2, <1>3, <1>4, <1>5

(* Every way out of the program: h and v are how it really ended.            *)
LEMMA EndKeeps ==
    ASSUME UserInv, NEW num \in 0..TRAP_SYSCALL, NEW rax \in Nat, NEW rdi \in Nat,
           NEW h, NEW v,
           h = "exit" => num = TRAP_SYSCALL /\ rax = SYS_exit /\ rdi % Word32 = v,
           h = "abort" => num = TRAP_SYSCALL /\ rax = SYS_tkill,
           h = "raw" => num = TRAP_SYSCALL /\ rax = v,
           h = "fault" => num = v /\ num # TRAP_SYSCALL,
           lib' = lib \/ lib' = Ready(lib),
           ended' = [ended EXCEPT !.how = h, !.value = v],
           trap_handler(num, rax, rdi)
    PROVE  UserInv'
<1>1. /\ lib'.stdout = lib.stdout /\ lib'.stderr = lib.stderr
      /\ lib'.stdin_curr_pos = lib.stdin_curr_pos
      /\ LibInv'
  BY ReadyWorks DEF UserInv, LibInv
<1>2. mode = "user" /\ mode' = "done" /\ UNCHANGED <<mmap_p, clock, sent, got, maps>>
  BY DEF trap_handler
<1>3. StreamsInv'
  BY <1>1, <1>2 DEF UserInv, StreamsInv, InputIsInOrder
<1>4. MapsInv'
  BY <1>2 DEF UserInv, MapsInv
<1>5. ended'.how = h /\ ended'.value = v /\ ended'.ran = ended.ran
      /\ DOMAIN ended' = {"how", "value", "ran"}
  BY DEF UserInv, ClockInv
<1>6. ClockInv'
  BY <1>2, <1>5 DEF UserInv, ClockInv
<1>7. ended.ran \in 0..MaxClock /\ (kernel_tsc - tf_to_user_tsc) % Word64 = ended.ran
  BY <1>2, CounterShowsRun DEF UserInv
<1>8. PICK code \in ReturnCodes(num, rax, rdi) :
        result' = [trap_num |-> ReportedTrap(num, rax), return_code |-> code,
                   tsc |-> ended.ran, time_ns_real |-> tsc_to_ns(ended.ran),
                   stdout_size |-> min(StdoutLimit, Len(lib'.stdout)),
                   stderr_size |-> min(StderrLimit, Len(lib'.stderr))]
  BY <1>7 DEF trap_handler
<1>9. /\ result'.trap_num = ReportedTrap(num, rax) /\ result'.return_code = code
      /\ result'.tsc = ended.ran /\ result'.time_ns_real = (ended.ran * Giga) \div tsc_freq
      /\ result'.stdout_size = min(StdoutLimit, Len(lib'.stdout))
      /\ result'.stderr_size = min(StderrLimit, Len(lib'.stderr))
  BY <1>7, <1>8, TscToNs
<1>10. result'.stdout_size = Len(lib'.stdout) /\ result'.stderr_size = Len(lib'.stderr)
  <2>1. /\ sent[1] \in Seq(Nat) /\ sent[2] \in Seq(Nat)
        /\ lib'.stdout = Prefix(sent[1], StdoutLimit)
        /\ lib'.stderr = Prefix(sent[2], StderrLimit)
    BY <1>1 DEF UserInv, StreamsInv
  <2>2. StdoutLimit \in Nat /\ StderrLimit \in Nat
    BY UserAssumption
  <2>3. /\ Len(lib'.stdout) = min(StdoutLimit, Len(sent[1])) /\ Len(sent[1]) \in Nat
        /\ Len(lib'.stderr) = min(StderrLimit, Len(sent[2])) /\ Len(sent[2]) \in Nat
    BY <2>1, <2>2, PrefixValue, SMTT(30)
  <2> QED BY <1>9, <2>2, <2>3 DEF min
<1>11. /\ Word32 \in Nat /\ Word32 > SYS_tkill /\ Codes \subseteq 0..(Word32 - 1)
       /\ rdi % Word32 \in 0..(Word32 - 1)
  <2>1. Word32 \in Nat /\ Word32 > 200 /\ Codes \subseteq 0..(Word32 - 1)
    BY UserAssumption DEF SYS_tkill
  <2> QED BY <2>1 DEF SYS_tkill
<1>12. SYS_exit % Word32 = SYS_exit /\ SYS_tkill % Word32 = SYS_tkill
  BY <1>11 DEF SYS_exit, SYS_tkill
<1>13. ReportedTrap(num, rax) \in 0..TRAP_SYSCALL /\ code \in 0..(Word32 - 1)
  BY <1>8, <1>11 DEF ReturnCodes, ReportedTrap, TRAP_SYSCALL, TRAP_ABORT, TRAP_INVALID_SYSCALL,
       SYS_tkill
<1>14. EndIsReported'
  <2>1. h = "exit" => ReportedTrap(num, rax) = TRAP_SYSCALL /\ code = v
    BY <1>8, <1>12 DEF ReturnCodes, ReportedTrap, TRAP_SYSCALL, SYS_exit, SYS_tkill
  <2>2. h = "abort" => ReportedTrap(num, rax) = TRAP_ABORT
    BY <1>12 DEF ReportedTrap, TRAP_SYSCALL, TRAP_ABORT, SYS_exit, SYS_tkill
  <2>3. h = "raw" => ((ReportedTrap(num, rax) = TRAP_SYSCALL) <=> (v % Word32 = SYS_exit))
    BY DEF ReportedTrap, TRAP_SYSCALL, TRAP_ABORT, TRAP_INVALID_SYSCALL, SYS_exit, SYS_tkill
  <2>4. h = "fault" => ReportedTrap(num, rax) = v /\ code = 0
    BY <1>8 DEF ReturnCodes, ReportedTrap
  <2> QED BY <1>2, <1>5, <1>9, <2>1, <2>2, <2>3, <2>4 DEF EndIsReported
<1>15. ResultInv'
  BY <1>9, <1>10, <1>13, <1>14 DEF ResultInv
<1> QED BY <1>1, <1>3, <1>4, <1>6, <1>15 DEF UserInv

(* exit, abort, a system call of the program itself, a fault.                *)
LEMMA EndsKeep ==
    ASSUME UserInv,
           \/ \E code \in Codes : sys_exit(code)
           \/ duck_tkill_abort
           \/ \E rax \in Syscalls, rdi \in Codes : RawSyscall(rax, rdi)
           \/ \E num \in Faults : Fault(num)
    PROVE  UserInv'
<1>1. /\ Word32 \in Nat /\ Word32 > 200 /\ Codes \subseteq 0..(Word32 - 1)
      /\ Syscalls \subseteq Nat /\ Faults \subseteq 0..254
  BY UserAssumption DEF SYS_tkill, TRAP_SYSCALL
<1>2. /\ TRAP_SYSCALL \in 0..TRAP_SYSCALL /\ SYS_exit \in Nat /\ SYS_tkill \in Nat
      /\ Faults \subseteq 0..TRAP_SYSCALL /\ TRAP_SYSCALL \notin Faults
  BY <1>1 DEF TRAP_SYSCALL, SYS_exit, SYS_tkill
<1>3. ASSUME NEW code \in Codes, sys_exit(code) PROVE UserInv'
  <2>1. PICK high \in {0, 1} : trap_handler(TRAP_SYSCALL, SYS_exit, code + high * Word32)
    BY <1>3 DEF sys_exit
  <2> DEFINE rdi == code + high * Word32
  <2>2. rdi \in Nat /\ rdi % Word32 = code
    <3>1. CASE high = 0
      <4>1. rdi = code
        BY <1>1, <3>1
      <4> QED BY <1>1, <4>1
    <3>2. CASE high = 1
      <4>1. rdi = code + Word32
        BY <1>1, <3>2
      <4>2. code + Word32 \in Nat /\ (code + Word32) % Word32 = code
        BY <1>1
      <4> QED BY <4>1, <4>2
    <3> QED BY <3>1, <3>2
  <2> HIDE DEF rdi
  <2>3. /\ trap_handler(TRAP_SYSCALL, SYS_exit, rdi) /\ lib' = Ready(lib)
        /\ ended' = [ended EXCEPT !.how = "exit", !.value = code]
    BY <1>3, <2>1 DEF sys_exit, rdi
  <2>4. "exit" # "abort" /\ "exit" # "raw" /\ "exit" # "fault"
    OBVIOUS
  <2> QED BY <1>2, <2>2, <2>3, <2>4, EndKeeps, Zenon
<1>4. ASSUME duck_tkill_abort PROVE UserInv'
  <2>1. /\ trap_handler(TRAP_SYSCALL, SYS_tkill, 0) /\ lib' = Ready(lib)
        /\ ended' = [ended EXCEPT !.how = "abort", !.value = 0]
    BY <1>4 DEF duck_tkill_abort
  <2> QED BY <1>2, <2>1, EndKeeps
<1>5. ASSUME NEW rax \in Syscalls, NEW rdi \in Codes, RawSyscall(rax, rdi) PROVE UserInv'
  <2>1. /\ trap_handler(TRAP_SYSCALL, rax, rdi) /\ lib' = lib
        /\ ended' = [ended EXCEPT !.how = "raw", !.value = rax]
    BY <1>5 DEF RawSyscall
  <2>2. rax \in Nat /\ rdi \in Nat
    BY <1>1
  <2> QED BY <1>2, <2>1, <2>2, EndKeeps
<1>6. ASSUME NEW num \in Faults, Fault(num) PROVE UserInv'
  <2>1. /\ trap_handler(num, 0, 0) /\ lib' = lib
        /\ ended' = [ended EXCEPT !.how = "fault", !.value = num]
    BY <1>6 DEF Fault
  <2> QED BY <1>2, <2>1, EndKeeps
<1> QED BY <1>3, <1>4, <1>5, <1>6

(* Every step keeps the invariant.                                           *)
LEMMA NextUser == UserInv /\ [Next]_vars => UserInv'
<1> SUFFICES ASSUME UserInv, [Next]_vars PROVE UserInv'
  OBVIOUS
<1>1. CASE run_user_64 \/ Compute \/ trap_32
  BY <1>1, RunKeeps
<1>2. ASSUME NEW fd \in 1..3, NEW len1 \in Lens, NEW len2 \in Lens,
             sys_write(fd, len1) \/ sys_writev(fd, len1, len2)
      PROVE  UserInv'
  BY <1>2, WriteKeeps, WritevKeeps
<1>3. ASSUME NEW len1 \in Lens, NEW len2 \in Lens, sys_read(len1) \/ sys_readv(<<len1, len2>>)
      PROVE  UserInv'
  BY <1>3, ReadKeeps
<1>4. ASSUME NEW addr \in Addrs, sys_brk(addr) PROVE UserInv'
  BY <1>4, BrkKeeps
<1>5. CASE sys_other
  BY <1>5, OtherKeeps
<1>6. ASSUME NEW size \in MapSizes, sys_mmap(size) PROVE UserInv'
  BY <1>6, MmapKeeps
<1>7. CASE \/ \E code \in Codes : sys_exit(code)
           \/ duck_tkill_abort
           \/ \E rax \in Syscalls, rdi \in Codes : RawSyscall(rax, rdi)
           \/ \E num \in Faults : Fault(num)
  BY <1>7, EndsKeep
<1>8. CASE UNCHANGED vars
  BY <1>8 DEF vars, timing, UserInv, LibInv, StreamsInv, InputIsInOrder, MapsInv, ClockInv,
              ResultInv, EndIsReported, rdtsc
<1> QED BY <1>1, <1>2, <1>3, <1>4, <1>5, <1>6, <1>7, <1>8 DEF Next

----------------------------------------------------------------------------
(* The invariant of the library and of the run holds throughout.             *)
THEOREM UserCorrect == Spec => []UserInv
<1> QED BY InitUser, NextUser, PTL DEF Spec

(* The outputs never exceed their limits and the position never passes the   *)
(* end of the input, so no subtraction in duck64_syscall_handler.cpp wraps.  *)
THEOREM UserTypes == Spec => []TypeOK
<1>1. ASSUME UserInv PROVE TypeOK
  <2>1. /\ StdoutLimit \in Nat /\ StderrLimit \in Nat /\ Stdin \in Seq(Nat)
    BY UserAssumption
  <2>2. lib.inited \in BOOLEAN /\ lib.stdin_curr_pos \in 0..Len(Stdin)
    <3>1. Len(Stdin) \in Nat
      BY <2>1
    <3>2. CASE Working(lib)
      BY <3>2 DEF Working, Libs
    <3>3. CASE lib = ZeroLib
      BY <3>1, <3>3 DEF ZeroLib
    <3> QED BY <1>1, <3>2, <3>3 DEF UserInv, LibInv
  <2>3. sent[1] \in Seq(Nat) /\ sent[2] \in Seq(Nat)
        /\ lib.stdout = Prefix(sent[1], StdoutLimit)
        /\ lib.stderr = Prefix(sent[2], StderrLimit)
    BY <1>1 DEF UserInv, StreamsInv
  <2>4. /\ Len(lib.stdout) = min(StdoutLimit, Len(sent[1])) /\ Len(sent[1]) \in Nat
        /\ Len(lib.stderr) = min(StderrLimit, Len(sent[2])) /\ Len(sent[2]) \in Nat
    <3>1. Len(lib.stdout) = min(StdoutLimit, Len(sent[1]))
      BY <2>1, <2>3, PrefixValue
    <3>2. Len(lib.stderr) = min(StderrLimit, Len(sent[2]))
      <4>1. Len(Prefix(sent[2], StderrLimit)) = min(StderrLimit, Len(sent[2]))
        BY <2>1, <2>3, PrefixValue
      <4> QED BY <2>3, <4>1
    <3> QED BY <2>3, <3>1, <3>2
  <2>5. Len(lib.stdout) \in 0..StdoutLimit /\ Len(lib.stderr) \in 0..StderrLimit
    BY <2>1, <2>4 DEF min
  <2> QED BY <1>1, <2>2, <2>5 DEF UserInv, MapsInv, ClockInv, ResultInv, TypeOK
<1> QED BY <1>1, UserCorrect, PTL

(* For any limits and buffers, duck_write and duck_writev leave exactly the  *)
(* first bytes of each stream, and the sizes reported are theirs.            *)
THEOREM OutputsAreKept == Spec => []OutputIsPrefix
<1>1. UserInv => OutputIsPrefix
  BY DEF UserInv, StreamsInv, ResultInv, OutputIsPrefix
<1> QED BY <1>1, UserCorrect, PTL

(* For any input, duck_read and duck_readv deliver each byte once, in order. *)
THEOREM InputsAreRead == Spec => []InputIsInOrder
<1>1. UserInv => InputIsInOrder
  BY DEF UserInv, StreamsInv
<1> QED BY <1>1, UserCorrect, PTL

(* For any page size and pool, and whatever sizes of 64 bits a program asks  *)
(* for, the blocks of duck_mmap_temp are apart until the sum of their pages  *)
(* has used up the addresses above the pool, and below the heap of duck_brk  *)
(* until it has used up the pool.                                            *)
THEOREM MapsNeverOverlap == Spec => []MapsAreApart
<1>1. ASSUME UserInv PROVE MapsAreApart
  <2> DEFINE B == [start : Nat, size : Nat]
             s == maps.blocks
             a == maps.asked
  <2>1. /\ PoolStart \in Nat /\ PoolSize \in Nat /\ End \in Nat /\ PoolStart + PoolSize <= End
        /\ PageSize \in Nat /\ PageSize > 0 /\ Word64 \in Nat /\ End + PageSize <= Word64
    BY UserAssumption
  <2>2. PageUp(End) \in Nat /\ PageUp(End) >= End
    BY <2>1, PageUpValue
  <2>3. lib.inited => End <= lib.heap_brk
    BY <1>1, <2>1, <2>2 DEF UserInv, LibInv, Working, Libs, ZeroLib
  <2>4. \A i \in DOMAIN s : s[i].start \in Nat /\ s[i].size \in Nat
    <3>1. s \in Seq(B)
      BY <1>1 DEF UserInv, MapsInv
    <3> HIDE DEF B, s
    <3>2. \A i \in DOMAIN s : s[i] \in B
      BY <3>1
    <3> QED BY <3>2 DEF B
  <2>5. /\ a \in Nat /\ mmap_p \in Nat
        /\ PoolStart + a < Word64 =>
              /\ mmap_p = PoolStart + a
              /\ \A i \in DOMAIN s : PoolStart <= s[i].start /\ s[i].start + s[i].size <= mmap_p
              /\ \A i, j \in DOMAIN s : i < j => s[i].start + s[i].size <= s[j].start
    BY <1>1 DEF UserInv, MapsInv
  <2>6. ASSUME a <= PoolSize, NEW i \in DOMAIN s
        PROVE  PoolStart <= s[i].start /\ s[i].start + s[i].size <= End
    <3> HIDE DEF s, a
    <3>1. PoolStart + a <= End /\ PoolStart + a < Word64
      BY <2>1, <2>5, <2>6
    <3> QED BY <2>1, <2>4, <2>5, <2>6, <3>1
  <2> QED BY <2>3, <2>5, <2>6 DEF MapsAreApart
<1> QED BY <1>1, UserCorrect, PTL

(* However the program ends, run_user_64 reports how, with its exit code,    *)
(* and the time it ran, in nanoseconds rounded down.                         *)
THEOREM EndsAreReported == Spec => []EndIsReported
<1>1. ASSUME UserInv PROVE EndIsReported
  <2>1. CASE mode = "user"
    BY <1>1, <2>1, CounterShowsRun DEF UserInv, EndIsReported
  <2>2. CASE mode = "done"
    BY <1>1, <2>2 DEF UserInv, ResultInv
  <2>3. CASE mode = "kernel"
    BY <2>3 DEF EndIsReported
  <2> QED BY <1>1, <2>1, <2>2, <2>3 DEF UserInv, ClockInv
<1> QED BY <1>1, UserCorrect, PTL
=============================================================================
