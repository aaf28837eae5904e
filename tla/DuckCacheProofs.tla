-------------------------- MODULE DuckCacheProofs ---------------------------
(***************************************************************************)
(* Safety of the content cache, for every number of pages, page size and   *)
(* number of descriptors.                                                  *)
(*                                                                         *)
(* The lemmas on chains say what following links yields: a chain is        *)
(* determined by its start and its links.  SharedOut says that a free list *)
(* and a family of chains use every page exactly once; GiveBack and        *)
(* TakeOff say that joining a chain to the free list and cutting a new one *)
(* off it preserve this.  CacheInv is the inductive invariant.  The last   *)
(* part shows, step by step, that the cache implements LruCache.           *)
(***************************************************************************)
EXTENDS DuckCache, FiniteSetTheorems, FunctionTheorems, NaturalsInduction, TLAPS

\* The chain of n addresses that starts at a, in a pool linked by nx.
Step(nx, a) == IF a = NULL THEN NULL ELSE nx[a]
Links(nx, a, n, f) == f = [k \in 1..n |-> IF k = 1 THEN a ELSE Step(nx, f[k - 1])]

\* A nonempty set of natural numbers has a least element.
LEMMA LeastOfNats ==
    ASSUME NEW T, T \subseteq Nat, T # {}
    PROVE  \E x \in T : \A y \in T : x <= y
<1> DEFINE R == {ss \in Nat \X Nat : ss[1] < ss[2]}
<1>1. IsWellFoundedOn(R, Nat)
  BY NatLessThanWellFounded DEF OpToRel
<1>2. \E x \in T : \A y \in T : ~ (<<y, x>> \in R)
  <2> HIDE DEF R
  <2> QED BY <1>1, WFMin
<1>3. PICK x \in T : \A y \in T : ~ (<<y, x>> \in R)
  BY <1>2
<1>4. ASSUME NEW y \in T PROVE x <= y
  <2>1. <<y, x>> \in Nat \X Nat /\ <<y, x>>[1] = y /\ <<y, x>>[2] = x
    OBVIOUS
  <2>2. ~ (y < x)
    BY <1>3, <2>1
  <2> QED BY <2>2
<1> QED BY <1>4

\* Following links is always defined.
LEMMA ChainExists ==
    ASSUME NEW nx, NEW a, NEW n \in Nat
    PROVE  \E f : Links(nx, a, n, f)
<1> DEFINE T == {m \in Nat : ~ \E f : Links(nx, a, m, f)}
<1> SUFFICES ASSUME T # {} PROVE FALSE
  OBVIOUS
<1>1. PICK m \in T : \A y \in T : m <= y
  <2>1. T \subseteq Nat
    OBVIOUS
  <2> HIDE DEF T
  <2> QED BY <2>1, LeastOfNats
<1>2. CASE m = 0
  <2> DEFINE f == [k \in 1..0 |-> a]
  <2>1. Links(nx, a, 0, f)
    BY DEF Links
  <2> QED BY <1>2, <2>1
<1>3. CASE m # 0
  <2>1. m - 1 \in Nat /\ m - 1 \notin T
    BY <1>1, <1>3
  <2>2. PICK g : Links(nx, a, m - 1, g)
    BY <2>1
  <2> DEFINE f == [k \in 1..m |-> IF k = 1 THEN a ELSE Step(nx, g[k - 1])]
  <2>3. \A k \in 1..(m - 1) : f[k] = g[k]
    <3>1. \A k \in 1..(m - 1) : g[k] = IF k = 1 THEN a ELSE Step(nx, g[k - 1])
      BY <2>1, <2>2 DEF Links
    <3> SUFFICES ASSUME NEW k \in 1..(m - 1) PROVE f[k] = g[k]
      OBVIOUS
    <3>2. k \in 1..m /\ f[k] = IF k = 1 THEN a ELSE Step(nx, g[k - 1])
      BY <2>1
    <3> QED BY <3>1, <3>2
  <2>4. Links(nx, a, m, f)
    <3>0. \A k \in 1..m : k # 1 => k - 1 \in 1..(m - 1)
      BY <2>1
    <3>1. \A k \in 1..m : k # 1 => f[k - 1] = g[k - 1]
      <4> HIDE DEF f, T
      <4> QED BY <2>3, <3>0
    <3> QED BY <3>1 DEF Links
  <2> QED BY <2>4
<1> QED BY <1>2, <1>3

WalkIn(nx, a, n) == CHOOSE f : Links(nx, a, n, f)

\* Walk is WalkIn in the links of the current state.
LEMMA WalkIsWalkIn ==
    ASSUME NEW a, NEW n
    PROVE  Walk(a, n) = WalkIn(next, a, n)
BY DEF Walk, WalkIn, Links, Step

\* Each address of a chain but the first is the link of the one before.
Follows(nx, n, f) == \A k \in 1..(n - 1) : f[k + 1] = Step(nx, f[k])

\* A walk starts where it is told to, and follows the links.
LEMMA WalkFollows ==
    ASSUME NEW nx, NEW a, NEW n \in Nat \ {0}
    PROVE  /\ WalkIn(nx, a, n)[1] = a
           /\ Follows(nx, n, WalkIn(nx, a, n))
           /\ DOMAIN WalkIn(nx, a, n) = 1..n
<1> DEFINE f == WalkIn(nx, a, n)
<1>1. Links(nx, a, n, f)
  BY ChainExists DEF WalkIn
<1> HIDE DEF f
<1>2. \A k \in 1..n : f[k] = IF k = 1 THEN a ELSE Step(nx, f[k - 1])
  BY <1>1 DEF Links
<1>3. f[1] = a
  BY <1>2
<1>4. ASSUME NEW k \in 1..(n - 1) PROVE f[k + 1] = Step(nx, f[k])
  <2>1. k + 1 \in 1..n /\ k + 1 # 1 /\ (k + 1) - 1 = k
    OBVIOUS
  <2> QED BY <1>2, <2>1
<1>5. DOMAIN f = 1..n
  BY <1>1 DEF Links
<1> QED BY <1>3, <1>4, <1>5 DEF Follows, f

\* The first n addresses of f have the same links in nx and ny; f and g have
\* the same first n addresses; f goes on as g does from address m + 1.
Agree(nx, ny, n, f) == \A k \in 1..(n - 1) : Step(nx, f[k]) = Step(ny, f[k])
SameTo(n, f, g) == \A k \in 1..n : f[k] = g[k]
Beyond(n, f, m, g) == \A k \in 1..n : f[k] = g[m + k]

\* Two chains with the same start are the same as long as the links of the
\* first one's addresses are.
LEMMA SameChain ==
    ASSUME NEW nx, NEW ny, NEW n \in Nat, NEW f, NEW g,
           f[1] = g[1], Follows(nx, n, f), Follows(ny, n, g),
           Agree(nx, ny, n, f)
    PROVE  SameTo(n, f, g)
<1> DEFINE T == {k \in 1..n : f[k] # g[k]}
<1> SUFFICES ASSUME T # {} PROVE FALSE
  BY DEF SameTo
<1>1. PICK m \in T : \A y \in T : m <= y
  <2>1. T \subseteq Nat
    OBVIOUS
  <2> HIDE DEF T
  <2> QED BY <2>1, LeastOfNats
<1>2. m # 1 /\ m - 1 \in 1..(n - 1)
  OBVIOUS
<1>3. f[m - 1] = g[m - 1]
  BY <1>1, <1>2
<1>4. (m - 1) + 1 = m
  OBVIOUS
<1>5. f[m] = Step(nx, f[m - 1]) /\ g[m] = Step(ny, g[m - 1])
  BY <1>2, <1>4 DEF Follows
<1> QED BY <1>2, <1>3, <1>5 DEF Agree

-----------------------------------------------------------------------------
\* The pages are shared out between the first n addresses of F, which are
\* free and end the free list, and the chains C[i], of N[i] pages, i in I.
FreePart(F, n) ==
    /\ \A k \in 1..n : F[k] \in Pages
    /\ F[n + 1] = NULL
    /\ \A k, l \in 1..n : F[k] = F[l] => k = l
ChainPart(I, C, N) ==
    /\ \A i \in I : N[i] \in Nat \ {0}
    /\ \A i \in I : \A k \in 1..N[i] : C[i][k] \in Pages
    /\ \A i \in I : \A k, l \in 1..N[i] : C[i][k] = C[i][l] => k = l
Apart(F, n, I, C, N) ==
    /\ \A i \in I : \A k \in 1..N[i] : \A l \in 1..n : C[i][k] # F[l]
    /\ \A i, j \in I : \A k \in 1..N[i] : \A l \in 1..N[j] :
          C[i][k] = C[j][l] => i = j
Covered(F, n, I, C, N) ==
    \A p \in Pages : \/ \E k \in 1..n : F[k] = p
                     \/ \E i \in I : \E k \in 1..N[i] : C[i][k] = p
SharedOut(F, n, I, C, N) ==
    /\ n \in Nat
    /\ FreePart(F, n)
    /\ ChainPart(I, C, N)
    /\ Apart(F, n, I, C, N)
    /\ Covered(F, n, I, C, N)

\* One chain is put before the free list.
LEMMA GiveBack ==
    ASSUME NEW F, NEW n, NEW I, NEW C, NEW N, SharedOut(F, n, I, C, N),
           NEW id \in I, NEW G, NEW D, NEW M,
           SameTo(N[id], C[id], G), Beyond(n + 1, F, N[id], G),
           \A i \in I \ {id} : M[i] = N[i] /\ SameTo(N[i], C[i], D[i])
    PROVE  SharedOut(G, n + N[id], I \ {id}, D, M)
<1>1. n \in Nat /\ N[id] \in Nat /\ N[id] >= 1
  BY DEF SharedOut, ChainPart
<1>2. ASSUME NEW k \in 1..(n + N[id])
      PROVE  \/ k \in 1..N[id] /\ G[k] = C[id][k]
             \/ k \notin 1..N[id] /\ k - N[id] \in 1..n /\ G[k] = F[k - N[id]]
  <2>1. CASE k <= N[id]
    BY <1>1, <2>1 DEF SameTo
  <2>2. CASE k > N[id]
    <3>1. k - N[id] \in 1..n /\ k - N[id] \in 1..(n + 1) /\ N[id] + (k - N[id]) = k
      BY <1>1, <2>2
    <3> QED BY <1>1, <3>1, <2>2 DEF Beyond
  <2> QED BY <1>1, <2>1, <2>2
<1>3. FreePart(G, n + N[id])
  <2>1. \A k \in 1..(n + N[id]) : G[k] \in Pages
    BY <1>1, <1>2 DEF SharedOut, FreePart, ChainPart
  <2>2. G[(n + N[id]) + 1] = NULL
    <3>1. n + 1 \in 1..(n + 1) /\ (n + N[id]) + 1 = N[id] + (n + 1)
      BY <1>1
    <3> QED BY <3>1 DEF SharedOut, FreePart, Beyond
  <2>3. ASSUME NEW k \in 1..(n + N[id]), NEW l \in 1..(n + N[id]), G[k] = G[l]
        PROVE  k = l
    <3>1. CASE k \in 1..N[id] /\ l \in 1..N[id]
      BY <1>2, <2>3, <3>1 DEF SharedOut, ChainPart
    <3>2. CASE k \notin 1..N[id] /\ l \notin 1..N[id]
      <4>1. k - N[id] = l - N[id]
        BY <1>2, <2>3, <3>2 DEF SharedOut, FreePart
      <4> QED BY <1>1, <4>1
    <3>3. CASE k \in 1..N[id] /\ l \notin 1..N[id]
      BY <1>2, <2>3, <3>3 DEF SharedOut, Apart
    <3>4. CASE k \notin 1..N[id] /\ l \in 1..N[id]
      BY <1>2, <2>3, <3>4 DEF SharedOut, Apart
    <3> QED BY <3>1, <3>2, <3>3, <3>4
  <2> QED BY <2>1, <2>2, <2>3 DEF FreePart
<1>4. ChainPart(I \ {id}, D, M)
  BY DEF SharedOut, ChainPart, SameTo
<1>5. Apart(G, n + N[id], I \ {id}, D, M)
  <2>1. ASSUME NEW i \in I \ {id}, NEW k \in 1..M[i], NEW l \in 1..(n + N[id])
        PROVE  D[i][k] # G[l]
    <3>1. k \in 1..N[i] /\ D[i][k] = C[i][k]
      BY DEF SameTo
    <3>2. CASE l \in 1..N[id]
      BY <1>2, <3>1, <3>2 DEF SharedOut, Apart
    <3>3. CASE l \notin 1..N[id]
      BY <1>2, <3>1, <3>3 DEF SharedOut, Apart
    <3> QED BY <3>2, <3>3
  <2>2. ASSUME NEW i \in I \ {id}, NEW j \in I \ {id}, NEW k \in 1..M[i],
               NEW l \in 1..M[j], D[i][k] = D[j][l]
        PROVE  i = j
    BY <2>2 DEF SharedOut, Apart, SameTo
  <2> QED BY <2>1, <2>2 DEF Apart
<1>6. Covered(G, n + N[id], I \ {id}, D, M)
  <2> SUFFICES ASSUME NEW p \in Pages
               PROVE  \/ \E k \in 1..(n + N[id]) : G[k] = p
                      \/ \E i \in I \ {id} : \E k \in 1..M[i] : D[i][k] = p
    BY DEF Covered
  <2>1. CASE \E k \in 1..n : F[k] = p
    <3>1. PICK k \in 1..n : F[k] = p
      BY <2>1
    <3>2. k \in 1..(n + 1) /\ N[id] + k \in 1..(n + N[id])
      BY <1>1
    <3> QED BY <3>1, <3>2 DEF Beyond
  <2>2. CASE \E i \in I : \E k \in 1..N[i] : C[i][k] = p
    <3>0. PICK i \in I : \E k \in 1..N[i] : C[i][k] = p
      BY <2>2
    <3>1. PICK k \in 1..N[i] : C[i][k] = p
      BY <3>0
    <3>2. CASE i = id
      <4>1. k \in 1..(n + N[id])
        BY <1>1, <3>2
      <4> QED BY <3>1, <3>2, <4>1 DEF SameTo
    <3>3. CASE i # id
      BY <3>1, <3>3 DEF SameTo
    <3> QED BY <3>2, <3>3
  <2> QED BY <2>1, <2>2 DEF SharedOut, Covered
<1> QED BY <1>1, <1>3, <1>4, <1>5, <1>6 DEF SharedOut

\* t is a bijection between K and I, and f is g renamed by it.
Renames(t, K, I) ==
    /\ \A i \in K : t[i] \in I
    /\ \A i, j \in K : t[i] = t[j] => i = j
    /\ \A i \in I : \E j \in K : t[j] = i
Along(K, f, t, g) == \A i \in K : f[i] = g[t[i]]

\* The first m free pages become the chain of a new index; the others are
\* renamed along t.
LEMMA TakeOff ==
    ASSUME NEW F, NEW n, NEW I, NEW C, NEW N, SharedOut(F, n, I, C, N),
           NEW m \in Nat, 1 <= m, m <= n, NEW J, NEW new \in J,
           NEW t, Renames(t, J \ {new}, I), NEW G, NEW D, NEW M,
           Beyond((n - m) + 1, G, m, F), M[new] = m, SameTo(m, F, D[new]),
           \A i \in J \ {new} : M[i] = N[t[i]] /\ D[i] = C[t[i]]
    PROVE  SharedOut(G, n - m, J, D, M)
<1>1. n \in Nat /\ n - m \in Nat /\ 1..m \subseteq 1..n
  BY DEF SharedOut
<1>2. ASSUME NEW k \in 1..(n - m) PROVE m + k \in 1..n /\ m + k \notin 1..m /\ G[k] = F[m + k]
  BY <1>1 DEF Beyond
<1>3. FreePart(G, n - m)
  <2>1. \A k \in 1..(n - m) : G[k] \in Pages
    BY <1>2 DEF SharedOut, FreePart
  <2>2. G[(n - m) + 1] = NULL
    <3>1. (n - m) + 1 \in 1..((n - m) + 1) /\ m + ((n - m) + 1) = n + 1
      BY <1>1
    <3> QED BY <3>1 DEF SharedOut, FreePart, Beyond
  <2>3. ASSUME NEW k \in 1..(n - m), NEW l \in 1..(n - m), G[k] = G[l]
        PROVE  k = l
    <3>1. m + k = m + l
      BY <1>2, <2>3 DEF SharedOut, FreePart
    <3> QED BY <3>1
  <2> QED BY <2>1, <2>2, <2>3 DEF FreePart
<1>4. ChainPart(J, D, M)
  <2>1. ASSUME NEW i \in J
        PROVE  /\ M[i] \in Nat \ {0}
               /\ \A k \in 1..M[i] : D[i][k] \in Pages
               /\ \A k, l \in 1..M[i] : D[i][k] = D[i][l] => k = l
    <3>1. CASE i = new
      BY <1>1, <3>1 DEF SharedOut, FreePart, SameTo
    <3>2. CASE i # new
      BY <3>2 DEF SharedOut, ChainPart, Renames
    <3> QED BY <3>1, <3>2
  <2> QED BY <2>1 DEF ChainPart
<1>5. Apart(G, n - m, J, D, M)
  <2>1. ASSUME NEW i \in J, NEW k \in 1..M[i], NEW l \in 1..(n - m)
        PROVE  D[i][k] # G[l]
    <3>1. CASE i = new
      BY <1>1, <1>2, <3>1 DEF SharedOut, FreePart, SameTo
    <3>2. CASE i # new
      BY <1>2, <3>2 DEF SharedOut, Apart, Renames
    <3> QED BY <3>1, <3>2
  <2>2. ASSUME NEW i \in J, NEW j \in J, NEW k \in 1..M[i],
               NEW l \in 1..M[j], D[i][k] = D[j][l]
        PROVE  i = j
    <3>1. CASE i = new /\ j # new
      BY <1>1, <2>2, <3>1 DEF SharedOut, Apart, SameTo, Renames
    <3>2. CASE i # new /\ j = new
      BY <1>1, <2>2, <3>2 DEF SharedOut, Apart, SameTo, Renames
    <3>3. CASE i # new /\ j # new
      BY <2>2, <3>3 DEF SharedOut, Apart, Renames
    <3> QED BY <3>1, <3>2, <3>3
  <2> QED BY <2>1, <2>2 DEF Apart
<1>6. Covered(G, n - m, J, D, M)
  <2> SUFFICES ASSUME NEW p \in Pages
               PROVE  \/ \E k \in 1..(n - m) : G[k] = p
                      \/ \E i \in J : \E k \in 1..M[i] : D[i][k] = p
    BY DEF Covered
  <2>1. CASE \E k \in 1..n : F[k] = p
    <3>1. PICK k \in 1..n : F[k] = p
      BY <2>1
    <3>2. CASE k <= m
      <4>1. k \in 1..m
        BY <3>2
      <4> QED BY <3>1, <4>1 DEF SameTo
    <3>3. CASE k > m
      <4>1. k - m \in 1..(n - m) /\ m + (k - m) = k
        BY <1>1, <3>3
      <4> QED BY <1>2, <3>1, <4>1
    <3> QED BY <3>2, <3>3
  <2>2. CASE \E i \in I : \E k \in 1..N[i] : C[i][k] = p
    <3>0. PICK i \in I : \E k \in 1..N[i] : C[i][k] = p
      BY <2>2
    <3>1. PICK k \in 1..N[i] : C[i][k] = p
      BY <3>0
    <3>2. PICK j \in J \ {new} : t[j] = i
      BY DEF Renames
    <3> QED BY <3>1, <3>2
  <2> QED BY <2>1, <2>2 DEF SharedOut, Covered
<1> QED BY <1>1, <1>3, <1>4, <1>5, <1>6 DEF SharedOut
-----------------------------------------------------------------------------
\* The operators of the cache.

\* Even an empty content takes a page.
LEMMA PagesNeededIsPositive ==
    ASSUME NEW len \in Nat
    PROVE  PagesNeeded(len) \in Nat /\ PagesNeeded(len) >= 1
<1> DEFINE q == (len + ContentSize - 1) \div ContentSize
<1>1. q \in Int
  BY CacheAssumption
<1> HIDE DEF q
<1>2. \E x \in {q, 1} : \A y \in {q, 1} : x >= y
  BY <1>1
<1>3. Max({q, 1}) \in {q, 1} /\ \A y \in {q, 1} : Max({q, 1}) >= y
  BY <1>2 DEF Max
<1>4. Max({q, 1}) \in Nat /\ Max({q, 1}) >= 1
  BY <1>1, <1>3
<1> QED BY <1>4 DEF PagesNeeded, q

\* Min is the least element.
LEMMA MinIsLeast ==
    ASSUME NEW T, T \subseteq Nat, T # {}
    PROVE  Min(T) \in T /\ \A y \in T : Min(T) <= y
<1>1. \E x \in T : \A y \in T : x <= y
  BY LeastOfNats
<1> QED BY <1>1 DEF Min

Less(a, b) == a[1] < b[1] \/ (a[1] = b[1] /\ a[2] < b[2])

\* cmp_digest is the lexicographic order.
LEMMA CmpDigest ==
    ASSUME NEW a \in Nat \X Nat, NEW b \in Nat \X Nat
    PROVE  /\ cmp_digest(a, b) = -1 <=> Less(a, b)
           /\ cmp_digest(a, b) >= 0 <=> ~ Less(a, b)
           /\ cmp_digest(a, b) = 0 <=> a = b
           /\ Less(a, b) \/ a = b \/ Less(b, a)
           /\ ~ Less(a, a)
<1>1. PICK x \in Nat, y \in Nat : a = <<x, y>>
  OBVIOUS
<1>2. PICK z \in Nat, w \in Nat : b = <<z, w>>
  OBVIOUS
<1> QED BY <1>1, <1>2 DEF cmp_digest, Less

\* That order is transitive.
LEMMA LessIsTransitive ==
    ASSUME NEW a \in Nat \X Nat, NEW b \in Nat \X Nat, NEW c \in Nat \X Nat,
           Less(a, b), Less(b, c)
    PROVE  Less(a, c)
<1>1. a[1] \in Nat /\ a[2] \in Nat /\ b[1] \in Nat /\ b[2] \in Nat /\ c[1] \in Nat /\ c[2] \in Nat
  OBVIOUS
<1> QED BY <1>1 DEF Less

\* os is sorted by digest.
Sorted(os) ==
    /\ Len(os) \in Nat
    /\ \A i \in 1..Len(os) : os[i].digest \in Nat \X Nat
    /\ \A i, j \in 1..Len(os) : i < j => Less(os[i].digest, os[j].digest)

\* A scan that stops at the end stops at the first hit.
LEMMA FirstOfSet ==
    ASSUME NEW L \in Nat, NEW from \in 1..(L + 1), NEW T, T \subseteq from..L
    PROVE  /\ Min(T \cup {L + 1}) \in from..(L + 1)
           /\ \A i \in from..L : i < Min(T \cup {L + 1}) => i \notin T
           /\ Min(T \cup {L + 1}) <= L => Min(T \cup {L + 1}) \in T
<1> DEFINE X == T \cup {L + 1}
           m == Min(X)
<1>1. X \subseteq Nat /\ X # {}
  OBVIOUS
<1>2. m \in X /\ \A y \in X : m <= y
  <2> HIDE DEF X
  <2> QED BY <1>1, MinIsLeast
<1> HIDE DEF m
<1>3. m \in from..(L + 1) /\ (m <= L => m \in T)
  BY <1>2
<1>4. ASSUME NEW i \in from..L, i < m PROVE i \notin T
  BY <1>2, <1>3, <1>4
<1> QED BY <1>3, <1>4 DEF m

\* find returns where the digest is, or where it belongs.
LEMMA FindPlace ==
    ASSUME NEW os, Sorted(os), NEW d \in Nat \X Nat
    PROVE  LET f == find(os, d)
           IN  /\ f.idx \in 1..(Len(os) + 1)
               /\ f.found => f.idx \in 1..Len(os) /\ os[f.idx].digest = d
               /\ \A i \in 1..Len(os) : i < f.idx => Less(os[i].digest, d)
               /\ ~ f.found => \A i \in 1..Len(os) : i >= f.idx => Less(d, os[i].digest)
<1> DEFINE L == Len(os)
           idx1 == FirstIndex(os, 1, LAMBDA o : o.digest[1] >= d[1])
           idx2 == FirstIndex(os, idx1, LAMBDA o : o.digest[1] > d[1])
           X == {i \in idx1..(idx2 - 1) : cmp_digest(os[i].digest, d) >= 0} \cup {idx2}
           idx == Min(X)
           found == idx < idx2 /\ cmp_digest(os[idx].digest, d) = 0
<1>1. find(os, d) = [found |-> found, idx |-> idx]
  BY DEF find
<1>2. L \in Nat
  BY DEF Sorted
<1>3. /\ idx1 \in 1..(L + 1)
      /\ \A i \in 1..L : i < idx1 => ~ (os[i].digest[1] >= d[1])
  <2> DEFINE T == {i \in 1..L : os[i].digest[1] >= d[1]}
  <2>1. idx1 = Min(T \cup {L + 1})
    BY DEF FirstIndex
  <2>2. 1 \in 1..(L + 1) /\ T \subseteq 1..L
    BY <1>2
  <2>3. idx1 \in 1..(L + 1) /\ \A i \in 1..L : i < idx1 => i \notin T
    <3> HIDE DEF T, idx1, L
    <3> QED BY <1>2, <2>1, <2>2, FirstOfSet
  <2> HIDE DEF idx1, L
  <2> QED BY <2>3
<1> HIDE DEF idx1
<1>4. /\ idx2 \in idx1..(L + 1)
      /\ idx2 <= L => os[idx2].digest[1] > d[1]
  <2> DEFINE T == {i \in idx1..L : os[i].digest[1] > d[1]}
  <2>1. idx2 = Min(T \cup {L + 1})
    BY DEF FirstIndex
  <2>2. T \subseteq idx1..L
    OBVIOUS
  <2>3. idx2 \in idx1..(L + 1) /\ (idx2 <= L => idx2 \in T)
    <3> HIDE DEF T, idx2, L
    <3> QED BY <1>2, <1>3, <2>1, <2>2, FirstOfSet
  <2> HIDE DEF idx2, L
  <2> QED BY <2>3
<1> HIDE DEF idx2
<1>5. X \subseteq Nat /\ X # {}
  BY <1>2, <1>3, <1>4
<1>6. idx \in X /\ \A y \in X : idx <= y
  <2> HIDE DEF X
  <2> QED BY <1>5, MinIsLeast
<1>7. /\ idx \in idx1..idx2
      /\ idx < idx2 => cmp_digest(os[idx].digest, d) >= 0
      /\ \A i \in idx1..(idx2 - 1) : i < idx => ~ (cmp_digest(os[i].digest, d) >= 0)
  <2> HIDE DEF idx
  <2> QED BY <1>2, <1>3, <1>4, <1>6
<1> HIDE DEF idx
<1>8. idx \in 1..(L + 1)
  BY <1>2, <1>3, <1>4, <1>7
<1>9. found => idx \in 1..L /\ os[idx].digest = d
  <2> SUFFICES ASSUME found PROVE idx \in 1..L /\ os[idx].digest = d
    OBVIOUS
  <2>1. idx \in 1..L
    BY <1>2, <1>3, <1>4, <1>7
  <2> QED BY <2>1, CmpDigest DEF Sorted
<1>10. ASSUME NEW i \in 1..L, i < idx PROVE Less(os[i].digest, d)
  <2>0. os[i].digest \in Nat \X Nat
    BY DEF Sorted
  <2>1. CASE i < idx1
    <3>1. ~ (os[i].digest[1] >= d[1])
      BY <1>3, <2>1
    <3> QED BY <2>0, <3>1 DEF Less
  <2>2. CASE ~ (i < idx1)
    <3>1. i \in idx1..(idx2 - 1)
      BY <1>2, <1>3, <1>4, <1>7, <1>10, <2>2
    <3> QED BY <2>0, <3>1, <1>7, <1>10, CmpDigest
  <2> QED BY <2>1, <2>2
<1>11. ASSUME ~ found, NEW i \in 1..L, i >= idx PROVE Less(d, os[i].digest)
  <2>1. idx \in 1..L
    BY <1>2, <1>8, <1>11
  <2>2. os[idx].digest \in Nat \X Nat /\ os[i].digest \in Nat \X Nat
    BY <2>1 DEF Sorted
  <2>3. Less(d, os[idx].digest)
    <3>1. CASE idx < idx2
      <4>1. cmp_digest(os[idx].digest, d) >= 0 /\ cmp_digest(os[idx].digest, d) # 0
        BY <1>7, <1>11, <3>1
      <4> QED BY <2>2, <4>1, CmpDigest
    <3>2. CASE ~ (idx < idx2)
      <4>1. idx = idx2 /\ idx2 <= L
        BY <1>2, <1>3, <1>4, <1>7, <2>1, <3>2
      <4>2. os[idx].digest[1] > d[1]
        BY <1>4, <4>1
      <4> QED BY <2>2, <4>2 DEF Less
    <3> QED BY <3>1, <3>2
  <2>4. i = idx \/ Less(os[idx].digest, os[i].digest)
    <3>1. i = idx \/ idx < i
      BY <1>11, <2>1
    <3> QED BY <2>1, <3>1 DEF Sorted
  <2> QED BY <2>2, <2>3, <2>4, LessIsTransitive
<1> HIDE DEF found
<1> QED BY <1>1, <1>8, <1>9, <1>10, <1>11

\* The length of a concatenation.
LEMMA ConcatLength ==
    ASSUME NEW S, NEW a \in Seq(S), NEW b \in Seq(S)
    PROVE  Len(a \o b) = Len(a) + Len(b)
OBVIOUS

\* What InsertAt leaves where.
Inserted(r, S, os, i, e) ==
    /\ r \in Seq(S)
    /\ Len(r) = Len(os) + 1
    /\ r[i] = e
    /\ \A k \in 1..(i - 1) : r[k] = os[k]
    /\ \A k \in (i + 1)..(Len(os) + 1) : r[k] = os[k - 1]

\* InsertAt does that.
LEMMA InsertedAt ==
    ASSUME NEW S, NEW os \in Seq(S), NEW e \in S, NEW i \in 1..(Len(os) + 1)
    PROVE  Inserted(InsertAt(os, i, e), S, os, i, e)
<1> DEFINE A == SubSeq(os, 1, i - 1)
           B == SubSeq(os, i, Len(os))
<1>1. A \in Seq(S) /\ Len(A) = i - 1 /\ \A k \in 1..(i - 1) : A[k] = os[k]
  OBVIOUS
<1>2. /\ B \in Seq(S) /\ Len(B) = Len(os) + 1 - i
      /\ \A k \in 1..(Len(os) + 1 - i) : B[k] = os[i + k - 1]
  OBVIOUS
<1> HIDE DEF A, B
<1> DEFINE r == (A \o <<e>>) \o B
<1>3. r = InsertAt(os, i, e)
  BY DEF InsertAt, A, B
<1>4. /\ A \o <<e>> \in Seq(S) /\ Len(A \o <<e>>) = i
      /\ \A k \in 1..(i - 1) : (A \o <<e>>)[k] = os[k]
      /\ (A \o <<e>>)[i] = e
  BY <1>1
<1> DEFINE H == A \o <<e>>
<1>5. /\ r \in Seq(S) /\ Len(r) = Len(os) + 1 /\ r[i] = e
      /\ \A k \in 1..(i - 1) : r[k] = os[k]
  <2> HIDE DEF H
  <2>1. /\ H \in Seq(S) /\ Len(H) = i /\ H[i] = e
        /\ \A k \in 1..(i - 1) : H[k] = os[k]
    BY <1>4 DEF H
  <2>2. r = H \o B
    BY DEF H
  <2> HIDE DEF r
  <2>3. r \in Seq(S) /\ Len(r) = Len(os) + 1
    <3>1. r \in Seq(S)
      BY <1>2, <2>1, <2>2
    <3>2. Len(r) = Len(H) + Len(B)
      BY <1>2, <2>1, <2>2, ConcatLength
    <3>3. Len(os) \in Nat
      OBVIOUS
    <3> QED BY <1>2, <2>1, <3>1, <3>2, <3>3
  <2>4. \A k \in 1..i : r[k] = H[k]
    BY <1>2, <2>1, <2>2
  <2> QED BY <2>1, <2>3, <2>4
<1>6. ASSUME NEW k \in (i + 1)..(Len(os) + 1) PROVE r[k] = os[k - 1]
  <2>1. k - i \in 1..(Len(os) + 1 - i) /\ i + (k - i) - 1 = k - 1
    OBVIOUS
  <2>2. r[k] = B[k - i]
    BY <1>2, <1>4
  <2> QED BY <1>2, <2>1, <2>2
<1> HIDE DEF r
<1> QED BY <1>3, <1>5, <1>6 DEF Inserted
-----------------------------------------------------------------------------
\* The pool as the links nx of its pages, the head fa of its free list of n
\* pages, and the starts S[i] and page counts N[i] of the chains in use.
Pool(nx, fa, n, I, S, N) ==
    SharedOut(WalkIn(nx, fa, n + 1), n, I, [i \in I |-> WalkIn(nx, S[i], N[i])], N)

\* A chain can be cut short.
LEMMA FollowsPrefix ==
    ASSUME NEW nx, NEW f, NEW m \in Nat, NEW n \in Nat, m <= n, Follows(nx, n, f)
    PROVE  Follows(nx, m, f)
BY DEF Follows

\* A chain can be entered further on.
LEMMA FollowsShift ==
    ASSUME NEW nx, NEW f, NEW m \in Nat, NEW n \in Nat, Follows(nx, m + n, f)
    PROVE  Follows(nx, n, [k \in 1..n |-> f[m + k]])
<1> SUFFICES ASSUME NEW k \in 1..(n - 1)
             PROVE  [l \in 1..n |-> f[m + l]][k + 1] = Step(nx, [l \in 1..n |-> f[m + l]][k])
  BY DEF Follows
<1>1. k \in 1..n /\ k + 1 \in 1..n /\ m + k \in 1..((m + n) - 1) /\ m + (k + 1) = (m + k) + 1
  OBVIOUS
<1>2. f[(m + k) + 1] = Step(nx, f[m + k])
  BY <1>1 DEF Follows
<1> QED BY <1>1, <1>2

Relinked(ny, nx, addr, fa) == \A a \in Pages : ny[a] = IF a = addr THEN fa ELSE nx[a]
SameOn(I, f, g) == \A i \in I : f[i] = g[i]

ChainsStay(nx, ny, I, S, N) ==
    \A i \in I : SameTo(N[i], WalkIn(nx, S[i], N[i]), WalkIn(ny, S[i], N[i]))

\* What one iteration of the eviction loop does to the links.
LEMMA EvictChain ==
    ASSUME NEW nx, NEW fa, NEW n, NEW I, NEW S, NEW N, Pool(nx, fa, n, I, S, N),
           NEW id \in I, NEW addr, addr = WalkIn(nx, S[id], N[id])[N[id]],
           NEW ny, Relinked(ny, nx, addr, fa),
           NEW R, NEW M, SameOn(I \ {id}, R, S), SameOn(I \ {id}, M, N)
    PROVE  /\ Pool(ny, S[id], n + N[id], I \ {id}, R, M)
           /\ ChainsStay(nx, ny, I \ {id}, S, N)
<1> DEFINE F == WalkIn(nx, fa, n + 1)
           C == [i \in I |-> WalkIn(nx, S[i], N[i])]
           G == WalkIn(ny, S[id], (n + N[id]) + 1)
           D == [i \in I \ {id} |-> WalkIn(ny, R[i], M[i])]
<1>0. SharedOut(F, n, I, C, N)
  BY DEF Pool
<1>1. n \in Nat /\ N[id] \in Nat /\ N[id] >= 1
  BY <1>0 DEF SharedOut, ChainPart
<1>2. F[1] = fa /\ Follows(nx, n + 1, F)
  <2>1. n + 1 \in Nat \ {0}
    BY <1>1
  <2> QED BY <2>1, WalkFollows
<1>3. G[1] = S[id] /\ Follows(ny, (n + N[id]) + 1, G)
  <2>1. (n + N[id]) + 1 \in Nat \ {0}
    BY <1>1
  <2> QED BY <2>1, WalkFollows
<1>4. ASSUME NEW i \in I
      PROVE  /\ N[i] \in Nat \ {0} /\ C[i] = WalkIn(nx, S[i], N[i])
             /\ C[i][1] = S[i] /\ Follows(nx, N[i], C[i])
  <2>1. N[i] \in Nat \ {0} /\ C[i] = WalkIn(nx, S[i], N[i])
    BY <1>0 DEF SharedOut, ChainPart
  <2> QED BY <2>1, WalkFollows
<1>5. addr = C[id][N[id]] /\ addr \in Pages /\ NULL \notin Pages
  BY <1>0, <1>1 DEF SharedOut, ChainPart, Pages, NULL
<1>6. ASSUME NEW i \in I, i # id PROVE D[i] = WalkIn(ny, S[i], N[i])
  BY <1>6 DEF SameOn
<1> HIDE DEF F, C, G, D
<1>7. \A p \in Pages : p # addr => Step(nx, p) = Step(ny, p)
  BY <1>5 DEF Step, Relinked
<1>8. SameTo(N[id], C[id], G)
  <2>1. Follows(ny, N[id], G)
    BY <1>1, <1>3, FollowsPrefix
  <2>2. Agree(nx, ny, N[id], C[id])
    <3> SUFFICES ASSUME NEW k \in 1..(N[id] - 1) PROVE Step(nx, C[id][k]) = Step(ny, C[id][k])
      BY DEF Agree
    <3>1. k \in 1..N[id] /\ N[id] \in 1..N[id] /\ k # N[id]
      BY <1>1
    <3>2. C[id][k] \in Pages /\ C[id][k] # addr
      BY <1>0, <1>5, <3>1 DEF SharedOut, ChainPart
    <3> QED BY <1>7, <3>2
  <2>3. C[id][1] = G[1] /\ Follows(nx, N[id], C[id])
    BY <1>3, <1>4
  <2> QED BY <1>1, <2>1, <2>2, <2>3, SameChain
<1>9. Beyond(n + 1, F, N[id], G)
  <2> DEFINE H == [k \in 1..(n + 1) |-> G[N[id] + k]]
  <2>1. Follows(ny, n + 1, H)
    <3>1. n + 1 \in Nat /\ (n + N[id]) + 1 = N[id] + (n + 1)
      BY <1>1
    <3>2. Follows(ny, N[id] + (n + 1), G)
      BY <1>3, <3>1
    <3> QED BY <1>1, <3>1, <3>2, FollowsShift
  <2>2. H[1] = F[1]
    <3>1. N[id] \in 1..(((n + N[id]) + 1) - 1) /\ N[id] \in 1..N[id] /\ 1 \in 1..(n + 1)
      BY <1>1
    <3>2. G[N[id] + 1] = Step(ny, G[N[id]])
      BY <1>3, <3>1 DEF Follows
    <3>3. G[N[id]] = addr
      BY <1>5, <1>8, <3>1 DEF SameTo
    <3>4. Step(ny, addr) = fa
      BY <1>5 DEF Step, Relinked
    <3> QED BY <1>2, <3>1, <3>2, <3>3, <3>4
  <2>3. Agree(nx, ny, n + 1, F)
    <3> SUFFICES ASSUME NEW k \in 1..((n + 1) - 1) PROVE Step(nx, F[k]) = Step(ny, F[k])
      BY DEF Agree
    <3>1. k \in 1..n /\ N[id] \in 1..N[id]
      BY <1>1
    <3>2. F[k] \in Pages
      BY <1>0, <3>1 DEF SharedOut, FreePart
    <3>3. F[k] # addr
      BY <1>0, <1>5, <3>1 DEF SharedOut, Apart
    <3> QED BY <1>7, <3>2, <3>3
  <2>4. SameTo(n + 1, F, H)
    <3> HIDE DEF H
    <3>1. n + 1 \in Nat
      BY <1>1
    <3> QED BY <1>2, <2>1, <2>2, <2>3, <3>1, SameChain
  <2> QED BY <2>4 DEF SameTo, Beyond
<1>10. ASSUME NEW i \in I \ {id}
       PROVE  M[i] = N[i] /\ SameTo(N[i], C[i], D[i])
  <2>1. D[i][1] = S[i] /\ Follows(ny, N[i], D[i])
    BY <1>4, <1>6, WalkFollows
  <2>2. Agree(nx, ny, N[i], C[i])
    <3> SUFFICES ASSUME NEW k \in 1..(N[i] - 1) PROVE Step(nx, C[i][k]) = Step(ny, C[i][k])
      BY DEF Agree
    <3>1. k \in 1..N[i] /\ N[id] \in 1..N[id]
      BY <1>1, <1>4
    <3>2. C[i][k] \in Pages
      BY <1>0, <3>1 DEF SharedOut, ChainPart
    <3>3. C[i][k] # addr
      BY <1>0, <1>5, <3>1 DEF SharedOut, Apart
    <3> QED BY <1>7, <3>2, <3>3
  <2>3. SameTo(N[i], C[i], D[i])
    BY <1>4, <2>1, <2>2, SameChain
  <2> QED BY <2>3 DEF SameOn
<1>11. SharedOut(G, n + N[id], I \ {id}, D, M)
  BY <1>0, <1>8, <1>9, <1>10, GiveBack
<1>12. Pool(ny, S[id], n + N[id], I \ {id}, R, M)
  BY <1>11 DEF Pool, G, D
<1>13. ASSUME NEW i \in I \ {id}
       PROVE  SameTo(N[i], WalkIn(nx, S[i], N[i]), WalkIn(ny, S[i], N[i]))
  BY <1>4, <1>6, <1>10
<1> QED BY <1>12, <1>13 DEF ChainsStay

\* What the end of store does to the free list.
LEMMA TakeChain ==
    ASSUME NEW nx, NEW fa, NEW n, NEW I, NEW S, NEW N, Pool(nx, fa, n, I, S, N),
           NEW m \in Nat, 1 <= m, m <= n, NEW J, NEW new \in J,
           NEW t, Renames(t, J \ {new}, I),
           NEW R, NEW M, R[new] = fa, M[new] = m,
           Along(J \ {new}, R, t, S), Along(J \ {new}, M, t, N)
    PROVE  Pool(nx, WalkIn(nx, fa, m + 1)[m + 1], n - m, J, R, M)
<1> DEFINE F == WalkIn(nx, fa, n + 1)
           C == [i \in I |-> WalkIn(nx, S[i], N[i])]
           A == WalkIn(nx, fa, m + 1)
           G == WalkIn(nx, A[m + 1], (n - m) + 1)
           D == [i \in J |-> WalkIn(nx, R[i], M[i])]
<1>0. SharedOut(F, n, I, C, N)
  BY DEF Pool
<1>1. n \in Nat /\ n - m \in Nat
  BY <1>0 DEF SharedOut
<1>2. F[1] = fa /\ Follows(nx, n + 1, F)
  <2>1. n + 1 \in Nat \ {0}
    BY <1>1
  <2> QED BY <2>1, WalkFollows
<1>3. A[1] = fa /\ Follows(nx, m + 1, A)
  <2>1. m + 1 \in Nat \ {0}
    OBVIOUS
  <2> QED BY <2>1, WalkFollows
<1>4. G[1] = A[m + 1] /\ Follows(nx, (n - m) + 1, G)
  <2>1. (n - m) + 1 \in Nat \ {0}
    BY <1>1
  <2> HIDE DEF A
  <2> QED BY <2>1, WalkFollows
<1>5. D[new] = WalkIn(nx, fa, m) /\ D[new][1] = fa /\ Follows(nx, m, D[new])
  <2>1. m \in Nat \ {0} /\ D[new] = WalkIn(nx, fa, m)
    OBVIOUS
  <2> QED BY <2>1, WalkFollows
<1>6. ASSUME NEW i \in J \ {new} PROVE M[i] = N[t[i]] /\ D[i] = C[t[i]]
  BY DEF Renames, Along
<1> HIDE DEF F, C, A, G, D
<1>7. SameTo(m + 1, F, A)
  <2>1. m + 1 \in Nat /\ n + 1 \in Nat /\ m + 1 <= n + 1
    BY <1>1
  <2>2. Follows(nx, m + 1, F)
    BY <1>2, <2>1, FollowsPrefix
  <2>3. Agree(nx, nx, m + 1, F)
    BY DEF Agree
  <2> QED BY <1>2, <1>3, <2>1, <2>2, <2>3, SameChain
<1>8. SameTo(m, F, D[new])
  <2>1. n + 1 \in Nat /\ m <= n + 1
    BY <1>1
  <2>2. Follows(nx, m, F)
    BY <1>2, <2>1, FollowsPrefix
  <2>3. Agree(nx, nx, m, F)
    BY DEF Agree
  <2> QED BY <1>2, <1>5, <2>2, <2>3, SameChain
<1>9. Beyond((n - m) + 1, G, m, F)
  <2> DEFINE H == [k \in 1..((n - m) + 1) |-> F[m + k]]
  <2>1. Follows(nx, (n - m) + 1, H)
    <3> DEFINE q == (n - m) + 1
    <3>1. q \in Nat /\ m + q = n + 1
      BY <1>1
    <3>2. H = [k \in 1..q |-> F[m + k]]
      OBVIOUS
    <3> HIDE DEF q, H
    <3>3. Follows(nx, m + q, F)
      BY <1>2, <3>1
    <3>4. Follows(nx, q, [k \in 1..q |-> F[m + k]])
      BY <3>1, <3>3, FollowsShift
    <3> QED BY <3>2, <3>4 DEF q
  <2>2. H[1] = G[1]
    <3>1. 1 \in 1..((n - m) + 1) /\ m + 1 \in 1..(m + 1)
      BY <1>1
    <3> QED BY <1>4, <1>7, <3>1 DEF SameTo
  <2>3. SameTo((n - m) + 1, H, G)
    <3> HIDE DEF H
    <3>1. (n - m) + 1 \in Nat
      BY <1>1
    <3>2. Agree(nx, nx, (n - m) + 1, H)
      BY DEF Agree
    <3> QED BY <1>4, <2>1, <2>2, <3>1, <3>2, SameChain
  <2> QED BY <2>3 DEF SameTo, Beyond
<1>10. SharedOut(G, n - m, J, D, M)
  BY <1>0, <1>6, <1>8, <1>9, TakeOff
<1> QED BY <1>10 DEF Pool, G, D, A
-----------------------------------------------------------------------------
\* The inductive invariant.
TypesInv ==
    /\ objs \in Seq(Objects)
    /\ next \in [Pages -> Pages \cup {NULL}]
    /\ \A a \in Pages : DOMAIN page[a] = Cells
    /\ free_list_addr \in Pages \cup {NULL}
    /\ n_free_pages \in Nat
    /\ tsc \in 0..MaxTsc

PoolInv ==
    Pool(next, free_list_addr, n_freed, Live,
         [i \in Live |-> objs[i].start_addr], [i \in Live |-> PagesNeeded(objs[i].len)])

\* The state of the eviction loop: the objects it has removed are the first
\* ones of ids, the others are still in the order of their use, and its last
\* test was on what is free now.
Jobs == [digest : Digests, payload : Payloads, len : Nat, idx : Nat,
         ids : Bijection(1..n_cur_objects, 1..n_cur_objects),
         n_removed_pages : Nat, n_removed_objects : 0..n_cur_objects,
         still_need_remove : BOOLEAN]

OldestFirst(os, ids, x) ==
    \A k, l \in 1..Len(os) :
        x < k /\ k < l => os[ids[k]].last_used_tsc <= os[ids[l]].last_used_tsc

JobInv ==
    /\ Idle => \A i \in 1..n_cur_objects : objs[i].last_used_tsc # 0
    /\ ~ Idle =>
        /\ job \in Jobs
        /\ PagesNeeded(job.len) <= NPages
        /\ \A i \in 1..n_cur_objects : objs[i].digest # job.digest
        /\ \A k \in 1..n_cur_objects :
              objs[job.ids[k]].last_used_tsc = 0 <=> k <= job.n_removed_objects
        /\ OldestFirst(objs, job.ids, job.n_removed_objects)
        /\ job.still_need_remove <=>
              NeedRemove(PagesNeeded(job.len), n_freed,
                         n_cur_objects - job.n_removed_objects)

\* The arrays of descriptors hold n_max_objects of them.
DescriptorsFit == n_cur_objects <= MaxObjects

CacheInv == TypesInv /\ DescriptorsFit /\ Sorted(objs) /\ PoolInv /\ JobInv

\* A free list is no longer than the pool, and holds all of it when no
\* chain is in use.
LEMMA PoolBound ==
    ASSUME NEW F, NEW n, NEW I, NEW C, NEW N, SharedOut(F, n, I, C, N)
    PROVE  n <= NPages /\ (I = {} => n = NPages)
<1> DEFINE f == [k \in 1..n |-> F[k]]
<1>1. n \in Nat
  BY DEF SharedOut
<1>2. f \in Injection(1..n, Pages)
  BY DEF SharedOut, FreePart, Injection, IsInjective
<1>3. NPages \in Nat /\ IsFiniteSet(1..n) /\ Cardinality(1..n) = n
  BY <1>1, FS_Interval, CacheAssumption
<1>4. IsFiniteSet(Pages) /\ Cardinality(Pages) = NPages
  BY FS_Interval, CacheAssumption DEF Pages
<1>5. I = {} => f \in Surjection(1..n, Pages)
  BY DEF SharedOut, FreePart, Covered, Surjection
<1> HIDE DEF f
<1>6. /\ Cardinality(1..n) <= Cardinality(Pages)
      /\ f \in Surjection(1..n, Pages) => Cardinality(1..n) = Cardinality(Pages)
  BY <1>2, <1>4, FS_Injection
<1> QED BY <1>3, <1>4, <1>5, <1>6

\* The head of the free list is a page unless the list is empty.
LEMMA PoolHead ==
    ASSUME NEW nx, NEW fa, NEW n, NEW I, NEW S, NEW N, Pool(nx, fa, n, I, S, N)
    PROVE  /\ n \in Nat
           /\ fa \in Pages \cup {NULL}
           /\ n >= 1 => fa \in Pages
<1> DEFINE F == WalkIn(nx, fa, n + 1)
<1>1. n \in Nat /\ FreePart(F, n)
  BY DEF Pool, SharedOut
<1>2. n + 1 \in Nat \ {0}
  BY <1>1
<1>3. F[1] = fa
  BY <1>2, WalkFollows
<1> HIDE DEF F
<1>4. CASE n >= 1
  <2>1. 1 \in 1..n
    BY <1>1, <1>4
  <2> QED BY <1>1, <1>3, <2>1 DEF FreePart
<1>5. CASE ~ (n >= 1)
  <2>1. n = 0 /\ n + 1 = 1
    BY <1>1, <1>5
  <2> QED BY <1>1, <1>3, <1>5, <2>1 DEF FreePart
<1> QED BY <1>4, <1>5

\* sort_ids lists every index.
LEMMA InjectionIsBijection ==
    ASSUME NEW L \in Nat, NEW ids \in Injection(1..L, 1..L)
    PROVE  ids \in Bijection(1..L, 1..L)
<1>1. IsFiniteSet(1..L)
  BY FS_Interval
<1>2. ids \in Surjection(1..L, 1..L)
  BY <1>1, FS_Injection
<1> QED BY <1>2 DEF Bijection

\* DuckCache::init establishes the invariant.
LEMMA InitInv == Init => CacheInv
<1> SUFFICES ASSUME Init PROVE CacheInv
  OBVIOUS
<1> DEFINE F == WalkIn(next, 1, NPages + 1)
           g == [k \in 1..(NPages + 1) |-> IF k = NPages + 1 THEN NULL ELSE k]
<1>0. NPages \in Nat /\ NPages >= 2
  BY CacheAssumption
<1>1. objs = << >> /\ n_cur_objects = 0 /\ Live = {} /\ Idle
  BY DEF Init, Live, n_cur_objects, Idle
<1>2. n_freed = NPages
  BY <1>0, <1>1 DEF Init, n_freed
<1>3. TypesInv
  BY <1>0, CacheAssumption DEF Init, TypesInv, Pages, NULL, Cells
<1>4. Sorted(objs)
  BY <1>1 DEF Sorted, n_cur_objects
<1>5. JobInv
  BY <1>1 DEF JobInv
<1>6. SameTo(NPages + 1, g, F)
  <2>1. NPages + 1 \in Nat \ {0} /\ NPages + 1 \in Nat
    BY <1>0
  <2>2. F[1] = 1 /\ Follows(next, NPages + 1, F)
    BY <2>1, WalkFollows
  <2>3. g[1] = 1
    BY <1>0
  <2>4. Follows(next, NPages + 1, g)
    <3> SUFFICES ASSUME NEW k \in 1..((NPages + 1) - 1) PROVE g[k + 1] = Step(next, g[k])
      BY DEF Follows
    <3>1. k \in Pages /\ k # 0 /\ g[k] = k /\ k + 1 \in 1..(NPages + 1)
      BY <1>0 DEF Pages
    <3>2. next[k] = IF k = NPages THEN NULL ELSE k + 1
      BY <3>1 DEF Init
    <3>3. g[k + 1] = IF k = NPages THEN NULL ELSE k + 1
      BY <1>0, <3>1
    <3> QED BY <3>1, <3>2, <3>3 DEF Step, NULL
  <2>5. Agree(next, next, NPages + 1, g)
    BY DEF Agree
  <2> HIDE DEF g, F
  <2> QED BY <2>1, <2>2, <2>3, <2>4, <2>5, SameChain
<1>7. PoolInv
  <2>1. \A k \in 1..NPages : F[k] = k
    <3> HIDE DEF F
    <3> SUFFICES ASSUME NEW k \in 1..NPages PROVE F[k] = k
      OBVIOUS
    <3>1. k \in 1..(NPages + 1) /\ g[k] = k
      BY <1>0
    <3> HIDE DEF g
    <3> QED BY <1>6, <3>1 DEF SameTo
  <2>2. F[NPages + 1] = NULL
    <3> HIDE DEF F
    <3>1. NPages + 1 \in 1..(NPages + 1) /\ g[NPages + 1] = NULL
      BY <1>0
    <3> HIDE DEF g
    <3> QED BY <1>6, <3>1 DEF SameTo
  <2>3. ASSUME NEW C, NEW N PROVE SharedOut(F, NPages, {}, C, N)
    <3> HIDE DEF F
    <3>1. FreePart(F, NPages)
      BY <2>1, <2>2 DEF FreePart, Pages
    <3>2. Covered(F, NPages, {}, C, N)
      BY <2>1 DEF Covered, Pages
    <3> QED BY <1>0, <3>1, <3>2 DEF SharedOut, ChainPart, Apart
  <2>4. free_list_addr = 1
    BY DEF Init
  <2> QED BY <1>1, <1>2, <2>3, <2>4 DEF PoolInv, Pool
<1>8. DescriptorsFit
  BY <1>1, CacheAssumption DEF DescriptorsFit
<1> QED BY <1>3, <1>4, <1>5, <1>7, <1>8 DEF CacheInv

\* The pool does not see a change of the times of last use alone.
LEMMA SamePool ==
    ASSUME PoolInv, Live' = Live, next' = next, free_list_addr' = free_list_addr,
           n_freed' = n_freed,
           \A i \in Live : /\ objs'[i].start_addr = objs[i].start_addr
                           /\ objs'[i].len = objs[i].len
    PROVE  PoolInv'
<1>1. [i \in Live' |-> objs'[i].start_addr] = [i \in Live |-> objs[i].start_addr]
  OBVIOUS
<1>2. [i \in Live' |-> PagesNeeded(objs'[i].len)] = [i \in Live |-> PagesNeeded(objs[i].len)]
  OBVIOUS
<1>3. PoolInv' = Pool(next', free_list_addr', n_freed', Live',
                      [i \in Live' |-> objs'[i].start_addr],
                      [i \in Live' |-> PagesNeeded(objs'[i].len)])
  BY DEF PoolInv
<1> HIDE DEF Live
<1> QED BY <1>1, <1>2, <1>3 DEF PoolInv

\* The calls that return early keep the invariant.
LEMMA CallChangesNothing ==
    ASSUME CacheInv, UNCHANGED <<objs, pool, tsc, job>>
    PROVE  CacheInv'
<1>1. objs' = objs /\ next' = next /\ page' = page /\ free_list_addr' = free_list_addr
      /\ n_free_pages' = n_free_pages /\ tsc' = tsc /\ job' = job
  BY DEF pool
<1>2. Live' = Live /\ n_freed' = n_freed /\ Idle' = Idle /\ n_cur_objects' = n_cur_objects
  BY <1>1 DEF Live, n_freed, Idle, n_cur_objects
<1>3. TypesInv' /\ Sorted(objs)'
  BY <1>1 DEF CacheInv, TypesInv, Sorted
<1>4. PoolInv'
  BY <1>1, <1>2, SamePool DEF CacheInv
<1>5. JobInv'
  BY <1>1, <1>2 DEF CacheInv, JobInv, Jobs
<1>6. DescriptorsFit'
  BY <1>2 DEF CacheInv, DescriptorsFit
<1> QED BY <1>3, <1>4, <1>5, <1>6 DEF CacheInv

\* What the invariant says of one descriptor.
LEMMA ObjectTypes ==
    ASSUME CacheInv
    PROVE  /\ n_cur_objects \in Nat /\ n_cur_objects = Len(objs)
           /\ \A i \in 1..n_cur_objects :
                 /\ objs[i] \in Objects
                 /\ objs[i].digest \in Digests /\ objs[i].digest \in Nat \X Nat
                 /\ objs[i].last_used_tsc \in 0..MaxTsc
                 /\ objs[i].start_addr \in Pages
                 /\ objs[i].len \in Nat
           /\ Live \subseteq 1..n_cur_objects
           /\ Idle => Live = 1..n_cur_objects
<1>1. n_cur_objects \in Nat /\ n_cur_objects = Len(objs)
  BY DEF CacheInv, TypesInv, n_cur_objects
<1>2. \A i \in 1..n_cur_objects : objs[i] \in Objects
  BY <1>1 DEF CacheInv, TypesInv
<1>3. Live \subseteq 1..n_cur_objects
  BY DEF Live
<1>4. Idle => Live = 1..n_cur_objects
  BY DEF Live, CacheInv, JobInv
<1> QED BY <1>1, <1>2, <1>3, <1>4, CacheAssumption DEF Objects

\* Object i stays in its place, and so does its chain.
Stays(i) ==
    /\ objs'[i].digest = objs[i].digest
    /\ objs'[i].start_addr = objs[i].start_addr
    /\ objs'[i].len = objs[i].len
ChainIn(nx, i) == WalkIn(nx, objs[i].start_addr, PagesNeeded(objs[i].len))
ChainStays(i) == SameTo(PagesNeeded(objs[i].len), ChainIn(next, i), ChainIn(next', i))
LiveStay == \A i \in Live' : i \in Live /\ Stays(i) /\ ChainStays(i)

\* A load refreshes a time of use and nothing else.
LEMMA LoadHitKeeps ==
    ASSUME CacheInv, NEW d \in Digests, NEW n \in Lens, LoadHit(d, n)
    PROVE  CacheInv' /\ LiveStay
<1> DEFINE id == find(objs, d).idx
<1>1. /\ Idle /\ id \in 1..n_cur_objects
      /\ tsc' = tsc + 1 /\ tsc' \in 0..MaxTsc /\ tsc' # 0
  <2>1. d \in Nat \X Nat /\ tsc \in 0..MaxTsc /\ MaxTsc \in Nat
    BY CacheAssumption DEF CacheInv, TypesInv
  <2>2. find(objs, d).found /\ tsc < MaxTsc /\ tsc' = tsc + 1 /\ Idle
    BY DEF LoadHit, Idle
  <2>3. id \in 1..n_cur_objects
    BY <2>1, <2>2, FindPlace DEF CacheInv, n_cur_objects
  <2> QED BY <2>1, <2>2, <2>3
<1>2. objs' = [objs EXCEPT ![id].last_used_tsc = tsc']
  BY DEF LoadHit
<1>3. UNCHANGED <<next, page, free_list_addr, n_free_pages, job>>
  BY DEF LoadHit, pool
<1> HIDE DEF id
<1>4. objs' \in Seq(Objects) /\ n_cur_objects' = n_cur_objects
  <2>1. [objs[id] EXCEPT !.last_used_tsc = tsc'] \in Objects
    BY <1>1, ObjectTypes DEF Objects
  <2> QED BY <1>1, <1>2, <2>1 DEF CacheInv, TypesInv, n_cur_objects
<1>5. ASSUME NEW i \in 1..n_cur_objects
      PROVE  /\ objs'[i].digest = objs[i].digest
             /\ objs'[i].start_addr = objs[i].start_addr
             /\ objs'[i].len = objs[i].len
             /\ objs'[i].last_used_tsc # 0
  <2>1. objs[i] \in Objects /\ objs[i].last_used_tsc # 0 /\ i \in 1..Len(objs)
    BY <1>1, ObjectTypes DEF CacheInv, JobInv
  <2>2. CASE i = id
    BY <1>1, <1>2, <2>1, <2>2 DEF Objects, CacheInv, TypesInv
  <2>3. CASE i # id
    BY <1>1, <1>2, <2>1, <2>3 DEF CacheInv, TypesInv
  <2> QED BY <2>2, <2>3
<1>6. Idle' /\ n_freed' = n_freed
  BY <1>1, <1>3 DEF Idle, n_freed
<1>7. Live' = Live
  BY <1>1, <1>4, <1>5, ObjectTypes DEF Live
<1>8. TypesInv'
  BY <1>1, <1>3, <1>4 DEF CacheInv, TypesInv
<1>9. Sorted(objs)'
  <2>1. Len(objs') = Len(objs) /\ n_cur_objects = Len(objs)
    BY <1>4 DEF n_cur_objects
  <2> QED BY <1>5, <2>1 DEF CacheInv, Sorted
<1>10. PoolInv'
  BY <1>3, <1>5, <1>6, <1>7, SamePool, ObjectTypes DEF CacheInv
<1>11. JobInv'
  BY <1>4, <1>5, <1>6 DEF JobInv
<1>12. DescriptorsFit'
  BY <1>4 DEF CacheInv, DescriptorsFit
<1>13. LiveStay
  BY <1>3, <1>5, <1>7, ObjectTypes DEF LiveStay, Stays, ChainStays, SameTo
<1> QED BY <1>8, <1>9, <1>10, <1>11, <1>12, <1>13 DEF CacheInv

\* No object has digest d.
Absent(d) == \A i \in 1..n_cur_objects : objs[i].digest # d

\* A digest that find does not find is the digest of no object.
LEMMA NotFound ==
    ASSUME CacheInv, NEW d \in Digests, ~ find(objs, d).found
    PROVE  Absent(d)
<1> DEFINE x == find(objs, d).idx
<1>1. d \in Nat \X Nat
  BY CacheAssumption
<1>2. /\ x \in 1..(Len(objs) + 1)
      /\ \A i \in 1..Len(objs) : i < x => Less(objs[i].digest, d)
      /\ \A i \in 1..Len(objs) : i >= x => Less(d, objs[i].digest)
  BY <1>1, FindPlace DEF CacheInv
<1> HIDE DEF x
<1>3. \A i \in 1..Len(objs) : Less(objs[i].digest, d) \/ Less(d, objs[i].digest)
  BY <1>2
<1> QED BY <1>1, <1>3, CmpDigest DEF n_cur_objects, Absent

\* Sorting the indices starts the account of the loop.
LEMMA BeginEvictionKeeps ==
    ASSUME CacheInv, NEW d \in Digests, NEW p \in Payloads, NEW n \in Lens,
           BeginEviction(d, p, n)
    PROVE  CacheInv'
<1>1. PICK ids \in SortedByUse :
          job' = [digest |-> d, payload |-> p, len |-> n,
                  idx |-> find(objs, d).idx, ids |-> ids,
                  n_removed_pages |-> 0, n_removed_objects |-> 0, still_need_remove |-> TRUE]
  BY DEF BeginEviction
<1>2. Idle /\ ~ find(objs, d).found /\ PagesNeeded(n) <= NPages
      /\ NeedRemove(PagesNeeded(n), n_free_pages, n_cur_objects)
  BY DEF BeginEviction, Idle
<1>3. UNCHANGED <<objs, next, page, free_list_addr, n_free_pages, tsc>>
  BY DEF BeginEviction, pool
<1>4. n \in Nat /\ d \in Nat \X Nat
  BY CacheAssumption
<1>5. find(objs, d).idx \in Nat /\ \A i \in 1..n_cur_objects : objs[i].digest # d
  <2>1. find(objs, d).idx \in 1..(Len(objs) + 1)
    BY <1>4, FindPlace DEF CacheInv
  <2> QED BY <1>2, <2>1, ObjectTypes, NotFound DEF Absent
<1>6. ids \in Bijection(1..n_cur_objects, 1..n_cur_objects)
  <2>1. ids \in Injection(1..n_cur_objects, 1..n_cur_objects) /\ n_cur_objects \in Nat
    BY ObjectTypes DEF SortedByUse
  <2> QED BY <2>1, InjectionIsBijection
<1>7. ~ Idle'
  BY <1>1 DEF Idle
<1>8. n_freed = n_free_pages /\ n_freed' = n_freed /\ n_cur_objects' = n_cur_objects
  BY <1>1, <1>2, <1>3, <1>7 DEF n_freed, n_cur_objects, CacheInv, TypesInv
<1>9. Live' = Live
  BY <1>3 DEF Live, n_cur_objects
<1>10. TypesInv' /\ Sorted(objs)'
  BY <1>3 DEF CacheInv, TypesInv, Sorted
<1>11. PoolInv'
  BY <1>3, <1>8, <1>9, SamePool DEF CacheInv
<1>12. JobInv'
  <2>1. job' \in Jobs'
    <3>1. 0 \in 0..n_cur_objects
      BY ObjectTypes
    <3> QED BY <1>1, <1>4, <1>5, <1>6, <1>8, <3>1 DEF Jobs
  <2>2. PagesNeeded(job'.len) <= NPages /\ job'.digest = d /\ job'.ids = ids
        /\ job'.n_removed_objects = 0 /\ job'.still_need_remove = TRUE /\ job'.len = n
    BY <1>1, <1>2
  <2>3. ASSUME NEW k \in 1..n_cur_objects PROVE objs[ids[k]].last_used_tsc # 0 /\ ~ (k <= 0)
    BY <1>2, <1>6 DEF CacheInv, JobInv, Bijection, Injection
  <2>4. NeedRemove(PagesNeeded(n), n_freed', n_cur_objects' - 0)
    <3>1. n_cur_objects' - 0 = n_cur_objects
      BY <1>8, ObjectTypes
    <3> QED BY <1>2, <1>8, <3>1
  <2>5. OldestFirst(objs', ids, 0)
    BY <1>3 DEF OldestFirst, SortedByUse, n_cur_objects
  <2> QED BY <1>3, <1>5, <1>7, <1>8, <2>1, <2>2, <2>3, <2>4, <2>5 DEF JobInv
<1>13. DescriptorsFit'
  BY <1>8 DEF CacheInv, DescriptorsFit
<1> QED BY <1>10, <1>11, <1>12, <1>13 DEF CacheInv

\* The loop does not end by an iteration.
LEMMA JobIsNotEmpty ==
    ASSUME NEW A, NEW B, NEW C, NEW j,
           j \in [digest : Digests, payload : Payloads, len : Nat, idx : Nat, ids : A,
                 n_removed_pages : Nat, n_removed_objects : B, still_need_remove : C]
    PROVE  j # << >>
<1>1. j = [digest |-> j.digest, payload |-> j.payload, len |-> j.len, idx |-> j.idx,
           ids |-> j.ids, n_removed_pages |-> j.n_removed_pages,
           n_removed_objects |-> j.n_removed_objects,
           still_need_remove |-> j.still_need_remove]
  OBVIOUS
<1>2. "digest" \in DOMAIN j
  BY <1>1
<1>3. DOMAIN << >> = {}
  OBVIOUS
<1> QED BY <1>2, <1>3

\* One iteration frees one chain and keeps the account.
LEMMA EvictOneKeeps ==
    ASSUME CacheInv, EvictOne
    PROVE  CacheInv' /\ LiveStay
<1> DEFINE x == job.n_removed_objects + 1
           id == job.ids[x]
           m == PagesNeeded(objs[id].len)
           addr == Walk(objs[id].start_addr, m)[m]
           removed == job.n_removed_pages + m
           still == NeedRemove(PagesNeeded(job.len), n_free_pages + removed, n_cur_objects - x)
           S == [i \in Live |-> objs[i].start_addr]
           N == [i \in Live |-> PagesNeeded(objs[i].len)]
<1>1. /\ ~ Idle /\ job.n_removed_objects # n_cur_objects
      /\ objs' = [objs EXCEPT ![id].last_used_tsc = 0]
      /\ next' = LinkToFreeList(addr)
      /\ free_list_addr' = objs[id].start_addr
      /\ job' = [job EXCEPT !.n_removed_pages = removed, !.n_removed_objects = x,
                            !.still_need_remove = still]
      /\ UNCHANGED <<page, n_free_pages, tsc>>
  BY DEF EvictOne, Idle, LoopEnds
<1>2. /\ job \in Jobs
      /\ PagesNeeded(job.len) <= NPages
      /\ \A i \in 1..n_cur_objects : objs[i].digest # job.digest
      /\ \A k \in 1..n_cur_objects :
            objs[job.ids[k]].last_used_tsc = 0 <=> k <= job.n_removed_objects
  BY <1>1 DEF CacheInv, JobInv
<1>3. /\ job.ids \in [1..n_cur_objects -> 1..n_cur_objects]
      /\ \A k, l \in 1..n_cur_objects : job.ids[k] = job.ids[l] => k = l
      /\ job.n_removed_objects \in 0..n_cur_objects /\ job.n_removed_pages \in Nat
      /\ n_free_pages \in Nat
  BY <1>2 DEF Jobs, Bijection, Injection, IsInjective, CacheInv, TypesInv
<1>4. x \in 1..n_cur_objects /\ x \in 0..n_cur_objects /\ id \in 1..n_cur_objects /\ id \in Live
  <2>1. x \in 1..n_cur_objects /\ x \in 0..n_cur_objects /\ ~ (x <= job.n_removed_objects)
    <3>1. job.n_removed_objects # n_cur_objects /\ n_cur_objects \in Nat
      BY <1>1, ObjectTypes
    <3>2. job.n_removed_objects \in 0..n_cur_objects
      BY <1>3
    <3> QED BY <3>1, <3>2
  <2> QED BY <1>2, <1>3, <2>1 DEF Live
<1>5. objs[id] \in Objects /\ m \in Nat /\ m >= 1
  BY <1>4, ObjectTypes, PagesNeededIsPositive
<1>6. /\ n_freed = n_free_pages + job.n_removed_pages
      /\ removed \in Nat /\ n_free_pages + removed = n_freed + m
  <2>1. ~ Idle
    BY <1>1
  <2> HIDE DEF m
  <2> QED BY <1>3, <1>5, <2>1 DEF n_freed
<1>7. /\ job' \in [digest : Digests, payload : Payloads, len : Nat, idx : Nat,
                   ids : Bijection(1..n_cur_objects, 1..n_cur_objects),
                   n_removed_pages : Nat, n_removed_objects : 0..n_cur_objects,
                   still_need_remove : BOOLEAN]
      /\ job'.digest = job.digest /\ job'.len = job.len /\ job'.ids = job.ids
      /\ job'.n_removed_pages = removed /\ job'.n_removed_objects = x
      /\ job'.still_need_remove = still
  <2>1. still \in BOOLEAN
    BY DEF NeedRemove
  <2>2. x \in 0..n_cur_objects /\ removed \in Nat
    BY <1>4, <1>6
  <2> HIDE DEF still, x, removed
  <2> QED BY <1>1, <1>2, <2>1, <2>2 DEF Jobs
<1>8. ~ Idle'
  BY <1>7, JobIsNotEmpty DEF Idle
<1>9. objs' \in Seq(Objects) /\ n_cur_objects' = n_cur_objects
  <2>1. [objs[id] EXCEPT !.last_used_tsc = 0] \in Objects
    BY <1>5, CacheAssumption DEF Objects
  <2> HIDE DEF id
  <2> QED BY <1>1, <1>4, <2>1 DEF CacheInv, TypesInv, n_cur_objects
<1>10. ASSUME NEW i \in 1..n_cur_objects
       PROVE  /\ objs'[i].digest = objs[i].digest
              /\ objs'[i].start_addr = objs[i].start_addr
              /\ objs'[i].len = objs[i].len
              /\ objs'[i].last_used_tsc = IF i = id THEN 0 ELSE objs[i].last_used_tsc
  <2>1. objs[i] \in Objects /\ i \in 1..Len(objs)
    BY ObjectTypes
  <2> HIDE DEF id
  <2>2. CASE i = id
    BY <1>1, <2>1, <2>2 DEF Objects, CacheInv, TypesInv
  <2>3. CASE i # id
    BY <1>1, <2>1, <2>3 DEF CacheInv, TypesInv
  <2> QED BY <2>2, <2>3
<1>11. n_freed' = n_freed + m
  BY <1>1, <1>6, <1>7, <1>8 DEF n_freed
<1>12. Live' = Live \ {id}
  <2> HIDE DEF id
  <2> QED BY <1>9, <1>10 DEF Live
<1>13. PoolInv' /\ LiveStay
  <2>1. Pool(next, free_list_addr, n_freed, Live, S, N) /\ S[id] = objs[id].start_addr /\ N[id] = m
    BY <1>4 DEF CacheInv, PoolInv
  <2> DEFINE R == [i \in Live' |-> objs'[i].start_addr]
             M == [i \in Live' |-> PagesNeeded(objs'[i].len)]
  <2>2. SameOn(Live \ {id}, R, S) /\ SameOn(Live \ {id}, M, N)
    <3> HIDE DEF id
    <3> QED BY <1>10, <1>12, ObjectTypes DEF SameOn
  <2>3. addr = WalkIn(next, S[id], N[id])[N[id]]
    BY <2>1, WalkIsWalkIn
  <2>4. Relinked(next', next, addr, free_list_addr)
    BY <1>1 DEF LinkToFreeList, Relinked
  <2>5. PoolInv' = Pool(next', free_list_addr', n_freed', Live', R, M)
    BY DEF PoolInv
  <2>a. \A i \in Live : S[i] = objs[i].start_addr /\ N[i] = PagesNeeded(objs[i].len)
    OBVIOUS
  <2> HIDE DEF R, M, S, N, addr, m, id
  <2>6. /\ Pool(next', S[id], n_freed + N[id], Live \ {id}, R, M)
        /\ ChainsStay(next, next', Live \ {id}, S, N)
    <3>1. id \in Live
      BY <1>4
    <3>2. Pool(next, free_list_addr, n_freed, Live, S, N)
      BY <2>1
    <3> QED BY <2>2, <2>3, <2>4, <3>1, <3>2, EvictChain
  <2>7. free_list_addr' = S[id] /\ n_freed' = n_freed + N[id]
    BY <1>1, <1>11, <2>1
  <2>8. LiveStay
    BY <1>10, <1>12, <2>6, <2>a, ObjectTypes DEF LiveStay, Stays, ChainsStay, ChainStays, ChainIn
  <2> QED BY <1>12, <2>5, <2>6, <2>7, <2>8
<1>14. TypesInv'
  <2>2. free_list_addr \in Pages \cup {NULL} /\ next \in [Pages -> Pages \cup {NULL}]
    BY DEF CacheInv, TypesInv
  <2> HIDE DEF addr
  <2>3. next' \in [Pages -> Pages \cup {NULL}]
    BY <1>1, <2>2 DEF LinkToFreeList
  <2>4. free_list_addr' \in Pages \cup {NULL}
    BY <1>1, <1>4, ObjectTypes
  <2> QED BY <1>1, <1>9, <2>3, <2>4 DEF CacheInv, TypesInv
<1>15. Sorted(objs)'
  <2>1. Len(objs') = Len(objs) /\ n_cur_objects = Len(objs)
    BY <1>9 DEF n_cur_objects
  <2> QED BY <1>10, <2>1 DEF CacheInv, Sorted
<1>16. JobInv'
  <2>1. job' \in Jobs'
    BY <1>7, <1>9 DEF Jobs
  <2>2. ASSUME NEW k \in 1..n_cur_objects
        PROVE  objs'[job.ids[k]].last_used_tsc = 0 <=> k <= x
    <3>1. job.ids[k] \in 1..n_cur_objects /\ job.ids[k] = id <=> k = x
      BY <1>3, <1>4
    <3>2. k <= x <=> k <= job.n_removed_objects \/ k = x
      BY <1>3
    <3> HIDE DEF id, x
    <3> QED BY <1>2, <1>3, <1>10, <3>1, <3>2
  <2>3. still <=> NeedRemove(PagesNeeded(job.len), n_freed', n_cur_objects - x)
    BY <1>6, <1>11
  <2>4. ASSUME NEW k \in 1..n_cur_objects, NEW l \in 1..n_cur_objects, x < k, k < l
        PROVE  objs'[job.ids[k]].last_used_tsc <= objs'[job.ids[l]].last_used_tsc
    <3>1. job.n_removed_objects < k /\ k # x /\ l # x
      BY <1>3, <2>4
    <3>2. /\ job.ids[k] \in 1..n_cur_objects /\ job.ids[k] # id
          /\ job.ids[l] \in 1..n_cur_objects /\ job.ids[l] # id
      BY <1>3, <1>4, <3>1
    <3>3. objs[job.ids[k]].last_used_tsc <= objs[job.ids[l]].last_used_tsc
      BY <1>1, <2>4, <3>1 DEF CacheInv, JobInv, OldestFirst, n_cur_objects
    <3> HIDE DEF id
    <3> QED BY <1>10, <3>2, <3>3
  <2> HIDE DEF still, x
  <2>5. OldestFirst(objs', job.ids, x)
    BY <1>9, <2>4 DEF OldestFirst, n_cur_objects
  <2> QED BY <1>2, <1>7, <1>8, <1>9, <1>10, <2>1, <2>2, <2>3, <2>5 DEF JobInv
<1>17. DescriptorsFit'
  BY <1>9 DEF CacheInv, DescriptorsFit
<1> QED BY <1>13, <1>14, <1>15, <1>16, <1>17 DEF CacheInv

\* at lists the live objects in their order.
Lists(at, c) ==
    /\ c \in Nat
    /\ DOMAIN at = 1..c
    /\ Renames(at, 1..c, Live)
    /\ \A i, j \in 1..c : i < j => at[i] < at[j]

\* os is what at lists.
Kept(os, at, c) == os = [k \in 1..c |-> objs[at[k]]]

\* The descriptor that store writes.
New(d, n) == [digest |-> d, last_used_tsc |-> tsc', start_addr |-> free_list_addr, len |-> n]

\* The common end of store: os is what the eviction left, and there is room.
EndsWith(c, at, os, d, p, n) ==
    /\ Lists(at, c) /\ Kept(os, at, c)
    /\ d \in Digests /\ p \in Payloads /\ n \in Nat /\ Absent(d)
    /\ PagesNeeded(n) <= n_freed /\ c + 1 <= MaxObjects
    /\ Insert(os, find(os, d).idx, d, p, n, n_freed)
Ends(d, p, n) == \E c, at, os : EndsWith(c, at, os, d, p, n)

\* It keeps the invariant, adds one object and leaves the others.
LEMMA InsertKeeps ==
    ASSUME CacheInv, NEW d, NEW p, NEW n, Ends(d, p, n)
    PROVE  /\ CacheInv'
           /\ \A j \in Live' : objs'[j] = New(d, n) \/ \E i \in Live : objs'[j] = objs[i]
           /\ \E j \in Live' : objs'[j] = New(d, n)
           /\ \A i \in Live : \E j \in Live' : objs'[j] = objs[i]
<1>0. PICK c, at, os : EndsWith(c, at, os, d, p, n)
  BY DEF Ends
<1>a. /\ Lists(at, c) /\ Kept(os, at, c)
      /\ d \in Digests /\ p \in Payloads /\ n \in Nat /\ Absent(d)
      /\ PagesNeeded(n) <= n_freed /\ c + 1 <= MaxObjects
      /\ Insert(os, find(os, d).idx, d, p, n, n_freed)
  BY <1>0 DEF EndsWith
<1> USE <1>a
<1> DEFINE idx == find(os, d).idx
           m == PagesNeeded(n)
           new == New(d, n)
<1>1. /\ tsc < MaxTsc /\ tsc' = tsc + 1 /\ job' = << >> /\ next' = next
      /\ objs' = InsertAt(os, idx, new)
      /\ \A a \in Pages : DOMAIN page'[a] = Cells
      /\ free_list_addr' = Walk(free_list_addr, m + 1)[m + 1]
      /\ n_free_pages' = n_freed - m
  BY DEF Insert, New
<1>2. m \in Nat /\ m >= 1 /\ m <= n_freed
  BY PagesNeededIsPositive
<1>3. n_freed \in Nat /\ free_list_addr \in Pages
  <2>1. n_freed \in Nat /\ (n_freed >= 1 => free_list_addr \in Pages)
    BY PoolHead DEF CacheInv, PoolInv
  <2> HIDE DEF m
  <2> QED BY <1>2, <2>1
<1>4. /\ c \in Nat
      /\ \A k \in 1..c : /\ at[k] \in 1..n_cur_objects /\ at[k] \in Live
                         /\ os[k] = objs[at[k]] /\ os[k] \in Objects
                         /\ os[k].last_used_tsc # 0
  BY ObjectTypes DEF Lists, Renames, Live, Kept
<1>5. os \in Seq(Objects) /\ Len(os) = c
  BY <1>4 DEF Kept
<1>6. Sorted(os)
  <2>1. \A k \in 1..c : os[k].digest \in Nat \X Nat
    BY <1>4, ObjectTypes
  <2>2. ASSUME NEW i \in 1..c, NEW j \in 1..c, i < j PROVE Less(os[i].digest, os[j].digest)
    <3>1. at[i] < at[j] /\ at[i] \in 1..Len(objs) /\ at[j] \in 1..Len(objs)
      BY <1>4, <2>2 DEF Lists, n_cur_objects
    <3> QED BY <1>4, <3>1 DEF CacheInv, Sorted
  <2> QED BY <1>4, <1>5, <2>1, <2>2 DEF Sorted
<1>7. /\ idx \in 1..(c + 1)
      /\ \A i \in 1..c : i < idx => Less(os[i].digest, d)
      /\ \A i \in 1..c : i >= idx => Less(d, os[i].digest)
  <2>1. d \in Nat \X Nat
    BY CacheAssumption
  <2>2. ~ find(os, d).found
    <3>1. find(os, d).found => idx \in 1..c /\ os[idx].digest = d
      BY <1>5, <1>6, <2>1, FindPlace
    <3> QED BY <1>4, <3>1 DEF Absent
  <2> QED BY <1>5, <1>6, <2>1, <2>2, FindPlace
<1>8. new \in Objects
  <2>1. tsc' \in 0..MaxTsc
    BY <1>1, CacheAssumption DEF CacheInv, TypesInv
  <2> QED BY <1>3, <2>1 DEF Objects, New
<1> HIDE DEF idx, m
<1>9. tsc' # 0 /\ tsc' \in 0..MaxTsc
  BY <1>1, CacheAssumption DEF CacheInv, TypesInv
<1>10. new.digest = d /\ new.last_used_tsc # 0 /\ new.start_addr = free_list_addr /\ new.len = n
  BY <1>9 DEF New
<1> HIDE DEF new
<1>11. /\ objs' \in Seq(Objects) /\ Len(objs') = c + 1 /\ objs'[idx] = new
       /\ \A k \in 1..(idx - 1) : objs'[k] = os[k]
       /\ \A k \in (idx + 1)..(c + 1) : objs'[k] = os[k - 1]
  <2>1. idx \in 1..(Len(os) + 1)
    BY <1>5, <1>7
  <2>2. Inserted(InsertAt(os, idx, new), Objects, os, idx, new)
    BY <1>5, <1>8, <2>1, InsertedAt
  <2>3. objs' = InsertAt(os, idx, new) /\ Len(os) = c
    BY <1>1, <1>5
  <2> QED BY <2>2, <2>3 DEF Inserted
<1> DEFINE t == [i \in 1..(c + 1) |-> IF i < idx THEN at[i] ELSE at[i - 1]]
           from(i) == IF i < idx THEN i ELSE i - 1
<1>12. ASSUME NEW i \in 1..(c + 1), i # idx
       PROVE  /\ from(i) \in 1..c /\ t[i] = at[from(i)]
              /\ objs'[i] = os[from(i)] /\ objs'[i] = objs[t[i]]
              /\ i < idx => from(i) < idx
              /\ ~ (i < idx) => from(i) >= idx
  <2>1. CASE i < idx
    <3>1. i \in 1..c /\ i \in 1..(idx - 1)
      BY <1>4, <1>7, <2>1
    <3> QED BY <1>4, <1>11, <2>1, <3>1
  <2>2. CASE ~ (i < idx)
    <3>1. i - 1 \in 1..c /\ i \in (idx + 1)..(c + 1) /\ i - 1 >= idx
      BY <1>4, <1>7, <1>12, <2>2
    <3> QED BY <1>4, <1>11, <2>2, <3>1
  <2> QED BY <2>1, <2>2
<1>13. n_cur_objects' = c + 1 /\ Idle' /\ n_freed' = n_freed - m /\ n_freed - m \in Nat
  BY <1>1, <1>2, <1>3, <1>11 DEF n_cur_objects, Idle, n_freed
<1>14. \A i \in 1..(c + 1) : objs'[i].last_used_tsc # 0
  <2> SUFFICES ASSUME NEW i \in 1..(c + 1) PROVE objs'[i].last_used_tsc # 0
    OBVIOUS
  <2>1. CASE i = idx
    BY <1>10, <1>11, <2>1
  <2>2. CASE i # idx
    BY <1>4, <1>12, <2>2
  <2> QED BY <2>1, <2>2
<1>15. Live' = 1..(c + 1)
  BY <1>13, <1>14 DEF Live
<1>16. Sorted(objs)'
  <2>1. \A i \in 1..(c + 1) : objs'[i].digest \in Nat \X Nat
    <3>1. \A i \in 1..(c + 1) : objs'[i] \in Objects
      BY <1>11
    <3> QED BY <3>1, CacheAssumption DEF Objects
  <2>2. ASSUME NEW i \in 1..(c + 1), NEW j \in 1..(c + 1), i < j
        PROVE  Less(objs'[i].digest, objs'[j].digest)
    <3>1. CASE i = idx
      <4>1. from(j) \in 1..c /\ from(j) >= idx /\ objs'[j] = os[from(j)]
        BY <1>4, <1>7, <1>12, <2>2, <3>1
      <4> HIDE DEF from
      <4> QED BY <1>7, <1>10, <1>11, <3>1, <4>1
    <3>2. CASE j = idx
      <4>1. from(i) \in 1..c /\ from(i) < idx /\ objs'[i] = os[from(i)]
        BY <1>4, <1>7, <1>12, <2>2, <3>2
      <4> HIDE DEF from
      <4> QED BY <1>7, <1>10, <1>11, <3>2, <4>1
    <3>3. CASE i # idx /\ j # idx
      <4>1. /\ from(i) \in 1..c /\ objs'[i] = os[from(i)]
            /\ from(j) \in 1..c /\ objs'[j] = os[from(j)]
        BY <1>12, <3>3
      <4>2. from(i) < from(j)
        BY <1>4, <1>7, <2>2, <3>3
      <4> HIDE DEF from
      <4> QED BY <1>5, <1>6, <4>1, <4>2 DEF Sorted
    <3> QED BY <3>1, <3>2, <3>3
  <2> QED BY <1>4, <1>11, <2>1, <2>2 DEF Sorted
<1>17. Renames(t, (1..(c + 1)) \ {idx}, Live)
  <2>1. \A i \in (1..(c + 1)) \ {idx} : t[i] \in Live
    <3> HIDE DEF t, from
    <3> QED BY <1>4, <1>12
  <2>2. ASSUME NEW i \in (1..(c + 1)) \ {idx}, NEW j \in (1..(c + 1)) \ {idx}, t[i] = t[j]
        PROVE  i = j
    <3>1. from(i) = from(j)
      <4>1. i \in 1..(c + 1) /\ i # idx /\ j \in 1..(c + 1) /\ j # idx
        OBVIOUS
      <4>2. from(i) \in 1..c /\ t[i] = at[from(i)]
        BY <1>12, <4>1
      <4>3. from(j) \in 1..c /\ t[j] = at[from(j)]
        BY <1>12, <4>1
      <4> HIDE DEF t, from
      <4>4. at[from(i)] = at[from(j)]
        BY <2>2, <4>2, <4>3
      <4> QED BY <4>2, <4>3, <4>4 DEF Lists, Renames
    <3> QED BY <1>4, <1>7, <3>1
  <2>3. ASSUME NEW l \in Live PROVE \E j \in (1..(c + 1)) \ {idx} : t[j] = l
    <3>1. PICK k \in 1..c : at[k] = l
      BY DEF Lists, Renames
    <3>2. CASE k < idx
      <4>1. k \in (1..(c + 1)) \ {idx} /\ t[k] = at[k]
        BY <1>4, <1>7, <3>2
      <4> QED BY <3>1, <4>1
    <3>3. CASE ~ (k < idx)
      <4>1. k + 1 \in (1..(c + 1)) \ {idx} /\ ~ (k + 1 < idx) /\ (k + 1) - 1 = k
        BY <1>4, <1>7, <3>3
      <4>2. t[k + 1] = at[k]
        BY <4>1
      <4> QED BY <3>1, <4>1, <4>2
    <3> QED BY <3>2, <3>3
  <2> HIDE DEF t
  <2> QED BY <2>1, <2>2, <2>3 DEF Renames
<1>18. PoolInv'
  <2> DEFINE S == [i \in Live |-> objs[i].start_addr]
             N == [i \in Live |-> PagesNeeded(objs[i].len)]
             R == [i \in Live' |-> objs'[i].start_addr]
             M == [i \in Live' |-> PagesNeeded(objs'[i].len)]
             J == 1..(c + 1)
  <2>1. Pool(next, free_list_addr, n_freed, Live, S, N)
    BY DEF CacheInv, PoolInv
  <2>2. PoolInv' = Pool(next', free_list_addr', n_freed', Live', R, M)
    BY DEF PoolInv
  <2>3. R[idx] = free_list_addr /\ M[idx] = m
    BY <1>7, <1>10, <1>11, <1>15 DEF m
  <2>4. Along(J \ {idx}, R, t, S) /\ Along(J \ {idx}, M, t, N)
    <3> SUFFICES ASSUME NEW i \in J \ {idx} PROVE R[i] = S[t[i]] /\ M[i] = N[t[i]]
      BY DEF Along
    <3>1. objs'[i] = objs[t[i]]
      BY <1>12
    <3>2. t[i] \in Live /\ i \in Live'
      BY <1>15, <1>17 DEF Renames
    <3> HIDE DEF t, from
    <3> QED BY <3>1, <3>2
  <2>5. idx \in J
    BY <1>7
  <2>6. free_list_addr' = WalkIn(next, free_list_addr, m + 1)[m + 1]
    BY <1>1, WalkIsWalkIn
  <2>7. Renames(t, J \ {idx}, Live)
    BY <1>17
  <2> HIDE DEF S, N, R, M, J, t, from
  <2>8. Pool(next, WalkIn(next, free_list_addr, m + 1)[m + 1], n_freed - m, J, R, M)
    BY <1>2, <2>1, <2>3, <2>4, <2>5, <2>7, TakeChain
  <2> QED BY <1>1, <1>13, <1>15, <2>2, <2>6, <2>8 DEF J
<1>19. TypesInv'
  <2>1. free_list_addr' \in Pages \cup {NULL}
    BY <1>18, PoolHead DEF PoolInv
  <2> QED BY <1>1, <1>9, <1>11, <1>13, <2>1 DEF CacheInv, TypesInv
<1>20. JobInv'
  BY <1>13, <1>14 DEF JobInv
<1>21. DescriptorsFit'
  BY <1>13 DEF DescriptorsFit
<1>22. ASSUME NEW j \in Live' PROVE objs'[j] = new \/ \E i \in Live : objs'[j] = objs[i]
  <2>1. CASE j = idx
    BY <1>11, <2>1
  <2>2. CASE j # idx
    <3>1. j \in 1..(c + 1) /\ j \in (1..(c + 1)) \ {idx}
      BY <1>15, <2>2
    <3>2. objs'[j] = objs[t[j]] /\ t[j] \in Live
      BY <1>12, <1>17, <2>2, <3>1 DEF Renames
    <3> QED BY <3>2
  <2> QED BY <2>1, <2>2
<1>23. \E j \in Live' : objs'[j] = new
  BY <1>7, <1>11, <1>15
<1>24. CacheInv'
  BY <1>16, <1>18, <1>19, <1>20, <1>21 DEF CacheInv
<1>25. ASSUME NEW i \in Live PROVE \E j \in Live' : objs'[j] = objs[i]
  <2>1. PICK j \in (1..(c + 1)) \ {idx} : t[j] = i
    BY <1>17 DEF Renames
  <2>2. j \in 1..(c + 1) /\ j # idx
    OBVIOUS
  <2>3. objs'[j] = objs[t[j]]
    BY <1>12, <2>2
  <2> QED BY <1>15, <2>1, <2>2, <2>3
<1> HIDE DEF t
<1> QED BY <1>22, <1>23, <1>24, <1>25 DEF new

\* A store without eviction is the common end with every object kept.
LEMMA StoreFitsEnds ==
    ASSUME CacheInv, NEW d \in Digests, NEW p \in Payloads, NEW n \in Lens,
           StoreFits(d, p, n)
    PROVE  Ends(d, p, n)
<1> DEFINE L == n_cur_objects
           at == [k \in 1..L |-> k]
<1>1. /\ Idle /\ ~ find(objs, d).found
      /\ ~ NeedRemove(PagesNeeded(n), n_free_pages, n_cur_objects)
      /\ Insert(objs, find(objs, d).idx, d, p, n, n_free_pages)
  BY DEF StoreFits, Idle
<1>2. n \in Nat /\ n_freed = n_free_pages /\ n_free_pages \in Nat
  BY <1>1, CacheAssumption DEF n_freed, CacheInv, TypesInv
<1>3. PagesNeeded(n) <= n_freed
  BY <1>1, <1>2, PagesNeededIsPositive DEF NeedRemove
<1>4. Lists(at, L)
  <2>1. L \in Nat /\ Live = 1..L
    BY <1>1, ObjectTypes
  <2> HIDE DEF L
  <2> QED BY <2>1 DEF Lists, Renames
<1>5. Kept(objs, at, L)
  BY ObjectTypes DEF CacheInv, TypesInv, Kept
<1>6. Absent(d)
  BY <1>1, NotFound
<1>7. Insert(objs, find(objs, d).idx, d, p, n, n_freed)
  BY <1>1, <1>2
<1>8. L + 1 <= MaxObjects
  BY <1>1, ObjectTypes, CacheAssumption DEF NeedRemove
<1> HIDE DEF at, L
<1>9. EndsWith(L, at, objs, d, p, n)
  BY <1>2, <1>3, <1>4, <1>5, <1>6, <1>7, <1>8 DEF EndsWith
<1> QED BY <1>9 DEF Ends

\* When the loop ends there is room: either its last test said so, or it has
\* removed every object and the whole pool is free.
LEMMA RoomHolds == CacheInv => RoomAfterEviction
<1> SUFFICES ASSUME CacheInv, ~ Idle, LoopEnds
             PROVE  ~ NeedRemove(PagesNeeded(job.len), n_freed,
                                 n_cur_objects - job.n_removed_objects)
  BY DEF RoomAfterEviction
<1>1. /\ job \in Jobs
      /\ PagesNeeded(job.len) <= NPages
      /\ \A k \in 1..n_cur_objects :
            objs[job.ids[k]].last_used_tsc = 0 <=> k <= job.n_removed_objects
      /\ job.still_need_remove <=>
            NeedRemove(PagesNeeded(job.len), n_freed, n_cur_objects - job.n_removed_objects)
  BY DEF CacheInv, JobInv
<1>2. CASE ~ job.still_need_remove
  BY <1>1, <1>2
<1>3. CASE job.n_removed_objects = n_cur_objects
  <2>1. n_cur_objects \in Nat
    BY ObjectTypes
  <2>2. Live = {}
    <3> SUFFICES ASSUME NEW i \in 1..n_cur_objects PROVE objs[i].last_used_tsc = 0
      BY DEF Live
    <3>1. PICK k \in 1..n_cur_objects : job.ids[k] = i
      BY <1>1 DEF Jobs, Bijection, Surjection
    <3>2. k <= job.n_removed_objects
      BY <1>3, <2>1
    <3> QED BY <1>1, <3>1, <3>2
  <2>3. n_freed = NPages
    BY <2>2, PoolBound DEF CacheInv, PoolInv, Pool
  <2>4. PagesNeeded(job.len) \in Nat
    BY <1>1, PagesNeededIsPositive DEF Jobs
  <2> QED BY <1>1, <1>3, <2>1, <2>3, <2>4, CacheAssumption DEF NeedRemove
<1> QED BY <1>2, <1>3 DEF LoopEnds

\* The loop has left as many objects as it has not removed.
LEMMA LiveCount ==
    ASSUME CacheInv, ~ Idle
    PROVE  Cardinality(Live) = n_cur_objects - job.n_removed_objects
<1> DEFINE L == n_cur_objects
           x == job.n_removed_objects
           g == [k \in 1..(L - x) |-> job.ids[x + k]]
<1>1. /\ L \in Nat /\ x \in 0..L /\ L - x \in Nat
      /\ job.ids \in Bijection(1..L, 1..L)
      /\ \A k \in 1..L : objs[job.ids[k]].last_used_tsc = 0 <=> k <= x
  <2>1. job \in Jobs /\ L \in Nat
    BY ObjectTypes DEF CacheInv, JobInv
  <2>2. x \in 0..L /\ job.ids \in Bijection(1..L, 1..L)
    BY <2>1 DEF Jobs
  <2>3. L - x \in Nat
    BY <2>1, <2>2
  <2> QED BY <2>1, <2>2, <2>3 DEF CacheInv, JobInv
<1>2. /\ \A k \in 1..L : job.ids[k] \in 1..L
      /\ \A k, l \in 1..L : job.ids[k] = job.ids[l] => k = l
      /\ \A i \in 1..L : \E k \in 1..L : job.ids[k] = i
  BY <1>1 DEF Bijection, Injection, Surjection, IsInjective
<1>3. Live = {i \in 1..L : objs[i].last_used_tsc # 0}
  BY DEF Live
<1> HIDE DEF L, x
<1>4. \A k \in 1..(L - x) : x + k \in 1..L /\ ~ (x + k <= x)
  BY <1>1
<1>5. g \in [1..(L - x) -> Live]
  <2> SUFFICES ASSUME NEW k \in 1..(L - x) PROVE job.ids[x + k] \in Live
    OBVIOUS
  <2> DEFINE y == x + k
  <2>1. y \in 1..L /\ ~ (y <= x)
    BY <1>4
  <2> HIDE DEF y
  <2>2. job.ids[y] \in Live
    BY <1>1, <1>2, <1>3, <2>1
  <2> QED BY <2>2 DEF y
<1>6. ASSUME NEW k \in 1..(L - x), NEW l \in 1..(L - x), g[k] = g[l] PROVE k = l
  <2>1. x + k = x + l
    BY <1>2, <1>4, <1>6
  <2> QED BY <1>1, <2>1
<1>7. ASSUME NEW i \in Live PROVE \E k \in 1..(L - x) : g[k] = i
  <2>1. PICK k \in 1..L : job.ids[k] = i
    BY <1>2, <1>3
  <2>2. ~ (k <= x)
    BY <1>1, <1>3, <2>1
  <2>3. k - x \in 1..(L - x) /\ x + (k - x) = k
    BY <1>1, <2>2
  <2> QED BY <2>1, <2>3
<1> HIDE DEF g
<1>8. g \in Bijection(1..(L - x), Live)
  BY <1>5, <1>6, <1>7 DEF Bijection, Injection, Surjection, IsInjective
<1>9. Cardinality(Live) = L - x
  BY <1>1, <1>8, FS_CountingElements DEF ExistsBijection
<1> QED BY <1>9 DEF L, x

\* A store with eviction is the common end with the live objects kept.
LEMMA FinishStoreEnds ==
    ASSUME CacheInv, FinishStore
    PROVE  Ends(job.digest, job.payload, job.len)
<1> DEFINE c == Cardinality(Live)
<1>1. ~ Idle /\ LoopEnds
  BY DEF FinishStore, Idle
<1>2. PICK at \in Defrag :
          Insert([k \in DOMAIN at |-> objs[at[k]]],
                 InsertionPoint([k \in DOMAIN at |-> objs[at[k]]], job),
                 job.digest, job.payload, job.len, n_free_pages + job.n_removed_pages)
  BY DEF FinishStore
<1>3. /\ job.digest \in Digests /\ job.payload \in Payloads /\ job.len \in Nat
      /\ Absent(job.digest)
  BY <1>1 DEF CacheInv, JobInv, Jobs, Absent
<1>4. n_freed = n_free_pages + job.n_removed_pages
  BY <1>1 DEF n_freed
<1>5. c \in Nat
  <2>1. n_cur_objects \in Nat /\ Live \in SUBSET (1..n_cur_objects)
    BY ObjectTypes
  <2>2. IsFiniteSet(1..n_cur_objects)
    BY <2>1, FS_Interval
  <2>3. IsFiniteSet(Live)
    BY <2>1, <2>2, FS_Subset
  <2> QED BY <2>3, FS_CardinalityType
<1>6. DOMAIN at = 1..c /\ Lists(at, c)
  <2>1. /\ at \in [1..c -> Live]
        /\ \A i, j \in 1..c : at[i] = at[j] => i = j
        /\ \A l \in Live : \E k \in 1..c : at[k] = l
        /\ \A i, j \in 1..c : i < j => at[i] < at[j]
    BY DEF Defrag, Bijection, Injection, Surjection, IsInjective
  <2> HIDE DEF c
  <2> QED BY <1>5, <2>1 DEF Lists, Renames
<1> DEFINE os == [k \in 1..c |-> objs[at[k]]]
<1>7. Insert(os, find(os, job.digest).idx, job.digest, job.payload, job.len, n_freed)
  BY <1>2, <1>4, <1>6 DEF InsertionPoint
<1>8. PagesNeeded(job.len) <= n_freed
  <2>1. ~ NeedRemove(PagesNeeded(job.len), n_freed, n_cur_objects - job.n_removed_objects)
    BY <1>1, RoomHolds DEF RoomAfterEviction
  <2>2. PagesNeeded(job.len) \in Nat /\ n_freed \in Nat
    BY <1>3, PagesNeededIsPositive, PoolHead DEF CacheInv, PoolInv
  <2> QED BY <2>1, <2>2 DEF NeedRemove
<1>9. Kept(os, at, c)
  BY DEF Kept
<1>10. c + 1 <= MaxObjects
  <2>1. ~ NeedRemove(PagesNeeded(job.len), n_freed, n_cur_objects - job.n_removed_objects)
    BY <1>1, RoomHolds DEF RoomAfterEviction
  <2>2. c = n_cur_objects - job.n_removed_objects
    BY <1>1, LiveCount
  <2> HIDE DEF c
  <2> QED BY <1>5, <2>1, <2>2, CacheAssumption DEF NeedRemove
<1> HIDE DEF os, c
<1>11. EndsWith(c, at, os, job.digest, job.payload, job.len)
  BY <1>3, <1>6, <1>7, <1>8, <1>9, <1>10 DEF EndsWith
<1> QED BY <1>11 DEF Ends

\* Every step of the cache preserves the invariant.
LEMMA NextInv == CacheInv /\ [Next]_vars => CacheInv'
<1> SUFFICES ASSUME CacheInv, [Next]_vars PROVE CacheInv'
  OBVIOUS
<1>1. ASSUME NEW d \in Digests, NEW n \in Lens, Load(d, n) PROVE CacheInv'
  <2>1. CASE LoadMiss(d, n)
    BY <2>1, CallChangesNothing DEF LoadMiss
  <2>2. CASE LoadHit(d, n)
    BY <2>2, LoadHitKeeps
  <2> QED BY <1>1, <2>1, <2>2 DEF Load
<1>2. ASSUME NEW d \in Digests, NEW p \in Payloads, NEW n \in Lens, Store(d, p, n)
      PROVE  CacheInv'
  <2>1. CASE StoreHit(d)
    BY <2>1, CallChangesNothing DEF StoreHit
  <2>2. CASE StoreTooBig(d, n)
    BY <2>2, CallChangesNothing DEF StoreTooBig
  <2>3. CASE StoreFits(d, p, n)
    BY <2>3, StoreFitsEnds, InsertKeeps
  <2>4. CASE BeginEviction(d, p, n)
    BY <2>4, BeginEvictionKeeps
  <2> QED BY <1>2, <2>1, <2>2, <2>3, <2>4 DEF Store
<1>3. CASE EvictOne
  BY <1>3, EvictOneKeeps
<1>4. CASE FinishStore
  BY <1>4, FinishStoreEnds, InsertKeeps
<1>5. CASE UNCHANGED vars
  BY <1>5, CallChangesNothing DEF vars, pool
<1> QED BY <1>1, <1>2, <1>3, <1>4, <1>5 DEF Next

\* In every state of every cache, whatever the number of pages, the size of
\* a page and the number of descriptors: the types, the order of the
\* descriptors, the sharing out of the pages and the account that the
\* eviction loop of DuckCache::store keeps.
THEOREM CacheCorrect == Spec => []CacheInv
<1>1. Init => CacheInv
  BY InitInv
<1>2. CacheInv /\ [Next]_vars => CacheInv'
  BY NextInv
<1> QED BY <1>1, <1>2, PTL DEF Spec

\* A chain without repetition has as many pages as addresses.
LEMMA PagesNumbered ==
    ASSUME NEW n \in Nat, NEW f, \A k, l \in 1..n : f[k] = f[l] => k = l
    PROVE  Cardinality({f[k] : k \in 1..n}) = n
<1> DEFINE T == {f[k] : k \in 1..n}
           g == [k \in 1..n |-> f[k]]
<1>1. g \in Bijection(1..n, T)
  BY DEF Bijection, Injection, Surjection, IsInjective
<1> HIDE DEF T, g
<1>2. ExistsBijection(1..n, T)
  BY <1>1 DEF ExistsBijection
<1> QED BY <1>2, FS_CountingElements DEF T

\* TypeOK: descriptors, links, the pages' sizes, the free count and the clock
\* of DuckCache stay in their ranges.
THEOREM CacheTypes == Spec => []TypeOK
<1>1. CacheInv => TypeOK
  <2> SUFFICES ASSUME CacheInv PROVE TypeOK
    OBVIOUS
  <2>1. n_freed \in Nat /\ n_freed <= NPages
    <3>1. n_freed \in Nat
      BY PoolHead DEF CacheInv, PoolInv
    <3>2. n_freed <= NPages
      BY PoolBound DEF CacheInv, PoolInv, Pool
    <3> QED BY <3>1, <3>2
  <2>2. n_free_pages \in Nat
    BY DEF CacheInv, TypesInv
  <2>3. n_free_pages \in 0..NPages
    <3>1. CASE Idle
      BY <2>1, <2>2, <3>1, CacheAssumption DEF n_freed
    <3>2. CASE ~ Idle
      <4>1. job.n_removed_pages \in Nat
        BY <3>2 DEF CacheInv, JobInv, Jobs
      <4> QED BY <2>1, <2>2, <3>2, <4>1, CacheAssumption DEF n_freed
    <3> QED BY <3>1, <3>2
  <2>4. \A i \in 1..Len(objs) : objs[i] \in Objects
    BY ObjectTypes
  <2> QED BY <2>3, <2>4 DEF CacheInv, TypesInv, TypeOK
<1> QED BY <1>1, CacheCorrect, PTL

\* SortedByDigest: the binary searches of DuckCache::find always work on
\* descriptors strictly sorted by digest.
THEOREM CacheSorted == Spec => []SortedByDigest
<1>1. CacheInv => SortedByDigest
  BY CmpDigest DEF CacheInv, Sorted, SortedByDigest, n_cur_objects
<1> QED BY <1>1, CacheCorrect, PTL

\* RoomAfterEviction: when the eviction loop of DuckCache::store ends, the
\* pages and the descriptor it was to make room for are there.
THEOREM CacheHasRoom == Spec => []RoomAfterEviction
BY CacheCorrect, RoomHolds, PTL

\* DescriptorsFit: DuckCache::store never fills more descriptors than the
\* arrays that DuckCache::init laid out have.
THEOREM CacheFits == Spec => []DescriptorsFit
<1>1. CacheInv => DescriptorsFit
  BY DEF CacheInv
<1> QED BY <1>1, CacheCorrect, PTL

\* PagesPartitioned: the free list and the chains of the objects in use are
\* always a partition of the pages, so no page is lost, shared or met twice.
THEOREM CachePages == Spec => []PagesPartitioned
<1>1. CacheInv => PagesPartitioned
  <2> SUFFICES ASSUME CacheInv PROVE PagesPartitioned
    OBVIOUS
  <2> DEFINE n == n_freed
             F == FreeChain
             N == [i \in Live |-> PagesNeeded(objs[i].len)]
             S == [i \in Live |-> objs[i].start_addr]
             C == [i \in Live |-> WalkIn(next, S[i], N[i])]
  <2>1. F = WalkIn(next, free_list_addr, n + 1)
    BY WalkIsWalkIn DEF FreeChain
  <2>2. SharedOut(F, n, Live, C, N)
    BY <2>1 DEF CacheInv, PoolInv, Pool
  <2>3. ASSUME NEW i \in Live
        PROVE  /\ N[i] = PagesNeeded(objs[i].len) /\ N[i] \in Nat \ {0}
               /\ Chain(i) = C[i] /\ DOMAIN C[i] = 1..N[i]
    <3>1. N[i] = PagesNeeded(objs[i].len) /\ S[i] = objs[i].start_addr /\ N[i] \in Nat \ {0}
      BY <2>2 DEF SharedOut, ChainPart
    <3>2. Chain(i) = WalkIn(next, S[i], N[i])
      BY <3>1, WalkIsWalkIn DEF Chain
    <3>3. C[i] = WalkIn(next, S[i], N[i])
      OBVIOUS
    <3> QED BY <3>1, <3>2, <3>3, WalkFollows
  <2>4. FreePages = {F[k] : k \in 1..n}
    BY DEF FreePages
  <2> HIDE DEF F, N, S, C, n
  <2>5. \A i \in Live : PagesOf(i) = {C[i][k] : k \in 1..N[i]}
    BY <2>3 DEF PagesOf
  <2>6. F[n + 1] = NULL /\ n \in Nat
    BY <2>2 DEF SharedOut, FreePart
  <2>7. Cardinality(FreePages) = n
    BY <2>2, <2>4, <2>6, PagesNumbered DEF SharedOut, FreePart
  <2>8. ASSUME NEW i \in Live PROVE Cardinality(PagesOf(i)) = PagesNeeded(objs[i].len)
    <3>1. N[i] \in Nat /\ \A k, l \in 1..N[i] : C[i][k] = C[i][l] => k = l
      BY <2>2, <2>3 DEF SharedOut, ChainPart
    <3>2. Cardinality({C[i][k] : k \in 1..N[i]}) = N[i]
      BY <3>1, PagesNumbered
    <3> QED BY <2>3, <2>5, <3>2
  <2>9. \A i \in Live : PagesOf(i) \cap FreePages = {}
    BY <2>2, <2>4, <2>5 DEF SharedOut, Apart
  <2>10. \A i, j \in Live : i # j => PagesOf(i) \cap PagesOf(j) = {}
    BY <2>2, <2>5 DEF SharedOut, Apart
  <2>11. FreePages \cup UNION {PagesOf(i) : i \in Live} = Pages
    <3>1. FreePages \subseteq Pages
      BY <2>2, <2>4 DEF SharedOut, FreePart
    <3>2. \A i \in Live : PagesOf(i) \subseteq Pages
      BY <2>2, <2>5 DEF SharedOut, ChainPart
    <3>3. ASSUME NEW a \in Pages PROVE a \in FreePages \/ \E i \in Live : a \in PagesOf(i)
      BY <2>2, <2>4, <2>5 DEF SharedOut, Covered
    <3> QED BY <3>1, <3>2, <3>3
  <2>12. FreeChain[n_freed + 1] = NULL /\ Cardinality(FreePages) = n_freed
    BY <2>6, <2>7 DEF F, n
  <2> QED BY <2>8, <2>9, <2>10, <2>11, <2>12 DEF PagesPartitioned
<1> QED BY <1>1, CacheCorrect, PTL
-----------------------------------------------------------------------------
\* What the pages hold.

\* The page of a chain, and the cell of it, that hold byte b.
PageOf(b) == ((b - 1) \div ContentSize) + 1
CellOf(b) == ((b - 1) % ContentSize) + 1

\* Division by the size of a page.
LEMMA Division ==
    ASSUME NEW x \in Nat
    PROVE  /\ x \div ContentSize \in Nat
           /\ x % ContentSize \in 0..(ContentSize - 1)
           /\ x = ContentSize * (x \div ContentSize) + (x % ContentSize)
BY CacheAssumption

\* Quotients are monotonic.
LEMMA QuotientsGrow ==
    ASSUME NEW x \in Int, NEW y \in Int, ContentSize * x < ContentSize * y
    PROVE  x < y
<1>1. ContentSize \in Int /\ ContentSize > 0
  BY CacheAssumption
<1> QED BY <1>1

\* The pages that are copied are among those that are needed.
LEMMA CopiedFit ==
    ASSUME NEW len \in Nat
    PROVE  /\ (len + ContentSize - 1) \div ContentSize \in Nat
           /\ (len + ContentSize - 1) \div ContentSize <= PagesNeeded(len)
<1> DEFINE z == (len + ContentSize - 1) \div ContentSize
<1>1. z \in Nat
  <2>1. len + ContentSize - 1 \in Nat
    BY CacheAssumption
  <2> QED BY <2>1, Division
<1>2. PagesNeeded(len) = Max({z, 1})
  BY DEF PagesNeeded
<1> HIDE DEF z
<1>3. \E x \in {z, 1} : \A y \in {z, 1} : x >= y
  BY <1>1
<1>4. \A y \in {z, 1} : Max({z, 1}) >= y
  BY <1>3 DEF Max
<1>5. PagesNeeded(len) >= z
  BY <1>2, <1>4
<1> QED BY <1>1, <1>5, PagesNeededIsPositive DEF z

\* Every byte of a content has a page among those that are copied, which are
\* among those that are needed.
LEMMA ByteIsPlaced ==
    ASSUME NEW len \in Nat, NEW b \in 1..len
    PROVE  /\ PageOf(b) \in 1..((len + ContentSize - 1) \div ContentSize)
           /\ PageOf(b) \in 1..PagesNeeded(len)
           /\ CellOf(b) \in Cells
           /\ (PageOf(b) - 1) * ContentSize + CellOf(b) = b
<1> DEFINE D == ContentSize
           q == (b - 1) \div D
           z == (len + D - 1) \div D
<1>1. D \in Nat /\ D >= 1 /\ b - 1 \in Nat /\ len + D - 1 \in Nat
  BY CacheAssumption
<1>2. q \in Nat /\ (b - 1) % D \in 0..(D - 1) /\ b - 1 = D * q + ((b - 1) % D)
  BY <1>1, Division
<1>3. z \in Nat /\ (len + D - 1) % D \in 0..(D - 1) /\ len + D - 1 = D * z + ((len + D - 1) % D)
  BY <1>1, Division
<1> HIDE DEF q, z
<1>4. D * (q + 1) < D * (z + 1)
  <2>1. D * (q + 1) = D * q + D /\ D * (z + 1) = D * z + D
    BY <1>1, <1>2, <1>3
  <2> QED BY <1>1, <1>2, <1>3, <2>1
<1>5. q + 1 < z + 1
  <2>1. q + 1 \in Int /\ z + 1 \in Int
    BY <1>2, <1>3
  <2> QED BY <1>4, <2>1, QuotientsGrow
<1>6. q + 1 \in 1..z
  BY <1>2, <1>3, <1>5
<1>7. PagesNeeded(len) \in Nat /\ z <= PagesNeeded(len)
  BY CopiedFit, PagesNeededIsPositive DEF z
<1>8. PageOf(b) = q + 1 /\ CellOf(b) = ((b - 1) % D) + 1
  BY DEF PageOf, CellOf, q
<1>9. (PageOf(b) - 1) * D + CellOf(b) = b
  <2> DEFINE y == D * q
             r == (b - 1) % D
  <2>1. y \in Nat /\ r \in Nat /\ b - 1 = y + r /\ CellOf(b) = r + 1
    BY <1>1, <1>2, <1>8
  <2>2. (PageOf(b) - 1) * D = y
    BY <1>1, <1>2, <1>8
  <2> HIDE DEF y, r
  <2>3. y + (r + 1) = b
    BY <2>1
  <2> QED BY <2>1, <2>2, <2>3
<1> QED BY <1>1, <1>2, <1>3, <1>6, <1>7, <1>8, <1>9 DEF Cells, z

\* The content of o in pages pg linked by nx, as Content has it.
ContentIn(nx, pg, o) ==
    [i \in 1..o.len |->
        LET addr == WalkIn(nx, o.start_addr, PagesNeeded(o.len))[PageOf(i)]
        IN  IF addr = NULL THEN Unwritten ELSE pg[addr][CellOf(i)]]

\* It depends on the cells of its chain only.
LEMMA SameContent ==
    ASSUME NEW nx, NEW ny, NEW pg, NEW pp, NEW o, NEW u,
           o.len \in Nat, u.len = o.len, u.start_addr = o.start_addr,
           NEW V, V = WalkIn(nx, o.start_addr, PagesNeeded(o.len)),
           SameTo(PagesNeeded(o.len), V, WalkIn(ny, o.start_addr, PagesNeeded(o.len))),
           \A k \in 1..PagesNeeded(o.len) : \A x \in Cells : pg[V[k]][x] = pp[V[k]][x]
    PROVE  ContentIn(nx, pg, o) = ContentIn(ny, pp, u)
<1> DEFINE W == WalkIn(ny, o.start_addr, PagesNeeded(o.len))
<1>1. ASSUME NEW b \in 1..o.len
      PROVE  /\ V[PageOf(b)] = W[PageOf(b)]
             /\ pg[V[PageOf(b)]][CellOf(b)] = pp[V[PageOf(b)]][CellOf(b)]
  <2>1. PageOf(b) \in 1..PagesNeeded(o.len) /\ CellOf(b) \in Cells
    BY ByteIsPlaced
  <2> HIDE DEF W
  <2> QED BY <2>1 DEF SameTo, W
<1>2. ContentIn(nx, pg, o) = [b \in 1..o.len |-> IF V[PageOf(b)] = NULL THEN Unwritten
                                                 ELSE pg[V[PageOf(b)]][CellOf(b)]]
  BY DEF ContentIn
<1>3. ContentIn(ny, pp, u) = [b \in 1..o.len |-> IF W[PageOf(b)] = NULL THEN Unwritten
                                                 ELSE pp[W[PageOf(b)]][CellOf(b)]]
  BY DEF ContentIn
<1> HIDE DEF W
<1> QED BY <1>1, <1>2, <1>3

\* Content is ContentIn in the current and in the next state.
LEMMA ContentIsContentIn ==
    ASSUME NEW i
    PROVE  /\ Content(objs[i]) = ContentIn(next, page, objs[i])
           /\ Content(objs[i])' = ContentIn(next', page', objs'[i])
BY DEF Content, ContentIn, PageOf, CellOf, Walk, WalkIn, Links, Step

\* Object j of the next state is object i of this one, with its content.
Carries(i, j) ==
    /\ objs'[j].digest = objs[i].digest
    /\ objs'[j].len = objs[i].len
    /\ Content(objs[j])' = Content(objs[i])

\* Objects that stay, and pages that are not written, keep their content.
LEMMA StayCarries ==
    ASSUME CacheInv, LiveStay, page' = page, NEW i \in Live'
    PROVE  i \in Live /\ Carries(i, i)
<1>1. /\ i \in Live /\ objs'[i].digest = objs[i].digest /\ objs'[i].len = objs[i].len
      /\ objs'[i].start_addr = objs[i].start_addr
      /\ ChainStays(i)
  BY DEF LiveStay, Stays
<1>2. objs[i].len \in Nat
  BY <1>1, ObjectTypes
<1>3. ContentIn(next, page, objs[i]) = ContentIn(next', page', objs'[i])
  <2> DEFINE V == WalkIn(next, objs[i].start_addr, PagesNeeded(objs[i].len))
  <2>1. SameTo(PagesNeeded(objs[i].len), V,
               WalkIn(next', objs[i].start_addr, PagesNeeded(objs[i].len)))
    BY <1>1 DEF ChainStays, ChainIn
  <2>2. \A k \in 1..PagesNeeded(objs[i].len) : \A x \in Cells : page[V[k]][x] = page'[V[k]][x]
    OBVIOUS
  <2> QED BY <1>1, <1>2, <2>1, <2>2, SameContent
<1> QED BY <1>1, <1>3, ContentIsContentIn DEF Carries

\* The end of store writes the new content to the pages it takes off the
\* free list, and to no page of another object.
LEMMA InsertContents ==
    ASSUME CacheInv, NEW d, NEW p, NEW n, Ends(d, p, n)
    PROVE  /\ \A j : \A i \in Live : objs'[j] = objs[i] => Carries(i, j)
           /\ \A j : objs'[j] = New(d, n) => Content(objs[j])' = Bytes(p, n)
<1> DEFINE m == PagesNeeded(n)
           z == (n + ContentSize - 1) \div ContentSize
           A == WalkIn(next, free_list_addr, m + 1)
           F == WalkIn(next, free_list_addr, n_freed + 1)
           W(a, x) == {k \in 1..z : A[k] = a /\ (k - 1) * ContentSize + x <= n}
           N == [i \in Live |-> PagesNeeded(objs[i].len)]
           S == [i \in Live |-> objs[i].start_addr]
           C == [i \in Live |-> WalkIn(next, S[i], N[i])]
<1>1. /\ n \in Nat /\ m <= n_freed /\ next' = next
      /\ page' = [a \in Pages |-> [x \in Cells |->
                    IF W(a, x) = {} THEN page[a][x]
                    ELSE <<p, (Max(W(a, x)) - 1) * ContentSize + x>>]]
  <2>1. PICK c, at, os : EndsWith(c, at, os, d, p, n)
    BY DEF Ends
  <2>2. A = Walk(free_list_addr, PagesNeeded(n) + 1)
    BY WalkIsWalkIn
  <2> HIDE DEF A
  <2> QED BY <2>1, <2>2 DEF EndsWith, Insert
<1>2. m \in Nat /\ m >= 1 /\ z \in Nat /\ z <= m
  BY <1>1, PagesNeededIsPositive, CopiedFit
<1>3. SharedOut(F, n_freed, Live, C, N) /\ n_freed \in Nat
  BY DEF CacheInv, PoolInv, Pool, SharedOut
<1>4. ASSUME NEW i \in Live
      PROVE  C[i] = WalkIn(next, objs[i].start_addr, PagesNeeded(objs[i].len))
             /\ N[i] = PagesNeeded(objs[i].len)
  OBVIOUS
<1> HIDE DEF m, z, N, S, C
<1>5. SameTo(m, A, F)
  <2>1. m + 1 \in Nat \ {0} /\ n_freed + 1 \in Nat \ {0} /\ m <= m + 1 /\ m <= n_freed + 1
    BY <1>1, <1>2, <1>3
  <2>2. A[1] = F[1] /\ Follows(next, m + 1, A) /\ Follows(next, n_freed + 1, F)
    BY <2>1, WalkFollows
  <2> HIDE DEF A, F
  <2>3. Follows(next, m, A) /\ Follows(next, m, F)
    BY <1>2, <2>1, <2>2, FollowsPrefix
  <2>4. Agree(next, next, m, A)
    BY DEF Agree
  <2> QED BY <1>2, <2>2, <2>3, <2>4, SameChain
<1>6. ASSUME NEW k \in 1..m
      PROVE  /\ A[k] = F[k] /\ A[k] \in Pages /\ k \in 1..n_freed
             /\ \A l \in 1..m : A[l] = A[k] => l = k
  <2>1. \A l \in 1..m : l \in 1..n_freed /\ A[l] = F[l]
    BY <1>1, <1>2, <1>3, <1>5 DEF SameTo
  <2> HIDE DEF A, F
  <2> QED BY <1>3, <2>1 DEF SharedOut, FreePart
<1>7. \A k \in 1..z : k \in 1..m
  BY <1>2
<1>8. ASSUME NEW i \in Live, NEW l \in 1..N[i], NEW x \in Cells
      PROVE  C[i][l] \in Pages /\ page'[C[i][l]][x] = page[C[i][l]][x]
  <2>1. C[i][l] \in Pages /\ \A k \in 1..n_freed : C[i][l] # F[k]
    BY <1>3 DEF SharedOut, ChainPart, Apart
  <2>2. W(C[i][l], x) = {}
    <3> HIDE DEF A, F
    <3> QED BY <1>6, <1>7, <2>1
  <2> HIDE DEF W
  <2> QED BY <1>1, <2>1, <2>2
<1>9. ASSUME NEW j, NEW i \in Live, objs'[j] = objs[i] PROVE Carries(i, j)
  <2>1. objs[i].len \in Nat
    BY ObjectTypes
  <2> DEFINE V == WalkIn(next, objs[i].start_addr, PagesNeeded(objs[i].len))
             o == objs[i]
  <2>2. SameTo(PagesNeeded(o.len), V, WalkIn(next, o.start_addr, PagesNeeded(o.len)))
    BY DEF SameTo
  <2>3. \A k \in 1..PagesNeeded(o.len) : \A x \in Cells : page[V[k]][x] = page'[V[k]][x]
    BY <1>4, <1>8
  <2>4. ContentIn(next, page, objs[i]) = ContentIn(next, page', objs[i])
    BY <2>1, <2>2, <2>3, SameContent
  <2> QED BY <1>1, <1>9, <2>4, ContentIsContentIn DEF Carries
<1>10. ASSUME NEW j, objs'[j] = New(d, n) PROVE Content(objs[j])' = Bytes(p, n)
  <2> DEFINE V == WalkIn(next, free_list_addr, m)
  <2>1. SameTo(m, V, A)
    <3>1. m \in Nat \ {0} /\ m + 1 \in Nat \ {0} /\ m <= m + 1
      BY <1>2
    <3>2. V[1] = A[1] /\ Follows(next, m, V) /\ Follows(next, m + 1, A)
      BY <3>1, WalkFollows
    <3> HIDE DEF A, V
    <3>3. Follows(next, m, A)
      BY <1>2, <3>1, <3>2, FollowsPrefix
    <3>4. Agree(next, next, m, V)
      BY DEF Agree
    <3> QED BY <1>2, <3>2, <3>3, <3>4, SameChain
  <2>2. objs'[j].len = n /\ objs'[j].start_addr = free_list_addr
    BY <1>10 DEF New
  <2>3. ContentIn(next, page', objs'[j]) =
            [b \in 1..n |-> IF V[PageOf(b)] = NULL THEN Unwritten
                            ELSE page'[V[PageOf(b)]][CellOf(b)]]
    BY <2>2 DEF ContentIn, m
  <2>4. ASSUME NEW b \in 1..n
        PROVE  V[PageOf(b)] # NULL /\ page'[V[PageOf(b)]][CellOf(b)] = <<p, b>>
    <3> DEFINE k == PageOf(b)
               x == CellOf(b)
               a == V[k]
    <3>1. k \in 1..z /\ k \in 1..m /\ x \in Cells /\ (k - 1) * ContentSize + x = b
      BY <1>1, ByteIsPlaced DEF z, m
    <3> HIDE DEF k, x
    <3>2. a = A[k]
      BY <2>1, <3>1 DEF SameTo
    <3> HIDE DEF a, A, F, V
    <3>3. a \in Pages /\ \A l \in 1..m : A[l] = a => l = k
      BY <1>6, <3>1, <3>2
    <3>4. b <= n
      BY <1>1
    <3>5. W(a, x) = {k}
      <4>1. k \in W(a, x)
        BY <3>1, <3>2, <3>4
      <4>2. \A l \in W(a, x) : l = k
        BY <1>7, <3>3
      <4> HIDE DEF W
      <4> QED BY <4>1, <4>2
    <3>6. Max({k}) = k
      <4>1. k \in Int
        BY <3>1
      <4> QED BY <4>1 DEF Max
    <3> HIDE DEF W
    <3>7. page'[a][x] = <<p, (k - 1) * ContentSize + x>>
      BY <1>1, <3>1, <3>3, <3>5, <3>6
    <3>8. a # NULL
      BY <3>3, CacheAssumption DEF Pages, NULL
    <3> QED BY <3>1, <3>7, <3>8 DEF a, k, x
  <2>5. Bytes(p, n) = [b \in 1..n |-> <<p, b>>]
    BY DEF Bytes
  <2>6. Content(objs[j])' = ContentIn(next', page', objs'[j])
    BY ContentIsContentIn
  <2>7. ContentIn(next', page', objs'[j]) = ContentIn(next, page', objs'[j])
    BY <1>1
  <2> HIDE DEF V
  <2>8. [b \in 1..n |-> IF V[PageOf(b)] = NULL THEN Unwritten
                        ELSE page'[V[PageOf(b)]][CellOf(b)]] = [b \in 1..n |-> <<p, b>>]
    BY <2>4
  <2> QED BY <2>3, <2>5, <2>6, <2>7, <2>8
<1> QED BY <1>9, <1>10

\* The step by which store puts len bytes of payload p in the cache as d.
Stored(d, p, len) ==
    \/ StoreFits(d, p, len)
    \/ FinishStore /\ job.digest = d /\ job.payload = p /\ job.len = len

\* Object j of the next state was in the cache with its content, or is new
\* and holds the bytes of the store that put it there.
Comes(j) ==
    \/ \E i \in Live : Carries(i, j)
    \/ \E p \in Payloads :
          /\ Stored(objs'[j].digest, p, objs'[j].len)
          /\ \A i \in Live : objs[i].digest # objs'[j].digest
          /\ Content(objs[j])' = Bytes(p, objs'[j].len)

\* Two objects in the cache have different digests.
LEMMA DigestsDiffer ==
    ASSUME CacheInv, NEW i \in Live, NEW j \in Live, objs[i].digest = objs[j].digest
    PROVE  i = j
<1>1. i \in 1..Len(objs) /\ j \in 1..Len(objs) /\ Len(objs) \in Nat
  BY ObjectTypes
<1>2. objs[i].digest \in Nat \X Nat /\ ~ Less(objs[i].digest, objs[i].digest)
  BY <1>1 DEF CacheInv, Sorted, Less
<1>3. ~ (i < j) /\ ~ (j < i)
  BY <1>1, <1>2 DEF CacheInv, Sorted
<1> QED BY <1>1, <1>3

\* The end of store adds its content and carries the others.
LEMMA EndComes ==
    ASSUME CacheInv, NEW d, NEW p, NEW n, Ends(d, p, n), Stored(d, p, n), NEW j \in Live'
    PROVE  Comes(j)
<1>1. Absent(d) /\ p \in Payloads
  BY DEF Ends, EndsWith
<1>2. CASE objs'[j] = New(d, n)
  <2>1. objs'[j].digest = d /\ objs'[j].len = n
    BY <1>2 DEF New
  <2>2. Content(objs[j])' = Bytes(p, n)
    BY <1>2, InsertContents
  <2>3. \A i \in Live : objs[i].digest # d
    BY <1>1, ObjectTypes DEF Absent
  <2> QED BY <1>1, <2>1, <2>2, <2>3 DEF Comes
<1>3. CASE \E i \in Live : objs'[j] = objs[i]
  <2>1. PICK i \in Live : objs'[j] = objs[i]
    BY <1>3
  <2>2. Carries(i, j)
    BY <2>1, InsertContents
  <2> QED BY <2>2 DEF Comes
<1> QED BY <1>2, <1>3, InsertKeeps

\* Every step of the cache.
LEMMA StepComes ==
    ASSUME CacheInv, [Next]_vars, NEW j \in Live'
    PROVE  Comes(j)
<1>1. ASSUME UNCHANGED <<objs, pool>> PROVE Comes(j)
  <2>1. page' = page /\ next' = next /\ objs' = objs
    BY <1>1 DEF pool
  <2>2. LiveStay
    BY <2>1 DEF LiveStay, Live, n_cur_objects, Stays, ChainStays, SameTo
  <2> QED BY <2>1, <2>2, StayCarries DEF Comes
<1>2. ASSUME NEW d \in Digests, NEW n \in Lens, Load(d, n) PROVE Comes(j)
  <2>1. CASE LoadMiss(d, n)
    BY <1>1, <2>1 DEF LoadMiss
  <2>2. CASE LoadHit(d, n)
    BY <2>2, LoadHitKeeps, StayCarries DEF LoadHit, pool, Comes
  <2> QED BY <1>2, <2>1, <2>2 DEF Load
<1>3. ASSUME NEW d \in Digests, NEW p \in Payloads, NEW n \in Lens, Store(d, p, n)
      PROVE  Comes(j)
  <2>1. CASE StoreHit(d)
    BY <1>1, <2>1 DEF StoreHit
  <2>2. CASE StoreTooBig(d, n)
    BY <1>1, <2>2 DEF StoreTooBig
  <2>3. CASE StoreFits(d, p, n)
    BY <2>3, StoreFitsEnds, EndComes DEF Stored
  <2>4. CASE BeginEviction(d, p, n)
    BY <1>1, <2>4 DEF BeginEviction
  <2> QED BY <1>3, <2>1, <2>2, <2>3, <2>4 DEF Store
<1>4. CASE EvictOne
  BY <1>4, EvictOneKeeps, StayCarries DEF EvictOne, Comes
<1>5. CASE FinishStore
  BY <1>5, FinishStoreEnds, EndComes DEF Stored
<1>6. CASE UNCHANGED vars
  BY <1>1, <1>6 DEF vars, pool
<1> QED BY <1>2, <1>3, <1>4, <1>5, <1>6 DEF Next

\* Whatever DuckCache::store evicts, moves and writes, a content in the cache
\* is there since its store and has not changed: an object that a step leaves
\* was there with the same bytes, or is new and holds those of the store.
THEOREM ContentsComeFromStores == Spec => [][\A j \in Live' : Comes(j)]_vars
<1>1. CacheInv /\ [Next]_vars => [\A j \in Live' : Comes(j)]_vars
  BY StepComes
<1> QED BY <1>1, CacheCorrect, PTL DEF Spec

\* An object holds one payload from its first byte to its last.
ContentsWhole ==
    \A i \in Live : \E p \in Payloads : Content(objs[i]) = Bytes(p, objs[i].len)

\* ContentsWhole: no object of the cache ever holds bytes of another one, or
\* a byte that DuckCache::store did not write.
THEOREM CacheContents == Spec => []ContentsWhole
<1>1. Init => ContentsWhole
  BY DEF Init, ContentsWhole, Live, n_cur_objects
<1>2. CacheInv /\ ContentsWhole /\ [Next]_vars => ContentsWhole'
  <2> SUFFICES ASSUME CacheInv, ContentsWhole, [Next]_vars, NEW j \in Live'
               PROVE  \E p \in Payloads : Content(objs[j])' = Bytes(p, objs'[j].len)
    BY DEF ContentsWhole, Bytes
  <2>1. Comes(j)
    BY StepComes
  <2>2. CASE \E i \in Live : Carries(i, j)
    BY <2>2 DEF Carries, ContentsWhole
  <2> QED BY <2>1, <2>2 DEF Comes
<1> QED BY <1>1, <1>2, CacheCorrect, PTL DEF Spec

\* What a load of n bytes of digest d does: it returns the content of the one
\* object of that digest if the length agrees, and misses otherwise.
LoadIsExact(d, n) ==
    /\ LoadHit(d, n) =>
          \E i \in Live : /\ objs[i].digest = d /\ objs[i].len = n
                          /\ ret' = <<"loaded", Content(objs[i])>>
    /\ LoadMiss(d, n) => \A i \in Live : ~ (objs[i].digest = d /\ objs[i].len = n)

\* DuckCache::load returns what is stored under a digest, and misses only if
\* there is no content of that digest and length: its search is exact.
THEOREM LoadsAreExact ==
    Spec => [][\A d \in Digests, n \in Lens : LoadIsExact(d, n)]_vars
<1>1. ASSUME CacheInv, NEW d \in Digests, NEW n \in Lens PROVE LoadIsExact(d, n)
  <2> DEFINE f == find(objs, d)
  <2>1. d \in Nat \X Nat
    BY CacheAssumption
  <2>2. f.found => f.idx \in 1..n_cur_objects /\ objs[f.idx].digest = d
    BY <1>1, <2>1, FindPlace DEF CacheInv, n_cur_objects
  <2>3. ~ f.found => Absent(d)
    BY <1>1, NotFound
  <2>4. Idle => Live = 1..n_cur_objects
    BY <1>1, ObjectTypes
  <2>5. ASSUME LoadHit(d, n)
        PROVE  \E i \in Live : /\ objs[i].digest = d /\ objs[i].len = n
                               /\ ret' = <<"loaded", Content(objs[i])>>
    <3>1. Idle /\ f.found /\ objs[f.idx].len = n /\ ret' = <<"loaded", Content(objs[f.idx])>>
      BY <2>5 DEF LoadHit, Idle
    <3>2. f.idx \in Live
      BY <2>2, <2>4, <3>1
    <3> HIDE DEF f
    <3> QED BY <2>2, <3>1, <3>2
  <2>6. ASSUME LoadMiss(d, n), NEW i \in Live, objs[i].digest = d, objs[i].len = n PROVE FALSE
    <3>1. Idle /\ ~ (f.found /\ objs[f.idx].len = n)
      BY <2>6 DEF LoadMiss, Idle
    <3>2. i \in 1..n_cur_objects
      BY <1>1, ObjectTypes
    <3>3. f.found
      BY <2>3, <2>6, <3>2 DEF Absent
    <3>4. f.idx \in Live /\ objs[f.idx].digest = d
      BY <2>2, <2>4, <3>1, <3>3
    <3> HIDE DEF f
    <3>5. f.idx = i
      BY <1>1, <2>6, <3>4, DigestsDiffer
    <3> QED BY <2>6, <3>1, <3>3, <3>5
  <2> QED BY <2>5, <2>6 DEF LoadIsExact
<1>2. CacheInv /\ [Next]_vars => [\A d \in Digests, n \in Lens : LoadIsExact(d, n)]_vars
  BY <1>1
<1> QED BY <1>2, CacheCorrect, PTL DEF Spec

\* One iteration of the eviction loop removes one object, used no later than
\* any other, because there is no room yet, and leaves the uses of the others.
LEMMA EvictsOne ==
    ASSUME CacheInv, EvictOne
    PROVE  /\ NeedRemove(PagesNeeded(job.len), n_freed, n_cur_objects - job.n_removed_objects)
           /\ \E i \in Live :
                 /\ Live' = Live \ {i}
                 /\ \A j \in Live : objs[i].last_used_tsc <= objs[j].last_used_tsc
                 /\ \A j \in Live' : objs'[j].last_used_tsc = objs[j].last_used_tsc
<1> DEFINE x == job.n_removed_objects + 1
           id == job.ids[x]
<1>1. /\ ~ Idle /\ job.still_need_remove /\ job.n_removed_objects # n_cur_objects
      /\ objs' = [objs EXCEPT ![id].last_used_tsc = 0]
  BY DEF EvictOne, Idle, LoopEnds
<1>2. /\ job \in Jobs /\ OldestFirst(objs, job.ids, job.n_removed_objects)
      /\ \A k \in 1..n_cur_objects :
            objs[job.ids[k]].last_used_tsc = 0 <=> k <= job.n_removed_objects
      /\ NeedRemove(PagesNeeded(job.len), n_freed, n_cur_objects - job.n_removed_objects)
  BY <1>1 DEF CacheInv, JobInv
<1>3. /\ job.ids \in [1..n_cur_objects -> 1..n_cur_objects]
      /\ \A i \in 1..n_cur_objects : \E k \in 1..n_cur_objects : job.ids[k] = i
      /\ job.n_removed_objects \in 0..n_cur_objects /\ n_cur_objects \in Nat
  BY <1>2, ObjectTypes DEF Jobs, Bijection, Injection, Surjection
<1>4. x \in 1..n_cur_objects /\ ~ (x <= job.n_removed_objects) /\ job.n_removed_objects < x
  BY <1>1, <1>3
<1>5. id \in Live
  BY <1>2, <1>3, <1>4 DEF Live
<1>6. ASSUME NEW j \in Live PROVE objs[id].last_used_tsc <= objs[j].last_used_tsc
  <2>1. j \in 1..n_cur_objects /\ objs[j].last_used_tsc # 0
    BY DEF Live
  <2>2. PICK k \in 1..n_cur_objects : job.ids[k] = j
    BY <1>3, <2>1
  <2>3. ~ (k <= job.n_removed_objects)
    BY <1>2, <2>1, <2>2
  <2>4. k = x \/ x < k
    <3>1. job.n_removed_objects \in Nat /\ k \in Nat
      BY <1>3
    <3> QED BY <2>3, <3>1
  <2>5. CASE x < k
    BY <1>2, <1>4, <2>2, <2>5 DEF OldestFirst, n_cur_objects
  <2>6. CASE k = x
    BY <1>5, <2>1, <2>2, <2>6, ObjectTypes, CacheAssumption
  <2> QED BY <2>4, <2>5, <2>6
<1> HIDE DEF id
<1>7. n_cur_objects' = n_cur_objects
  BY <1>1, ObjectTypes DEF n_cur_objects, CacheInv, TypesInv
<1>8. ASSUME NEW i \in 1..n_cur_objects
      PROVE  objs'[i].last_used_tsc = IF i = id THEN 0 ELSE objs[i].last_used_tsc
  <2>1. objs[i] \in Objects /\ i \in 1..Len(objs)
    BY ObjectTypes
  <2>2. CASE i = id
    BY <1>1, <2>1, <2>2 DEF Objects, CacheInv, TypesInv
  <2>3. CASE i # id
    BY <1>1, <2>1, <2>3 DEF CacheInv, TypesInv
  <2> QED BY <2>2, <2>3
<1>9. Live' = Live \ {id} /\ \A j \in Live' : objs'[j].last_used_tsc = objs[j].last_used_tsc
  BY <1>7, <1>8 DEF Live
<1> QED BY <1>2, <1>5, <1>6, <1>9

\* One iteration of the eviction loop removes one object, used no later than
\* any other, and only because there is no room yet.
EvictsOldest ==
    EvictOne =>
        /\ NeedRemove(PagesNeeded(job.len), n_freed, n_cur_objects - job.n_removed_objects)
        /\ \E i \in Live : /\ Live' = Live \ {i}
                           /\ \A j \in Live : objs[i].last_used_tsc <= objs[j].last_used_tsc

\* DuckCache::store evicts in the order of use and never more than it needs,
\* although ids is sorted once and the loop overwrites what it was sorted by.
THEOREM EvictionIsLru == Spec => [][EvictsOldest]_vars
<1>1. CacheInv /\ [Next]_vars => [EvictsOldest]_vars
  BY EvictsOne DEF EvictsOldest
<1> QED BY <1>1, CacheCorrect, PTL DEF Spec
-----------------------------------------------------------------------------
\* The refinement of LruCache.

\* What the mapping needs beside CacheInv: no object was used after the last
\* reading of the clock, and the store in progress is one a caller makes.
UseInv ==
    /\ \A i \in 1..n_cur_objects : objs[i].last_used_tsc <= tsc
    /\ ~ Idle => job.len \in Lens

\* The end of store writes the latest time of use.
LEMMA EndUse ==
    ASSUME CacheInv, UseInv, NEW d, NEW p, NEW n, Ends(d, p, n)
    PROVE  UseInv' /\ tsc' = tsc + 1 /\ Idle'
<1>1. tsc' = tsc + 1 /\ Idle'
  BY DEF Ends, EndsWith, Insert, Idle
<1>2. tsc \in Nat
  BY CacheAssumption DEF CacheInv, TypesInv
<1>3. CacheInv' /\ Live' = 1..n_cur_objects'
  <2>1. CacheInv'
    BY InsertKeeps
  <2> QED BY <1>1, <2>1 DEF CacheInv, JobInv, Live
<1>4. ASSUME NEW j \in Live' PROVE objs'[j].last_used_tsc <= tsc'
  <2>1. CASE objs'[j] = New(d, n)
    BY <1>1, <1>2, <2>1 DEF New
  <2>2. CASE \E i \in Live : objs'[j] = objs[i]
    <3>1. PICK i \in Live : objs'[j] = objs[i]
      BY <2>2
    <3>2. objs[i].last_used_tsc <= tsc /\ objs[i].last_used_tsc \in Nat
      BY ObjectTypes, CacheAssumption DEF UseInv
    <3> QED BY <1>1, <1>2, <3>1, <3>2
  <2> QED BY <2>1, <2>2, InsertKeeps
<1> QED BY <1>1, <1>3, <1>4 DEF UseInv

\* What a step leaves of the times of use.
LEMMA UseNext ==
    ASSUME CacheInv, UseInv, [Next]_vars
    PROVE  UseInv'
<1>0. tsc \in Nat
  BY CacheAssumption DEF CacheInv, TypesInv
<1>1. ASSUME UNCHANGED <<objs, tsc, job>> PROVE UseInv'
  BY <1>1 DEF UseInv, n_cur_objects, Idle
<1>2. ASSUME NEW d \in Digests, NEW n \in Lens, LoadHit(d, n) PROVE UseInv'
  <2> DEFINE id == find(objs, d).idx
  <2>1. objs' = [objs EXCEPT ![id].last_used_tsc = tsc'] /\ tsc' = tsc + 1 /\ job' = job
    BY <1>2 DEF LoadHit
  <2>2. Idle /\ Idle' /\ n_cur_objects' = n_cur_objects
    BY <1>2, <2>1 DEF LoadHit, Idle, n_cur_objects, CacheInv, TypesInv
  <2> HIDE DEF id
  <2>3. ASSUME NEW i \in 1..n_cur_objects PROVE objs'[i].last_used_tsc <= tsc'
    <3>1. objs[i] \in Objects /\ i \in 1..Len(objs) /\ objs[i].last_used_tsc <= tsc
          /\ objs[i].last_used_tsc \in Nat
      BY ObjectTypes, CacheAssumption DEF UseInv
    <3>2. CASE i = id
      BY <1>0, <2>1, <3>1, <3>2 DEF Objects, CacheInv, TypesInv
    <3>3. CASE i # id
      BY <1>0, <2>1, <3>1, <3>3 DEF CacheInv, TypesInv
    <3> QED BY <3>2, <3>3
  <2> QED BY <2>2, <2>3 DEF UseInv
<1>3. ASSUME NEW d \in Digests, NEW p \in Payloads, NEW n \in Lens, BeginEviction(d, p, n)
      PROVE  UseInv'
  <2>1. job'.len = n /\ UNCHANGED <<objs, tsc>>
    BY <1>3 DEF BeginEviction
  <2> QED BY <2>1 DEF UseInv, n_cur_objects
<1>4. ASSUME EvictOne PROVE UseInv'
  <2> DEFINE id == job.ids[job.n_removed_objects + 1]
  <2>1. objs' = [objs EXCEPT ![id].last_used_tsc = 0] /\ tsc' = tsc /\ ~ Idle
    BY <1>4 DEF EvictOne, Idle
  <2>2. job'.len = job.len
    BY <1>4, <2>1 DEF EvictOne, CacheInv, JobInv, Jobs
  <2>3. n_cur_objects' = n_cur_objects
    BY <2>1 DEF n_cur_objects, CacheInv, TypesInv
  <2> HIDE DEF id
  <2>4. ASSUME NEW i \in 1..n_cur_objects PROVE objs'[i].last_used_tsc <= tsc'
    <3>1. objs[i] \in Objects /\ i \in 1..Len(objs) /\ objs[i].last_used_tsc <= tsc
          /\ objs[i].last_used_tsc \in Nat
      BY ObjectTypes, CacheAssumption DEF UseInv
    <3>2. CASE i = id
      BY <1>0, <2>1, <3>1, <3>2 DEF Objects, CacheInv, TypesInv
    <3>3. CASE i # id
      BY <1>0, <2>1, <3>1, <3>3 DEF CacheInv, TypesInv
    <3> QED BY <3>2, <3>3
  <2> QED BY <2>1, <2>2, <2>3, <2>4 DEF UseInv
<1>5. ASSUME NEW d \in Digests, NEW n \in Lens, Load(d, n) PROVE UseInv'
  BY <1>1, <1>2, <1>5 DEF Load, LoadMiss
<1>6. ASSUME NEW d \in Digests, NEW p \in Payloads, NEW n \in Lens, Store(d, p, n)
      PROVE  UseInv'
  <2>1. CASE StoreHit(d)
    BY <1>1, <2>1 DEF StoreHit
  <2>2. CASE StoreTooBig(d, n)
    BY <1>1, <2>2 DEF StoreTooBig
  <2>3. CASE StoreFits(d, p, n)
    BY <2>3, StoreFitsEnds, EndUse
  <2> QED BY <1>3, <1>6, <2>1, <2>2, <2>3 DEF Store
<1>7. CASE FinishStore
  BY <1>7, FinishStoreEnds, EndUse
<1>8. CASE UNCHANGED vars
  BY <1>1, <1>8 DEF vars
<1> QED BY <1>4, <1>5, <1>6, <1>7, <1>8 DEF Next

\* The mapping, object by object.
Viewed ==
    /\ Idle => Request = << >>
    /\ DOMAIN ContentOf = Held
    /\ ContentOf = [e \in Held |-> ContentOf[e]]
    /\ OlderThan = [e \in Held |-> OlderThan[e]]
    /\ \A i \in Live : /\ objs[i].digest \in Held
                       /\ ContentOf[objs[i].digest] = Content(objs[i])
                       /\ OlderThan[objs[i].digest] = UsedBefore(i)

\* CacheInv gives each digest one object, so the mapping can be read off it ...
LEMMA ViewIs == CacheInv => Viewed
<1> SUFFICES ASSUME CacheInv PROVE Viewed
  OBVIOUS
<1>1. ASSUME NEW i \in Live PROVE objs[i].digest \in Held /\ IndexOf(objs[i].digest) = i
  <2>1. \A j \in Live : objs[j].digest = objs[i].digest => j = i
    BY DigestsDiffer
  <2> QED BY <2>1 DEF Held, IndexOf
<1>2. ASSUME NEW i \in Live PROVE ContentOf[objs[i].digest] = Content(objs[i])
  BY <1>1 DEF ContentOf
<1>3. ASSUME NEW i \in Live PROVE OlderThan[objs[i].digest] = UsedBefore(i)
  BY <1>1 DEF OlderThan
<1>4. DOMAIN ContentOf = Held /\ ContentOf = [e \in Held |-> ContentOf[e]]
  BY DEF ContentOf
<1>5. OlderThan = [e \in Held |-> OlderThan[e]]
  BY DEF OlderThan
<1>6. Idle => Request = << >>
  BY DEF Request
<1> QED BY <1>1, <1>2, <1>3, <1>4, <1>5, <1>6 DEF Viewed

\* ... in the next state too.
LEMMA NextView ==
    ASSUME CacheInv'
    PROVE  Viewed'
BY ViewIs, PTL

\* The pages of the chains, numbered chain by chain: as many as are not free.
Numbered(I, g, N) == UNION {{g[i]} \X (1..N[i]) : i \in I}

\* Numbering them is a bijection with the pages that are not free.
LEMMA UsedPages ==
    ASSUME NEW F, NEW n, NEW I, NEW C, NEW N, SharedOut(F, n, I, C, N),
           NEW g, \A i, j \in I : g[i] = g[j] => i = j
    PROVE  Cardinality(Numbered(I, g, N)) = NPages - n
<1> DEFINE U == Numbered(I, g, N)
           Free == {F[k] : k \in 1..n}
           X == Pages \ Free
           at(e) == CHOOSE i \in I : g[i] = e
           h == [u \in U |-> C[at(u[1])][u[2]]]
<1>1. \A i \in I : \A k \in 1..N[i] : <<g[i], k>> \in U
  BY DEF Numbered
<1>2. ASSUME NEW u \in U PROVE \E i \in I : \E k \in 1..N[i] : u = <<g[i], k>>
  BY DEF Numbered
<1>3. \A i \in I : at(g[i]) = i
  OBVIOUS
<1> HIDE DEF U, at
<1>4. \A i \in I : \A k \in 1..N[i] : h[<<g[i], k>>] = C[i][k]
  BY <1>1, <1>3
<1> HIDE DEF h
<1>5. \A i \in I : \A k \in 1..N[i] : C[i][k] \in X
  BY DEF SharedOut, ChainPart, Apart
<1>6. h \in [U -> X]
  <2>1. \A u \in U : h[u] \in X
    BY <1>2, <1>4, <1>5
  <2> QED BY <2>1 DEF h
<1>7. ASSUME NEW u \in U, NEW v \in U, h[u] = h[v] PROVE u = v
  <2>1. PICK i \in I : \E k \in 1..N[i] : u = <<g[i], k>>
    BY <1>2
  <2>2. PICK k \in 1..N[i] : u = <<g[i], k>>
    BY <2>1
  <2>3. PICK j \in I : \E l \in 1..N[j] : v = <<g[j], l>>
    BY <1>2
  <2>4. PICK l \in 1..N[j] : v = <<g[j], l>>
    BY <2>3
  <2>5. C[i][k] = C[j][l]
    BY <1>4, <1>7, <2>2, <2>4
  <2>6. i = j
    BY <2>5 DEF SharedOut, Apart
  <2>7. k = l
    BY <2>5, <2>6 DEF SharedOut, ChainPart
  <2> QED BY <2>2, <2>4, <2>6, <2>7
<1>8. ASSUME NEW x \in X PROVE \E u \in U : h[u] = x
  <2>1. PICK i \in I : \E k \in 1..N[i] : C[i][k] = x
    BY DEF SharedOut, Covered
  <2>2. PICK k \in 1..N[i] : C[i][k] = x
    BY <2>1
  <2> QED BY <1>1, <1>4, <2>2
<1>9. /\ n \in Nat /\ \A k, l \in 1..n : F[k] = F[l] => k = l
      /\ Free \subseteq Pages
  BY DEF SharedOut, FreePart
<1>10. Cardinality(Free) = n
  BY <1>9, PagesNumbered
<1>11. IsFiniteSet(Pages) /\ Cardinality(Pages) = NPages /\ NPages \in Nat
  BY FS_Interval, CacheAssumption DEF Pages
<1> HIDE DEF Free
<1>12. IsFiniteSet(X) /\ Cardinality(X) = NPages - n
  <2>1. Pages \cap Free = Free
    BY <1>9
  <2> QED BY <1>10, <1>11, <2>1, FS_Difference
<1> HIDE DEF X
<1>13. h \in Bijection(U, X)
  BY <1>6, <1>7, <1>8 DEF Bijection, Injection, Surjection, IsInjective
<1>14. Cardinality(U) = Cardinality(X)
  <2>1. ExistsBijection(X, U)
    BY <1>13, Fun_ExistsBijSymmetric DEF ExistsBijection
  <2> QED BY <1>12, <2>1, FS_Bijection
<1> QED BY <1>12, <1>14 DEF U

\* A content of n bytes.
LEMMA LengthOfBytes ==
    ASSUME NEW p, NEW n \in Nat
    PROVE  Len(Bytes(p, n)) = n
BY DEF Bytes

\* An object of so many bytes.
LEMMA LengthOfContent ==
    ASSUME NEW o, o.len \in Nat
    PROVE  Len(Content(o)) = o.len
BY DEF Content

\* Counting is the same in both modules.
LEMMA SameCount ==
    ASSUME NEW T
    PROVE  Lru!Cardinality(T) = Cardinality(T)
BY DEF Lru!Cardinality, Cardinality

\* How many contents the map has.
ObjectsLeft == IF Idle THEN n_cur_objects ELSE n_cur_objects - job.n_removed_objects

\* The tests of store are those of the map.
LEMMA RoomIs ==
    ASSUME CacheInv, NEW c, Len(c) \in Nat
    PROVE  /\ Lru!Fits(c) <=> ~ (PagesNeeded(Len(c)) > NPages)
           /\ Lru!Room(c) <=> ~ NeedRemove(PagesNeeded(Len(c)), n_freed, ObjectsLeft)
<1> DEFINE m == PagesNeeded(Len(c))
           S == [i \in Live |-> objs[i].start_addr]
           N == [i \in Live |-> PagesNeeded(objs[i].len)]
           C == [i \in Live |-> WalkIn(next, S[i], N[i])]
           F == WalkIn(next, free_list_addr, n_freed + 1)
           g == [i \in Live |-> objs[i].digest]
<1>1. SharedOut(F, n_freed, Live, C, N)
  BY DEF CacheInv, PoolInv, Pool
<1>2. \A i, j \in Live : g[i] = g[j] => i = j
  BY DigestsDiffer
<1>3. Lru!Used = Numbered(Live, g, N)
  <2>1. Viewed
    BY ViewIs
  <2>2. Lru!Used = UNION {{e} \X (1..PagesNeeded(Len(ContentOf[e]))) : e \in Held}
    BY <2>1 DEF Lru!Used, Lru!Present, Viewed
  <2>3. ASSUME NEW i \in Live
        PROVE  {g[i]} \X (1..N[i])
                 = {objs[i].digest} \X (1..PagesNeeded(Len(ContentOf[objs[i].digest])))
    <3>1. Len(ContentOf[objs[i].digest]) = objs[i].len
      BY <2>1, ObjectTypes, LengthOfContent DEF Viewed
    <3> QED BY <3>1
  <2> DEFINE T(e) == {e} \X (1..PagesNeeded(Len(ContentOf[e])))
             V(i) == {g[i]} \X (1..N[i])
  <2>4. \A i \in Live : V(i) = T(objs[i].digest)
    BY <2>3
  <2>5. Lru!Used = UNION {T(e) : e \in Held}
    BY <2>2
  <2>6. Numbered(Live, g, N) = UNION {V(i) : i \in Live}
    BY DEF Numbered
  <2> HIDE DEF T, V
  <2>7. Held = {objs[i].digest : i \in Live}
    BY DEF Held
  <2> QED BY <2>4, <2>5, <2>6, <2>7
<1>4. Cardinality(Held) = Cardinality(Live)
  <2> DEFINE h == [i \in Live |-> objs[i].digest]
  <2>1. h \in Bijection(Live, Held)
    BY DigestsDiffer DEF Held, Bijection, Injection, Surjection, IsInjective
  <2> HIDE DEF h
  <2>2. IsFiniteSet(Live)
    <3>1. n_cur_objects \in Nat /\ Live \in SUBSET (1..n_cur_objects)
      BY ObjectTypes
    <3>2. IsFiniteSet(1..n_cur_objects)
      BY <3>1, FS_Interval
    <3> QED BY <3>1, <3>2, FS_Subset
  <2> QED BY <2>1, <2>2, FS_Bijection DEF ExistsBijection
<1>5. Cardinality(Live) = ObjectsLeft /\ ObjectsLeft \in Int
  <2>1. CASE Idle
    BY <2>1, ObjectTypes, FS_Interval DEF ObjectsLeft
  <2>2. CASE ~ Idle
    <3>1. job.n_removed_objects \in Int /\ n_cur_objects \in Nat
      BY <2>2, ObjectTypes DEF CacheInv, JobInv, Jobs
    <3> QED BY <2>2, <3>1, LiveCount DEF ObjectsLeft
  <2> QED BY <2>1, <2>2
<1>6. Cardinality(Lru!Used) = NPages - n_freed
  <2> HIDE DEF F, C, N, g
  <2> QED BY <1>1, <1>2, <1>3, UsedPages
<1>7. DOMAIN ContentOf = Held
  BY ViewIs DEF Viewed
<1>8. m \in Nat /\ n_freed \in Nat /\ NPages \in Nat /\ MaxObjects \in Nat
  BY PagesNeededIsPositive, PoolHead, CacheAssumption DEF CacheInv, PoolInv
<1>9. Lru!Room(c) <=> /\ Cardinality(Lru!Used) + m <= NPages
                      /\ Cardinality(Held) < MaxObjects
  BY <1>7, SameCount DEF Lru!Room, Lru!Present
<1>10. Lru!Fits(c) <=> m <= NPages
  BY DEF Lru!Fits
<1> HIDE DEF m
<1>11. Lru!Room(c) <=> ~ NeedRemove(m, n_freed, ObjectsLeft)
  BY <1>4, <1>5, <1>6, <1>8, <1>9 DEF NeedRemove
<1> QED BY <1>8, <1>10, <1>11 DEF m

\* A call that changes no object and no page changes nothing of the map.
LEMMA SameMap ==
    ASSUME UNCHANGED <<objs, pool>>
    PROVE  ContentOf' = ContentOf /\ OlderThan' = OlderThan
<1>1. objs' = objs /\ next' = next /\ page' = page
  BY DEF pool
<1>2. Live' = Live
  BY <1>1 DEF Live, n_cur_objects
<1>3. Held' = Held
  BY <1>1, <1>2 DEF Held
<1>4. OlderThan' = OlderThan
  BY <1>1, <1>2, <1>3 DEF OlderThan, IndexOf, UsedBefore
<1>5. ContentOf' = ContentOf
  BY <1>1, <1>2, <1>3 DEF ContentOf, IndexOf, Content, Walk
<1> QED BY <1>4, <1>5

\* What find tells of the map.
LEMMA FindIsMember ==
    ASSUME CacheInv, Idle, NEW d \in Digests
    PROVE  LET f == find(objs, d)
           IN  /\ f.found <=> d \in Held
               /\ f.found => /\ f.idx \in Live /\ objs[f.idx].digest = d
                             /\ Len(ContentOf[d]) = objs[f.idx].len
<1> DEFINE f == find(objs, d)
<1>1. d \in Nat \X Nat
  BY CacheAssumption
<1>2. f.found => f.idx \in 1..n_cur_objects /\ objs[f.idx].digest = d
  BY <1>1, FindPlace DEF CacheInv, n_cur_objects
<1>3. ~ f.found => Absent(d)
  BY NotFound
<1>4. Live = 1..n_cur_objects /\ Viewed
  BY ObjectTypes, ViewIs
<1> HIDE DEF f
<1>5. ASSUME f.found
      PROVE  /\ f.idx \in Live /\ objs[f.idx].digest = d /\ d \in Held
             /\ Len(ContentOf[d]) = objs[f.idx].len
  <2>1. f.idx \in Live /\ objs[f.idx].digest = d
    BY <1>2, <1>4, <1>5
  <2>2. d \in Held /\ ContentOf[d] = Content(objs[f.idx])
    BY <1>4, <2>1 DEF Viewed
  <2> QED BY <1>4, <2>1, <2>2, ObjectTypes, LengthOfContent
<1>6. d \in Held => f.found
  BY <1>3, <1>4 DEF Absent, Held
<1> QED BY <1>5, <1>6 DEF f

\* A load that finds nothing misses in the map.
LEMMA LoadMissMaps ==
    ASSUME CacheInv, NEW d \in Digests, NEW n \in Lens, LoadMiss(d, n)
    PROVE  Lru!Load(d, n)
<1>1. /\ Idle /\ ~ (find(objs, d).found /\ objs[find(objs, d).idx].len = n)
      /\ ret' = <<"miss", << >>>> /\ job' = job /\ UNCHANGED <<objs, pool>>
  BY DEF LoadMiss, Idle
<1>2. ContentOf' = ContentOf /\ OlderThan' = OlderThan
  BY <1>1, SameMap
<1>3. Viewed /\ Request' = Request
  BY <1>1, ViewIs DEF Request, Idle
<1>4. ~ (d \in Held /\ Len(ContentOf[d]) = n)
  BY <1>1, FindIsMember
<1> QED BY <1>1, <1>2, <1>3, <1>4 DEF Lru!Load, Lru!Present, Viewed

\* A store of a digest that is held changes nothing.
LEMMA StoreHitMaps ==
    ASSUME CacheInv, NEW d \in Digests, StoreHit(d)
    PROVE  Lru!AlreadyStored(d)
<1>1. /\ Idle /\ find(objs, d).found
      /\ ret' = <<"stored", << >>>> /\ job' = job /\ UNCHANGED <<objs, pool>>
  BY DEF StoreHit, Idle
<1>2. ContentOf' = ContentOf /\ OlderThan' = OlderThan
  BY <1>1, SameMap
<1>3. Viewed /\ Request' = Request
  BY <1>1, ViewIs DEF Request, Idle
<1>4. d \in Held
  BY <1>1, FindIsMember
<1> QED BY <1>1, <1>2, <1>3, <1>4 DEF Lru!AlreadyStored, Lru!Present, Viewed

\* A content that is too big for the pool is too big for the map.
LEMMA StoreTooBigMaps ==
    ASSUME CacheInv, NEW d \in Digests, NEW p \in Payloads, NEW n \in Lens, StoreTooBig(d, n)
    PROVE  Lru!Refuse(Bytes(p, n))
<1>1. /\ Idle /\ PagesNeeded(n) > NPages
      /\ ret' = <<"refused", << >>>> /\ job' = job /\ UNCHANGED <<objs, pool>>
  BY DEF StoreTooBig, Idle
<1>2. ContentOf' = ContentOf /\ OlderThan' = OlderThan
  BY <1>1, SameMap
<1>3. Viewed /\ Request' = Request
  BY <1>1, ViewIs DEF Request, Idle
<1>4. n \in Nat /\ Len(Bytes(p, n)) = n
  BY LengthOfBytes, CacheAssumption
<1>5. ~ Lru!Fits(Bytes(p, n))
  BY <1>1, <1>4, RoomIs
<1> QED BY <1>1, <1>2, <1>3, <1>5 DEF Lru!Refuse, Viewed

\* A store that needs room becomes the request of the map.
LEMMA BeginEvictionMaps ==
    ASSUME CacheInv, NEW d \in Digests, NEW p \in Payloads, NEW n \in Lens,
           BeginEviction(d, p, n)
    PROVE  Lru!Begin(d, Bytes(p, n))
<1>1. /\ Idle /\ ~ find(objs, d).found /\ PagesNeeded(n) <= NPages
      /\ NeedRemove(PagesNeeded(n), n_free_pages, n_cur_objects)
      /\ job'.digest = d /\ job'.payload = p /\ job'.len = n
      /\ ret' = ret /\ UNCHANGED <<objs, pool>>
  BY DEF BeginEviction, Idle
<1>2. ContentOf' = ContentOf /\ OlderThan' = OlderThan
  BY <1>1, SameMap
<1>3. ~ Idle'
  <2>1. PICK ids : job' = [digest |-> d, payload |-> p, len |-> n,
                  idx |-> find(objs, d).idx, ids |-> ids,
                  n_removed_pages |-> 0, n_removed_objects |-> 0, still_need_remove |-> TRUE]
    BY DEF BeginEviction
  <2>2. "digest" \in DOMAIN job'
    BY <2>1
  <2>3. DOMAIN << >> = {}
    OBVIOUS
  <2> QED BY <2>2, <2>3 DEF Idle
<1>4. Request' = <<d, Bytes(p, n)>>
  BY <1>1, <1>3 DEF Request, Bytes
<1>5. n \in Nat /\ Len(Bytes(p, n)) = n /\ n_freed = n_free_pages
      /\ ObjectsLeft = n_cur_objects
  <2>1. n \in Nat /\ n_free_pages \in Nat
    BY CacheAssumption DEF CacheInv, TypesInv
  <2>2. n_freed = n_free_pages
    BY <1>1, <2>1 DEF n_freed
  <2> QED BY <1>1, <2>1, <2>2, LengthOfBytes DEF ObjectsLeft
<1>6. ~ Lru!Room(Bytes(p, n))
  BY <1>1, <1>5, RoomIs
<1>7. Lru!Fits(Bytes(p, n))
  <2>1. PagesNeeded(n) \in Nat /\ NPages \in Nat
    BY <1>5, PagesNeededIsPositive, CacheAssumption
  <2>2. ~ (PagesNeeded(n) > NPages)
    BY <1>1, <2>1
  <2> QED BY <1>5, <2>2, RoomIs
<1>8. Viewed /\ d \notin Held
  BY <1>1, ViewIs, FindIsMember
<1> QED BY <1>1, <1>2, <1>4, <1>6, <1>7, <1>8 DEF Lru!Begin, Lru!Present, Viewed

\* A load makes its digest the youngest.
LEMMA LoadHitMaps ==
    ASSUME CacheInv, UseInv, NEW d \in Digests, NEW n \in Lens, LoadHit(d, n)
    PROVE  Lru!Load(d, n)
<1> DEFINE id == find(objs, d).idx
<1>1. /\ Idle /\ find(objs, d).found /\ objs[id].len = n /\ tsc' = tsc + 1
      /\ objs' = [objs EXCEPT ![id].last_used_tsc = tsc']
      /\ ret' = <<"loaded", Content(objs[id])>> /\ job' = job /\ page' = page
  BY DEF LoadHit, Idle, pool
<1>2. id \in Live /\ objs[id].digest = d /\ d \in Held /\ Len(ContentOf[d]) = n
  BY <1>1, FindIsMember
<1> HIDE DEF id
<1>3. CacheInv' /\ LiveStay
  BY LoadHitKeeps
<1>4. Viewed /\ Viewed' /\ Request = << >> /\ Request' = << >>
  BY <1>1, <1>3, ViewIs, NextView DEF Request, Idle
<1>5. n_cur_objects' = n_cur_objects /\ Idle'
  BY <1>1 DEF n_cur_objects, CacheInv, TypesInv, Idle
<1>6. Live' = Live
  <2>1. Live' = 1..n_cur_objects'
    BY <1>3, <1>5 DEF CacheInv, JobInv, Live
  <2> QED BY <1>1, <1>5, <2>1, ObjectTypes
<1>7. ASSUME NEW i \in Live
      PROVE  /\ objs'[i].digest = objs[i].digest
             /\ objs'[i].last_used_tsc = IF i = id THEN tsc + 1 ELSE objs[i].last_used_tsc
             /\ objs[i].last_used_tsc \in Nat /\ objs[i].last_used_tsc <= tsc
             /\ Content(objs[i])' = Content(objs[i])
  <2>1. objs[i] \in Objects /\ i \in 1..Len(objs) /\ objs[i].last_used_tsc \in Nat
        /\ objs[i].last_used_tsc <= tsc
    BY ObjectTypes, CacheAssumption DEF UseInv
  <2>2. objs'[i].last_used_tsc = IF i = id THEN tsc + 1 ELSE objs[i].last_used_tsc
    <3>1. CASE i = id
      BY <1>1, <2>1, <3>1 DEF Objects, CacheInv, TypesInv
    <3>2. CASE i # id
      BY <1>1, <2>1, <3>2 DEF CacheInv, TypesInv
    <3> QED BY <3>1, <3>2
  <2>3. Carries(i, i)
    BY <1>1, <1>3, <1>6, StayCarries
  <2> QED BY <2>1, <2>2, <2>3 DEF Carries
<1>8. tsc \in Nat
  BY CacheAssumption DEF CacheInv, TypesInv
<1>9. Held' = Held
  BY <1>6, <1>7 DEF Held
<1>10. ContentOf' = ContentOf
  <2>1. ASSUME NEW e \in Held PROVE ContentOf'[e] = ContentOf[e]
    <3>1. PICK i \in Live : objs[i].digest = e
      BY DEF Held
    <3>2. ContentOf[e] = Content(objs[i])
      BY <1>4, <3>1 DEF Viewed
    <3>3. ContentOf'[e] = Content(objs[i])'
      BY <1>4, <1>6, <1>7, <3>1 DEF Viewed
    <3> QED BY <1>7, <3>2, <3>3
  <2> QED BY <1>4, <1>9, <2>1 DEF Viewed
<1>11. OlderThan' = Lru!Touch(d)
  <2>1. ASSUME NEW i \in Live
        PROVE  UsedBefore(i)' = IF i = id THEN Held \ {d} ELSE UsedBefore(i) \ {d}
    <3>1. UsedBefore(i)' = {objs'[j].digest : j \in {k \in Live' : objs'[k].last_used_tsc
                                                                  < objs'[i].last_used_tsc}}
      BY DEF UsedBefore
    <3>2. \A j \in Live : objs[j].digest = d => j = id
      BY <1>2, DigestsDiffer
    <3>3. CASE i = id
      <4>1. \A k \in Live : objs'[k].last_used_tsc < objs'[i].last_used_tsc <=> k # id
        BY <1>7, <1>8, <3>3
      <4>2. UsedBefore(i)' = {objs[j].digest : j \in {k \in Live : k # id}}
        BY <1>6, <1>7, <3>1, <4>1
      <4> QED BY <1>2, <3>2, <3>3, <4>2 DEF Held
    <3>4. CASE i # id
      <4>1. \A k \in Live : objs'[k].last_used_tsc < objs'[i].last_used_tsc
                              <=> k # id /\ objs[k].last_used_tsc < objs[i].last_used_tsc
        BY <1>7, <1>8, <3>4
      <4>2. UsedBefore(i)' = {objs[j].digest : j \in {k \in Live :
                                k # id /\ objs[k].last_used_tsc < objs[i].last_used_tsc}}
        BY <1>6, <1>7, <3>1, <4>1
      <4> QED BY <1>2, <3>2, <3>4, <4>2 DEF UsedBefore
    <3> QED BY <3>3, <3>4
  <2>2. ASSUME NEW e \in Held
        PROVE  OlderThan'[e] = IF e = d THEN Held \ {d} ELSE OlderThan[e] \ {d}
    <3>1. PICK i \in Live : objs[i].digest = e
      BY DEF Held
    <3>2. OlderThan[e] = UsedBefore(i) /\ OlderThan'[e] = UsedBefore(i)'
      BY <1>4, <1>6, <1>7, <3>1 DEF Viewed
    <3>3. i = id <=> e = d
      BY <1>2, <3>1, DigestsDiffer
    <3> QED BY <2>1, <3>2, <3>3
  <2> QED BY <1>4, <1>9, <2>2 DEF Viewed, Lru!Touch, Lru!Present
<1>12. ContentOf[d] = Content(objs[id])
  BY <1>2, <1>4 DEF Viewed
<1> QED BY <1>1, <1>2, <1>4, <1>10, <1>11, <1>12 DEF Lru!Load, Lru!Present, Viewed

\* An iteration of the loop evicts the oldest digest.
LEMMA EvictOneMaps ==
    ASSUME CacheInv, EvictOne
    PROVE  \E d \in Digests : Lru!Evict(d)
<1>1. ~ Idle /\ ret' = ret /\ page' = page
  BY DEF EvictOne, Idle
<1>2. /\ NeedRemove(PagesNeeded(job.len), n_freed, ObjectsLeft)
      /\ \E i \in Live :
            /\ Live' = Live \ {i}
            /\ \A j \in Live : objs[i].last_used_tsc <= objs[j].last_used_tsc
            /\ \A j \in Live' : objs'[j].last_used_tsc = objs[j].last_used_tsc
  BY <1>1, EvictsOne DEF ObjectsLeft
<1>3. PICK id \in Live :
          /\ Live' = Live \ {id}
          /\ \A j \in Live : objs[id].last_used_tsc <= objs[j].last_used_tsc
          /\ \A j \in Live' : objs'[j].last_used_tsc = objs[j].last_used_tsc
  BY <1>2
<1> DEFINE d == objs[id].digest
<1>4. CacheInv' /\ LiveStay
  BY EvictOneKeeps
<1>5. Viewed /\ Viewed'
  BY <1>4, ViewIs, NextView
<1>6. /\ job'.digest = job.digest /\ job'.payload = job.payload /\ job'.len = job.len
      /\ job \in Jobs
  BY <1>1 DEF EvictOne, CacheInv, JobInv, Jobs
<1>7. ~ Idle'
  <2>1. DOMAIN job' = DOMAIN job
    BY <1>1 DEF EvictOne
  <2>2. DOMAIN job # {}
    BY <1>6 DEF Jobs
  <2>3. DOMAIN << >> = {}
    OBVIOUS
  <2> QED BY <2>1, <2>2, <2>3 DEF Idle
<1>8. /\ Request = <<job.digest, Bytes(job.payload, job.len)>>
      /\ Request' = <<job.digest, Bytes(job.payload, job.len)>>
  BY <1>1, <1>6, <1>7 DEF Request, Bytes
<1>9. Request # << >> /\ Request[2] = Bytes(job.payload, job.len) /\ Request' = Request
  BY <1>8
<1>10. job.len \in Nat /\ Len(Bytes(job.payload, job.len)) = job.len
  <2>1. job.len \in Nat
    BY <1>6 DEF Jobs
  <2> QED BY <2>1, LengthOfBytes
<1>11. ~ Lru!Room(Request[2])
  BY <1>2, <1>9, <1>10, RoomIs
<1>12. \A i \in Live' : Carries(i, i) /\ i \in Live
  BY <1>1, <1>4, StayCarries
<1>13. \A j \in Live : objs[j].digest = d => j = id
  BY <1>3, DigestsDiffer
<1> HIDE DEF d
<1>14. objs[id].digest = d /\ d \in Held /\ d \in Digests
  <2>1. objs[id].digest \in Held
    BY <1>5 DEF Viewed
  <2> QED BY <2>1, ObjectTypes DEF d
<1>15. \A i \in Live : objs[i].last_used_tsc \in Nat
  BY ObjectTypes, CacheAssumption
<1>16. Held' = Held \ {d}
  <2>1. Held' = {objs'[i].digest : i \in Live'}
    BY DEF Held
  <2>2. Held' = {objs[i].digest : i \in Live'}
    BY <1>12, <2>1 DEF Carries
  <2> QED BY <1>3, <1>13, <1>14, <2>2 DEF Held
<1>17. OlderThan[d] = {}
  <2>1. OlderThan[d] = UsedBefore(id)
    BY <1>5, <1>14 DEF Viewed
  <2>2. \A k \in Live : ~ (objs[k].last_used_tsc < objs[id].last_used_tsc)
    BY <1>3, <1>15
  <2> QED BY <2>1, <2>2 DEF UsedBefore
<1>18. ASSUME NEW e \in Held \ {d}
       PROVE  ContentOf'[e] = ContentOf[e] /\ OlderThan'[e] = OlderThan[e] \ {d}
  <2>1. PICK i \in Live : objs[i].digest = e
    BY DEF Held
  <2>2. i \in Live' /\ objs'[i].digest = e
    BY <1>3, <1>12, <1>14, <2>1 DEF Carries
  <2>3. ContentOf[e] = Content(objs[i]) /\ OlderThan[e] = UsedBefore(i)
    BY <1>5, <2>1 DEF Viewed
  <2>4. ContentOf'[e] = Content(objs[i])' /\ OlderThan'[e] = UsedBefore(i)'
    BY <1>5, <2>2 DEF Viewed
  <2>5. Content(objs[i])' = Content(objs[i])
    BY <1>12, <2>2 DEF Carries
  <2>6. UsedBefore(i)' = UsedBefore(i) \ {d}
    <3>1. UsedBefore(i)' = {objs'[j].digest : j \in {k \in Live' : objs'[k].last_used_tsc
                                                                  < objs'[i].last_used_tsc}}
      BY DEF UsedBefore
    <3>2. UsedBefore(i)' = {objs[j].digest : j \in {k \in Live \ {id} :
                              objs[k].last_used_tsc < objs[i].last_used_tsc}}
      BY <1>3, <1>12, <2>2, <3>1 DEF Carries
    <3> QED BY <1>13, <1>14, <3>2 DEF UsedBefore
  <2> QED BY <2>3, <2>4, <2>5, <2>6
<1>19. ContentOf' = [e \in Held \ {d} |-> ContentOf[e]]
  BY <1>5, <1>16, <1>18 DEF Viewed
<1>20. OlderThan' = [e \in Held \ {d} |-> OlderThan[e] \ {d}]
  BY <1>5, <1>16, <1>18 DEF Viewed
<1>21. DOMAIN ContentOf = Held
  BY <1>5 DEF Viewed
<1>22. Lru!Evict(d)
  BY <1>1, <1>9, <1>11, <1>14, <1>17, <1>19, <1>20, <1>21 DEF Lru!Evict, Lru!Present, Lru!Restrict
<1> QED BY <1>14, <1>22

\* The common end of store adds its content as the youngest.
LEMMA EndMaps ==
    ASSUME CacheInv, UseInv, NEW d, NEW p, NEW n, Ends(d, p, n),
           Request \in {<< >>, <<d, Bytes(p, n)>>},
           ~ NeedRemove(PagesNeeded(n), n_freed, ObjectsLeft)
    PROVE  Lru!Insert(d, Bytes(p, n))
<1>1. d \in Digests /\ Absent(d) /\ n \in Nat /\ ret' = <<"stored", << >>>> /\ tsc' = tsc + 1
  BY DEF Ends, EndsWith, Insert
<1>2. /\ CacheInv'
      /\ \A j \in Live' : objs'[j] = New(d, n) \/ \E i \in Live : objs'[j] = objs[i]
      /\ \E j \in Live' : objs'[j] = New(d, n)
      /\ \A i \in Live : \E j \in Live' : objs'[j] = objs[i]
  BY InsertKeeps
<1>3. Viewed /\ Viewed'
  BY <1>2, ViewIs, NextView
<1>4. Request' = << >>
  BY EndUse DEF Request
<1>5. Lru!Room(Bytes(p, n))
  BY <1>1, RoomIs, LengthOfBytes
<1>6. New(d, n).digest = d /\ New(d, n).last_used_tsc = tsc + 1
  BY <1>1 DEF New
<1>7. d \notin Held
  BY <1>1, ObjectTypes DEF Absent, Held
<1>8. Held' = Held \cup {d}
  <2>1. Held' = {objs'[i].digest : i \in Live'}
    BY DEF Held
  <2> QED BY <1>2, <1>6, <2>1 DEF Held
<1>9. tsc \in Nat /\ \A i \in Live : objs[i].last_used_tsc \in Nat /\ objs[i].last_used_tsc <= tsc
  BY ObjectTypes, CacheAssumption DEF UseInv, CacheInv, TypesInv
<1>10. \A j : UsedBefore(j)' = {objs'[l].digest : l \in {k \in Live' :
                                 objs'[k].last_used_tsc < objs'[j].last_used_tsc}}
  BY DEF UsedBefore
<1>11. ContentOf'[d] = Bytes(p, n) /\ OlderThan'[d] = Held
  <2>1. PICK j \in Live' : objs'[j] = New(d, n)
    BY <1>2
  <2>2. ContentOf'[d] = Content(objs[j])' /\ OlderThan'[d] = UsedBefore(j)'
    BY <1>3, <1>6, <2>1 DEF Viewed
  <2>3. Content(objs[j])' = Bytes(p, n)
    BY <2>1, InsertContents
  <2>4. UsedBefore(j)' \subseteq Held
    <3>1. ASSUME NEW k \in Live', objs'[k].last_used_tsc < objs'[j].last_used_tsc
          PROVE  objs'[k].digest \in Held
      <4>1. objs'[k] # New(d, n)
        BY <1>6, <1>9, <2>1, <3>1
      <4> QED BY <1>2, <4>1 DEF Held
    <3> QED BY <1>10, <3>1
  <2>5. ASSUME NEW i \in Live PROVE objs[i].digest \in UsedBefore(j)'
    <3>1. PICK k \in Live' : objs'[k] = objs[i]
      BY <1>2
    <3>2. objs'[k].last_used_tsc < objs'[j].last_used_tsc
      BY <1>6, <1>9, <2>1, <3>1
    <3> QED BY <1>10, <3>1, <3>2
  <2>6. UsedBefore(j)' = Held
    BY <2>4, <2>5 DEF Held
  <2> QED BY <2>2, <2>3, <2>6
<1>12. ASSUME NEW e \in Held
       PROVE  ContentOf'[e] = ContentOf[e] /\ OlderThan'[e] = OlderThan[e]
  <2>1. PICK i \in Live : objs[i].digest = e
    BY DEF Held
  <2>2. PICK j \in Live' : objs'[j] = objs[i]
    BY <1>2
  <2>3. ContentOf[e] = Content(objs[i]) /\ OlderThan[e] = UsedBefore(i)
    BY <1>3, <2>1 DEF Viewed
  <2>4. ContentOf'[e] = Content(objs[j])' /\ OlderThan'[e] = UsedBefore(j)'
    BY <1>3, <2>1, <2>2 DEF Viewed
  <2>5. Content(objs[j])' = Content(objs[i])
    BY <2>2, InsertContents DEF Carries
  <2>6. UsedBefore(j)' = UsedBefore(i)
    <3>1. ASSUME NEW k \in Live', objs'[k].last_used_tsc < objs'[j].last_used_tsc
          PROVE  objs'[k].digest \in UsedBefore(i)
      <4>1. objs'[k] # New(d, n)
        BY <1>6, <1>9, <2>2, <3>1
      <4>2. PICK l \in Live : objs'[k] = objs[l]
        BY <1>2, <4>1
      <4> QED BY <2>2, <3>1, <4>2 DEF UsedBefore
    <3>2. ASSUME NEW l \in Live, objs[l].last_used_tsc < objs[i].last_used_tsc
          PROVE  objs[l].digest \in UsedBefore(j)'
      <4>1. PICK k \in Live' : objs'[k] = objs[l]
        BY <1>2
      <4> QED BY <1>10, <2>2, <3>2, <4>1
    <3>3. UsedBefore(j)' \subseteq UsedBefore(i)
      BY <1>10, <3>1
    <3>4. UsedBefore(i) \subseteq UsedBefore(j)'
      BY <3>2 DEF UsedBefore
    <3> QED BY <3>3, <3>4
  <2> QED BY <2>3, <2>4, <2>5, <2>6
<1>13. ContentOf' = [e \in Held \cup {d} |-> IF e = d THEN Bytes(p, n) ELSE ContentOf[e]]
  BY <1>3, <1>7, <1>8, <1>11, <1>12 DEF Viewed
<1>14. OlderThan' = [e \in Held \cup {d} |-> IF e = d THEN Held ELSE OlderThan[e]]
  BY <1>3, <1>7, <1>8, <1>11, <1>12 DEF Viewed
<1>15. DOMAIN ContentOf = Held
  BY <1>3 DEF Viewed
<1> QED BY <1>1, <1>4, <1>5, <1>7, <1>13, <1>14, <1>15 DEF Lru!Insert, Lru!Present

\* Every step of the cache is a step of the map, or leaves it as it is.
LEMMA StepMaps ==
    ASSUME CacheInv, UseInv, [Next]_vars
    PROVE  [Lru!Next]_(Lru!vars)
<1>1. ASSUME NEW d \in Digests, NEW n \in Lens, Load(d, n) PROVE Lru!Next
  <2>1. Lru!Load(d, n)
    BY <1>1, LoadMissMaps, LoadHitMaps DEF Load
  <2> QED BY <2>1 DEF Lru!Next
<1>2. ASSUME NEW d \in Digests, NEW p \in Payloads, NEW n \in Lens, Lru!Insert(d, Bytes(p, n))
      PROVE  Lru!Next
  BY <1>2 DEF Lru!Next
<1>3. ASSUME NEW d \in Digests, NEW p \in Payloads, NEW n \in Lens, Store(d, p, n)
      PROVE  Lru!Next
  <2>1. CASE StoreHit(d)
    BY <2>1, StoreHitMaps DEF Lru!Next
  <2>2. CASE StoreTooBig(d, n)
    BY <2>2, StoreTooBigMaps DEF Lru!Next
  <2>3. CASE StoreFits(d, p, n)
    <3>1. Idle /\ ~ NeedRemove(PagesNeeded(n), n_free_pages, n_cur_objects)
      BY <2>3 DEF StoreFits, Idle
    <3>2. n_free_pages \in Nat
      BY DEF CacheInv, TypesInv
    <3>3. n_freed = n_free_pages /\ ObjectsLeft = n_cur_objects /\ Request = << >>
      BY <3>1, <3>2 DEF n_freed, ObjectsLeft, Request
    <3>4. Ends(d, p, n)
      BY <2>3, StoreFitsEnds
    <3>5. Lru!Insert(d, Bytes(p, n))
      BY <3>1, <3>3, <3>4, EndMaps
    <3> QED BY <1>2, <3>5
  <2>4. CASE BeginEviction(d, p, n)
    BY <2>4, BeginEvictionMaps DEF Lru!Next
  <2> QED BY <1>3, <2>1, <2>2, <2>3, <2>4 DEF Store
<1>4. CASE EvictOne
  BY <1>4, EvictOneMaps DEF Lru!Next
<1>5. CASE FinishStore
  <2>1. ~ Idle /\ LoopEnds
    BY <1>5 DEF FinishStore, Idle
  <2>2. ~ NeedRemove(PagesNeeded(job.len), n_freed, ObjectsLeft)
    BY <2>1, RoomHolds DEF RoomAfterEviction, ObjectsLeft
  <2>3. Ends(job.digest, job.payload, job.len)
    BY <1>5, FinishStoreEnds
  <2>4. Request = <<job.digest, Bytes(job.payload, job.len)>>
    BY <2>1 DEF Request
  <2>5. Lru!Insert(job.digest, Bytes(job.payload, job.len))
    BY <2>2, <2>3, <2>4, EndMaps
  <2>6. job.digest \in Digests /\ job.payload \in Payloads /\ job.len \in Lens
    BY <2>1 DEF UseInv, CacheInv, JobInv, Jobs
  <2> QED BY <1>2, <2>5, <2>6
<1>6. CASE UNCHANGED vars
  <2>1. UNCHANGED <<objs, pool>> /\ job' = job /\ ret' = ret
    BY <1>6 DEF vars, pool
  <2>2. Request' = Request
    BY <2>1 DEF Request, Idle, Bytes
  <2> QED BY <2>1, <2>2, SameMap DEF Lru!vars
<1> QED BY <1>1, <1>3, <1>4, <1>5, <1>6 DEF Next

\* ImplementsLru: whatever DuckCache does with descriptors, chains and pages,
\* its callers see a map from digests to contents of limited capacity.  A load
\* returns what was stored under the digest and makes it the youngest; a store
\* that finds no room evicts the oldest contents, one by one and only until
\* there is room, and then adds its own.
THEOREM CacheIsLru == Spec => ImplementsLru
<1>1. Init => Lru!Init
  <2> SUFFICES ASSUME Init PROVE Lru!Init
    OBVIOUS
  <2>1. Held = {} /\ Idle
    BY DEF Init, Held, Live, n_cur_objects, Idle
  <2>2. ContentOf = [d \in {} |-> << >>] /\ OlderThan = [d \in {} |-> {}] /\ Request = << >>
    BY <2>1 DEF ContentOf, OlderThan, Request
  <2> QED BY <2>2 DEF Lru!Init, Init
<1>2. Init => UseInv
  BY DEF Init, UseInv, n_cur_objects, Idle
<1>3. CacheInv /\ UseInv /\ [Next]_vars => UseInv'
  BY UseNext
<1>4. CacheInv /\ UseInv /\ [Next]_vars => [Lru!Next]_(Lru!vars)
  BY StepMaps
<1> QED BY <1>1, <1>2, <1>3, <1>4, CacheCorrect, PTL DEF Spec, ImplementsLru, Lru!Spec
=============================================================================
