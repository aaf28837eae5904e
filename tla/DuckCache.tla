----------------------------- MODULE DuckCache ------------------------------
(***************************************************************************)
(* The content cache of the judge kernel, kern/duck_cache.cpp: an array of *)
(* object descriptors sorted by digest, and a pool of pages threaded into  *)
(* one chain per object and one free list through the first word of each   *)
(* page.                                                                   *)
(*                                                                         *)
(* store is one action when it evicts nothing.  Otherwise it is a sequence *)
(* of actions that nothing interleaves with: BeginEviction, one EvictOne   *)
(* per iteration of the eviction loop, and FinishStore for everything that *)
(* follows the loop.  A digest is a pair: its first word, which the code   *)
(* calls the hash, and the rest.  A byte of a payload p is <<p, i>>.       *)
(***************************************************************************)
EXTENDS Integers, Sequences, SequencesExt

CONSTANTS NPages,       \* n_total_pages
          ContentSize,  \* ONE_PAGE_CONTENT_SIZE, in bytes
          MaxObjects,   \* n_max_objects
          Digests,      \* the digests callers use, pairs of numbers
          Payloads,     \* what callers store
          Lens,         \* the lengths callers pass
          MaxTsc        \* bound: the clock readings of a behaviour

ASSUME CacheAssumption ==
    /\ NPages \in Nat /\ NPages >= 2
    /\ ContentSize \in Nat \ {0}
    /\ MaxObjects \in Nat \ {0}
    /\ Digests \subseteq Nat \X Nat
    /\ Lens \subseteq Nat
    /\ MaxTsc \in Nat

VARIABLES objs,           \* obj_hash, obj_digest and obj_metadata, index by index
          next,           \* the first word of each page
          page,           \* the content words of each page
          free_list_addr,
          n_free_pages,
          tsc,            \* the time stamp counter
          job,            \* the store that is evicting: << >> or a record
          ret             \* what the last call returned, and the bytes it loaded

vars == <<objs, next, page, free_list_addr, n_free_pages, tsc, job, ret>>
pool == <<next, page, free_list_addr, n_free_pages>>

NULL == 0
Pages == 1..NPages
Cells == 1..ContentSize
n_cur_objects == Len(objs)
Unwritten == <<"unwritten", 0>>

(* The src buffer of a call that stores len bytes of payload p.              *)
Bytes(p, len) == [i \in 1..len |-> <<p, i>>]
-----------------------------------------------------------------------------
(* Mutant: an empty content takes no page.                                   *)
PagesNeededOrNone(len) == (len + ContentSize - 1) \div ContentSize

(* Lines 168 and 195: pages needed by len bytes; an empty content takes one. *)
PagesNeeded(len) == Max({(len + ContentSize - 1) \div ContentSize, 1})

(* The first n addresses met when following next pointers from addr.         *)
Walk(addr, n) ==
    LET at[k \in 1..n] ==
            IF k = 1 THEN addr
            ELSE IF at[k - 1] = NULL THEN NULL ELSE next[at[k - 1]]
    IN  at

cmp_digest(a, b) ==
    IF a = b THEN 0
    ELSE IF a[1] < b[1] \/ (a[1] = b[1] /\ a[2] < b[2]) THEN -1 ELSE 1

(* find: lower_bound and upper_bound on the hash, then a scan of that range. *)
FirstIndex(os, from, Test(_)) ==
    Min({i \in from..Len(os) : Test(os[i])} \cup {Len(os) + 1})

find(os, digest) ==
    LET idx1 == FirstIndex(os, 1, LAMBDA o : o.digest[1] >= digest[1])
        idx2 == FirstIndex(os, idx1, LAMBDA o : o.digest[1] > digest[1])
        idx == Min({i \in idx1..(idx2 - 1) : cmp_digest(os[i].digest, digest) >= 0}
                   \cup {idx2})
    IN  [found |-> idx < idx2 /\ cmp_digest(os[idx].digest, digest) = 0, idx |-> idx]

(* What load copies: byte i of the object comes from the page of its chain   *)
(* that holds it.                                                            *)
Content(o) ==
    [i \in 1..o.len |->
        LET addr == Walk(o.start_addr, PagesNeeded(o.len))[((i - 1) \div ContentSize) + 1]
        IN  IF addr = NULL THEN Unwritten ELSE page[addr][((i - 1) % ContentSize) + 1]]
-----------------------------------------------------------------------------
Init ==
    /\ objs = << >>
    /\ next = [a \in Pages |-> IF a = NPages THEN NULL ELSE a + 1]
    /\ page = [a \in Pages |-> [i \in Cells |-> Unwritten]]
    /\ free_list_addr = 1
    /\ n_free_pages = NPages
    /\ tsc = 0
    /\ job = << >>
    /\ ret = <<"none", << >>>>

(* load: a hit of the required length refreshes last_used_tsc.               *)
LoadMiss(digest, required_len) ==
    LET f == find(objs, digest)
    IN  /\ job = << >>
        /\ ~ (f.found /\ objs[f.idx].len = required_len)
        /\ ret' = <<"miss", << >>>>
        /\ UNCHANGED <<objs, pool, tsc, job>>

LoadHit(digest, required_len) ==
    LET f == find(objs, digest)
    IN  /\ job = << >>
        /\ f.found /\ objs[f.idx].len = required_len
        /\ tsc < MaxTsc
        /\ tsc' = tsc + 1
        /\ objs' = [objs EXCEPT ![f.idx].last_used_tsc = tsc']
        /\ ret' = <<"loaded", Content(objs[f.idx])>>
        /\ UNCHANGED <<pool, job>>

(* The early returns of store.                                               *)
StoreHit(digest) ==
    /\ job = << >>
    /\ find(objs, digest).found
    /\ ret' = <<"stored", << >>>>
    /\ UNCHANGED <<objs, pool, tsc, job>>

StoreTooBig(digest, len) ==
    /\ job = << >>
    /\ ~ find(objs, digest).found
    /\ PagesNeeded(len) > NPages
    /\ ret' = <<"refused", << >>>>
    /\ UNCHANGED <<objs, pool, tsc, job>>

(* Mutant: the descriptor of the new object is not counted.                  *)
NeedRemoveOffByOne(n_need_pages, n_free, n_objects) ==
    n_need_pages > n_free \/ n_objects > MaxObjects

NeedRemove(n_need_pages, n_free, n_objects) ==
    n_need_pages > n_free \/ n_objects + 1 > MaxObjects

(* Lines 240-270: insert at idx, copy through the free list, take the pages  *)
(* off it.                                                                   *)
Insert(os, idx, digest, payload, len, n_free) ==
    LET n_copied == (len + ContentSize - 1) \div ContentSize
        chain == Walk(free_list_addr, PagesNeeded(len) + 1)
        written(a, i) == {k \in 1..n_copied : chain[k] = a /\ (k - 1) * ContentSize + i <= len}
    IN  /\ tsc < MaxTsc
        /\ tsc' = tsc + 1
        /\ objs' = InsertAt(os, idx, [digest |-> digest, last_used_tsc |-> tsc',
                                      start_addr |-> free_list_addr, len |-> len])
        /\ page' = [a \in Pages |-> [i \in Cells |->
                      IF written(a, i) = {} THEN page[a][i]
                      ELSE <<payload, (Max(written(a, i)) - 1) * ContentSize + i>>]]
        /\ free_list_addr' = chain[PagesNeeded(len) + 1]
        /\ n_free_pages' = n_free - PagesNeeded(len)
        /\ job' = << >>
        /\ ret' = <<"stored", << >>>>
        /\ UNCHANGED next

StoreFits(digest, payload, len) ==
    /\ job = << >>
    /\ ~ find(objs, digest).found
    /\ ~ NeedRemove(PagesNeeded(len), n_free_pages, n_cur_objects)
    /\ Insert(objs, find(objs, digest).idx, digest, payload, len, n_free_pages)

(* What std::sort may leave in sort_ids: the indices, none before an object  *)
(* that was used earlier.                                                    *)
SortedByUse ==
    {ids \in Injection(1..n_cur_objects, 1..n_cur_objects) :
        \A i, j \in 1..n_cur_objects :
            i < j => objs[ids[i]].last_used_tsc <= objs[ids[j]].last_used_tsc}

BeginEviction(digest, payload, len) ==
    /\ job = << >>
    /\ ~ find(objs, digest).found
    /\ PagesNeeded(len) <= NPages
    /\ NeedRemove(PagesNeeded(len), n_free_pages, n_cur_objects)
    /\ \E ids \in SortedByUse :
          job' = [digest |-> digest, payload |-> payload, len |-> len,
                  idx |-> find(objs, digest).idx, ids |-> ids,
                  n_removed_pages |-> 0, n_removed_objects |-> 0, still_need_remove |-> TRUE]
    /\ UNCHANGED <<objs, pool, tsc, ret>>

(* Mutant: the loop ends one object early.                                   *)
LoopEndsEarly == ~ job.still_need_remove \/ job.n_removed_objects + 1 >= n_cur_objects

LoopEnds == ~ job.still_need_remove \/ job.n_removed_objects = n_cur_objects

(* Mutant: the chain replaces the free list instead of joining it.           *)
LinkToNothing(addr) == [a \in Pages |-> IF a = addr THEN NULL ELSE next[a]]

(* The last page of an evicted chain is followed by the free list.           *)
LinkToFreeList(addr) == [a \in Pages |-> IF a = addr THEN free_list_addr ELSE next[a]]

(* One iteration of the loop of line 191.                                    *)
EvictOne ==
    /\ job # << >>
    /\ ~ LoopEnds
    /\ LET id == job.ids[job.n_removed_objects + 1]
           o == objs[id]
           n_pages == PagesNeeded(o.len)
           addr == Walk(o.start_addr, n_pages)[n_pages]
           removed_pages == job.n_removed_pages + n_pages
           removed_objects == job.n_removed_objects + 1
       IN  /\ objs' = [objs EXCEPT ![id].last_used_tsc = 0]
           /\ next' = LinkToFreeList(addr)
           /\ free_list_addr' = o.start_addr
           /\ job' = [job EXCEPT
                  !.n_removed_pages = removed_pages,
                  !.n_removed_objects = removed_objects,
                  !.still_need_remove = NeedRemove(PagesNeeded(job.len),
                      n_free_pages + removed_pages, n_cur_objects - removed_objects)]
    /\ UNCHANGED <<page, n_free_pages, tsc, ret>>

(* Mutant: NDEBUG drops the assertion, and with it the second find (an index *)
(* past the end would crash: it is brought back to the end).                 *)
InsertionPointStale(os, j) == Min({j.idx, Len(os) + 1})

(* The objects that are left move together, in their order: at tells where   *)
(* each comes from.                                                          *)
Live == {i \in 1..n_cur_objects : objs[i].last_used_tsc # 0}

Defrag ==
    {at \in Bijection(1..Cardinality(Live), Live) :
        \A i, j \in 1..Cardinality(Live) : i < j => at[i] < at[j]}

(* Inside the assertion of line 237, the place of the new object is looked   *)
(* up again.                                                                 *)
InsertionPoint(os, j) == find(os, j.digest).idx

FinishStore ==
    /\ job # << >>
    /\ LoopEnds
    /\ \E at \in Defrag :
          LET kept == [k \in DOMAIN at |-> objs[at[k]]]
          IN  Insert(kept, InsertionPoint(kept, job), job.digest, job.payload, job.len,
                     n_free_pages + job.n_removed_pages)

Load(d, n) == LoadMiss(d, n) \/ LoadHit(d, n)

Store(d, p, n) ==
    \/ StoreHit(d)
    \/ StoreTooBig(d, n)
    \/ StoreFits(d, p, n)
    \/ BeginEviction(d, p, n)

Next ==
    \/ \E d \in Digests, n \in Lens : Load(d, n)
    \/ \E d \in Digests, p \in Payloads, n \in Lens : Store(d, p, n)
    \/ EvictOne
    \/ FinishStore

Spec == Init /\ [][Next]_vars
-----------------------------------------------------------------------------
Objects == [digest : Digests, last_used_tsc : 0..MaxTsc, start_addr : Pages, len : Nat]
Idle == job = << >>

TypeOK ==
    /\ \A i \in 1..Len(objs) : objs[i] \in Objects
    /\ next \in [Pages -> Pages \cup {NULL}]
    /\ \A a \in Pages : DOMAIN page[a] = Cells
    /\ free_list_addr \in Pages \cup {NULL}
    /\ n_free_pages \in 0..NPages
    /\ tsc \in 0..MaxTsc

(* No page is lost, shared or reached twice: between calls and between any   *)
(* two iterations of the eviction loop, the chains of the live objects and   *)
(* the free list are disjoint, end where their lengths say and together are  *)
(* all the pages.                                                            *)
n_freed == n_free_pages + IF Idle THEN 0 ELSE job.n_removed_pages
FreeChain == Walk(free_list_addr, n_freed + 1)
Chain(i) == Walk(objs[i].start_addr, PagesNeeded(objs[i].len))
FreePages == {FreeChain[k] : k \in 1..n_freed}
PagesOf(i) == {Chain(i)[k] : k \in DOMAIN Chain(i)}

PagesPartitioned ==
    /\ FreeChain[n_freed + 1] = NULL
    /\ Cardinality(FreePages) = n_freed
    /\ \A i \in Live : Cardinality(PagesOf(i)) = PagesNeeded(objs[i].len)
    /\ \A i \in Live : PagesOf(i) \cap FreePages = {}
    /\ \A i, j \in Live : i # j => PagesOf(i) \cap PagesOf(j) = {}
    /\ FreePages \cup UNION {PagesOf(i) : i \in Live} = Pages

(* The descriptors stay strictly sorted by digest, whatever is evicted and   *)
(* inserted, which is what the binary searches of find rely on.              *)
SortedByDigest ==
    \A i, j \in 1..n_cur_objects :
        i < j => cmp_digest(objs[i].digest, objs[j].digest) = -1

(* Nothing is re-checked after the eviction loop: when it ends there must be *)
(* enough free pages and a free descriptor for the content that caused it    *)
(* (the "enough space?" of line 167).                                        *)
RoomAfterEviction ==
    (~ Idle /\ LoopEnds) =>
        ~ NeedRemove(PagesNeeded(job.len), n_freed, n_cur_objects - job.n_removed_objects)
-----------------------------------------------------------------------------
(* The least-recently-used map that the pages and descriptors represent: a   *)
(* digest that is held has the content of its object, and is younger than    *)
(* the digests whose objects were used before.                               *)
Held == {objs[i].digest : i \in Live}
IndexOf(d) == CHOOSE i \in Live : objs[i].digest = d
UsedBefore(i) ==
    {objs[j].digest : j \in {k \in Live : objs[k].last_used_tsc < objs[i].last_used_tsc}}

ContentOf == [d \in Held |-> Content(objs[IndexOf(d)])]
OlderThan == [d \in Held |-> UsedBefore(IndexOf(d))]
Request == IF Idle THEN << >> ELSE <<job.digest, Bytes(job.payload, job.len)>>

Lru == INSTANCE LruCache WITH
    Contents <- {Bytes(p, n) : p \in Payloads, n \in Lens},
    Lengths <- Lens,
    PagesFor <- PagesNeeded,
    Capacity <- NPages,
    content <- ContentOf,
    older <- OlderThan,
    request <- Request,
    result <- ret

(* Whatever happens to the pages, a caller sees a least-recently-used map:   *)
(* loads return what was stored, and only the oldest contents are evicted,   *)
(* one at a time and only while there is no room.                            *)
ImplementsLru == Lru!Spec
=============================================================================
