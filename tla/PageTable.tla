----------------------------- MODULE PageTable ------------------------------
(***************************************************************************)
(* The page table that the driver builds for the duck kernel               *)
(* (driver/page_table.c): the low mapping of init_page_table, made once by *)
(* init_memory, and the pages of the kernel image and its stack that every *)
(* load_firmware (driver/firmware.c) maps at their Linux addresses with    *)
(* map_page, so that the processor can fetch its next instruction when the *)
(* wrapper switches to this table.                                         *)
(*                                                                         *)
(* The ioctl that loads the firmware takes no lock: clients are threads    *)
(* that may all be in map_page.  The steps of a thread are its accesses to *)
(* shared memory.  An optimised build keeps in a register what it has just *)
(* read or stored, so that no entry and no counter is read twice; memset   *)
(* is one step.                                                            *)
(*                                                                         *)
(* Addresses are counted in pages, except the size of the firmware.  A     *)
(* table is a function from indices to entries; a block that has not been  *)
(* allocated yet holds what an earlier use of the memory left there.       *)
(***************************************************************************)
EXTENDS Integers

CONSTANTS Clients,
          PAGE_SIZE,          \* bytes in a page
          PT_ENTRIES,
          phys_base_addr,     \* MEM_START
          virt_base_addr,     \* mem_virt, where Linux maps the memory
          total_size,         \* MEM_SIZE
          Reserved,           \* blocks set aside for map_page, 50 in the code
          KERNEL_SIZE, KERNEL_STACK_SIZE,
          KERNEL_OFFSET,      \* bytes
          Sizes,              \* sizes of firmware files, in bytes
          MaxLoads            \* bound on the calls of load_firmware

VARIABLES mem,                \* the blocks below page_table_break
          next_block_phys_addr,
          P4_base,
          init,               \* the local variables of init_page_table_4k
          thread,             \* the local variables of each client
          size,               \* the firmware loaded last, 0 for none
          loads,              \* the calls made so far
          overlapped          \* some load_firmware has begun during another

vars == <<mem, next_block_phys_addr, P4_base, init, thread, size, loads, overlapped>>

----------------------------------------------------------------------------
(* Blocks and entries *)

div_round_up(x, y) == (x + y - 1) \div y
min(x, y) == IF x < y THEN x ELSE y

\* Mutant: no blocks for the second level of the low mapping.
num_blocks_without_P2 == Reserved + div_round_up(total_size, PT_ENTRIES) + 3

num_blocks == Reserved + div_round_up(total_size, PT_ENTRIES)
                       + div_round_up(total_size, PT_ENTRIES * PT_ENTRIES) + 3

page_table_break == phys_base_addr + num_blocks
page_table_size == page_table_break - phys_base_addr

Index == 0..(PT_ENTRIES - 1)
Absent == [p |-> FALSE, h |-> FALSE, to |-> 0]
Entry(phys) == [p |-> TRUE, h |-> FALSE, to |-> phys]
HugeEntry(phys) == [p |-> TRUE, h |-> TRUE, to |-> phys]
Stale == [i \in Index |-> Entry(0)]
Zeroed == [i \in Index |-> Absent]

P4_index(v) == (v \div (PT_ENTRIES * PT_ENTRIES * PT_ENTRIES)) % PT_ENTRIES
P3_index(v) == (v \div (PT_ENTRIES * PT_ENTRIES)) % PT_ENTRIES
P2_index(v) == (v \div PT_ENTRIES) % PT_ENTRIES
P1_index(v) == v % PT_ENTRIES
LevelIndex(level, v) ==
    CASE level = 4 -> P4_index(v) [] level = 3 -> P3_index(v)
      [] level = 2 -> P2_index(v) [] level = 1 -> P1_index(v)

\* What the processor finds at page v, 0 if it faults.
Translate(m, P4, v) ==
    LET Table(e) == e.p /\ ~e.h /\ e.to \in DOMAIN m
        e4 == m[P4][P4_index(v)]
        e3 == m[e4.to][P3_index(v)]
        e2 == m[e3.to][P2_index(v)]
        e1 == m[e2.to][P1_index(v)]
    IN  CASE Table(e4) /\ e3.h -> e3.to + (v % (PT_ENTRIES * PT_ENTRIES))
          [] Table(e4) /\ Table(e3) /\ Table(e2) /\ e1.p -> e1.to
          [] OTHER -> 0

\* A store through PTE.  Block 0, which alloc_block returns when it fails, is
\* not in the memory; BlocksSuffice says that it is never stored to.
Store(m, block, i, e) ==
    IF block \in DOMAIN m THEN [m EXCEPT ![block][i] = e] ELSE m

----------------------------------------------------------------------------
(* init_page_table, called once, before any client: a step for each block  *)
(* that init_page_table_4k allocates, with the entries written before the  *)
(* next allocation.                                                        *)

\* What alloc_block returns, and the memory it leaves, when the counter is next.
alloc_block(next) == IF next + 1 > page_table_break THEN 0 ELSE next
Cleared(m, next) == IF next + 1 > page_table_break THEN m ELSE [m EXCEPT ![next] = Zeroed]

\* A loop that stores e[i] in the entries i < n of a block.
StoreAll(m, block, n, e) ==
    IF block \in DOMAIN m
    THEN [m EXCEPT ![block] = [i \in Index |-> IF i < n THEN e[i] ELSE m[block][i]]]
    ELSE m

P3_PAGE == PT_ENTRIES * PT_ENTRIES
P2Num == div_round_up(total_size, P3_PAGE)
P1Num(P3Idx) == min(div_round_up(total_size - P3Idx * P3_PAGE, PT_ENTRIES), PT_ENTRIES)
P0Num(P3Idx, P2Idx) == min(total_size - P3Idx * P3_PAGE - P2Idx * PT_ENTRIES, PT_ENTRIES)

\* Mutant: the index of the gigabyte is forgotten.
P0_in_P2(P3Idx, P2Idx, P1Idx) == P2Idx * PT_ENTRIES + P1Idx

P0(P3Idx, P2Idx, P1Idx) == P3Idx * P3_PAGE + P2Idx * PT_ENTRIES + P1Idx

\* init_page_table sets the counter; the first block is the root, which maps itself.
add_P4 ==
    LET P4 == alloc_block(phys_base_addr)
    IN  /\ init.pc = "P4"
        /\ mem' = Store(Cleared(mem, phys_base_addr), P4, PT_ENTRIES - 1, Entry(P4))
        /\ next_block_phys_addr' = phys_base_addr + 1
        /\ init' = [init EXCEPT !.pc = "P3Upp", !.P4 = P4]
        /\ UNCHANGED <<P4_base, thread, size, loads, overlapped>>

\* A block that the next step of init_page_table_4k takes and enters in a table.
Link(table, i) ==
    Store(Cleared(mem, next_block_phys_addr), table, i, Entry(alloc_block(next_block_phys_addr)))

add_P3Upp ==
    /\ init.pc = "P3Upp"
    /\ mem' = StoreAll(Link(init.P4, PT_ENTRIES - 2), alloc_block(next_block_phys_addr),
                       PT_ENTRIES, [i \in Index |-> HugeEntry(i * P3_PAGE)])
    /\ next_block_phys_addr' = next_block_phys_addr + 1
    /\ init' = [init EXCEPT !.pc = "P3Low"]
    /\ UNCHANGED <<P4_base, thread, size, loads, overlapped>>

add_P3Low ==
    /\ init.pc = "P3Low"
    /\ mem' = Link(init.P4, 0)
    /\ next_block_phys_addr' = next_block_phys_addr + 1
    /\ init' = [init EXCEPT !.pc = "P2", !.P3Low = alloc_block(next_block_phys_addr)]
    /\ UNCHANGED <<P4_base, thread, size, loads, overlapped>>

\* The loop over the gigabytes of the memory ...
add_P2 ==
    /\ init.pc = "P2" /\ init.P3Idx < P2Num
    /\ mem' = Link(init.P3Low, init.P3Idx)
    /\ next_block_phys_addr' = next_block_phys_addr + 1
    /\ init' = [init EXCEPT !.pc = "P1", !.P2 = alloc_block(next_block_phys_addr), !.P2Idx = 0]
    /\ UNCHANGED <<P4_base, thread, size, loads, overlapped>>

\* ... and the loop over the tables of each.
add_P1 ==
    /\ init.pc = "P1" /\ init.P2Idx < P1Num(init.P3Idx)
    /\ mem' = StoreAll(Link(init.P2, init.P2Idx), alloc_block(next_block_phys_addr),
                       P0Num(init.P3Idx, init.P2Idx),
                       [i \in Index |-> Entry(P0(init.P3Idx, init.P2Idx, i) + phys_base_addr)])
    /\ next_block_phys_addr' = next_block_phys_addr + 1
    /\ init' = [init EXCEPT !.P2Idx = @ + 1]
    /\ UNCHANGED <<P4_base, thread, size, loads, overlapped>>

next_P2 ==
    /\ init.pc = "P1" /\ ~(init.P2Idx < P1Num(init.P3Idx))
    /\ init' = [init EXCEPT !.pc = "P2", !.P3Idx = @ + 1]
    /\ UNCHANGED <<mem, next_block_phys_addr, P4_base, thread, size, loads, overlapped>>

return_P4 ==
    /\ init.pc = "P2" /\ ~(init.P3Idx < P2Num)
    /\ P4_base' = init.P4
    /\ init' = [init EXCEPT !.pc = "done"]
    /\ UNCHANGED <<mem, next_block_phys_addr, thread, size, loads, overlapped>>

init_page_table ==
    add_P4 \/ add_P3Upp \/ add_P3Low \/ add_P2 \/ add_P1 \/ next_P2 \/ return_P4

----------------------------------------------------------------------------
(* load_firmware and map_page *)

TooLarge(sz) == sz > (KERNEL_SIZE - KERNEL_STACK_SIZE - page_table_size) * PAGE_SIZE

\* Mutant: the last page, if it is not full, is left out.
num_pages_full(sz) == (sz + KERNEL_OFFSET) \div PAGE_SIZE

num_pages(sz) == (sz + KERNEL_OFFSET + PAGE_SIZE - 1) \div PAGE_SIZE

\* The offset in the memory of the k-th page that load_firmware maps: first
\* those of the image, then those of the stack.
PageOffset(sz, k) ==
    IF k <= num_pages(sz) THEN page_table_size + k - 1
    ELSE KERNEL_SIZE - KERNEL_STACK_SIZE + (k - num_pages(sz) - 1)

Idle == [pc |-> "idle", size |-> 0, page |-> 0, level |-> 0, table |-> 0, block |-> 0]
Quiet == \A c \in Clients : thread[c] = Idle

\* A thread about to read a table for the k-th page; map_page begins at the root.
Reading(sz, k, level, table) == [pc |-> "look", size |-> sz, page |-> k, level |-> level,
                                 table |-> table, block |-> 0]
MapPage(sz, k) == Reading(sz, k, 4, P4_base)

\* A firmware that is too large is refused and nothing changes.
load_firmware(c, sz) ==
    /\ P4_base # 0 /\ thread[c] = Idle /\ ~TooLarge(sz)
    /\ thread' = [thread EXCEPT ![c] = MapPage(sz, 1)]
    /\ loads < MaxLoads
    /\ size' = sz
    /\ loads' = loads + 1
    /\ overlapped' = (overlapped \/ ~Quiet)
    /\ UNCHANGED <<mem, next_block_phys_addr, P4_base, init>>

\* A walk is in the blocks set aside for tables.  When calls have overlapped
\* it may leave them: counters and tables that were lost use up the blocks, and
\* a block that serves two levels leads a walk to a page of the image.  What a
\* walk reads and overwrites there is not followed further.
InBlocks(c) == thread[c] # Idle => thread[c].table \in DOMAIN mem

At(c, pc) == thread[c].pc = pc /\ InBlocks(c)
Offset(c) == PageOffset(thread[c].size, thread[c].page)
ThreadIndex(c) == LevelIndex(thread[c].level, virt_base_addr + Offset(c))
Found(c) == mem[thread[c].table][ThreadIndex(c)]

\* One level down, into table t.
Descend(c, t) == [thread EXCEPT ![c] = Reading(@.size, @.page, @.level - 1, t)]

\* The entry of an upper level is read: it leads to the next table, or a
\* block is needed.
look(c) ==
    /\ At(c, "look") /\ thread[c].level > 1
    /\ thread' = IF Found(c).p THEN Descend(c, Found(c).to)
                 ELSE [thread EXCEPT ![c].pc = "read_next"]
    /\ UNCHANGED <<mem, next_block_phys_addr, P4_base, init, size, loads, overlapped>>

\* alloc_block reads the counter, ...
read_next(c) ==
    /\ At(c, "read_next")
    /\ thread' = [thread EXCEPT ![c].pc = "bump_next", ![c].block = next_block_phys_addr]
    /\ UNCHANGED <<mem, next_block_phys_addr, P4_base, init, size, loads, overlapped>>

\* ... writes it back, compares it, ...
bump_next(c) ==
    LET next == thread[c].block + 1
    IN  /\ At(c, "bump_next")
        /\ next_block_phys_addr' = next
        /\ thread' = IF next > page_table_break
                     THEN [thread EXCEPT ![c].pc = "store", ![c].block = 0]
                     ELSE [thread EXCEPT ![c].pc = "clear"]
        /\ UNCHANGED <<mem, P4_base, init, size, loads, overlapped>>

\* ... and clears the block.
clear(c) ==
    /\ At(c, "clear")
    /\ mem' = [mem EXCEPT ![thread[c].block] = Zeroed]
    /\ thread' = [thread EXCEPT ![c].pc = "store"]
    /\ UNCHANGED <<next_block_phys_addr, P4_base, init, size, loads, overlapped>>

\* map_page enters the block in the table above.
store(c) ==
    /\ At(c, "store")
    /\ mem' = Store(mem, thread[c].table, ThreadIndex(c), Entry(thread[c].block))
    /\ thread' = Descend(c, thread[c].block)
    /\ UNCHANGED <<next_block_phys_addr, P4_base, init, size, loads, overlapped>>

\* The last level: an entry that is there stays (map_page returns -1, which
\* load_firmware ignores).  All clients store the same value here, so reading
\* and storing are one step.  Then comes the next page, or the end.
map_last(c) ==
    /\ At(c, "look") /\ thread[c].level = 1
    /\ mem' = IF Found(c).p THEN mem
              ELSE Store(mem, thread[c].table, ThreadIndex(c), Entry(phys_base_addr + Offset(c)))
    /\ LET t == thread[c]
       IN  thread' = [thread EXCEPT ![c] = IF t.page < num_pages(t.size) + KERNEL_STACK_SIZE
                                           THEN MapPage(t.size, t.page + 1) ELSE Idle]
    /\ UNCHANGED <<next_block_phys_addr, P4_base, init, size, loads, overlapped>>

Init ==
    /\ mem = [b \in phys_base_addr..(page_table_break - 1) |-> Stale]
    /\ next_block_phys_addr = 0 /\ P4_base = 0
    /\ init = [pc |-> "P4", P4 |-> 0, P3Low |-> 0, P2 |-> 0, P3Idx |-> 0, P2Idx |-> 0]
    /\ thread = [c \in Clients |-> Idle]
    /\ size = 0 /\ loads = 0 /\ overlapped = FALSE

Next ==
    \/ init_page_table
    \/ \E c \in Clients : \/ \E sz \in Sizes : load_firmware(c, sz)
                          \/ look(c) \/ read_next(c) \/ bump_next(c)
                          \/ clear(c) \/ store(c) \/ map_last(c)

Spec == Init /\ [][Next]_vars

----------------------------------------------------------------------------
(* What the constants of the driver satisfy *)

\* The memory fits in one entry of the root, as 512 MiB do.
ASSUME TableAssumption ==
    /\ PAGE_SIZE \in Nat \ {0} /\ PT_ENTRIES \in Nat \ {0}
    /\ phys_base_addr \in Nat \ {0}
    /\ total_size \in 1..(PT_ENTRIES * PT_ENTRIES * PT_ENTRIES)
    /\ Reserved \in Nat

\* What load_firmware takes its sizes from; Linux finds no empty firmware.
ASSUME FirmwareAssumption ==
    /\ Sizes \subseteq Nat \ {0}
    /\ KERNEL_SIZE \in 1..total_size /\ KERNEL_STACK_SIZE \in Nat \ {0}
    /\ page_table_size + KERNEL_STACK_SIZE <= KERNEL_SIZE
    /\ KERNEL_OFFSET \in 0..(KERNEL_STACK_SIZE * PAGE_SIZE)

\* Linux maps no memory of the kernel through the entries of the root that
\* init_page_table_4k uses: 0 is for processes, the last two for its own image.
ASSUME LinuxAssumption ==
    LET P4_PAGE == PT_ENTRIES * PT_ENTRIES * PT_ENTRIES
    IN  /\ virt_base_addr \in Nat /\ P4_PAGE <= virt_base_addr
        /\ virt_base_addr + total_size <= (PT_ENTRIES - 2) * P4_PAGE

\* The tables, each mapping span pages, that image and stack may need.
TablesNeeded(span) == (virt_base_addr + KERNEL_SIZE - 1) \div span
                      - (virt_base_addr + page_table_size) \div span + 1

ASSUME ReservedAssumption ==
    TablesNeeded(PT_ENTRIES) + TablesNeeded(PT_ENTRIES * PT_ENTRIES)
        + TablesNeeded(PT_ENTRIES * PT_ENTRIES * PT_ENTRIES) <= Reserved

----------------------------------------------------------------------------
(* As long as calls do not overlap, the blocks set aside suffice for any    *)
(* number of calls with images of any sizes: alloc_block never fails, whose *)
(* 0 every caller would use as a table, and no walk leaves the blocks.      *)
BlocksSuffice ==
    ~overlapped => /\ next_block_phys_addr <= page_table_break
                   /\ \A c \in Clients : InBlocks(c)

(* What the comments of init_page_table_4k promise to the duck kernel holds *)
(* from then on, however many clients race in load_firmware and whatever    *)
(* they lose of each other's work, until a walk leaves the blocks: the      *)
(* memory is at [0, total_size), all physical memory (the first and the     *)
(* last page of each huge page) at the remapped addresses, and every table  *)
(* of the next level at the recursive ones.                                 *)
LowMappingHolds ==
    P4_base # 0 =>
        /\ \A v \in 0..(total_size - 1) : Translate(mem, P4_base, v) = phys_base_addr + v
        /\ \A i \in Index, rest \in {0, P3_PAGE - 1} :
              LET p == i * P3_PAGE + rest
              IN  Translate(mem, P4_base, (PT_ENTRIES - 2) * PT_ENTRIES * P3_PAGE + p) = p
        /\ \A i \in Index : mem[P4_base][i].p =>
              Translate(mem, P4_base, (PT_ENTRIES - 1) * (PT_ENTRIES * P3_PAGE + P3_PAGE + PT_ENTRIES) + i)
                  = mem[P4_base][i].to

(* When load_firmware returns and no two calls have overlapped, every byte  *)
(* of the image and of the stack is where it is in Linux: the instruction   *)
(* after the switch of CR3 can be fetched and the stack used.  This holds   *)
(* for every size that passes the check, also when the offset, which the    *)
(* check leaves out, pushes the end of the image into the stack's first     *)
(* page, and for an image that is loaded over a smaller or a larger one.    *)
SwitchIsMapped ==
    size # 0 /\ Quiet /\ ~overlapped =>
        /\ \A byte \in 0..(KERNEL_OFFSET + size - 1) :
              LET off == page_table_size + byte \div PAGE_SIZE
              IN  Translate(mem, P4_base, virt_base_addr + off) = phys_base_addr + off
        /\ \A off \in (KERNEL_SIZE - KERNEL_STACK_SIZE)..(KERNEL_SIZE - 1) :
              Translate(mem, P4_base, virt_base_addr + off) = phys_base_addr + off
=============================================================================
