-------------------------------- MODULE Mmap --------------------------------
(***************************************************************************)
(* The mapping contexts of arch/x86_64/mmap.c and the system calls of      *)
(* api/kapi_syscall.c that use them.  Every process has a context of its   *)
(* own (libc and System V shared memory have one more each), but there is  *)
(* one page table: nothing loads CR3 after boot.  None of these functions  *)
(* gives up the CPU, so each is one step.                                  *)
(*                                                                         *)
(* No mapping has a file (mmap_do_mmap stores NULL in area->file), so the  *)
(* write-back branches, the offset and the DIRTY, COW and POPULATED flags  *)
(* that only they read are left out.  Protection bits are left out too,    *)
(* and with them mmap_do_mprotect, which changes nothing else.             *)
(***************************************************************************)
EXTENDS Integers, FiniteSets

CONSTANTS
  Ctx,               \* the mmap_context_t objects
  MMAP_MAX_AREAS,    \* entries of ctx->areas
  MMAP_MIN_ADDR, MMAP_SEARCH_START,
  PAGE_SIZE,
  Frame,             \* the pages of the buddy allocator
  NOT_PRESENT,       \* in a page table entry: no frame
  MaxAddr,           \* bound: addresses passed in lie below
  MaxLen,            \* bound: lengths passed in
  Lengths,           \* bound: which ones
  FlagChoices,       \* bound: the flags passed in
  MaxCalls           \* bound: calls in a behaviour

Flags == {f \in SUBSET {"MAP_ANONYMOUS", "MAP_PRIVATE", "MAP_SHARED"} :
            ~({"MAP_PRIVATE", "MAP_SHARED"} \subseteq f)}

ASSUME MmapAssumption ==
  /\ MMAP_MAX_AREAS \in Nat \ {0}
  /\ MMAP_MIN_ADDR \in Nat \ {0} /\ MMAP_SEARCH_START \in Nat
  /\ PAGE_SIZE \in Nat \ {0}
  /\ MaxAddr \in Nat /\ MaxLen \in Nat /\ MaxCalls \in Nat
  /\ MMAP_SEARCH_START <= MaxAddr + MaxLen
  /\ FlagChoices \subseteq Flags
  /\ Lengths \subseteq 1 .. MaxLen
  /\ NOT_PRESENT \notin Frame

VARIABLES
  areas,        \* ctx->areas
  area_count,   \* ctx->area_count
  pte,          \* the page table: what a virtual page is mapped to
  free,         \* the frames alloc_pages_virt can return
  brk,          \* proc_brk
  calls,        \* how many calls were made, for the bound
  lost          \* history: a mapping was dropped from a context and left mapped

mmVars == <<areas, area_count, pte, free, brk, calls, lost>>

Slot == 0 .. MMAP_MAX_AREAS - 1

PAGE_ALIGN_DOWN(a) == a - (a % PAGE_SIZE)
PAGE_ALIGN_UP(a)   == PAGE_ALIGN_DOWN(a + PAGE_SIZE - 1)
PageOf(a)          == a \div PAGE_SIZE

NoArea == [active |-> 0, start |-> 0, length |-> 0, flags |-> {}]
Area(start, length, flags) ==
  [active |-> 1, start |-> start, length |-> length, flags |-> flags]
Areas  == [active : {0, 1}, start : Nat, length : Nat, flags : Flags]

VPage == 0 .. PageOf(MaxAddr + MaxLen + PAGE_SIZE)

mmap_context_init == [i \in Slot |-> NoArea]

mmap_init ==
  /\ areas = [c \in Ctx |-> mmap_context_init]
  /\ area_count = [c \in Ctx |-> 0]
  /\ pte = [v \in VPage |-> NOT_PRESENT]
  /\ free = Frame
  /\ brk = [c \in Ctx |-> 0]
  /\ calls = 0
  /\ lost = 0

-----------------------------------------------------------------------------
(* Area i of the table ar meets the bytes lo .. hi - 1. *)
covers(ar, i, lo, hi) ==
  /\ ar[i].active = 1
  /\ lo < ar[i].start + ar[i].length
  /\ hi > ar[i].start

(* Mutant: only an area that holds the first byte counts. *)
overlap_at_start(ar, lo, hi) == \E i \in Slot : covers(ar, i, lo, lo + 1)

mmap_check_overlap(ar, lo, hi) == \E i \in Slot : covers(ar, i, lo, hi)

(* mmap_alloc_slot: slot i is the first that is not in use. *)
mmap_alloc_slot(ar, i) == ar[i].active = 0 /\ \A j \in Slot : j < i => ar[j].active = 1

full(ar) == \A i \in Slot : ar[i].active = 1

(***************************************************************************)
(* mmap_find_free_area returns at.  The loop goes down from                *)
(* MMAP_SEARCH_START and jumps below the area it hits; an end between that *)
(* area's start and the last candidate would hit it too, so the answer is  *)
(* the highest place that is free, or 0.                                   *)
(***************************************************************************)
free_place(ar, len, at) ==
  /\ at \in MMAP_MIN_ADDR .. MMAP_SEARCH_START - len
  /\ ~mmap_check_overlap(ar, at, at + len)

mmap_find_free_area(ar, len, at) ==
  \/ /\ free_place(ar, len, at)
     /\ \A higher \in at + 1 .. MMAP_SEARCH_START - len : ~free_place(ar, len, higher)
  \/ /\ at = 0
     /\ \A any \in MMAP_MIN_ADDR .. MMAP_SEARCH_START - len : ~free_place(ar, len, any)

-----------------------------------------------------------------------------
(***************************************************************************)
(* mmap_do_munmap of the bytes lo .. hi - 1.  Its loop takes the covering  *)
(* areas one by one; areas are disjoint, so what it does to one does not   *)
(* depend on the others, and only a range inside a single area splits it.  *)
(***************************************************************************)
whole(a, lo, hi) == lo <= a.start /\ hi >= a.start + a.length
inner(a, lo, hi) == lo > a.start /\ hi < a.start + a.length

(* Mutant: an area cut at its start keeps its length. *)
trimmed_keeps_length(a, lo, hi) ==
  IF whole(a, lo, hi) THEN NoArea
  ELSE IF lo <= a.start THEN Area(hi, a.length, a.flags) ELSE Area(a.start, lo - a.start, a.flags)

trimmed(a, lo, hi) ==
  IF whole(a, lo, hi) THEN NoArea
  ELSE IF lo <= a.start
    THEN Area(hi, a.start + a.length - hi, a.flags)
    ELSE Area(a.start, lo - a.start, a.flags)

splits(ar, lo, hi) == {i \in Slot : covers(ar, i, lo, hi) /\ inner(ar[i], lo, hi)}

tail(a, hi) == Area(hi, a.start + a.length - hi, a.flags)

unmapped_areas(ar, lo, hi) ==
  [i \in Slot |->
     IF covers(ar, i, lo, hi) THEN trimmed(ar[i], lo, hi)
     ELSE IF mmap_alloc_slot(ar, i) /\ splits(ar, lo, hi) # {}
       THEN tail(ar[CHOOSE s \in splits(ar, lo, hi) : TRUE], hi)
       ELSE ar[i]]

(* Mutant: the tail of a split is not counted. *)
count_without_tail(ar, lo, hi) ==
  0 - Cardinality({i \in Slot : covers(ar, i, lo, hi) /\ whole(ar[i], lo, hi)})

unmapped_count(ar, lo, hi) ==
  (IF splits(ar, lo, hi) # {} /\ ~full(ar) THEN 1 ELSE 0)
    - Cardinality({i \in Slot : covers(ar, i, lo, hi) /\ whole(ar[i], lo, hi)})

(* Mutant: a partial last page is left out. *)
whole_pages_only(ar, lo, hi) ==
  {v \in VPage : \E i \in Slot :
     LET from == IF lo > ar[i].start THEN lo ELSE ar[i].start
         to   == IF hi < ar[i].start + ar[i].length THEN hi ELSE ar[i].start + ar[i].length
     IN  covers(ar, i, lo, hi) /\ PageOf(from) <= v /\ v < PageOf(to)}

(* The pages from PAGE_ALIGN_DOWN(unmap_start) to PAGE_ALIGN_UP(unmap_end). *)
unmapped_pages(ar, lo, hi) ==
  {v \in VPage : \E i \in Slot :
     LET from == IF lo > ar[i].start THEN lo ELSE ar[i].start
         to   == IF hi < ar[i].start + ar[i].length THEN hi ELSE ar[i].start + ar[i].length
     IN  covers(ar, i, lo, hi) /\ PageOf(from) <= v /\ v < PageOf(PAGE_ALIGN_UP(to))}

clear(pt, vs) == [v \in VPage |-> IF v \in vs THEN NOT_PRESENT ELSE pt[v]]

tail_lost(ar, lo, hi) == full(ar) /\ splits(ar, lo, hi) # {}

(* What a context, the page table and the history are between two calls. *)
now(c) == [ar |-> areas[c], count |-> area_count[c], pt |-> pte, lost |-> lost]

do_munmap(m, addr, length) ==
  LET hi == addr + PAGE_ALIGN_UP(length)
  IN  [ar    |-> unmapped_areas(m.ar, addr, hi),
       count |-> m.count + unmapped_count(m.ar, addr, hi),
       pt    |-> clear(m.pt, unmapped_pages(m.ar, addr, hi)),
       lost  |-> IF tail_lost(m.ar, addr, hi) THEN 1 ELSE m.lost]

commit(c, m, fr) ==
  /\ areas' = [areas EXCEPT ![c] = m.ar]
  /\ area_count' = [area_count EXCEPT ![c] = m.count]
  /\ pte' = m.pt
  /\ lost' = m.lost
  /\ free' = fr

mmap_do_munmap(c, addr, length) == commit(c, do_munmap(now(c), addr, length), free)

-----------------------------------------------------------------------------
(* The k-th page that an area at the given address populates. *)
populated(at, k) == PageOf(at + k * PAGE_SIZE)
firstPages(at, n) == {populated(at, k) : k \in 0 .. n - 1}

(* Page by page a frame from the allocator; g says which. *)
Grants(fr, vs) == {g \in [vs -> fr] : \A v, w \in vs : g[v] = g[w] => v = w}

map_pages(pt, g) == [v \in VPage |-> IF v \in DOMAIN g THEN g[v] ELSE pt[v]]

granted(g) == {g[v] : v \in DOMAIN g}

(* Mutant: the area is not counted. *)
with_area_uncounted(m, i, a, pt) ==
  [ar |-> [m.ar EXCEPT ![i] = a], count |-> m.count, pt |-> pt, lost |-> m.lost]

(* The area enters slot i, its pages the page table. *)
with_area(m, i, a, pt) ==
  [ar |-> [m.ar EXCEPT ![i] = a], count |-> m.count + 1, pt |-> pt, lost |-> m.lost]

(* Mutant: the rollback frees the frames and leaves them mapped. *)
rollback_leaves_mapped(c, m, i, a, n) ==
  LET at == a.start
  IN  \/ \E g \in Grants(free, firstPages(at, n)) :
           commit(c, with_area(m, i, a, map_pages(m.pt, g)), free \ granted(g))
      \/ \E k \in 0 .. n - 1 : \E g \in Grants(free, firstPages(at, k)) :
           commit(c, [m EXCEPT !.pt = map_pages(m.pt, g)], free)

(***************************************************************************)
(* Populating n pages of an anonymous area.  If the allocator or the page  *)
(* table has no memory for page k, the k pages before it are unmapped and  *)
(* freed and the slot is given back.                                       *)
(***************************************************************************)
populate_anonymous(c, m, i, a, n) ==
  LET at == a.start
  IN  \/ \E g \in Grants(free, firstPages(at, n)) :
           commit(c, with_area(m, i, a, map_pages(m.pt, g)), free \ granted(g))
      \/ \E k \in 0 .. n - 1 :
           /\ \/ k = Cardinality(free)
              \/ k < Cardinality(free) /\ m.pt[populated(at, k)] = NOT_PRESENT
           /\ commit(c, [m EXCEPT !.pt = clear(m.pt, firstPages(at, k))], free)

(***************************************************************************)
(* The shared branch does not look at the result of pmap_map_page: a page  *)
(* for which the page table has no memory stays unmapped, its frame gone.  *)
(***************************************************************************)
populate_shared(c, m, i, a, n) ==
  LET at == a.start
      unmappable == {v \in firstPages(at, n) : m.pt[v] = NOT_PRESENT}
  IN  \/ \E g \in Grants(free, firstPages(at, n)), failed \in SUBSET unmappable :
           commit(c, with_area(m, i, a, clear(map_pages(m.pt, g), failed)), free \ granted(g))
      \/ /\ Cardinality(free) < n
         /\ \E g \in Grants(free, firstPages(at, Cardinality(free))),
               failed \in SUBSET unmappable :
              commit(c, [m EXCEPT !.pt = clear(m.pt, DOMAIN g)],
                     free \ {g[v] : v \in failed \cap DOMAIN g})

(* mmap_do_mmap from mmap_alloc_slot on: the new area is a. *)
install(c, m, a) ==
  LET n == a.length \div PAGE_SIZE
  IN  \/ full(m.ar) /\ commit(c, m, free)
      \/ \E i \in Slot :
           /\ mmap_alloc_slot(m.ar, i)
           /\ IF "MAP_ANONYMOUS" \in a.flags THEN populate_anonymous(c, m, i, a, n)
              ELSE IF "MAP_SHARED" \in a.flags THEN populate_shared(c, m, i, a, n)
              ELSE commit(c, with_area(m, i, a, m.pt), free)

mmap_do_mmap(c, addr, length, flags, fixed) ==
  LET m   == now(c)
      len == PAGE_ALIGN_UP(length)
      area(at) == Area(at, len, flags)
      anywhere == \E at \in 0 .. MMAP_SEARCH_START :
                    /\ mmap_find_free_area(m.ar, len, at)
                    /\ IF at = 0 THEN commit(c, m, free) ELSE install(c, m, area(at))
  IN  \/ addr % PAGE_SIZE # 0 /\ commit(c, m, free)
      \/ addr = 0 /\ anywhere
      \/ /\ addr # 0 /\ addr % PAGE_SIZE = 0
         /\ \/ fixed /\ install(c, do_munmap(m, addr, len), area(addr))
            \/ ~fixed /\ mmap_check_overlap(m.ar, addr, addr + len) /\ anywhere
            \/ ~fixed /\ ~mmap_check_overlap(m.ar, addr, addr + len) /\ install(c, m, area(addr))

(***************************************************************************)
(* mmap_page_fault_handler: a fault in a private or anonymous area always  *)
(* maps a new frame; one in a shared area without MAP_ANONYMOUS is not     *)
(* handled, and no memory means that nothing is done.                      *)
(***************************************************************************)
mmap_page_fault_handler(c, vaddr) ==
  \E i \in Slot, f \in free :
    /\ covers(areas[c], i, vaddr, vaddr + 1)
    /\ {"MAP_PRIVATE", "MAP_ANONYMOUS"} \cap areas[c][i].flags # {}
    /\ free' = free \ {f}
    /\ pte' = [pte EXCEPT ![PageOf(vaddr)] = f]
    /\ UNCHANGED <<areas, area_count, brk, lost>>

(***************************************************************************)
(* mmap_context_destroy unmaps length / PAGE_SIZE pages of each area, then *)
(* asks the page table for the frames to free and is told there are none.  *)
(***************************************************************************)
mmap_context_destroy(c) ==
  LET ar    == areas[c]
      inUse == {i \in Slot : ar[i].active = 1}
  IN  /\ commit(c, [ar |-> mmap_context_init, count |-> 0,
                    pt |-> clear(pte, UNION {firstPages(ar[i].start, ar[i].length \div PAGE_SIZE) :
                                               i \in inUse}),
                    lost |-> IF \E i \in inUse : \/ ar[i].start % PAGE_SIZE # 0
                                                 \/ ar[i].length % PAGE_SIZE # 0
                               THEN 1 ELSE lost],
                free)
      /\ UNCHANGED brk

-----------------------------------------------------------------------------
Addr == 0 .. MaxAddr

sys_mmap(c) ==
  /\ \E addr \in Addr, length \in Lengths, flags \in FlagChoices, fixed \in BOOLEAN :
       mmap_do_mmap(c, addr, length, flags, fixed)
  /\ UNCHANGED brk

sys_munmap(c) ==
  /\ \E addr \in Addr, length \in Lengths : mmap_do_munmap(c, addr, length)
  /\ UNCHANGED brk

(* Every result of mmap_do_mmap but 0, which it never returns, is taken for success. *)
sys_brk(c) ==
  \E addr \in Addr \ {0} :
    /\ brk' = [brk EXCEPT ![c] = addr]
    /\ \/ addr > brk[c] /\ mmap_do_mmap(c, brk[c], addr - brk[c], {"MAP_ANONYMOUS"}, FALSE)
       \/ addr < brk[c] /\ mmap_do_munmap(c, addr, brk[c] - addr)
       \/ addr = brk[c] /\ commit(c, now(c), free)

fault(c) == \E vaddr \in Addr : mmap_page_fault_handler(c, vaddr)

MmapNext ==
  /\ calls < MaxCalls /\ calls' = calls + 1
  /\ \E c \in Ctx :
       \/ sys_mmap(c) \/ sys_munmap(c) \/ sys_brk(c)
       \/ fault(c) \/ mmap_context_destroy(c)

MmapSpec == mmap_init /\ [][MmapNext]_mmVars

-----------------------------------------------------------------------------
(* Every variable has the type of the C object it stands for. *)
MmapTypeOK ==
  /\ areas \in [Ctx -> [Slot -> Areas]]
  /\ area_count \in [Ctx -> 0 .. MMAP_MAX_AREAS]
  /\ pte \in [VPage -> Frame \cup {NOT_PRESENT}]
  /\ free \subseteq Frame
  /\ brk \in [Ctx -> Addr]
  /\ lost \in {0, 1}

(***************************************************************************)
(* The areas of a context never overlap, whatever sequence of fixed and    *)
(* hinted mmap, munmap of any part at any (unaligned) address, brk and     *)
(* failed mmap led there.                                                  *)
(***************************************************************************)
AreasDisjoint ==
  \A c \in Ctx : \A i, j \in Slot :
    (i # j /\ areas[c][j].active = 1) =>
      ~covers(areas[c], i, areas[c][j].start, areas[c][j].start + areas[c][j].length)

(* ctx->area_count is the number of entries in use, after splits and rollbacks too. *)
AreaCountExact ==
  \A c \in Ctx : area_count[c] = Cardinality({i \in Slot : areas[c][i].active = 1})

(***************************************************************************)
(* A frame is mapped at one place at most, and never while the allocator   *)
(* may hand it out again, although contexts overwrite each other's pages   *)
(* in the one page table and failed mmaps free what they had mapped.       *)
(***************************************************************************)
FramesExclusive ==
  /\ \A v, w \in VPage : v # w /\ pte[v] # NOT_PRESENT => pte[v] # pte[w]
  /\ \A v \in VPage : pte[v] \notin free

(***************************************************************************)
(* A page is mapped only where some context has an area, unless a split    *)
(* found no slot for its tail or a context with a partial page was         *)
(* destroyed.                                                              *)
(***************************************************************************)
NoStrayMapping ==
  lost = 1 \/ \A v \in VPage : pte[v] # NOT_PRESENT =>
            \E c \in Ctx : mmap_check_overlap(areas[c], v * PAGE_SIZE, (v + 1) * PAGE_SIZE)

=============================================================================
