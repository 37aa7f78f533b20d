------------------------------- MODULE Memory -------------------------------
(***************************************************************************)
(* The allocators: the block pool behind memory_alloc (memory.c), the page *)
(* allocator (buddy.c), the object caches (slab.c), the pools of the       *)
(* kernel API (kapi_mempool.c) and malloc (lib/libc/stdlib.c).             *)
(*                                                                         *)
(* The doubly linked free lists of buddy.c and slab.c are modelled link by *)
(* link, because what goes wrong with them goes wrong in the links.  Sizes *)
(* count MEMORY_BLOCK_SIZE and PAGE_SIZE units.                            *)
(***************************************************************************)
EXTENDS Naturals, Integers, Sequences, FiniteSets, SequencesExt, FiniteSetsExt, Functions

CONSTANTS MEMORY_POOL_SIZE, MemoryLimit,  \* slots, and blocks below 4 GiB
          AskSize, MaxAligned,            \* sizes asked for; aligned blocks made
          BUDDY_MAX_ORDER, BASE_PFN, TotalPages, ArrayPages, MaxPageAllocs,
          ObjsPerSlab, Slab,              \* slabs the page allocator can give
          MaxGone,                        \* objects given to kfree
          MaxElems, MAX_NR,               \* elements of a mempool
          ALLOC_TABLE_MAX, LibcPages,     \* entries, and pages mmap can give malloc
          PageBytes, SIZE_MOD,            \* 2^64, the modulus of a size_t
          MallocSize

VARIABLES pool, pool_held, aligned_made,
          buddy_zone, page_held, page_allocs, coalesced,
          kcache, slab, slab_pages, obj_held, obj_gone, cache_stuck,
          mp, mp_held, mp_made, mp_freed, mp_overgrown, mp_early,
          libc, libc_held                 \* malloc's tables and memory; its callers' blocks

poolVars == <<pool, pool_held, aligned_made>>
buddyVars == <<buddy_zone, page_held, page_allocs, coalesced>>
slabVars == <<kcache, slab, slab_pages, obj_held, obj_gone, cache_stuck>>
mempoolVars == <<mp, mp_held, mp_made, mp_freed, mp_overgrown, mp_early>>
libcVars == <<libc, libc_held>>

-----------------------------------------------------------------------------
(* memory.c: a table of blocks cut from the top of memory                  *)

FirstBlock == 1
no_memory == 0
empty_slot == [addr |-> 0, size |-> 0, used |-> FALSE]

memory_init ==
  /\ pool = [blocks |-> [i \in 1..MEMORY_POOL_SIZE |-> empty_slot], start |-> FirstBlock, total |-> 0, used |-> 0]
  /\ pool_held = {} /\ aligned_made = 0

unused_slots(p) == {i \in 1..MEMORY_POOL_SIZE : ~p.blocks[i].used}

fitting(p, n) == {i \in unused_slots(p) : p.blocks[i].size >= n}

\* The first free block that is large enough, else a new block from the top of
\* memory in the first free slot, whose old block is then forgotten.
memory_alloc(p, n) ==
  IF fitting(p, n) # {} THEN
    LET i == Min(fitting(p, n))
    IN  [addr |-> p.blocks[i].addr,
         pool |-> [p EXCEPT !.blocks[i].used = TRUE, !.used = @ + p.blocks[i].size]]
  ELSE IF p.start + n > MemoryLimit \/ unused_slots(p) = {} THEN [addr |-> no_memory, pool |-> p]
  ELSE LET i == Min(unused_slots(p))
       IN  [addr |-> p.start,
            pool |-> [p EXCEPT !.blocks[i] = [addr |-> p.start, size |-> n, used |-> TRUE],
                               !.start = @ + n, !.total = @ + n, !.used = @ + n]]

\* The slot with this address, if there is one.
memory_free(p, ptr) ==
  LET slots == {i \in 1..MEMORY_POOL_SIZE : p.blocks[i].addr = ptr}
  IN  IF slots = {} THEN p
      ELSE LET i == Min(slots)
           IN  [p EXCEPT !.blocks[i].used = FALSE, !.used = @ - p.blocks[i].size]

\* A caller of memory_alloc, memory_zalloc or memory_alloc_physical.
alloc_block(n) ==
  LET got == memory_alloc(pool, n)
  IN  /\ pool' = got.pool
      /\ pool_held' = IF got.addr = no_memory THEN pool_held
                      ELSE pool_held \cup {[ptr |-> got.addr, size |-> n, aligned |-> FALSE]}
      /\ UNCHANGED aligned_made

\* An alignment above MEMORY_BLOCK_SIZE: the pointer given is inside the block.
memory_alloc_aligned(n, alignment) ==
  LET got == memory_alloc(pool, n + alignment + 1)
      addr == got.addr + 1
  IN  /\ aligned_made < MaxAligned
      /\ pool' = got.pool
      /\ got.addr # no_memory
      /\ aligned_made' = aligned_made + 1
      /\ pool_held' = pool_held \cup
           {[ptr |-> ((addr + alignment - 1) \div alignment) * alignment, size |-> n, aligned |-> TRUE]}

free_block(b) ==
  /\ pool' = memory_free(pool, b.ptr)
  /\ pool_held' = pool_held \ {b}
  /\ UNCHANGED aligned_made

memory_realloc(b, n) ==
  LET got == memory_alloc(pool, n)
  IN  /\ got.addr # no_memory
      /\ pool' = memory_free(got.pool, b.ptr)
      /\ pool_held' = (pool_held \ {b}) \cup {[ptr |-> got.addr, size |-> n, aligned |-> FALSE]}
      /\ UNCHANGED aligned_made

PoolNext ==
  \/ \E n \in AskSize : alloc_block(n)
  \/ memory_alloc_aligned(1, 2)
  \/ \E b \in pool_held : free_block(b)
  \/ \E b \in pool_held, n \in AskSize : memory_realloc(b, n)

cells(b) == b.ptr..(b.ptr + b.size - 1)

\* No two callers are given overlapping memory through any sequence of
\* allocations, reallocations and frees; the counters are the sums they stand
\* for; every plain pointer can be freed and no aligned one ever is: its slot
\* stays used for good, whoever frees it (memory_alloc, memory_free,
\* memory_alloc_aligned).
PoolBooks ==
  LET in_use == {i \in 1..MEMORY_POOL_SIZE : pool.blocks[i].used}
      plain == {b \in pool_held : ~b.aligned}
  IN  /\ \A b \in pool_held, c \in pool_held : b # c => cells(b) \cap cells(c) = {}
      /\ \A b \in plain : \E i \in in_use : pool.blocks[i].addr = b.ptr /\ pool.blocks[i].size >= b.size
      /\ pool.used = FoldFunctionOnSet(+, 0, [i \in 1..MEMORY_POOL_SIZE |-> pool.blocks[i].size], in_use)
      /\ pool.total = pool.start - FirstBlock /\ pool.used <= pool.total
      /\ Cardinality(in_use) = Cardinality(plain) + aligned_made

-----------------------------------------------------------------------------
(* buddy.c                                                                 *)

Page == BASE_PFN..(BASE_PFN + TotalPages - 1)
Order == 0..BUDDY_MAX_ORDER
NIL == -1

list_add(z, o, p) ==
  LET head == z.list[o]
      linked == [z EXCEPT !.next[p] = head, !.prev[p] = NIL, !.list[o] = p, !.count[o] = @ + 1]
  IN  IF head = NIL THEN linked ELSE [linked EXCEPT !.prev[head] = p]

list_pop(z, o) ==
  LET p == z.list[o]
      after == z.next[p]
      popped == [z EXCEPT !.list[o] = after, !.next[p] = NIL, !.prev[p] = NIL, !.count[o] = @ - 1]
  IN  IF after = NIL THEN popped ELSE [popped EXCEPT !.prev[after] = NIL]

\* The neighbours are joined; a list whose first page this is still begins
\* with it.
list_del(z, p) ==
  LET before == z.prev[p]
      after == z.next[p]
  IN  [z EXCEPT !.next = [q \in Page |-> IF q = p THEN NIL ELSE IF q = before THEN after ELSE z.next[q]],
                !.prev = [q \in Page |-> IF q = p THEN NIL ELSE IF q = after THEN before ELSE z.prev[q]]]

buddy_pfn(pfn, o) == IF (pfn \div 2^o) % 2 = 0 THEN pfn + 2^o ELSE pfn - 2^o

\* The pages met along a list, at most as many as there are pages, and whether
\* the walk would go on past them.
walked(z, o) ==
  FoldLeft(LAMBDA seen, k : IF Last(seen) = NIL THEN seen ELSE Append(seen, z.next[Last(seen)]),
           <<z.list[o]>>, [k \in 1..TotalPages |-> k])
in_freelist(z, o, p) == p \in Range(walked(z, o))
endless(z, o) == Last(walked(z, o)) # NIL

\* The blocks buddy_init cuts the free pages into: the largest order that still
\* fits, from the first page behind the page array.
buddy_blocks ==
  FoldLeft(LAMBDA acc, k :
             IF acc.left = 0 THEN acc
             ELSE LET o == Max({x \in Order : 2^x <= acc.left})
                  IN  [at |-> acc.at + 2^o, left |-> acc.left - 2^o, cut |-> Append(acc.cut, <<acc.at, o>>)],
           [at |-> BASE_PFN + ArrayPages, left |-> TotalPages - ArrayPages, cut |-> <<>>],
           [k \in 1..TotalPages |-> k]).cut

blank_zone ==
  [list |-> [o \in Order |-> NIL], count |-> [o \in Order |-> 0],
   next |-> [p \in Page |-> NIL], prev |-> [p \in Page |-> NIL],
   order |-> [p \in Page |-> 0], used |-> {}, used_pages |-> ArrayPages, hung |-> FALSE]

buddy_init ==
  /\ buddy_zone = FoldLeft(LAMBDA z, b : list_add([z EXCEPT !.order[b[1]] = b[2]], b[2], b[1]), blank_zone, buddy_blocks)
  /\ page_held = {} /\ page_allocs = 0 /\ coalesced = FALSE

\* Orders below c down to o.
halvings(c, o) == [k \in 1..(c - o) |-> c - k]

split(z, p, o) ==
  LET half == buddy_pfn(p, o)
  IN  list_add([z EXCEPT !.order[half] = o, !.used = @ \ {half}], o, half)

buddy_alloc_pages(o) ==
  LET larger == {x \in Order : x >= o /\ buddy_zone.list[x] # NIL}
  IN  /\ ~buddy_zone.hung /\ page_allocs < MaxPageAllocs /\ larger # {}
      /\ LET c == Min(larger)
             p == buddy_zone.list[c]
             taken_out == list_pop(buddy_zone, c)
             cut == FoldLeft(LAMBDA z, x : split(z, p, x), [taken_out EXCEPT !.used = @ \cup {p}], halvings(c, o))
         IN  /\ buddy_zone' = [cut EXCEPT !.order[p] = o, !.used_pages = @ + 2^o]
             /\ page_held' = page_held \cup {[page |-> p, order |-> o, nth |-> page_allocs]}
      /\ page_allocs' = page_allocs + 1
      /\ UNCHANGED coalesced

\* One turn of the loop of buddy_free_pages.
merge(acc) ==
  LET o == acc.order
      half == buddy_pfn(acc.page, o)
  IN  IF acc.done \/ o >= BUDDY_MAX_ORDER THEN [acc EXCEPT !.done = TRUE]
      ELSE IF half \notin Page \/ half \in acc.z.used \/ acc.z.order[half] # o THEN [acc EXCEPT !.done = TRUE]
      ELSE IF ~in_freelist(acc.z, o, half)
        THEN [acc EXCEPT !.done = TRUE, !.z.hung = endless(acc.z, o)]
      ELSE [acc EXCEPT !.z = [list_del(acc.z, half) EXCEPT !.count[o] = @ - 1],
                       !.page = Min({acc.page, half}), !.order = o + 1]

\* A page no longer marked used is ignored; a search that cannot end holds the
\* zone's lock for good.
buddy_free_pages(b) ==
  /\ ~buddy_zone.hung
  /\ page_held' = page_held \ {b}
  /\ IF b.page \notin buddy_zone.used THEN UNCHANGED <<buddy_zone, coalesced>>
     ELSE LET o == buddy_zone.order[b.page]
              start == [buddy_zone EXCEPT !.used = @ \ {b.page}, !.used_pages = @ - 2^o]
              end == FoldLeft(LAMBDA acc, k : merge(acc), [z |-> start, page |-> b.page, order |-> o, done |-> FALSE],
                              [k \in 1..(BUDDY_MAX_ORDER + 1) |-> k])
          IN  /\ buddy_zone' = IF end.z.hung THEN end.z
                         ELSE list_add([end.z EXCEPT !.order[end.page] = end.order], end.order, end.page)
              /\ coalesced' = (coalesced \/ end.order > o)
  /\ UNCHANGED page_allocs

BuddyNext ==
  \/ \E o \in Order : buddy_alloc_pages(o)
  \/ \E b \in page_held : buddy_free_pages(b)

\* Whether every block buddy_init cut starts at a multiple of its size.
zone_aligned == \A i \in DOMAIN buddy_blocks : buddy_blocks[i][1] % (2^buddy_blocks[i][2]) = 0

span(page, order) == page..(page + 2^order - 1)
listed(o) == Range(walked(buddy_zone, o)) \ {NIL}

\* In a zone whose blocks are aligned, and as long as no two free blocks have
\* been joined, the blocks handed out and the blocks on the lists share no
\* page, none covers the page array, and each list is as long as its count.
\* The totals buddy_get_stats reports add up in every state, a joined pair or
\* not, because each operation moves a block from one counter to another
\* (buddy_alloc_pages, buddy_free_pages, buddy_get_stats).
BuddyBooks ==
  LET given == {span(b.page, b.order) : b \in page_held}
      free == UNION {{span(p, o) : p \in listed(o)} : o \in Order}
  IN  /\ (zone_aligned /\ ~coalesced) =>
           /\ \A a \in given \cup free, b \in given \cup free : a # b => a \cap b = {}
           /\ given \cap free = {} /\ Cardinality(given) = Cardinality(page_held)
           /\ \A a \in given \cup free : a \subseteq Page \ (BASE_PFN..(BASE_PFN + ArrayPages - 1))
           /\ \A o \in Order : buddy_zone.count[o] = Cardinality(listed(o))
      /\ ~buddy_zone.hung =>
           buddy_zone.used_pages + FoldFunctionOnSet(+, 0, [o \in Order |-> buddy_zone.count[o] * 2^o], Order) = TotalPages

-----------------------------------------------------------------------------
(* slab.c: one cache.  Its objects leave room for the slab header behind   *)
(* them, which HeaderFits says of an object size.                          *)

NoSlab == "null"
ListName == {"full_slabs", "partial_slabs", "empty_slabs"}
Obj == Slab \X (1..ObjsPerSlab)
unmade == [next |-> NoSlab, prev |-> NoSlab, free |-> <<>>, state |-> "empty_slabs"]

slab_init ==
  /\ kcache = [lists |-> [l \in ListName |-> NoSlab], total_objs |-> 0, free_objs |-> 0]
  /\ slab = [s \in Slab |-> unmade]
  /\ slab_pages = {} /\ obj_held = {} /\ obj_gone = {} /\ cache_stuck = FALSE

\* The cache is a pair: its list heads and its slabs.
heap == [lists |-> kcache.lists, slab |-> slab]

slab_add(h, l, s) ==
  LET head == h.lists[l]
      back == [h.slab EXCEPT ![s].next = head, ![s].prev = NoSlab]
  IN  [lists |-> [h.lists EXCEPT ![l] = s],
       slab |-> IF head = NoSlab THEN back ELSE [back EXCEPT ![head].prev = s]]

slab_remove(h, l, s) ==
  LET before == h.slab[s].prev
      after == h.slab[s].next
      fore == IF before = NoSlab THEN h.slab ELSE [h.slab EXCEPT ![before].next = after]
      back == IF after = NoSlab THEN fore ELSE [fore EXCEPT ![after].prev = before]
  IN  [lists |-> IF before = NoSlab THEN [h.lists EXCEPT ![l] = after] ELSE h.lists,
       slab |-> [back EXCEPT ![s].next = NoSlab, ![s].prev = NoSlab]]

\* The list of a slab with n free objects.
home_list(n) == IF n = 0 THEN "full_slabs" ELSE IF n = ObjsPerSlab THEN "empty_slabs" ELSE "partial_slabs"

\* The state names the list the slab is believed to be on.
slab_rehome(h, s) ==
  LET from == h.slab[s].state
      to == home_list(Len(h.slab[s].free))
      stated == [h EXCEPT !.slab[s].state = to]
  IN  IF from = to THEN stated ELSE slab_add(slab_remove(stated, from, s), to, s)

\* A new slab lists its last object first.
slab_create(h, s) == [h EXCEPT !.slab[s] = [unmade EXCEPT !.free = [i \in 1..ObjsPerSlab |-> ObjsPerSlab + 1 - i]]]

\* The partial slab, an empty one moved to the partial list, or a new one.
alloc_from(h) ==
  LET p == h.lists["partial_slabs"]
      e == h.lists["empty_slabs"]
  IN  IF p # NoSlab THEN {<<p, h>>}
      ELSE IF e # NoSlab THEN {<<e, slab_add(slab_remove(h, "empty_slabs", e), "partial_slabs", e)>>}
      ELSE {<<s, slab_add(slab_create(h, s), "partial_slabs", s)>> : s \in Slab \ slab_pages}

handed_out(h, s) == [h EXCEPT !.slab[s].free = Tail(@)]

kmem_cache_alloc ==
  /\ ~cache_stuck
  /\ \E got \in alloc_from(heap) :
       LET s == got[1]
           free == got[2].slab[s].free
           end == IF free = <<>> THEN got[2] ELSE slab_rehome(handed_out(got[2], s), s)
           n == IF free = <<>> THEN 0 ELSE 1
       IN  /\ slab' = end.slab
           /\ kcache' = [lists |-> end.lists, total_objs |-> kcache.total_objs + n, free_objs |-> kcache.free_objs - n]
           /\ slab_pages' = slab_pages \cup {s}
           /\ obj_held' = IF n = 0 THEN obj_held ELSE obj_held \cup {<<s, Head(free)>>}
  /\ UNCHANGED <<obj_gone, cache_stuck>>

\* The slabs met from a list head, and whether the walk never ends.
met_on(h, l) ==
  FoldLeft(LAMBDA seen, k : IF Last(seen) = NoSlab THEN seen ELSE Append(seen, h.slab[Last(seen)].next),
           <<h.lists[l]>>, [k \in 1..(Cardinality(Slab) + 1) |-> k])
slabs_met(h) == UNION {Range(met_on(h, l)) : l \in ListName} \ {NoSlab}
loops(h) == \E l \in ListName : Last(met_on(h, l)) # NoSlab

kmem_cache_free(o) ==
  LET s == o[1]
      end == slab_rehome([heap EXCEPT !.slab[s].free = <<o[2]>> \o @], s)
  IN  /\ ~cache_stuck
      /\ obj_held' = obj_held \ {o}
      /\ IF s \in slabs_met(heap)
         THEN /\ slab' = end.slab
              /\ kcache' = [lists |-> end.lists, total_objs |-> kcache.total_objs - 1, free_objs |-> kcache.free_objs + 1]
              /\ UNCHANGED cache_stuck
         ELSE /\ cache_stuck' = loops(heap)
              /\ UNCHANGED <<slab, kcache>>
      /\ UNCHANGED <<slab_pages, obj_gone>>

\* No page carries PAGE_FLAG_SLAB: an object in the first page of its slab gives
\* the whole slab back to the page allocator, any other nothing.
kfree(o) ==
  /\ Cardinality(obj_gone) < MaxGone
  /\ obj_held' = obj_held \ {o}
  /\ obj_gone' = obj_gone \cup {o}
  /\ slab_pages' = IF 2 * o[2] <= ObjsPerSlab THEN slab_pages \ {o[1]} ELSE slab_pages
  /\ UNCHANGED <<kcache, slab, cache_stuck>>

\* The owner of the cache, once no object of it is in use.
kmem_cache_destroy ==
  /\ ~cache_stuck /\ obj_held = {} /\ slabs_met(heap) # {}
  /\ slab_pages' = slab_pages \ slabs_met(heap)
  /\ cache_stuck' = loops(heap)
  /\ kcache' = IF loops(heap) THEN kcache ELSE [kcache EXCEPT !.lists = [l \in ListName |-> NoSlab]]
  /\ UNCHANGED <<slab, obj_held, obj_gone>>

SlabNext ==
  \/ kmem_cache_alloc
  \/ \E o \in obj_held : kmem_cache_free(o) \/ kfree(o)
  \/ kmem_cache_destroy

\* Whether a slab of two pages filled with objects of this size (a power of two
\* or not) leaves the header its place, the last HEADER bytes.
HeaderFits(size, HEADER) == ((2 * 4096) \div size) * size <= 2 * 4096 - HEADER

\* While objects come back through kmem_cache_free, an object is never handed
\* out twice, its slab can be found again to free it and its pages stay with
\* the cache; total_objs counts the objects out and free_objs is its negative.
\* The list a slab left still begins with it, so a cache has one slab at a time
\* and refuses objects when that is full; a cache all of whose objects came
\* back that way can be destroyed, and only one that lost objects to kfree
\* makes kmem_cache_destroy walk for ever.  No kmalloc size leaves the header
\* room (__slab_rehome, __slab_remove, kmem_cache_destroy, kfree,
\* kmem_cache_create).
SlabBooks ==
  /\ \A o \in obj_held : o[2] \notin Range(slab[o[1]].free) /\ o[1] \in slabs_met(heap)
  /\ \A s \in Slab : IsInjective(slab[s].free)
  /\ kcache.total_objs = Cardinality(obj_held) + Cardinality(obj_gone)
  /\ kcache.free_objs = -kcache.total_objs
  /\ Cardinality(slabs_met(heap)) <= 1
  /\ obj_gone = {} => ~cache_stuck /\ slabs_met(heap) = slab_pages
  /\ \A i \in 3..11 : ~HeaderFits(2^i, 56)

-----------------------------------------------------------------------------
(* kapi_mempool.c: one pool and the elements of its alloc_fn               *)

Elem == 1..MaxElems
JUNK == 0   \* what a list entry nobody wrote holds
no_pool == [valid |-> FALSE, list |-> [i \in 1..MAX_NR |-> JUNK], free |-> 0, curr |-> 0, min |-> 0]

kapi_mempool_init ==
  /\ mp = no_pool /\ mp_made = 0
  /\ mp_held = [e \in 0..MaxElems |-> 0] /\ mp_freed = [e \in 0..MaxElems |-> 0]
  /\ mp_overgrown = FALSE /\ mp_early = FALSE

\* Entries i to j of the list; a resize that failed counts elements twice, and
\* the entries past its end are other memory.
listed_from(i, j) == [k \in 1..(j - i + 1) |-> IF i + k - 1 <= MAX_NR THEN mp.list[i + k - 1] ELSE JUNK]

\* free_fn called with these entries: how often each element met it, where 2
\* stands for more than once.
given_back(es) == [e \in 0..MaxElems |-> Min({2, mp_freed[e] + Cardinality({i \in DOMAIN es : es[i] = e})})]
fresh_elems(n) == [i \in 1..n |-> mp_made + i]

\* alloc_fn succeeds n times; fewer than min_nr and the pool is not made.
kapi_mempool_create(min_nr, n) ==
  /\ ~mp.valid /\ n <= min_nr /\ mp_made + n <= MaxElems
  /\ mp_made' = mp_made + n
  /\ IF n < min_nr
     THEN mp_freed' = given_back(fresh_elems(n)) /\ mp' = no_pool
     ELSE /\ mp' = [valid |-> TRUE, free |-> n, curr |-> n, min |-> n,
                    list |-> [i \in 1..MAX_NR |-> IF i <= n THEN mp_made + i ELSE JUNK]]
          /\ UNCHANGED mp_freed
  /\ UNCHANGED <<mp_held, mp_overgrown, mp_early>>

\* The first curr_nr entries, whoever has those elements now.
kapi_mempool_destroy ==
  /\ mp.valid
  /\ mp_freed' = given_back(listed_from(1, mp.curr))
  /\ mp' = [mp EXCEPT !.valid = FALSE]
  /\ mp_early' = (mp_early \/ \E e \in Elem : mp_held[e] > 0)
  /\ mp_held' = [e \in 0..MaxElems |-> 0]
  /\ UNCHANGED <<mp_made, mp_overgrown>>

kapi_mempool_alloc ==
  /\ mp.valid
  /\ IF mp.free > 0
     THEN /\ mp' = [mp EXCEPT !.free = @ - 1]
          /\ mp_held' = [mp_held EXCEPT ![listed_from(mp.free, mp.free)[1]] = @ + 1]
          /\ UNCHANGED mp_made
     ELSE /\ mp.curr < MAX_NR /\ mp_made < MaxElems
          /\ mp' = [mp EXCEPT !.curr = @ + 1]
          /\ mp_made' = mp_made + 1
          /\ mp_held' = [mp_held EXCEPT ![mp_made + 1] = @ + 1]
  /\ UNCHANGED <<mp_freed, mp_overgrown, mp_early>>

kapi_mempool_free(e) ==
  /\ mp.valid /\ mp_held[e] > 0
  /\ mp_held' = [mp_held EXCEPT ![e] = @ - 1]
  /\ mp' = IF mp.free < MAX_NR THEN [mp EXCEPT !.list[mp.free + 1] = e, !.free = @ + 1]
           ELSE IF mp.curr > mp.min THEN [mp EXCEPT !.curr = @ - 1]
           ELSE [mp EXCEPT !.list = IF mp.free = MAX_NR THEN [@ EXCEPT ![MAX_NR] = e] ELSE @]
  /\ mp_freed' = IF mp.free >= MAX_NR /\ mp.curr > mp.min THEN given_back(<<e>>) ELSE mp_freed
  /\ UNCHANGED <<mp_made, mp_overgrown, mp_early>>

shrunk(n) == [mp EXCEPT !.free = @ - n, !.curr = @ - n]

\* Growing writes behind entry curr_nr and counts the elements as free; if
\* alloc_fn fails after n of them, curr_nr and min_nr stay.
kapi_mempool_resize(new_min, n) ==
  LET grow == new_min - mp.curr
      shrink == Min({mp.curr - new_min, mp.free})
      filled == [i \in 1..MAX_NR |-> IF i \in (mp.curr + 1)..(mp.curr + n) THEN mp_made + i - mp.curr ELSE mp.list[i]]
  IN  /\ mp.valid /\ new_min <= MAX_NR
      /\ IF grow > 0
         THEN /\ n <= grow /\ mp_made + n <= MaxElems
              /\ mp_made' = mp_made + n
              /\ mp' = [mp EXCEPT !.list = filled, !.free = @ + n,
                                  !.curr = IF n = grow THEN new_min ELSE @, !.min = IF n = grow THEN new_min ELSE @]
              /\ mp_overgrown' = (mp_overgrown \/ (n > 0 /\ (n < grow \/ mp.free < mp.curr)))
              /\ UNCHANGED mp_freed
         ELSE /\ n = 0
              /\ mp_freed' = given_back(listed_from(mp.free - shrink + 1, mp.free))
              /\ mp' = [shrunk(shrink) EXCEPT !.min = new_min]
              /\ UNCHANGED <<mp_made, mp_overgrown>>
      /\ UNCHANGED <<mp_held, mp_early>>

MempoolNext ==
  \/ \E min_nr \in 1..2, n \in 0..2 : kapi_mempool_create(min_nr, n)
  \/ kapi_mempool_destroy
  \/ kapi_mempool_alloc
  \/ \E e \in 0..MaxElems : kapi_mempool_free(e)
  \/ \E new_min \in 0..MAX_NR, n \in 0..2 : kapi_mempool_resize(new_min, n)

\* As long as no resize adds elements while others are out, or fails half way,
\* an element is with one caller or once on the free list and never both, it
\* has not been given back, and curr_nr counts the elements there are; and a
\* pool destroyed when no caller holds one gives each element back exactly
\* once and frees nothing it did not allocate (kapi_mempool_alloc,
\* kapi_mempool_free, kapi_mempool_resize, kapi_mempool_destroy).
MempoolBooks ==
  LET listed_free == listed_from(1, mp.free)
      out == {e \in 0..MaxElems : mp_held[e] > 0}
  IN  ~mp_overgrown =>
        /\ mp.valid =>
             /\ \A e \in out : mp_held[e] = 1
             /\ IsInjective(listed_free) /\ out \cap Range(listed_free) = {}
             /\ mp.curr = mp.free + Cardinality(out) /\ mp.curr <= MAX_NR
             /\ ~mp_early => \A e \in out \cup Range(listed_free) : mp_freed[e] = 0
        /\ (~mp.valid /\ ~mp_early) => \A e \in 0..MaxElems : mp_freed[e] = IF e \in 1..mp_made THEN 1 ELSE 0

-----------------------------------------------------------------------------
(* stdlib.c: malloc, a mapping for every block and a table of them         *)

NO_TAG == 0

alloc_entry_t ==
  [addr : 0..LibcPages,                \* the first page; 0 is NULL
   size : 0..(SIZE_MOD - 1),
   active : {0, 1}]

pages_of(addr, size) == addr..(addr + (size + PageBytes - 1) \div PageBytes - 1)
bytes_of(addr, n) == ((addr - 1) * PageBytes + 1)..((addr - 1) * PageBytes + n)

libc_init ==
  /\ libc = [alloc_table |-> [i \in 1..ALLOC_TABLE_MAX |-> [addr |-> 0, size |-> 0, active |-> 0]],
             mapped |-> {},
             mem |-> [b \in 1..(LibcPages * PageBytes) |-> NO_TAG]]
  /\ libc_held = {}

\* mmap_do_mmap may choose any free run of pages; what was in a page is gone
\* with its mapping.
mmap_do_mmap(l, size) ==
  {a \in 1..LibcPages : size > 0 /\ pages_of(a, size) \subseteq (1..LibcPages) \ l.mapped}
mmap_do_munmap(l, addr, size) ==
  LET pages == pages_of(addr, size)
  IN  [l EXCEPT !.mapped = @ \ pages,
                !.mem = [b \in DOMAIN @ |-> IF (b - 1) \div PageBytes + 1 \in pages THEN NO_TAG ELSE @[b]]]

alloc_table_free(l) == {i \in 1..ALLOC_TABLE_MAX : l.alloc_table[i].active = 0}
alloc_table_insert(l, addr, size) ==
  [l EXCEPT !.alloc_table[Min(alloc_table_free(l))] = [addr |-> addr, size |-> size, active |-> 1],
            !.mapped = @ \cup pages_of(addr, size)]

alloc_table_find(l, addr) ==
  {i \in 1..ALLOC_TABLE_MAX : l.alloc_table[i].active = 1 /\ l.alloc_table[i].addr = addr}
alloc_table_remove(l, i) ==
  [l EXCEPT !.alloc_table[i] = [addr |-> 0, size |-> 0, active |-> 0]]

\* Where a block may go.  With the table full what was mapped is unmapped again,
\* and there is none.
malloc_at(l, size) == IF alloc_table_free(l) = {} THEN {} ELSE mmap_do_mmap(l, size)

libc_free(l, ptr) ==
  IF alloc_table_find(l, ptr) = {} THEN l
  ELSE LET i == Min(alloc_table_find(l, ptr))
       IN  mmap_do_munmap(alloc_table_remove(l, i), ptr, l.alloc_table[i].size)

\* The caller writes all of the block it got, with a tag no other block has.
fresh_tag == Min({g \in 1..(ALLOC_TABLE_MAX + 1) : \A h \in libc_held : h.tag # g})
filled(l, addr, n, tag) == [l EXCEPT !.mem = [b \in DOMAIN @ |-> IF b \in bytes_of(addr, n) THEN tag ELSE @[b]]]

malloc(size) ==
  \E a \in malloc_at(libc, size) :
    /\ libc' = filled(alloc_table_insert(libc, a, size), a, size, fresh_tag)
    /\ libc_held' = libc_held \cup {[ptr |-> a, asked |-> size, kept |-> size, tag |-> fresh_tag]}

\* The product is one of size_t.
calloc(num, size) ==
  LET total == (num * size) % SIZE_MOD
  IN  \E a \in malloc_at(libc, total) :
        /\ libc' = filled(alloc_table_insert(libc, a, total), a, total, fresh_tag)
        /\ libc_held' = libc_held \cup {[ptr |-> a, asked |-> num * size, kept |-> total, tag |-> fresh_tag]}

free(h) ==
  /\ libc' = libc_free(libc, h.ptr)
  /\ libc_held' = libc_held \ {h}

\* A new block, what fits of the old one, and the old one is freed.  Without a
\* new block the old one stays.
realloc(h, size) ==
  \/ size = 0 /\ free(h)
  \/ LET old_size == libc.alloc_table[Min(alloc_table_find(libc, h.ptr))].size
         copy_size == IF old_size < size THEN old_size ELSE size
         copied(l, a) == [l EXCEPT !.mem = [b \in DOMAIN @ |->
                            IF b \in bytes_of(a, copy_size) THEN @[b - (a - h.ptr) * PageBytes] ELSE @[b]]]
     IN  /\ alloc_table_find(libc, h.ptr) # {}
         /\ \E a \in malloc_at(libc, size) :
              /\ libc' = libc_free(copied(alloc_table_insert(libc, a, size), a), h.ptr)
              /\ libc_held' = (libc_held \ {h}) \cup
                   {[h EXCEPT !.ptr = a, !.asked = size, !.kept = IF @ < size THEN @ ELSE size]}

LibcNext ==
  \/ \E size \in MallocSize : malloc(size)
  \/ \E num, size \in MallocSize : calloc(num, size)
  \/ \E h \in libc_held : free(h)
  \/ \E h \in libc_held, size \in MallocSize \cup {0} : realloc(h, size)

\* Every block has an entry of its own, of the size asked for, or of what is left
\* of it when calloc's product wraps; the pages mapped are those of the entries, and no
\* page is of two; and through any order of calls a block keeps what its caller
\* wrote, up to the shortest it was cut to (malloc, calloc, realloc, free).
MallocBooks ==
  LET active == {i \in 1..ALLOC_TABLE_MAX : libc.alloc_table[i].active = 1}
      pages(i) == pages_of(libc.alloc_table[i].addr, libc.alloc_table[i].size)
  IN  /\ libc.mapped = UNION {pages(i) : i \in active}
      /\ \A i, j \in active : i # j => pages(i) \cap pages(j) = {}
      /\ Cardinality(libc_held) = Cardinality(active)
      /\ \A h \in libc_held :
           /\ \E i \in active : libc.alloc_table[i].addr = h.ptr /\ libc.alloc_table[i].size = h.asked % SIZE_MOD
           /\ \A b \in bytes_of(h.ptr, h.kept) : libc.mem[b] = h.tag

-----------------------------------------------------------------------------

\* Every variable of the five allocators holds a value of its type.
MemoryTypeOK ==
  /\ pool.blocks \in [1..MEMORY_POOL_SIZE -> [addr : Nat, size : Nat, used : BOOLEAN]]
  /\ buddy_zone.list \in [Order -> Page \cup {NIL}] /\ buddy_zone.used \subseteq Page
  /\ kcache.lists \in [ListName -> Slab \cup {NoSlab}] /\ slab_pages \subseteq Slab
  /\ obj_held \subseteq Obj /\ obj_gone \subseteq Obj
  /\ libc.alloc_table \in [1..ALLOC_TABLE_MAX -> alloc_entry_t] /\ libc.mapped \subseteq 1..LibcPages
  /\ mp.list \in [1..MAX_NR -> 0..MaxElems] /\ mp_made \in 0..MaxElems
=============================================================================
