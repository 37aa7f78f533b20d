------------------------------- MODULE Paging -------------------------------
(***************************************************************************)
(* Swap areas (arch/x86_64/swap.c), the page cache (pagecache.c) and the   *)
(* page fault handler (pagefault.c).  The three share no state.            *)
(*                                                                         *)
(* A swap entry holds the index of its area; removing an area moves the    *)
(* last one into its place and entries keep the old index.  The entry of   *)
(* area 0, slot 0 is 0, which every caller takes for failure.  A slot of a *)
(* partition is never written, and reads as zeros.                         *)
(* The cache lock is given up around a write-back and between the look-up  *)
(* of a page and its insertion; entries are never removed.                 *)
(***************************************************************************)
EXTENDS Integers, Sequences, FiniteSets

CONSTANTS
  SWAP_MAX_AREAS,
  SwapSlots,        \* slots of an area
  MaxAdded,         \* bound: areas ever added
  MaxSwapped,       \* bound: pages written out
  CacheKey,         \* pairs of node and offset
  Cacher,           \* processes that use the cache
  MaxEntries,       \* bound: entries of the cache
  MaxVersion,       \* bound: versions of a page
  FaultPage,        \* user pages the process touches
  stack_top,        \* of the process: nothing sets it, so it is 0
  MAX_STACK_SIZE, USER_STACK_TOP, \* in pages
  AddressSpace,     \* 2^64, in pages
  MaxFaults         \* bound: faults

VARIABLES
  areas,         \* g_swap.areas: type, active, used_slots, and the id of its bitmap and file
  area_count,
  bitmaps, swap_data, \* per id: the slots taken, and what the file holds
  entries,       \* entries handed out and not given back: [at, page, type]
  swapping,      \* a swap_out between its allocation and its write, or none
  pages_out,     \* number of pages written out; a page is its number
  moved,         \* history: swap_remove_area has moved an area
  cache,         \* entries in order of creation: [key, page, flags]
  lru,           \* indices of cache, most recently used first
  pc_total, pc_dirty,
  disk,          \* per key: the version on disk
  cacher,        \* per process: what it is in the middle of
  overlapped,    \* history: a write-back met another one or a change of its page
  pte,           \* per user page: [w, cow, frame] or not present
  pf_stats, proc_dead, stack_base, frames

swapVars  == <<areas, area_count, bitmaps, swap_data, entries, swapping, pages_out, moved>>
cacheVars == <<cache, lru, pc_total, pc_dirty, disk, cacher, overlapped>>
faultVars == <<pte, pf_stats, proc_dead, stack_base, frames>>

-----------------------------------------------------------------------------
none_out == [page |-> 0, at |-> <<0, 0>>]
unused_area == [type |-> "FILE", active |-> 0, used |-> 0, id |-> 0]

swap_init ==
  /\ areas = [i \in 0 .. SWAP_MAX_AREAS - 1 |-> unused_area] /\ area_count = 0
  /\ bitmaps = << >> /\ swap_data = << >>
  /\ entries = {} /\ swapping = none_out /\ pages_out = 0 /\ moved = FALSE

swap_add_area(type) ==
  LET id == Len(bitmaps) + 1
  IN  /\ area_count < SWAP_MAX_AREAS /\ id <= MaxAdded
      /\ areas' = [areas EXCEPT ![area_count] = [type |-> type, active |-> 1, used |-> 0, id |-> id]]
      /\ area_count' = area_count + 1
      /\ bitmaps' = Append(bitmaps, {})
      /\ swap_data' = Append(swap_data, [s \in 0 .. SwapSlots - 1 |-> 0])
      /\ UNCHANGED <<entries, swapping, pages_out, moved>>

(* The last area is copied over the one removed; its old place keeps its
   contents. *)
swap_remove_area(i) ==
  /\ i < area_count /\ areas[i].used = 0
  /\ areas' = [areas EXCEPT ![i] = IF i < area_count - 1 THEN areas[area_count - 1]
                                                       ELSE [@ EXCEPT !.active = 0, !.id = 0]]
  /\ area_count' = area_count - 1
  /\ moved' = (moved \/ i < area_count - 1)
  /\ UNCHANGED <<bitmaps, swap_data, entries, swapping, pages_out>>

(* swap_alloc_entry: bitmap_find_free in the first area with a free slot. *)
with_room == {i \in 0 .. area_count - 1 : /\ areas[i].active = 1 /\ areas[i].used < SwapSlots
                                          /\ Cardinality(bitmaps[areas[i].id]) < SwapSlots}
free_entry ==
  LET i == CHOOSE a \in with_room : \A b \in with_room : a <= b
      s == CHOOSE t \in 0 .. SwapSlots - 1 : /\ t \notin bitmaps[areas[i].id]
                                             /\ \A u \in 0 .. t - 1 : u \in bitmaps[areas[i].id]
  IN  <<i, s>>

set_slot(e) ==
  /\ areas' = [areas EXCEPT ![e[1]].used = @ + 1]
  /\ bitmaps' = [bitmaps EXCEPT ![areas[e[1]].id] = @ \cup {e[2]}]

(* Mutant: the bit is not cleared. *)
clear_count_only(e) == areas' = [areas EXCEPT ![e[1]].used = @ - 1] /\ UNCHANGED bitmaps

(* A removed area has no bitmap: the bit cleared is some byte at address 0. *)
clear_slot(e) ==
  /\ areas' = [areas EXCEPT ![e[1]].used = @ - 1]
  /\ bitmaps' = [id \in DOMAIN bitmaps |-> IF id = areas[e[1]].id THEN bitmaps[id] \ {e[2]} ELSE bitmaps[id]]

(* SWAP_ENTRY_ENCODE(0, 0) is 0: the slot is taken, and the caller told that
   there is none. *)
is_failure(e) == e = <<0, 0>>

swap_out ==
  /\ swapping = none_out /\ with_room # {} /\ pages_out < MaxSwapped
  /\ set_slot(free_entry)
  /\ pages_out' = pages_out + 1
  /\ swapping' = IF is_failure(free_entry) THEN none_out ELSE [page |-> pages_out + 1, at |-> free_entry]
  /\ UNCHANGED <<area_count, swap_data, entries, moved>>

(* The rest of swap_out, with swap_write_slot: the area is found by its index
   without the lock.  ok: whether the file took the page. *)
swap_out_write(ok) ==
  LET e == swapping.at
      a == areas[e[1]]
      file == a.type = "FILE"
  IN  /\ swapping # none_out
      /\ IF a.active = 0 \/ (file /\ ~ok) THEN clear_slot(e) /\ UNCHANGED <<entries, swap_data>>
         ELSE /\ swap_data' = IF file THEN [swap_data EXCEPT ![a.id][e[2]] = swapping.page] ELSE swap_data
              /\ entries' = entries \cup {[at |-> e, page |-> swapping.page, type |-> a.type]}
              /\ UNCHANGED <<areas, bitmaps>>
      /\ swapping' = none_out
      /\ UNCHANGED <<area_count, pages_out, moved>>

valid_entry(e) == e[1] < area_count /\ areas[e[1]].active = 1 /\ e[2] \in bitmaps[areas[e[1]].id]

(* swap_in, when the slot can be read, and swap_free_entry. *)
swap_in(n) ==
  /\ valid_entry(n.at)
  /\ clear_slot(n.at)
  /\ entries' = entries \ {n}
  /\ UNCHANGED <<area_count, swap_data, swapping, pages_out, moved>>

SwapNext ==
  \/ \E type \in {"FILE", "PARTITION"} : swap_add_area(type)
  \/ \E i \in 0 .. SWAP_MAX_AREAS - 1 : swap_remove_area(i)
  \/ swap_out \/ \E ok \in BOOLEAN : swap_out_write(ok)
  \/ \E n \in entries : swap_in(n)

-----------------------------------------------------------------------------
resting == [op |-> "none", key |-> 0, at |-> 0]
unread == -1

pagecache_init ==
  /\ cache = << >> /\ lru = << >> /\ pc_total = 0 /\ pc_dirty = 0
  /\ disk = [k \in CacheKey |-> 0] /\ cacher = [p \in Cacher |-> resting] /\ overlapped = FALSE

(* The most recent entry of the key: insertion is at the head of the chain. *)
found(k) == {i \in 1 .. Len(cache) : cache[i].key = k}
newest(k) == CHOOSE i \in found(k) : \A j \in found(k) : j <= i
to_head(i) == <<i>> \o SelectSeq(lru, LAMBDA j : j # i)

(* pagecache_find_page, and the first half of pagecache_get_page. *)
pagecache_find_page(p, k) ==
  /\ cacher[p] = resting
  /\ IF found(k) # {} THEN lru' = to_head(newest(k)) /\ UNCHANGED cacher
     ELSE cacher' = [cacher EXCEPT ![p] = [resting EXCEPT !.op = "get", !.key = k]] /\ UNCHANGED lru
  /\ UNCHANGED <<cache, pc_total, pc_dirty, disk, overlapped>>

(* The second half: another process may have inserted the key meanwhile, and
   may find this entry before its page has been read. *)
pagecache_insert(p) ==
  /\ cacher[p].op = "get" /\ Len(cache) < MaxEntries
  /\ cache' = Append(cache, [key |-> cacher[p].key, page |-> unread, dirty |-> 0, writeback |-> 0])
  /\ lru' = <<Len(cache) + 1>> \o lru
  /\ pc_total' = pc_total + 1
  /\ cacher' = [cacher EXCEPT ![p].op = "read", ![p].at = Len(cache) + 1]
  /\ UNCHANGED <<pc_dirty, disk, overlapped>>

pagecache_fill(p) ==
  LET i == cacher[p].at
  IN  /\ cacher[p].op = "read"
      /\ cache' = [cache EXCEPT ![i].page = disk[cache[i].key]]
      /\ overlapped' = (overlapped \/ cache[i].page # unread)
      /\ cacher' = [cacher EXCEPT ![p] = resting]
      /\ UNCHANGED <<lru, pc_total, pc_dirty, disk>>

(* pagecache_write, and its pagecache_set_dirty. *)
pagecache_write(p, i) ==
  /\ cacher[p] = resting /\ cache[i].page < MaxVersion
  /\ cache' = [cache EXCEPT ![i].page = @ + 1]
  /\ overlapped' = (overlapped \/ cache[i].writeback = 1)
  /\ cacher' = [cacher EXCEPT ![p] = [resting EXCEPT !.op = "dirty", !.at = i]]
  /\ UNCHANGED <<lru, pc_total, pc_dirty, disk>>

pagecache_set_dirty(p) ==
  LET i == cacher[p].at
  IN  /\ cacher[p].op = "dirty"
      /\ cache' = [cache EXCEPT ![i].dirty = 1]
      /\ pc_dirty' = pc_dirty + (1 - cache[i].dirty)
      /\ overlapped' = (overlapped \/ cache[i].writeback = 1)
      /\ cacher' = [cacher EXCEPT ![p] = resting]
      /\ UNCHANGED <<lru, pc_total, disk>>

pagecache_clear_dirty(p, i) ==
  /\ cacher[p] = resting /\ cache[i].dirty = 1
  /\ cache' = [cache EXCEPT ![i].dirty = 0] /\ pc_dirty' = pc_dirty - 1
  /\ overlapped' = TRUE
  /\ UNCHANGED <<lru, pc_total, disk, cacher>>

(* One entry of pagecache_sync_node or pagecache_sync_all: marked, written
   without the lock, and taken for clean. *)
sync_mark(p, i) ==
  /\ cacher[p] = resting /\ cache[i].dirty = 1
  /\ cache' = [cache EXCEPT ![i].writeback = 1]
  /\ overlapped' = (overlapped \/ cache[i].writeback = 1 \/ Cardinality(found(cache[i].key)) > 1)
  /\ cacher' = [cacher EXCEPT ![p] = [resting EXCEPT !.op = "write", !.at = i]]
  /\ UNCHANGED <<lru, pc_total, pc_dirty, disk>>

sync_write(p) ==
  LET i == cacher[p].at
  IN  /\ cacher[p].op = "write"
      /\ disk' = [disk EXCEPT ![cache[i].key] = cache[i].page]
      /\ cacher' = [cacher EXCEPT ![p].op = "clear"]
      /\ UNCHANGED <<cache, lru, pc_total, pc_dirty, overlapped>>

sync_clear(p) ==
  /\ cacher[p].op = "clear"
  /\ cache' = [cache EXCEPT ![cacher[p].at].dirty = 0, ![cacher[p].at].writeback = 0]
  /\ pc_dirty' = pc_dirty - 1
  /\ cacher' = [cacher EXCEPT ![p] = resting]
  /\ UNCHANGED <<lru, pc_total, disk, overlapped>>

CacheNext ==
  \E p \in Cacher :
    \/ \E k \in CacheKey : pagecache_find_page(p, k)
    \/ \E i \in 1 .. Len(cache) : pagecache_write(p, i) \/ pagecache_clear_dirty(p, i) \/ sync_mark(p, i)
    \/ pagecache_insert(p) \/ pagecache_fill(p) \/ pagecache_set_dirty(p) \/ sync_write(p) \/ sync_clear(p)

-----------------------------------------------------------------------------
absent == [w |-> 0, cow |-> 0, frame |-> 0]

pagefault_init ==
  /\ pte = [v \in FaultPage |-> absent] /\ frames = 0 /\ proc_dead = 0 /\ stack_base = 0
  /\ pf_stats = [stack |-> 0, demand |-> 0, cow |-> 0, protection |-> 0, total |-> 0]

cow_mark_page(v) ==
  /\ proc_dead = 0 /\ pte[v].frame # 0
  /\ pte' = [pte EXCEPT ![v].w = 0, ![v].cow = 1]
  /\ UNCHANGED <<pf_stats, proc_dead, stack_base, frames>>

(* The bound is computed from stack_top without a sign; nothing sets it. *)
stack_fault(v) == v > (stack_top - MAX_STACK_SIZE) % AddressSpace /\ v <= USER_STACK_TOP
stack_expand(v) == v <= USER_STACK_TOP /\ USER_STACK_TOP - v <= MAX_STACK_SIZE /\ v < stack_base

(* cow_resolve_fault copies to a new frame and keeps the old one;
   demand_page_alloc maps without PAGE_WRITABLE. *)
fault_handled(v, cause) ==
  CASE cause = "cow" -> pte[v].cow = 1
    [] cause = "demand" -> TRUE
    [] cause = "stack" -> stack_expand(v)
    [] cause = "protection" -> FALSE

resolved(v, cause) == [pte EXCEPT ![v] = [w |-> IF cause = "demand" THEN 0 ELSE 1, cow |-> 0, frame |-> frames + 1]]

(* pagefault_handler for an access of the user to a page that is not present
   or not writable; a kernel fault halts the machine.  enough: whether there
   is a free page. *)
pagefault_handler(v, write, enough) ==
  LET cause == IF pte[v].frame = 0 THEN (IF stack_fault(v) THEN "stack" ELSE "demand")
               ELSE IF write THEN "cow" ELSE "protection"
      ok == enough /\ fault_handled(v, cause)
  IN  /\ proc_dead = 0 /\ pf_stats.total < MaxFaults
      /\ pte[v].frame # 0 => write /\ pte[v].w = 0
      /\ pf_stats' = [pf_stats EXCEPT !.total = @ + 1, ![cause] = @ + 1]
      /\ proc_dead' = IF ok THEN 0 ELSE 1
      /\ frames' = frames + (IF ok THEN 1 ELSE 0)
      /\ pte' = IF ok THEN resolved(v, cause) ELSE pte
      /\ stack_base' = IF ok /\ cause = "stack" THEN v ELSE stack_base

FaultNext ==
  \E v \in FaultPage : cow_mark_page(v) \/ \E write, enough \in BOOLEAN : pagefault_handler(v, write, enough)

-----------------------------------------------------------------------------
PagingTypeOK ==
  /\ area_count \in 0 .. SWAP_MAX_AREAS
  /\ \A i \in 0 .. SWAP_MAX_AREAS - 1 : areas[i].id \in 0 .. Len(bitmaps) /\ areas[i].active \in {0, 1}
  /\ pc_total \in Nat /\ pc_dirty \in Int /\ Len(lru) = Len(cache)
  /\ \A v \in FaultPage : pte[v].w \in {0, 1} /\ pte[v].cow \in {0, 1} /\ pte[v].frame \in 0 .. frames

(* swap_alloc_entry, swap_in, swap_free_entry and swap_remove_area: until  *)
(* an area has been moved, the count of an area is the size of its bitmap, *)
(* no two entries name one slot, and every entry handed out is still valid *)
(* and, in a file, still holds the page that was written out.              *)
SwapBooks ==
  ~moved =>
    /\ \A i \in 0 .. area_count - 1 : areas[i].used = Cardinality(bitmaps[areas[i].id])
    /\ \A m, n \in entries : m.at = n.at => m = n
    /\ \A n \in entries : /\ valid_entry(n.at)
                          /\ n.type = "FILE" => swap_data[areas[n.at[1]].id][n.at[2]] = n.page

(* pagecache_get_page and the write-back: every entry is in the list once, *)
(* and unless a write-back or a first read ran into another one, a change  *)
(* of its page or a second entry of its key, pc_dirty counts the dirty     *)
(* entries, and a page at rest, clean and the only one of its key is what  *)
(* the disk has.                                                           *)
CacheBooks ==
  /\ pc_total = Len(cache) /\ {lru[i] : i \in 1 .. Len(lru)} = 1 .. Len(cache)
  /\ ~overlapped => /\ pc_dirty = Cardinality({i \in 1 .. Len(cache) : cache[i].dirty = 1})
                    /\ \A i \in 1 .. Len(cache) :
                         \/ cache[i].dirty = 1 \/ Cardinality(found(cache[i].key)) > 1
                         \/ \E p \in Cacher : cacher[p].op \in {"read", "dirty"} /\ cacher[p].at = i
                         \/ disk[cache[i].key] = cache[i].page

(* pagefault_handler: a page is writable only once its last mark has been  *)
(* resolved by a frame of its own; the causes add up to the faults; and as *)
(* long as the process lives every fault has given it a frame, the ones    *)
(* it copied from included.                                                *)
FaultBooks ==
  /\ \A v, w \in FaultPage : pte[v].frame # 0 /\ pte[v].frame = pte[w].frame => v = w
  /\ \A v \in FaultPage : pte[v].w = 1 => pte[v].cow = 0
  /\ pf_stats.total = pf_stats.stack + pf_stats.demand + pf_stats.cow + pf_stats.protection
  /\ proc_dead = 0 => frames = pf_stats.total
=============================================================================
