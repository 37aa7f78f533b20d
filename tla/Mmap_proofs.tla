---------------------------- MODULE Mmap_proofs ----------------------------
(***************************************************************************)
(* What the runs of Mmap check on a small address space, proved for every  *)
(* table size, page size, address range and set of contexts and frames.    *)
(***************************************************************************)
EXTENDS Mmap, FiniteSetTheorems, WellFoundedInduction, TLAPS

(* A table of areas no two of which overlap. *)
TableOK(ar) ==
  /\ ar \in [Slot -> Areas]
  /\ \A i, j \in Slot :
       (i # j /\ ar[j].active = 1) => ~covers(ar, i, ar[j].start, ar[j].start + ar[j].length)

Pt == [VPage -> Frame \cup {NOT_PRESENT}]

(* What do_munmap, install and commit work on. *)
Mm == [ar : [Slot -> Areas], count : Int, pt : Pt, lost : {0, 1}]

(* The inductive invariant: tables without overlap, and exclusive frames. *)
MmapInv ==
  /\ areas \in [Ctx -> [Slot -> Areas]]
  /\ \A c \in Ctx : TableOK(areas[c])
  /\ area_count \in [Ctx -> Int]
  /\ pte \in Pt
  /\ free \subseteq Frame
  /\ brk \in [Ctx -> Addr]
  /\ lost \in {0, 1}
  /\ FramesExclusive

-----------------------------------------------------------------------------
(* Rounding up to a page never makes a length shorter. *)
LEMMA AlignUp ==
  ASSUME NEW n \in Nat
  PROVE  PAGE_ALIGN_UP(n) \in Nat /\ PAGE_ALIGN_UP(n) >= n
<1>1. (n + PAGE_SIZE - 1) % PAGE_SIZE \in 0 .. PAGE_SIZE - 1
  BY MmapAssumption
<1> QED
  BY <1>1, MmapAssumption DEF PAGE_ALIGN_UP, PAGE_ALIGN_DOWN

(* An entry that mmap_do_munmap cuts stays inside what it was. *)
LEMMA TrimmedInside ==
  ASSUME NEW a \in Areas, NEW lo \in Nat, NEW hi \in Nat,
         a.active = 1, lo < a.start + a.length, hi > a.start
  PROVE  LET b == trimmed(a, lo, hi) IN
         /\ b \in Areas
         /\ b.active = 1 => /\ b.start >= a.start
                            /\ b.start + b.length <= a.start + a.length
                            /\ b.start >= hi \/ b.start + b.length <= lo
<1>1. NoArea \in Areas /\ NoArea.active = 0
  BY DEF NoArea, Areas, Flags
<1>2. CASE whole(a, lo, hi)
  BY <1>1, <1>2 DEF trimmed
<1>3. CASE ~whole(a, lo, hi) /\ lo <= a.start
  BY <1>3 DEF trimmed, whole, Areas, Area
<1>4. CASE ~whole(a, lo, hi) /\ lo > a.start
  BY <1>4 DEF trimmed, whole, Areas, Area
<1> QED
  BY <1>2, <1>3, <1>4 DEF Areas

(* The tail of a split area lies above the hole. *)
LEMMA TailInside ==
  ASSUME NEW a \in Areas, NEW lo \in Nat, NEW hi \in Nat, lo <= hi, inner(a, lo, hi)
  PROVE  LET b == tail(a, hi) IN
         /\ b \in Areas
         /\ b.active = 1
         /\ b.start = hi
         /\ b.start + b.length = a.start + a.length
         /\ a.start <= hi
BY DEF tail, inner, Areas, Area

(* mmap_do_munmap keeps the table free of overlaps and empties the range. *)
LEMMA MunmapTable ==
  ASSUME NEW ar, TableOK(ar), NEW lo \in Nat, NEW hi \in Nat, lo <= hi
  PROVE  /\ TableOK(unmapped_areas(ar, lo, hi))
         /\ ~mmap_check_overlap(unmapped_areas(ar, lo, hi), lo, hi)
<1> DEFINE new == unmapped_areas(ar, lo, hi)
           sp  == CHOOSE s \in splits(ar, lo, hi) : TRUE
           isTail(i) == ~covers(ar, i, lo, hi) /\ mmap_alloc_slot(ar, i) /\ splits(ar, lo, hi) # {}
<1>0. ar \in [Slot -> Areas]
  BY DEF TableOK
<1>1. splits(ar, lo, hi) # {} => sp \in Slot /\ covers(ar, sp, lo, hi) /\ inner(ar[sp], lo, hi)
  BY DEF splits
<1>2. ASSUME NEW i \in Slot
      PROVE  new[i] = IF covers(ar, i, lo, hi) THEN trimmed(ar[i], lo, hi)
                      ELSE IF isTail(i) THEN tail(ar[sp], hi) ELSE ar[i]
  BY DEF unmapped_areas
<1> HIDE DEF new, sp, isTail
<1>3. ASSUME NEW i \in Slot, covers(ar, i, lo, hi)
      PROVE  /\ new[i] \in Areas
             /\ new[i].active = 1 => /\ new[i].start >= ar[i].start
                                     /\ new[i].start + new[i].length <= ar[i].start + ar[i].length
                                     /\ new[i].start >= hi \/ new[i].start + new[i].length <= lo
  BY <1>0, <1>2, <1>3, TrimmedInside DEF covers
<1>4. ASSUME NEW i \in Slot, isTail(i)
      PROVE  /\ new[i] \in Areas
             /\ new[i].start = hi
             /\ new[i].start + new[i].length = ar[sp].start + ar[sp].length
             /\ ar[sp].start <= hi
             /\ sp \in Slot /\ ar[sp].active = 1 /\ sp # i
             /\ new[sp].active = 1 => new[sp].start + new[sp].length <= lo
  <2>1. new[i] = tail(ar[sp], hi) /\ sp \in Slot /\ covers(ar, sp, lo, hi) /\ inner(ar[sp], lo, hi)
    BY <1>1, <1>2, <1>4 DEF isTail
  <2>2. new[sp] = trimmed(ar[sp], lo, hi) /\ ar[sp].active = 1 /\ sp # i
    BY <2>1, <1>2, <1>4 DEF covers, isTail, mmap_alloc_slot
  <2>3. ar[sp] \in Areas
    BY <1>0, <2>1
  <2>4. ~whole(ar[sp], lo, hi) /\ ~(lo <= ar[sp].start)
    BY <2>1, <2>3 DEF inner, whole, Areas
  <2>5. new[sp].start + new[sp].length <= lo
    BY <2>2, <2>3, <2>4 DEF trimmed, Areas, Area
  <2> QED
    BY <2>1, <2>2, <2>3, <2>5, TailInside
<1>5. ASSUME NEW i \in Slot, ~covers(ar, i, lo, hi), ~isTail(i)
      PROVE  new[i] = ar[i] /\ new[i] \in Areas
  BY <1>0, <1>2, <1>5
<1>6. new \in [Slot -> Areas]
  <2>1. \A i \in Slot : new[i] \in Areas
    BY <1>3, <1>4, <1>5
  <2> QED
    BY <2>1 DEF new, unmapped_areas
<1>7. ASSUME NEW i \in Slot
      PROVE  ~covers(new, i, lo, hi)
  <2>1. CASE covers(ar, i, lo, hi)
    BY <1>3, <2>1 DEF covers, Areas
  <2>2. CASE isTail(i)
    BY <1>4, <2>2 DEF covers, Areas
  <2>3. CASE ~covers(ar, i, lo, hi) /\ ~isTail(i)
    BY <1>5, <2>3 DEF covers
  <2> QED
    BY <2>1, <2>2, <2>3
<1>8. ASSUME NEW i \in Slot, NEW j \in Slot, i # j, new[j].active = 1,
             covers(new, i, new[j].start, new[j].start + new[j].length)
      PROVE  FALSE
  <2> DEFINE within(k, o) == /\ ar[o].active = 1
                             /\ new[k].start >= ar[o].start
                             /\ new[k].start + new[k].length <= ar[o].start + ar[o].length
  <2>1. ar \in [Slot -> Areas] /\ new \in [Slot -> Areas] /\ new[i].active = 1
    BY <1>6, <1>8 DEF TableOK, covers
  <2>2. ASSUME NEW k \in Slot, new[k].active = 1, ~isTail(k)
        PROVE  within(k, k)
    <3>1. CASE covers(ar, k, lo, hi)
      BY <1>3, <2>2, <3>1 DEF covers
    <3>2. CASE ~covers(ar, k, lo, hi)
      BY <1>5, <2>1, <2>2, <3>2 DEF Areas
    <3> QED
      BY <3>1, <3>2
  <2>3. ASSUME NEW k \in Slot, new[k].active = 1, isTail(k)
        PROVE  sp \in Slot /\ sp # k /\ within(k, sp)
    BY <1>4, <2>1, <2>3 DEF Areas
  <2>4. ASSUME NEW p \in Slot, NEW q \in Slot, p # q, within(i, p), within(j, q)
        PROVE  FALSE
    <3>1. ~covers(ar, p, ar[q].start, ar[q].start + ar[q].length)
      BY <2>4 DEF TableOK
    <3>2. ar[p] \in Areas /\ ar[q] \in Areas /\ new[i] \in Areas /\ new[j] \in Areas
      BY <2>1
    <3> QED
      BY <1>8, <2>4, <3>1, <3>2 DEF covers, Areas
  <2>5. CASE ~isTail(i) /\ ~isTail(j)
    BY <1>8, <2>1, <2>2, <2>4, <2>5
  <2>6. CASE isTail(i) /\ ~isTail(j)
    <3>1. within(i, sp) /\ within(j, j) /\ sp \in Slot
      BY <1>8, <2>1, <2>2, <2>3, <2>6
    <3>2. CASE j = sp
      BY <1>4, <1>8, <2>1, <2>6, <3>2 DEF covers, Areas
    <3> QED
      BY <2>4, <3>1, <3>2
  <2>7. CASE ~isTail(i) /\ isTail(j)
    <3>1. within(j, sp) /\ within(i, i) /\ sp \in Slot
      BY <1>8, <2>1, <2>2, <2>3, <2>7
    <3>2. CASE i = sp
      BY <1>4, <1>8, <2>1, <2>7, <3>2 DEF covers, Areas
    <3> QED
      BY <2>4, <3>1, <3>2
  <2>8. CASE isTail(i) /\ isTail(j)
    BY <1>8, <2>8, MmapAssumption DEF isTail, mmap_alloc_slot, Slot
  <2> QED
    BY <2>5, <2>6, <2>7, <2>8
<1> QED
  BY <1>6, <1>7, <1>8 DEF new, TableOK, mmap_check_overlap

-----------------------------------------------------------------------------
(* Every page is as before, unmapped, or mapped to a frame just allocated. *)
Refilled(pt, fr) ==
  /\ pt \in Pt
  /\ fr \subseteq free
  /\ \A v \in VPage : pt[v] \in {NOT_PRESENT, pte[v]} \/ pt[v] \in free \ fr
  /\ \A v, w \in VPage : v # w /\ pt[v] \in free => pt[v] # pt[w]

(* Pages only disappeared. *)
Cleared(pt) == pt \in Pt /\ \A v \in VPage : pt[v] \in {NOT_PRESENT, pte[v]}

(* Unmapping pages only ever takes entries out of the page table. *)
LEMMA ClearClears ==
  ASSUME NEW pt, Cleared(pt), NEW vs
  PROVE  Cleared(clear(pt, vs))
BY DEF Cleared, clear, Pt

(* A page table with fewer entries is one CommitKeeps applies to. *)
LEMMA ClearedIsRefilled ==
  ASSUME MmapInv, NEW pt, Cleared(pt), NEW fr, fr \subseteq free
  PROVE  Refilled(pt, fr)
<1>1. \A v \in VPage : pt[v] \notin free
  BY MmapAssumption DEF MmapInv, Cleared, FramesExclusive
<1> QED
  BY <1>1 DEF Cleared, Refilled

(* A step that commits a good table and a refilled page table keeps the invariant. *)
LEMMA CommitKeeps ==
  ASSUME MmapInv, NEW c \in Ctx, NEW m \in Mm, NEW fr,
         TableOK(m.ar), Refilled(m.pt, fr), commit(c, m, fr), brk' \in [Ctx -> Addr]
  PROVE  MmapInv'
<1>1. /\ areas' \in [Ctx -> [Slot -> Areas]] /\ \A d \in Ctx : TableOK(areas'[d])
      /\ area_count' \in [Ctx -> Int] /\ pte' \in Pt /\ free' \subseteq Frame
      /\ lost' \in {0, 1}
  BY DEF MmapInv, commit, Mm, TableOK, Refilled
<1>2. FramesExclusive'
  <2>1. \A v \in VPage : pte[v] \notin free
    BY DEF MmapInv, FramesExclusive
  <2>2. \A v, w \in VPage : v # w /\ pte[v] # NOT_PRESENT => pte[v] # pte[w]
    BY DEF MmapInv, FramesExclusive
  <2>3. free \subseteq Frame /\ NOT_PRESENT \notin free /\ pte' = m.pt /\ free' = fr
    BY MmapAssumption DEF MmapInv, commit
  <2>4. \A v \in VPage : pte'[v] \notin free'
    BY <2>1, <2>3 DEF Refilled
  <2>5. ASSUME NEW v \in VPage, NEW w \in VPage, v # w, pte'[v] # NOT_PRESENT
        PROVE  pte'[v] # pte'[w]
    <3>1. CASE pte'[v] \in free \/ pte'[w] \in free
      BY <2>3, <2>5, <3>1 DEF Refilled
    <3>2. CASE pte'[v] \notin free /\ pte'[w] \notin free
      BY <2>2, <2>3, <2>5, <3>2 DEF Refilled
    <3> QED
      BY <3>1, <3>2
  <2> QED
    BY <2>4, <2>5 DEF FramesExclusive
<1> QED
  BY <1>1, <1>2 DEF MmapInv, TableOK, covers, Pt

-----------------------------------------------------------------------------
(* The context between two calls is one that CommitKeeps applies to. *)
LEMMA NowOK ==
  ASSUME MmapInv, NEW c \in Ctx
  PROVE  now(c) \in Mm /\ TableOK(now(c).ar) /\ Cleared(now(c).pt)
BY DEF MmapInv, now, Mm, Cleared

(* The context mmap_do_munmap leaves is a good one with an empty range. *)
LEMMA MunmapOK ==
  ASSUME MmapInv, NEW m \in Mm, TableOK(m.ar), Cleared(m.pt),
         NEW addr \in Nat, NEW length \in Nat
  PROVE  LET r == do_munmap(m, addr, length) IN
         /\ r \in Mm /\ TableOK(r.ar) /\ Cleared(r.pt)
         /\ ~mmap_check_overlap(r.ar, addr, addr + PAGE_ALIGN_UP(length))
<1> DEFINE hi == addr + PAGE_ALIGN_UP(length)
           ar == unmapped_areas(m.ar, addr, hi)
           n == m.count + unmapped_count(m.ar, addr, hi)
           pt == clear(m.pt, unmapped_pages(m.ar, addr, hi))
           l == IF tail_lost(m.ar, addr, hi) THEN 1 ELSE m.lost
           r == [ar |-> ar, count |-> n, pt |-> pt, lost |-> l]
<1>1. hi \in Nat /\ addr <= hi
  BY AlignUp
<1>2. TableOK(ar) /\ ~mmap_check_overlap(ar, addr, hi)
  BY <1>1, MunmapTable
<1>3. Cleared(pt)
  BY ClearClears
<1>4. unmapped_count(m.ar, addr, hi) \in Int
  <2>1. {i \in Slot : covers(m.ar, i, addr, hi) /\ whole(m.ar[i], addr, hi)} \subseteq Slot
    OBVIOUS
  <2>2. IsFiniteSet(Slot)
    BY FS_Interval, MmapAssumption DEF Slot
  <2>3. Cardinality({i \in Slot : covers(m.ar, i, addr, hi) /\ whole(m.ar[i], addr, hi)}) \in Nat
    BY <2>1, <2>2, FS_Subset, FS_CardinalityType
  <2> QED
    BY <2>3 DEF unmapped_count
<1>5. do_munmap(m, addr, length) = r
  BY Zenon DEF do_munmap
<1>6. n \in Int /\ l \in {0, 1}
  <2>1. m.count \in Int /\ m.lost \in {0, 1}
    BY DEF Mm
  <2> QED
    BY <1>4, <2>1
<1> HIDE DEF ar, n, pt, l
<1>7. ar \in [Slot -> Areas] /\ pt \in Pt
  BY <1>2, <1>3 DEF TableOK, Cleared
<1>8. r \in Mm /\ r.ar = ar /\ r.pt = pt
  BY <1>6, <1>7 DEF Mm
<1> HIDE DEF r
<1> QED
  BY <1>2, <1>3, <1>5, <1>8, Zenon

(* A table with one more area that overlaps none is still one without overlaps. *)
LEMMA AddArea ==
  ASSUME NEW ar, TableOK(ar), NEW i \in Slot, NEW a \in Areas, a.active = 1,
         ~mmap_check_overlap(ar, a.start, a.start + a.length)
  PROVE  TableOK([ar EXCEPT ![i] = a])
<1> DEFINE new == [ar EXCEPT ![i] = a]
<1>1. new \in [Slot -> Areas] /\ ar \in [Slot -> Areas]
  BY DEF TableOK
<1>2. ASSUME NEW j \in Slot, NEW k \in Slot, j # k, new[k].active = 1
      PROVE  ~covers(new, j, new[k].start, new[k].start + new[k].length)
  <2>1. CASE j # i /\ k # i
    BY <1>2, <2>1, <1>1 DEF TableOK, covers
  <2>2. CASE k = i
    BY <1>2, <2>2, <1>1 DEF mmap_check_overlap, covers
  <2>3. CASE j = i
    BY <1>2, <2>3, <1>1 DEF mmap_check_overlap, covers, Areas
  <2> QED
    BY <2>1, <2>2, <2>3
<1> QED
  BY <1>1, <1>2 DEF TableOK

(* Frames granted to distinct pages refill them. *)
LEMMA GrantRefills ==
  ASSUME MmapInv, NEW pt, Cleared(pt), NEW vs, NEW g \in Grants(free, vs), NEW gone
  PROVE  Refilled(clear(map_pages(pt, g), gone), free \ granted(g))
<1>1. g \in [vs -> free] /\ \A v, w \in vs : g[v] = g[w] => v = w
  BY DEF Grants
<1>2. \A v \in VPage : pt[v] \in Frame \cup {NOT_PRESENT} /\ pt[v] \in {NOT_PRESENT, pte[v]}
  BY DEF Cleared, Pt
<1>3. free \subseteq Frame /\ NOT_PRESENT \notin free /\ \A v \in VPage : pte[v] \notin free
  BY MmapAssumption DEF MmapInv, FramesExclusive
<1>4. ASSUME NEW v \in VPage
      PROVE  LET x == clear(map_pages(pt, g), gone)[v] IN
             \/ x \in {NOT_PRESENT, pte[v]} /\ x \in Frame \cup {NOT_PRESENT}
             \/ v \in vs /\ x = g[v] /\ x \in free /\ x \in granted(g)
  BY <1>1, <1>2 DEF clear, map_pages, granted
<1> DEFINE new == clear(map_pages(pt, g), gone)
<1>5. new \in [VPage -> Frame \cup {NOT_PRESENT}]
  <2>1. \A v \in VPage : new[v] \in Frame \cup {NOT_PRESENT}
    BY <1>3, <1>4
  <2> QED
    BY <2>1 DEF clear
<1> HIDE DEF new
<1>6. \A v, w \in VPage : v # w /\ new[v] \in free => new[v] # new[w]
  BY <1>1, <1>3, <1>4 DEF new
<1> QED
  BY <1>3, <1>4, <1>5, <1>6 DEF Refilled, new, Pt

-----------------------------------------------------------------------------
(* The new area in its slot, and the page table pt. *)
LEMMA WithArea ==
  ASSUME NEW m \in Mm, NEW i \in Slot, NEW a \in Areas, NEW pt \in Pt
  PROVE  /\ with_area(m, i, a, pt) \in Mm
         /\ with_area(m, i, a, pt).ar = [m.ar EXCEPT ![i] = a] /\ with_area(m, i, a, pt).pt = pt
BY DEF with_area, Mm

(* Populating an area keeps the invariant, with and without a rollback. *)
LEMMA PopulateKeeps ==
  ASSUME MmapInv, NEW c \in Ctx, NEW m \in Mm, TableOK(m.ar), Cleared(m.pt),
         NEW i \in Slot, NEW a \in Areas, a.active = 1,
         ~mmap_check_overlap(m.ar, a.start, a.start + a.length), NEW n,
         populate_anonymous(c, m, i, a, n) \/ populate_shared(c, m, i, a, n),
         brk' \in [Ctx -> Addr]
  PROVE  MmapInv'
<1>1. TableOK([m.ar EXCEPT ![i] = a])
  BY AddArea
<1>2. ASSUME NEW vs, NEW g \in Grants(free, vs), NEW gone,
             commit(c, with_area(m, i, a, clear(map_pages(m.pt, g), gone)), free \ granted(g))
      PROVE  MmapInv'
  <2> DEFINE pt == clear(map_pages(m.pt, g), gone)
             r == with_area(m, i, a, pt)
             fr == free \ granted(g)
  <2>1. Refilled(pt, fr)
    BY GrantRefills
  <2>2. pt \in Pt
    BY <2>1 DEF Refilled
  <2>3. r \in Mm /\ r.ar = [m.ar EXCEPT ![i] = a] /\ r.pt = pt
    <3> HIDE DEF pt
    <3> QED
      BY <2>2, WithArea
  <2>4. commit(c, r, fr) /\ Refilled(pt, fr)
    BY <1>2, <2>1
  <2> HIDE DEF r, pt, fr
  <2> QED
    BY <1>1, <2>3, <2>4, CommitKeeps
<1>3. ASSUME NEW vs, NEW fr, fr \subseteq free, commit(c, [m EXCEPT !.pt = clear(m.pt, vs)], fr)
      PROVE  MmapInv'
  <2>1. Cleared(clear(m.pt, vs))
    BY ClearClears
  <2>2. [m EXCEPT !.pt = clear(m.pt, vs)] \in Mm
    BY <2>1 DEF Mm, Cleared
  <2>3. [m EXCEPT !.pt = clear(m.pt, vs)].ar = m.ar
        /\ [m EXCEPT !.pt = clear(m.pt, vs)].pt = clear(m.pt, vs)
    BY DEF Mm
  <2>4. Refilled(clear(m.pt, vs), fr)
    BY <2>1, <1>3, ClearedIsRefilled
  <2> QED
    BY <1>3, <2>2, <2>3, <2>4, CommitKeeps
<1>4. CASE populate_anonymous(c, m, i, a, n)
  <2>1. ASSUME NEW g \in Grants(free, firstPages(a.start, n)),
               commit(c, with_area(m, i, a, map_pages(m.pt, g)), free \ granted(g))
        PROVE  MmapInv'
    <3>1. map_pages(m.pt, g) = clear(map_pages(m.pt, g), {})
      BY DEF clear, map_pages
    <3> QED
      BY <1>2, <2>1, <3>1
  <2> QED
    BY <1>3, <1>4, <2>1 DEF populate_anonymous
<1>5. CASE populate_shared(c, m, i, a, n)
  <2>1. \/ \E vs, lose : commit(c, [m EXCEPT !.pt = clear(m.pt, vs)], free \ lose)
        \/ \E g \in Grants(free, firstPages(a.start, n)) : \E failed :
             commit(c, with_area(m, i, a, clear(map_pages(m.pt, g), failed)), free \ granted(g))
    BY <1>5 DEF populate_shared
  <2>2. ASSUME NEW lose PROVE free \ lose \subseteq free
    OBVIOUS
  <2> QED
    BY <1>2, <1>3, <2>1, <2>2
<1> QED
  BY <1>4, <1>5

(* mmap_do_mmap from mmap_alloc_slot on. *)
LEMMA InstallKeeps ==
  ASSUME MmapInv, NEW c \in Ctx, NEW m \in Mm, TableOK(m.ar), Cleared(m.pt),
         NEW a \in Areas, a.active = 1,
         ~mmap_check_overlap(m.ar, a.start, a.start + a.length),
         install(c, m, a), brk' \in [Ctx -> Addr]
  PROVE  MmapInv'
<1>1. CASE commit(c, m, free)
  BY <1>1, ClearedIsRefilled, CommitKeeps
<1>2. ASSUME NEW i \in Slot, commit(c, with_area(m, i, a, m.pt), free)
      PROVE  MmapInv'
  <2>1. with_area(m, i, a, m.pt) \in Mm /\ with_area(m, i, a, m.pt).ar = [m.ar EXCEPT ![i] = a]
        /\ with_area(m, i, a, m.pt).pt = m.pt
    BY WithArea DEF Cleared
  <2>2. Refilled(m.pt, free)
    BY ClearedIsRefilled
  <2> QED
    BY <1>2, <2>1, <2>2, AddArea, CommitKeeps
<1>3. ASSUME NEW i \in Slot,
             \/ populate_anonymous(c, m, i, a, a.length \div PAGE_SIZE)
             \/ populate_shared(c, m, i, a, a.length \div PAGE_SIZE)
      PROVE  MmapInv'
  BY <1>3, PopulateKeeps
<1> QED
  BY <1>1, <1>2, <1>3 DEF install

(* mmap_do_mmap keeps the invariant on each of its paths. *)
LEMMA MmapKeeps ==
  ASSUME MmapInv, NEW c \in Ctx, NEW addr \in Nat, NEW length \in Nat, NEW flags \in Flags,
         NEW fixed, mmap_do_mmap(c, addr, length, flags, fixed), brk' \in [Ctx -> Addr]
  PROVE  MmapInv'
<1> DEFINE m == now(c)
           len == PAGE_ALIGN_UP(length)
<1>1. m \in Mm /\ TableOK(m.ar) /\ Cleared(m.pt)
  BY NowOK
<1>2. len \in Nat
  BY AlignUp
<1>3. \A at \in Nat : Area(at, len, flags) \in Areas /\ Area(at, len, flags).active = 1
                      /\ Area(at, len, flags).start = at /\ Area(at, len, flags).length = len
  BY <1>2 DEF Area, Areas
<1> HIDE DEF m, len
<1>4. CASE commit(c, m, free)
  BY <1>1, <1>4, ClearedIsRefilled, CommitKeeps
<1>5. ASSUME NEW at \in 0 .. MMAP_SEARCH_START, at # 0, mmap_find_free_area(m.ar, len, at),
             install(c, m, Area(at, len, flags))
      PROVE  MmapInv'
  <2>1. at \in Nat /\ ~mmap_check_overlap(m.ar, at, at + len)
    BY <1>5, MmapAssumption DEF mmap_find_free_area, free_place
  <2> QED
    BY <1>1, <1>3, <1>5, <2>1, InstallKeeps
<1>6. CASE install(c, do_munmap(m, addr, len), Area(addr, len, flags))
  <2> DEFINE r == do_munmap(m, addr, len)
  <2>1. /\ r \in Mm /\ TableOK(r.ar) /\ Cleared(r.pt)
        /\ ~mmap_check_overlap(r.ar, addr, addr + PAGE_ALIGN_UP(len))
    BY <1>1, <1>2, MunmapOK
  <2>2. r.ar \in [Slot -> Areas] /\ addr + PAGE_ALIGN_UP(len) >= addr + len
        /\ PAGE_ALIGN_UP(len) \in Nat
    BY <1>2, <2>1, AlignUp DEF Mm
  <2> HIDE DEF r
  <2>3. ~mmap_check_overlap(r.ar, addr, addr + len)
    BY <1>2, <2>1, <2>2 DEF mmap_check_overlap, covers, Areas
  <2> QED
    BY <1>3, <1>6, <2>1, <2>3, InstallKeeps DEF r
<1>7. CASE ~mmap_check_overlap(m.ar, addr, addr + len) /\ install(c, m, Area(addr, len, flags))
  BY <1>1, <1>3, <1>7, InstallKeeps
<1> QED
  BY <1>4, <1>5, <1>6, <1>7 DEF mmap_do_mmap, m, len

(* mmap_do_munmap keeps the invariant. *)
LEMMA MunmapKeeps ==
  ASSUME MmapInv, NEW c \in Ctx, NEW addr \in Nat, NEW length \in Nat,
         mmap_do_munmap(c, addr, length), brk' \in [Ctx -> Addr]
  PROVE  MmapInv'
<1> DEFINE r == do_munmap(now(c), addr, length)
<1>1. r \in Mm /\ TableOK(r.ar) /\ Cleared(r.pt) /\ commit(c, r, free)
  BY NowOK, MunmapOK DEF mmap_do_munmap
<1> HIDE DEF r
<1> QED
  BY <1>1, ClearedIsRefilled, CommitKeeps

-----------------------------------------------------------------------------
(* Contexts after mmap_context_init have the invariant. *)
LEMMA MmapInit == mmap_init => MmapInv
<1> SUFFICES ASSUME mmap_init PROVE MmapInv
  OBVIOUS
<1>1. NoArea \in Areas /\ NoArea.active = 0
  BY DEF NoArea, Areas, Flags
<1>2. TableOK(mmap_context_init)
  BY <1>1 DEF TableOK, mmap_context_init
<1>3. FramesExclusive
  BY MmapAssumption DEF mmap_init, FramesExclusive
<1> QED
  BY <1>2, <1>3, MmapAssumption DEF mmap_init, MmapInv, TableOK, Pt, Addr

(* Every system call, fault and destruction keeps the invariant. *)
LEMMA MmapStep == MmapInv /\ [MmapNext]_mmVars => MmapInv'
<1> SUFFICES ASSUME MmapInv, [MmapNext]_mmVars PROVE MmapInv'
  OBVIOUS
<1>0. Addr \subseteq Nat /\ Lengths \subseteq Nat /\ FlagChoices \subseteq Flags
  BY MmapAssumption DEF Addr
<1>b. brk \in [Ctx -> Addr]
  BY DEF MmapInv
<1>1. CASE UNCHANGED mmVars
  BY <1>1 DEF mmVars, MmapInv, TableOK, covers, FramesExclusive, Pt
<1>2. ASSUME NEW c \in Ctx, sys_mmap(c) PROVE MmapInv'
  BY <1>0, <1>b, <1>2, MmapKeeps DEF sys_mmap
<1>3. ASSUME NEW c \in Ctx, sys_munmap(c) PROVE MmapInv'
  BY <1>0, <1>b, <1>3, MunmapKeeps DEF sys_munmap
<1>4. ASSUME NEW c \in Ctx, sys_brk(c) PROVE MmapInv'
  <2>1. PICK addr \in Addr \ {0} :
          /\ brk' = [brk EXCEPT ![c] = addr]
          /\ \/ addr > brk[c] /\ mmap_do_mmap(c, brk[c], addr - brk[c], {"MAP_ANONYMOUS"}, FALSE)
             \/ addr < brk[c] /\ mmap_do_munmap(c, addr, brk[c] - addr)
             \/ addr = brk[c] /\ commit(c, now(c), free)
    BY <1>4 DEF sys_brk
  <2>2. brk' \in [Ctx -> Addr] /\ addr \in Nat /\ brk[c] \in Nat
    BY <1>0, <1>b, <2>1
  <2>3. {"MAP_ANONYMOUS"} \in Flags
    BY DEF Flags
  <2>4. CASE addr > brk[c] /\ mmap_do_mmap(c, brk[c], addr - brk[c], {"MAP_ANONYMOUS"}, FALSE)
    <3>1. addr - brk[c] \in Nat
      BY <2>2, <2>4
    <3> QED
      BY <2>2, <2>3, <2>4, <3>1, MmapKeeps
  <2>5. CASE addr < brk[c] /\ mmap_do_munmap(c, addr, brk[c] - addr)
    <3>1. brk[c] - addr \in Nat
      BY <2>2, <2>5
    <3> QED
      BY <2>2, <2>5, <3>1, MunmapKeeps
  <2>6. CASE commit(c, now(c), free)
    BY <2>2, <2>6, NowOK, ClearedIsRefilled, CommitKeeps
  <2> QED
    BY <2>1, <2>4, <2>5, <2>6
<1>5. ASSUME NEW c \in Ctx, fault(c) PROVE MmapInv'
  <2>1. PICK vaddr \in Addr, f \in free :
          /\ free' = free \ {f} /\ pte' = [pte EXCEPT ![PageOf(vaddr)] = f]
          /\ UNCHANGED <<areas, area_count, brk, lost>>
    BY <1>5 DEF fault, mmap_page_fault_handler
  <2>2. FramesExclusive' /\ pte' \in Pt /\ free' \subseteq Frame
    BY <2>1, MmapAssumption DEF MmapInv, FramesExclusive, Pt
  <2> QED
    BY <2>1, <2>2 DEF MmapInv, TableOK, covers, Pt
<1>6. ASSUME NEW c \in Ctx, mmap_context_destroy(c) PROVE MmapInv'
  <2> DEFINE vs == UNION {firstPages(areas[c][i].start, areas[c][i].length \div PAGE_SIZE) :
                            i \in {i \in Slot : areas[c][i].active = 1}}
             l  == IF \E i \in {i \in Slot : areas[c][i].active = 1} :
                        \/ areas[c][i].start % PAGE_SIZE # 0
                        \/ areas[c][i].length % PAGE_SIZE # 0
                     THEN 1 ELSE lost
             r  == [ar |-> mmap_context_init, count |-> 0, pt |-> clear(pte, vs), lost |-> l]
  <2>1. commit(c, r, free) /\ brk' = brk
    BY <1>6 DEF mmap_context_destroy
  <2>2. l \in {0, 1}
    BY DEF MmapInv
  <2> HIDE DEF vs, l
  <2>3. NoArea \in Areas /\ NoArea.active = 0
    BY DEF NoArea, Areas, Flags
  <2>4. TableOK(mmap_context_init)
    BY <2>3 DEF TableOK, mmap_context_init
  <2>5. Cleared(clear(pte, vs))
    BY ClearClears DEF Cleared, MmapInv
  <2>6. r \in Mm
    BY <2>2, <2>4, <2>5 DEF Mm, TableOK, Cleared
  <2>7. Refilled(r.pt, free)
    BY <2>5, ClearedIsRefilled
  <2> QED
    BY <1>b, <2>1, <2>4, <2>6, <2>7, CommitKeeps
<1> QED
  BY <1>1, <1>2, <1>3, <1>4, <1>5, <1>6 DEF MmapNext

(* The tables, the page table and the free frames stay consistent for ever. *)
THEOREM MmapInvariant == MmapSpec => []MmapInv
<1> QED
  BY MmapInit, MmapStep, PTL DEF MmapSpec

(***************************************************************************)
(* For every size of the table, of a page and of the address space: the    *)
(* areas of a context never overlap.                                       *)
(***************************************************************************)
THEOREM AreasNeverOverlap == MmapSpec => []AreasDisjoint
<1>1. MmapInv => AreasDisjoint
  BY DEF MmapInv, TableOK, AreasDisjoint
<1> QED
  BY <1>1, MmapInvariant, PTL

(***************************************************************************)
(* For every number of contexts and frames: no frame is mapped twice, or   *)
(* mapped while the allocator may return it.                               *)
(***************************************************************************)
THEOREM FramesNeverShared == MmapSpec => []FramesExclusive
<1>1. MmapInv => FramesExclusive
  BY DEF MmapInv
<1> QED
  BY <1>1, MmapInvariant, PTL

-----------------------------------------------------------------------------
(* The number of areas *)

InUse(ar) == {i \in Slot : ar[i].active = 1}

Counted(m) == m.count = Cardinality(InUse(m.ar))

(* A set of slots is finite and no larger than the table. *)
LEMMA SlotsFinite ==
  ASSUME NEW T, T \subseteq Slot
  PROVE  IsFiniteSet(T) /\ Cardinality(T) \in 0 .. MMAP_MAX_AREAS
<1>1. IsFiniteSet(Slot) /\ Cardinality(Slot) = MMAP_MAX_AREAS
  BY FS_Interval, MmapAssumption DEF Slot
<1>2. IsFiniteSet(T) /\ Cardinality(T) <= MMAP_MAX_AREAS
  BY <1>1, FS_Subset
<1> QED
  BY <1>2, FS_CardinalityType, MmapAssumption

(* A table that is not full has a first free slot, the one mmap_alloc_slot finds. *)
LEMMA FirstFree ==
  ASSUME NEW ar \in [Slot -> Areas], ~full(ar)
  PROVE  \E i \in Slot : mmap_alloc_slot(ar, i)
<1> DEFINE S == {i \in Slot : ar[i].active = 0}
<1>1. S # {} /\ S \subseteq Nat
  <2>1. PICK i \in Slot : ar[i].active # 1
    BY DEF full
  <2>2. ar[i].active = 0
    BY <2>1 DEF Areas
  <2>3. Slot \subseteq Nat
    BY MmapAssumption DEF Slot
  <2> QED
    BY <2>2, <2>3
<1> HIDE DEF S
<1>2. PICK i \in S : \A k \in S : ~ (<<k, i>> \in OpToRel(<, Nat))
  BY <1>1, WFMin, NatLessThanWellFounded
<1>3. \A k \in S : ~ (k < i)
  BY <1>1, <1>2 DEF OpToRel
<1> QED
  BY <1>3 DEF S, mmap_alloc_slot, Areas

(* mmap_alloc_slot finds one slot: the first that is free. *)
LEMMA FirstFreeUnique ==
  ASSUME NEW ar, NEW i \in Slot, NEW j \in Slot,
         mmap_alloc_slot(ar, i), mmap_alloc_slot(ar, j)
  PROVE  i = j
BY MmapAssumption DEF mmap_alloc_slot, Slot

(* mmap_do_munmap counts one area less for each it covers whole, and one    *)
(* more when it splits one and finds a slot for the tail.                   *)
LEMMA MunmapCounts ==
  ASSUME NEW m \in Mm, Counted(m), NEW addr \in Nat, NEW length \in Nat
  PROVE  Counted(do_munmap(m, addr, length))
<1> DEFINE lo  == addr
           hi  == addr + PAGE_ALIGN_UP(length)
           ar  == m.ar
           new == unmapped_areas(ar, lo, hi)
           gone == {i \in Slot : covers(ar, i, lo, hi) /\ whole(ar[i], lo, hi)}
           sp  == CHOOSE s \in splits(ar, lo, hi) : TRUE
<1>1. ar \in [Slot -> Areas] /\ hi \in Nat
  BY AlignUp DEF Mm
<1>2. gone \subseteq InUse(ar)
  BY DEF InUse, covers
<1>3. Cardinality(InUse(ar) \ gone) = m.count - Cardinality(gone)
  <2>1. IsFiniteSet(InUse(ar)) /\ InUse(ar) \cap gone = gone
    BY <1>2, SlotsFinite DEF InUse
  <2>2. m.count = Cardinality(InUse(ar))
    BY DEF Counted
  <2> HIDE DEF gone, ar
  <2>3. Cardinality(InUse(ar) \ gone)
          = Cardinality(InUse(ar)) - Cardinality(InUse(ar) \cap gone)
    BY <2>1, FS_Difference
  <2> QED
    BY <2>1, <2>2, <2>3
<1>4. ASSUME NEW i \in Slot
      PROVE  new[i].active = 1 <=>
               \/ i \in InUse(ar) \ gone
               \/ mmap_alloc_slot(ar, i) /\ splits(ar, lo, hi) # {}
  <2>1. new[i] = IF covers(ar, i, lo, hi) THEN trimmed(ar[i], lo, hi)
                 ELSE IF mmap_alloc_slot(ar, i) /\ splits(ar, lo, hi) # {}
                   THEN tail(ar[sp], hi) ELSE ar[i]
    BY DEF unmapped_areas
  <2> HIDE DEF new, sp, hi, lo, ar
  <2>2. CASE covers(ar, i, lo, hi) /\ whole(ar[i], lo, hi)
    <3>1. new[i].active = 0
      BY <2>1, <2>2 DEF trimmed, NoArea
    <3>2. ~mmap_alloc_slot(ar, i) /\ i \in gone
      BY <2>2 DEF covers, mmap_alloc_slot
    <3> QED
      BY <3>1, <3>2
  <2>3. CASE covers(ar, i, lo, hi) /\ ~whole(ar[i], lo, hi)
    <3>1. new[i].active = 1
      BY <2>1, <2>3 DEF trimmed, Area
    <3>2. i \in InUse(ar) \ gone
      BY <2>3 DEF covers, InUse
    <3> QED
      BY <3>1, <3>2
  <2>4. CASE ~covers(ar, i, lo, hi) /\ mmap_alloc_slot(ar, i) /\ splits(ar, lo, hi) # {}
    <3>1. new[i].active = 1
      BY <2>1, <2>4 DEF tail, Area
    <3> QED
      BY <2>4, <3>1
  <2>5. CASE /\ ~covers(ar, i, lo, hi)
             /\ ~(mmap_alloc_slot(ar, i) /\ splits(ar, lo, hi) # {})
    <3>1. new[i] = ar[i] /\ i \notin gone
      BY <2>1, <2>5
    <3> QED
      BY <2>5, <3>1 DEF InUse
  <2> QED
    BY <2>2, <2>3, <2>4, <2>5
<1>5. Cardinality(InUse(new))
        = Cardinality(InUse(ar) \ gone)
            + (IF splits(ar, lo, hi) # {} /\ ~full(ar) THEN 1 ELSE 0)
  <2> HIDE DEF new, gone, hi, lo, ar
  <2>1. CASE splits(ar, lo, hi) # {} /\ ~full(ar)
    <3>1. PICK i \in Slot : mmap_alloc_slot(ar, i)
      BY <1>1, <2>1, FirstFree
    <3>2. i \notin InUse(ar)
      BY <3>1 DEF InUse, mmap_alloc_slot
    <3>3. InUse(new) = (InUse(ar) \ gone) \cup {i}
      BY <1>4, <2>1, <3>1, FirstFreeUnique DEF InUse
    <3>4. IsFiniteSet(InUse(ar) \ gone)
      BY SlotsFinite DEF InUse
    <3> QED
      BY <2>1, <3>2, <3>3, <3>4, FS_AddElement
  <2>2. CASE ~(splits(ar, lo, hi) # {} /\ ~full(ar))
    <3>1. full(ar) => \A i \in Slot : ~mmap_alloc_slot(ar, i)
      BY DEF full, mmap_alloc_slot
    <3>2. InUse(new) = InUse(ar) \ gone
      BY <1>4, <2>2, <3>1 DEF InUse
    <3>3. IsFiniteSet(InUse(ar) \ gone)
      BY SlotsFinite DEF InUse
    <3> QED
      BY <2>2, <3>2, <3>3, FS_CardinalityType
  <2> QED
    BY <2>1, <2>2
<1>6. Cardinality(gone) \in Nat /\ m.count \in Int
  BY SlotsFinite DEF Mm
<1>7. /\ do_munmap(m, addr, length).ar = new
      /\ do_munmap(m, addr, length).count
           = m.count + ((IF splits(ar, lo, hi) # {} /\ ~full(ar) THEN 1 ELSE 0)
                          - Cardinality(gone))
  BY DEF do_munmap, unmapped_count
<1> HIDE DEF gone, new, ar, hi
<1> QED
  BY <1>3, <1>5, <1>6, <1>7 DEF Counted

(* The copy a call begins with is counted as the context is. *)
LEMMA NowCounted ==
  ASSUME AreaCountExact, NEW c \in Ctx
  PROVE  Counted(now(c))
BY DEF AreaCountExact, Counted, now, InUse

(* An area put in a free slot is one more, and area_count goes up by one. *)
LEMMA WithAreaCounted ==
  ASSUME NEW m \in Mm, Counted(m), NEW i \in Slot, NEW a \in Areas, NEW pt,
         m.ar[i].active = 0, a.active = 1
  PROVE  Counted(with_area(m, i, a, pt))
<1> DEFINE new == [m.ar EXCEPT ![i] = a]
<1>1. InUse(new) = InUse(m.ar) \cup {i} /\ i \notin InUse(m.ar)
  BY DEF InUse, Mm
<1>2. IsFiniteSet(InUse(m.ar))
  BY SlotsFinite DEF InUse
<1>3. Cardinality(InUse(new)) = Cardinality(InUse(m.ar)) + 1
  BY <1>1, <1>2, FS_AddElement
<1> QED
  BY <1>3 DEF Counted, with_area

(* A step that commits a counted context keeps every count exact. *)
LEMMA CommitCounts ==
  ASSUME MmapInv, AreaCountExact, NEW c \in Ctx, NEW m, NEW fr, Counted(m), commit(c, m, fr)
  PROVE  AreaCountExact'
BY DEF MmapInv, AreaCountExact, commit, Counted, InUse

(* The last part of mmap_do_mmap keeps the count, with a slot or without. *)
LEMMA InstallCounts ==
  ASSUME MmapInv, AreaCountExact, NEW c \in Ctx, NEW m \in Mm, Counted(m),
         NEW a \in Areas, a.active = 1, install(c, m, a)
  PROVE  AreaCountExact'
<1> DEFINE n == a.length \div PAGE_SIZE
<1>1. CASE commit(c, m, free)
  BY <1>1, CommitCounts
<1>2. ASSUME NEW i \in Slot, mmap_alloc_slot(m.ar, i), NEW pt, NEW fr,
             commit(c, with_area(m, i, a, pt), fr)
      PROVE  AreaCountExact'
  <2>1. Counted(with_area(m, i, a, pt))
    BY <1>2, WithAreaCounted DEF mmap_alloc_slot
  <2> QED
    BY <1>2, <2>1, CommitCounts
<1>3. ASSUME NEW pt, NEW fr, commit(c, [m EXCEPT !.pt = pt], fr)
      PROVE  AreaCountExact'
  <2>1. Counted([m EXCEPT !.pt = pt])
    BY DEF Counted, Mm
  <2> QED
    BY <1>3, <2>1, CommitCounts
<1>4. ASSUME NEW i \in Slot, mmap_alloc_slot(m.ar, i), populate_anonymous(c, m, i, a, n)
      PROVE  AreaCountExact'
  BY <1>2, <1>3, <1>4 DEF populate_anonymous
<1>5. ASSUME NEW i \in Slot, mmap_alloc_slot(m.ar, i), populate_shared(c, m, i, a, n)
      PROVE  AreaCountExact'
  BY <1>2, <1>3, <1>5 DEF populate_shared
<1> QED
  BY <1>1, <1>2, <1>4, <1>5 DEF install

(* mmap_do_mmap keeps the count, whether it first unmaps or fails. *)
LEMMA MmapCounts ==
  ASSUME MmapInv, AreaCountExact, NEW c \in Ctx, NEW addr \in Nat, NEW length \in Nat,
         NEW flags \in Flags, NEW fixed, mmap_do_mmap(c, addr, length, flags, fixed)
  PROVE  AreaCountExact'
<1> DEFINE m == now(c)
           len == PAGE_ALIGN_UP(length)
<1>1. m \in Mm /\ TableOK(m.ar) /\ Cleared(m.pt) /\ Counted(m)
  BY NowOK, NowCounted
<1>2. len \in Nat
  BY AlignUp
<1>3. \A at \in Nat : Area(at, len, flags) \in Areas /\ Area(at, len, flags).active = 1
  BY <1>2 DEF Area, Areas
<1> HIDE DEF m, len
<1>4. CASE commit(c, m, free)
  BY <1>1, <1>4, CommitCounts
<1>5. ASSUME NEW at \in 0 .. MMAP_SEARCH_START, install(c, m, Area(at, len, flags))
      PROVE  AreaCountExact'
  <2>1. at \in Nat
    BY MmapAssumption
  <2> QED
    BY <1>1, <1>3, <1>5, <2>1, InstallCounts
<1>6. CASE install(c, do_munmap(m, addr, len), Area(addr, len, flags))
  <2>1. do_munmap(m, addr, len) \in Mm /\ Counted(do_munmap(m, addr, len))
    BY <1>1, <1>2, MunmapOK, MunmapCounts
  <2> QED
    BY <1>3, <1>6, <2>1, InstallCounts
<1>7. CASE install(c, m, Area(addr, len, flags))
  BY <1>1, <1>3, <1>7, InstallCounts
<1> QED
  BY <1>4, <1>5, <1>6, <1>7 DEF mmap_do_mmap, m, len

(* The empty tables of mmap_init are counted. *)
LEMMA CountInit == mmap_init => AreaCountExact
<1> SUFFICES ASSUME mmap_init PROVE AreaCountExact
  OBVIOUS
<1>1. \A c \in Ctx : {i \in Slot : areas[c][i].active = 1} = {}
  BY DEF mmap_init, mmap_context_init, NoArea
<1>2. Cardinality({}) = 0
  BY FS_EmptySet
<1> QED
  BY <1>1, <1>2 DEF mmap_init, AreaCountExact

(* Every call keeps the count. *)
LEMMA CountStep == MmapInv /\ AreaCountExact /\ [MmapNext]_mmVars => AreaCountExact'
<1> SUFFICES ASSUME MmapInv, AreaCountExact, [MmapNext]_mmVars PROVE AreaCountExact'
  OBVIOUS
<1>0. Addr \subseteq Nat /\ Lengths \subseteq Nat /\ FlagChoices \subseteq Flags
  BY MmapAssumption DEF Addr
<1>1. ASSUME UNCHANGED <<areas, area_count>> PROVE AreaCountExact'
  BY <1>1 DEF AreaCountExact
<1>2. ASSUME NEW c \in Ctx, NEW addr \in Nat, NEW length \in Nat,
             mmap_do_munmap(c, addr, length)
      PROVE  AreaCountExact'
  <2>1. Counted(do_munmap(now(c), addr, length))
    BY NowOK, NowCounted, MunmapCounts
  <2> QED
    BY <1>2, <2>1, CommitCounts DEF mmap_do_munmap
<1>3. ASSUME NEW c \in Ctx, sys_mmap(c) \/ sys_munmap(c) PROVE AreaCountExact'
  BY <1>0, <1>2, <1>3, MmapCounts DEF sys_mmap, sys_munmap
<1>4. ASSUME NEW c \in Ctx, sys_brk(c) PROVE AreaCountExact'
  <2>1. PICK addr \in Addr \ {0} :
          \/ addr > brk[c] /\ mmap_do_mmap(c, brk[c], addr - brk[c], {"MAP_ANONYMOUS"}, FALSE)
          \/ addr < brk[c] /\ mmap_do_munmap(c, addr, brk[c] - addr)
          \/ addr = brk[c] /\ commit(c, now(c), free)
    BY <1>4 DEF sys_brk
  <2>2. addr \in Nat /\ brk[c] \in Nat
    BY <1>0, <2>1 DEF MmapInv
  <2>3. {"MAP_ANONYMOUS"} \in Flags
    BY DEF Flags
  <2>4. CASE addr > brk[c] /\ mmap_do_mmap(c, brk[c], addr - brk[c], {"MAP_ANONYMOUS"}, FALSE)
    <3>1. addr - brk[c] \in Nat
      BY <2>2, <2>4
    <3> QED
      BY <2>2, <2>3, <2>4, <3>1, MmapCounts
  <2>5. CASE addr < brk[c] /\ mmap_do_munmap(c, addr, brk[c] - addr)
    <3>1. brk[c] - addr \in Nat
      BY <2>2, <2>5
    <3> QED
      BY <1>2, <2>2, <2>5, <3>1
  <2>6. CASE commit(c, now(c), free)
    BY <2>6, NowCounted, CommitCounts
  <2> QED
    BY <2>1, <2>4, <2>5, <2>6
<1>5. ASSUME NEW c \in Ctx, fault(c) PROVE AreaCountExact'
  BY <1>1, <1>5 DEF fault, mmap_page_fault_handler
<1>6. ASSUME NEW c \in Ctx, mmap_context_destroy(c) PROVE AreaCountExact'
  <2>0. PICK pt, l : commit(c, [ar |-> mmap_context_init, count |-> 0, pt |-> pt, lost |-> l], free)
    BY <1>6, Zenon DEF mmap_context_destroy
  <2> DEFINE m == [ar |-> mmap_context_init, count |-> 0, pt |-> pt, lost |-> l]
  <2>1. commit(c, m, free) /\ m.ar = mmap_context_init /\ m.count = 0
    BY <2>0
  <2> HIDE DEF m
  <2>2. InUse(mmap_context_init) = {}
    BY DEF InUse, mmap_context_init, NoArea
  <2>3. Counted(m)
    BY <2>1, <2>2, FS_EmptySet DEF Counted
  <2> QED
    BY <2>1, <2>3, CommitCounts
<1>7. CASE UNCHANGED mmVars
  BY <1>1, <1>7 DEF mmVars
<1> QED
  BY <1>3, <1>4, <1>5, <1>6, <1>7 DEF MmapNext

(***************************************************************************)
(* For every table size: ctx->area_count is the number of entries in use,  *)
(* after every sequence of splits, trims, rollbacks and failed calls.      *)
(***************************************************************************)
THEOREM AreaCountsExact == MmapSpec => []AreaCountExact
BY MmapInit, MmapStep, CountInit, CountStep, PTL DEF MmapSpec

(***************************************************************************)
(* Every table, counter and page table entry keeps its type; in particular *)
(* area_count never leaves 0 .. MMAP_MAX_AREAS.                            *)
(***************************************************************************)
THEOREM MmapTypes == MmapSpec => []MmapTypeOK
<1>1. MmapInv /\ AreaCountExact => MmapTypeOK
  <2> SUFFICES ASSUME MmapInv, AreaCountExact PROVE MmapTypeOK
    OBVIOUS
  <2>1. \A c \in Ctx : area_count[c] \in 0 .. MMAP_MAX_AREAS
    BY SlotsFinite DEF AreaCountExact
  <2> QED
    BY <2>1 DEF MmapInv, MmapTypeOK, Pt
<1> QED
  BY <1>1, MmapInvariant, AreaCountsExact, PTL

-----------------------------------------------------------------------------
(* Pages and the areas that own them *)

(* Multiplication by the page size keeps the order. *)
LEMMA TimesMonotone ==
  ASSUME NEW m \in Int, NEW n \in Int, m <= n
  PROVE  m * PAGE_SIZE \in Int /\ n * PAGE_SIZE \in Int /\ m * PAGE_SIZE <= n * PAGE_SIZE
<1>1. PAGE_SIZE \in Nat
  BY MmapAssumption
<1>2. \A k \in Nat : k * PAGE_SIZE >= 0
  BY <1>1
<1>3. n - m \in Nat
  OBVIOUS
<1>4. (n - m) * PAGE_SIZE = n * PAGE_SIZE - m * PAGE_SIZE
  BY <1>1
<1> QED
  BY <1>1, <1>2, <1>3, <1>4

(* A page ends where the next begins. *)
LEMMA Distribute ==
  ASSUME NEW v \in Int
  PROVE  (v + 1) * PAGE_SIZE = v * PAGE_SIZE + PAGE_SIZE
BY MmapAssumption

(* The page of an address is the one whose bytes it lies in. *)
LEMMA PageBounds ==
  ASSUME NEW a \in Nat
  PROVE  /\ PageOf(a) \in Nat
         /\ PageOf(a) * PAGE_SIZE <= a
         /\ a < (PageOf(a) + 1) * PAGE_SIZE
<1>1. PAGE_SIZE \in Nat \ {0}
  BY MmapAssumption
<1>2. a = PAGE_SIZE * (a \div PAGE_SIZE) + (a % PAGE_SIZE)
  BY <1>1
<1>3. a % PAGE_SIZE \in 0 .. PAGE_SIZE - 1 /\ a \div PAGE_SIZE \in Nat
  BY <1>1
<1>4. PAGE_SIZE * (a \div PAGE_SIZE) = (a \div PAGE_SIZE) * PAGE_SIZE
  BY <1>1, <1>3
<1> QED
  BY <1>1, <1>2, <1>3, <1>4, Distribute DEF PageOf

(* An address is in one page. *)
LEMMA PageUnique ==
  ASSUME NEW a \in Nat, NEW v \in Int, v * PAGE_SIZE <= a, a < (v + 1) * PAGE_SIZE
  PROVE  PageOf(a) = v
<1>1. PageOf(a) \in Int /\ PAGE_SIZE \in Nat
  BY PageBounds, MmapAssumption
<1>2. ~(PageOf(a) + 1 <= v)
  <2> SUFFICES ASSUME PageOf(a) + 1 <= v PROVE FALSE
    OBVIOUS
  <2>1. (PageOf(a) + 1) * PAGE_SIZE <= v * PAGE_SIZE
    BY <1>1, TimesMonotone
  <2> QED
    BY <1>1, <2>1, PageBounds
<1>3. ~(v + 1 <= PageOf(a))
  <2> SUFFICES ASSUME v + 1 <= PageOf(a) PROVE FALSE
    OBVIOUS
  <2>1. (v + 1) * PAGE_SIZE <= PageOf(a) * PAGE_SIZE
    BY <1>1, TimesMonotone
  <2> QED
    BY <1>1, <2>1, PageBounds
<1> QED
  BY <1>1, <1>2, <1>3

(* The page a rounded-up end points past is the last one below the end. *)
LEMMA AlignedEnd ==
  ASSUME NEW a \in Nat, NEW v \in Nat, v * PAGE_SIZE < a
  PROVE  v < PageOf(PAGE_ALIGN_UP(a))
<1> DEFINE up == PAGE_ALIGN_UP(a)
<1>1. up \in Nat /\ up >= a
  BY AlignUp
<1>2. up % PAGE_SIZE = 0
  <2> DEFINE b == a + PAGE_SIZE - 1
             q == b \div PAGE_SIZE
  <2>1. b \in Nat /\ PAGE_SIZE \in Nat \ {0}
    BY MmapAssumption
  <2>2. up = b - (b % PAGE_SIZE)
    BY DEF PAGE_ALIGN_UP, PAGE_ALIGN_DOWN
  <2>3. b = PAGE_SIZE * q + (b % PAGE_SIZE) /\ q \in Nat
    BY <2>1
  <2>4. up = PAGE_SIZE * q
    BY <2>1, <2>2, <2>3
  <2> QED
    BY <2>1, <2>3, <2>4
<1>3. up = PageOf(up) * PAGE_SIZE
  BY <1>1, <1>2, MmapAssumption DEF PageOf
<1>4. PageOf(up) \in Nat
  BY <1>1, PageBounds
<1> HIDE DEF up
<1>5. ~(PageOf(up) <= v)
  BY <1>1, <1>3, <1>4, TimesMonotone
<1> QED
  BY <1>4, <1>5 DEF up

OnPage(ar, v) == mmap_check_overlap(ar, v * PAGE_SIZE, (v + 1) * PAGE_SIZE)

(***************************************************************************)
(* NoStrayMapping, when context c is being worked on: what is mapped lies  *)
(* in an area of the table under work or of another context.               *)
(***************************************************************************)
Owned(c, m) ==
  \/ m.lost = 1
  \/ \A v \in VPage : m.pt[v] # NOT_PRESENT =>
       OnPage(m.ar, v) \/ \E d \in Ctx \ {c} : OnPage(areas[d], v)

(* The copy a call begins with is owned as the context is. *)
LEMMA NowOwned ==
  ASSUME NoStrayMapping, NEW c \in Ctx
  PROVE  Owned(c, now(c))
BY DEF NoStrayMapping, Owned, OnPage, now

(* What a call stores at its end is owned, if what it computed was. *)
LEMMA CommitOwned ==
  ASSUME MmapInv, NEW c \in Ctx, NEW m, Owned(c, m), NEW fr, commit(c, m, fr)
  PROVE  NoStrayMapping'
<1>1. areas'[c] = m.ar /\ \A d \in Ctx \ {c} : areas'[d] = areas[d]
  BY DEF MmapInv, commit
<1>2. pte' = m.pt /\ lost' = m.lost
  BY DEF commit
<1>3. CASE m.lost = 1
  BY <1>2, <1>3 DEF NoStrayMapping
<1>4. CASE m.lost # 1
  <2>1. ASSUME NEW v \in VPage, pte'[v] # NOT_PRESENT
        PROVE  \E d \in Ctx : OnPage(areas'[d], v)
    BY <1>1, <1>2, <1>4, <2>1 DEF Owned
  <2> QED
    BY <2>1 DEF NoStrayMapping, OnPage, mmap_check_overlap, covers
<1> QED
  BY <1>3, <1>4

(* Pages are numbered from 0. *)
LEMMA VPageNat == VPage \subseteq Nat
BY PageBounds, MmapAssumption DEF VPage

(* A page is a non-empty interval of addresses. *)
LEMMA PageInterval ==
  ASSUME NEW v \in Nat
  PROVE  /\ v * PAGE_SIZE \in Nat /\ (v + 1) * PAGE_SIZE \in Nat
         /\ v * PAGE_SIZE < (v + 1) * PAGE_SIZE
<1>1. PAGE_SIZE \in Nat \ {0} /\ v * PAGE_SIZE \in Nat
  BY MmapAssumption
<1> QED
  BY <1>1, Distribute

(* A page of an area that mmap_do_munmap does not clear is still in a part  *)
(* of it that is kept: the front, or the rest behind the hole.              *)
LEMMA KeptPart ==
  ASSUME NEW a \in Areas, NEW lo \in Nat, NEW hi \in Nat, NEW v \in Nat,
         v * PAGE_SIZE < a.start + a.length, (v + 1) * PAGE_SIZE > a.start,
         LET from == IF lo > a.start THEN lo ELSE a.start
             to   == IF hi < a.start + a.length THEN hi ELSE a.start + a.length
         IN  ~(PageOf(from) <= v /\ v < PageOf(PAGE_ALIGN_UP(to)))
  PROVE  \/ lo > a.start /\ (v + 1) * PAGE_SIZE <= lo
         \/ hi < a.start + a.length /\ v * PAGE_SIZE >= hi
<1> DEFINE from == IF lo > a.start THEN lo ELSE a.start
           to   == IF hi < a.start + a.length THEN hi ELSE a.start + a.length
<1>0. a.start \in Nat /\ a.length \in Nat
  BY DEF Areas
<1>1. from \in Nat /\ to \in Nat
  BY <1>0
<1>2. PageOf(from) \in Nat /\ PageOf(from) * PAGE_SIZE <= from
  BY <1>1, PageBounds
<1>3. v * PAGE_SIZE \in Nat /\ (v + 1) * PAGE_SIZE \in Nat
  BY PageInterval
<1>4. CASE ~(PageOf(from) <= v)
  <2>1. v + 1 <= PageOf(from)
    BY <1>2, <1>4
  <2>2. (v + 1) * PAGE_SIZE <= PageOf(from) * PAGE_SIZE /\ PageOf(from) * PAGE_SIZE \in Int
    BY <1>2, <2>1, TimesMonotone
  <2>3. (v + 1) * PAGE_SIZE <= from
    BY <1>1, <1>2, <1>3, <2>2
  <2> QED
    BY <1>0, <1>3, <2>3
<1>5. CASE ~(v < PageOf(PAGE_ALIGN_UP(to)))
  <2>1. v * PAGE_SIZE >= to
    <3> HIDE DEF to
    <3> QED
      BY <1>1, <1>3, <1>5, AlignedEnd
  <2> QED
    BY <1>0, <1>3, <2>1
<1> QED
  BY <1>4, <1>5

(* do_munmap unmaps the pages it takes from an area, the split included. *)
LEMMA MunmapOwned ==
  ASSUME NEW c \in Ctx, NEW m \in Mm, TableOK(m.ar), Owned(c, m),
         NEW addr \in Nat, NEW length \in Nat
  PROVE  Owned(c, do_munmap(m, addr, length))
<1> DEFINE lo  == addr
           hi  == addr + PAGE_ALIGN_UP(length)
           ar  == m.ar
           new == unmapped_areas(ar, lo, hi)
           r   == do_munmap(m, addr, length)
<1>1. /\ r.ar = new /\ r.pt = clear(m.pt, unmapped_pages(ar, lo, hi))
      /\ r.lost = IF tail_lost(ar, lo, hi) THEN 1 ELSE m.lost
  BY DEF do_munmap
<1>2. lo \in Nat /\ hi \in Nat /\ lo <= hi /\ ar \in [Slot -> Areas]
  BY AlignUp DEF Mm
<1> HIDE DEF r, new, ar, hi
<1>3. ASSUME NEW v \in VPage, r.pt[v] # NOT_PRESENT, r.lost # 1,
             NEW i \in Slot, covers(ar, i, v * PAGE_SIZE, (v + 1) * PAGE_SIZE)
      PROVE  OnPage(new, v)
  <2>0. /\ ar[i] \in Areas /\ ar[i].active = 1 /\ v \in Nat
        /\ v * PAGE_SIZE < ar[i].start + ar[i].length /\ (v + 1) * PAGE_SIZE > ar[i].start
    BY <1>2, <1>3, VPageNat DEF covers
  <2>n. /\ v * PAGE_SIZE \in Nat /\ (v + 1) * PAGE_SIZE \in Nat
        /\ v * PAGE_SIZE < (v + 1) * PAGE_SIZE
        /\ ar[i].start \in Nat /\ ar[i].length \in Nat
    BY <2>0, PageInterval DEF Areas
  <2>1. v \notin unmapped_pages(ar, lo, hi)
    BY <1>1, <1>3 DEF clear
  <2>2. CASE ~covers(ar, i, lo, hi)
    <3>1. new[i] = ar[i]
      BY <2>0, <2>2 DEF new, unmapped_areas, mmap_alloc_slot
    <3> QED
      BY <1>3, <3>1 DEF OnPage, mmap_check_overlap, covers
  <2>3. CASE covers(ar, i, lo, hi)
    <3>1. new[i] = trimmed(ar[i], lo, hi)
      BY <2>3 DEF new, unmapped_areas
    <3>2. \/ lo > ar[i].start /\ (v + 1) * PAGE_SIZE <= lo
          \/ hi < ar[i].start + ar[i].length /\ v * PAGE_SIZE >= hi
      <4>1. LET from == IF lo > ar[i].start THEN lo ELSE ar[i].start
                to   == IF hi < ar[i].start + ar[i].length THEN hi ELSE ar[i].start + ar[i].length
            IN  ~(PageOf(from) <= v /\ v < PageOf(PAGE_ALIGN_UP(to)))
        BY <2>1, <2>3 DEF unmapped_pages
      <4> QED
        BY <1>2, <2>0, <4>1, KeptPart
    <3>3. CASE lo > ar[i].start /\ (v + 1) * PAGE_SIZE <= lo
      <4>1. ~whole(ar[i], lo, hi) /\ ~(lo <= ar[i].start)
        BY <1>2, <2>n, <3>3 DEF whole
      <4>2. new[i] = Area(ar[i].start, lo - ar[i].start, ar[i].flags)
        BY <3>1, <4>1 DEF trimmed
      <4>3. covers(new, i, v * PAGE_SIZE, (v + 1) * PAGE_SIZE)
        BY <1>2, <2>0, <2>n, <3>3, <4>2, SMTT(30) DEF covers, Area
      <4> QED
        BY <4>3 DEF OnPage, mmap_check_overlap
    <3>4. CASE hi < ar[i].start + ar[i].length /\ v * PAGE_SIZE >= hi /\ lo <= ar[i].start
      <4>1. ~whole(ar[i], lo, hi)
        BY <1>2, <2>n, <3>4 DEF whole
      <4>2. new[i] = Area(hi, ar[i].start + ar[i].length - hi, ar[i].flags)
        BY <3>1, <3>4, <4>1 DEF trimmed
      <4>3. covers(new, i, v * PAGE_SIZE, (v + 1) * PAGE_SIZE)
        BY <1>2, <2>0, <2>n, <3>4, <4>2 DEF covers, Area
      <4> QED
        BY <4>3 DEF OnPage, mmap_check_overlap
    <3>5. CASE hi < ar[i].start + ar[i].length /\ v * PAGE_SIZE >= hi /\ lo > ar[i].start
      <4>1. i \in splits(ar, lo, hi)
        BY <2>3, <3>5 DEF splits, inner
      <4>2. ASSUME NEW k \in splits(ar, lo, hi) PROVE k = i
        <5>1. k \in Slot /\ covers(ar, k, lo, hi) /\ inner(ar[k], lo, hi) /\ ar[k] \in Areas
          BY <1>2, <4>2 DEF splits
        <5>2. covers(ar, i, ar[k].start, ar[k].start + ar[k].length) /\ ar[k].active = 1
          BY <1>2, <2>0, <2>n, <3>5, <5>1 DEF covers, inner, Areas
        <5> QED
          BY <5>1, <5>2 DEF TableOK, ar
      <4>3. ~full(ar)
        BY <1>1, <1>3, <4>1 DEF tail_lost
      <4>4. PICK j \in Slot : mmap_alloc_slot(ar, j)
        BY <1>2, <4>3, FirstFree
      <4>5. ~covers(ar, j, lo, hi)
        BY <4>4 DEF mmap_alloc_slot, covers
      <4>6. (CHOOSE s \in splits(ar, lo, hi) : TRUE) = i
        BY <4>1, <4>2
      <4>7. new[j] = tail(ar[i], hi)
        BY <4>1, <4>4, <4>5, <4>6 DEF new, unmapped_areas
      <4>8. covers(new, j, v * PAGE_SIZE, (v + 1) * PAGE_SIZE)
        BY <1>2, <2>0, <2>n, <3>5, <4>7, SMTT(30) DEF covers, tail, Area
      <4> QED
        BY <4>8 DEF OnPage, mmap_check_overlap
    <3> QED
      BY <1>2, <2>n, <3>2, <3>3, <3>4, <3>5
  <2> QED
    BY <2>2, <2>3
<1>4. CASE r.lost = 1
  BY <1>4 DEF Owned, r
<1>5. CASE r.lost # 1
  <2>1. m.lost # 1
    BY <1>1, <1>5
  <2>2. ASSUME NEW v \in VPage, r.pt[v] # NOT_PRESENT
        PROVE  OnPage(r.ar, v) \/ \E d \in Ctx \ {c} : OnPage(areas[d], v)
    <3>1. m.pt[v] # NOT_PRESENT
      BY <1>1, <2>2 DEF clear
    <3>2. CASE \E d \in Ctx \ {c} : OnPage(areas[d], v)
      BY <3>2
    <3>3. CASE OnPage(ar, v)
      <4>1. PICK i \in Slot : covers(ar, i, v * PAGE_SIZE, (v + 1) * PAGE_SIZE)
        BY <3>3 DEF OnPage, mmap_check_overlap
      <4> QED
        BY <1>1, <1>3, <1>5, <2>2, <4>1
    <3> QED
      BY <2>1, <3>1, <3>2, <3>3 DEF Owned, ar
  <2> QED
    BY <2>2 DEF Owned, r
<1> QED
  BY <1>4, <1>5

(* Every page that an area populates meets it. *)
LEMMA PopulatedOnArea ==
  ASSUME NEW a \in Areas, NEW v, v \in firstPages(a.start, a.length \div PAGE_SIZE)
  PROVE  v * PAGE_SIZE < a.start + a.length /\ (v + 1) * PAGE_SIZE > a.start
<1> DEFINE n == a.length \div PAGE_SIZE
<1>1. a.start \in Nat /\ a.length \in Nat /\ PAGE_SIZE \in Nat \ {0}
  BY MmapAssumption DEF Areas
<1>2. n \in Nat /\ n * PAGE_SIZE <= a.length
  BY <1>1, PageBounds DEF PageOf
<1> HIDE DEF n
<1>3. PICK k \in 0 .. n - 1 : v = PageOf(a.start + k * PAGE_SIZE)
  BY DEF firstPages, populated, n
<1>4. k \in Nat /\ k + 1 <= n
  BY <1>2, <1>3
<1>5. k * PAGE_SIZE \in Nat
  BY <1>1, <1>4
<1>6. (k + 1) * PAGE_SIZE <= n * PAGE_SIZE /\ (k + 1) * PAGE_SIZE = k * PAGE_SIZE + PAGE_SIZE
  BY <1>2, <1>4, TimesMonotone, Distribute
<1>7. k * PAGE_SIZE < a.length
  BY <1>1, <1>2, <1>5, <1>6
<1>8. a.start + k * PAGE_SIZE \in Nat
  BY <1>1, <1>5
<1>9. /\ v \in Nat /\ v * PAGE_SIZE <= a.start + k * PAGE_SIZE
      /\ a.start + k * PAGE_SIZE < (v + 1) * PAGE_SIZE
  BY <1>3, <1>8, PageBounds
<1>10. v * PAGE_SIZE \in Nat /\ (v + 1) * PAGE_SIZE \in Nat
  BY <1>9, PageInterval
<1> QED
  BY <1>1, <1>5, <1>7, <1>9, <1>10

(* A new area owns the pages that were mapped for it. *)
LEMMA WithAreaOwned ==
  ASSUME NEW c \in Ctx, NEW m \in Mm, Owned(c, m), NEW i \in Slot, NEW a \in Areas,
         m.ar[i].active = 0, a.active = 1, NEW pt,
         \A v \in VPage : pt[v] # NOT_PRESENT =>
           m.pt[v] # NOT_PRESENT \/ v \in firstPages(a.start, a.length \div PAGE_SIZE)
  PROVE  Owned(c, with_area(m, i, a, pt))
<1> DEFINE new == [m.ar EXCEPT ![i] = a]
<1>1. /\ with_area(m, i, a, pt).ar = new /\ with_area(m, i, a, pt).pt = pt
      /\ with_area(m, i, a, pt).lost = m.lost
  BY DEF with_area
<1>2. new[i] = a /\ \A j \in Slot \ {i} : new[j] = m.ar[j]
  BY DEF Mm
<1> HIDE DEF new
<1>3. ASSUME NEW v \in VPage, OnPage(m.ar, v) PROVE OnPage(new, v)
  BY <1>2, <1>3 DEF OnPage, mmap_check_overlap, covers
<1>4. ASSUME NEW v, v \in firstPages(a.start, a.length \div PAGE_SIZE) PROVE OnPage(new, v)
  BY <1>2, <1>4, PopulatedOnArea DEF OnPage, mmap_check_overlap, covers
<1>5. CASE m.lost = 1
  BY <1>1, <1>5 DEF Owned
<1>6. CASE m.lost # 1
  <2>1. ASSUME NEW v \in VPage, pt[v] # NOT_PRESENT
        PROVE  OnPage(new, v) \/ \E d \in Ctx \ {c} : OnPage(areas[d], v)
    BY <1>3, <1>4, <1>6, <2>1 DEF Owned
  <2> QED
    BY <1>1, <2>1 DEF Owned
<1> QED
  BY <1>5, <1>6

(* The last part of mmap_do_mmap maps only pages of the area it installs. *)
LEMMA InstallOwned ==
  ASSUME MmapInv, NEW c \in Ctx, NEW m \in Mm, Owned(c, m),
         NEW a \in Areas, a.active = 1, install(c, m, a)
  PROVE  NoStrayMapping'
<1> DEFINE n == a.length \div PAGE_SIZE
           vs == firstPages(a.start, n)
<1>1. CASE commit(c, m, free)
  BY <1>1, CommitOwned
<1>2. ASSUME NEW i \in Slot, mmap_alloc_slot(m.ar, i), NEW pt, NEW fr,
             commit(c, with_area(m, i, a, pt), fr),
             \A v \in VPage : pt[v] # NOT_PRESENT => m.pt[v] # NOT_PRESENT \/ v \in vs
      PROVE  NoStrayMapping'
  <2>1. Owned(c, with_area(m, i, a, pt))
    BY <1>2, WithAreaOwned DEF mmap_alloc_slot
  <2> QED
    BY <1>2, <2>1, CommitOwned
<1>3. ASSUME NEW ws, NEW fr, commit(c, [m EXCEPT !.pt = clear(m.pt, ws)], fr)
      PROVE  NoStrayMapping'
  <2>1. Owned(c, [m EXCEPT !.pt = clear(m.pt, ws)])
    BY DEF Owned, Mm, clear
  <2> QED
    BY <1>3, <2>1, CommitOwned
<1>4. ASSUME NEW g \in Grants(free, vs), NEW gone
      PROVE  /\ \A v \in VPage : map_pages(m.pt, g)[v] # NOT_PRESENT =>
                  m.pt[v] # NOT_PRESENT \/ v \in vs
             /\ \A v \in VPage : clear(map_pages(m.pt, g), gone)[v] # NOT_PRESENT =>
                  m.pt[v] # NOT_PRESENT \/ v \in vs
  <2>1. DOMAIN g = vs
    BY DEF Grants
  <2> HIDE DEF vs
  <2> QED
    BY <2>1 DEF map_pages, clear
<1>5. ASSUME NEW i \in Slot, mmap_alloc_slot(m.ar, i), populate_anonymous(c, m, i, a, n)
      PROVE  NoStrayMapping'
  BY <1>2, <1>3, <1>4, <1>5 DEF populate_anonymous
<1>6. ASSUME NEW i \in Slot, mmap_alloc_slot(m.ar, i), populate_shared(c, m, i, a, n)
      PROVE  NoStrayMapping'
  <2>1. \/ \E ws, lose : commit(c, [m EXCEPT !.pt = clear(m.pt, ws)], free \ lose)
        \/ \E g \in Grants(free, vs) : \E failed :
             commit(c, with_area(m, i, a, clear(map_pages(m.pt, g), failed)), free \ granted(g))
    BY <1>6 DEF populate_shared
  <2>2. CASE \E ws, lose : commit(c, [m EXCEPT !.pt = clear(m.pt, ws)], free \ lose)
    BY <1>3, <2>2
  <2>3. ASSUME NEW g \in Grants(free, vs), NEW failed,
               commit(c, with_area(m, i, a, clear(map_pages(m.pt, g), failed)), free \ granted(g))
        PROVE  NoStrayMapping'
    <3> DEFINE pt == clear(map_pages(m.pt, g), failed)
               fr == free \ granted(g)
    <3>1. \A v \in VPage : pt[v] # NOT_PRESENT => m.pt[v] # NOT_PRESENT \/ v \in vs
      BY <1>4
    <3>2. commit(c, with_area(m, i, a, pt), fr)
      BY <2>3
    <3>3. mmap_alloc_slot(m.ar, i)
      BY <1>6
    <3> HIDE DEF pt, fr
    <3> QED
      BY <1>2, <3>1, <3>2, <3>3
  <2> QED
    BY <2>1, <2>2, <2>3
<1>7. ASSUME NEW i \in Slot, mmap_alloc_slot(m.ar, i), commit(c, with_area(m, i, a, m.pt), free)
      PROVE  NoStrayMapping'
  BY <1>2, <1>7
<1> QED
  BY <1>1, <1>5, <1>6, <1>7 DEF install

(* mmap_do_mmap maps no page astray, whether it first unmaps or fails. *)
LEMMA MmapOwned ==
  ASSUME MmapInv, NoStrayMapping, NEW c \in Ctx, NEW addr \in Nat, NEW length \in Nat,
         NEW flags \in Flags, NEW fixed, mmap_do_mmap(c, addr, length, flags, fixed)
  PROVE  NoStrayMapping'
<1> DEFINE m == now(c)
           len == PAGE_ALIGN_UP(length)
<1>1. m \in Mm /\ TableOK(m.ar) /\ Cleared(m.pt) /\ Owned(c, m)
  BY NowOK, NowOwned
<1>2. len \in Nat
  BY AlignUp
<1>3. \A at \in Nat : Area(at, len, flags) \in Areas /\ Area(at, len, flags).active = 1
  BY <1>2 DEF Area, Areas
<1> HIDE DEF m, len
<1>4. CASE commit(c, m, free)
  BY <1>1, <1>4, CommitOwned
<1>5. ASSUME NEW at \in 0 .. MMAP_SEARCH_START, install(c, m, Area(at, len, flags))
      PROVE  NoStrayMapping'
  <2>1. at \in Nat
    BY MmapAssumption
  <2> QED
    BY <1>1, <1>3, <1>5, <2>1, InstallOwned
<1>6. CASE install(c, do_munmap(m, addr, len), Area(addr, len, flags))
  <2>1. do_munmap(m, addr, len) \in Mm /\ Owned(c, do_munmap(m, addr, len))
    BY <1>1, <1>2, MunmapOK, MunmapOwned
  <2> QED
    BY <1>3, <1>6, <2>1, InstallOwned
<1>7. CASE install(c, m, Area(addr, len, flags))
  BY <1>1, <1>3, <1>7, InstallOwned
<1> QED
  BY <1>4, <1>5, <1>6, <1>7 DEF mmap_do_mmap, m, len

(* An aligned address is a number of whole pages. *)
LEMMA AlignedQuotient ==
  ASSUME NEW x \in Nat, x % PAGE_SIZE = 0
  PROVE  x \div PAGE_SIZE \in Nat /\ x = (x \div PAGE_SIZE) * PAGE_SIZE
BY MmapAssumption

(* Destroying a context of whole pages clears every page of its areas. *)
LEMMA AlignedPages ==
  ASSUME NEW a \in Areas, a.start % PAGE_SIZE = 0, a.length % PAGE_SIZE = 0, NEW v \in Nat,
         v * PAGE_SIZE < a.start + a.length, (v + 1) * PAGE_SIZE > a.start
  PROVE  v \in firstPages(a.start, a.length \div PAGE_SIZE)
<1> DEFINE s == a.start \div PAGE_SIZE
           n == a.length \div PAGE_SIZE
           k == v - s
<1>1. a.start \in Nat /\ a.length \in Nat /\ PAGE_SIZE \in Nat \ {0}
  BY MmapAssumption DEF Areas
<1>2. s \in Nat /\ n \in Nat /\ a.start = s * PAGE_SIZE /\ a.length = n * PAGE_SIZE
  BY <1>1, AlignedQuotient
<1> HIDE DEF s, n
<1>3. (s + n) * PAGE_SIZE = s * PAGE_SIZE + n * PAGE_SIZE
  BY <1>1, <1>2
<1>4. ~(s + n <= v)
  <2> SUFFICES ASSUME s + n <= v PROVE FALSE
    OBVIOUS
  <2>1. (s + n) * PAGE_SIZE <= v * PAGE_SIZE
    BY <1>2, TimesMonotone
  <2> QED
    BY <1>1, <1>2, <1>3, <2>1, PageInterval
<1>5. ~(v + 1 <= s)
  <2> SUFFICES ASSUME v + 1 <= s PROVE FALSE
    OBVIOUS
  <2>1. (v + 1) * PAGE_SIZE <= s * PAGE_SIZE
    BY <1>2, TimesMonotone
  <2> QED
    BY <1>1, <1>2, <2>1, PageInterval
<1>6. k \in 0 .. n - 1
  BY <1>2, <1>4, <1>5
<1>7. a.start + k * PAGE_SIZE = v * PAGE_SIZE
  <2>1. (v - s) * PAGE_SIZE = v * PAGE_SIZE - s * PAGE_SIZE
    BY <1>1, <1>2
  <2> QED
    BY <1>1, <1>2, <2>1
<1>8. PageOf(a.start + k * PAGE_SIZE) = v
  BY <1>7, PageInterval, PageUnique
<1> QED
  BY <1>6, <1>8 DEF firstPages, populated, n

(* mmap_context_destroy unmaps what the areas of the context own. *)
LEMMA DestroyOwned ==
  ASSUME MmapInv, NoStrayMapping, NEW c \in Ctx, mmap_context_destroy(c)
  PROVE  NoStrayMapping'
<1> DEFINE ar == areas[c]
           inUse == {i \in Slot : ar[i].active = 1}
           vs == UNION {firstPages(ar[i].start, ar[i].length \div PAGE_SIZE) : i \in inUse}
           odd == \E i \in inUse : ar[i].start % PAGE_SIZE # 0 \/ ar[i].length % PAGE_SIZE # 0
           m == [ar |-> mmap_context_init, count |-> 0, pt |-> clear(pte, vs),
                 lost |-> IF odd THEN 1 ELSE lost]
<1>0. commit(c, m, free)
  BY DEF mmap_context_destroy
<1>1. m.pt = clear(pte, vs) /\ m.lost = IF odd THEN 1 ELSE lost
  OBVIOUS
<1> HIDE DEF m
<1>2. ar \in [Slot -> Areas]
  BY DEF MmapInv
<1>3. CASE m.lost = 1
  BY <1>0, <1>3, CommitOwned DEF Owned
<1>4. CASE m.lost # 1
  <2>1. ~odd /\ lost # 1
    BY <1>1, <1>4
  <2>2. ASSUME NEW v \in VPage, m.pt[v] # NOT_PRESENT
        PROVE  \E d \in Ctx \ {c} : OnPage(areas[d], v)
    <3>1. pte[v] # NOT_PRESENT /\ v \notin vs /\ v \in Nat
      BY <1>1, <2>2, VPageNat DEF clear
    <3>2. PICK d \in Ctx : OnPage(areas[d], v)
      BY <2>1, <3>1 DEF NoStrayMapping, OnPage
    <3>3. ASSUME d = c PROVE FALSE
      <4>1. PICK i \in Slot : covers(ar, i, v * PAGE_SIZE, (v + 1) * PAGE_SIZE)
        BY <3>2, <3>3 DEF OnPage, mmap_check_overlap
      <4>2. i \in inUse /\ ar[i] \in Areas
        BY <1>2, <4>1 DEF covers
      <4>3. ar[i].start % PAGE_SIZE = 0 /\ ar[i].length % PAGE_SIZE = 0
        BY <2>1, <4>2
      <4>4. v \in firstPages(ar[i].start, ar[i].length \div PAGE_SIZE)
        BY <3>1, <4>1, <4>2, <4>3, AlignedPages DEF covers
      <4> QED
        BY <3>1, <4>2, <4>4
    <3> QED
      BY <3>2, <3>3
  <2> QED
    BY <1>0, <2>2, CommitOwned DEF Owned
<1> QED
  BY <1>3, <1>4

(* Every call keeps mapped pages inside areas. *)
LEMMA StrayStep == MmapInv /\ NoStrayMapping /\ [MmapNext]_mmVars => NoStrayMapping'
<1> SUFFICES ASSUME MmapInv, NoStrayMapping, [MmapNext]_mmVars PROVE NoStrayMapping'
  OBVIOUS
<1>0. Addr \subseteq Nat /\ Lengths \subseteq Nat /\ FlagChoices \subseteq Flags
  BY MmapAssumption DEF Addr
<1>2. ASSUME NEW c \in Ctx, NEW addr \in Nat, NEW length \in Nat,
             mmap_do_munmap(c, addr, length)
      PROVE  NoStrayMapping'
  <2>1. Owned(c, do_munmap(now(c), addr, length))
    BY NowOK, NowOwned, MunmapOwned
  <2> QED
    BY <1>2, <2>1, CommitOwned DEF mmap_do_munmap
<1>3. ASSUME NEW c \in Ctx, sys_mmap(c) \/ sys_munmap(c) PROVE NoStrayMapping'
  BY <1>0, <1>2, <1>3, MmapOwned DEF sys_mmap, sys_munmap
<1>4. ASSUME NEW c \in Ctx, sys_brk(c) PROVE NoStrayMapping'
  <2>1. PICK addr \in Addr \ {0} :
          \/ addr > brk[c] /\ mmap_do_mmap(c, brk[c], addr - brk[c], {"MAP_ANONYMOUS"}, FALSE)
          \/ addr < brk[c] /\ mmap_do_munmap(c, addr, brk[c] - addr)
          \/ addr = brk[c] /\ commit(c, now(c), free)
    BY <1>4 DEF sys_brk
  <2>2. addr \in Nat /\ brk[c] \in Nat
    BY <1>0, <2>1 DEF MmapInv
  <2>3. {"MAP_ANONYMOUS"} \in Flags
    BY DEF Flags
  <2>4. CASE addr > brk[c] /\ mmap_do_mmap(c, brk[c], addr - brk[c], {"MAP_ANONYMOUS"}, FALSE)
    <3>1. addr - brk[c] \in Nat
      BY <2>2, <2>4
    <3> QED
      BY <2>2, <2>3, <2>4, <3>1, MmapOwned
  <2>5. CASE addr < brk[c] /\ mmap_do_munmap(c, addr, brk[c] - addr)
    <3>1. brk[c] - addr \in Nat
      BY <2>2, <2>5
    <3> QED
      BY <1>2, <2>2, <2>5, <3>1
  <2>6. CASE commit(c, now(c), free)
    BY <2>6, NowOwned, CommitOwned
  <2> QED
    BY <2>1, <2>4, <2>5, <2>6
<1>5. ASSUME NEW c \in Ctx, fault(c) PROVE NoStrayMapping'
  <2>1. PICK vaddr \in Addr, i \in Slot, f \in free :
          /\ covers(areas[c], i, vaddr, vaddr + 1)
          /\ pte' = [pte EXCEPT ![PageOf(vaddr)] = f]
          /\ UNCHANGED <<areas, lost>>
    BY <1>5 DEF fault, mmap_page_fault_handler
  <2>2. vaddr \in Nat /\ areas[c][i].start \in Nat /\ areas[c][i].length \in Nat
    BY <1>0 DEF MmapInv, Areas
  <2>3. /\ PageOf(vaddr) \in Nat /\ PageOf(vaddr) * PAGE_SIZE <= vaddr
        /\ vaddr < (PageOf(vaddr) + 1) * PAGE_SIZE
    BY <2>2, PageBounds
  <2>4. OnPage(areas[c], PageOf(vaddr))
    BY <2>1, <2>2, <2>3, PageInterval DEF OnPage, mmap_check_overlap, covers
  <2>5. \A v \in VPage : v # PageOf(vaddr) => pte'[v] = pte[v]
    BY <2>1 DEF MmapInv, Pt
  <2> QED
    BY <2>1, <2>4, <2>5 DEF NoStrayMapping, OnPage
<1>6. ASSUME NEW c \in Ctx, mmap_context_destroy(c) PROVE NoStrayMapping'
  BY <1>6, DestroyOwned
<1>7. CASE UNCHANGED mmVars
  BY <1>7 DEF mmVars, NoStrayMapping, mmap_check_overlap, covers
<1> QED
  BY <1>3, <1>4, <1>5, <1>6, <1>7 DEF MmapNext

(***************************************************************************)
(* For every page size, address range and set of contexts: as long as no   *)
(* tail was dropped for want of a slot and no context with a partial page  *)
(* was destroyed, what is mapped lies in an area of some context.  The     *)
(* rounding of mmap_do_munmap clears exactly the pages the hole touches,   *)
(* and every page it leaves is in a part of the area that is kept.         *)
(***************************************************************************)
THEOREM NothingMappedAstray == MmapSpec => []NoStrayMapping
<1>1. mmap_init => NoStrayMapping
  BY DEF mmap_init, NoStrayMapping
<1> QED
  BY <1>1, MmapInit, MmapStep, StrayStep, PTL DEF MmapSpec

=============================================================================
