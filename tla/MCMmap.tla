------------------------------- MODULE MCMmap -------------------------------
(***************************************************************************)
(* Mmap on a small address space, and the loops of mmap.c as they are      *)
(* written, against which the closed forms of Mmap are compared.           *)
(***************************************************************************)
EXTENDS Mmap, TLC

Symmetry == Permutations(Ctx) \cup Permutations(Frame)

-----------------------------------------------------------------------------
(* mmap_find_covering_area: the first slot that meets lo .. hi - 1, or -1. *)
mmap_find_covering_area(ar, lo, hi) ==
  LET hits == {i \in Slot : covers(ar, i, lo, hi)}
  IN  IF hits = {} THEN -1 ELSE CHOOSE i \in hits : \A j \in hits : i <= j

(* One turn of the loop of mmap_do_munmap, on the area in slot x. *)
munmap_turn(ar, x, lo, hi) ==
  LET a == ar[x]
      from == IF lo > a.start THEN lo ELSE a.start
      to   == IF hi < a.start + a.length THEN hi ELSE a.start + a.length
      slot == {i \in Slot : mmap_alloc_slot(ar, i)}
  IN  IF from = a.start /\ to = a.start + a.length THEN [ar EXCEPT ![x] = NoArea]
      ELSE IF from = a.start
        THEN [ar EXCEPT ![x].start = @ + (to - a.start), ![x].length = @ - (to - a.start)]
      ELSE IF to = a.start + a.length
        THEN [ar EXCEPT ![x].length = @ - (to - from)]
        ELSE [i \in Slot |-> IF i \in slot
                               THEN [a EXCEPT !.start = to, !.length = a.start + a.length - to]
                             ELSE IF i = x THEN [a EXCEPT !.length = from - a.start]
                             ELSE ar[i]]

RECURSIVE munmap_loop(_, _, _)
munmap_loop(ar, lo, hi) ==
  LET x == mmap_find_covering_area(ar, lo, hi)
  IN  IF x < 0 THEN ar ELSE munmap_loop(munmap_turn(ar, x, lo, hi), lo, hi)

(* The loop of mmap_find_free_area. *)
RECURSIVE find_free_loop(_, _, _)
find_free_loop(ar, len, candidate) ==
  LET try == candidate - len
      hit == mmap_find_covering_area(ar, try, candidate)
  IN  IF candidate < MMAP_MIN_ADDR + len THEN 0
      ELSE IF hit < 0 THEN try ELSE find_free_loop(ar, len, ar[hit].start)

(***************************************************************************)
(* The loops of mmap_do_munmap and mmap_find_free_area compute what Mmap   *)
(* says they do: every covering area is trimmed on its own, and the place  *)
(* found is the highest free one.                                          *)
(***************************************************************************)
LoopsAgree ==
  \A c \in Ctx, length \in Lengths :
    LET len == PAGE_ALIGN_UP(length) IN
    /\ \A addr \in Addr :
         munmap_loop(areas[c], addr, addr + len) = unmapped_areas(areas[c], addr, addr + len)
    /\ mmap_find_free_area(areas[c], len, find_free_loop(areas[c], len, MMAP_SEARCH_START))

=============================================================================
