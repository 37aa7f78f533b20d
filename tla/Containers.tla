----------------------------- MODULE Containers -----------------------------
(***************************************************************************)
(* The containers of the kernel API: the red-black tree (kapi_rbtree.c),   *)
(* the ring of bytes (kapi_kfifo.c), the table of identifiers              *)
(* (kapi_idr.c), the hash table (kapi_hash.c), the notifier chain          *)
(* (kapi_notifier.c) and the three sorts (kapi_sort.c); and of the C       *)
(* library the calendar (time.c) and strtol (stdlib.c).                    *)
(*                                                                         *)
(* A link is a number, 0 is NULL: following NULL is an error TLC reports.  *)
(***************************************************************************)
EXTENDS Naturals, Integers, Sequences, FiniteSets, SequencesExt, FiniteSetsExt, Functions

CONSTANTS RbKey,                     \* key of each tree node, by node
          FifoSize, COUNTER,         \* sizes of a ring; values of a counter
          KAPI_IDR_MAX,
          HashNode, HashKey, Hash, NullHash, KAPI_HASH_BITS_MIN, KAPI_HASH_BITS_MAX,
          Notifier,
          SortValue, SortLength,
          RtcStart,                  \* times at which a read of the clock chip starts
          StrChar, StrLength, StrBase

VARIABLES rb, rb_in,
          kf, kf_queue,
          idr, idr_user,
          ht, ht_keys, ht_stale, ht_resized,
          nc, nc_call,
          sort_in,
          rtc, rtc_mode, rtc_regs,
          rtc_before,                \* the chip when the read began
          str_in                     \* the string to read a number from

rbVars == <<rb, rb_in>>
kfifoVars == <<kf, kf_queue>>
idrVars == <<idr, idr_user>>
hashVars == <<ht, ht_keys, ht_stale, ht_resized>>
notifierVars == <<nc, nc_call>>
sortVars == <<sort_in>>
rtcVars == <<rtc, rtc_mode, rtc_regs, rtc_before>>
strVars == <<str_in>>

NULL == 0

-----------------------------------------------------------------------------
(* kapi_rbtree.c: each routine has a branch for either side, here one      *)
(* definition with the side as a parameter.                                *)

RbNode == DOMAIN RbKey
Side == {"left", "right"}
other(s) == IF s = "left" THEN "right" ELSE "left"
nodes_all(v) == [n \in RbNode |-> v]

rb_init ==
  /\ rb = [root |-> NULL, child |-> [s \in Side |-> nodes_all(NULL)],
           parent |-> nodes_all(NULL), color |-> nodes_all("red")]
  /\ rb_in = {}

\* new takes the place of old below p.
replace_child(t, p, old, new) ==
  IF p = NULL THEN [t EXCEPT !.root = new]
  ELSE IF t.child["left"][p] = old THEN [t EXCEPT !.child["left"][p] = new]
  ELSE [t EXCEPT !.child["right"][p] = new]

set_parent(t, n, p) == IF n = NULL THEN t ELSE [t EXCEPT !.parent[n] = p]
is_black(t, n) == n = NULL \/ t.color[n] = "black"

\* Rotating to side s brings the child on the other side up.
rotate(t, n, s) ==
  LET up == t.child[other(s)][n]
      p == t.parent[n]
      inner == t.child[s][up]
      moved_in == set_parent([t EXCEPT !.child[other(s)][n] = inner], inner, n)
      hung == [moved_in EXCEPT !.child[s][up] = n, !.parent[up] = p]
  IN  [replace_child(hung, p, n, up) EXCEPT !.parent[n] = up]

\* More turns than any loop below takes.
turns == [k \in 1..Cardinality(RbNode) |-> k]

\* Where a new node goes: the last node met and the side below it.
rb_place(t, n) ==
  FoldLeft(LAMBDA acc, k :
             IF acc.at = NULL THEN acc
             ELSE LET s == IF RbKey[n] < RbKey[acc.at] THEN "left" ELSE "right"
                  IN  [at |-> t.child[s][acc.at], parent |-> acc.at, side |-> s],
           [at |-> t.root, parent |-> NULL, side |-> "left"], turns)

insert_fixup(acc) ==
  LET p == acc.parent
      g == acc.t.parent[p]
      s == IF p = acc.t.child["left"][g] THEN "left" ELSE "right"
      uncle == acc.t.child[other(s)][g]
      inside == acc.node = acc.t.child[other(s)][p]
      turned == IF inside THEN rotate(acc.t, p, s) ELSE acc.t
      top == IF inside THEN acc.node ELSE p
  IN  IF p = NULL \/ is_black(acc.t, p) THEN acc
      ELSE IF ~is_black(acc.t, uncle)
        THEN [t |-> [acc.t EXCEPT !.color[uncle] = "black", !.color[p] = "black", !.color[g] = "red"],
              node |-> g, parent |-> acc.t.parent[g]]
      ELSE [t |-> rotate([turned EXCEPT !.color[top] = "black", !.color[g] = "red"], g, other(s)),
            node |-> IF inside THEN p ELSE acc.node, parent |-> top]

kapi_rb_insert(n) ==
  LET at == rb_place(rb, n)
      fresh_node == [rb EXCEPT !.child["left"][n] = NULL, !.child["right"][n] = NULL,
                               !.parent[n] = at.parent, !.color[n] = "red"]
      linked == IF at.parent = NULL THEN [fresh_node EXCEPT !.root = n]
                ELSE [fresh_node EXCEPT !.child[at.side][at.parent] = n]
      end == FoldLeft(LAMBDA acc, k : insert_fixup(acc), [t |-> linked, node |-> n, parent |-> at.parent], turns).t
  IN  /\ n \notin rb_in
      /\ rb' = [end EXCEPT !.color[end.root] = "black"]
      /\ rb_in' = rb_in \cup {n}

leftmost(t, n) == FoldLeft(LAMBDA at, k : IF t.child["left"][at] = NULL THEN at ELSE t.child["left"][at], n, turns)

\* The node unlinked is n itself, or its successor, which then takes n's place
\* and colour.
unlinked(t, n) ==
  LET two == t.child["left"][n] # NULL /\ t.child["right"][n] # NULL
      y == IF two THEN leftmost(t, t.child["right"][n]) ELSE n
      c == IF t.child["left"][y] = NULL THEN t.child["right"][y] ELSE t.child["left"][y]
      p == t.parent[y]
      out == replace_child(set_parent(t, c, p), p, y, c)
      placed == [out EXCEPT !.parent[y] = out.parent[n], !.color[y] = out.color[n],
                            !.child["left"][y] = out.child["left"][n], !.child["right"][y] = out.child["right"][n]]
      stood == replace_child(placed, placed.parent[n], n, y)
  IN  [child |-> c, color |-> t.color[y], parent |-> IF two /\ p = n THEN y ELSE p, done |-> FALSE,
       t |-> IF two THEN set_parent(set_parent(stood, out.child["left"][n], y), out.child["right"][n], y) ELSE out]

\* A red sibling is rotated away, so that the sibling is black.
sibling_black(t, p, s) ==
  LET sib == t.child[other(s)][p]
  IN  IF is_black(t, sib) THEN t
      ELSE rotate([t EXCEPT !.color[sib] = "black", !.color[p] = "red"], p, s)

\* The sibling's far child is made the red one.
far_red(t, p, s) ==
  LET sib == t.child[other(s)][p]
  IN  IF ~is_black(t, t.child[other(s)][sib]) THEN t
      ELSE rotate([t EXCEPT !.color[t.child[s][sib]] = "black", !.color[sib] = "red"], sib, other(s))

\* The rotation that ends the loop.
sibling_up(t, p, s) ==
  LET sib == t.child[other(s)][p]
      far == t.child[other(s)][sib]
      shade(n) == IF n \in {p, far} THEN "black" ELSE IF n = sib THEN t.color[p] ELSE t.color[n]
  IN  rotate([t EXCEPT !.color = [n \in RbNode |-> shade(n)]], p, s)

\* One turn of the loop, from a sibling that is black.
erase_turn(acc, p, s) ==
  LET sib == acc.t.child[other(s)][p]
  IN  IF \A side \in Side : is_black(acc.t, acc.t.child[side][sib])
      THEN [acc EXCEPT !.t.color[sib] = "red", !.child = p, !.parent = acc.t.parent[p]]
      ELSE LET end == sibling_up(far_red(acc.t, p, s), p, s)
           IN  [acc EXCEPT !.t = end, !.child = end.root, !.done = TRUE]

erase_fixup(acc) ==
  LET s == IF acc.child = acc.t.child["left"][acc.parent] THEN "left" ELSE "right"
  IN  IF acc.done \/ acc.child = acc.t.root \/ ~is_black(acc.t, acc.child) THEN [acc EXCEPT !.done = TRUE]
      ELSE erase_turn([acc EXCEPT !.t = sibling_black(@, acc.parent, s)], acc.parent, s)

\* A mutant: the tree is not rebalanced.
rebalanced_never(cut) == cut.t

\* What removing a black node is followed by.
rebalanced(cut) ==
  IF cut.color = "red" THEN cut.t
  ELSE LET end == FoldLeft(LAMBDA acc, k : erase_fixup(acc), cut, turns)
       IN  IF end.child = NULL THEN end.t ELSE [end.t EXCEPT !.color[end.child] = "black"]

\* The links of the node taken out mean nothing until it is inserted again;
\* they are cleared here so that such trees are one state.
kapi_rb_erase(n) ==
  LET end == rebalanced(unlinked(rb, n))
  IN  /\ rb' = [end EXCEPT !.child["left"][n] = NULL, !.child["right"][n] = NULL,
                           !.parent[n] = NULL, !.color[n] = "red"]
      /\ rb_in' = rb_in \ {n}

RbNext == (\E n \in RbNode : kapi_rb_insert(n)) \/ (\E n \in rb_in : kapi_rb_erase(n))

kapi_rb_find(key) ==
  FoldLeft(LAMBDA at, k : IF at = NULL \/ RbKey[at] = key THEN at
                          ELSE rb.child[IF key < RbKey[at] THEN "left" ELSE "right"][at],
           rb.root, turns)

kapi_rb_first == IF rb.root = NULL THEN NULL ELSE leftmost(rb, rb.root)

kapi_rb_next(n) ==
  IF rb.child["right"][n] # NULL THEN leftmost(rb, rb.child["right"][n])
  ELSE FoldLeft(LAMBDA acc, k : IF acc[2] # NULL /\ acc[1] = rb.child["right"][acc[2]]
                                THEN <<acc[2], rb.parent[acc[2]]>> ELSE acc,
                <<n, rb.parent[n]>>, turns)[2]

\* The nodes kapi_rb_first and kapi_rb_next visit.
in_order ==
  FoldLeft(LAMBDA seq, k : IF seq = <<>> \/ kapi_rb_next(Last(seq)) = NULL THEN seq
                           ELSE Append(seq, kapi_rb_next(Last(seq))),
           IF kapi_rb_first = NULL THEN <<>> ELSE <<kapi_rb_first>>, turns)

\* The black nodes from n up to the root.
blacks_above(n) ==
  FoldLeft(LAMBDA acc, k : IF acc[1] = NULL THEN acc
                           ELSE <<rb.parent[acc[1]], acc[2] + (IF is_black(rb, acc[1]) THEN 1 ELSE 0)>>,
           <<n, 0>>, turns)[2]

\* Through any sequence of insertions and removals, equal keys included, the
\* tree walked by kapi_rb_first and kapi_rb_next is exactly the nodes inserted
\* in key order, the links up and down agree, kapi_rb_find finds every key
\* there is, no red node has a red child and every path has as many black
\* nodes (kapi_rb_insert, kapi_rb_erase, __kapi_rb_rotate_left).
RbTree ==
  LET walk == in_order
      ends == {n \in rb_in : \E s \in Side : rb.child[s][n] = NULL}
  IN  /\ Range(walk) = rb_in /\ Len(walk) = Cardinality(rb_in)
      /\ \A i \in 1..(Len(walk) - 1) : RbKey[walk[i]] <= RbKey[walk[i + 1]]
      /\ \A n \in rb_in, s \in Side : rb.child[s][n] # NULL => rb.parent[rb.child[s][n]] = n
      /\ \A n \in rb_in : RbKey[kapi_rb_find(RbKey[n])] = RbKey[n]
      /\ \A n \in rb_in : rb.parent[n] # NULL /\ ~is_black(rb, n) => is_black(rb, rb.parent[n])
      /\ Cardinality({blacks_above(n) : n \in ends}) <= 1
      /\ is_black(rb, rb.root)


-----------------------------------------------------------------------------
(* kapi_kfifo.c: counters that only grow and wrap at COUNTER               *)

Byte == {0, 1}
no_buffer == <<>>

kapi_kfifo_reset(f) == [f EXCEPT !.in = 0, !.out = 0]

kfifo_init == kf = [buffer |-> no_buffer, size |-> 0, in |-> 0, out |-> 0] /\ kf_queue = <<>>

kapi_kfifo_init(size) ==
  /\ kf.buffer = no_buffer
  /\ kf' = [buffer |-> [i \in 1..size |-> 0], size |-> size, in |-> 0, out |-> 0]
  /\ kf_queue' = <<>>

kapi_kfifo_free ==
  /\ kf.buffer # no_buffer
  /\ kf' = [buffer |-> no_buffer, size |-> 0, in |-> 0, out |-> 0]
  /\ kf_queue' = <<>>

kapi_kfifo_len == (kf.in - kf.out + COUNTER) % COUNTER
kapi_kfifo_avail == kf.size - kapi_kfifo_len

\* n & (size - 1), for a size that is a power of two and for one that is not.
masked(n) ==
  LET bit(x, k) == (x \div 2^k) % 2
  IN  FoldLeft(LAMBDA sum, k : sum + 2^k * bit(n, k) * bit(kf.size - 1, k), 0, <<0, 1, 2, 3>>)

offset(n) == masked(n)

\* The places of l bytes from a counter on: to the end of the buffer, then from
\* its start.
places(counter, l) == [i \in 1..l |-> ((offset(counter) + i - 1) % kf.size) + 1]

kapi_kfifo_in(bytes) ==
  LET l == Min({Len(bytes), kapi_kfifo_avail})
      at == places(kf.in, l)
  IN  /\ kf.buffer # no_buffer
      /\ kf' = [kf EXCEPT !.buffer = [j \in 1..kf.size |->
                            IF \E i \in 1..l : at[i] = j THEN bytes[CHOOSE i \in 1..l : at[i] = j] ELSE @[j]],
                          !.in = (@ + l) % COUNTER]
      /\ kf_queue' = kf_queue \o SubSeq(bytes, 1, l)

\* What kapi_kfifo_out copies for a request of len bytes.
copied_out(len) ==
  LET at == places(kf.out, Min({len, kapi_kfifo_len}))
  IN  [i \in DOMAIN at |-> kf.buffer[at[i]]]

kapi_kfifo_out(len) ==
  LET l == Len(copied_out(len))
  IN  /\ kf.buffer # no_buffer
      /\ kf' = [kf EXCEPT !.out = (@ + l) % COUNTER]
      /\ kf_queue' = SubSeq(kf_queue, l + 1, Len(kf_queue))

reset_fifo ==
  /\ kf.buffer # no_buffer
  /\ kf' = kapi_kfifo_reset(kf)
  /\ kf_queue' = <<>>

KfifoNext ==
  \/ \E size \in FifoSize : kapi_kfifo_init(size)
  \/ \E bytes \in (Byte \X Byte) \cup (Byte \X Byte \X Byte) : kapi_kfifo_in(bytes)
  \/ \E len \in 1..2 : kapi_kfifo_out(len)
  \/ kapi_kfifo_free \/ reset_fifo

\* A ring whose size is a power of two returns the bytes in the order they went
\* in, across the end of the buffer and the wrap of both counters, and counts
\* them; of any size it accepts at most what is free (kapi_kfifo_in,
\* kapi_kfifo_out).  kapi_kfifo_init takes other sizes, for which the mask
\* skips places.
KfifoBooks ==
  /\ kf.buffer # no_buffer => kapi_kfifo_len = Len(kf_queue) /\ kapi_kfifo_len <= kf.size
  /\ kf.size \in {1, 2, 4, 8} => copied_out(kf.size) = kf_queue

-----------------------------------------------------------------------------
(* kapi_idr.c                                                              *)

Id == 0..(KAPI_IDR_MAX - 1)
IdUser == 1..2

kapi_idr_init == idr = [ptr |-> [i \in Id |-> NULL], bitmap |-> {}, next_id |-> 0] /\ idr_user = [i \in Id |-> NULL]

idr_order == [k \in 1..KAPI_IDR_MAX |-> (idr.next_id + k - 1) % KAPI_IDR_MAX]

\* The first free identifier from next_id on, round the table.
next_id_free == LET free == SelectSeq(idr_order, LAMBDA i : idr.ptr[i] = NULL) IN IF free = <<>> THEN -1 ELSE Head(free)

kapi_idr_alloc(ptr) ==
  LET id == next_id_free
  IN  /\ id # -1
      /\ idr' = [ptr |-> [idr.ptr EXCEPT ![id] = ptr], bitmap |-> idr.bitmap \cup {id},
                 next_id |-> (id + 1) % KAPI_IDR_MAX]
      /\ idr_user' = [idr_user EXCEPT ![id] = ptr]

kapi_idr_alloc_fixed(id, ptr) ==
  /\ idr.ptr[id] = NULL
  /\ idr' = [idr EXCEPT !.ptr[id] = ptr, !.bitmap = @ \cup {id}]
  /\ idr_user' = [idr_user EXCEPT ![id] = ptr]

kapi_idr_free(id) ==
  /\ idr' = [idr EXCEPT !.ptr[id] = NULL, !.bitmap = @ \ {id}]
  /\ idr_user' = [idr_user EXCEPT ![id] = NULL]

kapi_idr_destroy ==
  /\ idr.bitmap # {}
  /\ idr' = [ptr |-> [i \in Id |-> NULL], bitmap |-> {}, next_id |-> 0]
  /\ idr_user' = [i \in Id |-> NULL]

IdrNext ==
  \/ \E ptr \in IdUser : kapi_idr_alloc(ptr) \/ (\E id \in Id : kapi_idr_alloc_fixed(id, ptr))
  \/ \E id \in idr.bitmap : kapi_idr_free(id)
  \/ kapi_idr_destroy

\* Every identifier that was given out and not freed still finds its pointer,
\* and the bitmap and the pointers agree; the identifier just behind next_id,
\* the one most likely freed last, is handed out again only when every other
\* one is in use (kapi_idr_alloc, kapi_idr_alloc_fixed, kapi_idr_free).
IdrBooks ==
  /\ idr.ptr = idr_user
  /\ idr.bitmap = {i \in Id : idr.ptr[i] # NULL}
  /\ next_id_free = Last(idr_order) => Id \ {Last(idr_order)} \subseteq idr.bitmap

-----------------------------------------------------------------------------
(* kapi_hash.c: one table; a bucket is its list of nodes, first to last    *)

buckets_of(bits) == [b \in 0..(2^bits - 1) |-> <<>>]
clamp_bits(bits) == Max({KAPI_HASH_BITS_MIN, Min({bits, KAPI_HASH_BITS_MAX})})
unkeyed == [n \in HashNode |-> "none"]

no_table == [valid |-> FALSE, bits |-> 0, size |-> 0, buckets |-> buckets_of(0)]

kapi_hash_init == ht = no_table /\ ht_keys = unkeyed /\ ht_stale = {} /\ ht_resized = FALSE

\* In this table, or still linked into one that was destroyed.
hashed(n) == ht_keys[n] # "none" \/ n \in ht_stale

kapi_hash_create(bits) ==
  /\ ~ht.valid
  /\ ht' = [valid |-> TRUE, bits |-> clamp_bits(bits), size |-> 0, buckets |-> buckets_of(clamp_bits(bits))]
  /\ ht_resized' = FALSE
  /\ UNCHANGED <<ht_keys, ht_stale>>

\* The nodes stay linked into the buckets that are freed.
kapi_hash_destroy ==
  /\ ht.valid
  /\ ht' = no_table
  /\ ht_stale' = ht_stale \cup {n \in HashNode : hashed(n)}
  /\ ht_keys' = unkeyed /\ ht_resized' = FALSE

\* The owner of a node makes it anew.
kapi_hlist_node_init(n) ==
  /\ n \in ht_stale
  /\ ht_stale' = ht_stale \ {n}
  /\ UNCHANGED <<ht, ht_keys, ht_resized>>

bucket_of(hash) == hash % 2^ht.bits

kapi_hash_add(key, n) ==
  /\ ht.valid /\ ~hashed(n)
  /\ ht' = [ht EXCEPT !.buckets[bucket_of(Hash[key])] = <<n>> \o @, !.size = @ + 1]
  /\ ht_keys' = [ht_keys EXCEPT ![n] = key]
  /\ UNCHANGED <<ht_stale, ht_resized>>

kapi_hash_del(n) ==
  /\ ht.valid /\ hashed(n) /\ n \notin ht_stale
  /\ ht' = [ht EXCEPT !.buckets = [b \in DOMAIN @ |-> SelectSeq(@[b], LAMBDA m : m # n)], !.size = @ - 1]
  /\ ht_keys' = [ht_keys EXCEPT ![n] = "none"]
  /\ UNCHANGED <<ht_stale, ht_resized>>

kapi_hash_find(key) ==
  LET same == SelectSeq(ht.buckets[bucket_of(Hash[key])], LAMBDA n : ht_keys[n] = key)
  IN  IF same = <<>> THEN "none" ELSE Head(same)

\* Every node is put at the head of the bucket of hash_fn(NULL, 0).
kapi_hash_resize(new_bits) ==
  LET bits == clamp_bits(new_bits)
      moved_nodes == Reverse(FlattenSeq([b \in 1..(2^ht.bits) |-> ht.buckets[b - 1]]))
  IN  /\ ht.valid /\ bits # ht.bits
      /\ ht' = [ht EXCEPT !.bits = bits, !.buckets = [buckets_of(bits) EXCEPT ![NullHash % 2^bits] = moved_nodes]]
      /\ ht_resized' = (ht_resized \/ ht.size > 0)
      /\ UNCHANGED <<ht_keys, ht_stale>>

HashNext ==
  \/ \E bits \in 0..(KAPI_HASH_BITS_MAX + 1) : kapi_hash_create(bits) \/ kapi_hash_resize(bits)
  \/ \E n \in HashNode : kapi_hash_del(n) \/ (\E key \in HashKey : kapi_hash_add(key, n))
  \/ \E n \in HashNode : kapi_hlist_node_init(n)
  \/ kapi_hash_destroy

\* kapi_hash_size counts the nodes and each is in one bucket; until a table that
\* is not empty is resized, a key finds a node if and only if one was added with
\* it; afterwards the nodes that were there are found only under the keys that
\* fall into the bucket of hash_fn(NULL, 0), the others only by nodes added
\* later.  A node left in a destroyed table enters no other until its owner
\* makes it anew (kapi_hash_add, kapi_hash_del, kapi_hash_find,
\* kapi_hash_resize, kapi_hash_destroy).
HashBooks ==
  LET added(key) == {n \in HashNode : ht_keys[n] = key}
      homes(n) == {b \in DOMAIN ht.buckets : n \in Range(ht.buckets[b])}
  IN  ht.valid =>
        /\ ht.size = Cardinality({n \in HashNode : ht_keys[n] # "none"})
        /\ \A n \in HashNode : Cardinality(homes(n)) = IF ht_keys[n] # "none" THEN 1 ELSE 0
        /\ \A n \in ht_stale : ht_keys[n] = "none"
        /\ \A key \in HashKey :
             /\ kapi_hash_find(key) # "none" => kapi_hash_find(key) \in added(key)
             /\ (~ht_resized \/ bucket_of(Hash[key]) = bucket_of(NullHash)) =>
                  (kapi_hash_find(key) # "none" <=> added(key) # {})

-----------------------------------------------------------------------------
(* kapi_notifier.c: one chain and one caller of it.  A block is registered *)
(* by its owner when it is not on the chain.                               *)

no_walk_yet == [phase |-> "idle", at |-> NULL, calls |-> [b \in Notifier |-> 0], there |-> {}, cut |-> FALSE]

kapi_notifier_chain_init == nc = [head |-> NULL, next |-> [b \in Notifier |-> NULL]] /\ nc_call = no_walk_yet

chain_blocks ==
  FoldLeft(LAMBDA seq, b : IF Last(seq) = NULL THEN seq ELSE Append(seq, nc.next[Last(seq)]),
           <<nc.head>>, SetToSeq(Notifier))
registered == Range(chain_blocks) \ {NULL}

kapi_notifier_chain_register(b) ==
  /\ b \notin registered
  /\ nc' = [head |-> b, next |-> [nc.next EXCEPT ![b] = nc.head]]
  /\ UNCHANGED nc_call

\* By its owner at any time, its own callback included.
kapi_notifier_chain_unregister(b) ==
  LET after == nc.next[b]
  IN  /\ b \in registered
      /\ nc' = IF nc.head = b THEN [head |-> after, next |-> [nc.next EXCEPT ![b] = NULL]]
               ELSE [nc EXCEPT !.next = [c \in Notifier |-> IF c = b THEN NULL ELSE IF @[c] = b THEN after ELSE @[c]]]
      /\ nc_call' = [nc_call EXCEPT !.there = @ \ {b}, !.cut = @ \/ (nc_call.phase = "calling" /\ b = nc_call.at)]

\* kapi_notifier_call_chain: enter, call a block, and go on to its next link,
\* which is read when the callback has returned.
call_chain_enter ==
  /\ nc_call.phase # "calling"
  /\ nc_call' = [no_walk_yet EXCEPT !.phase = IF nc.head = NULL THEN "returned" ELSE "calling", !.at = nc.head,
                                    !.there = registered, !.calls = [b \in Notifier |-> IF b = nc.head THEN 1 ELSE 0]]
  /\ UNCHANGED nc

after_block(b) == nc.next[b]

call_chain_next ==
  LET b == after_block(nc_call.at)
  IN  /\ nc_call.phase = "calling"
      /\ nc_call' = IF b = NULL THEN [nc_call EXCEPT !.phase = "returned", !.at = NULL]
                    ELSE [nc_call EXCEPT !.at = b, !.calls[b] = Min({2, @ + 1})]
      /\ UNCHANGED nc

\* A callback returned a negative value.
call_chain_stop ==
  /\ nc_call.phase = "calling"
  /\ nc_call' = [nc_call EXCEPT !.phase = "stopped", !.at = NULL]
  /\ UNCHANGED nc

NotifierNext ==
  \/ \E b \in Notifier : kapi_notifier_chain_register(b) \/ kapi_notifier_chain_unregister(b)
  \/ call_chain_enter \/ call_chain_next \/ call_chain_stop

\* A call of the chain that no callback stops has called every block that was
\* registered all along exactly once when it returns, whatever else came and
\* went, unless a block was taken off while its own callback ran: the walk
\* then goes on from a link that is NULL and the rest are not told
\* (kapi_notifier_call_chain, kapi_notifier_chain_unregister).
NotifierBooks ==
  /\ Last(chain_blocks) = NULL
  /\ nc_call.phase = "returned" /\ ~nc_call.cut => \A b \in nc_call.there : nc_call.calls[b] = 1

-----------------------------------------------------------------------------
(* kapi_sort.c: arrays of <<key, place it came from>>, indices from 1      *)

sort_init == sort_in = <<>>
tagged == [i \in DOMAIN sort_in |-> <<sort_in[i], i>>]
greater(a, b) == a[1] > b[1]
kapi_swap(a, i, j) == [a EXCEPT ![i] = a[j], ![j] = a[i]]

RECURSIVE kapi_sift_down(_, _, _)
kapi_sift_down(a, root, num) ==
  LET left == 2 * root
      child == IF left + 1 <= num /\ greater(a[left + 1], a[left]) THEN left + 1 ELSE left
  IN  IF left > num \/ ~greater(a[child], a[root]) THEN a
      ELSE kapi_sift_down(kapi_swap(a, root, child), child, num)

\* The parents of the heap, last to first.
heap_starts(n) == [k \in 1..(n \div 2) |-> (n \div 2) + 1 - k]

kapi_heapsort(a) ==
  LET n == Len(a)
      heap_made == FoldLeft(LAMBDA h, i : kapi_sift_down(h, i, n), a, heap_starts(n))
  IN  FoldLeft(LAMBDA h, i : kapi_sift_down(kapi_swap(h, 1, i), 1, i - 1), heap_made, [k \in 1..(n - 1) |-> n + 1 - k])

\* The partition loop: the array and where the pivot goes.
RECURSIVE partition(_, _, _, _, _)
partition(a, low, high, i, j) ==
  LET up == Min({k \in i..(high + 1) : k > high \/ greater(a[k], a[low])})
      down == Max({k \in low..j : k = low \/ ~greater(a[k], a[low])})
  IN  IF i > j THEN <<a, j>>
      ELSE partition(IF up < down THEN kapi_swap(a, up, down) ELSE a, low, high, up, down)

RECURSIVE kapi_qsort_internal(_, _, _)
kapi_qsort_internal(a, low, high) ==
  LET cut == partition(a, low, high, low + 1, high)
      j == cut[2]
      pivoted == kapi_swap(cut[1], low, j)
  IN  IF low >= high THEN a
      ELSE kapi_qsort_internal(kapi_qsort_internal(pivoted, low, j - 1), j + 1, high)

kapi_qsort(a) == kapi_qsort_internal(a, 1, Len(a))

\* Each element moves left past the greater ones before it.
kapi_insertsort(a) ==
  FoldLeft(LAMBDA s, i : LET j == Min({k \in 1..i : k = i \/ \A m \in k..(i - 1) : greater(s[m], s[i])})
                         IN  SubSeq(s, 1, j - 1) \o <<s[i]>> \o SubSeq(s, j, i - 1) \o SubSeq(s, i + 1, Len(s)),
           a, [k \in 1..(Len(a) - 1) |-> k + 1])

\* The inputs: every array up to a length.
SortNext == \E v \in SortValue : Len(sort_in) < SortLength /\ sort_in' = Append(sort_in, v)

\* The three sorts return the elements they were given in ascending order, and
\* kapi_insertsort keeps elements that compare equal in the order they came in
\* (kapi_heapsort, kapi_qsort, kapi_insertsort).
SortsAgree ==
  LET sorted(a) == \A i \in 1..(Len(a) - 1) : ~greater(a[i], a[i + 1])
  IN  /\ \A a \in {kapi_heapsort(tagged), kapi_qsort(tagged), kapi_insertsort(tagged)} :
           sorted(a) /\ Range(a) = Range(tagged) /\ Len(a) = Len(tagged)
      /\ \A i, j \in DOMAIN sort_in : LET a == kapi_insertsort(tagged)
                                      IN  i < j /\ a[i][1] = a[j][1] => a[i][2] < a[j][2]

-----------------------------------------------------------------------------
(* time.c: the clock chip is read register by register while it runs.  The *)
(* chip counts a day of 24 hours, or twice 12; in BCD, or in binary.       *)

tm_t ==
  [tm_sec : Nat, tm_min : Nat, tm_hour : Nat,
   tm_mday : Nat, tm_mon : Nat, tm_year : Nat,
   tm_wday : 0..6, tm_yday : Nat]

is_leap_year(y) == (y % 4 = 0 /\ y % 100 # 0) \/ y % 400 = 0
days_in_month == <<31, 28, 31, 30, 31, 30, 31, 31, 30, 31, 30, 31>>

\* The loop over the years, up to LAST_YEAR, then the one over the months before
\* this one.
LAST_YEAR == 2100
days_of_years[year \in 1970..LAST_YEAR] ==
  IF year = 1970 THEN 0
  ELSE days_of_years[year - 1] + IF is_leap_year(year - 1) THEN 366 ELSE 365

days_since_epoch(year, month, day) ==
  LET of_month(m) == days_in_month[m] + IF m = 2 /\ is_leap_year(year) THEN 1 ELSE 0
  IN  days_of_years[year] + MapThenSumSet(of_month, 1..(month - 1)) + day - 1

bcd_to_bin(b) == (b \div 16) * 10 + (b % 16)

mktime(tm) ==
  days_since_epoch(tm.tm_year + 1900, tm.tm_mon + 1, tm.tm_mday) * 86400
    + tm.tm_hour * 3600 + tm.tm_min * 60 + tm.tm_sec

\* What the chip does, and shows.
month_end(c) == IF c.mon = 2 /\ is_leap_year(c.year) THEN 29 ELSE days_in_month[c.mon]

rtc_tick(c) ==
  LET sec == c.sec = 59
      min == sec /\ c.min = 59
      hour == min /\ c.hour = 23
      day == hour /\ c.day = month_end(c)
      mon == day /\ c.mon = 12
  IN  [sec |-> IF sec THEN 0 ELSE c.sec + 1,
       min |-> IF min THEN 0 ELSE IF sec THEN c.min + 1 ELSE c.min,
       hour |-> IF hour THEN 0 ELSE IF min THEN c.hour + 1 ELSE c.hour,
       day |-> IF day THEN 1 ELSE IF hour THEN c.day + 1 ELSE c.day,
       mon |-> IF mon THEN 1 ELSE IF day THEN c.mon + 1 ELSE c.mon,
       year |-> IF mon THEN c.year + 1 ELSE c.year]

to_bcd(n) == (n \div 10) * 16 + (n % 10)
PM == 128

\* The hours of a clock of 12 are 12, 1, ..., 11, and from noon on have PM.
hour_shown(h, mode) ==
  IF ~mode.hour_12 THEN h
  ELSE IF h % 12 = 0 THEN 12 ELSE h % 12

shown(c, reg, mode) ==
  LET value == IF reg = "hour" THEN hour_shown(c.hour, mode)
               ELSE IF reg = "cent" THEN c.year \div 100
               ELSE IF reg = "year" THEN c.year % 100
               ELSE c[reg]
      code == IF mode.bcd THEN to_bcd(value) ELSE value
  IN  IF reg = "hour" /\ mode.hour_12 /\ c.hour >= 12 THEN code + PM ELSE code

RtcOrder == <<"sec", "min", "hour", "day", "mon", "year", "cent">>

rtc_init ==
  /\ rtc \in RtcStart
  /\ rtc_mode \in [bcd : BOOLEAN, hour_12 : BOOLEAN]
  /\ rtc_regs = <<>>
  /\ rtc_before = rtc

rtc_read ==
  /\ Len(rtc_regs) < Len(RtcOrder)
  /\ rtc_regs' = Append(rtc_regs, shown(rtc, RtcOrder[Len(rtc_regs) + 1], rtc_mode))
  /\ UNCHANGED <<rtc, rtc_mode, rtc_before>>

\* The chip counts on; at most once while it is read.
rtc_ticks ==
  /\ rtc = rtc_before /\ Len(rtc_regs) \in 1..(Len(RtcOrder) - 1)
  /\ rtc' = rtc_tick(rtc)
  /\ UNCHANGED <<rtc_mode, rtc_regs, rtc_before>>

RtcNext == rtc_read \/ rtc_ticks

\* The value of a register, and the hour of a clock of 12: the bit for PM is
\* looked for when the BCD has been undone.
reg(n) == IF rtc_mode.bcd THEN bcd_to_bin(rtc_regs[n]) ELSE rtc_regs[n]
hour_read ==
  IF rtc_mode.hour_12 /\ reg(3) >= PM THEN ((reg(3) - PM) % 12) + 12 ELSE reg(3)

zeller(y, m, d) ==
  LET yy == IF m < 3 THEN y - 1 ELSE y
      mm == IF m < 3 THEN m + 12 ELSE m
      k == yy % 100
      j == yy \div 100
  IN  (d + (13 * (mm + 1)) \div 5 + k + k \div 4 + j \div 4 + 5 * j) % 7

\* rtc_to_tm and the two calls of it.
gmtime ==
  LET year == reg(7) * 100 + reg(6)
  IN  [tm_sec |-> reg(1), tm_min |-> reg(2), tm_hour |-> hour_read,
       tm_mday |-> reg(4), tm_mon |-> reg(5) - 1, tm_year |-> year - 1900,
       tm_wday |-> (zeller(year, reg(5), reg(4)) + 5) % 7,
       tm_yday |-> days_since_epoch(year, reg(5), reg(4)) - days_since_epoch(year, 1, 1)]

\* Eight hours on; of the date only the day of the month follows.
localtime ==
  LET utc == gmtime
      total == utc.tm_hour * 3600 + utc.tm_min * 60 + utc.tm_sec + 8 * 3600
      left == total % 86400
  IN  [utc EXCEPT !.tm_mday = @ + total \div 86400,
         !.tm_hour = left \div 3600, !.tm_min = (left % 3600) \div 60, !.tm_sec = left % 60]

\* Days since the first of January 1970 of a date, in years that begin in March
\* and without a loop.
day_number(y, m, d) ==
  LET yy == IF m <= 2 THEN y - 1 ELSE y
  IN  365 * yy + yy \div 4 - yy \div 100 + yy \div 400 + (153 * ((m + 9) % 12) + 2) \div 5 + d - 1 - 719468

seconds(c) == day_number(c.year, c.mon, c.day) * 86400 + c.hour * 3600 + c.min * 60 + c.sec

\* What gmtime gives is the time on the chip when the read began or ended, unless
\* a tick that carries past the seconds fell into the read, or the chip counts 12
\* hours: then that holds in BCD only from 1 to 11 in the morning, and in binary
\* not in the first hour of the day.  The day of the year is the right one, that
\* of the week a day early.  localtime is, by mktime, eight hours later, with a
\* day of the month that may be past its end (rtc_to_tm, mktime).
TimeBooks ==
  LET utc == gmtime
      y == utc.tm_year + 1900
      carried == rtc_before.min # rtc.min
      hour_right == ~rtc_mode.hour_12 \/ (rtc.hour # 0 /\ (rtc_mode.bcd => rtc.hour < 12))
      days == day_number(y, utc.tm_mon + 1, utc.tm_mday)
  IN  Len(rtc_regs) = Len(RtcOrder) =>
        /\ ~carried => (hour_right <=> mktime(utc) \in {seconds(rtc_before), seconds(rtc)})
        /\ ~carried => utc.tm_yday = days - day_number(y, 1, 1) /\ utc.tm_wday = (days + 3) % 7
        /\ ~carried => mktime(localtime) = mktime(utc) + 28800
        /\ ~carried /\ hour_right => localtime.tm_mday <= month_end(rtc) + 1

-----------------------------------------------------------------------------
(* stdlib.c: numbers in strings.  A string is the sequence of its          *)
(* characters, and ends in NUL.                                            *)

NUL == "NUL"
char(str, i) == IF i <= Len(str) THEN str[i] ELSE NUL
digit(c) == CASE c = "0" -> 0 [] c = "7" -> 7 [] c = "f" -> 15 [] c = "x" -> 33 [] OTHER -> -1

\* Where the digits begin: behind the blanks, then the sign, then the prefix.
blanks_end(str) == Min({i \in 1..(Len(str) + 1) : char(str, i) # " "})
sign_end(str) == IF char(str, blanks_end(str)) = "-" THEN blanks_end(str) + 1 ELSE blanks_end(str)
sign(str) == IF char(str, blanks_end(str)) = "-" THEN -1 ELSE 1

hex_prefix(str, base, s) == base \in {0, 16} /\ char(str, s) = "0" /\ char(str, s + 1) = "x"
prefix_end(str, base, s) ==
  IF hex_prefix(str, base, s) THEN s + 2
  ELSE IF base = 0 /\ char(str, s) = "0" THEN s + 1
  ELSE s
base_read(str, base, s) ==
  IF hex_prefix(str, base, s) THEN 16
  ELSE IF base # 0 THEN base
  ELSE IF char(str, s) = "0" THEN 8 ELSE 10

digits_end(str, base, s) == Min({i \in s..(Len(str) + 1) : digit(char(str, i)) \notin 0..(base - 1)})
number(str, base, s) ==
  FoldLeft(LAMBDA result, c : result * base + digit(c), 0, SubSeq(str, s, digits_end(str, base, s) - 1))

\* The number and endptr, as an index: without a digit behind the prefix, the
\* start.
strtol_from(str, base, s) ==
  [result |-> sign(str) * number(str, base, s),
   endptr |-> IF digits_end(str, base, s) > s THEN digits_end(str, base, s) ELSE 1]

strtol(str, base) ==
  LET s == sign_end(str)
  IN  strtol_from(str, base_read(str, base, s), prefix_end(str, base, s))

\* atol and atoll are the same, in a wider integer.
atoi(str) ==
  LET s == sign_end(str)
  IN  sign(str) * number(str, 10, s)

StrNext == \E c \in StrChar : Len(str_in) < StrLength /\ str_in' = Append(str_in, c)
str_init == str_in = <<>>

\* The numerals of the C standard: a sign, a prefix, digits; and what they stand
\* for, digit by digit.
digits_of(w, base) == w # <<>> /\ \A i \in DOMAIN w : digit(w[i]) \in 0..(base - 1)
unsigned(w) == IF w # <<>> /\ w[1] = "-" THEN Tail(w) ELSE w
hexadecimal(w) == Len(w) > 2 /\ w[1] = "0" /\ w[2] = "x" /\ digits_of(SubSeq(w, 3, Len(w)), 16)
base_of(w, base) ==
  IF base # 0 THEN base ELSE IF hexadecimal(w) THEN 16 ELSE IF w[1] = "0" THEN 8 ELSE 10
numeral(w, base) ==
  \/ base \in {0, 16} /\ hexadecimal(w)
  \/ w # <<>> /\ digits_of(w, base_of(w, base))
value(w, base) ==
  LET power(n) == base ^ n
      at(i) == (IF digit(w[i]) = 33 THEN 0 ELSE digit(w[i])) * power(Len(w) - i)
  IN  MapThenSumSet(at, DOMAIN w)
longest(str, base) ==
  LET b == blanks_end(str)
  IN  Max({b - 1} \cup {e \in b..Len(str) : numeral(unsigned(SubSeq(str, b, e)), base)})

\* strtol gives the number that the longest numeral at the start of the string
\* stands for, and its end; but the zero alone of a 0 with no octal digit behind
\* it, in base 0, and of a 0x with no digit behind it, is the number and the
\* end is said to be the start.  atoi is strtol in base 10 (strtol, atoi).
StringsToNumbers ==
  /\ \A base \in StrBase :
       LET w == unsigned(SubSeq(str_in, blanks_end(str_in), longest(str_in, base)))
           lone_zero == w = <<"0">> /\ (base = 0 \/ (base = 16 /\ char(str_in, longest(str_in, base) + 1) = "x"))
           r == strtol(str_in, base)
       IN  IF w = <<>> \/ lone_zero THEN r = [result |-> 0, endptr |-> 1]
           ELSE r = [result |-> sign(str_in) * value(w, base_of(w, base)), endptr |-> longest(str_in, base) + 1]
  /\ atoi(str_in) = strtol(str_in, 10).result

-----------------------------------------------------------------------------

\* Every variable of the containers holds a value of its type.
ContainersTypeOK ==
  /\ rb.root \in RbNode \cup {NULL} /\ rb.color \in [RbNode -> {"red", "black"}] /\ rb_in \subseteq RbNode
  /\ kf.in \in 0..(COUNTER - 1) /\ kf.out \in 0..(COUNTER - 1) /\ Range(kf.buffer) \subseteq Byte
  /\ idr.ptr \in [Id -> IdUser \cup {NULL}] /\ idr.next_id \in Id
  /\ ht_keys \in [HashNode -> HashKey \cup {"none"}] /\ ht.size \in 0..Cardinality(HashNode)
  /\ nc.head \in Notifier \cup {NULL} /\ nc_call.there \subseteq Notifier
  /\ sort_in \in Seq(SortValue) /\ str_in \in Seq(StrChar)
  /\ Len(rtc_regs) = Len(RtcOrder) => gmtime \in tm_t /\ localtime \in tm_t

=============================================================================
