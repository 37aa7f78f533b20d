----------------------------- MODULE Ipc_proofs -----------------------------
(***************************************************************************)
(* Proofs about shared memory segments, the message queues and the message *)
(* ring, for every number of processes, segments, queues and messages.     *)
(***************************************************************************)
EXTENDS ShmSegment, MsgQueue, IpcRing, WellFoundedInduction, SequenceTheorems,
        FiniteSetTheorems, TLAPS

-----------------------------------------------------------------------------
(* Shared memory *)

Mappers(s) == {p \in Proc : mapped_vaddr[s][p] # NULL}

(* ref_count is at least the number of attached processes, and memory is freed only at 0. *)
SegmentOK(s) ==
  /\ Cardinality(Mappers(s)) <= shm_table[s].ref_count
  /\ shm_table[s].memory = 0 => shm_table[s].size = 0 /\ shm_table[s].ref_count = 0

ShmInv == ShmTypeOK /\ \A s \in Shmid : SegmentOK(s)

(* Nobody has a segment attached when its ref_count is 0. *)
LEMMA NoneAttached ==
  ASSUME ShmInv, NEW s \in Shmid, shm_table[s].ref_count = 0
  PROVE  Mappers(s) = {}
<1>1. IsFiniteSet(Mappers(s))
  BY ProcFinite, FS_Subset DEF Mappers
<1>2. Cardinality(Mappers(s)) \in Nat
  BY <1>1, FS_CardinalityType
<1>3. Cardinality(Mappers(s)) = 0
  BY <1>2 DEF ShmInv, SegmentOK
<1> QED
  BY <1>1, <1>3, FS_EmptySet

(* shm_init establishes the invariant. *)
LEMMA ShmInit == shm_init => ShmInv
<1> SUFFICES ASSUME shm_init PROVE ShmInv
  OBVIOUS
<1>1. ShmTypeOK
  BY ShmAssumption DEF shm_init, ShmTypeOK, NoSegment, Segment
<1>2. ASSUME NEW s \in Shmid PROVE SegmentOK(s)
  <2>1. Mappers(s) = {}
    BY DEF shm_init, Mappers
  <2>2. Cardinality({}) = 0
    BY FS_EmptySet
  <2> QED
    BY <2>1, <2>2 DEF shm_init, SegmentOK, NoSegment, Segment
<1> QED
  BY <1>1, <1>2 DEF ShmInv

(* Get, attach, detach and remove keep the invariant. *)
LEMMA ShmStep == ShmInv /\ [ShmNext]_shmVars => ShmInv'
<1> SUFFICES ASSUME ShmInv, [ShmNext]_shmVars PROVE ShmInv'
  OBVIOUS
<1> USE ShmAssumption DEF ShmInv, Segment, NoSegment, counted, IPC_PRIVATE
<1>1. ASSUME NEW key \in ShmKey \cup {IPC_PRIVATE}, shm_get(key) PROVE ShmInv'
  <2>1. ShmTypeOK'
    BY <1>1 DEF shm_get, ShmTypeOK, Shmid
  <2>2. ASSUME NEW s \in Shmid PROVE SegmentOK(s)'
    <3>1. CASE s = shm_count
      <4>1. Mappers(s)' = {}
        BY <1>1, <3>1 DEF shm_get, Mappers, ShmTypeOK
      <4>2. shm_table'[s].ref_count = 0 /\ shm_table'[s].memory = 1
        BY <1>1, <3>1 DEF shm_get, ShmTypeOK
      <4>3. Cardinality({}) = 0
        BY FS_EmptySet
      <4> QED
        BY <4>1, <4>2, <4>3 DEF SegmentOK
    <3>2. CASE s # shm_count
      <4>1. shm_table'[s] = shm_table[s] /\ Mappers(s)' = Mappers(s)
        BY <1>1, <3>2 DEF shm_get, Mappers, ShmTypeOK
      <4> QED
        BY <4>1 DEF SegmentOK
    <3> QED
      BY <3>1, <3>2
  <2> QED
    BY <2>1, <2>2
<1>2. ASSUME NEW p \in Proc, NEW s \in Shmid, shm_at(p, s) PROVE ShmInv'
  <2>1. ShmTypeOK'
    <3>1. mapped_vaddr' \in [Shmid -> [Proc -> Vaddr \cup {NULL}]]
      <4>1. CASE mapped_vaddr[s][p] # NULL
        BY <1>2, <4>1 DEF shm_at, ShmTypeOK
      <4>2. CASE mapped_vaddr[s][p] = NULL
        <5>1. PICK at \in Vaddr : mapped_vaddr' = [mapped_vaddr EXCEPT ![s][p] = at]
          BY <1>2, <4>2 DEF shm_at
        <5> QED
          BY <5>1 DEF ShmTypeOK
      <4> QED
        BY <4>1, <4>2
    <3>2. shm_table[s].ref_count + 1 \in 0 .. MaxRef
      BY <1>2 DEF shm_at, ShmTypeOK
    <3> QED
      BY <1>2, <3>1, <3>2 DEF shm_at, ShmTypeOK
  <2>2. ASSUME NEW r \in Shmid, r # s PROVE SegmentOK(r)'
    <3>1. shm_table'[r] = shm_table[r] /\ Mappers(r)' = Mappers(r)
      BY <1>2, <2>2 DEF shm_at, Mappers, ShmTypeOK
    <3> QED
      BY <3>1 DEF SegmentOK
  <2>3. SegmentOK(s)'
    <3>1. /\ shm_table'[s].ref_count = shm_table[s].ref_count + 1
          /\ shm_table'[s].memory = shm_table[s].memory
          /\ shm_table'[s].size = shm_table[s].size
          /\ shm_table[s].ref_count \in Nat
      BY <1>2 DEF shm_at, ShmTypeOK
    <3>2. IsFiniteSet(Mappers(s))
      BY ProcFinite, FS_Subset DEF Mappers
    <3>3. Mappers(s)' = Mappers(s) \/ Mappers(s)' = Mappers(s) \cup {p}
      BY <1>2 DEF shm_at, Mappers, ShmTypeOK, mmap_returns
    <3>4. Cardinality(Mappers(s)) \in Nat
      BY <3>2, FS_CardinalityType
    <3>5. Cardinality(Mappers(s) \cup {p}) <= Cardinality(Mappers(s)) + 1
      BY <3>2, <3>4, FS_AddElement
    <3>6. shm_table[s].memory # 0
      <4> SUFFICES ASSUME shm_table[s].memory = 0 PROVE FALSE
        OBVIOUS
      <4>1. shm_table[s].size = 0 /\ shm_table[s].ref_count = 0
        BY DEF SegmentOK
      <4>2. Mappers(s) = {}
        BY <4>1, NoneAttached
      <4> QED
        BY <1>2, <4>1, <4>2 DEF shm_at, mmap_returns, Mappers
    <3>7. Cardinality(Mappers(s)') <= shm_table[s].ref_count + 1
      <4>1. Cardinality(Mappers(s) \cup {p}) \in Nat
        BY <3>2, FS_AddElement, FS_CardinalityType
      <4>2. Cardinality(Mappers(s)) <= shm_table[s].ref_count
        BY DEF SegmentOK
      <4>3. CASE Mappers(s)' = Mappers(s)
        BY <3>1, <3>4, <4>2, <4>3
      <4>4. CASE Mappers(s)' = Mappers(s) \cup {p}
        BY <3>1, <3>4, <3>5, <4>1, <4>2, <4>4
      <4> QED
        BY <3>3, <4>3, <4>4
    <3> QED
      BY <3>1, <3>6, <3>7 DEF SegmentOK
  <2> QED
    BY <2>1, <2>2, <2>3
<1>3. ASSUME NEW p \in Proc, NEW at \in Vaddr, shm_dt(p, at) PROVE ShmInv'
  <2>1. PICK s \in 0 .. shm_count - 1 :
          /\ mapped_vaddr[s][p] = at
          /\ mapped_vaddr' = [mapped_vaddr EXCEPT ![s][p] = NULL]
          /\ shm_table' = [shm_table EXCEPT ![s] =
                             counted(@, IF @.ref_count > 0 THEN @.ref_count - 1 ELSE 0)]
          /\ UNCHANGED shm_count
    BY <1>3 DEF shm_dt
  <2>2. s \in Shmid
    BY DEF ShmTypeOK, Shmid
  <2>3. ShmTypeOK'
    BY <2>1, <2>2 DEF ShmTypeOK
  <2>4. ASSUME NEW r \in Shmid, r # s PROVE SegmentOK(r)'
    <3>1. shm_table'[r] = shm_table[r] /\ Mappers(r)' = Mappers(r)
      BY <2>1, <2>4 DEF Mappers, ShmTypeOK
    <3> QED
      BY <3>1 DEF SegmentOK
  <2>5. SegmentOK(s)'
    <3>1. IsFiniteSet(Mappers(s)) /\ p \in Mappers(s)
      BY <2>1, ProcFinite, FS_Subset DEF Mappers
    <3>2. Mappers(s)' = Mappers(s) \ {p}
      BY <2>1, <2>2 DEF Mappers, ShmTypeOK
    <3>3. Cardinality(Mappers(s)') = Cardinality(Mappers(s)) - 1
      BY <3>1, <3>2, FS_RemoveElement, ZenonT(30)
    <3>4. Cardinality(Mappers(s)) \in Nat /\ Cardinality(Mappers(s)) # 0
      BY <3>1, FS_CardinalityType, FS_EmptySet
    <3>5. shm_table[s].ref_count \in Nat /\ shm_table[s].ref_count > 0
      BY <2>2, <3>4 DEF SegmentOK, ShmTypeOK
    <3>6. /\ shm_table'[s].ref_count = shm_table[s].ref_count - 1
          /\ shm_table'[s].memory = shm_table[s].memory
      BY <2>1, <2>2, <3>5 DEF ShmTypeOK
    <3>7. shm_table[s].memory # 0
      BY <2>2, <3>5 DEF SegmentOK
    <3> QED
      BY <2>2, <3>3, <3>4, <3>5, <3>6, <3>7 DEF SegmentOK
  <2> QED
    BY <2>3, <2>4, <2>5
<1>4. ASSUME NEW s \in Shmid, shm_ctl(s) PROVE ShmInv'
  <2>1. ShmTypeOK'
    BY <1>4 DEF shm_ctl, ShmTypeOK
  <2>2. ASSUME NEW r \in Shmid PROVE SegmentOK(r)'
    <3>1. Mappers(r)' = Mappers(r)
      BY <1>4 DEF shm_ctl, Mappers
    <3> QED
      BY <1>4, <3>1 DEF shm_ctl, SegmentOK, ShmTypeOK
  <2> QED
    BY <2>1, <2>2
<1>5. CASE UNCHANGED shmVars
  BY <1>5 DEF shmVars, ShmTypeOK, SegmentOK, Mappers
<1> QED
  BY <1>1, <1>2, <1>3, <1>4, <1>5 DEF ShmNext

(***************************************************************************)
(* For every number of processes, segments and attachments shm_ctl frees   *)
(* no segment that a process has attached.                                 *)
(***************************************************************************)
THEOREM AttachedNeverFreed == ShmSpec => []AttachedKeepsMemory
<1>1. ShmInv => AttachedKeepsMemory
  <2> SUFFICES ASSUME ShmInv, NEW s \in Shmid, NEW p \in Proc, mapped_vaddr[s][p] # NULL
               PROVE  shm_table[s].memory = 1
    BY DEF AttachedKeepsMemory
  <2>1. shm_table[s].ref_count # 0
    BY NoneAttached DEF Mappers
  <2> QED
    BY <2>1 DEF ShmInv, SegmentOK, ShmTypeOK
<1> QED
  BY <1>1, ShmInit, ShmStep, PTL DEF ShmSpec

-----------------------------------------------------------------------------
(* The message ring *)

(* An index below the size of the ring is its own remainder; the size has remainder 0. *)
LEMMA SmallRemainder ==
  ASSUME NEW n \in Nat \ {0}, NEW i \in 0 .. n
  PROVE  i % n = IF i = n THEN 0 ELSE i
OBVIOUS

(***************************************************************************)
(* ipc_head never moves; as long as ipc_tail has not come round, the       *)
(* entries below it have been written and ipc_count covers only those.     *)
(***************************************************************************)
Written(i) == ipc_buffer[i].data # 0

Covered ==
  \/ \A i \in Index : Written(i)
  \/ ipc_count <= ipc_tail /\ \A i \in Index : i < ipc_tail => Written(i)

RingInv ==
  /\ ipc_buffer \in [Index -> [source : Nat, destination : Nat, data : Nat]]
  /\ ipc_head = 0 /\ ipc_tail \in Index /\ sent \in Nat
  /\ ipc_count \in 0 .. IPC_MAX_MESSAGES
  /\ Covered

(* Without a shift the i-th message is in slot i. *)
LEMMA RingAt ==
  ASSUME RingInv, NEW i \in Index
  PROVE  ring_at(i) = i
<1>1. i % IPC_MAX_MESSAGES = i
  <2>1. IPC_MAX_MESSAGES \in Nat \ {0} /\ i \in 0 .. IPC_MAX_MESSAGES /\ i # IPC_MAX_MESSAGES
    BY RingAssumption DEF Index
  <2> QED
    BY <2>1, SmallRemainder
<1> QED
  BY <1>1 DEF RingInv, ring_at, Index

(* ipc_init establishes the invariant. *)
LEMMA RingInit == ipc_init => RingInv
BY RingAssumption DEF ipc_init, RingInv, Covered, Index, Zero

(* Sending and receiving keep the invariant. *)
LEMMA RingStep == RingInv /\ [RingNext]_ringVars => RingInv'
<1> SUFFICES ASSUME RingInv, [RingNext]_ringVars PROVE RingInv'
  OBVIOUS
<1> USE RingAssumption
<1>1. ASSUME NEW self \in Pid, NEW destination \in Pid, ipc_send(self, destination)
      PROVE  RingInv'
  <2>1. ipc_tail' = IF ipc_tail + 1 = IPC_MAX_MESSAGES THEN 0 ELSE ipc_tail + 1
    <3>1. ipc_tail + 1 \in 0 .. IPC_MAX_MESSAGES
      BY DEF RingInv, Index
    <3>2. (ipc_tail + 1) % IPC_MAX_MESSAGES =
            IF ipc_tail + 1 = IPC_MAX_MESSAGES THEN 0 ELSE ipc_tail + 1
      BY <3>1, SmallRemainder
    <3> QED
      BY <1>1, <3>2 DEF ipc_send, next_tail
  <2>2. /\ ipc_buffer' \in [Index -> [source : Nat, destination : Nat, data : Nat]]
        /\ ipc_buffer'[ipc_tail].data = sent + 1
        /\ \A i \in Index : i # ipc_tail => ipc_buffer'[i] = ipc_buffer[i]
    BY <1>1 DEF ipc_send, slot_at_tail, RingInv
  <2>3. \A i \in Index : Written(i) \/ i = ipc_tail => Written(i)'
    BY <2>2 DEF Written, RingInv
  <2>4. ipc_count' = ipc_count + 1 /\ ipc_head' = 0 /\ sent' = sent + 1
    BY <1>1 DEF ipc_send, RingInv
  <2>5. Covered'
    <3>1. CASE (\A i \in Index : Written(i)) \/ ipc_tail + 1 = IPC_MAX_MESSAGES
      <4>1. \A i \in Index : Written(i)'
        BY <2>3, <3>1 DEF Index, RingInv, Covered
      <4> QED
        BY <4>1 DEF Covered
    <3>2. CASE ~(\A i \in Index : Written(i)) /\ ipc_tail + 1 # IPC_MAX_MESSAGES
      <4>1. \A i \in Index : i < ipc_tail' => Written(i)'
        BY <2>1, <2>3, <3>2 DEF Index, RingInv, Covered
      <4>2. ipc_count' <= ipc_tail'
        BY <2>1, <2>4, <3>2 DEF Index, RingInv, Covered
      <4> QED
        BY <4>1, <4>2 DEF Covered
    <3> QED
      BY <3>1, <3>2
  <2>6. ipc_tail' \in Index /\ ipc_count' \in 0 .. IPC_MAX_MESSAGES
    BY <1>1, <2>1, <2>4 DEF ipc_send, RingInv, Index
  <2> QED
    BY <2>2, <2>4, <2>5, <2>6 DEF RingInv
<1>2. ASSUME NEW self \in Pid, NEW source \in Pid \cup {ANY}, ipc_receive(self, source)
      PROVE  RingInv'
  <2>1. PICK i \in 0 .. ipc_count - 1 :
          /\ ipc_buffer' = [ipc_buffer EXCEPT ![ring_at(i)] = ipc_buffer[ring_at(ipc_count - 1)]]
          /\ ipc_count' = ipc_count - 1
          /\ UNCHANGED <<ipc_head, ipc_tail, sent>>
    BY <1>2 DEF ipc_receive
  <2>2. i \in Index /\ ipc_count - 1 \in Index
    BY <2>1 DEF RingInv, Index
  <2>3. ipc_buffer' = [ipc_buffer EXCEPT ![i] = ipc_buffer[ipc_count - 1]]
    BY <2>1, <2>2, RingAt
  <2>4. Written(ipc_count - 1)
    BY <2>2 DEF RingInv, Covered, Index
  <2>5. \A j \in Index : Written(j) => Written(j)'
    BY <2>2, <2>3, <2>4 DEF Written, RingInv
  <2>6. ipc_buffer' \in [Index -> [source : Nat, destination : Nat, data : Nat]]
    BY <2>2, <2>3 DEF RingInv
  <2>7. \/ \A j \in Index : Written(j)'
        \/ ipc_count' <= ipc_tail' /\ \A j \in Index : j < ipc_tail' => Written(j)'
    BY <2>1, <2>2, <2>5 DEF RingInv, Covered, Index
  <2>8. Covered'
    BY <2>7 DEF Covered
  <2>9. ipc_count' \in 0 .. IPC_MAX_MESSAGES
    BY <2>1, <2>2 DEF RingInv, Index
  <2> QED
    BY <2>1, <2>6, <2>8, <2>9 DEF RingInv
<1>3. CASE UNCHANGED ringVars
  BY <1>3 DEF ringVars, RingInv, Covered, Written
<1> QED
  BY <1>1, <1>2, <1>3 DEF RingNext

(***************************************************************************)
(* For every size of the ring, ipc_receive hands out only entries that     *)
(* ipc_send wrote, never the zeroes of ipc_init.                           *)
(***************************************************************************)
THEOREM NothingInvented == RingSpec => []OnlySentMessages
<1>1. RingInv => OnlySentMessages
  BY RingAt, RingAssumption DEF RingInv, Covered, OnlySentMessages, Written, Index
<1> QED
  BY <1>1, RingInit, RingStep, PTL DEF RingSpec

-----------------------------------------------------------------------------
(* Message queues: sums and selections over the list of entries *)

(* A non-empty set of naturals has a least element. *)
LEMMA LeastExists ==
  ASSUME NEW S, S \subseteq Nat, S # {}
  PROVE  \E m \in S : \A k \in S : m <= k
<1>1. PICK m \in S : \A k \in S : ~ (<<k, m>> \in OpToRel(<, Nat))
  BY WFMin, NatLessThanWellFounded
<1>2. \A k \in S : ~ (k < m)
  BY <1>1 DEF OpToRel
<1>3. m \in Nat /\ \A k \in S : k \in Nat
  OBVIOUS
<1>4. \A k \in S : m <= k
  BY <1>2, <1>3
<1> QED
  BY <1>4

(* Induction up to n, for the members of a set. *)
LEMMA IntervalInduction ==
  ASSUME NEW n \in Nat, NEW S, 0 \in S,
         \A i \in 0 .. n - 1 : i \in S => i + 1 \in S
  PROVE  \A i \in 0 .. n : i \in S
<1> DEFINE Out == {i \in 0 .. n : i \notin S}
<1> SUFFICES ASSUME Out # {} PROVE FALSE
  OBVIOUS
<1>1. PICK m \in Out : \A k \in Out : m <= k
  <2>1. Out \subseteq Nat
    OBVIOUS
  <2> HIDE DEF Out
  <2> QED
    BY <2>1, LeastExists
<1>2. m \in 1 .. n
  OBVIOUS
<1>3. m - 1 \in 0 .. n - 1 /\ m - 1 \in S
  BY <1>1, <1>2
<1>4. (m - 1) + 1 \in S
  BY <1>3
<1> QED
  BY <1>2, <1>4

(* What a list of entries holds. *)
LEMMA EntryAt ==
  ASSUME NEW es \in Seq(Entry), NEW i \in 1 .. Len(es)
  PROVE  es[i] \in Entry /\ es[i].msize \in Nat
<1>1. es[i] \in Entry
  OBVIOUS
<1>2. es[i].msize \in Size
  BY <1>1 DEF Entry
<1> QED
  BY <1>1, <1>2, MsgAssumption

(* f holds the sums of the first entries of es. *)
Sums(es, f) == \A i \in 0 .. Len(es) : f[i] = IF i = 0 THEN 0 ELSE f[i - 1] + es[i].msize

(* The recursive definition of bytes has a solution. *)
LEMMA SumsExist ==
  ASSUME NEW es \in Seq(Entry)
  PROVE  \E f \in [0 .. Len(es) -> Nat] : Sums(es, f)
<1> DEFINE Good(k, f) == \A i \in 0 .. k : f[i] = IF i = 0 THEN 0 ELSE f[i - 1] + es[i].msize
           S == {k \in 0 .. Len(es) : \E f \in [0 .. k -> Nat] : Good(k, f)}
<1>1. 0 \in S
  <2>1. [i \in 0 .. 0 |-> 0] \in [0 .. 0 -> Nat] /\ Good(0, [i \in 0 .. 0 |-> 0])
    OBVIOUS
  <2>2. 0 \in 0 .. Len(es)
    OBVIOUS
  <2> HIDE DEF Good
  <2> QED
    BY <2>1, <2>2
<1>2. ASSUME NEW k \in 0 .. Len(es) - 1, k \in S PROVE k + 1 \in S
  <2>1. PICK f \in [0 .. k -> Nat] : Good(k, f)
    BY <1>2
  <2> DEFINE g == [i \in 0 .. k + 1 |-> IF i = k + 1 THEN f[k] + es[k + 1].msize ELSE f[i]]
  <2>2. es[k + 1].msize \in Nat
    <3>1. k + 1 \in 1 .. Len(es)
      OBVIOUS
    <3> QED
      BY <3>1, EntryAt
  <2>3. g \in [0 .. k + 1 -> Nat]
    BY <2>2
  <2>4. ASSUME NEW i \in 0 .. k + 1
        PROVE  g[i] = IF i = 0 THEN 0 ELSE g[i - 1] + es[i].msize
    BY <2>1
  <2>5. Good(k + 1, g)
    BY <2>4
  <2>6. k + 1 \in 0 .. Len(es)
    OBVIOUS
  <2> HIDE DEF g, Good
  <2> QED
    BY <2>3, <2>5, <2>6
<1>3. Len(es) \in Nat
  OBVIOUS
<1>4. Len(es) \in S
  <2> HIDE DEF S
  <2>1. \A k \in 0 .. Len(es) - 1 : k \in S => k + 1 \in S
    BY <1>2
  <2>2. \A k \in 0 .. Len(es) : k \in S
    BY <1>1, <1>3, <2>1, IntervalInduction
  <2> QED
    BY <1>3, <2>2
<1>5. \E f \in [0 .. Len(es) -> Nat] : Good(Len(es), f)
  BY <1>4
<1> QED
  BY <1>5 DEF Sums

(* The sum is what any function with the recurrence holds at the end. *)
LEMMA BytesIs ==
  ASSUME NEW es \in Seq(Entry), NEW f, Sums(es, f)
  PROVE  bytes(es) = f[Len(es)]
<1> DEFINE n == Len(es)
           h == CHOOSE g : g = [i \in 0 .. Len(es) |-> IF i = 0 THEN 0 ELSE g[i - 1] + es[i].msize]
<1>1. bytes(es) = h[Len(es)]
  BY Zenon DEF bytes
<1>2. PICK k \in [0 .. n -> Nat] : Sums(es, k)
  BY SumsExist
<1>3. k = [i \in 0 .. n |-> IF i = 0 THEN 0 ELSE k[i - 1] + es[i].msize]
  BY <1>2 DEF Sums
<1>4. h = [i \in 0 .. n |-> IF i = 0 THEN 0 ELSE h[i - 1] + es[i].msize]
  BY <1>3, Zenon
<1> HIDE DEF h
<1> DEFINE S == {i \in 0 .. n : h[i] = f[i]}
<1>5. n \in Nat
  OBVIOUS
<1>6. 0 \in S
  BY <1>4, <1>5 DEF Sums
<1>7. ASSUME NEW i \in 0 .. n - 1, i \in S PROVE i + 1 \in S
  <2>1. i + 1 \in 0 .. n /\ i + 1 # 0 /\ (i + 1) - 1 = i
    OBVIOUS
  <2>2. h[i + 1] = h[i] + es[i + 1].msize
    BY <1>4, <2>1
  <2>3. f[i + 1] = f[i] + es[i + 1].msize
    BY <2>1 DEF Sums
  <2> QED
    BY <1>7, <2>1, <2>2, <2>3
<1>8. n \in S
  <2> HIDE DEF S, n
  <2>1. \A i \in 0 .. n - 1 : i \in S => i + 1 \in S
    BY <1>7
  <2>2. \A i \in 0 .. n : i \in S
    BY <1>5, <1>6, <2>1, IntervalInduction
  <2> QED
    BY <1>5, <2>2
<1> QED
  BY <1>1, <1>8

(* An empty list holds no bytes. *)
LEMMA BytesEmpty == bytes(<< >>) = 0
<1>1. Sums(<< >>, [i \in {0} |-> 0])
  BY DEF Sums
<1> QED
  BY <1>1, BytesIs

(* A new entry adds its size. *)
LEMMA BytesAppend ==
  ASSUME NEW es \in Seq(Entry), NEW e \in Entry
  PROVE  bytes(Append(es, e)) = bytes(es) + e.msize
<1>1. PICK f \in [0 .. Len(es) -> Nat] : Sums(es, f)
  BY SumsExist
<1> DEFINE n == Len(es)
           g == [i \in 0 .. n + 1 |-> IF i = n + 1 THEN f[n] + e.msize ELSE f[i]]
<1>2. Append(es, e) \in Seq(Entry) /\ Len(Append(es, e)) = n + 1
  OBVIOUS
<1>3. Sums(Append(es, e), g)
  BY <1>1, <1>2 DEF Sums
<1>4. bytes(Append(es, e)) = g[n + 1] /\ bytes(es) = f[n]
  BY <1>1, <1>2, <1>3, BytesIs
<1> QED
  BY <1>4

(* The list without its k-th entry. *)
LEMMA UnlinkIs ==
  ASSUME NEW es \in Seq(Entry), NEW k \in 1 .. Len(es)
  PROVE  /\ unlink(es, k) \in Seq(Entry)
         /\ Len(unlink(es, k)) = Len(es) - 1
         /\ \A i \in 1 .. Len(es) - 1 : unlink(es, k)[i] = IF i < k THEN es[i] ELSE es[i + 1]
<1> DEFINE r == [j \in 1 .. Len(es) - 1 |-> IF j < k THEN es[j] ELSE es[j + 1]]
<1>1. \A j \in 1 .. Len(es) - 1 : r[j] \in Entry
  OBVIOUS
<1>2. r \in Seq(Entry) /\ Len(r) = Len(es) - 1
  <2>1. Len(es) - 1 \in Nat
    OBVIOUS
  <2> QED
    BY <1>1, <2>1
<1>3. unlink(es, k) = r
  BY DEF unlink
<1> QED
  BY <1>2, <1>3

(* An entry that leaves takes its size with it. *)
LEMMA BytesRemove ==
  ASSUME NEW es \in Seq(Entry), NEW k \in 1 .. Len(es)
  PROVE  bytes(unlink(es, k)) = bytes(es) - es[k].msize
<1>1. PICK f \in [0 .. Len(es) -> Nat] : Sums(es, f)
  BY SumsExist
<1> DEFINE n == Len(es)
           r == unlink(es, k)
           g == [i \in 0 .. n - 1 |-> IF i < k THEN f[i] ELSE f[i + 1] - es[k].msize]
<1>2. r \in Seq(Entry) /\ Len(r) = n - 1
  BY UnlinkIs
<1>3. \A i \in 1 .. n - 1 : r[i] = IF i < k THEN es[i] ELSE es[i + 1]
  BY UnlinkIs
<1>4. \A i \in 1 .. n : es[i].msize \in Nat /\ f[i] = f[i - 1] + es[i].msize
  <2> SUFFICES ASSUME NEW i \in 1 .. n
               PROVE  es[i].msize \in Nat /\ f[i] = f[i - 1] + es[i].msize
    OBVIOUS
  <2>1. es[i].msize \in Nat
    BY EntryAt
  <2>2. i \in 0 .. n /\ i # 0
    OBVIOUS
  <2> QED
    BY <1>1, <2>1, <2>2 DEF Sums
<1>5. f[0] = 0
  BY <1>1 DEF Sums
<1> HIDE DEF r
<1>6. Sums(r, g)
  <2>1. ASSUME NEW i \in 0 .. n - 1
        PROVE  g[i] = IF i = 0 THEN 0 ELSE g[i - 1] + r[i].msize
    <3>1. CASE i < k
      BY <1>3, <1>4, <1>5, <3>1
    <3>2. CASE i = k
      <4>4. i \in 1 .. n - 1 /\ i \in 1 .. n /\ i + 1 \in 1 .. n /\ (i + 1) - 1 = i /\ ~(i < k)
        BY <3>2
      <4>5. r[i] = es[i + 1]
        BY <1>3, <4>4
      <4>6. f[i + 1] = f[i] + es[i + 1].msize
        BY <1>4, <4>4
      <4>1. r[i] = es[i + 1] /\ f[i + 1] = f[i] + es[i + 1].msize /\ f[i] = f[i - 1] + es[k].msize
        BY <1>4, <3>2, <4>4, <4>5, <4>6
      <4>2. g[i] = f[i + 1] - es[k].msize /\ g[i - 1] = f[i - 1] /\ i # 0
        BY <3>2
      <4>3. es[k].msize \in Nat /\ es[i + 1].msize \in Nat /\ f[i - 1] \in Nat
        BY <1>4, <3>2, SMTT(20)
      <4> QED
        BY <4>1, <4>2, <4>3, SMTT(20)
    <3>3. CASE i > k
      <4>1. r[i] = es[i + 1] /\ f[i + 1] = f[i] + es[i + 1].msize
        BY <1>3, <1>4, <3>3, SMTT(20)
      <4>2. g[i] = f[i + 1] - es[k].msize /\ g[i - 1] = f[i] - es[k].msize /\ i # 0
        BY <3>3
      <4>3. es[k].msize \in Nat /\ es[i + 1].msize \in Nat /\ f[i] \in Nat
        <5>1. i + 1 \in 1 .. n /\ i \in 0 .. n /\ k \in 1 .. n
          BY <3>3
        <5> QED
          BY <1>4, <5>1
      <4> QED
        BY <4>1, <4>2, <4>3, SMTT(20)
    <3> QED
      BY <3>1, <3>2, <3>3
  <2> QED
    BY <1>2, <2>1 DEF Sums
<1>7. bytes(r) = g[n - 1] /\ bytes(es) = f[n]
  BY <1>1, <1>2, <1>6, BytesIs
<1>8. g[n - 1] = f[n] - es[k].msize
  <2>1. CASE k = n
    <3>1. f[n] = f[n - 1] + es[n].msize /\ es[n].msize \in Nat /\ f[n - 1] \in Nat
      BY <1>4, <2>1
    <3>2. g[n - 1] = f[n - 1]
      BY <2>1
    <3> QED
      BY <2>1, <3>1, <3>2
  <2>2. CASE k < n
    <3>1. n - 1 \in 0 .. n - 1 /\ ~(n - 1 < k) /\ (n - 1) + 1 = n
      BY <2>2
    <3> QED
      BY <3>1
  <2> QED
    BY <2>1, <2>2
<1> QED
  BY <1>7, <1>8 DEF r

(* The sum is a natural number. *)
LEMMA BytesType == ASSUME NEW es \in Seq(Entry) PROVE bytes(es) \in Nat
<1>1. PICK f \in [0 .. Len(es) -> Nat] : Sums(es, f)
  BY SumsExist
<1>2. bytes(es) = f[Len(es)]
  BY <1>1, BytesIs
<1> QED
  BY <1>2

(* A list something was appended to is not empty. *)
LEMMA AppendNotEmpty ==
  ASSUME NEW S, NEW s \in Seq(S), NEW x \in S
  PROVE  Append(s, x) # << >>
<1>1. Len(Append(s, x)) = Len(s) + 1 /\ Len(s) \in Nat
  OBVIOUS
<1>2. Len(<< >>) = 0
  OBVIOUS
<1>3. Len(Append(s, x)) # 0
  BY <1>1
<1> QED
  BY <1>2, <1>3, Zenon

(* f holds the texts of type t among the first entries of es. *)
Picks(es, t, f) ==
  \A i \in 0 .. Len(es) :
    f[i] = IF i = 0 THEN << >>
           ELSE IF es[i].mtype = t THEN Append(f[i - 1], es[i].mtext) ELSE f[i - 1]

(* The recurrence at an entry. *)
LEMMA PickAt ==
  ASSUME NEW es \in Seq(Entry), NEW t, NEW f, Picks(es, t, f), NEW i \in 1 .. Len(es)
  PROVE  f[i] = IF es[i].mtype = t THEN Append(f[i - 1], es[i].mtext) ELSE f[i - 1]
<1>1. i \in 0 .. Len(es) /\ i # 0
  OBVIOUS
<1> QED
  BY <1>1, Zenon DEF Picks

(* The recursive definition of ofType has a solution. *)
LEMMA PicksExist ==
  ASSUME NEW es \in Seq(Entry), NEW t
  PROVE  \E f \in [0 .. Len(es) -> Seq(Text)] : Picks(es, t, f)
<1> DEFINE Good(k, f) == \A i \in 0 .. k :
             f[i] = IF i = 0 THEN << >>
                    ELSE IF es[i].mtype = t THEN Append(f[i - 1], es[i].mtext) ELSE f[i - 1]
           S == {k \in 0 .. Len(es) : \E f \in [0 .. k -> Seq(Text)] : Good(k, f)}
<1>1. 0 \in S
  <2>1. [i \in 0 .. 0 |-> << >>] \in [0 .. 0 -> Seq(Text)] /\ Good(0, [i \in 0 .. 0 |-> << >>])
    OBVIOUS
  <2>2. 0 \in 0 .. Len(es)
    OBVIOUS
  <2> HIDE DEF Good
  <2> QED
    BY <2>1, <2>2
<1>2. ASSUME NEW k \in 0 .. Len(es) - 1, k \in S PROVE k + 1 \in S
  <2>1. PICK f \in [0 .. k -> Seq(Text)] : Good(k, f)
    BY <1>2
  <2> DEFINE x == IF es[k + 1].mtype = t THEN Append(f[k], es[k + 1].mtext) ELSE f[k]
             g == [i \in 0 .. k + 1 |-> IF i = k + 1 THEN x ELSE f[i]]
  <2>2. x \in Seq(Text)
    <3>1. k + 1 \in 1 .. Len(es) /\ k \in 0 .. k
      OBVIOUS
    <3>2. es[k + 1].mtext \in Text
      BY <3>1, EntryAt DEF Entry
    <3> QED
      BY <3>1, <3>2
  <2>3. g \in [0 .. k + 1 -> Seq(Text)]
    <3> HIDE DEF x
    <3> QED
      BY <2>2
  <2>4. ASSUME NEW i \in 0 .. k + 1
        PROVE  g[i] = IF i = 0 THEN << >>
                      ELSE IF es[i].mtype = t THEN Append(g[i - 1], es[i].mtext) ELSE g[i - 1]
    <3> HIDE DEF x
    <3>1. CASE i = k + 1
      <4>1. g[i] = x /\ g[i - 1] = f[k] /\ i # 0
        BY <3>1
      <4> HIDE DEF g
      <4> QED
        BY <3>1, <4>1 DEF x
    <3>2. CASE i # k + 1
      <4>1. g[i] = f[i] /\ (i # 0 => g[i - 1] = f[i - 1]) /\ i \in 0 .. k
        BY <3>2
      <4> HIDE DEF g
      <4> QED
        BY <2>1, <4>1
    <3> QED
      BY <3>1, <3>2
  <2>5. Good(k + 1, g)
    BY <2>4
  <2>6. k + 1 \in 0 .. Len(es)
    OBVIOUS
  <2> HIDE DEF g, Good
  <2> QED
    BY <2>3, <2>5, <2>6
<1>3. Len(es) \in Nat
  OBVIOUS
<1>4. Len(es) \in S
  <2> HIDE DEF S
  <2>1. \A k \in 0 .. Len(es) - 1 : k \in S => k + 1 \in S
    BY <1>2
  <2>2. \A k \in 0 .. Len(es) : k \in S
    BY <1>1, <1>3, <2>1, IntervalInduction
  <2> QED
    BY <1>3, <2>2
<1>5. \E f \in [0 .. Len(es) -> Seq(Text)] : Good(Len(es), f)
  BY <1>4
<1> QED
  BY <1>5 DEF Picks

(* The texts of a type are what any function with the recurrence holds at the end. *)
LEMMA TypedIs ==
  ASSUME NEW es \in Seq(Entry), NEW t, NEW f, Picks(es, t, f)
  PROVE  ofType(es, t) = f[Len(es)]
<1> DEFINE n == Len(es)
           h == CHOOSE g : g = [i \in 0 .. Len(es) |->
                  IF i = 0 THEN << >>
                  ELSE IF es[i].mtype = t THEN Append(g[i - 1], es[i].mtext) ELSE g[i - 1]]
<1>1. ofType(es, t) = h[Len(es)]
  BY Zenon DEF ofType
<1>2. PICK k \in [0 .. n -> Seq(Text)] : Picks(es, t, k)
  BY PicksExist
<1>3. k = [i \in 0 .. n |->
            IF i = 0 THEN << >>
            ELSE IF es[i].mtype = t THEN Append(k[i - 1], es[i].mtext) ELSE k[i - 1]]
  BY <1>2 DEF Picks
<1>4. h = [i \in 0 .. n |->
            IF i = 0 THEN << >>
            ELSE IF es[i].mtype = t THEN Append(h[i - 1], es[i].mtext) ELSE h[i - 1]]
  BY <1>3, Zenon
<1> HIDE DEF h
<1> DEFINE S == {i \in 0 .. n : h[i] = f[i]}
<1>5. n \in Nat
  OBVIOUS
<1>6. 0 \in S
  BY <1>4, <1>5 DEF Picks
<1>7. ASSUME NEW i \in 0 .. n - 1, i \in S PROVE i + 1 \in S
  <2>1. i + 1 \in 0 .. n /\ i + 1 # 0 /\ (i + 1) - 1 = i
    OBVIOUS
  <2>2. h[i + 1] = IF es[i + 1].mtype = t THEN Append(h[i], es[i + 1].mtext) ELSE h[i]
    BY <1>4, <2>1
  <2>3. f[i + 1] = IF es[i + 1].mtype = t THEN Append(f[i], es[i + 1].mtext) ELSE f[i]
    BY <2>1 DEF Picks
  <2> QED
    BY <1>7, <2>1, <2>2, <2>3
<1>8. n \in S
  <2> HIDE DEF S, n
  <2>1. \A i \in 0 .. n - 1 : i \in S => i + 1 \in S
    BY <1>7
  <2>2. \A i \in 0 .. n : i \in S
    BY <1>5, <1>6, <2>1, IntervalInduction
  <2> QED
    BY <1>5, <2>2
<1> QED
  BY <1>1, <1>8

(* An empty list holds no texts. *)
LEMMA TypedEmpty == ASSUME NEW t PROVE ofType(<< >>, t) = << >>
<1>1. Picks(<< >>, t, [i \in {0} |-> << >>])
  BY DEF Picks
<1> QED
  BY <1>1, TypedIs

(* A new entry goes to the end of its type's texts. *)
LEMMA TypedAppend ==
  ASSUME NEW es \in Seq(Entry), NEW e \in Entry, NEW t
  PROVE  /\ ofType(es, t) \in Seq(Text)
         /\ ofType(Append(es, e), t) =
              IF e.mtype = t THEN Append(ofType(es, t), e.mtext) ELSE ofType(es, t)
<1>1. PICK f \in [0 .. Len(es) -> Seq(Text)] : Picks(es, t, f)
  BY PicksExist
<1> DEFINE n == Len(es)
           x == IF e.mtype = t THEN Append(f[n], e.mtext) ELSE f[n]
           g == [i \in 0 .. n + 1 |-> IF i = n + 1 THEN x ELSE f[i]]
<1>2. Append(es, e) \in Seq(Entry) /\ Len(Append(es, e)) = n + 1
  OBVIOUS
<1>6. \A i \in 1 .. n :
        f[i] = IF es[i].mtype = t THEN Append(f[i - 1], es[i].mtext) ELSE f[i - 1]
  BY <1>1, PickAt
<1>3. Picks(Append(es, e), t, g)
  <2> HIDE DEF x
  <2> SUFFICES ASSUME NEW i \in 0 .. n + 1
               PROVE  g[i] = IF i = 0 THEN << >>
                             ELSE IF Append(es, e)[i].mtype = t
                                    THEN Append(g[i - 1], Append(es, e)[i].mtext) ELSE g[i - 1]
    BY <1>2 DEF Picks
  <2>1. CASE i = n + 1
    <3>1. g[i] = x /\ g[i - 1] = f[n] /\ i # 0 /\ Append(es, e)[i] = e
      BY <2>1
    <3> HIDE DEF g
    <3> QED
      BY <3>1 DEF x
  <2>2. CASE i \in 1 .. n
    <3>1. g[i] = f[i] /\ g[i - 1] = f[i - 1] /\ i # 0 /\ Append(es, e)[i] = es[i]
      BY <2>2
    <3>2. f[i] = IF es[i].mtype = t THEN Append(f[i - 1], es[i].mtext) ELSE f[i - 1]
      BY <1>6, <2>2
    <3> HIDE DEF g
    <3> QED
      BY <3>1, <3>2
  <2>3. CASE i = 0
    BY <1>1, <2>3 DEF Picks
  <2> QED
    BY <2>1, <2>2, <2>3
<1>4. ofType(Append(es, e), t) = g[n + 1] /\ ofType(es, t) = f[n]
  BY <1>1, <1>2, <1>3, TypedIs
<1>5. g[n + 1] = x /\ n \in 0 .. n
  OBVIOUS
<1> HIDE DEF g
<1> QED
  BY <1>4, <1>5

(* An entry that leaves the list is not missed by the other types. *)
LEMMA TypedRemoveOther ==
  ASSUME NEW es \in Seq(Entry), NEW k \in 1 .. Len(es), NEW t, es[k].mtype # t
  PROVE  ofType(unlink(es, k), t) = ofType(es, t)
<1>1. PICK f \in [0 .. Len(es) -> Seq(Text)] : Picks(es, t, f)
  BY PicksExist
<1> DEFINE n == Len(es)
           r == unlink(es, k)
           g == [i \in 0 .. n - 1 |-> IF i < k THEN f[i] ELSE f[i + 1]]
<1>2. r \in Seq(Entry) /\ Len(r) = n - 1
  BY UnlinkIs
<1>3. \A i \in 1 .. n - 1 : r[i] = IF i < k THEN es[i] ELSE es[i + 1]
  BY UnlinkIs
<1>4. \A i \in 1 .. n :
        f[i] = IF es[i].mtype = t THEN Append(f[i - 1], es[i].mtext) ELSE f[i - 1]
  BY <1>1, PickAt
<1>5. f[0] = << >>
  BY <1>1 DEF Picks
<1>6. f[k] = f[k - 1]
  BY <1>4
<1> HIDE DEF r
<1>7. Picks(r, t, g)
  <2>1. ASSUME NEW i \in 1 .. n - 1
        PROVE  g[i] = IF r[i].mtype = t THEN Append(g[i - 1], r[i].mtext) ELSE g[i - 1]
    <3>1. CASE i < k
      <4>1. r[i] = es[i] /\ g[i] = f[i] /\ g[i - 1] = f[i - 1]
        BY <1>3, <3>1
      <4> QED
        BY <1>4, <4>1
    <3>2. CASE i >= k
      <4>1. r[i] = es[i + 1] /\ g[i] = f[i + 1] /\ g[i - 1] = f[i]
        BY <1>3, <1>6, <3>2
      <4>2. i + 1 \in 1 .. n /\ (i + 1) - 1 = i
        OBVIOUS
      <4> HIDE DEF g
      <4> QED
        BY <1>4, <4>1, <4>2
    <3> QED
      BY <3>1, <3>2
  <2>2. g[0] = << >>
    BY <1>5
  <2> HIDE DEF g
  <2> QED
    BY <1>2, <2>1, <2>2 DEF Picks
<1>8. ofType(r, t) = g[n - 1] /\ ofType(es, t) = f[n]
  BY <1>1, <1>2, <1>7, TypedIs
<1>9. g[n - 1] = f[n]
  <2>1. CASE k = n
    BY <1>6, <2>1
  <2>2. CASE k < n
    <3>1. n - 1 \in 0 .. n - 1 /\ ~(n - 1 < k) /\ (n - 1) + 1 = n
      BY <2>2
    <3> QED
      BY <3>1
  <2> QED
    BY <2>1, <2>2
<1> QED
  BY <1>8, <1>9 DEF r

(* The first entry of a type is the head of that type's texts. *)
LEMMA TypedRemoveFirst ==
  ASSUME NEW es \in Seq(Entry), NEW k \in 1 .. Len(es), NEW t, es[k].mtype = t,
         \A j \in 1 .. k - 1 : es[j].mtype # t
  PROVE  /\ ofType(es, t) # << >>
         /\ ofType(unlink(es, k), t) = Tail(ofType(es, t))
<1>1. PICK f \in [0 .. Len(es) -> Seq(Text)] : Picks(es, t, f)
  BY PicksExist
<1> DEFINE n == Len(es)
           r == unlink(es, k)
           g == [i \in 0 .. n - 1 |-> IF i < k THEN f[i] ELSE Tail(f[i + 1])]
<1>2. r \in Seq(Entry) /\ Len(r) = n - 1
  BY UnlinkIs
<1>3. \A i \in 1 .. n - 1 : r[i] = IF i < k THEN es[i] ELSE es[i + 1]
  BY UnlinkIs
<1>4. \A i \in 1 .. n :
        f[i] = IF es[i].mtype = t THEN Append(f[i - 1], es[i].mtext) ELSE f[i - 1]
  BY <1>1, PickAt
<1>5. f[0] = << >>
  BY <1>1 DEF Picks
<1>6. n \in Nat /\ k \in 1 .. n
  OBVIOUS
<1>7. \A i \in 0 .. n : f[i] \in Seq(Text)
  OBVIOUS
<1> HIDE DEF r, n
<1>8. \A i \in 0 .. k - 1 : f[i] = << >>
  <2> DEFINE S == {i \in 0 .. k - 1 : f[i] = << >>}
  <2>1. 0 \in S
    BY <1>5, <1>6
  <2>2. ASSUME NEW i \in 0 .. (k - 1) - 1, i \in S PROVE i + 1 \in S
    <3>1. i + 1 \in 1 .. n /\ i + 1 \in 1 .. k - 1 /\ (i + 1) - 1 = i
      BY <1>6
    <3> QED
      BY <1>4, <2>2, <3>1
  <2>3. k - 1 \in Nat
    BY <1>6
  <2> HIDE DEF S
  <2>4. \A i \in 0 .. (k - 1) - 1 : i \in S => i + 1 \in S
    BY <2>2
  <2>5. \A i \in 0 .. k - 1 : i \in S
    BY <2>1, <2>3, <2>4, IntervalInduction
  <2> QED
    BY <2>5 DEF S
<1>9. f[k] = <<es[k].mtext>> /\ f[k] # << >>
  <2>1. f[k] = Append(f[k - 1], es[k].mtext)
    BY <1>4, <1>6
  <2>2. f[k - 1] = << >>
    BY <1>6, <1>8
  <2> QED
    BY <2>1, <2>2
<1>10. \A i \in k .. n : f[i] # << >>
  <2> DEFINE S == {i \in 0 .. n - k : f[k + i] # << >>}
  <2>1. 0 \in S
    BY <1>6, <1>9
  <2>2. ASSUME NEW i \in 0 .. (n - k) - 1, i \in S PROVE i + 1 \in S
    <3>1. k + (i + 1) \in 1 .. n /\ (k + (i + 1)) - 1 = k + i /\ i + 1 \in 0 .. n - k /\ k + i \in 0 .. n
      BY <1>6
    <3>2. f[k + i] \in Seq(Text) /\ f[k + i] # << >>
      BY <1>7, <2>2, <3>1
    <3>3. f[k + (i + 1)] = IF es[k + (i + 1)].mtype = t
                             THEN Append(f[k + i], es[k + (i + 1)].mtext) ELSE f[k + i]
      BY <1>4, <3>1
    <3>4. Append(f[k + i], es[k + (i + 1)].mtext) # << >>
      <4>1. es[k + (i + 1)].mtext \in Text
        BY <3>1, EntryAt DEF Entry, n
      <4> QED
        BY <3>2, <4>1, AppendNotEmpty
    <3>5. f[k + (i + 1)] # << >>
      BY <3>2, <3>3, <3>4, Zenon
    <3> QED
      BY <3>1, <3>5
  <2>3. n - k \in Nat
    BY <1>6
  <2>4. \A i \in 0 .. n - k : i \in S
    <3> HIDE DEF S
    <3>1. \A i \in 0 .. (n - k) - 1 : i \in S => i + 1 \in S
      BY <2>2
    <3> QED
      BY <2>1, <2>3, <3>1, IntervalInduction
  <2>5. ASSUME NEW i \in k .. n PROVE f[i] # << >>
    <3>1. i - k \in 0 .. n - k /\ k + (i - k) = i
      BY <1>6
    <3>2. i - k \in S
      BY <2>4, <3>1
    <3> QED
      BY <3>1, <3>2
  <2> QED
    BY <2>5
<1>11. Picks(r, t, g)
  <2>1. ASSUME NEW i \in 1 .. n - 1
        PROVE  g[i] = IF r[i].mtype = t THEN Append(g[i - 1], r[i].mtext) ELSE g[i - 1]
    <3>1. CASE i < k
      <4>1. r[i] = es[i] /\ g[i] = f[i] /\ g[i - 1] = f[i - 1]
        BY <1>3, <1>6, <3>1
      <4>2. i \in 1 .. n
        BY <1>6
      <4> HIDE DEF g
      <4> QED
        BY <1>4, <4>1, <4>2
    <3>2. CASE i >= k
      <4>1. r[i] = es[i + 1] /\ g[i] = Tail(f[i + 1])
        BY <1>3, <1>6, <3>2
      <4>2. i + 1 \in 1 .. n /\ (i + 1) - 1 = i /\ i \in k .. n /\ i \in 0 .. n
        BY <1>6, <3>2
      <4>3. g[i - 1] = Tail(f[i])
        <5>1. CASE i = k
          <6>1. g[i - 1] = << >>
            BY <1>6, <1>8, <5>1
          <6>2. Tail(f[k]) = << >>
            BY <1>9
          <6> QED
            BY <5>1, <6>1, <6>2
        <5>2. CASE i > k
          <6>1. i - 1 \in 0 .. n - 1 /\ ~(i - 1 < k) /\ (i - 1) + 1 = i
            BY <1>6, <5>2
          <6> QED
            BY <6>1
        <5> QED
          BY <1>6, <3>2, <5>1, <5>2
      <4>4. f[i] \in Seq(Text) /\ f[i] # << >>
        BY <1>7, <1>10, <4>2
      <4>5. f[i + 1] = IF es[i + 1].mtype = t THEN Append(f[i], es[i + 1].mtext) ELSE f[i]
        BY <1>4, <4>2
      <4>6. Tail(Append(f[i], es[i + 1].mtext)) = Append(Tail(f[i]), es[i + 1].mtext)
        BY <4>4, HeadTailAppend
      <4> HIDE DEF g
      <4> QED
        BY <4>1, <4>3, <4>5, <4>6, Zenon
    <3> QED
      BY <1>6, <3>1, <3>2
  <2>2. g[0] = << >>
    BY <1>5, <1>6
  <2> HIDE DEF g
  <2>3. ASSUME NEW i \in 0 .. n - 1
        PROVE  g[i] = IF i = 0 THEN << >>
                      ELSE IF r[i].mtype = t THEN Append(g[i - 1], r[i].mtext) ELSE g[i - 1]
    <3>1. i = 0 \/ i \in 1 .. n - 1
      OBVIOUS
    <3> QED
      BY <2>1, <2>2, <3>1
  <2> QED
    BY <1>2, <2>3 DEF Picks
<1>12. ofType(r, t) = g[n - 1] /\ ofType(es, t) = f[n]
  BY <1>1, <1>2, <1>11, TypedIs DEF n
<1>13. g[n - 1] = Tail(f[n])
  <2>1. CASE k = n
    <3>1. g[n - 1] = << >>
      BY <1>6, <1>8, <2>1
    <3>2. Tail(f[k]) = << >>
      BY <1>9
    <3> QED
      BY <2>1, <3>1, <3>2
  <2>2. CASE k < n
    <3>1. n - 1 \in 0 .. n - 1 /\ ~(n - 1 < k) /\ (n - 1) + 1 = n
      BY <1>6, <2>2
    <3> QED
      BY <3>1
  <2> QED
    BY <1>6, <2>1, <2>2
<1>14. f[n] # << >>
  BY <1>6, <1>10
<1> QED
  BY <1>12, <1>13, <1>14 DEF r

-----------------------------------------------------------------------------
(* Message queues: the books *)

MsgInv == MsgTypeOK /\ QueueAccounting

(* A process outside the calls is in no waiting loop. *)
LEMMA RunningCall == Running \in Calls
  BY DEF Calls

(* The counters of a queue are naturals. *)
LEMMA MsqTypes ==
  ASSUME MsgTypeOK, NEW q \in Qid
  PROVE  /\ msg_queues[q] \in MsqId /\ msg_entries[q] \in Seq(Entry)
         /\ msg_queues[q].msg_count \in Nat /\ msg_queues[q].current_bytes \in Nat
         /\ msg_queues[q].max_bytes \in Nat
<1>1. msg_queues[q] \in MsqId /\ msg_entries[q] \in Seq(Entry)
  BY DEF MsgTypeOK
<1>2. msg_queues[q].max_bytes \in {0, MAX_BYTES}
  BY <1>1 DEF MsqId
<1> QED
  BY <1>1, <1>2, MsgAssumption DEF MsqId

(* msg_init establishes the invariant. *)
LEMMA MsgInit == msg_init => MsgInv
<1> SUFFICES ASSUME msg_init PROVE MsgInv
  OBVIOUS
<1>1. MsgTypeOK
  BY MsgAssumption, RunningCall DEF msg_init, MsgTypeOK, NoQueue, MsqId
<1>2. QueueAccounting
  BY BytesEmpty, MsgAssumption DEF msg_init, QueueAccounting, NoQueue
<1> QED
  BY <1>1, <1>2 DEF MsgInv

(* An entry that fits is counted as it is appended. *)
LEMMA EnqueueKeeps ==
  ASSUME MsgInv, NEW p \in Proc, NEW q \in Qid, NEW e \in Entry,
         ~full(q, e), enqueue(p, q, e)
  PROVE  MsgInv'
<1>1. e.msize \in Nat
  BY MsgAssumption DEF Entry
<1>2. msg_entries[q] \in Seq(Entry)
  BY DEF MsgInv, MsgTypeOK
<1>3. bytes(Append(msg_entries[q], e)) = bytes(msg_entries[q]) + e.msize
  BY <1>2, BytesAppend
<1>4. MsgTypeOK'
  <2>1. Append(msg_entries[q], e) \in Seq(Entry)
    BY <1>2
  <2>2. msg_pc' \in [Proc -> Calls]
    BY RunningCall DEF MsgInv, MsgTypeOK, enqueue, resume
  <2>3. msg_entries' \in [Qid -> Seq(Entry)]
    BY <2>1 DEF MsgInv, MsgTypeOK, enqueue, append
  <2>4. msg_queues' \in [Qid -> MsqId]
    <3>1. [msg_queues[q] EXCEPT !.msg_count = @ + 1, !.current_bytes = @ + e.msize] \in MsqId
      <4>1. /\ msg_queues[q].msg_count + 1 \in Nat
            /\ msg_queues[q].current_bytes + e.msize \in Nat
        BY <1>1, MsqTypes DEF MsgInv
      <4> QED
        BY <4>1, MsqTypes DEF MsgInv, MsqId
    <3> QED
      BY <3>1 DEF MsgInv, MsgTypeOK, enqueue
  <2> QED
    BY <2>2, <2>3, <2>4 DEF MsgInv, MsgTypeOK, enqueue
<1>5. ASSUME NEW r \in Qid
      PROVE  /\ msg_queues'[r].msg_count = Len(msg_entries'[r])
             /\ msg_queues'[r].current_bytes = bytes(msg_entries'[r])
             /\ msg_queues'[r].current_bytes <= msg_queues'[r].max_bytes
  <2>1. CASE r = q
    <3>1. msg_entries'[q] = Append(msg_entries[q], e)
      BY DEF enqueue, append, MsgInv, MsgTypeOK
    <3>2. /\ msg_queues'[q].msg_count = msg_queues[q].msg_count + 1
          /\ msg_queues'[q].current_bytes = msg_queues[q].current_bytes + e.msize
          /\ msg_queues'[q].max_bytes = msg_queues[q].max_bytes
      BY MsqTypes DEF enqueue, MsgInv, MsgTypeOK, MsqId
    <3>3. msg_queues[q].max_bytes \in Nat /\ msg_queues[q].current_bytes \in Nat
      BY MsqTypes DEF MsgInv
    <3>4. Len(msg_entries'[q]) = Len(msg_entries[q]) + 1
      BY <1>2, <3>1
    <3> QED
      BY <1>1, <1>3, <2>1, <3>1, <3>2, <3>3, <3>4 DEF full, MsgInv, QueueAccounting
  <2>2. CASE r # q
    <3>1. msg_queues'[r] = msg_queues[r] /\ msg_entries'[r] = msg_entries[r]
      BY <2>2 DEF enqueue, append, MsgInv, MsgTypeOK
    <3> QED
      BY <3>1 DEF MsgInv, QueueAccounting
  <2> QED
    BY <2>1, <2>2
<1> QED
  BY <1>4, <1>5 DEF MsgInv, QueueAccounting

(* An entry is counted off as it leaves the list. *)
LEMMA DequeueKeeps ==
  ASSUME MsgInv, NEW p \in Proc, NEW q \in Qid, NEW i \in 1 .. Len(msg_entries[q]),
         dequeue(p, q, i)
  PROVE  MsgInv'
<1> DEFINE es == msg_entries[q]
<1>1. es \in Seq(Entry)
  BY DEF MsgInv, MsgTypeOK
<1>2. es[i].msize \in Nat
  BY <1>1, EntryAt
<1>3. /\ unlink(es, i) \in Seq(Entry)
      /\ Len(unlink(es, i)) = Len(es) - 1
  BY <1>1, UnlinkIs
<1>4. bytes(unlink(es, i)) = bytes(es) - es[i].msize
  BY <1>1, BytesRemove
<1>5. bytes(unlink(es, i)) \in Nat
  BY <1>3, BytesType
<1>6. /\ msg_queues[q].msg_count = Len(es) /\ msg_queues[q].current_bytes = bytes(es)
      /\ msg_queues[q].current_bytes <= msg_queues[q].max_bytes
      /\ msg_queues[q].msg_count \in Nat /\ msg_queues[q].current_bytes \in Nat
      /\ msg_queues[q].max_bytes \in Nat
  BY MsqTypes DEF MsgInv, QueueAccounting
<1>7. msg_entries' = [msg_entries EXCEPT ![q] = unlink(es, i)]
  BY DEF dequeue
<1>8. msg_queues' = [msg_queues EXCEPT ![q].msg_count = @ - 1,
                                       ![q].current_bytes = @ - es[i].msize]
  BY DEF dequeue
<1> HIDE DEF es
<1>9. MsgTypeOK'
  <2>1. msg_pc' \in [Proc -> Calls]
    BY RunningCall DEF MsgInv, MsgTypeOK, dequeue, resume
  <2>2. msg_entries' \in [Qid -> Seq(Entry)]
    BY <1>3, <1>7 DEF MsgInv, MsgTypeOK
  <2>3. msg_queues[q].msg_count - 1 \in Nat /\ msg_queues[q].current_bytes - es[i].msize \in Nat
    BY <1>1, <1>3, <1>4, <1>5, <1>6 DEF es
  <2>4. msg_queues' \in [Qid -> MsqId]
    <3>1. [msg_queues[q] EXCEPT !.msg_count = @ - 1, !.current_bytes = @ - es[i].msize] \in MsqId
      BY <2>3, MsqTypes DEF MsgInv, MsqId
    <3> QED
      BY <1>8, <3>1 DEF MsgInv, MsgTypeOK
  <2> QED
    BY <2>1, <2>2, <2>4 DEF MsgInv, MsgTypeOK, dequeue
<1>10. ASSUME NEW r \in Qid
       PROVE  /\ msg_queues'[r].msg_count = Len(msg_entries'[r])
              /\ msg_queues'[r].current_bytes = bytes(msg_entries'[r])
              /\ msg_queues'[r].current_bytes <= msg_queues'[r].max_bytes
  <2>1. CASE r = q
    <3>1. msg_entries'[q] = unlink(es, i)
      BY <1>7 DEF MsgInv, MsgTypeOK
    <3>2. /\ msg_queues'[q].msg_count = msg_queues[q].msg_count - 1
          /\ msg_queues'[q].current_bytes = msg_queues[q].current_bytes - es[i].msize
          /\ msg_queues'[q].max_bytes = msg_queues[q].max_bytes
      BY <1>8, MsqTypes DEF MsgInv, MsgTypeOK, MsqId
    <3> QED
      BY <1>2, <1>3, <1>4, <1>6, <2>1, <3>1, <3>2
  <2>2. CASE r # q
    <3>1. msg_queues'[r] = msg_queues[r] /\ msg_entries'[r] = msg_entries[r]
      BY <1>7, <1>8, <2>2 DEF MsgInv, MsgTypeOK
    <3> QED
      BY <3>1 DEF MsgInv, QueueAccounting
  <2> QED
    BY <2>1, <2>2
<1> QED
  BY <1>9, <1>10 DEF MsgInv, QueueAccounting

(* What a waiting call was called with. *)
LEMMA CallTypes ==
  ASSUME MsgTypeOK, NEW p \in Proc
  PROVE  /\ msg_pc[p].at = "send" => msg_pc[p].q \in Qid /\ msg_pc[p].e \in Entry
         /\ msg_pc[p].at = "recv" => msg_pc[p].q \in Qid /\ msg_pc[p].t \in Wanted
<1>1. msg_pc[p] \in Calls
  BY DEF MsgTypeOK
<1>2. CASE msg_pc[p] = Running
  BY <1>2 DEF Running
<1>3. CASE \E q \in Qid, e \in Entry : msg_pc[p] = Sending(q, e)
  BY <1>3 DEF Sending
<1>4. CASE \E q \in Qid, t \in Wanted : msg_pc[p] = Receiving(q, t)
  BY <1>4 DEF Receiving
<1> QED
  BY <1>1, <1>2, <1>3, <1>4 DEF Calls

(* A step that touches neither the queues nor the lists. *)
LEMMA MsgFrame ==
  ASSUME MsgInv, UNCHANGED <<msg_queues, msg_entries, msg_count>>, msg_pc' \in [Proc -> Calls]
  PROVE  MsgInv'
  BY DEF MsgInv, MsgTypeOK, QueueAccounting

(* A process goes on in a call, or returns. *)
LEMMA ResumeCall ==
  ASSUME MsgInv, NEW p \in Proc, NEW c \in Calls, resume(p, c)
  PROVE  msg_pc' \in [Proc -> Calls]
  BY DEF MsgInv, MsgTypeOK, resume

(* The first match leaves, or the call fails. *)
LEMMA ReceiveKeeps ==
  ASSUME MsgInv, NEW p \in Proc, NEW q \in Qid, NEW t, receive(p, q, t)
  PROVE  MsgInv'
<1>1. ASSUME NEW i \in DOMAIN msg_entries[q], dequeue(p, q, i) PROVE MsgInv'
  <2>1. msg_entries[q] \in Seq(Entry)
    BY DEF MsgInv, MsgTypeOK
  <2>2. i \in 1 .. Len(msg_entries[q])
    BY <2>1
  <2> QED
    BY <1>1, <2>2, DequeueKeeps
<1>2. ASSUME resume(p, Running), UNCHANGED <<msg_queues, msg_entries, msg_count>> PROVE MsgInv'
  BY <1>2, RunningCall, ResumeCall, MsgFrame
<1> QED
  BY <1>1, <1>2 DEF receive

(* A queue that is made or removed is empty. *)
LEMMA ClearKeeps ==
  ASSUME MsgInv, NEW q \in Qid, NEW v \in MsqId, v.msg_count = 0, v.current_bytes = 0,
         msg_entries' = [msg_entries EXCEPT ![q] = << >>],
         msg_queues' = [msg_queues EXCEPT ![q] = v],
         msg_count' \in 0 .. MSG_MAX, UNCHANGED msg_pc
  PROVE  MsgInv'
<1>1. MsgTypeOK'
  <2>1. << >> \in Seq(Entry)
    OBVIOUS
  <2> QED
    BY <2>1 DEF MsgInv, MsgTypeOK
<1>2. v.max_bytes \in Nat
  <2>1. v.max_bytes \in {0, MAX_BYTES}
    BY DEF MsqId
  <2> QED
    BY <2>1, MsgAssumption
<1>3. ASSUME NEW r \in Qid
      PROVE  /\ msg_queues'[r].msg_count = Len(msg_entries'[r])
             /\ msg_queues'[r].current_bytes = bytes(msg_entries'[r])
             /\ msg_queues'[r].current_bytes <= msg_queues'[r].max_bytes
  <2>1. CASE r = q
    <3>1. msg_queues'[r] = v /\ msg_entries'[r] = << >>
      BY <2>1 DEF MsgInv, MsgTypeOK
    <3> QED
      BY <1>2, <3>1, BytesEmpty
  <2>2. CASE r # q
    <3>1. msg_queues'[r] = msg_queues[r] /\ msg_entries'[r] = msg_entries[r]
      BY <2>2 DEF MsgInv, MsgTypeOK
    <3> QED
      BY <3>1 DEF MsgInv, QueueAccounting
  <2> QED
    BY <2>1, <2>2
<1> QED
  BY <1>1, <1>3 DEF MsgInv, QueueAccounting

(* Every call, and every waiting loop that goes round, keeps the invariant. *)
LEMMA MsgStep == MsgInv /\ [MsgNext]_msgVars => MsgInv'
<1> SUFFICES ASSUME MsgInv, [MsgNext]_msgVars PROVE MsgInv'
  OBVIOUS
<1>1. ASSUME NEW p \in Proc, NEW key \in MsgKey \cup {IPC_PRIVATE}, msg_get(p, key) PROVE MsgInv'
  <2> DEFINE v == [NoQueue EXCEPT !.key = key, !.max_bytes = MAX_BYTES]
  <2>1. v \in MsqId /\ v.msg_count = 0 /\ v.current_bytes = 0
    BY DEF NoQueue, MsqId
  <2>2. msg_count \in Qid /\ msg_count' \in 0 .. MSG_MAX
    BY <1>1, MsgAssumption DEF msg_get, MsgInv, MsgTypeOK, Qid
  <2>3. /\ msg_entries' = [msg_entries EXCEPT ![msg_count] = << >>]
        /\ msg_queues' = [msg_queues EXCEPT ![msg_count] = v]
        /\ UNCHANGED msg_pc
    BY <1>1 DEF msg_get
  <2> HIDE DEF v
  <2> QED
    BY <2>1, <2>2, <2>3, ClearKeeps
<1>2. ASSUME NEW p \in Proc, NEW q \in Qid, NEW e \in Entry, msg_send(p, q, e) PROVE MsgInv'
  <2>1. CASE ~full(q, e) /\ enqueue(p, q, e)
    BY <2>1, EnqueueKeeps
  <2>2. CASE resume(p, Sending(q, e)) /\ UNCHANGED <<msg_queues, msg_entries, msg_count>>
    <3>1. Sending(q, e) \in Calls
      BY DEF Calls
    <3> QED
      BY <2>2, <3>1, ResumeCall, MsgFrame
  <2> QED
    BY <1>2, <2>1, <2>2 DEF msg_send
<1>3. ASSUME NEW p \in Proc, NEW q \in Qid, NEW t \in Wanted, msg_recv(p, q, t) PROVE MsgInv'
  <2>1. CASE receive(p, q, t)
    BY <2>1, ReceiveKeeps
  <2>2. CASE resume(p, Receiving(q, t)) /\ UNCHANGED <<msg_queues, msg_entries, msg_count>>
    <3>1. Receiving(q, t) \in Calls
      BY DEF Calls
    <3> QED
      BY <2>2, <3>1, ResumeCall, MsgFrame
  <2> QED
    BY <1>3, <2>1, <2>2 DEF msg_recv
<1>4. ASSUME NEW p \in Proc, NEW q \in Qid, msg_ctl(p, q) PROVE MsgInv'
  <2>1. NoQueue \in MsqId /\ NoQueue.msg_count = 0 /\ NoQueue.current_bytes = 0
    BY DEF NoQueue, MsqId
  <2>2. /\ msg_entries' = [msg_entries EXCEPT ![q] = << >>]
        /\ msg_queues' = [msg_queues EXCEPT ![q] = NoQueue]
        /\ msg_count' \in 0 .. MSG_MAX /\ UNCHANGED msg_pc
    BY <1>4 DEF msg_ctl, MsgInv, MsgTypeOK
  <2> QED
    BY <2>1, <2>2, ClearKeeps
<1>5. ASSUME NEW p \in Proc, msg_send_resume(p) PROVE MsgInv'
  <2>1. msg_pc[p].q \in Qid /\ msg_pc[p].e \in Entry /\ ~full(msg_pc[p].q, msg_pc[p].e)
    BY <1>5, CallTypes DEF msg_send_resume, MsgInv
  <2>2. CASE enqueue(p, msg_pc[p].q, msg_pc[p].e)
    BY <2>1, <2>2, EnqueueKeeps
  <2>3. CASE resume(p, Running) /\ UNCHANGED <<msg_queues, msg_entries, msg_count>>
    BY <2>3, RunningCall, ResumeCall, MsgFrame
  <2> QED
    BY <1>5, <2>2, <2>3 DEF msg_send_resume
<1>6. ASSUME NEW p \in Proc, msg_recv_resume(p) PROVE MsgInv'
  <2>1. msg_pc[p].q \in Qid
    BY <1>6, CallTypes DEF msg_recv_resume, MsgInv
  <2> QED
    BY <1>6, <2>1, ReceiveKeeps DEF msg_recv_resume
<1>7. CASE UNCHANGED msgVars
  BY <1>7 DEF MsgInv, MsgTypeOK, QueueAccounting, msgVars
<1> QED
  BY <1>1, <1>2, <1>3, <1>4, <1>5, <1>6, <1>7 DEF MsgNext

(***************************************************************************)
(* msg_count and current_bytes of a queue are what its list holds, and the *)
(* list never holds more than max_bytes, whatever processes send, receive, *)
(* wait and remove, and however long the lists are.                        *)
(***************************************************************************)
THEOREM QueuesCounted == MsgSpec => []QueueAccounting
<1>1. MsgInv => QueueAccounting
  BY DEF MsgInv
<1> QED
  BY <1>1, MsgInit, MsgStep, PTL DEF MsgSpec

-----------------------------------------------------------------------------
(* Message queues: the typed channels they implement *)

(* The channels the lists stand for. *)
chans == [q \in Qid |-> [t \in Type |-> ofType(msg_entries[q], t)]]

(* Making or removing a queue empties its channels. *)
LEMMA ClearIsRemove ==
  ASSUME MsgInv, NEW q \in Qid, msg_entries' = [msg_entries EXCEPT ![q] = << >>]
  PROVE  Channels!Remove(q)
<1>1. ASSUME NEW r \in Qid
      PROVE  chans'[r] = IF r = q THEN [t \in Type |-> << >>] ELSE chans[r]
  <2>1. msg_entries'[r] = IF r = q THEN << >> ELSE msg_entries[r]
    BY DEF MsgInv, MsgTypeOK
  <2>2. CASE r = q
    BY <2>1, <2>2, TypedEmpty DEF chans
  <2>3. CASE r # q
    BY <2>1, <2>3 DEF chans
  <2> QED
    BY <2>2, <2>3
<1>2. chans' = [chans EXCEPT ![q] = [t \in Type |-> << >>]]
  BY <1>1 DEF chans
<1> QED
  BY <1>2 DEF Channels!Remove, chans

(* Appending an entry sends its text on the channel of its type. *)
LEMMA EnqueueIsSend ==
  ASSUME MsgInv, NEW q \in Qid, NEW e \in Entry, append(q, e)
  PROVE  e.mtype \in Type /\ Channels!Send(q, e.mtype)
<1>1. e.mtype \in Type /\ e.mtext \in Text
  BY DEF Entry
<1>2. msg_entries[q] \in Seq(Entry)
  BY DEF MsgInv, MsgTypeOK
<1> DEFINE longer == [chans[q] EXCEPT ![e.mtype] = Append(@, e.mtext)]
<1>3. ASSUME NEW r \in Qid PROVE chans'[r] = IF r = q THEN longer ELSE chans[r]
  <2>1. msg_entries'[r] = IF r = q THEN Append(msg_entries[q], e) ELSE msg_entries[r]
    BY DEF MsgInv, MsgTypeOK, append
  <2>2. CASE r = q
    <3>1. ASSUME NEW t \in Type PROVE chans'[q][t] = longer[t]
      <4>1. chans'[q][t] = ofType(Append(msg_entries[q], e), t) /\ chans[q][t] = ofType(msg_entries[q], t)
        BY <2>1, <2>2 DEF chans
      <4>2. ofType(Append(msg_entries[q], e), t) =
              IF e.mtype = t THEN Append(ofType(msg_entries[q], t), e.mtext) ELSE ofType(msg_entries[q], t)
        BY <1>2, TypedAppend
      <4>3. longer[t] = IF t = e.mtype THEN Append(chans[q][t], e.mtext) ELSE chans[q][t]
        BY DEF chans
      <4> QED
        BY <4>1, <4>2, <4>3
    <3>2. chans'[q] = [t \in Type |-> chans'[q][t]] /\ longer = [t \in Type |-> longer[t]]
      BY DEF chans
    <3> HIDE DEF longer
    <3> QED
      BY <2>2, <3>1, <3>2
  <2>3. CASE r # q
    BY <2>1, <2>3 DEF chans
  <2> QED
    BY <2>2, <2>3
<1>4. chans' = [r \in Qid |-> chans'[r]] /\ chans = [r \in Qid |-> chans[r]]
  BY DEF chans
<1>5. chans' = [chans EXCEPT ![q] = longer]
  <2> HIDE DEF longer
  <2> QED
    BY <1>3, <1>4
<1>6. chans' = [chans EXCEPT ![q][e.mtype] = Append(@, e.mtext)]
  BY <1>5
<1> QED
  BY <1>1, <1>6 DEF Channels!Send, chans

(* The first entry that matches is the head of the channel of its type. *)
LEMMA DequeueIsReceive ==
  ASSUME MsgInv, NEW p \in Proc, NEW q \in Qid, NEW w, NEW i \in 1 .. Len(msg_entries[q]),
         matches(msg_entries[q][i], w),
         \A j \in 1 .. i - 1 : ~matches(msg_entries[q][j], w),
         dequeue(p, q, i)
  PROVE  \E t \in Type : Channels!Receive(q, t)
<1> DEFINE es == msg_entries[q]
           k == es[i].mtype
           rest == [chans[q] EXCEPT ![k] = Tail(@)]
<1>1. es \in Seq(Entry)
  BY DEF MsgInv, MsgTypeOK
<1>2. k \in Type
  BY <1>1, EntryAt DEF Entry
<1>3. \A j \in 1 .. i - 1 : es[j].mtype # k
  BY DEF matches
<1>4. ofType(es, k) # << >> /\ ofType(unlink(es, i), k) = Tail(ofType(es, k))
  BY <1>1, <1>3, TypedRemoveFirst
<1>5. ASSUME NEW t \in Type, t # k PROVE ofType(unlink(es, i), t) = ofType(es, t)
  BY <1>1, <1>5, TypedRemoveOther
<1>6. msg_entries' = [msg_entries EXCEPT ![q] = unlink(es, i)]
  BY DEF dequeue
<1>7. ASSUME NEW r \in Qid PROVE chans'[r] = IF r = q THEN rest ELSE chans[r]
  <2>1. msg_entries'[r] = IF r = q THEN unlink(es, i) ELSE msg_entries[r]
    BY <1>6 DEF MsgInv, MsgTypeOK
  <2>2. CASE r = q
    <3>1. ASSUME NEW t \in Type PROVE chans'[q][t] = rest[t]
      <4>1. chans'[q][t] = ofType(unlink(es, i), t) /\ chans[q][t] = ofType(es, t)
        BY <2>1, <2>2 DEF chans
      <4>2. rest[t] = IF t = k THEN Tail(chans[q][t]) ELSE chans[q][t]
        BY DEF chans
      <4> HIDE DEF rest, k, es
      <4> QED
        BY <1>4, <1>5, <4>1, <4>2
    <3>2. chans'[q] = [t \in Type |-> chans'[q][t]] /\ rest = [t \in Type |-> rest[t]]
      BY DEF chans
    <3> HIDE DEF rest
    <3> QED
      BY <2>2, <3>1, <3>2
  <2>3. CASE r # q
    BY <2>1, <2>3 DEF chans
  <2> QED
    BY <2>2, <2>3
<1>8. chans' = [r \in Qid |-> chans'[r]] /\ chans = [r \in Qid |-> chans[r]]
  BY DEF chans
<1>9. chans' = [chans EXCEPT ![q] = rest]
  <2> HIDE DEF rest
  <2> QED
    BY <1>7, <1>8
<1>10. chans' = [chans EXCEPT ![q][k] = Tail(@)]
  BY <1>9
<1>11. chans[q][k] # << >>
  BY <1>2, <1>4 DEF chans
<1>12. Channels!Receive(q, k)
  BY <1>10, <1>11 DEF Channels!Receive, chans
<1> QED
  BY <1>2, <1>12

(* A receive is a receive of the channels, or changes nothing. *)
LEMMA ReceiveMaps ==
  ASSUME MsgInv, NEW p \in Proc, NEW q \in Qid, NEW w, receive(p, q, w)
  PROVE  Channels!Next \/ UNCHANGED chans
<1>1. ASSUME NEW i \in DOMAIN msg_entries[q], matches(msg_entries[q][i], w),
             \A j \in 1 .. i - 1 : ~matches(msg_entries[q][j], w), dequeue(p, q, i)
      PROVE  Channels!Next
  <2>1. msg_entries[q] \in Seq(Entry)
    BY DEF MsgInv, MsgTypeOK
  <2>2. i \in 1 .. Len(msg_entries[q])
    BY <2>1
  <2>3. \E t \in Type : Channels!Receive(q, t)
    BY <1>1, <2>2, DequeueIsReceive
  <2> QED
    BY <2>3 DEF Channels!Next
<1>2. CASE UNCHANGED msg_entries
  BY <1>2 DEF chans
<1> QED
  BY <1>1, <1>2 DEF receive

(* Every step of the queues is a step of the channels, or leaves them alone. *)
LEMMA MsgStepMaps == MsgInv /\ [MsgNext]_msgVars => Channels!Next \/ UNCHANGED chans
<1> SUFFICES ASSUME MsgInv, [MsgNext]_msgVars PROVE Channels!Next \/ UNCHANGED chans
  OBVIOUS
<1>1. ASSUME NEW p \in Proc, NEW key \in MsgKey \cup {IPC_PRIVATE}, msg_get(p, key)
      PROVE  Channels!Next
  <2>1. msg_count \in Qid
    BY <1>1, MsgAssumption DEF msg_get, MsgInv, MsgTypeOK, Qid
  <2>2. Channels!Remove(msg_count)
    BY <1>1, <2>1, ClearIsRemove DEF msg_get
  <2> QED
    BY <2>1, <2>2 DEF Channels!Next
<1>2. ASSUME NEW p \in Proc, NEW q \in Qid, NEW e \in Entry, append(q, e)
      PROVE  Channels!Next
  BY <1>2, EnqueueIsSend DEF Channels!Next
<1>3. CASE UNCHANGED msg_entries
  BY <1>3 DEF chans
<1>4. ASSUME NEW p \in Proc, NEW q \in Qid, NEW e \in Entry, msg_send(p, q, e)
      PROVE  Channels!Next \/ UNCHANGED chans
  BY <1>2, <1>3, <1>4 DEF msg_send, enqueue
<1>5. ASSUME NEW p \in Proc, NEW q \in Qid, NEW t \in Wanted, msg_recv(p, q, t)
      PROVE  Channels!Next \/ UNCHANGED chans
  BY <1>3, <1>5, ReceiveMaps DEF msg_recv
<1>6. ASSUME NEW p \in Proc, NEW q \in Qid, msg_ctl(p, q) PROVE Channels!Next
  <2>1. Channels!Remove(q)
    BY <1>6, ClearIsRemove DEF msg_ctl
  <2> QED
    BY <2>1 DEF Channels!Next
<1>7. ASSUME NEW p \in Proc, msg_send_resume(p) PROVE Channels!Next \/ UNCHANGED chans
  <2>1. msg_pc[p].q \in Qid /\ msg_pc[p].e \in Entry
    BY <1>7, CallTypes DEF msg_send_resume, MsgInv
  <2> QED
    BY <1>2, <1>3, <1>7, <2>1 DEF msg_send_resume, enqueue
<1>8. ASSUME NEW p \in Proc, msg_recv_resume(p) PROVE Channels!Next \/ UNCHANGED chans
  <2>1. msg_pc[p].q \in Qid
    BY <1>8, CallTypes DEF msg_recv_resume, MsgInv
  <2> QED
    BY <1>8, <2>1, ReceiveMaps DEF msg_recv_resume
<1>9. CASE UNCHANGED msgVars
  BY <1>3, <1>9 DEF msgVars
<1> QED
  BY <1>1, <1>4, <1>5, <1>6, <1>7, <1>8, <1>9 DEF MsgNext

(***************************************************************************)
(* The queues of ipc.c implement one FIFO channel per queue and type: what *)
(* msg_recv returns, for a type, for any type or for all up to one, is the *)
(* oldest message of its type that was sent and not received, and only a   *)
(* removed queue loses messages.                                           *)
(***************************************************************************)
THEOREM QueuesAreTypedFifos == MsgSpec => QueueIsTypedFifo
<1>1. msg_init => Channels!Init
  BY TypedEmpty DEF msg_init, Channels!Init
<1>2. MsgInv /\ [MsgNext]_msgVars => [Channels!Next]_chans
  BY MsgStepMaps
<1> QED
  BY <1>1, <1>2, MsgInit, MsgStep, PTL DEF MsgSpec, QueueIsTypedFifo, Channels!Spec, chans
=============================================================================
