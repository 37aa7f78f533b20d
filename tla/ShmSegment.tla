----------------------------- MODULE ShmSegment -----------------------------
(***************************************************************************)
(* The System V shared memory of kernel/ipc.c: get, attach, detach and     *)
(* remove, each one step under shm_lock.  All attachments live in one      *)
(* mapping context (shm_mmap_ctx); mmap_do_mmap either fails or returns an *)
(* address none of the context's areas uses (Mmap!AreasDisjoint).          *)
(***************************************************************************)
EXTENDS IpcObject, Integers, FiniteSets

CONSTANTS
  SHM_MAX,        \* entries of shm_table[]
  ShmKey,         \* keys other than IPC_PRIVATE
  Vaddr,          \* addresses of attachments
  NULL,
  MaxRef          \* bound: attachments counted on a segment

ASSUME ShmAssumption ==
  SHM_MAX \in Nat \ {0} /\ MaxRef \in Nat /\ NULL \notin Vaddr /\ IPC_PRIVATE \notin ShmKey

VARIABLES
  shm_table,      \* per segment: key, memory (0 or 1), size (0 or 1), ref_count, SHM_DEST
  mapped_vaddr,   \* per segment and process: where it is attached
  shm_count

shmVars == <<shm_table, mapped_vaddr, shm_count>>

Shmid == 0 .. SHM_MAX - 1

Segment(key, memory, size, ref_count, dest) ==
  [key |-> key, memory |-> memory, size |-> size, ref_count |-> ref_count, dest |-> dest]
NoSegment == Segment(IPC_PRIVATE, 0, 0, 0, 0)

(* A segment with another ref_count. *)
counted(seg, n) == Segment(seg.key, seg.memory, seg.size, n, seg.dest)

shm_init ==
  /\ shm_table = [s \in Shmid |-> NoSegment]
  /\ mapped_vaddr = [s \in Shmid |-> [p \in Proc |-> NULL]]
  /\ shm_count = 0

(* An existing key, removed or not, is found; no memory changes only fields beyond shm_count. *)
shm_get(key) ==
  /\ key = IPC_PRIVATE \/ \A s \in 0 .. shm_count - 1 : shm_table[s].key # key
  /\ shm_count < SHM_MAX
  /\ shm_table' = [shm_table EXCEPT ![shm_count] = Segment(key, 1, 1, 0, 0)]
  /\ mapped_vaddr' = [mapped_vaddr EXCEPT ![shm_count] = [p \in Proc |-> NULL]]
  /\ shm_count' = shm_count + 1

(* mmap_do_mmap in shm_mmap_ctx: it refuses length 0. *)
mmap_returns(size, at) ==
  /\ size > 0
  /\ at \in Vaddr
  /\ \A s \in Shmid, p \in Proc : mapped_vaddr[s][p] # at

shm_at(p, s) ==
  /\ s < shm_count
  /\ shm_table[s].ref_count < MaxRef
  /\ \/ mapped_vaddr[s][p] # NULL /\ UNCHANGED mapped_vaddr
     \/ /\ mapped_vaddr[s][p] = NULL
        /\ \E at \in Vaddr :
             /\ mmap_returns(shm_table[s].size, at)
             /\ mapped_vaddr' = [mapped_vaddr EXCEPT ![s][p] = at]
  /\ shm_table' = [shm_table EXCEPT ![s] = counted(@, @.ref_count + 1)]
  /\ UNCHANGED shm_count

(* The first segment that the process has attached at this address. *)
shm_dt(p, at) ==
  \E s \in 0 .. shm_count - 1 :
    /\ mapped_vaddr[s][p] = at
    /\ \A r \in 0 .. s - 1 : mapped_vaddr[r][p] # at
    /\ mapped_vaddr' = [mapped_vaddr EXCEPT ![s][p] = NULL]
    /\ shm_table' = [shm_table EXCEPT ![s] =
                      counted(@, IF @.ref_count > 0 THEN @.ref_count - 1 ELSE 0)]
    /\ UNCHANGED shm_count

(* Mutant: the memory of a removed segment is freed and its size kept. *)
remove_keeps_size(s) ==
  /\ s < shm_count
  /\ shm_table' = [shm_table EXCEPT ![s] =
       IF @.ref_count = 0 THEN Segment(@.key, 0, @.size, 0, @.dest)
                          ELSE Segment(@.key, @.memory, @.size, @.ref_count, 1)]
  /\ UNCHANGED <<mapped_vaddr, shm_count>>

(* shm_ctl with command 0.  Nothing looks at SHM_DEST when the last process detaches. *)
shm_ctl(s) ==
  /\ s < shm_count
  /\ shm_table' = [shm_table EXCEPT ![s] =
       IF @.ref_count = 0 THEN Segment(@.key, 0, 0, 0, @.dest)
                          ELSE Segment(@.key, @.memory, @.size, @.ref_count, 1)]
  /\ UNCHANGED <<mapped_vaddr, shm_count>>

ShmNext ==
  \/ \E key \in ShmKey \cup {IPC_PRIVATE} : shm_get(key)
  \/ \E p \in Proc, s \in Shmid : shm_at(p, s)
  \/ \E p \in Proc, at \in Vaddr : shm_dt(p, at)
  \/ \E s \in Shmid : shm_ctl(s)

ShmSpec == shm_init /\ [][ShmNext]_shmVars

-----------------------------------------------------------------------------
(* Every variable has the type of the C object it stands for. *)
ShmTypeOK ==
  /\ shm_table \in [Shmid -> [key : ShmKey \cup {IPC_PRIVATE}, memory : {0, 1}, size : {0, 1},
                              ref_count : 0 .. MaxRef, dest : {0, 1}]]
  /\ mapped_vaddr \in [Shmid -> [Proc -> Vaddr \cup {NULL}]]
  /\ shm_count \in 0 .. SHM_MAX

(* The memory of a segment is never freed while a process has it attached. *)
AttachedKeepsMemory ==
  \A s \in Shmid, p \in Proc : mapped_vaddr[s][p] # NULL => shm_table[s].memory = 1
=============================================================================
