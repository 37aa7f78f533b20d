---------------------------- MODULE Kernel_proofs ----------------------------
(***************************************************************************)
(* Proofs about four parts of the kernel, for every value of the constants *)
(* they have.                                                              *)
(* - Rcu: the stages of rcu.c never start.                                 *)
(* - Files: a process does not become root by itself.                      *)
(* - Workqueue: the accounting of a queue, for every set of work and of    *)
(*   flushing processes.                                                   *)
(* - Tasklet: the accounting of the lists, for every set of processes.     *)
(***************************************************************************)
EXTENDS Files, Workqueue, Tasklet, Rcu, TLAPS

(* The inductive invariant of rcu.c: the types are all it takes. *)
RcuInv == RcuTypeOK /\ NoGracePeriod

(* rcu_read_lock stops at MaxNesting, rcu_read_unlock at 0. *)
LEMMA NestingBounded ==
  ASSUME nesting \in [RcuProc -> 0 .. MaxNesting], NEW p \in RcuProc,
         rcu_read_lock(p) \/ rcu_read_unlock(p)
  PROVE  nesting' \in [RcuProc -> 0 .. MaxNesting]
<1>1. MaxNesting \in Nat /\ nesting[p] \in 0 .. MaxNesting
  BY RcuAssumption
<1>2. CASE rcu_read_lock(p)
  <2>1. nesting' = [nesting EXCEPT ![p] = nesting[p] + 1] /\ nesting[p] < MaxNesting
    BY <1>2 DEF rcu_read_lock
  <2>2. nesting[p] + 1 \in 0 .. MaxNesting
    BY <1>1, <2>1
  <2> QED
    BY <2>1, <2>2
<1>3. CASE rcu_read_unlock(p)
  <2>1. nesting' = [nesting EXCEPT ![p] = nesting[p] - 1] /\ nesting[p] > 0
    BY <1>3 DEF rcu_read_unlock
  <2>2. nesting[p] - 1 \in 0 .. MaxNesting
    BY <1>1, <2>1
  <2> QED
    BY <2>1, <2>2
<1> QED
  BY <1>2, <1>3

(* NoGracePeriod holds for any heads, processes and depth of nesting: the  *)
(* stages of rcu.c never start.  It is inductive with the types alone.     *)
THEOREM CallbacksNeverRun == RcuSpec => []NoGracePeriod
<1>1. rcu_init /\ srcu_init => RcuInv
  BY RcuAssumption DEF rcu_init, srcu_init, RcuInv, RcuTypeOK, NoGracePeriod
<1>2. RcuInv /\ [RcuNext]_rcuVars => RcuInv'
  <2> SUFFICES ASSUME RcuInv, [RcuNext]_rcuVars PROVE RcuInv'
    OBVIOUS
  <2> USE RcuAssumption DEF RcuInv, RcuTypeOK, NoGracePeriod, rcuOnly, srcuOnly
  <2>1. ASSUME NEW h \in RcuHead, call_rcu(h) PROVE RcuInv'
    <3>1. rcu_add_cb(h)[0] = << >> /\ rcu_add_cb(h) \in [0 .. 1 -> Seq(RcuHead)]
          /\ rcu_add_cb(h)[1] # << >>
      BY DEF rcu_add_cb
    <3>2. cbs' = rcu_add_cb(h) /\ UNCHANGED <<nesting, gp_active, passed_gp, invoked, in_barrier, srcuOnly>>
      BY <2>1, <3>1 DEF call_rcu, rcu_check_gp
    <3> QED BY <3>1, <3>2
  <2>2. ASSUME NEW p \in RcuProc, rcu_barrier(p) PROVE RcuInv'
    BY <2>2 DEF rcu_barrier, barrier_waits, rcu_check_gp
  <2>3. ASSUME NEW p \in RcuProc, rcu_read_lock(p) \/ rcu_read_unlock(p) PROVE RcuInv'
    <3>1. nesting' \in [RcuProc -> 0 .. MaxNesting]
      BY <2>3, NestingBounded
    <3>2. UNCHANGED <<gp_active, passed_gp, cbs, invoked, in_barrier>> /\ UNCHANGED srcuOnly
      BY <2>3 DEF rcu_read_lock, rcu_read_unlock
    <3> QED BY <3>1, <3>2
  <2>4. ASSUME NEW p \in RcuProc,
               srcu_read_lock(p) \/ srcu_read_unlock(p) \/ srcu_synchronize(p) \/ srcu_synchronized(p)
        PROVE  RcuInv'
    <3>1. UNCHANGED <<nesting, gp_active, passed_gp, cbs, invoked, in_barrier>>
      BY <2>4 DEF srcu_read_lock, srcu_read_unlock, srcu_synchronize, srcu_synchronized
    <3>2. CASE srcu_read_lock(p) \/ srcu_read_unlock(p)
      BY <3>1, <3>2 DEF srcu_read_lock, srcu_read_unlock
    <3>3. CASE srcu_synchronize(p)
      BY <3>1, <3>3 DEF srcu_synchronize
    <3>4. CASE srcu_synchronized(p)
      BY <3>1, <3>4 DEF srcu_synchronized
    <3> QED BY <2>4, <3>2, <3>3, <3>4
  <2>5. CASE UNCHANGED rcuVars
    BY <2>5 DEF rcuVars
  <2> QED BY <2>1, <2>2, <2>3, <2>4, <2>5 DEF RcuNext
<1> QED BY <1>1, <1>2, PTL DEF RcuSpec, RcuInv

-----------------------------------------------------------------------------
(* The fields of a slot that the model keeps. *)
CredFields == {"uid", "euid", "umask", "root", "mm", "brk"}

(* The effective user id is the user id: setuid sets both, fork copies both. *)
OneId ==
  /\ DOMAIN cred = FdProc /\ DOMAIN fdt = FdProc
  /\ \A p \in FdProc : DOMAIN cred[p] = CredFields /\ cred[p].euid = cred[p].uid

(* What CredsDropOnly asks of a step. *)
NoRise ==
  \A p \in FdProc : cred[p].euid # 0 /\ cred'[p].euid = 0 =>
    \E q \in FdProc : cred[q].euid = 0 /\ fdt'[p] = fdt[q] /\ cred'[p].brk = cred[q].brk

(* A step that touches neither of the two user ids. *)
LEMMA IdsKept ==
  ASSUME OneId, DOMAIN cred' = FdProc, DOMAIN fdt' = FdProc,
         \A p \in FdProc : /\ DOMAIN cred'[p] = CredFields
                           /\ cred'[p].uid = cred[p].uid /\ cred'[p].euid = cred[p].euid
  PROVE  OneId' /\ NoRise
BY DEF OneId, NoRise

(* sys_setuid. *)
LEMMA SetuidStep ==
  ASSUME OneId, NEW p \in FdProc, NEW u, sys_setuid(p, u)
  PROVE  OneId' /\ NoRise
<1>1. cred' = [cred EXCEPT ![p].uid = u, ![p].euid = u] /\ fdt' = fdt /\ (cred[p].euid = 0 \/ u = cred[p].uid)
  BY DEF sys_setuid, may_set, fdVars
<1>2. OneId'
  BY <1>1 DEF OneId, CredFields
<1>3. NoRise
  BY <1>1 DEF OneId, CredFields, NoRise
<1> QED
  BY <1>2, <1>3

(* sys_fork: the child's slot takes the ids, the descriptors and the break. *)
LEMMA ForkStep ==
  ASSUME OneId, NEW p \in FdProc, NEW c \in Child, NEW vm, sys_fork(p, c, vm)
  PROVE  OneId' /\ NoRise
<1>1. /\ fdt' = [fdt EXCEPT ![c] = fdt[p]]
      /\ cred' = [cred EXCEPT ![c] = [cred[p] EXCEPT !.root = cred[c].root, !.mm = IF vm THEN cred[p].mm ELSE "own"]]
  BY DEF sys_fork
<1>2. OneId'
  BY <1>1 DEF OneId, CredFields
<1>3. NoRise
  <2> SUFFICES ASSUME NEW t \in FdProc, cred[t].euid # 0, cred'[t].euid = 0
               PROVE  cred[p].euid = 0 /\ fdt'[t] = fdt[p] /\ cred'[t].brk = cred[p].brk
    BY DEF NoRise
  <2>1. t = c
    BY <1>1 DEF OneId
  <2> QED
    BY <1>1, <2>1 DEF OneId, CredFields
<1> QED
  BY <1>2, <1>3

(* The other calls on credentials and names. *)
LEMMA CredStep ==
  ASSUME OneId, CredNext
  PROVE  OneId' /\ NoRise
<1>1. CASE UNCHANGED <<cred, fdt>>
  BY <1>1, IdsKept DEF OneId
<1>2. ASSUME NEW p \in FdProc, NEW mask, sys_umask(p, mask) PROVE OneId' /\ NoRise
  <2>1. cred' = [cred EXCEPT ![p].umask = mask % 512] /\ fdt' = fdt
    BY <1>2 DEF sys_umask, fdVars
  <2> QED
    BY <2>1, IdsKept DEF OneId, CredFields
<1>3. ASSUME NEW p \in FdProc, NEW name, sys_chroot(p, name) PROVE OneId' /\ NoRise
  <2>1. cred' = [cred EXCEPT ![p].root = name] /\ fdt' = fdt
    BY <1>3 DEF sys_chroot, fdVars
  <2> QED
    BY <2>1, IdsKept DEF OneId, CredFields
<1>4. ASSUME NEW p \in FdProc, NEW new, NEW mapped, sys_brk(p, new, mapped) PROVE OneId' /\ NoRise
  <2>1. /\ cred' = [cred EXCEPT ![p].mm = IF @ = "none" THEN "own" ELSE @,
                                ![p].brk = IF new > @ /\ ~mapped THEN @ ELSE new]
        /\ fdt' = fdt
    BY <1>4 DEF sys_brk, fdVars
  <2> QED
    BY <2>1, IdsKept DEF OneId, CredFields
<1>5. ASSUME NEW p \in FdProc, NEW name, sys_chdir(name) \/ sys_sethostname(p, name) PROVE UNCHANGED <<cred, fdt>>
  BY <1>5 DEF sys_chdir, sys_sethostname, fdVars
<1>6. ASSUME NEW name, sys_chdir(name) PROVE UNCHANGED <<cred, fdt>>
  BY <1>6 DEF sys_chdir, fdVars
<1> QED
  BY <1>1, <1>2, <1>3, <1>4, <1>5, <1>6, SetuidStep, ForkStep DEF CredNext

(* The calls on descriptors: only fork is concerned with credentials. *)
LEMMA FdStep ==
  ASSUME OneId, FdNext
  PROVE  OneId' /\ NoRise
<1>1. ASSUME cred' = cred, DOMAIN fdt' = FdProc PROVE OneId' /\ NoRise
  BY <1>1, IdsKept DEF OneId
<1>2. ASSUME NEW n, sys_unlink(n) PROVE cred' = cred /\ fdt' = fdt
  BY <1>2 DEF sys_unlink, credVars
<1>3. ASSUME NEW p, NEW n, sys_open_file(p, n) \/ sys_open_full(p, n) PROVE cred' = cred /\ DOMAIN fdt' = FdProc
  <2>1. CASE sys_open_file(p, n)
    BY <2>1 DEF sys_open_file, credVars, OneId
  <2>2. CASE sys_open_full(p, n)
    BY <2>2 DEF sys_open_full, credVars, OneId
  <2> QED
    BY <1>3, <2>1, <2>2
<1>4. ASSUME NEW p, sys_open_dir(p) \/ sys_pipe(p) \/ sys_socket(p) PROVE cred' = cred /\ DOMAIN fdt' = FdProc
  <2>1. CASE sys_open_dir(p)
    BY <2>1 DEF sys_open_dir, credVars, OneId
  <2>2. CASE sys_pipe(p)
    BY <2>2 DEF sys_pipe, credVars, OneId
  <2>3. CASE sys_socket(p)
    BY <2>3 DEF sys_socket, credVars, OneId
  <2> QED
    BY <1>4, <2>1, <2>2, <2>3
<1>5. ASSUME NEW p, NEW fd, sys_close(p, fd) \/ sys_getdents64(p, fd) PROVE cred' = cred /\ DOMAIN fdt' = FdProc
  BY <1>5 DEF sys_close, sys_getdents64, credVars, OneId
<1>6. ASSUME NEW p, NEW fd, sys_dup(p, fd) PROVE cred' = cred /\ DOMAIN fdt' = FdProc
  BY <1>6 DEF sys_dup, credVars, OneId
<1>7. ASSUME NEW p, NEW fd, NEW new, sys_dup2(p, fd, new) PROVE cred' = cred /\ DOMAIN fdt' = FdProc
  BY <1>7 DEF sys_dup2, credVars, OneId
<1>8. ASSUME NEW p, NEW fd, NEW x, sys_fcntl(p, fd, x) \/ sys_read(p, fd, x) \/ sys_write(p, fd, x) \/ sys_lseek(p, fd, x)
      PROVE  cred' = cred /\ DOMAIN fdt' = FdProc
  <2>1. CASE sys_fcntl(p, fd, x)
    BY <2>1 DEF sys_fcntl, credVars, OneId
  <2>2. CASE sys_read(p, fd, x)
    BY <2>2, Zenon DEF sys_read, credVars, OneId
  <2>3. CASE sys_write(p, fd, x)
    BY <2>3, Zenon DEF sys_write, credVars, OneId
  <2>4. CASE sys_lseek(p, fd, x)
    BY <2>4, Zenon DEF sys_lseek, credVars, OneId
  <2> QED
    BY <1>8, <2>1, <2>2, <2>3, <2>4
<1>9. ASSUME NEW p \in FdProc, NEW c \in Child, sys_fork(p, c, FALSE) PROVE OneId' /\ NoRise
  BY <1>9, ForkStep, Zenon
<1>10. DOMAIN fdt = FdProc
  BY DEF OneId
<1> QED
  BY <1>1, <1>2, <1>3, <1>4, <1>5, <1>6, <1>7, <1>8, <1>9, <1>10, Zenon DEF FdNext

(***************************************************************************)
(* A process that is not root becomes root only when sys_fork of a root    *)
(* process gives its slot to a child (CredsDropOnly), for any number of    *)
(* processes, ids and descriptors: sys_setuid lets a process that is not   *)
(* root set its own uid alone, and that one is never 0.                    *)
(***************************************************************************)
THEOREM NobodyRises == FilesSpec => CredsDropOnly
<1>1. fs_init /\ cred_init => OneId
  BY DEF fs_init, cred_init, OneId, CredFields
<1>2. OneId /\ [FdNext \/ CredNext]_<<fdVars, credVars>> => OneId'
  BY CredStep, FdStep DEF OneId, fdVars, credVars
<1>3. OneId /\ [FdNext \/ CredNext]_<<fdVars, credVars>> => [NoRise]_credVars
  BY CredStep, FdStep DEF credVars
<1>4. CredsDropOnly <=> [][NoRise]_credVars
  BY DEF CredsDropOnly, NoRise
<1> QED
  BY <1>1, <1>2, <1>3, <1>4, PTL DEF FilesSpec

-----------------------------------------------------------------------------
(* What a flush waits for is queued. *)
WaitedIsQueued ==
  \A p \in Flusher : before[p] \subseteq Range(queue)

(* destroy_workqueue empties the queue it frees. *)
FreedIsEmpty == wq = "freed" => queue = << >>

(* The inductive invariant. *)
WqInv == WqTypeOK /\ WorkAccounting /\ WaitedIsQueued /\ FreedIsEmpty

(* The empty queue that create_workqueue makes is in order. *)
LEMMA WqInvInit == create_workqueue => WqInv
  BY DEF create_workqueue, WqInv, WqTypeOK, WorkAccounting, WaitedIsQueued, FreedIsEmpty, Range

(* What cancel_work leaves of a queue without repetition: all but the work cancelled. *)
LEMMA WithoutFacts ==
  ASSUME queue \in Seq(Work), NEW w \in Work, w \in Range(queue),
         \A i, j \in DOMAIN queue : queue[i] = queue[j] => i = j
  PROVE  /\ without(w) \in Seq(Work)
         /\ Len(without(w)) = Len(queue) - 1
         /\ Range(without(w)) = Range(queue) \ {w}
         /\ \A i, j \in DOMAIN without(w) : without(w)[i] = without(w)[j] => i = j
<1> DEFINE k == CHOOSE i \in DOMAIN queue : queue[i] = w
           n == Len(queue)
           q == [j \in 1 .. n - 1 |-> IF j < k THEN queue[j] ELSE queue[j + 1]]
<1>1. k \in 1 .. n /\ queue[k] = w /\ n \in Nat /\ DOMAIN queue = 1 .. n
  BY DEF Range
<1>2. without(w) = q
  BY DEF without, Range
<1> HIDE DEF k
<1>3. q \in Seq(Work) /\ Len(q) = n - 1 /\ DOMAIN q = 1 .. n - 1
  <2>1. \A j \in 1 .. n - 1 : q[j] \in Work
    BY <1>1
  <2>2. n - 1 \in Nat
    BY <1>1
  <2> QED
    BY <2>1, <2>2
<1>4. \A i, j \in 1 .. n - 1 : q[i] = q[j] => i = j
  BY <1>1
<1>5. Range(q) = Range(queue) \ {w}
  <2>1. ASSUME NEW v \in Range(q) PROVE v \in Range(queue) \ {w}
    BY <2>1, <1>1, <1>3 DEF Range
  <2>2. ASSUME NEW v \in Range(queue), v # w PROVE v \in Range(q)
    <3>1. PICK i \in 1 .. n : queue[i] = v
      BY <2>2, <1>1 DEF Range
    <3>2. i # k
      BY <3>1, <2>2, <1>1
    <3>3. CASE i < k
      <4>1. i \in 1 .. n - 1 /\ q[i] = v
        BY <3>1, <3>3, <1>1
      <4> QED
        BY <4>1, <1>3 DEF Range
    <3>4. CASE i > k
      <4>1. i - 1 \in 1 .. n - 1 /\ q[i - 1] = v
        BY <3>1, <3>4, <1>1
      <4> QED
        BY <4>1, <1>3 DEF Range
    <3> QED
      BY <3>2, <3>3, <3>4, <1>1
  <2> QED
    BY <2>1, <2>2
<1> QED
  BY <1>2, <1>3, <1>4, <1>5

(* Every step of the thread, of its clients and of destroy_workqueue keeps the books. *)
LEMMA WqInvStep == WqInv /\ [WqNext]_wqVars => WqInv'
<1> SUFFICES ASSUME WqInv, [WqNext]_wqVars PROVE WqInv'
  OBVIOUS
<1> USE DEF WqInv, FreedIsEmpty
<1>1. ASSUME NEW w \in Work, queue_work(w) PROVE WqInv'
  <2>1. queue' \in Seq(Work) /\ Len(queue') = Len(queue) + 1 /\ Range(queue') = Range(queue) \cup {w}
    <3>1. /\ queue' \in Seq(Work) /\ Len(queue') = Len(queue) + 1 /\ queue'[Len(queue) + 1] = w
          /\ \A i \in 1 .. Len(queue) : queue'[i] = queue[i]
      BY <1>1 DEF queue_work, WqTypeOK
    <3>2. DOMAIN queue' = 1 .. Len(queue) + 1 /\ DOMAIN queue = 1 .. Len(queue) /\ Len(queue) \in Nat
      BY <3>1 DEF WqTypeOK
    <3>3. \A v \in Range(queue') : v \in Range(queue) \cup {w}
      BY <3>1, <3>2 DEF Range
    <3>4. \A v \in Range(queue) \cup {w} : v \in Range(queue')
      BY <3>1, <3>2 DEF Range
    <3> QED
      BY <3>1, <3>3, <3>4
  <2>2. w \notin Range(queue)
    BY <1>1 DEF queue_work, WqTypeOK, WorkAccounting
  <2>3. \A i, j \in DOMAIN queue' : queue'[i] = queue'[j] => i = j
    BY <1>1, <2>2 DEF queue_work, WqTypeOK, WorkAccounting, Range
  <2>4. WqTypeOK' /\ WaitedIsQueued' /\ FreedIsEmpty'
    BY <1>1, <2>1 DEF queue_work, WqTypeOK, WaitedIsQueued
  <2>5. WorkAccounting'
    BY <1>1, <2>1, <2>3 DEF queue_work, WqTypeOK, WorkAccounting
  <2> QED
    BY <2>4, <2>5
<1>2. ASSUME NEW w \in Work, cancel_work(w) PROVE WqInv'
  <2>1. w \in Range(queue) /\ queue \in Seq(Work)
    BY <1>2 DEF cancel_work, WqTypeOK, WorkAccounting
  <2>2. /\ queue' \in Seq(Work) /\ Len(queue') = Len(queue) - 1
        /\ Range(queue') = Range(queue) \ {w}
        /\ \A i, j \in DOMAIN queue' : queue'[i] = queue'[j] => i = j
    BY <1>2, <2>1, WithoutFacts DEF cancel_work, WorkAccounting
  <2>3. pending_count' \in Nat
    BY <1>2, <2>1, <2>2 DEF cancel_work, WqTypeOK, WorkAccounting
  <2>4. WqTypeOK' /\ WaitedIsQueued' /\ FreedIsEmpty'
    BY <1>2, <2>2, <2>3 DEF cancel_work, left, WqTypeOK, WaitedIsQueued
  <2>5. WorkAccounting'
    BY <1>2, <2>2 DEF cancel_work, WqTypeOK, WorkAccounting
  <2> QED
    BY <2>4, <2>5
<1>3. ASSUME NEW p \in Flusher, flush_begin(p) \/ flush_return(p) PROVE WqInv'
  <2>1. Range(queue) \subseteq Work
    BY DEF WqTypeOK, Range
  <2>2. WqTypeOK' /\ FreedIsEmpty'
    BY <1>3, <2>1 DEF flush_begin, flush_return, WqTypeOK
  <2>3. WorkAccounting'
    BY <1>3 DEF flush_begin, flush_return, WorkAccounting
  <2>4. WaitedIsQueued'
    BY <1>3 DEF flush_begin, flush_return, WaitedIsQueued, WqTypeOK
  <2> QED
    BY <2>2, <2>3, <2>4
<1>4. ASSUME workqueue_take PROVE WqInv'
  <2> DEFINE w == Head(queue)
  <2>1. /\ w \in Work /\ queue' \in Seq(Work) /\ Len(queue') = Len(queue) - 1
        /\ \A i \in DOMAIN queue' : queue'[i] = queue[i + 1]
        /\ Len(queue) > 0 /\ w = queue[1]
    BY <1>4 DEF workqueue_take, WqTypeOK
  <2>2. Range(queue') = Range(queue) \ {w}
    <3>1. \A v \in Range(queue') : v \in Range(queue) \ {w}
      BY <1>4, <2>1 DEF workqueue_take, WorkAccounting, WqTypeOK, Range
    <3>2. ASSUME NEW v \in Range(queue), v # w PROVE v \in Range(queue')
      <4>1. PICK i \in 1 .. Len(queue) : queue[i] = v
        BY <3>2 DEF Range, WqTypeOK
      <4>2. i - 1 \in DOMAIN queue' /\ queue'[i - 1] = v
        BY <4>1, <3>2, <2>1
      <4> QED
        BY <4>2 DEF Range
    <3> QED
      BY <3>1, <3>2
  <2>3. \A i, j \in DOMAIN queue' : queue'[i] = queue'[j] => i = j
    BY <1>4, <2>1 DEF workqueue_take, WorkAccounting, WqTypeOK
  <2>4. pending_count' \in Nat
    BY <1>4, <2>1 DEF workqueue_take, WqTypeOK, WorkAccounting
  <2>5. WqTypeOK' /\ WaitedIsQueued' /\ FreedIsEmpty'
    BY <1>4, <2>1, <2>2, <2>4 DEF workqueue_take, left, WqTypeOK, WaitedIsQueued
  <2>6. WorkAccounting'
    BY <1>4, <2>1, <2>2, <2>3 DEF workqueue_take, WqTypeOK, WorkAccounting
  <2> QED
    BY <2>5, <2>6
<1>5. ASSUME workqueue_done \/ workqueue_after_free \/ UNCHANGED wqVars PROVE WqInv'
  BY <1>5 DEF workqueue_done, workqueue_after_free, wqVars, WqTypeOK, WorkAccounting, WaitedIsQueued, Range
<1>6. ASSUME destroy_workqueue PROVE WqInv'
  BY <1>6 DEF destroy_workqueue, WqTypeOK, WorkAccounting, WaitedIsQueued
<1> QED
  BY <1>1, <1>2, <1>3, <1>4, <1>5, <1>6 DEF WqNext, workqueue_thread

(* The flag, the list and the counter of a workqueue that is not freed agree. *)
THEOREM BooksAgree == WqSpec => []WorkAccounting
<1>1. WqInv => WorkAccounting
  BY DEF WqInv
<1> QED
  BY WqInvInit, WqInvStep, <1>1, PTL DEF WqSpec

(* A flush that returns leaves nothing in the queue that was there when it began. *)
THEOREM FlushWaitsForAll == WqSpec => FlushTaken
<1>1. WqInv /\ [WqNext]_wqVars => [\A p \in flushing \ flushing' : before[p] = {}]_wqVars
  <2> SUFFICES ASSUME WqInv, WqNext, NEW p \in flushing, p \notin flushing' PROVE before[p] = {}
    BY DEF wqVars
  <2>1. p \in Flusher
    BY DEF WqInv, WqTypeOK
  <2>2. flush_return(p)
    BY DEF WqNext, queue_work, cancel_work, flush_begin, flush_return, workqueue_thread,
           workqueue_take, workqueue_done, workqueue_after_free, destroy_workqueue
  <2> QED
    <3>1. queue = << >>
      BY <2>2 DEF flush_return, WqInv, WqTypeOK, WorkAccounting, FreedIsEmpty
    <3> QED
      BY <2>1, <3>1 DEF WqInv, WaitedIsQueued, Range
<1> QED
  BY WqInvInit, WqInvStep, <1>1, PTL DEF WqSpec, FlushTaken

-----------------------------------------------------------------------------
(* Tasklets *)

(* The list has no entry twice. *)
ListedOnce == \A i, j \in DOMAIN tasklet_list : tasklet_list[i] = tasklet_list[j] => i = j

(* SCHEDULED tasklets are in the list or were dropped, not both. *)
ScheduledListed ==
  /\ \A t \in Tasklets : tstate[t] = "SCHEDULED" <=> t \in Range(tasklet_list) \cup dropped
  /\ dropped \cap Range(tasklet_list) = {}
  /\ dropped \subseteq Tasklets

(* RUNNING tasklets are run by one process. *)
RunningOnce ==
  /\ \A t \in Tasklets : tstate[t] = "RUNNING" <=> \E p \in Runner : runner[p] = t
  /\ \A p, q \in Runner : runner[p] \in Tasklets /\ runner[p] = runner[q] => p = q

(* The count is what is due and what is disabled. *)
Counted == \A t \in Tasklets : count[t] = disables[t] + (IF tstate[t] = "IDLE" THEN 0 ELSE 1)

TkInv == TaskletTypeOK /\ ListedOnce /\ ScheduledListed /\ RunningOnce /\ Counted

(* The invariant says what TaskletBooks says. *)
LEMMA TkBooks == TkInv => TaskletBooks
<1> SUFFICES ASSUME TkInv, NEW t \in Tasklets
             PROVE  LET listed  == {i \in DOMAIN tasklet_list : tasklet_list[i] = t}
                        running == {p \in Runner : runner[p] = t}
                    IN  /\ tstate[t] = "SCHEDULED" <=> listed # {} \/ t \in dropped
                        /\ t \in dropped => listed = {}
                        /\ \A i, j \in listed : i = j
                        /\ tstate[t] = "RUNNING" <=> running # {}
                        /\ \A p, q \in running : p = q
                        /\ count[t] = disables[t] + (IF tstate[t] = "IDLE" THEN 0 ELSE 1)
  BY DEF TaskletBooks
<1> DEFINE listed  == {i \in DOMAIN tasklet_list : tasklet_list[i] = t}
           running == {p \in Runner : runner[p] = t}
<1>1. listed # {} <=> t \in Range(tasklet_list)
  BY DEF Range
<1>2. running # {} <=> \E p \in Runner : runner[p] = t
  OBVIOUS
<1>3. tstate[t] = "SCHEDULED" <=> listed # {} \/ t \in dropped
  BY <1>1 DEF TkInv, ScheduledListed
<1>4. t \in dropped => listed = {}
  BY <1>1 DEF TkInv, ScheduledListed
<1>5. \A i, j \in listed : i = j
  BY DEF TkInv, ListedOnce
<1>6. tstate[t] = "RUNNING" <=> running # {}
  BY <1>2 DEF TkInv, RunningOnce
<1>7. \A p, q \in running : p = q
  BY DEF TkInv, RunningOnce
<1>8. count[t] = disables[t] + (IF tstate[t] = "IDLE" THEN 0 ELSE 1)
  BY DEF TkInv, Counted
<1> HIDE DEF listed, running
<1> QED
  BY <1>3, <1>4, <1>5, <1>6, <1>7, <1>8 DEF listed, running

(* tasklet_init_subsystem establishes the invariant. *)
LEMMA TkInit == tasklet_init_subsystem => TkInv
<1> SUFFICES ASSUME tasklet_init_subsystem PROVE TkInv
  OBVIOUS
<1>1. TaskletTypeOK
  BY TaskletAssumption DEF tasklet_init_subsystem, TaskletTypeOK
<1>2. ListedOnce /\ ScheduledListed
  BY DEF tasklet_init_subsystem, ListedOnce, ScheduledListed, Range
<1>3. RunningOnce /\ Counted
  BY TaskletAssumption DEF tasklet_init_subsystem, RunningOnce, Counted
<1> QED
  BY <1>1, <1>2, <1>3 DEF TkInv

(* The list has room for one. *)
LEMMA MaxPositive == TASKLET_MAX \in Nat /\ TASKLET_MAX >= 1
<1>1. TASKLET_MAX \in Nat \ {0}
  BY TaskletAssumption, Zenon
<1> QED
  BY <1>1

(* What add makes of a list without the tasklet. *)
LEMMA AddFacts ==
  ASSUME TkInv, NEW t \in Tasklets, t \notin Range(tasklet_list), NEW hi \in BOOLEAN
  PROVE  /\ add(t, hi) \in Seq(Tasklets) /\ Len(add(t, hi)) <= TASKLET_MAX
         /\ Range(add(t, hi)) \subseteq {t} \cup Range(tasklet_list)
         /\ \A i, j \in DOMAIN add(t, hi) : add(t, hi)[i] = add(t, hi)[j] => i = j
<1> DEFINE l == tasklet_list
           n == Len(l)
           a == add(t, hi)
<1>1. l \in Seq(Tasklets) /\ n \in Nat /\ n <= TASKLET_MAX /\ DOMAIN l = 1 .. n
  BY DEF TkInv, TaskletTypeOK
<1>2. \A i \in 1 .. n : l[i] # t /\ l[i] \in Tasklets /\ l[i] \in Range(l)
  BY <1>1 DEF Range
<1>3. \A i, j \in 1 .. n : l[i] = l[j] => i = j
  BY <1>1 DEF TkInv, ListedOnce
<1>4. CASE hi
  <2> DEFINE m == IF n = TASKLET_MAX THEN TASKLET_MAX ELSE n + 1
             s == <<t>> \o l
  <2>1. s \in Seq(Tasklets) /\ Len(s) = n + 1 /\ \A i \in 1 .. n + 1 : s[i] = IF i = 1 THEN t ELSE l[i - 1]
    BY <1>1
  <2>2. m \in 1 .. n + 1 /\ m <= TASKLET_MAX
    <3>1. n \in Nat /\ n <= TASKLET_MAX
      BY <1>1
    <3> HIDE DEF n
    <3> QED
      BY <3>1, MaxPositive
  <2>3. a = SubSeq(s, 1, m)
    BY <1>4 DEF add, full
  <2> HIDE DEF s, m, a
  <2>4. a \in Seq(Tasklets) /\ Len(a) = m /\ \A i \in 1 .. m : a[i] = s[i]
    BY <1>1, <2>1, <2>2, <2>3
  <2>5. \A i \in 1 .. m : a[i] = IF i = 1 THEN t ELSE l[i - 1]
    BY <1>1, <2>1, <2>2, <2>4
  <2>6. DOMAIN a = 1 .. m
    BY <2>4
  <2>7. Range(a) \subseteq {t} \cup Range(l)
    <3> SUFFICES ASSUME NEW i \in 1 .. m PROVE a[i] \in {t} \cup Range(l)
      BY <2>6 DEF Range
    <3>1. CASE i = 1
      BY <2>5, <3>1
    <3>2. CASE i # 1
      <4>1. i - 1 \in 1 .. n /\ a[i] = l[i - 1]
        BY <1>1, <2>2, <2>5, <3>2
      <4> QED
        BY <1>2, <4>1
    <3> QED
      BY <3>1, <3>2
  <2>8. ASSUME NEW i \in 1 .. m, NEW j \in 1 .. m, a[i] = a[j] PROVE i = j
    <3>1. CASE i = 1 /\ j = 1
      BY <3>1
    <3>2. CASE i = 1 /\ j # 1
      <4>1. j - 1 \in 1 .. n /\ a[j] = l[j - 1] /\ a[i] = t
        BY <1>1, <2>2, <2>5, <3>2
      <4> QED
        BY <1>2, <2>8, <4>1
    <3>3. CASE i # 1 /\ j = 1
      <4>1. i - 1 \in 1 .. n /\ a[i] = l[i - 1] /\ a[j] = t
        BY <1>1, <2>2, <2>5, <3>3
      <4> QED
        BY <1>2, <2>8, <4>1, Zenon
    <3>4. CASE i # 1 /\ j # 1
      <4>1. i - 1 \in 1 .. n /\ j - 1 \in 1 .. n /\ a[i] = l[i - 1] /\ a[j] = l[j - 1]
        BY <1>1, <2>2, <2>5, <3>4
      <4>2. i - 1 = j - 1
        BY <1>3, <2>8, <4>1, Zenon
      <4> QED
        BY <4>2
    <3> QED
      BY <3>1, <3>2, <3>3, <3>4
  <2> QED
    BY <2>2, <2>4, <2>6, <2>7, <2>8 DEF a
<1>5. CASE ~hi /\ n = TASKLET_MAX
  <2>1. a = l
    BY <1>5 DEF add, full
  <2> QED
    BY <1>1, <1>3, <2>1
<1>6. CASE ~hi /\ n # TASKLET_MAX
  <2>1. a = Append(l, t)
    BY <1>6 DEF add, full
  <2>2. Append(l, t) \in Seq(Tasklets) /\ Len(Append(l, t)) = n + 1 /\ DOMAIN Append(l, t) = 1 .. n + 1
    BY <1>1
  <2>3. \A i \in 1 .. n + 1 : Append(l, t)[i] = IF i = n + 1 THEN t ELSE l[i]
    BY <1>1
  <2>4. n + 1 <= TASKLET_MAX
    <3>1. n # TASKLET_MAX
      BY <1>6
    <3> HIDE DEF n
    <3> QED
      BY <1>1, <3>1, MaxPositive
  <2>5. Range(Append(l, t)) \subseteq {t} \cup Range(l)
    BY <1>2, <2>2, <2>3 DEF Range
  <2>6. \A i, j \in 1 .. n + 1 : Append(l, t)[i] = Append(l, t)[j] => i = j
    BY <1>2, <1>3, <2>3
  <2> QED
    BY <2>1, <2>2, <2>4, <2>5, <2>6
<1> QED
  BY <1>4, <1>5, <1>6

(* A tasklet that is scheduled enters the list, or it or the last entry is dropped. *)
LEMMA ScheduleKeeps ==
  ASSUME TkInv, NEW t \in Tasklets, NEW hi \in BOOLEAN, tasklet_schedule(t, hi)
  PROVE  TkInv'
<1>1. tstate[t] = "IDLE" /\ t \notin Range(tasklet_list) \cup dropped
  <2>1. count[t] = 0 /\ disables[t] \in Nat
    BY DEF tasklet_schedule, TkInv, TaskletTypeOK
  <2>2. tstate[t] = "IDLE"
    BY <2>1 DEF TkInv, Counted
  <2> QED
    BY <2>2 DEF TkInv, ScheduledListed
<1> DEFINE a == add(t, hi)
<1>2. /\ a \in Seq(Tasklets) /\ Len(a) <= TASKLET_MAX
      /\ Range(a) \subseteq {t} \cup Range(tasklet_list)
      /\ \A i, j \in DOMAIN a : a[i] = a[j] => i = j
  BY <1>1, AddFacts
<1>3. /\ tasklet_list' = a
      /\ dropped' = dropped \cup (({t} \cup Range(tasklet_list)) \ Range(a))
      /\ tstate' = [tstate EXCEPT ![t] = "SCHEDULED"]
      /\ count' = [count EXCEPT ![t] = @ + 1]
      /\ UNCHANGED <<disables, runner, killing>>
  BY DEF tasklet_schedule
<1> HIDE DEF a
<1>4. Range(tasklet_list) \subseteq Tasklets
  BY DEF TkInv, TaskletTypeOK, Range
<1>5. TaskletTypeOK'
  BY <1>2, <1>3 DEF TkInv, TaskletTypeOK
<1>6. ListedOnce'
  BY <1>2, <1>3 DEF ListedOnce
<1>7. Range(tasklet_list') \cup dropped' = {t} \cup Range(tasklet_list) \cup dropped
  BY <1>2, <1>3
<1>8. ScheduledListed'
  <2>1. ASSUME NEW u \in Tasklets
        PROVE  tstate'[u] = "SCHEDULED" <=> u \in Range(tasklet_list') \cup dropped'
    <3>1. tstate'[u] = IF u = t THEN "SCHEDULED" ELSE tstate[u]
      BY <1>3 DEF TkInv, TaskletTypeOK
    <3>2. tstate[u] = "SCHEDULED" <=> u \in Range(tasklet_list) \cup dropped
      BY DEF TkInv, ScheduledListed
    <3> QED
      BY <1>7, <3>1, <3>2
  <2>2. dropped' \cap Range(tasklet_list') = {} /\ dropped' \subseteq Tasklets
    BY <1>1, <1>2, <1>3, <1>4 DEF TkInv, ScheduledListed
  <2> QED
    BY <2>1, <2>2 DEF ScheduledListed
<1>9. RunningOnce'
  <2>1. ASSUME NEW u \in Tasklets PROVE tstate'[u] = "RUNNING" <=> tstate[u] = "RUNNING"
    BY <1>1, <1>3 DEF TkInv, TaskletTypeOK
  <2> QED
    BY <1>3, <2>1 DEF TkInv, RunningOnce
<1>10. Counted'
  BY <1>1, <1>3 DEF TkInv, TaskletTypeOK, Counted
<1> QED
  BY <1>5, <1>6, <1>8, <1>9, <1>10 DEF TkInv

(* A disable and an enable move the count and the disables together. *)
LEMMA CountKeeps ==
  ASSUME TkInv, NEW t \in Tasklets, NEW d \in {-1, 1}, disables[t] + d \in Nat,
         count' = [count EXCEPT ![t] = @ + d], disables' = [disables EXCEPT ![t] = @ + d],
         UNCHANGED <<tasklet_list, tstate, dropped>>
  PROVE  ListedOnce' /\ ScheduledListed' /\ Counted' /\ count' \in [Tasklets -> Nat] /\ disables' \in [Tasklets -> Nat]
<1>1. ListedOnce' /\ ScheduledListed'
  BY DEF TkInv, ListedOnce, ScheduledListed
<1>2. count[t] + d \in Nat
  <2>1. count[t] = disables[t] \/ count[t] = disables[t] + 1
    BY DEF TkInv, Counted, TaskletTypeOK
  <2>2. disables[t] \in Nat
    BY DEF TkInv, TaskletTypeOK
  <2> QED
    BY <2>1, <2>2
<1>3. Counted'
  BY DEF TkInv, Counted, TaskletTypeOK
<1>4. count' \in [Tasklets -> Nat] /\ disables' \in [Tasklets -> Nat]
  BY <1>2 DEF TkInv, TaskletTypeOK
<1> QED
  BY <1>1, <1>3, <1>4

(* Every operation and every step of a run keeps the invariant. *)
LEMMA TkStep == TkInv /\ [TaskletNext]_taskletVars => TkInv'
<1> SUFFICES ASSUME TkInv, [TaskletNext]_taskletVars PROVE TkInv'
  OBVIOUS
<1>1. ASSUME NEW t \in Tasklets, tasklet_disable(t) PROVE TkInv'
  <2>1. disables[t] + 1 \in Nat
    BY DEF TkInv, TaskletTypeOK
  <2>2. /\ count' = [count EXCEPT ![t] = @ + 1] /\ disables' = [disables EXCEPT ![t] = @ + 1]
        /\ UNCHANGED <<tasklet_list, tstate, dropped>> /\ UNCHANGED <<runner, killing>>
    BY <1>1 DEF tasklet_disable
  <2>3. ListedOnce' /\ ScheduledListed' /\ Counted' /\ count' \in [Tasklets -> Nat] /\ disables' \in [Tasklets -> Nat]
    BY <2>1, <2>2, CountKeeps, Zenon
  <2> QED
    BY <2>2, <2>3 DEF TkInv, TaskletTypeOK, RunningOnce
<1>2. ASSUME NEW t \in Tasklets, tasklet_enable(t) PROVE TkInv'
  <2>1. disables[t] + (-1) \in Nat /\ count[t] > 0
    <3>1. count[t] = disables[t] \/ count[t] = disables[t] + 1
      BY DEF TkInv, Counted, TaskletTypeOK
    <3>2. disables[t] \in Nat /\ disables[t] > 0
      BY <1>2 DEF TkInv, TaskletTypeOK, tasklet_enable
    <3> QED
      BY <3>1, <3>2
  <2>2. /\ count' = [count EXCEPT ![t] = @ + (-1)] /\ disables' = [disables EXCEPT ![t] = @ + (-1)]
        /\ UNCHANGED <<tasklet_list, tstate, dropped>> /\ UNCHANGED <<runner, killing>>
    BY <1>2, <2>1, Zenon DEF tasklet_enable, TkInv, TaskletTypeOK
  <2>3. ListedOnce' /\ ScheduledListed' /\ Counted' /\ count' \in [Tasklets -> Nat] /\ disables' \in [Tasklets -> Nat]
    BY <2>1, <2>2, CountKeeps, Zenon
  <2> QED
    BY <2>2, <2>3 DEF TkInv, TaskletTypeOK, RunningOnce
<1>3. ASSUME NEW p \in Runner, NEW t \in Tasklets \cup {NoTasklet}, run_begin(p, t) PROVE TkInv'
  <2>1. TaskletTypeOK'
    BY <1>3 DEF TkInv, TaskletTypeOK, run_begin
  <2>2. RunningOnce'
    <3>1. runner' = [runner EXCEPT ![p] = "loop"] /\ runner[p] = "out" /\ tstate' = tstate
      BY <1>3 DEF run_begin
    <3>2. \A q \in Runner, u \in Tasklets : runner'[q] = u <=> runner[q] = u
      BY <3>1, TaskletAssumption DEF TkInv, TaskletTypeOK
    <3> QED
      BY <3>1, <3>2 DEF TkInv, RunningOnce
  <2> QED
    BY <1>3, <2>1, <2>2 DEF TkInv, run_begin, ListedOnce, ScheduledListed, Counted
<1>4. ASSUME NEW p \in Runner, run_take(p) PROVE TkInv'
  <2> DEFINE l == tasklet_list
             n == Len(l)
             t == l[n]
             m == SubSeq(l, 1, n - 1)
  <2>1. l \in Seq(Tasklets) /\ n \in Nat /\ n > 0 /\ n <= TASKLET_MAX /\ DOMAIN l = 1 .. n
    BY <1>4 DEF run_take, TkInv, TaskletTypeOK
  <2>2. t \in Tasklets /\ t \in Range(l) /\ tstate[t] = "SCHEDULED"
    <3>1. t \in Tasklets /\ t \in Range(l)
      BY <2>1 DEF Range
    <3> QED
      BY <3>1 DEF TkInv, ScheduledListed
  <2>3. /\ tstate' = [tstate EXCEPT ![t] = "RUNNING"] /\ runner' = [runner EXCEPT ![p] = t]
        /\ tasklet_list' = m /\ runner[p] = "loop"
        /\ UNCHANGED <<count, disables, dropped, killing>>
    BY <1>4, <2>2 DEF run_take
  <2>4. m \in Seq(Tasklets) /\ Len(m) = n - 1 /\ DOMAIN m = 1 .. n - 1 /\ \A i \in 1 .. n - 1 : m[i] = l[i]
    BY <2>1
  <2>5. \A i, j \in 1 .. n : l[i] = l[j] => i = j
    BY <2>1 DEF TkInv, ListedOnce
  <2>6. Range(m) = Range(l) \ {t}
    <3> HIDE DEF m
    <3>1. ASSUME NEW v \in Range(m) PROVE v \in Range(l) \ {t}
      <4>1. PICK i \in 1 .. n - 1 : v = m[i]
        BY <2>4, <3>1 DEF Range
      <4>2. v = l[i] /\ i \in 1 .. n /\ i # n
        <5>1. i \in 1 .. n /\ i # n
          <6>1. n \in Nat
            BY <2>1
          <6> HIDE DEF n
          <6> QED
            BY <6>1
        <5> QED
          BY <2>4, <4>1, <5>1
      <4>3. n \in 1 .. n
        BY <2>1
      <4>4. v # t
        BY <2>5, <4>2, <4>3
      <4> QED
        BY <2>1, <4>2, <4>4, Zenon DEF Range
    <3>2. ASSUME NEW v \in Range(l) \ {t} PROVE v \in Range(m)
      <4>1. PICK i \in 1 .. n : v = l[i]
        BY <2>1, <3>2 DEF Range
      <4>2. i \in 1 .. n - 1
        BY <2>1, <3>2, <4>1
      <4> QED
        BY <2>4, <4>1, <4>2 DEF Range
    <3> QED
      BY <3>1, <3>2
  <2> HIDE DEF m, t
  <2>7. TaskletTypeOK'
    <3>1. Len(m) <= TASKLET_MAX
      <4> HIDE DEF n
      <4> QED
        BY <2>1, <2>4, MaxPositive
    <3> QED
      BY <2>2, <2>3, <2>4, <3>1 DEF TkInv, TaskletTypeOK
  <2>8. ListedOnce'
    <3>1. \A i, j \in 1 .. n - 1 : m[i] = m[j] => i = j
      BY <2>1, <2>4, <2>5
    <3> QED
      BY <2>3, <2>4, <3>1 DEF ListedOnce
  <2>9. ScheduledListed'
    <3>1. t \notin dropped
      BY <2>2 DEF TkInv, ScheduledListed
    <3>2. \A u \in Tasklets : tstate'[u] = IF u = t THEN "RUNNING" ELSE tstate[u]
      BY <2>3 DEF TkInv, TaskletTypeOK
    <3> QED
      BY <2>3, <2>6, <3>1, <3>2 DEF TkInv, ScheduledListed
  <2>10. RunningOnce'
    <3>1. \A q \in Runner : runner[q] # t
      BY <2>2 DEF TkInv, RunningOnce
    <3>2. \A q \in Runner : runner'[q] = IF q = p THEN t ELSE runner[q]
      BY <2>3 DEF TkInv, TaskletTypeOK
    <3>3. \A u \in Tasklets : tstate'[u] = IF u = t THEN "RUNNING" ELSE tstate[u]
      BY <2>3 DEF TkInv, TaskletTypeOK
    <3>4. runner[p] \notin Tasklets
      BY <2>3, TaskletAssumption
    <3>5. ASSUME NEW u \in Tasklets PROVE tstate'[u] = "RUNNING" <=> \E q \in Runner : runner'[q] = u
      <4>1. CASE u = t
        BY <3>2, <3>3, <4>1
      <4>2. CASE u # t
        <5>1. \A q \in Runner : runner'[q] = u <=> runner[q] = u
          BY <3>2, <3>4, <4>2
        <5>2. tstate'[u] = tstate[u]
          BY <3>3, <4>2
        <5> QED
          BY <5>1, <5>2 DEF TkInv, RunningOnce
      <4> QED
        BY <4>1, <4>2
    <3>6. \A q, r \in Runner : runner'[q] \in Tasklets /\ runner'[q] = runner'[r] => q = r
      BY <3>1, <3>2 DEF TkInv, RunningOnce
    <3> QED
      BY <3>5, <3>6 DEF RunningOnce
  <2>11. Counted'
    BY <2>2, <2>3 DEF TkInv, TaskletTypeOK, Counted
  <2> QED
    BY <2>7, <2>8, <2>9, <2>10, <2>11 DEF TkInv
<1>5. ASSUME NEW p \in Runner, run_done(p) PROVE TkInv'
  <2> DEFINE t == runner[p]
  <2>1. t \in Tasklets /\ tstate[t] = "RUNNING" /\ count[t] = disables[t] + 1
    BY <1>5 DEF run_done, TkInv, RunningOnce, Counted
  <2>2. /\ tstate' = [tstate EXCEPT ![t] = "IDLE"] /\ count' = [count EXCEPT ![t] = @ - 1]
        /\ runner' = [runner EXCEPT ![p] = "loop"]
        /\ UNCHANGED <<tasklet_list, disables, dropped, killing>>
    BY <1>5 DEF run_done
  <2>3. \A q \in Runner : runner[q] = t => q = p
    BY <2>1 DEF TkInv, RunningOnce
  <2>4. count[t] - 1 = disables[t] /\ disables[t] \in Nat
    BY <2>1 DEF TkInv, TaskletTypeOK
  <2> HIDE DEF t
  <2>5. TaskletTypeOK'
    BY <2>1, <2>2, <2>4 DEF TkInv, TaskletTypeOK
  <2>6. \A u \in Tasklets : tstate'[u] = IF u = t THEN "IDLE" ELSE tstate[u]
    BY <2>2 DEF TkInv, TaskletTypeOK
  <2>7. ListedOnce' /\ ScheduledListed'
    BY <2>1, <2>2, <2>6 DEF TkInv, ListedOnce, ScheduledListed
  <2>8. RunningOnce'
    <3>1. \A q \in Runner : runner'[q] = IF q = p THEN "loop" ELSE runner[q]
      BY <2>2 DEF TkInv, TaskletTypeOK
    <3>2. \A q \in Runner, u \in Tasklets : runner'[q] = u <=> runner[q] = u /\ u # t
      BY <2>3, <3>1, TaskletAssumption DEF t
    <3> QED
      BY <2>6, <3>2 DEF TkInv, RunningOnce
  <2>9. Counted'
    BY <2>1, <2>2, <2>4, <2>6 DEF TkInv, TaskletTypeOK, Counted
  <2> QED
    BY <2>5, <2>7, <2>8, <2>9 DEF TkInv
<1>6. ASSUME NEW p \in Runner, run_end(p) PROVE TkInv'
  <2>1. /\ runner[p] = "loop" /\ runner' = [runner EXCEPT ![p] = "out"]
        /\ killing' = [killing EXCEPT ![p] = NoTasklet]
        /\ UNCHANGED <<tasklet_list, tstate, dropped>>
    BY <1>6 DEF run_end
  <2>2. RunningOnce'
    <3>1. \A q \in Runner, u \in Tasklets : runner'[q] = u <=> runner[q] = u
      BY <2>1, TaskletAssumption DEF TkInv, TaskletTypeOK
    <3> QED
      BY <2>1, <3>1 DEF TkInv, RunningOnce
  <2>3. ListedOnce' /\ ScheduledListed' /\ Counted' /\ count' \in [Tasklets -> Nat] /\ disables' \in [Tasklets -> Nat]
    <3>1. CASE killing[p] = NoTasklet
      <4>1. UNCHANGED <<count, disables>>
        BY <1>6, <3>1 DEF run_end
      <4> QED
        BY <2>1, <4>1 DEF TkInv, TaskletTypeOK, ListedOnce, ScheduledListed, Counted
    <3>2. CASE killing[p] # NoTasklet
      <4>1. killing[p] \in Tasklets /\ disables[killing[p]] + 1 \in Nat
        BY <3>2 DEF TkInv, TaskletTypeOK
      <4>2. count' = [count EXCEPT ![killing[p]] = @ + 1] /\ disables' = [disables EXCEPT ![killing[p]] = @ + 1]
        BY <1>6, <3>2 DEF run_end
      <4> QED
        BY <2>1, <4>1, <4>2, CountKeeps, Zenon
    <3> QED
      BY <3>1, <3>2
  <2> QED
    BY <2>1, <2>2, <2>3 DEF TkInv, TaskletTypeOK
<1>7. CASE UNCHANGED taskletVars
  BY <1>7 DEF taskletVars, TkInv, TaskletTypeOK, ListedOnce, ScheduledListed, RunningOnce, Counted
<1> QED
  BY <1>1, <1>2, <1>3, <1>4, <1>5, <1>6, <1>7, ScheduleKeeps DEF TaskletNext

(***************************************************************************)
(* A tasklet is SCHEDULED while it is listed, once, or dropped, RUNNING    *)
(* while one process runs it, and its count is what is due and disabled,   *)
(* for every length of the list and every number of processes in           *)
(* tasklet_run_pending and tasklet_kill.                                   *)
(***************************************************************************)
THEOREM TaskletsCounted == TaskletSpec => []TaskletBooks
  BY TkInit, TkStep, TkBooks, PTL DEF TaskletSpec
=============================================================================
