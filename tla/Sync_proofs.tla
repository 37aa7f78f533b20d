----------------------------- MODULE Sync_proofs -----------------------------
(***************************************************************************)
(* Proofs, for every size of the process table, about the processes and    *)
(* what they wait with.                                                    *)
(* - Process: types, what the slots off the CPU may hold, the meaning of   *)
(*   process_count.                                                        *)
(* - Sync: the mutex excludes, only the process on the CPU is ever         *)
(*   WAITING, the semaphore counts its holders, and the wait queues keep   *)
(*   their types.                                                          *)
(***************************************************************************)
EXTENDS Sync, WellFoundedInduction, FiniteSetTheorems, TLAPS

(***************************************************************************)
(* The inductive invariant.  CurrentInUse and SleepersInUse are the        *)
(* strengthening: without them a yield or a timer could turn an empty slot *)
(* READY and break SlotsContiguous.                                        *)
(***************************************************************************)
CurrentInUse == current_process < process_count

SleepersInUse == \A p \in sleepers : p < process_count

ProcInv == /\ ProcTypeOK
           /\ OffCpuSchedulable
           /\ SlotsContiguous
           /\ CurrentInUse
           /\ SleepersInUse

(* The index process_yield computes is an index of processes[]. *)
LEMMA SuccInPid ==
  ASSUME current_process \in Pid, NEW i \in Nat
  PROVE  Succ(i) \in Pid
BY ProcessMaxAssumption DEF Succ, Pid

(***************************************************************************)
(* What a caller of process_yield may rely on, whatever states it stored   *)
(* for itself before the call: the table stays well-typed, only the        *)
(* current process may be in a blocked state, and the slots in use are the *)
(* same.                                                                   *)
(***************************************************************************)
LEMMA YieldPreserves ==
  ASSUME ProcInv,
         NEW st \in [Pid -> States],
         \A p \in Pid \ {current_process} : st[p] = state[p],
         st[current_process] # UNUSED,
         process_yield(st),
         process_count' = process_count
  PROVE  /\ state' \in [Pid -> States]
         /\ current_process' \in Pid
         /\ OffCpuSchedulable'
         /\ SlotsContiguous'
         /\ CurrentInUse'
<1> USE DEF ProcInv, ProcTypeOK
<1>1. CASE no_switch(st)
  <2>1. state' = st /\ current_process' = current_process
    BY <1>1 DEF no_switch
  <2>2. OffCpuSchedulable'
    BY <2>1 DEF OffCpuSchedulable
  <2>3. SlotsContiguous'
    BY <2>1 DEF SlotsContiguous, CurrentInUse
  <2> QED
    BY <2>1, <2>2, <2>3 DEF CurrentInUse
<1>2. CASE \E i \in 1 .. PROCESS_MAX - 1 : switch(st, i)
  <2>1. PICK i \in 1 .. PROCESS_MAX - 1 : switch(st, i)
    BY <1>2
  <2> DEFINE next == Succ(i)
  <2>2. next \in Pid
    BY SuccInPid, ProcessMaxAssumption
  <2>3. /\ st[next] = READY
        /\ state' = [st EXCEPT ![current_process] = READY, ![next] = RUNNING]
        /\ current_process' = next
    BY <2>1 DEF switch
  <2> HIDE DEF next
  <2>4. state' \in [Pid -> States]
    BY <2>2, <2>3 DEF States
  <2>5. OffCpuSchedulable'
    BY <2>2, <2>3 DEF OffCpuSchedulable
  <2>6. next < process_count
    BY <2>2, <2>3 DEF SlotsContiguous, CurrentInUse, READY, UNUSED
  <2>7. SlotsContiguous'
    BY <2>2, <2>3, <2>6 DEF SlotsContiguous, CurrentInUse, READY, RUNNING, UNUSED
  <2> QED
    BY <2>2, <2>3, <2>4, <2>5, <2>6, <2>7 DEF CurrentInUse
<1> QED
  BY <1>1, <1>2 DEF process_yield

(* The table that process_init leaves. *)
LEMMA ProcInit == process_init => ProcInv
<1> SUFFICES ASSUME process_init
             PROVE  ProcInv
  OBVIOUS
<1> USE ProcessMaxAssumption DEF process_init, Pid
<1>1. ProcTypeOK
  <2>1. state \in [Pid -> States]
    BY DEF States
  <2>2. wait_for \in [Pid -> {ANY_CHILD} \cup Pid]
    BY DEF NO_WAIT
  <2>3. priority \in [Pid -> 0 .. 4]
    BY DEF PRIORITY_IDLE
  <2>4. current_process \in Pid /\ process_count \in 1 .. PROCESS_MAX
    OBVIOUS
  <2>5. sleepers \subseteq Pid /\ halted \in BOOLEAN
    BY Zenon
  <2> QED
    BY <2>1, <2>2, <2>3, <2>4, <2>5, Zenon DEF ProcTypeOK
<1>2. OffCpuSchedulable
  BY DEF OffCpuSchedulable
<1>3. SlotsContiguous
  BY DEF SlotsContiguous, READY, UNUSED
<1> QED
  BY <1>1, <1>2, <1>3 DEF ProcInv, CurrentInUse, SleepersInUse

(* A store to the current process's own state keeps the invariant. *)
LEMMA OwnStatePreserves ==
  ASSUME ProcInv,
         NEW s \in States \ {UNUSED},
         state' = [state EXCEPT ![current_process] = s],
         process_count' = process_count,
         current_process' = current_process
  PROVE  /\ state' \in [Pid -> States]
         /\ OffCpuSchedulable'
         /\ SlotsContiguous'
         /\ CurrentInUse'
BY DEF ProcInv, ProcTypeOK, OffCpuSchedulable, SlotsContiguous, CurrentInUse

(* Every step of the process table keeps the invariant. *)
LEMMA ProcStep == ProcInv /\ [ProcNext]_procVars => ProcInv'
<1> SUFFICES ASSUME ProcInv, [ProcNext]_procVars
             PROVE  ProcInv'
  OBVIOUS
<1> USE DEF ProcInv
<1>0. state[current_process] # UNUSED
  BY DEF ProcTypeOK, SlotsContiguous, CurrentInUse
<1>1. ASSUME process_yield(state), process_count' = process_count,
             priority' = priority, wait_for' \in [Pid -> {ANY_CHILD} \cup Pid],
             sleepers' = sleepers, halted' = halted
      PROVE  ProcInv'
  BY <1>0, <1>1, YieldPreserves DEF ProcTypeOK, SleepersInUse
<1>2. CASE Yield
  BY <1>1, <1>2 DEF Yield, ProcTypeOK
<1>3. CASE ThreadCreate
  <2>1. PICK pid \in Pid : process_create_ex(pid, PRIORITY_NORMAL)
    BY <1>3 DEF ThreadCreate
  <2>2. /\ current_process' = current_process /\ wait_for' = wait_for
        /\ sleepers' = sleepers /\ halted' = halted
    BY <1>3 DEF ThreadCreate
  <2>3. pid = process_count
    BY <2>1, ProcessMaxAssumption
    DEF process_create_ex, FirstUnused, ProcTypeOK, SlotsContiguous, Pid
  <2>4. priority' \in [Pid -> 0 .. 4]
    BY <2>1 DEF process_create_ex, ProcTypeOK, PRIORITY_NORMAL
  <2>5. CASE state' = state /\ process_count' = process_count
    BY <2>2, <2>4, <2>5
    DEF ProcTypeOK, OffCpuSchedulable, SlotsContiguous, CurrentInUse,
        SleepersInUse
  <2>6. CASE /\ state' = [state EXCEPT ![pid] = READY]
             /\ process_count' = pid + 1
    <3>1. ProcTypeOK'
      BY <2>2, <2>4, <2>6, ProcessMaxAssumption DEF ProcTypeOK, States, Pid
    <3>2. OffCpuSchedulable'
      BY <2>2, <2>6 DEF ProcTypeOK, OffCpuSchedulable
    <3>3. SlotsContiguous' /\ CurrentInUse'
      BY <2>2, <2>3, <2>6
      DEF ProcTypeOK, SlotsContiguous, CurrentInUse, READY, UNUSED, Pid
    <3>4. SleepersInUse'
      BY <2>2, <2>3, <2>6 DEF ProcTypeOK, SleepersInUse, Pid
    <3> QED
      BY <3>1, <3>2, <3>3, <3>4
  <2> QED
    BY <2>1, <2>3, <2>5, <2>6 DEF process_create_ex, ProcTypeOK
<1>4. CASE process_exit
  <2>1. DEAD \in States \ {UNUSED}
    BY DEF States, DEAD, UNUSED
  <2> QED
    BY <1>4, <2>1, OwnStatePreserves, Zenon DEF process_exit, ProcTypeOK, SleepersInUse
<1>5. CASE process_return
  <2>1. DEAD \in States \ {UNUSED}
    BY DEF States, DEAD, UNUSED
  <2> QED
    BY <1>5, <2>1, OwnStatePreserves, Zenon DEF process_return, ProcTypeOK, SleepersInUse
<1>6. ASSUME NEW s \in {RUNNING, SLEEPING, STOPPED, DEAD, READY},
             kapi_set_current_state(s)
      PROVE  ProcInv'
  <2>1. s \in States \ {UNUSED}
    BY DEF States, RUNNING, SLEEPING, STOPPED, DEAD, READY, UNUSED
  <2> QED
    BY <1>6, <2>1, OwnStatePreserves, Zenon
    DEF kapi_set_current_state, ProcTypeOK, SleepersInUse
<1>7. ASSUME NEW pid \in Pid, kapi_proc_kill(pid)
      PROVE  ProcInv'
  <2>1. state' \in [Pid -> States]
    BY <1>7 DEF kapi_proc_kill, ProcTypeOK, States
  <2>2. OffCpuSchedulable' /\ SlotsContiguous'
    BY <1>7
    DEF kapi_proc_kill, ProcTypeOK, OffCpuSchedulable, SlotsContiguous,
        TERMINATED, UNUSED
  <2> QED
    BY <1>7, <2>1, <2>2 DEF kapi_proc_kill, ProcTypeOK, CurrentInUse, SleepersInUse
<1>8. ASSUME NEW who \in {ANY_CHILD} \cup Pid, wait_turn(who)
      PROVE  ProcInv'
  <2>1. wait_for' \in [Pid -> {ANY_CHILD} \cup Pid]
    BY <1>8, ProcessMaxAssumption DEF wait_turn, ProcTypeOK, NO_WAIT, Pid
  <2>2. CASE state' = state /\ current_process' = current_process
    BY <1>8, <2>1, <2>2
    DEF wait_turn, ProcTypeOK, OffCpuSchedulable, SlotsContiguous, CurrentInUse,
        SleepersInUse
  <2>3. CASE process_yield(state)
    BY <1>1, <1>8, <2>1, <2>3 DEF wait_turn
  <2> QED
    BY <1>8, <2>2, <2>3 DEF wait_turn
<1>9. CASE msleep
  <2> DEFINE st == [state EXCEPT ![current_process] = SLEEPING]
  <2>1. st \in [Pid -> States] /\ st[current_process] # UNUSED
    BY DEF ProcTypeOK, States, SLEEPING, UNUSED
  <2>2. \A p \in Pid \ {current_process} : st[p] = state[p]
    BY DEF ProcTypeOK
  <2>3. process_yield(st)
    BY <1>9 DEF msleep
  <2> HIDE DEF st
  <2> QED
    BY <1>9, <2>1, <2>2, <2>3, YieldPreserves
    DEF msleep, ProcTypeOK, SleepersInUse, CurrentInUse
<1>10. ASSUME NEW p \in Pid, msleep_wakeup(p)
       PROVE  ProcInv'
  <2>1. state' \in [Pid -> States] /\ sleepers' \subseteq Pid
    BY <1>10 DEF msleep_wakeup, ProcTypeOK, States
  <2>2. OffCpuSchedulable' /\ SlotsContiguous'
    BY <1>10
    DEF msleep_wakeup, ProcTypeOK, OffCpuSchedulable, SlotsContiguous,
        SleepersInUse, READY, UNUSED
  <2> QED
    BY <1>10, <2>1, <2>2
    DEF msleep_wakeup, ProcTypeOK, CurrentInUse, SleepersInUse
<1>11. CASE UNCHANGED procVars
  BY <1>11
  DEF procVars, ProcTypeOK, OffCpuSchedulable, SlotsContiguous, CurrentInUse,
      SleepersInUse
<1>12. ASSUME NEW who \in {ANY_CHILD} \cup Pid, kapi_proc_wait(who)
       PROVE  ProcInv'
  BY <1>8, <1>12 DEF kapi_proc_wait
<1>13. CASE WaitAgain
  BY <1>8, <1>13 DEF WaitAgain, ProcTypeOK
<1> QED
  BY <1>2, <1>3, <1>4, <1>5, <1>6, <1>7, <1>9, <1>10, <1>11, <1>12, <1>13
  DEF ProcNext

(***************************************************************************)
(* The invariant holds of every behaviour of the scheduler, however many   *)
(* slots processes[] has.                                                  *)
(***************************************************************************)
THEOREM ProcInvariant == ProcSpec => []ProcInv
BY ProcInit, ProcStep, PTL DEF ProcSpec

(***************************************************************************)
(* The table of process.c keeps its types; in particular current_process   *)
(* is always an index of processes[].                                      *)
(***************************************************************************)
THEOREM ProcTypeCorrect == ProcSpec => []ProcTypeOK
BY ProcInvariant, PTL DEF ProcInv

(***************************************************************************)
(* process_yield leaves no process blocked: off the CPU a slot is READY,   *)
(* killed or empty.                                                        *)
(***************************************************************************)
THEOREM NoBlockedProcess == ProcSpec => []OffCpuSchedulable
BY ProcInvariant, PTL DEF ProcInv

(* process_count counts the slots in use, and they are the first ones. *)
THEOREM CountIsContiguous == ProcSpec => []SlotsContiguous
BY ProcInvariant, PTL DEF ProcInv

-----------------------------------------------------------------------------
(* A non-empty set of naturals has a least element. *)
LEMMA LeastExists ==
  ASSUME NEW S, S \subseteq Nat, S # {}
  PROVE  \E m \in S : \A k \in S : m <= k
<1>1. PICK m \in S : \A k \in S : ~ (<<k, m>> \in OpToRel(<, Nat))
  BY WFMin, NatLessThanWellFounded, Zenon
<1>2. \A k \in S : ~ (k < m)
  BY <1>1, Zenon DEF OpToRel
<1>3. m \in Nat /\ \A k \in S : k \in Nat
  OBVIOUS
<1>4. \A k \in S : m <= k
  BY <1>2, <1>3
<1> QED
  BY <1>4

-----------------------------------------------------------------------------
(* Mutual exclusion *)

(***************************************************************************)
(* The inductive invariant: the types of the mutex, MutualExclusion, and   *)
(* that a locked mutex has a positive recurse_count (which is why the      *)
(* decrement in mutex_unlock cannot wrap).                                 *)
(***************************************************************************)
MutexInv ==
  /\ current_process \in Pid
  /\ locked \in {0, 1}
  /\ owner \in Pid \cup {NO_OWNER}
  /\ recurse_count \in Nat
  /\ held \in [Pid -> Nat]
  /\ MutualExclusion
  /\ locked = 1 => recurse_count > 0

(* process_yield picks an index of the table. *)
LEMMA YieldPid ==
  ASSUME current_process \in Pid, NEW st, process_yield(st)
  PROVE  current_process' \in Pid
BY SuccInPid, ProcessMaxAssumption DEF process_yield, switch, no_switch

(* The four things a step can do to the mutex. *)
LEMMA FrameKeeps ==
  ASSUME MutexInv, UNCHANGED mtxVars, current_process' \in Pid
  PROVE  MutexInv'
BY DEF MutexInv, MutualExclusion, mtxVars

(* A free mutex is taken by the caller, once. *)
LEMMA AcquireKeeps ==
  ASSUME MutexInv, locked = 0, acquire, current_process' \in Pid
  PROVE  MutexInv'
<1> USE DEF MutexInv, acquire, self
<1>1. /\ locked' = 1 /\ owner' = current_process /\ recurse_count' = 1
      /\ held' \in [Pid -> Nat] /\ owner' # NO_OWNER
  BY DEF NO_OWNER, Pid
<1>2. owner = NO_OWNER
  BY DEF MutualExclusion
<1>3. \A p \in Pid : held[p] = 0
  BY <1>2 DEF MutualExclusion, NO_OWNER, Pid
<1>4. \A p \in Pid : held'[p] = IF owner' = p THEN recurse_count' ELSE 0
  BY <1>3
<1> QED
  BY <1>1, <1>4 DEF MutualExclusion

(* The owner takes the mutex once more. *)
LEMMA AgainKeeps ==
  ASSUME MutexInv, locked = 1, owner = self,
         recurse_count' = recurse_count + 1,
         held' = [held EXCEPT ![self] = @ + 1],
         UNCHANGED <<locked, owner>>, current_process' \in Pid
  PROVE  MutexInv'
<1> USE DEF MutexInv, self
<1>1. held' \in [Pid -> Nat]
  OBVIOUS
<1>2. \A p \in Pid : held'[p] = IF owner' = p THEN recurse_count' ELSE 0
  BY DEF MutualExclusion
<1> QED
  BY <1>1, <1>2 DEF MutualExclusion

(* The owner gives one of its locks back; with the last the mutex is free. *)
LEMMA UnlockKeeps ==
  ASSUME MutexInv, locked = 1, owner = self, unlock_count,
         current_process' \in Pid
  PROVE  MutexInv'
<1> USE DEF MutexInv, unlock_count, self
<1>1. held[self] = recurse_count /\ recurse_count > 0
  BY DEF MutualExclusion
<1>2. held' \in [Pid -> Nat] /\ recurse_count' \in Nat
  BY <1>1
<1>3. CASE recurse_count' > 0
  <2>1. \A p \in Pid : held'[p] = IF owner' = p THEN recurse_count' ELSE 0
    BY <1>1, <1>3 DEF MutualExclusion
  <2> QED
    BY <1>2, <1>3, <2>1 DEF MutualExclusion
<1>4. CASE recurse_count' = 0
  <2>1. owner' = NO_OWNER /\ locked' = 0
    BY <1>4
  <2>2. \A p \in Pid : held'[p] = 0
    BY <1>1, <1>4 DEF MutualExclusion
  <2>3. \A p \in Pid : p # NO_OWNER
    BY DEF Pid, NO_OWNER
  <2> QED
    BY <1>2, <1>4, <2>1, <2>2, <2>3 DEF MutualExclusion
<1> QED
  BY <1>2, <1>3, <1>4

(* The loop of mutex_lock takes the mutex or waits. *)
LEMMA LockLoopKeeps ==
  ASSUME MutexInv, lock_loop
  PROVE  MutexInv'
BY YieldPid, AcquireKeeps, FrameKeeps DEF lock_loop, block, MutexInv

(* mutex_lock from its call: taken, taken again, or the loop. *)
LEMMA LockEntryKeeps ==
  ASSUME MutexInv, lock_entry
  PROVE  MutexInv'
BY LockLoopKeeps, AgainKeeps DEF lock_entry, lock_again, MutexInv

(* mutex_init leaves the mutex free. *)
LEMMA MutexInit == sync_init => MutexInv
<1> SUFFICES ASSUME sync_init
             PROVE  MutexInv
  OBVIOUS
<1>1. current_process \in Pid /\ held \in [Pid -> Nat]
  BY ProcessMaxAssumption DEF sync_init, Pid
<1>2. \A p \in Pid : held[p] = 0 /\ p # NO_OWNER
  BY DEF sync_init, Pid, NO_OWNER
<1> QED
  BY <1>1, <1>2 DEF sync_init, MutexInv, MutualExclusion

(* Every step keeps the mutex exclusive. *)
LEMMA MutexStep == MutexInv /\ [SyncNext]_vars => MutexInv'
<1> SUFFICES ASSUME MutexInv, [SyncNext]_vars
             PROVE  MutexInv'
  OBVIOUS
<1>0. current_process \in Pid
  BY DEF MutexInv
<1>1. CASE mutex_lock
  BY <1>1, LockEntryKeeps DEF mutex_lock
<1>2. CASE mutex_lock_resume
  BY <1>2, LockLoopKeeps DEF mutex_lock_resume
<1>3. CASE mutex_trylock
  BY <1>0, <1>3, AcquireKeeps, AgainKeeps DEF mutex_trylock, lock_again
<1>4. CASE mutex_unlock
  BY <1>0, <1>4, UnlockKeeps DEF mutex_unlock
<1>5. ASSUME NEW label \in {"cv", "cv_timeout"}, condvar_wait(label)
      PROVE  MutexInv'
  BY <1>0, <1>5, UnlockKeeps, YieldPid DEF condvar_wait
<1>6. CASE condvar_wait_resume
  BY <1>6, LockEntryKeeps DEF condvar_wait_resume
<1>7. CASE condvar_timeout_expired
  BY <1>0, <1>7, AcquireKeeps, AgainKeeps, FrameKeeps, YieldPid
  DEF condvar_timeout_expired
<1>8. CASE condvar_timeout_resume
  BY <1>0, <1>8, LockEntryKeeps, FrameKeeps, YieldPid DEF condvar_timeout_resume
<1>9. CASE condvar_signal \/ condvar_broadcast
  BY <1>0, <1>9, FrameKeeps DEF condvar_signal, condvar_broadcast
<1>10. ASSUME NEW label \in {"down", "down_timeout"}, semaphore_down(label)
       PROVE  MutexInv'
  BY <1>0, <1>10, FrameKeeps, YieldPid DEF semaphore_down, block
<1>11. CASE semaphore_down_resume \/ down_timeout_expired
  BY <1>0, <1>11, FrameKeeps DEF semaphore_down_resume, down_timeout_expired
<1>12. CASE down_timeout_resume
  BY <1>0, <1>12, FrameKeeps, YieldPid DEF down_timeout_resume
<1>13. CASE semaphore_up
  BY <1>0, <1>13, FrameKeeps DEF semaphore_up
<1>14. CASE completion_wait
  BY <1>0, <1>14, FrameKeeps, YieldPid DEF completion_wait, block
<1>15. CASE completion_complete
  BY <1>0, <1>15, FrameKeeps DEF completion_complete
<1>16. CASE barrier_wait
  BY <1>0, <1>16, FrameKeeps, YieldPid DEF barrier_wait, block
<1>17. CASE sync_yield
  BY <1>0, <1>17, FrameKeeps, YieldPid DEF sync_yield
<1>18. CASE UNCHANGED vars
  BY <1>0, <1>18, FrameKeeps DEF vars, procVars, syncVars
<1> QED
  BY <1>1, <1>2, <1>3, <1>4, <1>5, <1>6, <1>7, <1>8, <1>9, <1>10, <1>11, <1>12,
     <1>13, <1>14, <1>15, <1>16, <1>17, <1>18
  DEF SyncNext

(***************************************************************************)
(* mutex_lock, mutex_trylock, mutex_unlock and the two condvar waits give  *)
(* mutual exclusion, for any number of processes, any nesting depth and    *)
(* any order in which the scheduler brings them back.                      *)
(***************************************************************************)
THEOREM MutexExcludes == SyncSpec => []MutualExclusion
<1>1. MutexInv => MutualExclusion
  BY DEF MutexInv
<1> QED
  BY <1>1, MutexInit, MutexStep, PTL DEF SyncSpec

-----------------------------------------------------------------------------
(* Who can be WAITING *)

(* The scan of a wait queue stops at a WAITING process, or at none. *)
LEMMA WalkFindsWaiting ==
  ASSUME NEW w, NEW st, NEW start,
         walk(w, st, start) \notin {NIL, LOOP}
  PROVE  st[walk(w, st, start)] = WAITING
<1> DEFINE at   == visit(w, start)
           hits == {k \in 0 .. PROCESS_MAX : at[k] \in Pid /\ st[at[k]] = WAITING}
           least == CHOOSE k \in hits : \A j \in hits : k <= j
<1>1. hits # {} /\ walk(w, st, start) = at[least]
  BY DEF walk
<1>2. hits \subseteq Nat
  BY ProcessMaxAssumption
<1>3. least \in hits
  <2> HIDE DEF hits
  <2>1. \E k \in hits : \A j \in hits : k <= j
    BY <1>1, <1>2, LeastExists, Zenon
  <2> QED
    BY <2>1
<1> QED
  BY <1>1, <1>3

(* A wake-up changes the table only by making WAITING processes READY. *)
OnlyWakes(st, new) ==
  /\ new \in [Pid -> States]
  /\ \A p \in Pid : new[p] = st[p] \/ (st[p] = WAITING /\ new[p] = READY)

(* wait_queue_wake_one makes nobody wait. *)
LEMMA WakeOneOnlyWakes ==
  ASSUME NEW w, NEW st \in [Pid -> States]
  PROVE  OnlyWakes(st, wait_queue_wake_one(w, st).st)
<1> DEFINE n == walk(w, st, w.head)
<1>1. CASE n \in {NIL, LOOP}
  BY <1>1 DEF wait_queue_wake_one, woken, OnlyWakes
<1>2. CASE n \notin {NIL, LOOP}
  <2>1. st[n] = WAITING
    BY <1>2, WalkFindsWaiting
  <2>2. wait_queue_wake_one(w, st).st = [st EXCEPT ![n] = READY]
    BY <1>2 DEF wait_queue_wake_one, woken
  <2> HIDE DEF n
  <2> QED
    BY <2>1, <2>2, Zenon DEF OnlyWakes, States
<1> QED
  BY <1>1, <1>2

(* wait_queue_wake_all makes nobody wait. *)
LEMMA WakeAllOnlyWakes ==
  ASSUME NEW w, NEW st \in [Pid -> States]
  PROVE  OnlyWakes(st, wait_queue_wake_all(w, st).st)
<1> DEFINE n == walk(w, st, w.head)
<1>1. CASE n \in {NIL, LOOP}
  BY <1>1 DEF wait_queue_wake_all, woken, OnlyWakes
<1>2. CASE n \notin {NIL, LOOP}
  <2>1. st[n] = WAITING
    BY <1>2, WalkFindsWaiting
  <2>2. wait_queue_wake_all(w, st).st = [st EXCEPT ![n] = READY]
    BY <1>2 DEF wait_queue_wake_all, woken
  <2> HIDE DEF n
  <2> QED
    BY <2>1, <2>2, Zenon DEF OnlyWakes, States
<1> QED
  BY <1>1, <1>2

(* Off the CPU every process is READY. *)
OffCpu(st) == \A p \in Pid \ {current_process} : st[p] = READY

ReadyInv ==
  /\ state \in [Pid -> States]
  /\ current_process \in Pid
  /\ OffCpu(state)

(* Whoever process_yield takes the CPU from is READY, and so are the others. *)
LEMMA YieldKeepsReady ==
  ASSUME current_process \in Pid,
         NEW st \in [Pid -> States], OffCpu(st), process_yield(st)
  PROVE  ReadyInv'
<1>1. CASE no_switch(st)
  BY <1>1 DEF no_switch, ReadyInv, OffCpu
<1>2. CASE \E i \in 1 .. PROCESS_MAX - 1 : switch(st, i)
  <2>1. PICK i \in 1 .. PROCESS_MAX - 1 : switch(st, i)
    BY <1>2
  <2> DEFINE next == Succ(i)
  <2>2. next \in Pid
    BY SuccInPid, ProcessMaxAssumption
  <2>3. /\ state' = [st EXCEPT ![current_process] = READY, ![next] = RUNNING]
        /\ current_process' = next
    BY <2>1 DEF switch
  <2> HIDE DEF next
  <2> QED
    BY <2>2, <2>3 DEF ReadyInv, OffCpu, States
<1> QED
  BY <1>1, <1>2 DEF process_yield

(* A table the caller has stored its own WAITING in, or woken itself in. *)
LEMMA WaitingTable ==
  ASSUME ReadyInv
  PROVE  waiting \in [Pid -> States] /\ OffCpu(waiting)
BY DEF ReadyInv, waiting, self, OffCpu, States

(* A wake-up leaves nobody WAITING off the CPU who was not. *)
LEMMA OnlyWakesKeepsOffCpu ==
  ASSUME NEW st \in [Pid -> States], OffCpu(st), NEW new, OnlyWakes(st, new)
  PROVE  new \in [Pid -> States] /\ OffCpu(new)
BY DEF OnlyWakes, OffCpu

(* The wake-up in mutex_unlock leaves nobody WAITING off the CPU. *)
LEMMA UnlockWakeup ==
  ASSUME NEW st \in [Pid -> States], OffCpu(st)
  PROVE  unlock_wakeup(st).st \in [Pid -> States] /\ OffCpu(unlock_wakeup(st).st)
<1>1. CASE recurse_count > 1
  BY <1>1 DEF unlock_wakeup, woken
<1>2. CASE ~(recurse_count > 1)
  BY <1>2, WakeOneOnlyWakes, OnlyWakesKeepsOffCpu DEF unlock_wakeup
<1> QED
  BY <1>1, <1>2

(* At the start nobody waits. *)
LEMMA ReadyInit == sync_init => ReadyInv
BY ProcessMaxAssumption DEF sync_init, ReadyInv, OffCpu, States, Pid

(* Every step leaves only the process on the CPU WAITING. *)
LEMMA ReadyStep == ReadyInv /\ [SyncNext]_vars => ReadyInv'
<1> SUFFICES ASSUME ReadyInv, [SyncNext]_vars
             PROVE  ReadyInv'
  OBVIOUS
<1>1. /\ state \in [Pid -> States] /\ OffCpu(state)
      /\ current_process \in Pid
  BY DEF ReadyInv
<1>2. ASSUME process_yield(state) PROVE ReadyInv'
  BY <1>1, <1>2, YieldKeepsReady
<1>3. ASSUME process_yield(waiting) PROVE ReadyInv'
  BY <1>1, <1>3, WaitingTable, YieldKeepsReady
<1>4. ASSUME UNCHANGED <<state, current_process>> PROVE ReadyInv'
  BY <1>1, <1>4 DEF ReadyInv, OffCpu
<1>5. ASSUME NEW new, OnlyWakes(state, new), state' = new,
             UNCHANGED current_process
      PROVE  ReadyInv'
  <2>1. new \in [Pid -> States] /\ OffCpu(new)
    BY <1>1, <1>5, OnlyWakesKeepsOffCpu
  <2> QED
    BY <1>1, <1>5, <2>1 DEF ReadyInv, OffCpu
<1>6. ASSUME lock_loop PROVE ReadyInv'
  BY <1>3, <1>4, <1>6 DEF lock_loop, block
<1>7. ASSUME lock_entry PROVE ReadyInv'
  BY <1>4, <1>6, <1>7 DEF lock_entry, lock_again
<1>8. CASE mutex_lock \/ mutex_lock_resume \/ condvar_wait_resume
  BY <1>6, <1>7, <1>8 DEF mutex_lock, mutex_lock_resume, condvar_wait_resume
<1>9. CASE mutex_trylock
  BY <1>4, <1>9 DEF mutex_trylock, lock_again
<1>10. CASE mutex_unlock
  <2>1. state' = unlock_wakeup(state).st /\ UNCHANGED current_process
    BY <1>10 DEF mutex_unlock
  <2> QED
    BY <1>1, <2>1, UnlockWakeup DEF ReadyInv, OffCpu
<1>11. ASSUME NEW label \in {"cv", "cv_timeout"}, condvar_wait(label)
       PROVE  ReadyInv'
  <2> DEFINE st == unlock_wakeup(waiting).st
  <2>1. st \in [Pid -> States] /\ OffCpu(st)
    BY UnlockWakeup, WaitingTable
  <2>2. \/ state' = st /\ UNCHANGED current_process
        \/ process_yield(st)
    BY <1>11 DEF condvar_wait
  <2> HIDE DEF st
  <2>3. CASE state' = st /\ UNCHANGED current_process
    BY <1>1, <2>1, <2>3 DEF ReadyInv, OffCpu
  <2>4. CASE process_yield(st)
    BY <1>1, <2>1, <2>4, YieldKeepsReady
  <2> QED
    BY <2>2, <2>3, <2>4
<1>12. CASE condvar_timeout_expired
  BY <1>3, <1>4, <1>12 DEF condvar_timeout_expired
<1>13. CASE condvar_timeout_resume
  BY <1>2, <1>7, <1>13 DEF condvar_timeout_resume
<1>14. CASE condvar_signal
  BY <1>1, <1>5, <1>14, WakeOneOnlyWakes DEF condvar_signal
<1>15. CASE condvar_broadcast
  BY <1>1, <1>5, <1>15, WakeAllOnlyWakes DEF condvar_broadcast
<1>16. ASSUME NEW label \in {"down", "down_timeout"}, semaphore_down(label)
       PROVE  ReadyInv'
  BY <1>3, <1>4, <1>16 DEF semaphore_down, block
<1>17. CASE semaphore_down_resume \/ down_timeout_expired
  BY <1>4, <1>17 DEF semaphore_down_resume, down_timeout_expired
<1>18. CASE down_timeout_resume
  BY <1>2, <1>4, <1>18 DEF down_timeout_resume
<1>19. CASE semaphore_up
  <2> DEFINE r == IF count + 1 <= 0 THEN wait_queue_wake_one(wq["sem"], state)
                                    ELSE woken(wq["sem"], state, FALSE)
  <2>1. OnlyWakes(state, r.st)
    <3>1. CASE count + 1 <= 0
      BY <1>1, <3>1, WakeOneOnlyWakes
    <3>2. CASE ~(count + 1 <= 0)
      BY <1>1, <3>2 DEF woken, OnlyWakes
    <3> QED
      BY <3>1, <3>2, Zenon
  <2>2. state' = r.st /\ UNCHANGED current_process
    BY <1>19 DEF semaphore_up
  <2> HIDE DEF r
  <2> QED
    BY <1>5, <2>1, <2>2
<1>20. CASE completion_wait
  BY <1>3, <1>20 DEF completion_wait, block
<1>21. CASE completion_complete
  BY <1>1, <1>5, <1>21, WakeAllOnlyWakes DEF completion_complete
<1>22. CASE barrier_wait
  BY <1>1, <1>3, <1>5, <1>22, WakeAllOnlyWakes DEF barrier_wait, block
<1>23. CASE sync_yield
  BY <1>2, <1>23 DEF sync_yield
<1>24. CASE UNCHANGED vars
  BY <1>4, <1>24 DEF vars, procVars
<1> QED
  BY <1>8, <1>9, <1>10, <1>11, <1>12, <1>13, <1>14, <1>15, <1>16, <1>17, <1>18,
     <1>19, <1>20, <1>21, <1>22, <1>23, <1>24
  DEF SyncNext

(***************************************************************************)
(* No scan for a WAITING node in sync.c can find a process other than the  *)
(* one that runs it: process_yield has made every waiter READY again.      *)
(***************************************************************************)
THEOREM OnlyCurrentWaits == SyncSpec => []WaitingIsCurrent
<1>1. ReadyInv => WaitingIsCurrent
  BY DEF ReadyInv, OffCpu, WaitingIsCurrent, self, READY, WAITING
<1> QED
  BY <1>1, ReadyInit, ReadyStep, PTL DEF SyncSpec

-----------------------------------------------------------------------------
(* The semaphore's count *)

(* The processes that have taken a unit and not been let past the wait. *)
Down == {p \in Pid : pc[p] \in {"down", "down_timeout"}}

(***************************************************************************)
(* The inductive invariant: the types, the accounting, and that a process  *)
(* in semaphore_down is not also past one.  Without the last part the      *)
(* return from the wait could count a process twice.                       *)
(***************************************************************************)
SemInv ==
  /\ current_process \in Pid
  /\ pc \in [Pid -> Labels]
  /\ inside \subseteq Pid
  /\ count \in Int
  /\ \A p \in inside : p \notin Down
  /\ SemaphoreAccounting

(* A set of processes is finite. *)
LEMMA PidSubsetFinite ==
  ASSUME NEW T, T \subseteq Pid
  PROVE  IsFiniteSet(T) /\ Cardinality(T) \in Nat
<1>1. IsFiniteSet(Pid)
  BY ProcessMaxAssumption, FS_Interval DEF Pid
<1>2. IsFiniteSet(T)
  BY <1>1, FS_Subset
<1> QED
  BY <1>2, FS_CardinalityType

(* What SemInv says of the count, with the sets that it counts finite. *)
LEMMA DownFinite ==
  SemInv => /\ IsFiniteSet(inside) /\ Cardinality(inside) \in Nat
            /\ IsFiniteSet(Down) /\ Cardinality(Down) \in Nat
            /\ count = SEM_INIT - Cardinality(inside) - Cardinality(Down)
BY PidSubsetFinite DEF SemInv, Down, SemaphoreAccounting

(* A step that leaves the semaphore alone and moves nobody into or out of a *)
(* semaphore_down.                                                          *)
LEMMA SemFrame ==
  ASSUME SemInv, UNCHANGED semVars, current_process' \in Pid,
         pc' \in [Pid -> Labels], Down' = Down
  PROVE  SemInv'
<1>1. SemaphoreAccounting'
  BY DEF SemInv, SemaphoreAccounting, semVars, Down
<1> QED
  BY <1>1 DEF SemInv, semVars

(* A move between labels outside of semaphore_down. *)
LEMMA GotoKeepsDown ==
  ASSUME SemInv, NEW label \in Labels \ {"down", "down_timeout"}, goto(label),
         pc[self] \notin {"down", "down_timeout"}
  PROVE  pc' \in [Pid -> Labels] /\ Down' = Down
BY DEF SemInv, goto, self, Down

(* A move into semaphore_down. *)
LEMMA GotoEntersDown ==
  ASSUME SemInv, NEW label \in {"down", "down_timeout"}, goto(label)
  PROVE  pc' \in [Pid -> Labels] /\ Down' = Down \cup {self}
BY DEF SemInv, goto, self, Down, Labels

(* A return from semaphore_down. *)
LEMMA GotoLeavesDown ==
  ASSUME SemInv, goto("run")
  PROVE  pc' \in [Pid -> Labels] /\ Down' = Down \ {self}
BY DEF SemInv, goto, self, Down, Labels

(* A step in which nobody moves. *)
LEMMA SamePcKeepsDown ==
  ASSUME SemInv, UNCHANGED pc
  PROVE  pc' \in [Pid -> Labels] /\ Down' = Down
BY DEF SemInv, Down

(* mutex_lock moves its caller, and not into or out of semaphore_down. *)
LEMMA LockEntryKeepsSem ==
  ASSUME SemInv, UNCHANGED semVars, lock_entry,
         pc[self] \notin {"down", "down_timeout"}
  PROVE  SemInv'
<1>1. current_process \in Pid
  BY DEF SemInv
<1>2. current_process' \in Pid
  BY <1>1, YieldPid DEF lock_entry, lock_again, lock_loop, block
<1>3. goto("run") \/ goto("lock")
  BY DEF lock_entry, lock_again, lock_loop
<1>4. pc' \in [Pid -> Labels] /\ Down' = Down
  BY <1>3, GotoKeepsDown DEF Labels
<1> QED
  BY <1>2, <1>4, SemFrame

(* semaphore_init: nobody is past it or in it. *)
LEMMA SemInit == sync_init => SemInv
<1> SUFFICES ASSUME sync_init
             PROVE  SemInv
  OBVIOUS
<1>1. current_process \in Pid /\ pc \in [Pid -> Labels]
  BY ProcessMaxAssumption DEF sync_init, Pid, Labels
<1>2. inside = {} /\ Down = {} /\ count = SEM_INIT
  BY DEF sync_init, Down
<1>3. Cardinality({}) = 0
  BY FS_EmptySet
<1>4. SemaphoreAccounting
  BY <1>2, <1>3, SyncAssumption DEF SemaphoreAccounting, Down
<1> QED
  BY <1>1, <1>2, <1>4, SyncAssumption DEF SemInv

(* Every step keeps the count of the semaphore. *)
LEMMA SemStep == SemInv /\ [SyncNext]_vars => SemInv'
<1> SUFFICES ASSUME SemInv, [SyncNext]_vars
             PROVE  SemInv'
  OBVIOUS
<1>0. /\ current_process \in Pid /\ self \in Pid
      /\ \A st : process_yield(st) => current_process' \in Pid
  BY YieldPid DEF SemInv, self
<1>1. ASSUME UNCHANGED <<semVars, pc>>, current_process' \in Pid
      PROVE  SemInv'
  BY <1>1, SamePcKeepsDown, SemFrame
<1>2. CASE mutex_lock \/ condvar_wait_resume
  BY <1>2, LockEntryKeepsSem DEF mutex_lock, condvar_wait_resume, Calls, At
<1>3. CASE mutex_lock_resume
  <2>1. current_process' \in Pid /\ UNCHANGED semVars
    BY <1>0, <1>3 DEF mutex_lock_resume, lock_loop, block
  <2>2. goto("run") \/ goto("lock")
    BY <1>3 DEF mutex_lock_resume, lock_loop
  <2>3. pc' \in [Pid -> Labels] /\ Down' = Down
    BY <1>3, <2>2, GotoKeepsDown DEF mutex_lock_resume, At, Labels
  <2> QED
    BY <2>1, <2>3, SemFrame
<1>4. CASE mutex_trylock
  <2>1. goto("run") /\ UNCHANGED <<semVars, current_process>>
    BY <1>4 DEF mutex_trylock, lock_again
  <2>2. pc' \in [Pid -> Labels] /\ Down' = Down
    BY <1>4, <2>1, GotoKeepsDown DEF mutex_trylock, Calls, At, Labels
  <2> QED
    BY <1>0, <2>1, <2>2, SemFrame
<1>5. CASE mutex_unlock \/ condvar_signal \/ condvar_broadcast
  BY <1>0, <1>1, <1>5 DEF mutex_unlock, condvar_signal, condvar_broadcast
<1>6. ASSUME NEW label \in {"cv", "cv_timeout"}, condvar_wait(label)
      PROVE  SemInv'
  <2>1. UNCHANGED semVars /\ current_process' \in Pid
    BY <1>0, <1>6 DEF condvar_wait
  <2>2. UNCHANGED pc \/ goto(label)
    BY <1>6 DEF condvar_wait
  <2>3. pc' \in [Pid -> Labels] /\ Down' = Down
    BY <1>6, <2>2, GotoKeepsDown, SamePcKeepsDown DEF condvar_wait, Calls, At, Labels
  <2> QED
    BY <2>1, <2>3, SemFrame
<1>7. CASE condvar_timeout_expired
  <2>1. UNCHANGED semVars /\ current_process' \in Pid
    BY <1>0, <1>7 DEF condvar_timeout_expired
  <2>2. goto("run") \/ goto("lock")
    BY <1>7 DEF condvar_timeout_expired
  <2>3. pc' \in [Pid -> Labels] /\ Down' = Down
    BY <1>7, <2>2, GotoKeepsDown DEF condvar_timeout_expired, At, Labels
  <2> QED
    BY <2>1, <2>3, SemFrame
<1>8. CASE condvar_timeout_resume
  BY <1>0, <1>1, <1>8, LockEntryKeepsSem DEF condvar_timeout_resume, At
<1>9. ASSUME NEW label \in {"down", "down_timeout"}, semaphore_down(label)
      PROVE  SemInv'
  <2>1. /\ count' = count - 1 /\ self \notin inside
        /\ pc[self] = "run" /\ self \notin Down /\ current_process' \in Pid
    BY <1>0, <1>9 DEF semaphore_down, block, Calls, At, Down
  <2>2. CASE goto(label) /\ UNCHANGED inside
    <3>1. pc' \in [Pid -> Labels] /\ Down' = Down \cup {self}
      BY <2>2, GotoEntersDown
    <3>2. Cardinality(Down') = Cardinality(Down) + 1
      BY <2>1, <3>1, DownFinite, FS_AddElement, Zenon
    <3>3. SemaphoreAccounting'
      BY <2>1, <2>2, <3>2, DownFinite, SyncAssumption DEF SemaphoreAccounting, Down
    <3> QED
      BY <2>1, <2>2, <3>1, <3>3 DEF SemInv
  <2>3. CASE inside' = inside \cup {self} /\ UNCHANGED pc
    <3>1. Cardinality(inside') = Cardinality(inside) + 1
      BY <2>1, <2>3, DownFinite, FS_AddElement, Zenon
    <3>2. pc' \in [Pid -> Labels] /\ Down' = Down
      BY <2>3, SamePcKeepsDown
    <3>3. Cardinality(Down') = Cardinality(Down)
      BY <3>2
    <3>4. SemaphoreAccounting'
      BY <2>1, <3>1, <3>3, DownFinite, SyncAssumption DEF SemaphoreAccounting, Down
    <3> QED
      BY <1>0, <2>1, <2>3, <3>2, <3>4 DEF SemInv
  <2> QED
    BY <1>9, <2>2, <2>3 DEF semaphore_down
<1>10. ASSUME self \in Down, inside' = inside \cup {self}, goto("run"),
              UNCHANGED count, current_process' \in Pid
       PROVE  SemInv'
  <2>1. pc' \in [Pid -> Labels] /\ Down' = Down \ {self}
    BY <1>10, GotoLeavesDown
  <2>2. self \notin inside
    BY <1>10 DEF SemInv
  <2>3. Cardinality(Down') = Cardinality(Down) - 1
    BY <1>10, <2>1, DownFinite, FS_RemoveElement, Zenon
  <2>4. Cardinality(inside') = Cardinality(inside) + 1
    BY <1>10, <2>2, DownFinite, FS_AddElement, Zenon
  <2>5. SemaphoreAccounting'
    BY <1>10, <2>3, <2>4, DownFinite, SyncAssumption DEF SemaphoreAccounting, Down
  <2> QED
    BY <1>0, <1>10, <2>1, <2>5 DEF SemInv
<1>11. CASE semaphore_down_resume
  BY <1>0, <1>10, <1>11 DEF semaphore_down_resume, At, Down
<1>12. CASE down_timeout_expired
  <2>1. /\ self \in Down /\ goto("run") /\ count' = count + 1 /\ UNCHANGED inside
        /\ current_process' \in Pid
    BY <1>0, <1>12 DEF down_timeout_expired, At, Down
  <2>2. pc' \in [Pid -> Labels] /\ Down' = Down \ {self}
    BY <2>1, GotoLeavesDown
  <2>3. Cardinality(Down') = Cardinality(Down) - 1
    BY <2>1, <2>2, DownFinite, FS_RemoveElement, Zenon
  <2>4. SemaphoreAccounting'
    BY <2>1, <2>3, DownFinite, SyncAssumption DEF SemaphoreAccounting, Down
  <2> QED
    BY <2>1, <2>2, <2>4 DEF SemInv
<1>13. CASE down_timeout_resume
  <2>1. CASE state[self] # WAITING
    BY <1>0, <1>10, <1>13, <2>1 DEF down_timeout_resume, At, Down
  <2>2. CASE state[self] = WAITING
    BY <1>0, <1>1, <1>13, <2>2 DEF down_timeout_resume, semVars
  <2> QED
    BY <2>1, <2>2
<1>14. CASE semaphore_up
  <2>1. /\ self \in inside /\ inside' = inside \ {self} /\ count' = count + 1
        /\ current_process' \in Pid /\ UNCHANGED pc
    BY <1>0, <1>14 DEF semaphore_up
  <2>2. Cardinality(inside') = Cardinality(inside) - 1
    BY <2>1, DownFinite, FS_RemoveElement, Zenon
  <2>3. pc' \in [Pid -> Labels] /\ Down' = Down
    BY <2>1, SamePcKeepsDown
  <2>4. SemaphoreAccounting'
    BY <2>1, <2>2, <2>3, DownFinite, SyncAssumption DEF SemaphoreAccounting, Down
  <2> QED
    BY <2>1, <2>3, <2>4 DEF SemInv
<1>15. CASE completion_wait \/ completion_complete
  BY <1>0, <1>1, <1>15 DEF completion_wait, completion_complete, block
<1>16. CASE barrier_wait \/ sync_yield
  BY <1>0, <1>1, <1>16 DEF barrier_wait, sync_yield, block
<1>17. CASE UNCHANGED vars
  BY <1>0, <1>1, <1>17 DEF vars, procVars, syncVars
<1> QED
  BY <1>2, <1>3, <1>4, <1>5, <1>6, <1>7, <1>8, <1>9, <1>11, <1>12, <1>13, <1>14,
     <1>15, <1>16, <1>17
  DEF SyncNext

(***************************************************************************)
(* semaphore_down, its timed variant and semaphore_up keep the count equal *)
(* to the initial value minus the processes past the semaphore minus those *)
(* still in it, for any number of processes and any initial value: a wait  *)
(* that times out returns its unit once, and only once.                    *)
(***************************************************************************)
THEOREM SemaphoreCounts == SyncSpec => []SemaphoreAccounting
<1>1. SemInv => SemaphoreAccounting
  BY DEF SemInv
<1> QED
  BY <1>1, SemInit, SemStep, PTL DEF SyncSpec

-----------------------------------------------------------------------------
(* Types *)

(* A walk along a list ends at a process, at its end, or never. *)
LEMMA WalkType ==
  ASSUME NEW w, NEW st, NEW start
  PROVE  walk(w, st, start) \in Pid \cup {NIL, LOOP}
<1> DEFINE at   == visit(w, start)
           hits == {k \in 0 .. PROCESS_MAX : at[k] \in Pid /\ st[at[k]] = WAITING}
           least == CHOOSE k \in hits : \A j \in hits : k <= j
<1>1. CASE hits = {}
  BY <1>1 DEF walk
<1>2. CASE hits # {}
  <2>1. walk(w, st, start) = at[least]
    BY <1>2 DEF walk
  <2>2. hits \subseteq Nat
    BY ProcessMaxAssumption
  <2>3. least \in hits
    <3> HIDE DEF hits
    <3>1. \E k \in hits : \A j \in hits : k <= j
      BY <1>2, <2>2, LeastExists, Zenon
    <3> QED
      BY <3>1
  <2> QED
    BY <2>1, <2>3
<1> QED
  BY <1>1, <1>2

(* __wq_add keeps the links of a list links. *)
LEMMA AddType ==
  ASSUME NEW w \in WaitQueues, NEW p \in Pid
  PROVE  __wq_add(w, p) \in WaitQueues
<1> DEFINE n == [w EXCEPT !.next[p] = NIL, !.prev[p] = w.tail, !.tail = p]
<1>1. n \in WaitQueues
  BY Zenon DEF WaitQueues, Link
<1>2. CASE w.tail = NIL
  BY <1>1, <1>2, Zenon DEF __wq_add, WaitQueues, Link
<1>3. CASE w.tail # NIL
  BY <1>1, <1>3, Zenon DEF __wq_add, WaitQueues, Link
<1> QED
  BY <1>2, <1>3

(* __wq_remove keeps the links of a list links. *)
LEMMA RemoveType ==
  ASSUME NEW w \in WaitQueues, NEW p \in Pid
  PROVE  __wq_remove(w, p) \in WaitQueues
<1> DEFINE a == IF w.prev[p] # NIL THEN [w EXCEPT !.next[w.prev[p]] = w.next[p]]
                                   ELSE [w EXCEPT !.head = w.next[p]]
           b == IF a.next[p] # NIL THEN [a EXCEPT !.prev[a.next[p]] = a.prev[p]]
                                   ELSE [a EXCEPT !.tail = a.prev[p]]
<1>1. a \in WaitQueues
  BY DEF WaitQueues, Link
<1>2. b \in WaitQueues
  <2> HIDE DEF a
  <2> QED
    BY <1>1 DEF WaitQueues, Link
<1>3. __wq_remove(w, p) = [b EXCEPT !.next[p] = NIL, !.prev[p] = NIL]
  BY DEF __wq_remove
<1> HIDE DEF b
<1>4. ASSUME NEW v \in WaitQueues
      PROVE  [v EXCEPT !.next[p] = NIL, !.prev[p] = NIL] \in WaitQueues
  BY Zenon DEF WaitQueues, Link
<1> QED
  BY <1>2, <1>3, <1>4, Zenon

(* The queue and the flag of what a wake-up returns. *)
Woken(r) == r.w \in WaitQueues /\ r.hang \in BOOLEAN

(* What a wake-up is made of, a list and a flag, has this type. *)
LEMMA WokenType ==
  ASSUME NEW w \in WaitQueues, NEW st, NEW h \in BOOLEAN
  PROVE  Woken(woken(w, st, h))
BY DEF Woken, woken

(* wait_queue_wake_one leaves the list a list. *)
LEMMA WakeOneType ==
  ASSUME NEW w \in WaitQueues, NEW st
  PROVE  Woken(wait_queue_wake_one(w, st))
<1> DEFINE n == walk(w, st, w.head)
<1>1. CASE n \in {NIL, LOOP}
  BY <1>1, WokenType, Zenon DEF wait_queue_wake_one
<1>2. CASE n \notin {NIL, LOOP}
  <2>1. __wq_remove(w, n) \in WaitQueues
    BY <1>2, WalkType, RemoveType
  <2>2. wait_queue_wake_one(w, st)
          = woken(__wq_remove(w, n), [st EXCEPT ![n] = READY], FALSE)
    BY <1>2 DEF wait_queue_wake_one
  <2> QED
    BY <2>1, <2>2, WokenType, Zenon
<1> QED
  BY <1>1, <1>2

(* wait_queue_wake_all does too, wherever the list leads. *)
LEMMA WakeAllType ==
  ASSUME NEW w \in WaitQueues, NEW st
  PROVE  Woken(wait_queue_wake_all(w, st))
<1> DEFINE n == walk(w, st, w.head)
           st2 == [st EXCEPT ![n] = READY]
           rest == walk(__wq_remove(w, n), st2, w.next[n])
<1>1. CASE n \in {NIL, LOOP}
  BY <1>1, WokenType, Zenon DEF wait_queue_wake_all
<1>2. CASE n \notin {NIL, LOOP}
  <2>1. __wq_remove(w, n) \in WaitQueues
    BY <1>2, WalkType, RemoveType
  <2>2. wait_queue_wake_all(w, st) = woken(__wq_remove(w, n), st2, rest = LOOP)
    BY <1>2 DEF wait_queue_wake_all
  <2> QED
    BY <2>1, <2>2, WokenType, Zenon
<1> QED
  BY <1>1, <1>2

(* What SyncTypeOK says beyond MutexInv, ReadyInv and SemInv. *)
QueuesOK ==
  /\ wq \in [Objects -> WaitQueues]
  /\ halted \in BOOLEAN
  /\ waits \in 0 .. MaxWaits
  /\ done \in {0, 1}
  /\ arrived \in 0 .. THRESHOLD

(* The variables that no primitive changes. *)
IdleOK ==
  /\ priority \in [Pid -> 0 .. 4]
  /\ process_count \in 1 .. PROCESS_MAX
  /\ wait_for \in [Pid -> {ANY_CHILD} \cup Pid]
  /\ sleepers \subseteq Pid
  /\ kind \in Kinds

(* The part of the process table that sync.c leaves alone, at the start. *)
LEMMA IdleInit == sync_init => IdleOK
<1> SUFFICES ASSUME sync_init
             PROVE  IdleOK
  OBVIOUS
<1>1. priority \in [Pid -> 0 .. 4]
  BY DEF sync_init, PRIORITY_IDLE, PRIORITY_NORMAL
<1>2. process_count \in 1 .. PROCESS_MAX
  BY ProcessMaxAssumption DEF sync_init
<1>3. wait_for \in [Pid -> {ANY_CHILD} \cup Pid]
  BY ProcessMaxAssumption DEF sync_init, NO_WAIT, Pid
<1> QED
  BY <1>1, <1>2, <1>3 DEF sync_init, IdleOK

(* No primitive touches it. *)
LEMMA IdleStep == IdleOK /\ [SyncNext]_vars => IdleOK'
<1> SUFFICES ASSUME IdleOK, [SyncNext]_vars
             PROVE  IdleOK'
  OBVIOUS
<1>1. UNCHANGED idleVars
  BY Zenon DEF SyncNext, mutex_lock, mutex_lock_resume, mutex_trylock, mutex_unlock,
     condvar_wait, condvar_wait_resume, condvar_timeout_expired,
     condvar_timeout_resume, condvar_signal, condvar_broadcast, semaphore_down,
     semaphore_down_resume, down_timeout_expired, down_timeout_resume,
     semaphore_up, completion_wait, completion_complete, barrier_wait,
     sync_yield, vars, procVars, syncVars, idleVars
<1> QED
  BY <1>1 DEF IdleOK, idleVars

(* At the start the lists are empty, and nobody has arrived at the barrier. *)
LEMMA QueuesInit == sync_init => QueuesOK
<1> SUFFICES ASSUME sync_init
             PROVE  QueuesOK
  OBVIOUS
<1>1. wait_queue_init \in WaitQueues
  BY DEF wait_queue_init, WaitQueues, Link
<1>2. wq \in [Objects -> WaitQueues]
  BY <1>1 DEF sync_init
<1>3. halted \in BOOLEAN
  BY Zenon DEF sync_init
<1> QED
  BY <1>2, <1>3, SyncAssumption DEF sync_init, QueuesOK

(* The three things a step can do to the wait queues. *)
LEMMA BlockKeeps ==
  ASSUME QueuesOK, current_process \in Pid, NEW o \in Objects, block(o)
  PROVE  wq' \in [Objects -> WaitQueues] /\ waits' \in 0 .. MaxWaits
BY AddType, SyncAssumption DEF QueuesOK, block, may_wait, self

(* A wake-up on an object keeps all lists lists. *)
LEMMA WakeKeeps ==
  ASSUME QueuesOK, NEW o \in Objects, NEW r, Woken(r), wake(o, r)
  PROVE  /\ wq' \in [Objects -> WaitQueues] /\ waits' \in 0 .. MaxWaits
         /\ halted' \in BOOLEAN
BY DEF QueuesOK, wake, Woken

(* mutex_lock adds its caller to the list of the mutex. *)
LEMMA LockEntryKeepsQueues ==
  ASSUME QueuesOK, current_process \in Pid, lock_entry \/ lock_loop
  PROVE  wq' \in [Objects -> WaitQueues] /\ waits' \in 0 .. MaxWaits
<1>1. CASE block("mtx")
  BY <1>1, BlockKeeps DEF Objects
<1>2. CASE UNCHANGED <<wq, waits>>
  BY <1>2 DEF QueuesOK
<1> QED
  BY <1>1, <1>2 DEF lock_entry, lock_loop, lock_again

(* The wake-up in mutex_unlock returns a list, states, and whether it hung. *)
LEMMA UnlockWakeupType ==
  ASSUME QueuesOK, NEW st
  PROVE  Woken(unlock_wakeup(st))
<1>1. wq["mtx"] \in WaitQueues
  BY DEF QueuesOK, Objects
<1> QED
  BY <1>1, WokenType, WakeOneType, Zenon DEF unlock_wakeup

(* Every step keeps all lists lists, and the completion and the barrier in bounds. *)
LEMMA QueuesStep ==
  QueuesOK /\ current_process \in Pid /\ [SyncNext]_vars => QueuesOK'
<1> SUFFICES ASSUME QueuesOK, current_process \in Pid, [SyncNext]_vars
             PROVE  QueuesOK'
  OBVIOUS
<1>0. /\ self \in Pid
      /\ \A o \in Objects : wq[o] \in WaitQueues
  BY DEF QueuesOK, self
<1>1. ASSUME wq' \in [Objects -> WaitQueues], waits' \in 0 .. MaxWaits,
             UNCHANGED <<halted, done, arrived>>
      PROVE  QueuesOK'
  BY <1>1, Zenon DEF QueuesOK
<1>2. ASSUME wq' \in [Objects -> WaitQueues], waits' \in 0 .. MaxWaits,
             halted' \in BOOLEAN, UNCHANGED <<done, arrived>>
      PROVE  QueuesOK'
  BY <1>2, Zenon DEF QueuesOK
<1>3. ASSUME UNCHANGED <<wq, waits, halted, done, arrived>>
      PROVE  QueuesOK'
  BY <1>3, Zenon DEF QueuesOK
<1>4. CASE mutex_lock \/ mutex_lock_resume \/ condvar_wait_resume
  BY <1>1, <1>4, LockEntryKeepsQueues
  DEF mutex_lock, mutex_lock_resume, condvar_wait_resume
<1>5. CASE mutex_trylock
  BY <1>3, <1>5 DEF mutex_trylock, lock_again
<1>6. CASE mutex_unlock
  BY <1>2, <1>6, UnlockWakeupType, WakeKeeps DEF mutex_unlock, Objects
<1>7. ASSUME NEW label \in {"cv", "cv_timeout"}, condvar_wait(label)
      PROVE  QueuesOK'
  <2> DEFINE r == unlock_wakeup(waiting)
  <2>1. Woken(r)
    BY UnlockWakeupType
  <2>2. /\ wq' = [wq EXCEPT !["cv"] = __wq_add(@, self), !["mtx"] = r.w]
        /\ halted' = r.hang /\ may_wait /\ UNCHANGED <<done, arrived>>
    BY <1>7 DEF condvar_wait
  <2> HIDE DEF r
  <2>3. wq' \in [Objects -> WaitQueues]
    BY <1>0, <2>1, <2>2, AddType DEF QueuesOK, Woken, Objects
  <2>4. waits' \in 0 .. MaxWaits
    BY <2>2, SyncAssumption DEF may_wait, QueuesOK
  <2> QED
    BY <1>2, <2>1, <2>2, <2>3, <2>4 DEF Woken
<1>8. CASE condvar_timeout_expired
  <2> DEFINE w == IF linked(wq["cv"], self) THEN __wq_remove(wq["cv"], self)
                                             ELSE wq["cv"]
  <2>1. w \in WaitQueues
    BY <1>0, RemoveType DEF Objects
  <2>2. \/ wq' = [wq EXCEPT !["cv"] = w] /\ UNCHANGED waits
        \/ wq' = [wq EXCEPT !["cv"] = w, !["mtx"] = __wq_add(@, self)] /\ may_wait
    BY <1>8 DEF condvar_timeout_expired
  <2> HIDE DEF w
  <2>3. wq' \in [Objects -> WaitQueues]
    BY <1>0, <2>1, <2>2, AddType DEF QueuesOK, Objects
  <2>4. waits' \in 0 .. MaxWaits
    BY <2>2, SyncAssumption DEF may_wait, QueuesOK
  <2> QED
    BY <1>1, <1>8, <2>3, <2>4 DEF condvar_timeout_expired
<1>9. CASE condvar_timeout_resume
  <2>1. CASE lock_entry
    BY <1>1, <1>9, <2>1, LockEntryKeepsQueues DEF condvar_timeout_resume
  <2>2. CASE UNCHANGED <<wq, waits>>
    BY <1>3, <1>9, <2>2 DEF condvar_timeout_resume
  <2> QED
    BY <1>9, <2>1, <2>2 DEF condvar_timeout_resume
<1>10. CASE condvar_signal
  BY <1>0, <1>2, <1>10, WakeOneType, WakeKeeps DEF condvar_signal, Objects
<1>11. CASE condvar_broadcast
  BY <1>0, <1>2, <1>11, WakeAllType, WakeKeeps DEF condvar_broadcast, Objects
<1>12. ASSUME NEW label \in {"down", "down_timeout"}, semaphore_down(label)
       PROVE  QueuesOK'
  <2>1. CASE block("sem")
    BY <1>1, <1>12, <2>1, BlockKeeps DEF semaphore_down, Objects
  <2>2. CASE UNCHANGED <<wq, waits>>
    BY <1>3, <1>12, <2>2 DEF semaphore_down
  <2> QED
    BY <1>12, <2>1, <2>2 DEF semaphore_down
<1>13. CASE semaphore_down_resume \/ down_timeout_resume \/ sync_yield
  BY <1>3, <1>13 DEF semaphore_down_resume, down_timeout_resume, sync_yield
<1>14. CASE down_timeout_expired
  <2>1. wq' \in [Objects -> WaitQueues]
    BY <1>0, <1>14, RemoveType DEF down_timeout_expired, QueuesOK, Objects
  <2> QED
    BY <1>1, <1>14, <2>1 DEF down_timeout_expired, QueuesOK
<1>15. CASE semaphore_up
  <2> DEFINE r == IF count + 1 <= 0 THEN wait_queue_wake_one(wq["sem"], state)
                                    ELSE woken(wq["sem"], state, FALSE)
  <2>1. Woken(r)
    BY <1>0, WakeOneType, WokenType, Zenon DEF Objects
  <2>2. wake("sem", r) /\ UNCHANGED <<done, arrived>>
    BY <1>15, Zenon DEF semaphore_up
  <2> HIDE DEF r
  <2> QED
    BY <1>2, <2>1, <2>2, WakeKeeps DEF Objects
<1>16. CASE completion_wait
  BY <1>1, <1>16, BlockKeeps DEF completion_wait, Objects
<1>17. CASE completion_complete
  <2>1. Woken(wait_queue_wake_all(wq["done"], state))
    BY <1>0, WakeAllType DEF Objects
  <2>2. /\ wake("done", wait_queue_wake_all(wq["done"], state))
        /\ done' = 1 /\ UNCHANGED arrived
    BY <1>17 DEF completion_complete
  <2>3. /\ wq' \in [Objects -> WaitQueues] /\ waits' \in 0 .. MaxWaits
        /\ halted' \in BOOLEAN
    BY <2>1, <2>2, WakeKeeps DEF Objects
  <2> QED
    BY <2>2, <2>3, Zenon DEF QueuesOK
<1>18. CASE barrier_wait
  <2>1. CASE arrived + 1 < THRESHOLD
    <3>1. arrived' = arrived + 1 /\ block("bar") /\ UNCHANGED <<halted, done>>
      BY <1>18, <2>1, SyncAssumption DEF barrier_wait, QueuesOK
    <3>2. wq' \in [Objects -> WaitQueues] /\ waits' \in 0 .. MaxWaits
      BY <3>1, BlockKeeps DEF Objects
    <3>3. arrived' \in 0 .. THRESHOLD
      BY <2>1, <3>1, SyncAssumption DEF QueuesOK
    <3> QED
      BY <3>1, <3>2, <3>3, Zenon DEF QueuesOK
  <2>2. CASE ~(arrived + 1 < THRESHOLD)
    <3> DEFINE r == wait_queue_wake_all(wq["bar"], state)
               w == IF r.hang THEN r.w ELSE [r.w EXCEPT !.head = NIL, !.tail = NIL]
    <3>1. Woken(r)
      BY <1>0, WakeAllType DEF Objects
    <3>2. /\ arrived' = 0 /\ halted' = r.hang /\ wq' = [wq EXCEPT !["bar"] = w]
          /\ UNCHANGED <<waits, done>>
      BY <1>18, <2>2 DEF barrier_wait
    <3> HIDE DEF r
    <3>3. w \in WaitQueues
      BY <3>1, Zenon DEF Woken, WaitQueues, Link
    <3> HIDE DEF w
    <3>4. wq' \in [Objects -> WaitQueues]
      BY <3>2, <3>3, Zenon DEF QueuesOK
    <3>5. arrived' \in 0 .. THRESHOLD
      BY <3>2, SyncAssumption
    <3> QED
      BY <3>1, <3>2, <3>4, <3>5, Zenon DEF QueuesOK, Woken
  <2> QED
    BY <2>1, <2>2
<1>19. CASE UNCHANGED vars
  BY <1>3, <1>19 DEF vars, procVars, syncVars
<1> QED
  BY <1>4, <1>5, <1>6, <1>7, <1>8, <1>9, <1>10, <1>11, <1>12, <1>13, <1>14, <1>15,
     <1>16, <1>17, <1>18, <1>19
  DEF SyncNext

(***************************************************************************)
(* Every object of sync.c keeps the type of its C declaration: the links   *)
(* of the wait queues name processes or NULL after any sequence of waits,  *)
(* wake-ups and expired deadlines, and the counters stay in range.         *)
(***************************************************************************)
THEOREM SyncTypes == SyncSpec => []SyncTypeOK
<1> DEFINE Inv == MutexInv /\ ReadyInv /\ SemInv /\ IdleOK /\ QueuesOK
<1>1. sync_init => Inv
  BY MutexInit, ReadyInit, SemInit, IdleInit, QueuesInit
<1>2. Inv /\ [SyncNext]_vars => Inv'
  <2>1. ReadyInv => current_process \in Pid
    BY DEF ReadyInv
  <2> QED
    BY <2>1, MutexStep, ReadyStep, SemStep, IdleStep, QueuesStep
<1>3. Inv => SyncTypeOK
  BY Zenon DEF MutexInv, ReadyInv, SemInv, IdleOK, QueuesOK, SyncTypeOK, ProcTypeOK
<1> QED
  BY <1>1, <1>2, <1>3, PTL DEF SyncSpec
=============================================================================
