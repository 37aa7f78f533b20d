-------------------------------- MODULE Sync --------------------------------
(***************************************************************************)
(* The wait queues of kernel/wait.c and, on them, the blocking primitives  *)
(* of kernel/sync.c: semaphore, mutex, condition variable, completion and  *)
(* barrier.  Objects share nothing but the process table, so a behaviour   *)
(* uses one kind of them.  A step runs from where a process got the CPU to *)
(* the process_yield that takes it away, or to its return to the caller.   *)
(*                                                                         *)
(* The callers are disciplined: a mutex is unlocked, or waited with, by    *)
(* its owner only, and semaphore_up gives back what a semaphore_down of    *)
(* the same process obtained.                                              *)
(***************************************************************************)
EXTENDS Process, FiniteSets

CONSTANTS
  SEM_INIT,        \* the argument of semaphore_init
  THRESHOLD,       \* the argument of barrier_init
  MaxRecurse,      \* bound: nesting depth of mutex_lock
  MaxWaits         \* bound: waits of all processes together

ASSUME SyncAssumption ==
  /\ SEM_INIT \in Nat /\ THRESHOLD \in Nat \ {0}
  /\ MaxRecurse \in Nat \ {0} /\ MaxWaits \in Nat

VARIABLES
  kind,                           \* what the processes use in this behaviour
  locked, owner, recurse_count,   \* the mutex
  count,                          \* the semaphore
  done,                           \* the completion
  arrived,                        \* the barrier's count
  wq,                             \* the waiters of each object
  waits,                          \* how often a process has been queued so far
  pc,                             \* where in sync.c a process was switched out
  held,        \* history: mutex_lock returns minus mutex_unlock calls, per process
  inside       \* history: processes past a semaphore_down they have not undone

mtxVars  == <<locked, owner, recurse_count, held>>
semVars  == <<count, inside>>
syncVars == <<kind, mtxVars, semVars, done, arrived, wq, waits, pc>>
idleVars == <<priority, process_count, wait_for, sleepers, kind>>
vars     == <<procVars, syncVars>>

-----------------------------------------------------------------------------
(***************************************************************************)
(* The wait queues of kernel/wait.c: doubly linked lists whose nodes are   *)
(* local variables of the waiting functions, one per process.  The list    *)
(* operations are pure functions of the queue w and of the table st of     *)
(* process states; sync.c open-codes the same operations on the queues of  *)
(* its objects.                                                            *)
(*                                                                         *)
(* A node stays linked when its function returns without having been woken *)
(* (wait_queue_wait, semaphore_down, mutex_lock ... never unlink it), and  *)
(* the next wait of that process in the same queue links the same stack    *)
(* slot again.  The model keeps the links such a slot last had.            *)
(***************************************************************************)
NIL  == -1          \* the NULL pointer
LOOP == -2          \* result of a walk that never ends

Link == Pid \cup {NIL}

WaitQueues == [head : Link, tail : Link, next : [Pid -> Link], prev : [Pid -> Link]]

wait_queue_init ==
  [head |-> NIL, tail |-> NIL,
   next |-> [p \in Pid |-> NIL], prev |-> [p \in Pid |-> NIL]]

__wq_add(w, p) ==
  LET n == [w EXCEPT !.next[p] = NIL, !.prev[p] = w.tail, !.tail = p]
  IN  IF w.tail = NIL THEN [n EXCEPT !.head = p]
                      ELSE [n EXCEPT !.next[w.tail] = p]

__wq_remove(w, p) ==
  LET a == IF w.prev[p] # NIL THEN [w EXCEPT !.next[w.prev[p]] = w.next[p]]
                              ELSE [w EXCEPT !.head = w.next[p]]
      b == IF a.next[p] # NIL THEN [a EXCEPT !.prev[a.next[p]] = a.prev[p]]
                              ELSE [a EXCEPT !.tail = a.prev[p]]
  IN  [b EXCEPT !.next[p] = NIL, !.prev[p] = NIL]

(* The test by which a timed wait finds out whether it is still linked. *)
linked(w, p) == w.next[p] # NIL \/ w.prev[p] # NIL \/ w.head = p

(* The k-th node a walk that starts at the given node comes to. *)
visit(w, start) ==
  LET at[k \in 0 .. PROCESS_MAX] ==
        IF k = 0 THEN start
        ELSE IF at[k - 1] = NIL THEN NIL ELSE w.next[at[k - 1]]
  IN  at

(* Where the loop "while (node)" that looks for a WAITING process stops.    *)
(* More steps than there are nodes mean that it goes round for ever.        *)
walk(w, st, start) ==
  LET at   == visit(w, start)
      hits == {k \in 0 .. PROCESS_MAX : at[k] \in Pid /\ st[at[k]] = WAITING}
  IN  IF hits # {}
        THEN at[CHOOSE k \in hits : \A j \in hits : k <= j]
        ELSE IF at[PROCESS_MAX] = NIL THEN NIL ELSE LOOP

(***************************************************************************)
(* What a wake-up leaves: the queue, the table, and whether it returns at  *)
(* all.  Only the process on the CPU can be in state WAITING, so waking    *)
(* all wakes at most one node too; the loop then goes on from that node's  *)
(* old successor.                                                          *)
(***************************************************************************)
woken(w, st, hang) == [w |-> w, st |-> st, hang |-> hang]

wait_queue_wake_one(w, st) ==
  LET n == walk(w, st, w.head)
  IN  IF n \in {NIL, LOOP}
        THEN woken(w, st, n = LOOP)
        ELSE woken(__wq_remove(w, n), [st EXCEPT ![n] = READY], FALSE)

wait_queue_wake_all(w, st) ==
  LET n    == walk(w, st, w.head)
      w2   == __wq_remove(w, n)
      st2  == [st EXCEPT ![n] = READY]
      rest == walk(w2, st2, w.next[n])
  IN  IF n \in {NIL, LOOP}
        THEN woken(w, st, n = LOOP)
        ELSE woken(w2, st2, rest = LOOP)

-----------------------------------------------------------------------------
Kinds   == {"mutex", "semaphore", "completion", "barrier"}
Objects == {"mtx", "sem", "cv", "done", "bar"}
Labels  == {"run", "lock", "down", "down_timeout", "cv", "cv_timeout"}

self == current_process
NO_OWNER == -1

(* Every process of the table has been created and the boot process runs. *)
sync_init ==
  /\ state = [p \in Pid |-> READY]
  /\ priority = [p \in Pid |-> IF p = 0 THEN PRIORITY_IDLE ELSE PRIORITY_NORMAL]
  /\ current_process = 0
  /\ process_count = PROCESS_MAX
  /\ wait_for = [p \in Pid |-> NO_WAIT]
  /\ sleepers = {}
  /\ halted = FALSE
  /\ kind \in Kinds
  /\ locked = 0 /\ owner = NO_OWNER /\ recurse_count = 0
  /\ count = SEM_INIT
  /\ done = 0
  /\ arrived = 0
  /\ wq = [o \in Objects |-> wait_queue_init]
  /\ waits = 0
  /\ pc = [p \in Pid |-> "run"]
  /\ held = [p \in Pid |-> 0]
  /\ inside = {}

-----------------------------------------------------------------------------
At(label) == ~halted /\ pc[self] = label
Calls(k)  == At("run") /\ kind = k

(* Go on at the given label, the next time the process has the CPU. *)
goto(label) == pc' = [pc EXCEPT ![self] = label]

(* Link the caller's node, mark the caller WAITING, give up the CPU. *)
may_wait == waits < MaxWaits /\ waits' = waits + 1
waiting  == [state EXCEPT ![self] = WAITING]
block(o) ==
  /\ may_wait
  /\ wq' = [wq EXCEPT ![o] = __wq_add(@, self)]
  /\ process_yield(waiting)

(* A wake-up that returns, or that hangs with the object's spinlock held. *)
wake(o, r) ==
  /\ UNCHANGED waits
  /\ wq' = [wq EXCEPT ![o] = r.w]
  /\ halted' = r.hang

-----------------------------------------------------------------------------
(* Mutex *)

acquire ==
  /\ locked' = 1 /\ owner' = self /\ recurse_count' = 1
  /\ held' = [held EXCEPT ![self] = @ + 1]

(* The test of the loop of mutex_lock, at entry and after each wait. *)
lock_loop ==
  \/ /\ locked = 0
     /\ acquire
     /\ goto("run")
     /\ UNCHANGED <<state, current_process, wq, waits>>
  \/ /\ locked = 1
     /\ block("mtx")
     /\ goto("lock")
     /\ UNCHANGED mtxVars

lock_again ==
  /\ locked = 1 /\ owner = self
  /\ recurse_count' = recurse_count + 1
  /\ held' = [held EXCEPT ![self] = @ + 1]
  /\ goto("run")
  /\ UNCHANGED <<locked, owner, state, current_process, wq, waits>>

lock_entry == lock_again \/ (~(locked = 1 /\ owner = self) /\ lock_loop)

mutex_lock ==
  /\ Calls("mutex")
  /\ held[self] < MaxRecurse
  /\ lock_entry
  /\ UNCHANGED <<idleVars, halted, semVars, done, arrived>>

(* Mutant: a waiter takes the mutex without testing it again. *)
lock_without_retest ==
  /\ At("lock")
  /\ acquire
  /\ goto("run")
  /\ UNCHANGED <<state, current_process, wq, waits, idleVars, halted, semVars,
                 done, arrived>>

mutex_lock_resume ==
  /\ At("lock")
  /\ lock_loop
  /\ UNCHANGED <<idleVars, halted, semVars, done, arrived>>

mutex_trylock ==
  /\ Calls("mutex")
  /\ held[self] < MaxRecurse
  /\ \/ locked = 0 /\ acquire /\ goto("run") /\ UNCHANGED <<state, current_process, wq, waits>>
     \/ lock_again
  /\ UNCHANGED <<idleVars, halted, semVars, done, arrived>>

(* mutex_unlock, called when the table is st; r is what its wake-up leaves. *)
unlock_count ==
  /\ recurse_count' = recurse_count - 1
  /\ held' = [held EXCEPT ![self] = @ - 1]
  /\ locked' = IF recurse_count' > 0 THEN locked ELSE 0
  /\ owner' = IF recurse_count' > 0 THEN owner ELSE NO_OWNER

unlock_wakeup(st) ==
  IF recurse_count > 1 THEN woken(wq["mtx"], st, FALSE)
                       ELSE wait_queue_wake_one(wq["mtx"], st)

mutex_unlock ==
  LET r == unlock_wakeup(state) IN
  /\ Calls("mutex")
  /\ locked = 1 /\ owner = self
  /\ unlock_count
  /\ wake("mtx", r)
  /\ state' = r.st
  /\ UNCHANGED <<current_process, idleVars, semVars, done, arrived, pc>>

-----------------------------------------------------------------------------
(* Condition variable: wait with or without a deadline *)

condvar_wait(label) ==
  LET r == unlock_wakeup(waiting) IN
  /\ Calls("mutex")
  /\ locked = 1 /\ owner = self
  /\ unlock_count
  /\ may_wait
  /\ wq' = [wq EXCEPT !["cv"] = __wq_add(@, self), !["mtx"] = r.w]
  /\ halted' = r.hang
  /\ IF r.hang
       THEN state' = r.st /\ UNCHANGED <<current_process, pc>>
       ELSE goto(label) /\ process_yield(r.st)
  /\ UNCHANGED <<idleVars, semVars, done, arrived>>

condvar_wait_resume ==
  /\ At("cv")
  /\ lock_entry
  /\ UNCHANGED <<idleVars, halted, semVars, done, arrived>>

(***************************************************************************)
(* condvar_wait_timeout after its process_yield: the deadline has passed   *)
(* (the node is unlinked if it is still linked), or it has not and the     *)
(* state tells whether the process was woken; then mutex_lock.             *)
(***************************************************************************)
condvar_timeout_expired ==
  LET w == IF linked(wq["cv"], self) THEN __wq_remove(wq["cv"], self) ELSE wq["cv"] IN
  /\ At("cv_timeout")
  /\ \/ /\ ~(locked = 1 /\ owner = self)
        /\ \/ /\ locked = 0
              /\ acquire /\ goto("run")
              /\ wq' = [wq EXCEPT !["cv"] = w]
              /\ UNCHANGED <<state, current_process, waits>>
           \/ /\ locked = 1
              /\ may_wait
              /\ wq' = [wq EXCEPT !["cv"] = w, !["mtx"] = __wq_add(@, self)]
              /\ process_yield(waiting)
              /\ goto("lock")
              /\ UNCHANGED mtxVars
     \/ /\ locked = 1 /\ owner = self
        /\ recurse_count' = recurse_count + 1
        /\ held' = [held EXCEPT ![self] = @ + 1]
        /\ wq' = [wq EXCEPT !["cv"] = w]
        /\ goto("run")
        /\ UNCHANGED <<locked, owner, state, current_process, waits>>
  /\ UNCHANGED <<idleVars, halted, semVars, done, arrived>>

condvar_timeout_resume ==
  /\ At("cv_timeout")
  /\ \/ state[self] # WAITING /\ lock_entry
     \/ state[self] = WAITING /\ process_yield(state) /\ UNCHANGED <<mtxVars, wq, waits, pc>>
  /\ UNCHANGED <<idleVars, halted, semVars, done, arrived>>

condvar_signal ==
  LET r == wait_queue_wake_one(wq["cv"], state) IN
  /\ Calls("mutex")
  /\ wake("cv", r) /\ state' = r.st
  /\ UNCHANGED <<current_process, idleVars, mtxVars, semVars, done, arrived, pc>>

condvar_broadcast ==
  LET r == wait_queue_wake_all(wq["cv"], state) IN
  /\ Calls("mutex")
  /\ wake("cv", r) /\ state' = r.st
  /\ UNCHANGED <<current_process, idleVars, mtxVars, semVars, done, arrived, pc>>

-----------------------------------------------------------------------------
(* Semaphore *)

semaphore_down(label) ==
  /\ Calls("semaphore")
  /\ self \notin inside
  /\ count' = count - 1
  /\ \/ /\ count' < 0
        /\ block("sem") /\ goto(label)
        /\ UNCHANGED inside
     \/ /\ count' >= 0
        /\ inside' = inside \cup {self}
        /\ UNCHANGED <<state, current_process, wq, waits, pc>>
  /\ UNCHANGED <<idleVars, halted, mtxVars, done, arrived>>

semaphore_down_resume ==
  /\ At("down")
  /\ inside' = inside \cup {self}
  /\ goto("run")
  /\ UNCHANGED <<state, current_process, idleVars, halted, mtxVars, count, done,
                 arrived, wq, waits>>

(* Mutant: a timed-out wait keeps the unit it took. *)
expired_keeps_unit ==
  /\ At("down_timeout")
  /\ wq' = [wq EXCEPT !["sem"] = IF linked(@, self) THEN __wq_remove(@, self) ELSE @]
  /\ goto("run")
  /\ UNCHANGED <<state, current_process, idleVars, halted, mtxVars, semVars, done,
                 arrived, waits>>

(* semaphore_down_timeout after its process_yield, deadline passed. *)
down_timeout_expired ==
  /\ At("down_timeout")
  /\ wq' = [wq EXCEPT !["sem"] = IF linked(@, self) THEN __wq_remove(@, self) ELSE @]
  /\ count' = count + 1
  /\ goto("run")
  /\ UNCHANGED <<state, current_process, idleVars, halted, mtxVars, inside, done,
                 arrived, waits>>

down_timeout_resume ==
  /\ At("down_timeout")
  /\ \/ /\ state[self] # WAITING
        /\ inside' = inside \cup {self}
        /\ goto("run")
        /\ UNCHANGED <<state, current_process>>
     \/ /\ state[self] = WAITING
        /\ process_yield(state)
        /\ UNCHANGED <<inside, pc>>
  /\ UNCHANGED <<idleVars, halted, mtxVars, count, done, arrived, wq, waits>>

semaphore_up ==
  LET r == IF count + 1 <= 0 THEN wait_queue_wake_one(wq["sem"], state)
                             ELSE woken(wq["sem"], state, FALSE) IN
  /\ Calls("semaphore")
  /\ self \in inside
  /\ inside' = inside \ {self}
  /\ count' = count + 1
  /\ wake("sem", r) /\ state' = r.st
  /\ UNCHANGED <<current_process, idleVars, mtxVars, done, arrived, pc>>

-----------------------------------------------------------------------------
(* Completion and barrier: nothing is left to do after their process_yield *)

completion_wait ==
  /\ Calls("completion")
  /\ done = 0
  /\ block("done")
  /\ UNCHANGED <<idleVars, halted, mtxVars, semVars, done, arrived, pc>>

completion_complete ==
  LET r == wait_queue_wake_all(wq["done"], state) IN
  /\ Calls("completion")
  /\ done = 0
  /\ done' = 1
  /\ wake("done", r) /\ state' = r.st
  /\ UNCHANGED <<current_process, idleVars, mtxVars, semVars, arrived, pc>>

(* Mutant: the last one to arrive does not reset the count. *)
barrier_without_reset ==
  LET r == wait_queue_wake_all(wq["bar"], state) IN
  /\ Calls("barrier")
  /\ arrived' = arrived + 1
  /\ \/ /\ arrived' >= THRESHOLD
        /\ wake("bar", r) /\ state' = r.st
        /\ UNCHANGED current_process
     \/ /\ arrived' < THRESHOLD
        /\ block("bar")
        /\ UNCHANGED halted
  /\ UNCHANGED <<idleVars, mtxVars, semVars, done, pc>>

barrier_wait ==
  LET r == wait_queue_wake_all(wq["bar"], state) IN
  /\ Calls("barrier")
  /\ \/ /\ arrived + 1 >= THRESHOLD
        /\ arrived' = 0
        /\ halted' = r.hang
        /\ wq' = [wq EXCEPT !["bar"] =
                    IF r.hang THEN r.w ELSE [r.w EXCEPT !.head = NIL, !.tail = NIL]]
        /\ state' = r.st
        /\ UNCHANGED <<current_process, waits>>
     \/ /\ arrived + 1 < THRESHOLD
        /\ arrived' = arrived + 1
        /\ block("bar")
        /\ UNCHANGED halted
  /\ UNCHANGED <<idleVars, mtxVars, semVars, done, pc>>

-----------------------------------------------------------------------------
(* The caller's own code gives up the CPU between two calls. *)
sync_yield ==
  /\ At("run")
  /\ process_yield(state)
  /\ UNCHANGED <<idleVars, halted, mtxVars, semVars, done, arrived, wq, waits, pc>>

SyncNext ==
  \/ mutex_lock \/ mutex_lock_resume \/ mutex_trylock \/ mutex_unlock
  \/ \E label \in {"cv", "cv_timeout"} : condvar_wait(label)
  \/ condvar_wait_resume \/ condvar_timeout_expired \/ condvar_timeout_resume
  \/ condvar_signal \/ condvar_broadcast
  \/ \E label \in {"down", "down_timeout"} : semaphore_down(label)
  \/ semaphore_down_resume \/ down_timeout_expired \/ down_timeout_resume
  \/ semaphore_up
  \/ completion_wait \/ completion_complete
  \/ barrier_wait
  \/ sync_yield

SyncSpec == sync_init /\ [][SyncNext]_vars

-----------------------------------------------------------------------------
(* Every variable has the type of the C object it stands for. *)
SyncTypeOK ==
  /\ ProcTypeOK
  /\ kind \in Kinds
  /\ locked \in {0, 1} /\ owner \in Pid \cup {NO_OWNER} /\ recurse_count \in Nat
  /\ count \in Int /\ done \in {0, 1} /\ arrived \in 0 .. THRESHOLD
  /\ wq \in [Objects -> WaitQueues]
  /\ waits \in 0 .. MaxWaits
  /\ pc \in [Pid -> Labels]
  /\ held \in [Pid -> Nat]
  /\ inside \subseteq Pid

(***************************************************************************)
(* The mutex excludes: a process has mutex_lock calls to undo exactly when *)
(* the mutex names it as owner, and then recurse_count is their number.    *)
(* This holds although a waiter is never woken by mutex_unlock (it finds   *)
(* the mutex free when round robin brings it back), across condvar_wait    *)
(* and its timed variant, nested locking included.                         *)
(***************************************************************************)
MutualExclusion ==
  /\ locked = 1 <=> owner # NO_OWNER
  /\ \A p \in Pid : held[p] = IF owner = p THEN recurse_count ELSE 0
  /\ locked = 0 => recurse_count = 0

(***************************************************************************)
(* Only the process on the CPU can be in state WAITING, so the scans for a *)
(* WAITING node in semaphore_up, mutex_unlock, condvar_signal ... never    *)
(* find another process.                                                   *)
(***************************************************************************)
WaitingIsCurrent == \A p \in Pid : state[p] = WAITING => p = self

(***************************************************************************)
(* The semaphore's count accounts for every process past semaphore_down    *)
(* and for every one still in it: a timed-out wait gives back exactly what *)
(* it took.                                                                *)
(***************************************************************************)
SemaphoreAccounting ==
  count = SEM_INIT - Cardinality(inside)
                   - Cardinality({p \in Pid : pc[p] \in {"down", "down_timeout"}})

(***************************************************************************)
(* What README.md ("信号量") and semaphore_down's own test of the count say: *)
(* no more processes are past semaphore_down than the semaphore was        *)
(* initialised for.                                                        *)
(***************************************************************************)
SemaphoreBound == Cardinality(inside) <= SEM_INIT

=============================================================================
