------------------------------ MODULE Kthread ------------------------------
(***************************************************************************)
(* Kernel threads (kernel/kthread.c).  kthread_create makes the process    *)
(* first and stores its kthread_data afterwards; the timer interrupt may   *)
(* run the new process in between, whose entry then finds no data and      *)
(* marks itself DEAD.  The slot of a thread is not given back: the process *)
(* table frees a slot only when its process is killed (Process), which     *)
(* nobody does to a thread here.  The creator of a thread joins it at most *)
(* once; anyone may stop it.  The function of a thread is external: it     *)
(* returns when it sees should_stop, or earlier.                           *)
(***************************************************************************)
EXTENDS Integers

CONSTANTS KtSlot,     \* process slots, used in this order: 1 .. n
          KtUser      \* processes that create, stop and join

VARIABLES
  kthread_data,   \* per slot: 1 when it points to the kthread_t of the slot
  kt,             \* per slot, its kthread_t: [mem, should_stop, has_stopped]
  thread,         \* per slot: "none", "READY", "running", "DEAD"
  maker,          \* per slot: the process that made it, or "none"
  kt_call         \* per user: [op, slot], or op = "none"

ktVars == <<kthread_data, kt, thread, maker, kt_call>>

no_call == [op |-> "none", slot |-> 0]

kthread_init ==
  /\ kthread_data = [s \in KtSlot |-> 0]
  /\ kt = [s \in KtSlot |-> [mem |-> "none", should_stop |-> 0, has_stopped |-> 0]]
  /\ thread = [s \in KtSlot |-> "none"]
  /\ maker = [s \in KtSlot |-> "none"]
  /\ kt_call = [u \in KtUser |-> no_call]

(* kthread_create up to the return of process_create_ex; s is free. *)
kthread_create(u, s) ==
  /\ kt_call[u].op = "none" /\ thread[s] = "none"
  /\ \A t \in KtSlot : t < s => thread[t] # "none"
  /\ kt' = [kt EXCEPT ![s].mem = "live"]
  /\ thread' = [thread EXCEPT ![s] = "READY"]
  /\ maker' = [maker EXCEPT ![s] = u]
  /\ kt_call' = [kt_call EXCEPT ![u] = [op |-> "create", slot |-> s]]
  /\ UNCHANGED kthread_data

(* The rest of kthread_create, and kthread_run, whose kthread_wake stores the
   READY the process already has (once DEAD it stays in its trampoline
   whatever its state).  Without a slot the kthread_t is freed again and
   nothing is left of the call. *)
kthread_created(u) ==
  LET s == kt_call[u].slot
  IN  /\ kt_call[u].op = "create"
      /\ kthread_data' = [kthread_data EXCEPT ![s] = 1]
      /\ kt_call' = [kt_call EXCEPT ![u] = no_call]
      /\ UNCHANGED <<kt, thread, maker>>

(* kthread_entry up to the call of the function. *)
kthread_entry(s) ==
  /\ thread[s] = "READY"
  /\ thread' = [thread EXCEPT ![s] = IF kthread_data[s] = 0 THEN "DEAD" ELSE "running"]
  /\ UNCHANGED <<kthread_data, kt, maker, kt_call>>

(* The function returns; the rest of kthread_entry. *)
kthread_return(s) ==
  /\ thread[s] = "running"
  /\ kt' = [kt EXCEPT ![s].has_stopped = 1]
  /\ thread' = [thread EXCEPT ![s] = "DEAD"]
  /\ UNCHANGED <<kthread_data, maker, kt_call>>

kthread_stop(u, s) ==
  /\ kt_call[u].op = "none" /\ kthread_data[s] = 1
  /\ kt' = [kt EXCEPT ![s].should_stop = 1]
  /\ UNCHANGED <<kthread_data, thread, maker, kt_call>>

(* What follows the loop of kthread_join. *)
freed_kt(s) ==
  /\ kt' = [kt EXCEPT ![s].mem = "freed"]
  /\ kthread_data' = [kthread_data EXCEPT ![s] = 0]

kthread_join(u, s) ==
  /\ kt_call[u].op = "none" /\ maker[s] = u /\ kthread_data[s] = 1
  /\ IF kt[s].has_stopped = 1 THEN freed_kt(s) /\ UNCHANGED kt_call
     ELSE kt_call' = [kt_call EXCEPT ![u] = [op |-> "join", slot |-> s]] /\ UNCHANGED <<kt, kthread_data>>
  /\ UNCHANGED <<thread, maker>>

kthread_join_resume(u) ==
  LET s == kt_call[u].slot
  IN  /\ kt_call[u].op = "join" /\ kt[s].has_stopped = 1
      /\ freed_kt(s)
      /\ kt_call' = [kt_call EXCEPT ![u] = no_call]
      /\ UNCHANGED <<thread, maker>>

KtNext ==
  \/ \E u \in KtUser, s \in KtSlot :
       kthread_create(u, s) \/ kthread_stop(u, s) \/ kthread_join(u, s)
  \/ \E u \in KtUser : kthread_created(u) \/ kthread_join_resume(u)
  \/ \E s \in KtSlot : kthread_entry(s) \/ kthread_return(s)
-----------------------------------------------------------------------------
KtTypeOK ==
  /\ kthread_data \in [KtSlot -> 0 .. 1]
  /\ kt \in [KtSlot -> [mem : {"none", "live", "freed"}, should_stop : 0 .. 1, has_stopped : 0 .. 1]]
  /\ thread \in [KtSlot -> {"none", "READY", "running", "DEAD"}]
  /\ maker \in [KtSlot -> KtUser \cup {"none"}]
  /\ kt_call \in [KtUser -> [op : {"none", "create", "join"}, slot : KtSlot \cup {0}]]

(* kthread_join frees the kthread_t that the thread, the join that waits   *)
(* and any kthread_stop use: while kthread_data, a running thread or a     *)
(* waiting join has the pointer, the object is live, and it is freed only  *)
(* after its thread has run and is through with it.                        *)
KthreadSafe ==
  \A s \in KtSlot :
    /\ kthread_data[s] = 1 \/ thread[s] = "running" => kt[s].mem = "live"
    /\ \A u \in KtUser : kt_call[u].slot = s => kt[s].mem = "live"
    /\ kt[s].mem = "freed" => thread[s] = "DEAD" /\ kt[s].has_stopped = 1
=============================================================================
