------------------------------ MODULE Process ------------------------------
(***************************************************************************)
(* The process table and the cooperative scheduler: kernel/process.c, the  *)
(* process calls of the K API on top of it (api/kapi_process.c,            *)
(* api/kapi_sched.c) and msleep of kernel/timer.c.                         *)
(*                                                                         *)
(* One CPU runs (the application processors are never started), so the     *)
(* code between two calls of process_yield is one step of the process that *)
(* current_process names.  The timer interrupt is the only thing that can  *)
(* come in between.                                                        *)
(***************************************************************************)
EXTENDS Integers

CONSTANT PROCESS_MAX            \* entries of processes[]

ASSUME ProcessMaxAssumption == PROCESS_MAX \in Nat /\ PROCESS_MAX >= 2

VARIABLES
  state,            \* processes[p].state
  priority,         \* processes[p].priority
  current_process,
  process_count,
  wait_for,         \* the argument of the kapi_proc_wait call p is in
  sleepers,         \* the processes whose msleep timer is still queued
  halted            \* control has left the code below (see process_return)

procVars == <<state, priority, current_process, process_count, wait_for,
              sleepers, halted>>

Pid == 0 .. PROCESS_MAX - 1

TERMINATED == "TERMINATED"
READY      == "READY"
RUNNING    == "RUNNING"
SLEEPING   == "SLEEPING"
WAITING    == "WAITING"
STOPPED    == "STOPPED"
DEAD       == "DEAD"
UNUSED     == "UNUSED"

States == {TERMINATED, READY, RUNNING, SLEEPING, WAITING, STOPPED, DEAD, UNUSED}

PRIORITY_IDLE   == 0
PRIORITY_NORMAL == 2

ANY_CHILD == -1     \* kapi_proc_wait(-1)
NO_WAIT   == 0      \* not waiting: kapi_proc_wait refuses pid 0

(***************************************************************************)
(* Boot: process_init clears the table, kernel_main then calls             *)
(* process_create("idle", ..., 0).  That gives slot 0 to the boot context, *)
(* which goes on running (as the shell) with its slot marked READY.        *)
(***************************************************************************)
process_init ==
  /\ state = [p \in Pid |-> IF p = 0 THEN READY ELSE UNUSED]
  /\ priority = [p \in Pid |-> PRIORITY_IDLE]
  /\ current_process = 0
  /\ process_count = 1
  /\ wait_for = [p \in Pid |-> NO_WAIT]
  /\ sleepers = {}
  /\ halted = FALSE

-----------------------------------------------------------------------------
(* Mutant: the scan always begins at slot 1. *)
Succ_from_start(i) == i % PROCESS_MAX

(* The i-th slot after the current one, as process_yield scans them. *)
Succ(i) == (current_process + i) % PROCESS_MAX

(***************************************************************************)
(* process_yield, called when the table is st (the caller's own stores to  *)
(* processes[].state included).  The CPU goes to the first READY slot      *)
(* after the caller's, and the caller is marked READY whatever it was; if  *)
(* there is no such slot the caller keeps the CPU and its state.           *)
(***************************************************************************)
(* Mutant: the outgoing process keeps the state it stored. *)
switch_keeps_state(st, i) ==
  /\ st[Succ(i)] = READY
  /\ \A j \in 1 .. i - 1 : st[Succ(j)] # READY
  /\ state' = [st EXCEPT ![Succ(i)] = RUNNING]
  /\ current_process' = Succ(i)

switch(st, i) ==
  /\ st[Succ(i)] = READY
  /\ \A j \in 1 .. i - 1 : st[Succ(j)] # READY
  /\ state' = [st EXCEPT ![current_process] = READY, ![Succ(i)] = RUNNING]
  /\ current_process' = Succ(i)

no_switch(st) ==
  /\ process_count <= 1 \/ \A i \in 1 .. PROCESS_MAX - 1 : st[Succ(i)] # READY
  /\ state' = st
  /\ UNCHANGED current_process

process_yield(st) ==
  \/ process_count > 1 /\ \E i \in 1 .. PROCESS_MAX - 1 : switch(st, i)
  \/ no_switch(st)

(* The current process executes kernel code on behalf of its caller. *)
Active == ~halted /\ wait_for[current_process] = NO_WAIT

Yield ==
  /\ Active
  /\ process_yield(state)
  /\ UNCHANGED <<priority, process_count, wait_for, sleepers, halted>>

(* thread_create -> process_create_ex: the first UNUSED slot. *)
FirstUnused(pid) ==
  /\ state[pid] = UNUSED
  /\ \A q \in Pid : q < pid => state[q] # UNUSED

(* Mutant: the count is advanced by the slot number. *)
create_miscounts(pid, prio) ==
  /\ FirstUnused(pid)
  /\ priority' = [priority EXCEPT ![pid] = prio]
  /\ state' = [state EXCEPT ![pid] = READY]
  /\ process_count' = process_count + pid

process_create_ex(pid, prio) ==
  /\ FirstUnused(pid)
  /\ priority' = [priority EXCEPT ![pid] = prio]
  /\ \/ /\ state' = [state EXCEPT ![pid] = READY]
        /\ process_count' = IF pid >= process_count THEN pid + 1 ELSE process_count
     \/ UNCHANGED <<state, process_count>>           \* no memory for the stack

ThreadCreate ==
  /\ Active
  /\ \E pid \in Pid : process_create_ex(pid, PRIORITY_NORMAL)
  /\ UNCHANGED <<current_process, wait_for, sleepers, halted>>

(* Mutant: an exiting process gives its slot back. *)
exit_frees_slot ==
  /\ Active
  /\ state' = [state EXCEPT ![current_process] = UNUSED]
  /\ UNCHANGED <<priority, current_process, process_count, wait_for, sleepers,
                 halted>>

(* process_exit only marks the slot: its caller goes on. *)
process_exit ==
  /\ Active
  /\ state' = [state EXCEPT ![current_process] = DEAD]
  /\ UNCHANGED <<priority, current_process, process_count, wait_for, sleepers,
                 halted>>

(***************************************************************************)
(* The entry function of a thread returns to __process_trampoline, which   *)
(* calls process_exit and then returns past the top of the thread's stack: *)
(* nothing the code says determines what runs next.                        *)
(***************************************************************************)
process_return ==
  /\ Active
  /\ current_process # 0
  /\ state' = [state EXCEPT ![current_process] = DEAD]
  /\ halted' = TRUE
  /\ UNCHANGED <<priority, current_process, process_count, wait_for, sleepers>>

kapi_set_current_state(s) ==
  /\ Active
  /\ state' = [state EXCEPT ![current_process] = s]
  /\ UNCHANGED <<priority, current_process, process_count, wait_for, sleepers,
                 halted>>

(* kapi_proc_kill and kapi_proc_kill_by_pid. *)
kapi_proc_kill(pid) ==
  /\ Active
  /\ pid < process_count
  /\ state' = [state EXCEPT ![pid] = TERMINATED]
  /\ UNCHANGED <<priority, current_process, process_count, wait_for, sleepers,
                 halted>>

(* One turn of the loop of kapi_proc_wait: return, or yield and look again. *)
Reapable(who) ==
  \E i \in 0 .. process_count - 1 :
    (who = ANY_CHILD \/ i = who) /\ state[i] = TERMINATED

wait_turn(who) ==
  /\ \/ /\ Reapable(who)
        /\ wait_for' = [wait_for EXCEPT ![current_process] = NO_WAIT]
        /\ UNCHANGED <<state, current_process>>
     \/ /\ ~Reapable(who)
        /\ wait_for' = [wait_for EXCEPT ![current_process] = who]
        /\ process_yield(state)
  /\ UNCHANGED <<priority, process_count, sleepers, halted>>

(* pid > 0 must name a slot in use, otherwise KAPI_ERROR is returned. *)
kapi_proc_wait(who) ==
  /\ Active
  /\ who = ANY_CHILD \/ who \in 1 .. process_count - 1
  /\ wait_turn(who)

WaitAgain ==
  /\ ~halted
  /\ wait_for[current_process] # NO_WAIT
  /\ wait_turn(wait_for[current_process])

msleep ==
  /\ Active
  /\ sleepers' = sleepers \cup {current_process}
  /\ process_yield([state EXCEPT ![current_process] = SLEEPING])
  /\ UNCHANGED <<priority, process_count, wait_for, halted>>

(* __msleep_wakeup, from the timer interrupt, at any time. *)
msleep_wakeup(p) ==
  /\ ~halted
  /\ p \in sleepers
  /\ sleepers' = sleepers \ {p}
  /\ state' = [state EXCEPT ![p] = READY]
  /\ UNCHANGED <<priority, current_process, process_count, wait_for, halted>>

-----------------------------------------------------------------------------
ProcNext ==
  \/ Yield
  \/ ThreadCreate
  \/ process_exit
  \/ process_return
  \/ \E s \in {RUNNING, SLEEPING, STOPPED, DEAD, READY} : kapi_set_current_state(s)
  \/ \E pid \in Pid : kapi_proc_kill(pid)
  \/ \E who \in {ANY_CHILD} \cup Pid : kapi_proc_wait(who)
  \/ WaitAgain
  \/ msleep
  \/ \E p \in Pid : msleep_wakeup(p)

ProcSpec == process_init /\ [][ProcNext]_procVars

(***************************************************************************)
(* The scheduler is cooperative: the fairness is that the process on the   *)
(* CPU gets back to process_yield, from its own code or from the loop of   *)
(* kapi_proc_wait.                                                         *)
(***************************************************************************)
ProcFairness == WF_procVars(Yield) /\ WF_procVars(WaitAgain)

FairProcSpec == ProcSpec /\ ProcFairness

-----------------------------------------------------------------------------
(* Every variable has the type of the C object it stands for. *)
ProcTypeOK ==
  /\ state \in [Pid -> States]
  /\ priority \in [Pid -> 0 .. 4]
  /\ current_process \in Pid
  /\ process_count \in 1 .. PROCESS_MAX
  /\ wait_for \in [Pid -> {ANY_CHILD} \cup Pid]
  /\ sleepers \subseteq Pid
  /\ halted \in BOOLEAN

(***************************************************************************)
(* A process that is off the CPU is READY, killed, or an empty slot: the   *)
(* state a caller stored before process_yield (SLEEPING, WAITING, STOPPED, *)
(* DEAD) never outlives the switch, so no wake-up can be lost and no       *)
(* blocked process needs one.  In particular at most one slot is RUNNING.  *)
(***************************************************************************)
OffCpuSchedulable ==
  \A p \in Pid \ {current_process} : state[p] \in {READY, TERMINATED, UNUSED}

(***************************************************************************)
(* process_count is exactly the number of slots ever handed out, and they  *)
(* are the first ones: the loops of kapi_process.c that run to             *)
(* process_count miss no process and meet no empty slot.                   *)
(***************************************************************************)
SlotsContiguous == \A p \in Pid : state[p] # UNUSED <=> p < process_count

(***************************************************************************)
(* Round robin starves nobody: a READY process gets the CPU, unless it is  *)
(* killed or the machine is gone.                                          *)
(***************************************************************************)
ReadyRuns ==
  \A p \in Pid :
    (state[p] = READY) ~> (current_process = p \/ state[p] = TERMINATED \/ halted)

(***************************************************************************)
(* What README.md ("5 级优先级轮转调度") and the boot banner of kernel.c       *)
(* ("Scheduler: 5-level priority RR") say of process_yield: the CPU is     *)
(* never passed to a process while one of a higher priority is READY.      *)
(***************************************************************************)
PriorityRoundRobin ==
  [][current_process' # current_process =>
       \A p \in Pid \ {current_process} :
         state[p] = READY => priority[p] <= priority[current_process']]_procVars

(***************************************************************************)
(* What the comment in kapi_proc_wait ("等待特定子进程") says the loop is for:  *)
(* a process that waits for a child which has exited gets its answer.      *)
(***************************************************************************)
ExitEndsWait ==
  \A p, q \in Pid :
    (p # q /\ wait_for[p] = q /\ state[q] = DEAD) ~> (wait_for[p] = NO_WAIT \/ halted)

=============================================================================
