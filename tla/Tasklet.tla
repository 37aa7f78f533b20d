------------------------------ MODULE Tasklet ------------------------------
(***************************************************************************)
(* The tasklets of kernel/workqueue.c.  A tasklet's count holds one for a  *)
(* run that is due and one for every tasklet_disable; users enable only    *)
(* what they have disabled.  tasklet_run_pending gives the lock up around  *)
(* each function, which may schedule tasklets and may yield, so several    *)
(* processes can be in it.                                                 *)
(***************************************************************************)
EXTENDS Integers, Sequences, Functions

CONSTANTS Tasklets, Runner, TASKLET_MAX, MaxDisable, NoTasklet

ASSUME TaskletAssumption ==
  /\ TASKLET_MAX \in Nat \ {0} /\ MaxDisable \in Nat
  /\ "out" \notin Tasklets /\ "loop" \notin Tasklets /\ NoTasklet \notin Tasklets

VARIABLES
  tasklet_list,     \* the first tasklet_count entries
  tstate, count,    \* per tasklet
  disables,         \* history: disables not yet undone
  dropped,          \* history: scheduled when there was no room
  runner,           \* per process: "out", "loop" or the tasklet it runs
  killing           \* per process: the argument of its tasklet_kill

taskletVars == <<tasklet_list, tstate, count, disables, dropped, runner, killing>>

tasklet_init_subsystem ==
  /\ tasklet_list = << >>
  /\ tstate = [t \in Tasklets |-> "IDLE"]
  /\ count = [t \in Tasklets |-> 0]
  /\ disables = [t \in Tasklets |-> 0]
  /\ dropped = {}
  /\ runner = [p \in Runner |-> "out"]
  /\ killing = [p \in Runner |-> NoTasklet]

full == Len(tasklet_list) = TASKLET_MAX

(* Mutant: tasklet_count is not capped. *)
add_uncapped(t, hi) == IF hi THEN <<t>> \o tasklet_list ELSE Append(tasklet_list, t)

(* With hi the list moves up by one and its last entry out of the array. *)
add(t, hi) ==
  IF hi THEN SubSeq(<<t>> \o tasklet_list, 1, IF full THEN TASKLET_MAX ELSE Len(tasklet_list) + 1)
  ELSE IF full THEN tasklet_list ELSE Append(tasklet_list, t)

(* Mutant: the test of the count is left out. *)
schedule_uncounted(t, hi) ==
  /\ tstate[t] # "SCHEDULED"
  /\ tstate' = [tstate EXCEPT ![t] = "SCHEDULED"]
  /\ count' = [count EXCEPT ![t] = @ + 1]
  /\ tasklet_list' = add(t, hi)
  /\ dropped' = dropped \cup (({t} \cup Range(tasklet_list)) \ Range(add(t, hi)))
  /\ UNCHANGED <<disables, runner, killing>>

(* tasklet_schedule and tasklet_hi_schedule. *)
tasklet_schedule(t, hi) ==
  /\ count[t] = 0
  /\ tstate[t] # "SCHEDULED"
  /\ tstate' = [tstate EXCEPT ![t] = "SCHEDULED"]
  /\ count' = [count EXCEPT ![t] = @ + 1]
  /\ tasklet_list' = add(t, hi)
  /\ dropped' = dropped \cup (({t} \cup Range(tasklet_list)) \ Range(add(t, hi)))
  /\ UNCHANGED <<disables, runner, killing>>

tasklet_disable(t) ==
  /\ disables[t] < MaxDisable
  /\ count' = [count EXCEPT ![t] = @ + 1]
  /\ disables' = [disables EXCEPT ![t] = @ + 1]
  /\ UNCHANGED <<tasklet_list, tstate, dropped, runner, killing>>

tasklet_enable(t) ==
  /\ disables[t] > 0
  /\ count' = [count EXCEPT ![t] = IF @ > 0 THEN @ - 1 ELSE @]
  /\ disables' = [disables EXCEPT ![t] = @ - 1]
  /\ UNCHANGED <<tasklet_list, tstate, dropped, runner, killing>>

run_begin(p, t) ==
  /\ runner[p] = "out" /\ killing[p] = NoTasklet
  /\ t # NoTasklet => tstate[t] = "SCHEDULED"
  /\ runner' = [runner EXCEPT ![p] = "loop"]
  /\ killing' = [killing EXCEPT ![p] = t]
  /\ UNCHANGED <<tasklet_list, tstate, count, disables, dropped>>

run_take(p) ==
  /\ runner[p] = "loop" /\ tasklet_list # << >>
  /\ LET t == tasklet_list[Len(tasklet_list)]
     IN  IF tstate[t] = "SCHEDULED"
         THEN /\ tstate' = [tstate EXCEPT ![t] = "RUNNING"]
              /\ runner' = [runner EXCEPT ![p] = t]
         ELSE UNCHANGED <<tstate, runner>>
  /\ tasklet_list' = SubSeq(tasklet_list, 1, Len(tasklet_list) - 1)
  /\ UNCHANGED <<count, disables, dropped, killing>>

run_done(p) ==
  /\ runner[p] \in Tasklets
  /\ tstate' = [tstate EXCEPT ![runner[p]] = "IDLE"]
  /\ count' = [count EXCEPT ![runner[p]] = @ - 1]
  /\ runner' = [runner EXCEPT ![p] = "loop"]
  /\ UNCHANGED <<tasklet_list, disables, dropped, killing>>

(* tasklet_kill calls tasklet_run_pending again while its tasklet is scheduled. *)
run_end(p) ==
  LET t == killing[p]
  IN  /\ runner[p] = "loop" /\ tasklet_list = << >>
      /\ t # NoTasklet => tstate[t] # "SCHEDULED"
      /\ runner' = [runner EXCEPT ![p] = "out"]
      /\ killing' = [killing EXCEPT ![p] = NoTasklet]
      /\ IF t = NoTasklet THEN UNCHANGED <<count, disables>>
         ELSE /\ count' = [count EXCEPT ![t] = @ + 1]
              /\ disables' = [disables EXCEPT ![t] = @ + 1]
      /\ UNCHANGED <<tasklet_list, tstate, dropped>>

TaskletNext ==
  \/ \E t \in Tasklets, hi \in BOOLEAN : tasklet_schedule(t, hi)
  \/ \E t \in Tasklets : tasklet_disable(t) \/ tasklet_enable(t)
  \/ \E p \in Runner : run_take(p) \/ run_done(p) \/ run_end(p)
  \/ \E p \in Runner, t \in Tasklets \cup {NoTasklet} : run_begin(p, t)

TaskletSpec == tasklet_init_subsystem /\ [][TaskletNext]_taskletVars

-----------------------------------------------------------------------------
(* Every variable has the type of the C object it stands for. *)
TaskletTypeOK ==
  /\ tasklet_list \in Seq(Tasklets) /\ Len(tasklet_list) <= TASKLET_MAX
  /\ tstate \in [Tasklets -> {"IDLE", "SCHEDULED", "RUNNING"}]
  /\ count \in [Tasklets -> Nat] /\ disables \in [Tasklets -> Nat]
  /\ runner \in [Runner -> Tasklets \cup {"out", "loop"}]
  /\ killing \in [Runner -> Tasklets \cup {NoTasklet}]

(***************************************************************************)
(* A tasklet is SCHEDULED exactly when it is in the list, once, or was     *)
(* dropped because the list was full; it is RUNNING exactly when one       *)
(* process runs it; and its count, which is unsigned, is what is due plus  *)
(* what is disabled, so the decrement after a run never takes it below 0.  *)
(***************************************************************************)
TaskletBooks ==
  \A t \in Tasklets :
    LET listed  == {i \in DOMAIN tasklet_list : tasklet_list[i] = t}
        running == {p \in Runner : runner[p] = t}
    IN  /\ tstate[t] = "SCHEDULED" <=> listed # {} \/ t \in dropped
        /\ t \in dropped => listed = {}
        /\ \A i, j \in listed : i = j
        /\ tstate[t] = "RUNNING" <=> running # {}
        /\ \A p, q \in running : p = q
        /\ count[t] = disables[t] + (IF tstate[t] = "IDLE" THEN 0 ELSE 1)
=============================================================================
