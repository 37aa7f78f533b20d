----------------------------- MODULE MCDeferred -----------------------------
(***************************************************************************)
(* Deferred execution: the timers, a workqueue and the tasklets for TLC.   *)
(* They share no state here, so a behaviour exercises one, chosen at the   *)
(* start; the wheel and the high resolution timers share timer_tick and    *)
(* hung, and a behaviour uses one of the two kinds.                        *)
(***************************************************************************)
EXTENDS Timer, Workqueue, Tasklet

VARIABLE kind

deferredVars == <<timerVars, wqVars, taskletVars, kind>>

DeferredInit ==
  /\ timer_wheel_init /\ create_workqueue /\ tasklet_init_subsystem
  /\ kind \in {"wheel", "hrtimer", "work", "tasklet"}

DeferredNext ==
  /\ UNCHANGED kind
  /\ \/ /\ kind = "wheel" /\ TimerNext /\ UNCHANGED <<wqVars, taskletVars>>
        /\ starting' = NoTimer /\ hpet' = 0
     \/ /\ kind = "hrtimer" /\ TimerNext /\ UNCHANGED <<wqVars, taskletVars>>
        /\ adding' = NoAdd
     \/ kind = "work" /\ WqNext /\ UNCHANGED <<timerVars, taskletVars>>
     \/ kind = "tasklet" /\ TaskletNext /\ UNCHANGED <<timerVars, wqVars>>

DeferredSpec ==
  DeferredInit /\ [][DeferredNext]_deferredVars
  /\ WF_deferredVars(kind = "work" /\ workqueue_thread /\ UNCHANGED <<timerVars, taskletVars, kind>>)

(* Every variable has the type of the C object it stands for. *)
DeferredTypeOK == TimerTypeOK /\ WqTypeOK /\ TaskletTypeOK
=============================================================================
