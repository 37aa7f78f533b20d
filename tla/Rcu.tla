-------------------------------- MODULE Rcu --------------------------------
(***************************************************************************)
(* RCU and SRCU (kernel/rcu.c).  Readers are counted in one nesting depth; *)
(* callbacks pass through two stages.  call_rcu appends to stage 1; only   *)
(* the end of a grace period moves stage 1 to stage 0, and only a          *)
(* non-empty stage 0 begins a grace period.                                *)
(*                                                                         *)
(* The side of an SRCU reader is remembered in one global variable,        *)
(* whichever process reads.  A process in rcu_barrier or srcu_synchronize  *)
(* yields between two looks at the counters.                               *)
(***************************************************************************)
EXTENDS Integers, Sequences

CONSTANTS
  RcuHead,        \* rcu_head_t objects; a head is registered once
  RcuProc,     \* processes
  MaxNesting   \* bound: depth of rcu_read_lock per process

ASSUME RcuAssumption == MaxNesting \in Nat

VARIABLES
  nesting,     \* percpu[0].nesting, split by the process that counts in it
  gp_active, passed_gp,
  cbs,         \* the two stages
  invoked,     \* history: heads whose function was called, in order
  in_barrier,  \* processes in rcu_barrier
  srcu_idx, readers, read_idx,
  in_srcu,     \* processes between srcu_read_lock and srcu_read_unlock
  awaited      \* per process: the side srcu_synchronize waits for, or 2

rcuOnly  == <<nesting, gp_active, passed_gp, cbs, invoked, in_barrier>>
srcuOnly == <<srcu_idx, readers, read_idx, in_srcu, awaited>>
rcuVars  == <<rcuOnly, srcuOnly>>

rcu_init ==
  /\ nesting = [p \in RcuProc |-> 0]
  /\ gp_active = 0 /\ passed_gp = 0
  /\ cbs = [s \in 0 .. 1 |-> << >>]
  /\ invoked = << >> /\ in_barrier = {}

srcu_init ==
  /\ srcu_idx = 0 /\ readers = [i \in 0 .. 1 |-> 0] /\ read_idx = 0
  /\ in_srcu = {} /\ awaited = [p \in RcuProc |-> 2]

-----------------------------------------------------------------------------
(* p is not in one of the two waiting loops. *)
runs(p) == p \notin in_barrier /\ awaited[p] = 2

rcu_read_lock(p) ==
  /\ runs(p) /\ nesting[p] < MaxNesting
  /\ nesting' = [nesting EXCEPT ![p] = @ + 1]
  /\ UNCHANGED <<gp_active, passed_gp, cbs, invoked, in_barrier>> /\ UNCHANGED srcuOnly

rcu_read_unlock(p) ==
  /\ runs(p) /\ nesting[p] > 0
  /\ nesting' = [nesting EXCEPT ![p] = @ - 1]
  /\ UNCHANGED <<gp_active, passed_gp, cbs, invoked, in_barrier>> /\ UNCHANGED srcuOnly

all_readers_exited == \A p \in RcuProc : nesting[p] = 0

(* Mutant: a new callback goes to the stage a grace period looks at. *)
rcu_add_cb_first(h) == [cbs EXCEPT ![0] = Append(@, h)]

rcu_add_cb(h) == [cbs EXCEPT ![1] = Append(@, h)]

(* rcu_check_gp when the lists are c: a grace period begins when stage 0
   has callbacks, and ends in the same call when no reader is inside. *)
rcu_check_gp(c) ==
  LET active == gp_active = 1 \/ Len(c[0]) > 0
  IN  IF active /\ all_readers_exited
      THEN /\ gp_active' = 0 /\ passed_gp' = passed_gp + 1
           /\ invoked' = invoked \o c[0]
           /\ cbs' = [s \in 0 .. 1 |-> IF s = 0 THEN c[1] ELSE << >>]
      ELSE /\ gp_active' = (IF active THEN 1 ELSE 0)
           /\ cbs' = c
           /\ UNCHANGED <<passed_gp, invoked>>

call_rcu(h) ==
  /\ \A q \in {cbs[0], cbs[1], invoked} : \A i \in 1 .. Len(q) : q[i] # h
  /\ rcu_check_gp(rcu_add_cb(h))
  /\ UNCHANGED <<nesting, in_barrier>> /\ UNCHANGED srcuOnly

barrier_waits == Len(cbs[0]) > 0 \/ Len(cbs[1]) > 0

(* The loop of rcu_barrier up to its yield, entered or gone on with. *)
rcu_barrier(p) ==
  /\ p \in in_barrier \/ (runs(p) /\ barrier_waits)
  /\ IF barrier_waits THEN rcu_check_gp(cbs) /\ in_barrier' = in_barrier \cup {p}
     ELSE in_barrier' = in_barrier \ {p} /\ UNCHANGED <<gp_active, passed_gp, cbs, invoked>>
  /\ UNCHANGED nesting /\ UNCHANGED srcuOnly

-----------------------------------------------------------------------------
srcu_read_lock(p) ==
  /\ runs(p) /\ p \notin in_srcu
  /\ readers' = [readers EXCEPT ![srcu_idx] = @ + 1]
  /\ read_idx' = srcu_idx
  /\ in_srcu' = in_srcu \cup {p}
  /\ UNCHANGED <<srcu_idx, awaited>> /\ UNCHANGED rcuOnly

srcu_read_unlock(p) ==
  /\ runs(p) /\ p \in in_srcu
  /\ readers' = [readers EXCEPT ![read_idx] = IF @ > 0 THEN @ - 1 ELSE 0]
  /\ in_srcu' = in_srcu \ {p}
  /\ UNCHANGED <<srcu_idx, read_idx, awaited>> /\ UNCHANGED rcuOnly

srcu_synchronize(p) ==
  /\ runs(p) /\ p \notin in_srcu
  /\ srcu_idx' = 1 - srcu_idx
  /\ awaited' = [awaited EXCEPT ![p] = IF readers[srcu_idx] > 0 THEN srcu_idx ELSE 2]
  /\ UNCHANGED <<readers, read_idx, in_srcu>> /\ UNCHANGED rcuOnly

srcu_synchronized(p) ==
  /\ awaited[p] # 2 /\ readers[awaited[p]] = 0
  /\ awaited' = [awaited EXCEPT ![p] = 2]
  /\ UNCHANGED <<srcu_idx, readers, read_idx, in_srcu>> /\ UNCHANGED rcuOnly

RcuNext ==
  \/ \E p \in RcuProc :
       \/ rcu_read_lock(p) \/ rcu_read_unlock(p) \/ rcu_barrier(p)
       \/ srcu_read_lock(p) \/ srcu_read_unlock(p) \/ srcu_synchronize(p) \/ srcu_synchronized(p)
  \/ \E h \in RcuHead : call_rcu(h)

RcuSpec == rcu_init /\ srcu_init /\ [][RcuNext]_rcuVars
-----------------------------------------------------------------------------
RcuTypeOK ==
  /\ nesting \in [RcuProc -> 0 .. MaxNesting]
  /\ gp_active \in 0 .. 1 /\ passed_gp \in Nat
  /\ cbs \in [0 .. 1 -> Seq(RcuHead)] /\ invoked \in Seq(RcuHead)
  /\ in_barrier \subseteq RcuProc /\ in_srcu \subseteq RcuProc
  /\ srcu_idx \in 0 .. 1 /\ read_idx \in 0 .. 1
  /\ readers \in [0 .. 1 -> Nat] /\ awaited \in [RcuProc -> 0 .. 2]

(* What the two stages of rcu.c amount to: call_rcu feeds stage 1, only    *)
(* the end of a grace period feeds stage 0, and only stage 0 begins one.   *)
(* No grace period ever begins, no callback is ever invoked, and a process *)
(* that finds a callback registered stays in rcu_barrier for good.         *)
NoGracePeriod ==
  /\ gp_active = 0 /\ passed_gp = 0 /\ invoked = << >>
  /\ cbs[0] = << >>
  /\ in_barrier # {} => cbs[1] # << >>
=============================================================================
