------------------------------- MODULE Signal -------------------------------
(***************************************************************************)
(* Signals (kernel/signal.c): pending and blocked sets, the queues of the  *)
(* realtime signals, actions, delivery by signal_do_pending.  One process  *)
(* runs at a time and process_yield marks the one it leaves READY, stopped *)
(* and dead ones included.                                                 *)
(*                                                                         *)
(* A handler that is set up never gives its mask back: there is no         *)
(* sigreturn.  Queue entries carry the number of the send, their payload.  *)
(* shared_pending and flags are only ever cleared, and the default action  *)
(* of signal_send's target is the state alone.                             *)
(***************************************************************************)
EXTENDS Integers, Sequences, FiniteSets

CONSTANTS
  SgProc,          \* processes, all with a signal_struct
  Sig,             \* signal numbers in use, a subset of 1 .. SIG_MAX
  SIGKILL, SIGSTOP, SIGCONT, SIGRTMIN,
  SigIgnored,      \* ignored by default: SIGCHLD, SIGURG, SIGWINCH, SIGIO
  SigStops,        \* stopping by default: SIGSTOP, SIGTSTP, SIGTTIN, SIGTTOU
  SIGQUEUE_MAX,
  SaMask,          \* bound: sa_mask values and sets passed to sigprocmask, sigsuspend
  Target,          \* bound: the processes that get signals and set masks
  Caught,          \* bound: the signals whose action is changed
  MaxSends         \* bound: realtime signals sent

VARIABLES
  sig_data,        \* per process: [actions, blocked, pending, queues]
  sg_state,        \* processes[].state
  sg_current,
  suspended,       \* per process: the mask sigsuspend gives back, or {0}
  sends            \* realtime signals queued so far

sgVars == <<sig_data, sg_state, sg_current, suspended, sends>>

DFL == [handler |-> "DFL", mask |-> {}, nodefer |-> FALSE]
IGN == [handler |-> "IGN", mask |-> {}, nodefer |-> FALSE]
SaAction == {DFL, IGN} \cup [handler : {"user"}, mask : SaMask, nodefer : BOOLEAN]

signal_create == [actions |-> [s \in Sig |-> DFL], blocked |-> {}, pending |-> {},
                  queues |-> [s \in Sig |-> << >>]]

sg_init ==
  /\ sig_data = [p \in SgProc |-> signal_create]
  /\ sg_current = 0
  /\ sg_state = [p \in SgProc |-> IF p = sg_current THEN "RUNNING" ELSE "READY"]
  /\ suspended = [p \in SgProc |-> {0}]
  /\ sends = 0

maskable(set) == set \ {SIGKILL, SIGSTOP}
-----------------------------------------------------------------------------
(* signal_init on a process that has its signal_struct. *)
signal_init ==
  /\ sig_data' = [sig_data EXCEPT ![sg_current] = signal_create]
  /\ UNCHANGED <<sg_state, sg_current, suspended, sends>>

(* A realtime signal whose queue is full is dropped, its mark too. *)
queued(d, s) ==
  IF Len(d.queues[s]) < SIGQUEUE_MAX
  THEN [d EXCEPT !.queues[s] = Append(@, sends + 1), !.pending = @ \cup {s}] ELSE d

signal_send(p, s) ==
  /\ sg_state[p] # "DEAD"
  /\ IF s = SIGKILL THEN sg_state' = [sg_state EXCEPT ![p] = "DEAD"] /\ UNCHANGED <<sig_data, sends>>
     ELSE /\ sig_data' = [sig_data EXCEPT ![p] = IF s >= SIGRTMIN THEN queued(@, s)
                                                 ELSE [@ EXCEPT !.pending = @ \cup {s}]]
          /\ sg_state' = [sg_state EXCEPT ![p] = IF @ \in {"SLEEPING", "WAITING"} THEN "READY" ELSE @]
          /\ sends' = (IF s >= SIGRTMIN THEN sends + 1 ELSE sends) /\ sends' <= MaxSends
  /\ UNCHANGED <<sg_current, suspended>>

signal_default(s, st) ==
  IF s \in SigIgnored THEN st
  ELSE IF s \in SigStops THEN "STOPPED"
  ELSE IF s = SIGCONT THEN (IF st = "STOPPED" THEN "READY" ELSE st)
  ELSE "DEAD"

(* Signal s leaves the pending set, with the head of its queue. *)
taken(d, s) ==
  [d EXCEPT !.pending = @ \ {s},
            !.queues[s] = IF s >= SIGRTMIN /\ @ # << >> THEN Tail(@) ELSE @]

(* Mutant: SIGKILL and SIGSTOP are not taken out of the mask. *)
framed_raw(d, s) == [taken(d, s) EXCEPT !.blocked = @ \cup d.actions[s].mask \cup {s}]

(* The mask under which a user handler runs; the frame itself is the stack
   of the process. *)
framed(d, s) ==
  LET a == d.actions[s]
  IN  [taken(d, s) EXCEPT !.blocked = maskable(@ \cup a.mask \cup (IF a.nodefer THEN {} ELSE {s}))]

deliverable(d) == d.pending \ d.blocked

(* The scan of signal_do_pending from signal `from` on, d and st being what
   it has made of the process so far: ignored signals are dropped, default
   actions taken, and the first user handler ends the scan. *)
do_pending[from \in Nat, d \in [actions : [Sig -> SaAction], blocked : SUBSET Sig, pending : SUBSET Sig,
                                queues : [Sig -> Seq(Nat)]], st \in STRING] ==
  LET due == {s \in deliverable(d) : s >= from}
  IN  IF due = {} THEN [d |-> d, st |-> st]
      ELSE LET s == CHOOSE x \in due : \A y \in due : x <= y
           IN  CASE d.actions[s].handler = "IGN"  -> do_pending[s + 1, taken(d, s), st]
                 [] d.actions[s].handler = "DFL"  -> do_pending[s + 1, taken(d, s), signal_default(s, st)]
                 [] d.actions[s].handler = "user" -> [d |-> framed(d, s), st |-> st]

signal_do_pending ==
  LET r == do_pending[1, sig_data[sg_current], sg_state[sg_current]]
  IN  /\ deliverable(sig_data[sg_current]) # {}
      /\ sig_data' = [sig_data EXCEPT ![sg_current] = r.d]
      /\ sg_state' = [sg_state EXCEPT ![sg_current] = r.st]
      /\ UNCHANGED <<sg_current, suspended, sends>>

signal_sigaction(s, act) ==
  /\ s \notin {SIGKILL, SIGSTOP}
  /\ sig_data' = [sig_data EXCEPT ![sg_current].actions[s] = act]
  /\ UNCHANGED <<sg_state, sg_current, suspended, sends>>

signal_sigprocmask(how, set) ==
  /\ sig_data' = [sig_data EXCEPT ![sg_current].blocked =
       maskable(CASE how = 0 -> @ \cup set [] how = 1 -> @ \ set [] how = 2 -> set)]
  /\ UNCHANGED <<sg_state, sg_current, suspended, sends>>

-----------------------------------------------------------------------------
(* process_yield in state st: to the first READY process after the current. *)
Next_ready(st) ==
  LET n == Cardinality(SgProc)
      ready == {i \in 1 .. n - 1 : st[(sg_current + i) % n] = "READY"}
  IN  IF ready = {} THEN sg_current
      ELSE (sg_current + (CHOOSE i \in ready : \A j \in ready : i <= j)) % n

yielded(st) ==
  LET q == Next_ready(st)
  IN  /\ sg_current' = q
      /\ sg_state' = IF q = sg_current THEN st
                     ELSE [st EXCEPT ![sg_current] = "READY", ![q] = "RUNNING"]

yield == yielded(sg_state) /\ UNCHANGED <<sig_data, suspended, sends>>

(* The old mask comes back when the process next has the CPU, before any
   signal is delivered: at once when nobody else is READY. *)
signal_sigsuspend(mask) ==
  /\ sig_data' = [sig_data EXCEPT ![sg_current].blocked = maskable(mask)]
  /\ suspended' = [suspended EXCEPT ![sg_current] = sig_data[sg_current].blocked]
  /\ yielded([sg_state EXCEPT ![sg_current] = "SLEEPING"])
  /\ UNCHANGED sends

signal_sigsuspend_resume ==
  /\ sig_data' = [sig_data EXCEPT ![sg_current].blocked = suspended[sg_current]]
  /\ suspended' = [suspended EXCEPT ![sg_current] = {0}]
  /\ UNCHANGED <<sg_state, sg_current, sends>>

SgNext ==
  IF suspended[sg_current] # {0} THEN signal_sigsuspend_resume
  ELSE \/ signal_init \/ signal_do_pending \/ yield
       \/ \E p \in Target, s \in Sig : signal_send(p, s)
       \/ \E s \in Caught, act \in SaAction : sg_current \in Target /\ signal_sigaction(s, act)
       \/ \E set \in SaMask : /\ sg_current \in Target
                            /\ \/ signal_sigsuspend(set)
                               \/ \E how \in 0 .. 2 : signal_sigprocmask(how, set)
-----------------------------------------------------------------------------
SgTypeOK ==
  /\ \A p \in SgProc : /\ sig_data[p].actions \in [Sig -> SaAction]
                       /\ sig_data[p].blocked \subseteq Sig /\ sig_data[p].pending \subseteq Sig
                       /\ sig_data[p].queues \in [Sig -> Seq(1 .. MaxSends)]
  /\ sg_state \in [SgProc -> {"READY", "RUNNING", "SLEEPING", "STOPPED", "DEAD"}]
  /\ sg_current \in SgProc /\ sends \in 0 .. MaxSends

(* The marks of signal.c and its queues, under every order of sends, masks *)
(* and deliveries: no mask, not even the one sigsuspend keeps for later,   *)
(* holds SIGKILL or SIGSTOP, which have no handler; a realtime signal that *)
(* is marked pending has an entry to deliver; entries stay in the order of *)
(* the sends and within SIGQUEUE_MAX; other signals have no entries.       *)
SignalBooks ==
  \A p \in SgProc :
    LET d == sig_data[p]
    IN  /\ (d.blocked \cup suspended[p]) \cap {SIGKILL, SIGSTOP} = {}
        /\ \A s \in Sig \cap {SIGKILL, SIGSTOP} : d.actions[s] = DFL
        /\ \A s \in Sig :
             /\ s \in d.pending /\ s >= SIGRTMIN => d.queues[s] # << >>
             /\ Len(d.queues[s]) <= (IF s >= SIGRTMIN THEN SIGQUEUE_MAX ELSE 0)
             /\ \A i, j \in 1 .. Len(d.queues[s]) : i < j => d.queues[s][i] < d.queues[s][j]
=============================================================================
