----------------------------- MODULE Workqueue -----------------------------
(***************************************************************************)
(* One workqueue of kernel/workqueue.c: its list of work, the kernel       *)
(* thread that runs it, and the processes that queue, cancel and flush.    *)
(* Work functions may yield and may queue work themselves.                 *)
(*                                                                         *)
(* destroy_workqueue does not wait for the thread: what the thread and the *)
(* flushers do with the freed queue is left open ("undefined").  Delayed   *)
(* work is left out: its wrapper is freed by the callback of its timer,    *)
(* which the wheel still reads.                                            *)
(***************************************************************************)
EXTENDS Integers, Sequences, Functions

CONSTANTS Work, Flusher

VARIABLES
  queue,           \* from wq->head to wq->tail
  pending,         \* work->pending
  pending_count,
  worker,          \* "loop", "undefined", "stopped" or the work it runs
  wq,              \* "live" or "freed"
  flushing,        \* the processes in flush_workqueue
  before           \* history: what was queued when a process's flush began and
                   \* has not left the queue since

wqVars == <<queue, pending, pending_count, worker, wq, flushing, before>>

create_workqueue ==
  /\ queue = << >>
  /\ pending = [w \in Work |-> 0]
  /\ pending_count = 0
  /\ worker = "loop"
  /\ wq = "live"
  /\ flushing = {} /\ before = [p \in Flusher |-> {}]

(* The loop of cancel_work unlinks the work, if it is in the list. *)
without(w) ==
  IF \E i \in DOMAIN queue : queue[i] = w
  THEN LET i == CHOOSE i \in DOMAIN queue : queue[i] = w
       IN  [j \in 1 .. Len(queue) - 1 |-> IF j < i THEN queue[j] ELSE queue[j + 1]]
  ELSE queue

left(w) == [p \in Flusher |-> before[p] \ {w}]

queue_work(w) ==
  /\ wq = "live"
  /\ pending[w] = 0
  /\ pending' = [pending EXCEPT ![w] = 1]
  /\ queue' = Append(queue, w)
  /\ pending_count' = pending_count + 1
  /\ UNCHANGED <<worker, wq, flushing, before>>

(* Mutant: work that is not pending is counted off too. *)
cancel_unchecked(w) ==
  /\ wq = "live"
  /\ pending' = [pending EXCEPT ![w] = 0]
  /\ queue' = without(w)
  /\ pending_count' = pending_count - 1
  /\ before' = left(w)
  /\ UNCHANGED <<worker, wq, flushing>>

cancel_work(w) ==
  /\ wq = "live"
  /\ pending[w] # 0
  /\ pending' = [pending EXCEPT ![w] = 0]
  /\ queue' = without(w)
  /\ pending_count' = pending_count - 1
  /\ before' = left(w)
  /\ UNCHANGED <<worker, wq, flushing>>

flush_begin(p) ==
  /\ wq = "live"
  /\ p \notin flushing
  /\ flushing' = flushing \cup {p}
  /\ before' = [before EXCEPT ![p] = Range(queue)]
  /\ UNCHANGED <<queue, pending, pending_count, worker, wq>>

flush_return(p) ==
  /\ p \in flushing
  /\ wq = "freed" \/ pending_count = 0
  /\ flushing' = flushing \ {p}
  /\ before' = [before EXCEPT ![p] = {}]
  /\ UNCHANGED <<queue, pending, pending_count, worker, wq>>

(* Mutant: the thread takes the work and leaves it in the queue. *)
take_keeps ==
  /\ worker = "loop" /\ wq = "live" /\ queue # << >>
  /\ pending' = [pending EXCEPT ![Head(queue)] = 0]
  /\ pending_count' = pending_count - 1
  /\ before' = left(Head(queue))
  /\ worker' = Head(queue)
  /\ UNCHANGED <<queue, wq, flushing>>

workqueue_take ==
  /\ worker = "loop" /\ wq = "live" /\ queue # << >>
  /\ queue' = Tail(queue)
  /\ pending' = [pending EXCEPT ![Head(queue)] = 0]
  /\ pending_count' = pending_count - 1
  /\ before' = left(Head(queue))
  /\ worker' = Head(queue)
  /\ UNCHANGED <<wq, flushing>>

(* Mutant: the thread leaves its loop with the function that returns. *)
done_stops ==
  /\ worker \in Work
  /\ worker' = "stopped"
  /\ UNCHANGED <<queue, pending, pending_count, wq, flushing, before>>

workqueue_done ==
  /\ worker \in Work
  /\ worker' = "loop"
  /\ UNCHANGED <<queue, pending, pending_count, wq, flushing, before>>

(* The loop test reads should_stop in a queue that has been freed. *)
workqueue_after_free ==
  /\ worker = "loop" /\ wq = "freed"
  /\ worker' \in {"stopped", "undefined"}
  /\ UNCHANGED <<queue, pending, pending_count, wq, flushing, before>>

destroy_workqueue ==
  /\ wq = "live"
  /\ wq' = "freed"
  /\ queue' = << >>
  /\ pending' = [w \in Work |-> 0]
  /\ before' = [p \in Flusher |-> {}]
  /\ UNCHANGED <<pending_count, worker, flushing>>

workqueue_thread == workqueue_take \/ workqueue_done \/ workqueue_after_free

WqNext ==
  \/ \E w \in Work : queue_work(w) \/ cancel_work(w)
  \/ \E p \in Flusher : flush_begin(p) \/ flush_return(p)
  \/ workqueue_thread
  \/ destroy_workqueue

WqSpec == create_workqueue /\ [][WqNext]_wqVars /\ WF_wqVars(workqueue_thread)

-----------------------------------------------------------------------------
(* Every variable has the type of the C object it stands for. *)
WqTypeOK ==
  /\ queue \in Seq(Work)
  /\ pending \in [Work -> {0, 1}]
  /\ pending_count \in Nat
  /\ worker \in Work \cup {"loop", "stopped", "undefined"}
  /\ wq \in {"live", "freed"}
  /\ flushing \subseteq Flusher /\ before \in [Flusher -> SUBSET Work]

(***************************************************************************)
(* The three records of what is queued agree: the flag queue_work tests,   *)
(* the list the thread takes from and the counter flush_workqueue waits on.*)
(***************************************************************************)
WorkAccounting ==
  wq = "live" =>
    /\ pending_count = Len(queue)
    /\ \A w \in Work : pending[w] = 1 <=> w \in Range(queue)
    /\ \A i, j \in DOMAIN queue : queue[i] = queue[j] => i = j

(***************************************************************************)
(* When flush_workqueue returns, the work that was queued when it was      *)
(* called has been taken or cancelled.  (It may still be running.)         *)
(***************************************************************************)
FlushTaken ==
  [][\A p \in flushing \ flushing' : before[p] = {}]_wqVars

(* Queued work leaves the queue: the thread takes it, or it is cancelled. *)
WorkRuns == \A w \in Work : w \in Range(queue) ~> w \notin Range(queue)
=============================================================================
