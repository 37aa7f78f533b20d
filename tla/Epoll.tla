------------------------------- MODULE Epoll -------------------------------
(***************************************************************************)
(* Event polling: kernel/epoll.c.  Instances are slots of a fixed table;   *)
(* each has a table of descriptors and a ring of ready events.  A process  *)
(* that waits in epoll_wait may go on at any later turn, when its instance *)
(* may have been closed and its slot given to another one.  The two kinds  *)
(* of trigger take the same steps in epoll_notify, and the user data is    *)
(* copied with the event: neither is modelled.                             *)
(***************************************************************************)
EXTENDS Integers, Sequences, FiniteSets

CONSTANTS
  EPOLL_MAX_INSTANCES, EPOLL_MAX_FDS, EPOLL_READY_QUEUE_SIZE,
  EpFd,          \* descriptors that are watched
  EpProc,        \* processes that wait
  EpEvents       \* event bits

VARIABLES
  inst,          \* per slot: epoll_instance_t
  active_count,
  ep_call,       \* per process: [on, epfd, max], on = 1 in wait_queue_wait
  ep_unread      \* history: per slot, the events pushed and not popped, in order

epVars == <<inst, active_count, ep_call, ep_unread>>

Instances == 0 .. EPOLL_MAX_INSTANCES - 1
Slots     == 0 .. EPOLL_MAX_FDS - 1
NoEntry   == [fd |-> -1, events |-> {}]
free_fd   == [registered |-> 0, fd |-> -1, events |-> {}, ready |-> 0]
emptied   == [active |-> 0, fd_count |-> 0, rq_head |-> 0, rq_tail |-> 0,
              fds |-> [j \in Slots |-> free_fd],
              ready_queue |-> [k \in 0 .. EPOLL_READY_QUEUE_SIZE - 1 |-> NoEntry]]

epoll_init ==
  /\ inst = [i \in Instances |-> emptied]
  /\ active_count = 0
  /\ ep_call = [p \in EpProc |-> [on |-> 0, epfd |-> 0, max |-> 0]]
  /\ ep_unread = [i \in Instances |-> << >>]

(* Mutant: the index is not masked. *)
rq_next_unmasked(k) == k + 1
rq_next(k)  == (k + 1) % EPOLL_READY_QUEUE_SIZE
rq_empty(e) == e.rq_head = e.rq_tail
rq_full(e)  == rq_next(e.rq_tail) = e.rq_head
rq_push(e, entry) ==
  IF rq_full(e) THEN e
  ELSE [e EXCEPT !.ready_queue[e.rq_tail] = entry, !.rq_tail = rq_next(@)]
rq_count(e) == (e.rq_tail - e.rq_head) % EPOLL_READY_QUEUE_SIZE
rq_pop(e, n) == [e EXCEPT !.rq_head = (@ + n) % EPOLL_READY_QUEUE_SIZE]

epoll_alloc_instance(i) ==
  /\ active_count < EPOLL_MAX_INSTANCES
  /\ inst[i].active = 0 /\ \A k \in 0 .. i - 1 : inst[k].active = 1
  /\ inst' = [inst EXCEPT ![i] = [emptied EXCEPT !.active = 1]]
  /\ active_count' = active_count + 1
  /\ ep_unread' = [ep_unread EXCEPT ![i] = << >>]
  /\ UNCHANGED ep_call

epoll_find_fd(e, fd) == {j \in Slots : e.fds[j].registered = 1 /\ e.fds[j].fd = fd}
epoll_find_free_slot(e) ==
  {j \in Slots : e.fds[j].registered = 0 /\ \A k \in 0 .. j - 1 : e.fds[k].registered = 1}

epoll_ctl_add(i, fd, ev) ==
  /\ inst[i].active = 1
  /\ epoll_find_fd(inst[i], fd) = {} /\ inst[i].fd_count < EPOLL_MAX_FDS
  /\ \E j \in epoll_find_free_slot(inst[i]) :
       inst' = [inst EXCEPT ![i].fds[j] = [registered |-> 1, fd |-> fd, events |-> ev, ready |-> 0],
                            ![i].fd_count = @ + 1]
  /\ UNCHANGED <<active_count, ep_call, ep_unread>>

epoll_ctl_mod(i, fd, ev) ==
  /\ inst[i].active = 1
  /\ \E j \in epoll_find_fd(inst[i], fd) : inst' = [inst EXCEPT ![i].fds[j].events = ev]
  /\ UNCHANGED <<active_count, ep_call, ep_unread>>

(* Events of the descriptor that are already in the ring stay there. *)
epoll_ctl_del(i, fd) ==
  /\ inst[i].active = 1
  /\ \E j \in epoll_find_fd(inst[i], fd) :
       inst' = [inst EXCEPT ![i].fds[j] = free_fd, ![i].fd_count = @ - 1]
  /\ UNCHANGED <<active_count, ep_call, ep_unread>>

(* Up to max events are popped from whatever instance the slot now holds. *)
drain(p, i, max) ==
  LET n == IF rq_count(inst[i]) < max THEN rq_count(inst[i]) ELSE max
  IN  /\ inst' = [inst EXCEPT ![i] = rq_pop(@, n)]
      /\ ep_unread' = [ep_unread EXCEPT ![i] = SubSeq(@, n + 1, Len(@))]
      /\ ep_call' = [ep_call EXCEPT ![p].on = 0]

(* A timeout of 0 returns from an empty ring without a step. *)
epoll_wait(p, i, max) ==
  /\ ep_call[p].on = 0 /\ inst[i].active = 1
  /\ IF rq_empty(inst[i])
     THEN ep_call' = [ep_call EXCEPT ![p] = [on |-> 1, epfd |-> i, max |-> max]]
          /\ UNCHANGED <<inst, ep_unread>>
     ELSE drain(p, i, max)
  /\ UNCHANGED active_count

epoll_wait_resume(p) ==
  /\ ep_call[p].on = 1
  /\ drain(p, ep_call[p].epfd, ep_call[p].max)
  /\ UNCHANGED active_count

(* The first slot that holds fd with a matching event ends the inner loop. *)
notified(e, fd, events) ==
  LET hit == {j \in epoll_find_fd(e, fd) : events \cap e.fds[j].events # {}}
  IN  IF \E j \in hit : e.fds[j].ready = 0
      THEN LET j == CHOOSE k \in hit : \A l \in hit : k <= l
           IN  rq_push([e EXCEPT !.fds[j].ready = 1],
                       [fd |-> fd, events |-> events \cap e.fds[j].events])
      ELSE e

(* The ready mark is set although a full ring has no room for the event. *)
epoll_notify(fd, events) ==
  LET after_ep(i) == IF inst[i].active = 1 THEN notified(inst[i], fd, events) ELSE inst[i]
  IN  /\ inst' = [i \in Instances |-> after_ep(i)]
      /\ ep_unread' = [i \in Instances |->
                         IF after_ep(i).rq_tail # inst[i].rq_tail
                         THEN Append(ep_unread[i], after_ep(i).ready_queue[inst[i].rq_tail])
                         ELSE ep_unread[i]]
      /\ UNCHANGED <<active_count, ep_call>>

epoll_notify_clear_ready(fd) ==
  /\ inst' = [i \in Instances |->
                [inst[i] EXCEPT !.fds = [j \in Slots |->
                   IF inst[i].active = 1 /\ j \in epoll_find_fd(inst[i], fd)
                   THEN [@[j] EXCEPT !.ready = 0] ELSE @[j]]]]
  /\ UNCHANGED <<active_count, ep_call, ep_unread>>

epoll_close(i) ==
  /\ inst[i].active = 1
  /\ inst' = [inst EXCEPT ![i] = emptied]
  /\ active_count' = active_count - 1
  /\ ep_unread' = [ep_unread EXCEPT ![i] = << >>]
  /\ UNCHANGED ep_call

EpNext ==
  \/ \E p \in EpProc : epoll_wait_resume(p)
  \/ \E fd \in EpFd : epoll_notify_clear_ready(fd)
  \/ \E fd \in EpFd, ev \in SUBSET EpEvents \ {{}} : epoll_notify(fd, ev)
  \/ \E i \in Instances :
       \/ epoll_alloc_instance(i) \/ epoll_close(i)
       \/ \E p \in EpProc, max \in 1 .. 2 : epoll_wait(p, i, max)
       \/ \E fd \in EpFd :
            \/ epoll_ctl_del(i, fd)
            \/ \E ev \in SUBSET EpEvents \ {{}} : epoll_ctl_add(i, fd, ev) \/ epoll_ctl_mod(i, fd, ev)

EpSpec == epoll_init /\ [][EpNext]_epVars

-----------------------------------------------------------------------------
(* Every variable has the type of the C object it stands for. *)
EpTypeOK ==
  /\ active_count \in 0 .. EPOLL_MAX_INSTANCES
  /\ \A i \in Instances :
       /\ inst[i].rq_head \in 0 .. EPOLL_READY_QUEUE_SIZE - 1
       /\ inst[i].rq_tail \in 0 .. EPOLL_READY_QUEUE_SIZE - 1
       /\ \A j \in Slots : inst[i].fds[j].fd \in EpFd \cup {-1}
  /\ ep_call \in [EpProc -> [on : 0 .. 1, epfd : Instances, max : 0 .. 2]]

(***************************************************************************)
(* The books of epoll_ctl, epoll_notify, epoll_wait and epoll_close agree: *)
(* the counters are exact, no descriptor is registered twice, and the ring *)
(* holds the unread events in the order they were notified, none lost or   *)
(* returned twice once it is in the ring.                                  *)
(***************************************************************************)
EpollBooks ==
  /\ active_count = Cardinality({i \in Instances : inst[i].active = 1})
  /\ \A i \in Instances :
       LET e == inst[i]
       IN  /\ e.fd_count = Cardinality({j \in Slots : e.fds[j].registered = 1})
           /\ \A fd \in EpFd : Cardinality(epoll_find_fd(e, fd)) <= 1
           /\ ep_unread[i] = [k \in 1 .. rq_count(e) |->
                                e.ready_queue[(e.rq_head + k - 1) % EPOLL_READY_QUEUE_SIZE]]
=============================================================================
