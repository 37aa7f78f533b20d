------------------------------ MODULE BlockIo ------------------------------
(***************************************************************************)
(* The storage and network device drivers of arch/x86_64: nvme.c, virtio.c *)
(* and ahci.c, each with the device at the other end of its queues.  A     *)
(* driver call is one step: it polls, and the device answers or not while  *)
(* it does.                                                                *)
(*                                                                         *)
(* nvme_poll_cq compares cq->head with cq->tail, and no line moves tail.   *)
(* __vq_add_avail counts in the driver's own avail_idx, and no line writes *)
(* the index the device reads.  ahci_port_cmd adds the base address of the *)
(* controller twice, so what it reads and writes is not the port.          *)
(* Command identifiers, data and register layouts steer nothing.           *)
(***************************************************************************)
EXTENDS Integers, Sequences

CONSTANTS
  NVME_ADMIN_QUEUE_DEPTH,
  NvmeNs,        \* namespace numbers; nvme_init identifies them with one command each
  VqNum,         \* descriptors of a virtqueue
  MaxPosted      \* bound: completions the devices post, requests of virtio

VARIABLES
  nvme_ctrl,     \* [state, reg_base, tail, head, cq_tail, phase, admin, io_created, namespaces]
  cq_posted,     \* the device: completions posted to the admin queue
  vq,            \* [ready, free_head, next, avail_idx, last_used_idx]
  vq_device,     \* what the device sees: [avail, used]
  ahci_dma,      \* 1 when the port has its page
  io_done        \* history: calls that found a completion, by driver

blockVars == <<nvme_ctrl, cq_posted, vq, vq_device, ahci_dma, io_done>>

block_init ==
  /\ nvme_ctrl = [state |-> "NONE", reg_base |-> 0, tail |-> 0, head |-> 0, cq_tail |-> 0, phase |-> 1,
                  admin |-> "none", io_created |-> 0, namespaces |-> {}]
  /\ cq_posted = 0
  /\ vq = [ready |-> 0, free_head |-> 0, next |-> [d \in 0 .. VqNum - 1 |-> 0], avail_idx |-> 0, last_used_idx |-> 0]
  /\ vq_device = [avail |-> 0, used |-> 0]
  /\ ahci_dma = 0 /\ io_done = {}

-----------------------------------------------------------------------------
nvme_probe(c) ==
  [c EXCEPT !.reg_base = 1, !.state = "RESET", !.io_created = 0, !.namespaces = {}]

(* The slot of the new command, or none when the queue is full: head never
   moves. *)
nvme_submit_cmd(c) == IF (c.tail + 1) % NVME_ADMIN_QUEUE_DEPTH = 0 THEN c ELSE [c EXCEPT !.tail = @ + 1]

(* The phase of a posted entry is the phase of its lap; an entry that was
   not posted still has the phase 0 of memset. *)
entry_phase(slot, posted) ==
  IF slot < posted % NVME_ADMIN_QUEUE_DEPTH THEN 1 - ((posted \div NVME_ADMIN_QUEUE_DEPTH) % 2)
  ELSE IF posted >= NVME_ADMIN_QUEUE_DEPTH THEN (posted \div NVME_ADMIN_QUEUE_DEPTH) % 2 ELSE 0

(* The controller after a look at the completion queue; unchanged when the
   call returns -1. *)
nvme_poll_cq(c, posted) ==
  IF c.head = c.cq_tail \/ entry_phase(c.head, posted) # c.phase THEN c
  ELSE [c EXCEPT !.head = (@ + 1) % NVME_ADMIN_QUEUE_DEPTH,
                 !.phase = IF (c.head + 1) % NVME_ADMIN_QUEUE_DEPTH = 0 THEN 1 - @ ELSE @]

(* A command, polled for until the time is up: [c, ok].  posted counts what
   the device has posted by then, with success. *)
nvme_submit_admin_cmd(c, posted) ==
  LET sent == nvme_submit_cmd(c)
      seen == nvme_poll_cq(sent, posted)
  IN  IF sent = c THEN [c |-> c, ok |-> FALSE]
      ELSE [c |-> seen, ok |-> seen # sent]

(* The steps of nvme_init up to the first admin command, and how they fail. *)
InitFault == {"reset_fatal", "reset_late", "no_sq", "no_cq", "ready_fatal", "ready_late", "no_ident"}

queues_set(c) == [c EXCEPT !.tail = 0, !.head = 0, !.cq_tail = 0, !.phase = 1]

nvme_init(c, fault, posted) ==
  LET c0 == [c EXCEPT !.state = "INITING"]
      failed(d) == [d EXCEPT !.state = "FAILED"]
      armed == [queues_set(c0) EXCEPT !.admin = "live"]
      ident == nvme_submit_admin_cmd(armed, posted)
      each == nvme_submit_admin_cmd(ident.c, posted)
  IN  CASE fault = "reset_fatal" -> failed(c0)
        [] fault = "reset_late" -> c0
        [] fault = "no_sq" -> failed([queues_set(c0) EXCEPT !.admin = "none"])
        [] fault = "no_cq" -> failed([queues_set(c0) EXCEPT !.admin = "freed"])
        [] fault = "ready_fatal" -> failed(armed)
        [] fault = "ready_late" -> armed
        [] fault = "no_ident" -> failed(armed)
        [] fault = "none" /\ ~ident.ok -> failed(ident.c)
        [] fault = "none" /\ ident.ok /\ ~each.ok -> [each.c EXCEPT !.state = "READY"]
        [] OTHER -> [each.c EXCEPT !.state = "READY", !.namespaces = NvmeNs]

(* At boot the controller is probed first; after a shutdown it may be
   initialised again. *)
nvme_driver_init(fault, posted) ==
  /\ nvme_ctrl.state \in {"NONE", "RESET"}
  /\ nvme_ctrl' = nvme_init(IF nvme_ctrl.state = "NONE" THEN nvme_probe(nvme_ctrl) ELSE nvme_ctrl, fault, posted)
  /\ cq_posted' = posted
  /\ UNCHANGED <<vq, vq_device, ahci_dma, io_done>>

(* nvme_create_io_queues: two admin commands; on failure the queue memory
   goes back. *)
nvme_create_io_queues(c, posted) ==
  LET cq == nvme_submit_admin_cmd(c, posted)
      sq == nvme_submit_admin_cmd(cq.c, posted)
  IN  IF c.io_created = 1 THEN c
      ELSE IF ~cq.ok THEN cq.c
      ELSE IF ~sq.ok THEN sq.c ELSE [sq.c EXCEPT !.io_created = 1]

(* nvme_read, nvme_write, and nvme_flush, which looks at no namespace: the I/O
   command is polled for in a queue of the same kind. *)
nvme_rw(ns, flush, posted) ==
  LET c == nvme_create_io_queues(nvme_ctrl, posted)
  IN  /\ nvme_ctrl.admin # "none"
      /\ nvme_ctrl' = c /\ cq_posted' = posted
      /\ io_done' = IF c.io_created = 1 /\ (flush \/ ns \in c.namespaces)
                       /\ nvme_poll_cq(queues_set(c), posted) # queues_set(c)
                    THEN io_done \cup {"nvme"} ELSE io_done
      /\ UNCHANGED <<vq, vq_device, ahci_dma>>

(* answer: how the device ends the wait. *)
nvme_shutdown(answer) ==
  /\ nvme_ctrl.reg_base = 1 /\ nvme_ctrl.admin = "live"
  /\ nvme_ctrl' = CASE answer = "fatal" -> [nvme_ctrl EXCEPT !.state = "FAILED"]
                    [] answer = "late" -> [nvme_ctrl EXCEPT !.state = "SHUTDOWN"]
                    [] answer = "complete" -> [nvme_ctrl EXCEPT !.state = "RESET", !.io_created = 0, !.admin = "freed"]
  /\ UNCHANGED <<cq_posted, vq, vq_device, ahci_dma, io_done>>

-----------------------------------------------------------------------------
(* virtio_blk_init and virtio_net_init, with __vq_alloc; nothing is taken
   back when the second of three allocations fails. *)
virtio_dev_init(enough) ==
  /\ vq.ready = 0
  /\ vq' = [ready |-> IF enough THEN 1 ELSE 0, free_head |-> 0, next |-> [d \in 0 .. VqNum - 1 |-> (d + 1) % VqNum],
            avail_idx |-> 0, last_used_idx |-> 0]
  /\ vq_device' = [avail |-> 0, used |-> 0]
  /\ UNCHANGED <<nvme_ctrl, cq_posted, ahci_dma, io_done>>

(* The free list after n calls of __vq_get_desc, and the descriptors. *)
vq_get_desc(q, n) ==
  LET d1 == q.free_head
      d2 == q.next[d1]
      d3 == q.next[d2]
  IN  IF n = 2 THEN <<d1, d2>> ELSE <<d1, d2, d3>>

(* Descriptors chained for a request; the last one ends the chain with 0. *)
chained(q, ds) ==
  [q EXCEPT !.free_head = q.next[ds[Len(ds)]],
            !.next = [d \in 0 .. VqNum - 1 |->
               IF \E k \in 1 .. Len(ds) : ds[k] = d
               THEN LET k == CHOOSE j \in 1 .. Len(ds) : ds[j] = d /\ \A i \in 1 .. Len(ds) : ds[i] = d => i <= j
                    IN  IF k = Len(ds) THEN 0 ELSE ds[k + 1]
               ELSE q.next[d]]]

vq_add_avail(q) ==
  /\ vq' = [q EXCEPT !.avail_idx = @ + 1]
  /\ UNCHANGED vq_device

(* Block requests take three descriptors and poll, frames take two and do
   not; neither gives descriptors back. *)
virtio_submit(n) ==
  /\ vq.ready = 1 /\ vq.avail_idx < MaxPosted
  /\ vq_add_avail(chained(vq, vq_get_desc(vq, n)))
  /\ UNCHANGED <<nvme_ctrl, cq_posted, ahci_dma, io_done>>

(* No memory for the header: the descriptors are gone all the same. *)
virtio_submit_nomem ==
  LET ds == vq_get_desc(vq, 3)
  IN  /\ vq.ready = 1
      /\ vq' = [vq EXCEPT !.free_head = vq.next[ds[3]]]
      /\ UNCHANGED <<nvme_ctrl, cq_posted, vq_device, ahci_dma, io_done>>

(* The device works through what it was shown. *)
vq_device_used ==
  /\ vq_device' = [vq_device EXCEPT !.used = vq_device.avail]
  /\ UNCHANGED <<nvme_ctrl, cq_posted, vq, ahci_dma, io_done>>

(* __vq_get_used, in the poll of __blk_submit and in virtio_net_recv. *)
vq_get_used ==
  /\ vq.ready = 1
  /\ IF vq.last_used_idx = vq_device.used THEN UNCHANGED <<vq, io_done>>
     ELSE /\ vq' = [vq EXCEPT !.last_used_idx = @ + 1]
          /\ io_done' = io_done \cup {"virtio"}
  /\ UNCHANGED <<nvme_ctrl, cq_posted, vq_device, ahci_dma>>

-----------------------------------------------------------------------------
(* ahci_init gives the port a page, or not.  *)
ahci_init ==
  /\ ahci_dma' \in {0, 1}
  /\ UNCHANGED <<nvme_ctrl, cq_posted, vq, vq_device, io_done>>

(* Registers at twice the base address: whatever memory answers there. *)
ahci_port_cmd(answer) ==
  /\ ahci_dma = 1
  /\ io_done' = io_done \cup answer
  /\ UNCHANGED <<nvme_ctrl, cq_posted, vq, vq_device, ahci_dma>>

NvmeNext ==
  \/ \E fault \in InitFault \cup {"none"}, n \in cq_posted .. MaxPosted : nvme_driver_init(fault, n)
  \/ \E ns \in NvmeNs, flush \in BOOLEAN, n \in cq_posted .. MaxPosted : nvme_rw(ns, flush, n)
  \/ \E answer \in {"fatal", "late", "complete"} : nvme_shutdown(answer)

VirtioNext ==
  \/ \E enough \in BOOLEAN : virtio_dev_init(enough)
  \/ \E n \in {2, 3} : virtio_submit(n)
  \/ virtio_submit_nomem \/ vq_device_used \/ vq_get_used
  \/ ahci_init \/ \E answer \in {{}, {"ahci"}} : ahci_port_cmd(answer)
-----------------------------------------------------------------------------
BlockTypeOK ==
  /\ nvme_ctrl.state \in {"NONE", "RESET", "INITING", "READY", "FAILED", "SHUTDOWN"}
  /\ nvme_ctrl.tail \in 0 .. NVME_ADMIN_QUEUE_DEPTH - 1 /\ nvme_ctrl.head \in 0 .. NVME_ADMIN_QUEUE_DEPTH - 1
  /\ nvme_ctrl.phase \in {0, 1} /\ nvme_ctrl.io_created \in {0, 1}
  /\ vq.free_head \in 0 .. VqNum - 1 /\ \A d \in 0 .. VqNum - 1 : vq.next[d] \in 0 .. VqNum - 1

(* What nvme_poll_cq and __vq_add_avail come to, whatever the devices post *)
(* and whichever calls are made: the NVMe controller is never READY, has   *)
(* no I/O queue and no namespace, and no request of the NVMe and virtio    *)
(* drivers is ever seen to complete.                                       *)
NoCompletions ==
  /\ nvme_ctrl.state # "READY" /\ nvme_ctrl.io_created = 0 /\ nvme_ctrl.namespaces = {}
  /\ io_done \subseteq {"ahci"}
=============================================================================
