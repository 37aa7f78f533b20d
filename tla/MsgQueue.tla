------------------------------ MODULE MsgQueue ------------------------------
(***************************************************************************)
(* The System V message queues of kernel/ipc.c.  msg_lock is given up only *)
(* around process_yield, so a call is one step, or one step per test of    *)
(* its waiting loop.  Which process runs between two steps is left open.   *)
(***************************************************************************)
EXTENDS IpcObject, Integers, Sequences

CONSTANTS
  MSG_MAX,          \* entries of msg_queues[]
  MAX_BYTES,        \* max_bytes of a new queue
  Size,             \* bound: message sizes, at most MSG_TEXT_MAX
  MsgKey,           \* keys other than IPC_PRIVATE
  Type,             \* message types, positive
  Text,             \* message texts
  MaxQueued         \* bound: messages in a queue

ASSUME MsgAssumption ==
  /\ MSG_MAX \in Nat \ {0} /\ MAX_BYTES \in Nat
  /\ Size \subseteq Nat
  /\ Type \subseteq Nat \ {0}
  /\ IPC_PRIVATE \notin MsgKey

VARIABLES
  msg_queues,       \* per queue: key, msg_count, current_bytes, max_bytes
  msg_entries,      \* per queue: the list of msg_entry_t
  msg_count,        \* queues created
  msg_pc            \* the waiting loop a process was switched out in

msgVars == <<msg_queues, msg_entries, msg_count, msg_pc>>

Qid   == 0 .. MSG_MAX - 1
Entry == [mtype : Type, msize : Size, mtext : Text]
MsqId == [key : MsgKey \cup {IPC_PRIVATE}, msg_count : Nat,
          current_bytes : Nat, max_bytes : {0, MAX_BYTES}]
NoQueue == [key |-> IPC_PRIVATE, msg_count |-> 0, current_bytes |-> 0, max_bytes |-> 0]

(* What msg_recv may ask for: any type, one, or all up to one. *)
Wanted == {0} \cup Type \cup {0 - t : t \in Type}

Running == [at |-> "run"]
Sending(q, e)   == [at |-> "send", q |-> q, e |-> e]
Receiving(q, t) == [at |-> "recv", q |-> q, t |-> t]
Calls == {Running} \cup {Sending(q, e) : q \in Qid, e \in Entry}
                   \cup {Receiving(q, t) : q \in Qid, t \in Wanted}

msg_init ==
  /\ msg_queues = [q \in Qid |-> NoQueue]
  /\ msg_entries = [q \in Qid |-> << >>]
  /\ msg_count = 0
  /\ msg_pc = [p \in Proc |-> Running]

resume(p, pc) == msg_pc' = [msg_pc EXCEPT ![p] = pc]

-----------------------------------------------------------------------------
(* An existing key, or no IPC_CREAT, or a full table change nothing. *)
msg_get(p, key) ==
  /\ msg_pc[p] = Running
  /\ key = IPC_PRIVATE \/ \A q \in 0 .. msg_count - 1 : msg_queues[q].key # key
  /\ msg_count < MSG_MAX
  /\ msg_queues' = [msg_queues EXCEPT ![msg_count] =
                      [NoQueue EXCEPT !.key = key, !.max_bytes = MAX_BYTES]]
  /\ msg_entries' = [msg_entries EXCEPT ![msg_count] = << >>]
  /\ msg_count' = msg_count + 1
  /\ UNCHANGED msg_pc

full(q, e) == msg_queues[q].current_bytes + e.msize > msg_queues[q].max_bytes

(* Mutant: the new entry becomes the head of the list. *)
push(q, e) == msg_entries' = [msg_entries EXCEPT ![q] = <<e>> \o @]

append(q, e) == msg_entries' = [msg_entries EXCEPT ![q] = Append(@, e)]

enqueue(p, q, e) ==
  /\ Len(msg_entries[q]) < MaxQueued
  /\ append(q, e)
  /\ msg_queues' = [msg_queues EXCEPT ![q].msg_count = @ + 1,
                                      ![q].current_bytes = @ + e.msize]
  /\ resume(p, Running)
  /\ UNCHANGED msg_count

(* With IPC_NOWAIT a full queue, as an allocation that fails, is an error. *)
msg_send(p, q, e) ==
  /\ msg_pc[p] = Running
  /\ q < msg_count
  /\ \/ ~full(q, e) /\ enqueue(p, q, e)
     \/ /\ full(q, e)
        /\ resume(p, Sending(q, e))
        /\ UNCHANGED <<msg_queues, msg_entries, msg_count>>

(* Mutant: after the wait the room is not measured again. *)
send_without_retest(p) ==
  /\ msg_pc[p].at = "send"
  /\ enqueue(p, msg_pc[p].q, msg_pc[p].e)

(* The loop goes round; kzalloc may fail then, and the message is dropped. *)
msg_send_resume(p) ==
  /\ msg_pc[p].at = "send"
  /\ ~full(msg_pc[p].q, msg_pc[p].e)
  /\ \/ enqueue(p, msg_pc[p].q, msg_pc[p].e)
     \/ resume(p, Running) /\ UNCHANGED <<msg_queues, msg_entries, msg_count>>

matches(e, t) == t = 0 \/ e.mtype = t \/ (t < 0 /\ e.mtype <= 0 - t)

(* The list es without its i-th entry. *)
unlink(es, i) == [j \in 1 .. Len(es) - 1 |-> IF j < i THEN es[j] ELSE es[j + 1]]

(* The first entry that matches leaves the list. *)
dequeue(p, q, i) ==
  /\ msg_entries' = [msg_entries EXCEPT ![q] = unlink(@, i)]
  /\ msg_queues' = [msg_queues EXCEPT ![q].msg_count = @ - 1,
                                      ![q].current_bytes = @ - msg_entries[q][i].msize]
  /\ resume(p, Running)
  /\ UNCHANGED msg_count

receive(p, q, t) ==
  \/ \E i \in DOMAIN msg_entries[q] :
       /\ matches(msg_entries[q][i], t)
       /\ \A j \in 1 .. i - 1 : ~matches(msg_entries[q][j], t)
       /\ dequeue(p, q, i)
  \/ /\ msg_entries[q] # << >>
     /\ \A i \in DOMAIN msg_entries[q] : ~matches(msg_entries[q][i], t)
     /\ resume(p, Running)                       \* -1, also without IPC_NOWAIT
     /\ UNCHANGED <<msg_queues, msg_entries, msg_count>>

msg_recv(p, q, t) ==
  /\ msg_pc[p] = Running
  /\ q < msg_count
  /\ \/ receive(p, q, t)
     \/ /\ msg_entries[q] = << >>
        /\ resume(p, Receiving(q, t))
        /\ UNCHANGED <<msg_queues, msg_entries, msg_count>>

msg_recv_resume(p) ==
  /\ msg_pc[p].at = "recv"
  /\ receive(p, msg_pc[p].q, msg_pc[p].t)

(* msg_ctl with command 0.  The id stays valid. *)
msg_ctl(p, q) ==
  /\ msg_pc[p] = Running
  /\ q < msg_count
  /\ msg_entries' = [msg_entries EXCEPT ![q] = << >>]
  /\ msg_queues' = [msg_queues EXCEPT ![q] = NoQueue]
  /\ UNCHANGED <<msg_count, msg_pc>>

MsgNext ==
  \E p \in Proc :
    \/ \E key \in MsgKey \cup {IPC_PRIVATE} : msg_get(p, key)
    \/ \E q \in Qid :
         \/ \E e \in Entry : msg_send(p, q, e)
         \/ \E t \in Wanted : msg_recv(p, q, t)
         \/ msg_ctl(p, q)
    \/ msg_send_resume(p) \/ msg_recv_resume(p)

MsgSpec == msg_init /\ [][MsgNext]_msgVars

-----------------------------------------------------------------------------
(* Every variable has the type of the C object it stands for. *)
MsgTypeOK ==
  /\ msg_queues \in [Qid -> MsqId]
  /\ msg_entries \in [Qid -> Seq(Entry)]
  /\ msg_count \in 0 .. MSG_MAX
  /\ msg_pc \in [Proc -> Calls]

(* The text bytes of the entries es. *)
bytes(es) ==
  LET upto[i \in 0 .. Len(es)] == IF i = 0 THEN 0 ELSE upto[i - 1] + es[i].msize
  IN  upto[Len(es)]

(***************************************************************************)
(* msg_count and current_bytes are what the list holds, and the list never *)
(* holds more than max_bytes, although senders test the room before a      *)
(* process_yield and a queue may be removed while they wait.               *)
(***************************************************************************)
QueueAccounting ==
  \A q \in Qid :
    /\ msg_queues[q].msg_count = Len(msg_entries[q])
    /\ msg_queues[q].current_bytes = bytes(msg_entries[q])
    /\ msg_queues[q].current_bytes <= msg_queues[q].max_bytes

(* A queue as its users see it: one FIFO of texts for every type. *)
ofType(es, t) ==
  LET upto[i \in 0 .. Len(es)] ==
        IF i = 0 THEN << >>
        ELSE IF es[i].mtype = t THEN Append(upto[i - 1], es[i].mtext) ELSE upto[i - 1]
  IN  upto[Len(es)]

Channels == INSTANCE TypedChannels
  WITH Queue <- Qid, chan <- [q \in Qid |-> [t \in Type |-> ofType(msg_entries[q], t)]]

(* Messages of one type are received in the order they were sent, each once, or go with the queue. *)
QueueIsTypedFifo == Channels!Spec
=============================================================================
