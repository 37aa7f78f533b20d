------------------------------ MODULE IpcRing ------------------------------
(***************************************************************************)
(* The message ring of kernel/ipc.c.  ipc_send and ipc_receive are each    *)
(* one step under ipc_buf_lock, by the process that current_process names. *)
(* The process_wakeup at the end of ipc_send finds nobody to wake: a       *)
(* process that is off the CPU is never asleep (Process!OffCpuSchedulable) *)
(* and ipc_receive does not wait.                                          *)
(***************************************************************************)
EXTENDS Integers, Sequences, FiniteSets

CONSTANTS
  Pid,                  \* process numbers
  IPC_MAX_MESSAGES,
  MaxSent               \* bound: messages sent

ASSUME RingAssumption ==
  /\ Pid \subseteq Nat
  /\ IPC_MAX_MESSAGES \in Nat \ {0}
  /\ MaxSent \in Nat

VARIABLES
  ipc_buffer, ipc_head, ipc_tail, ipc_count,
  sent,             \* history: how many messages were sent; data is the number
  taken             \* history: the messages received, in order

ringVars == <<ipc_buffer, ipc_head, ipc_tail, ipc_count, sent, taken>>

Index == 0 .. IPC_MAX_MESSAGES - 1
Zero  == [source |-> 0, destination |-> 0, data |-> 0]      \* after the memset of ipc_init
ANY   == -1

ipc_init ==
  /\ ipc_buffer = [i \in Index |-> Zero]
  /\ ipc_head = 0 /\ ipc_tail = 0 /\ ipc_count = 0
  /\ sent = 0
  /\ taken = << >>

(* Mutant: the tail is advanced before the message is stored. *)
slot_after_tail == (ipc_tail + 1) % IPC_MAX_MESSAGES

slot_at_tail == ipc_tail

(* Mutant: the tail runs past the end of the buffer. *)
next_tail_unwrapped == ipc_tail + 1

next_tail == (ipc_tail + 1) % IPC_MAX_MESSAGES

(* size > IPC_MAX_SIZE and a full ring are refused. *)
ipc_send(self, destination) ==
  /\ sent < MaxSent
  /\ ipc_count < IPC_MAX_MESSAGES
  /\ sent' = sent + 1
  /\ ipc_buffer' = [ipc_buffer EXCEPT ![slot_at_tail] =
                      [source |-> self, destination |-> destination, data |-> sent']]
  /\ ipc_tail' = next_tail
  /\ ipc_count' = ipc_count + 1
  /\ UNCHANGED <<ipc_head, taken>>

ring_at(i) == (ipc_head + i) % IPC_MAX_MESSAGES

accepts(self, source, i) ==
  LET msg == ipc_buffer[ring_at(i)]
  IN  msg.destination = self /\ (source = ANY \/ msg.source = source)

(* The hole is filled with the last message; ipc_tail stays where it is. *)
ipc_receive(self, source) ==
  \E i \in 0 .. ipc_count - 1 :
    LET idx      == ring_at(i)
        tail_idx == ring_at(ipc_count - 1)
    IN  /\ accepts(self, source, i)
        /\ \A j \in 0 .. i - 1 : ~accepts(self, source, j)
        /\ taken' = Append(taken, ipc_buffer[idx])
        /\ ipc_buffer' = [ipc_buffer EXCEPT ![idx] = ipc_buffer[tail_idx]]
        /\ ipc_count' = ipc_count - 1
        /\ UNCHANGED <<ipc_head, ipc_tail, sent>>

RingNext ==
  \E self \in Pid :
    \/ \E destination \in Pid : ipc_send(self, destination)
    \/ \E source \in Pid \cup {ANY} : ipc_receive(self, source)

RingSpec == ipc_init /\ [][RingNext]_ringVars

-----------------------------------------------------------------------------
(* Every variable has the type of the C object it stands for. *)
RingTypeOK ==
  /\ ipc_buffer \in [Index -> [source : Nat, destination : Nat, data : 0 .. MaxSent]]
  /\ ipc_head \in Index /\ ipc_tail \in Index
  /\ ipc_count \in 0 .. IPC_MAX_MESSAGES
  /\ sent \in 0 .. MaxSent

(***************************************************************************)
(* No receiver is handed a message that nobody sent: the entries that      *)
(* ipc_count covers were all written by ipc_send, although receiving moves *)
(* entries about and never moves ipc_tail back.                            *)
(***************************************************************************)
OnlySentMessages == \A i \in 0 .. ipc_count - 1 : ipc_buffer[ring_at(i)].data # 0

(***************************************************************************)
(* README.md calls it a ring buffer ("IPC 环形缓冲区"): a message is handed   *)
(* out once.                                                               *)
(***************************************************************************)
ReceivedOnce == \A i, j \in DOMAIN taken : i # j => taken[i] # taken[j]
=============================================================================
