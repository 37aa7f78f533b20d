------------------------------- MODULE SemSet -------------------------------
(***************************************************************************)
(* The System V semaphore sets of kernel/ipc.c.  sem_op takes its          *)
(* operations one by one and gives up sem_lock and the CPU in the middle   *)
(* of the list when one would make a value negative.                       *)
(***************************************************************************)
EXTENDS IpcObject, Integers, Sequences, FiniteSetsExt

CONSTANTS
  SEM_MAX,        \* entries of sem_table[]
  SEM_SET_MAX,    \* entries of values[]
  SemKey,         \* keys other than IPC_PRIVATE
  W,              \* width of an element of values[] (16)
  OpLists,        \* the arguments of sem_op
  SetValues       \* the arguments of sem_ctl's SETVAL

ASSUME SemAssumption ==
  /\ SEM_MAX \in Nat \ {0} /\ SEM_SET_MAX \in Nat \ {0} /\ W \in Nat \ {0}
  /\ IPC_PRIVATE \notin SemKey

VARIABLES
  sem_table,      \* per set: key, nsems, values
  sem_count,      \* sets created
  sem_pc,         \* the sem_op call a process is in: set, list, position
  ledger          \* history: what the calls that have returned add up to

semVars == <<sem_table, sem_count, sem_pc, ledger>>

Sid == 0 .. SEM_MAX - 1
Sem == 0 .. SEM_SET_MAX - 1

int16(x) == ((x + 2^(W - 1)) % 2^W) - 2^(W - 1)
Int16 == 0 - 2^(W - 1) .. 2^(W - 1) - 1

NoSet == [key |-> IPC_PRIVATE, nsems |-> 0, values |-> [n \in Sem |-> 0]]
NoCall == [id |-> 0, ops |-> << >>, i |-> 1]

sem_init ==
  /\ sem_table = [s \in Sid |-> NoSet]
  /\ sem_count = 0
  /\ sem_pc = [p \in Proc |-> NoCall]
  /\ ledger = [s \in Sid |-> [n \in Sem |-> 0]]

(* An existing key, or no IPC_CREAT, or a full table change nothing. *)
sem_get(p, key, nsems) ==
  /\ sem_pc[p] = NoCall
  /\ key = IPC_PRIVATE \/ \A s \in 0 .. sem_count - 1 : sem_table[s].key # key
  /\ sem_count < SEM_MAX
  /\ sem_table' = [sem_table EXCEPT ![sem_count] = [NoSet EXCEPT !.key = key, !.nsems = nsems]]
  /\ sem_count' = sem_count + 1
  /\ UNCHANGED <<sem_pc, ledger>>

-----------------------------------------------------------------------------
(* The operations i .. k - 1 of ops, added up for semaphore n. *)
sum(ops, i, k, n) ==
  MapThenSumSet(LAMBDA j : ops[j].sem_op, {j \in i .. k - 1 : ops[j].sem_num = n})

(* values[] after the operations i .. k - 1. *)
after(v, ops, i, k) == [n \in Sem |-> int16(v[n] + sum(ops, i, k, n))]

bad(ss, op)      == op.sem_num >= ss.nsems
negative(v, op)  == v[op.sem_num] + op.sem_op < 0

(* The loop carries out the operations i .. k - 1 and comes to k. *)
reaches(ss, ops, i, k) ==
  \A j \in i .. k - 1 : ~bad(ss, ops[j]) /\ ~negative(after(ss.values, ops, i, j), ops[j])

credit(id, ops, k) == ledger' = [ledger EXCEPT ![id] = [n \in Sem |-> int16(@[n] + sum(ops, 1, k, n))]]

returns(p) == sem_pc' = [sem_pc EXCEPT ![p] = NoCall]

(* Mutant: after a wait the list is taken from its beginning. *)
waits_restarts(p, id, ops, k) ==
  /\ sem_pc' = [sem_pc EXCEPT ![p] = [id |-> id, ops |-> ops, i |-> 1]]
  /\ UNCHANGED ledger

waits(p, id, ops, k) ==
  /\ sem_pc' = [sem_pc EXCEPT ![p] = [id |-> id, ops |-> ops, i |-> k]]
  /\ UNCHANGED ledger

(***************************************************************************)
(* The loop of sem_op from position i on.  It stops at k because the list  *)
(* is done, because the operation names no semaphore of the set, because   *)
(* the value would be negative and IPC_NOWAIT is given, or to wait.  What  *)
(* was carried out before stays done in all four cases.                    *)
(***************************************************************************)
loop(p, id, ops, i) ==
  LET ss == sem_table[id]
  IN  \E k \in i .. Len(ops) + 1 :
        LET v == after(ss.values, ops, i, k)
        IN  /\ reaches(ss, ops, i, k)
            /\ sem_table' = [sem_table EXCEPT ![id].values = v]
            /\ UNCHANGED sem_count
            /\ \/ k = Len(ops) + 1 /\ returns(p) /\ credit(id, ops, k)
               \/ k <= Len(ops) /\ bad(ss, ops[k]) /\ returns(p) /\ credit(id, ops, k)
               \/ /\ k <= Len(ops) /\ ~bad(ss, ops[k]) /\ negative(v, ops[k])
                  /\ IF ops[k].nowait THEN returns(p) /\ credit(id, ops, k)
                                      ELSE waits(p, id, ops, k)

sem_op(p, id, ops) == sem_pc[p] = NoCall /\ id < sem_count /\ loop(p, id, ops, 1)

sem_op_resume(p) == sem_pc[p] # NoCall /\ loop(p, sem_pc[p].id, sem_pc[p].ops, sem_pc[p].i)

(* What the calls that are waiting in the middle of their lists have added. *)
pending(id, n) ==
  MapThenSumSet(LAMBDA p : sum(sem_pc[p].ops, 1, sem_pc[p].i, n), {p \in Proc : sem_pc[p].id = id})

(* sem_ctl, command 0: the set is cleared, its id stays valid. *)
sem_ctl_rmid(p, id) ==
  /\ sem_pc[p] = NoCall /\ id < sem_count
  /\ sem_table' = [sem_table EXCEPT ![id] = NoSet]
  /\ UNCHANGED <<sem_count, sem_pc, ledger>>

(* sem_ctl, command 1: the int argument is stored in an int16_t. *)
sem_ctl_setval(p, id, n, val) ==
  /\ sem_pc[p] = NoCall /\ id < sem_count
  /\ n < sem_table[id].nsems
  /\ sem_table' = [sem_table EXCEPT ![id].values[n] = int16(val)]
  /\ ledger' = [ledger EXCEPT ![id][n] = int16(val - pending(id, n))]
  /\ UNCHANGED <<sem_count, sem_pc>>

SemNext ==
  \E p \in Proc :
    \/ \E key \in SemKey \cup {IPC_PRIVATE}, nsems \in 1 .. SEM_SET_MAX : sem_get(p, key, nsems)
    \/ \E id \in Sid :
         \/ \E ops \in OpLists : sem_op(p, id, ops)
         \/ sem_ctl_rmid(p, id)
         \/ \E n \in Sem, val \in SetValues : sem_ctl_setval(p, id, n, val)
    \/ sem_op_resume(p)

SemSpec == sem_init /\ [][SemNext]_semVars

-----------------------------------------------------------------------------
(* Every variable has the type of the C object it stands for. *)
SemTypeOK ==
  /\ sem_table \in [Sid -> [key : SemKey \cup {IPC_PRIVATE}, nsems : 0 .. SEM_SET_MAX, values : [Sem -> Int16]]]
  /\ sem_count \in 0 .. SEM_MAX
  /\ \A p \in Proc : sem_pc[p].id \in Sid /\ sem_pc[p].ops \in OpLists \cup {<< >>}

(***************************************************************************)
(* However the calls interleave, a value is what the calls that have       *)
(* returned and the finished parts of the waiting ones add up to: no       *)
(* operation is carried out twice or forgotten across a wait.  A set that  *)
(* was removed stays zero, although calls may still be waiting in it.      *)
(***************************************************************************)
SemLedger ==
  \A id \in Sid, n \in Sem :
    sem_table[id].values[n] =
      IF n < sem_table[id].nsems THEN int16(ledger[id][n] + pending(id, n)) ELSE 0
=============================================================================
