----------------------------- MODULE IpcObject -----------------------------
(* What the System V objects of kernel/ipc.c have in common. *)
EXTENDS FiniteSets

CONSTANT Proc           \* the processes that use them

ASSUME ProcFinite == IsFiniteSet(Proc)

IPC_PRIVATE == 0        \* the key that every get call takes for a new object
=============================================================================
