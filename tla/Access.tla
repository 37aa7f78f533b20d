------------------------------- MODULE Access -------------------------------
(***************************************************************************)
(* Access control: the chain of security modules (lsm.c), the type         *)
(* enforcement tables and the decision cache of selinux.c, and the         *)
(* credentials of security.c.                                              *)
(*                                                                         *)
(* A hook walks the chain without lsm_lock, and each module's callback may *)
(* be interrupted, so a walk is a sequence of steps between which modules  *)
(* come and go.  A SELinux check takes its locks one at a time: look up,   *)
(* compute, insert are separate steps of each task.                        *)
(***************************************************************************)
EXTENDS Naturals, Integers, Sequences, FiniteSets, SequencesExt, FiniteSetsExt

CONSTANTS LsmName,      \* names modules are registered under
          CutName,      \* a name of LSM_NAME_MAX characters or more |-> its first LSM_NAME_MAX - 1
          Provides,     \* security_operations_t |-> the hooks it implements
          MaxRegs,      \* registrations
          CredTask,     \* processes
          Uid,          \* user and group ids, 0 included
          Cap,          \* capabilities
          SELINUX_SID_MAX, Context,  \* contexts asked for beside the initial ones
          Checker,      \* tasks inside a SELinux hook
          CheckedHook,  \* the hooks they call
          SELINUX_FIELD_MAX,         \* SELINUX_USER_MAX .. SELINUX_LEVEL_MAX
          MaxFlushes

VARIABLES lsm_modules,      \* the list, head first
          lsm_primary_ops, lsm_regs,
          lsm_walk,         \* a hook under way
          cred,             \* proc->cred
          se_contexts,      \* selinux_state.contexts[1 .. next_sid - 1]
          avc_cache, enforcing, se_check, avc_flushes

lsmVars == <<lsm_modules, lsm_primary_ops, lsm_regs, lsm_walk>>
credVars == <<cred>>
seVars == <<se_contexts, avc_cache, enforcing, se_check, avc_flushes>>

-----------------------------------------------------------------------------
(* The chain of security modules                                           *)

\* lsm.c defines these three without asking any module.
Unasked == {"inode_setattr", "inode_getattr", "file_receive"}

LsmHook == UNION {Provides[o] : o \in DOMAIN Provides}
no_ops == "NULL"
no_walk == [hook |-> "none", at |-> 0, phase |-> "idle", asked |-> {}, owed |-> {}, torn |-> FALSE]

lsm_ids == {lsm_modules[i].id : i \in DOMAIN lsm_modules}
lsm_stored(name) == IF name \in DOMAIN CutName THEN CutName[name] ELSE name
lsm_named(name) == SelectInSeq(lsm_modules, LAMBDA mod : mod.name = name)
lsm_after(id) ==
  LET i == SelectInSeq(lsm_modules, LAMBDA mod : mod.id = id)
  IN  IF i < Len(lsm_modules) THEN lsm_modules[i + 1].id ELSE 0

lsm_init ==
  /\ lsm_modules = <<>> /\ lsm_primary_ops = no_ops
  /\ lsm_regs = 0 /\ lsm_walk = no_walk

\* A first module is put at the head; a later one behind the modules of
\* LSM_ORDER_FIRST, which only a module registered into an empty chain is.
lsm_position == IF lsm_primary_ops = no_ops THEN 1
                ELSE 1 + Cardinality({i \in DOMAIN lsm_modules : \A j \in 1..i : lsm_modules[j].order = "FIRST"})

lsm_register_security(name, ops) ==
  /\ lsm_regs < MaxRegs
  /\ lsm_named(name) = 0
  /\ lsm_modules' = InsertAt(lsm_modules, lsm_position,
                      [id |-> lsm_regs + 1, name |-> lsm_stored(name), ops |-> ops,
                       order |-> IF lsm_primary_ops = no_ops THEN "FIRST" ELSE "SECONDARY"])
  /\ lsm_primary_ops' = IF lsm_primary_ops = no_ops THEN ops ELSE lsm_primary_ops
  /\ lsm_regs' = lsm_regs + 1
  /\ UNCHANGED lsm_walk

primary_after(i, rest) ==
  IF lsm_modules[i].ops # lsm_primary_ops THEN lsm_primary_ops
  ELSE IF rest = <<>> THEN no_ops ELSE rest[1].ops

lsm_unregister_security(name) ==
  LET i == lsm_named(name)
  IN  /\ i # 0
      /\ LET rest == RemoveAt(lsm_modules, i)
         IN  lsm_modules' = rest /\ lsm_primary_ops' = primary_after(i, rest)
      /\ lsm_walk' = [lsm_walk EXCEPT !.torn = lsm_walk.phase # "idle"]
      /\ UNCHANGED lsm_regs

\* security_inode_permission and its like.
security_hook(hook) ==
  /\ lsm_walk.phase = "idle"
  /\ lsm_walk' = [no_walk EXCEPT !.hook = hook,
                    !.at = IF hook \in Unasked \/ lsm_modules = <<>> THEN 0 ELSE lsm_modules[1].id,
                    !.phase = "call",
                    !.owed = IF hook \in Unasked THEN {}
                             ELSE {lsm_modules[i].id : i \in {j \in DOMAIN lsm_modules : hook \in Provides[lsm_modules[j].ops]}}]
  /\ UNCHANGED <<lsm_modules, lsm_primary_ops, lsm_regs>>

\* The body of an lsm_call_chain_ loop: a module that implements the hook is
\* asked, and a refusal ends the walk unless the hook returns nothing.  A
\* module freed under the walk is read all the same ("astray").
call_chain(rc) ==
  /\ lsm_walk.phase = "call" /\ lsm_walk.at # 0
  /\ lsm_walk' =
       IF lsm_walk.at \notin lsm_ids THEN [lsm_walk EXCEPT !.phase = "astray"]
       ELSE LET mod == lsm_modules[SelectInSeq(lsm_modules, LAMBDA x : x.id = lsm_walk.at)]
            IN  IF lsm_walk.hook \notin Provides[mod.ops] THEN [lsm_walk EXCEPT !.phase = "next"]
                ELSE [lsm_walk EXCEPT !.asked = @ \cup {mod.id},
                        !.phase = IF rc # 0 /\ lsm_walk.hook # "task_free" THEN "denied" ELSE "next"]
  /\ UNCHANGED <<lsm_modules, lsm_primary_ops, lsm_regs>>

\* mod = mod->next, and the end of the walk.
chain_next ==
  /\ lsm_walk.phase = "next" \/ (lsm_walk.phase = "call" /\ lsm_walk.at = 0)
  /\ lsm_walk' =
       IF lsm_walk.at = 0 THEN [lsm_walk EXCEPT !.phase = "granted"]
       ELSE IF lsm_walk.at \notin lsm_ids THEN [lsm_walk EXCEPT !.phase = "astray"]
       ELSE [lsm_walk EXCEPT !.at = lsm_after(lsm_walk.at), !.phase = "call"]
  /\ UNCHANGED <<lsm_modules, lsm_primary_ops, lsm_regs>>

\* The caller has its answer.
hook_returned ==
  /\ lsm_walk.phase \in {"granted", "denied", "astray"}
  /\ lsm_walk' = no_walk
  /\ UNCHANGED <<lsm_modules, lsm_primary_ops, lsm_regs>>

LsmNext ==
  \/ \E name \in LsmName, ops \in DOMAIN Provides : lsm_register_security(name, ops)
  \/ \E name \in LsmName : lsm_unregister_security(name)
  \/ \E hook \in LsmHook : security_hook(hook)
  \/ \E rc \in {0, -1} : call_chain(rc)
  \/ chain_next
  \/ hook_returned

\* The chain stays in order however modules come and go: the primary
\* operations belong to a module that is registered, only the head can have
\* been first, and while it lasts the primary operations are its own.  A walk
\* no unregistration disturbed never reads a freed module, and when it grants
\* it has asked every module that was there from its beginning
\* (lsm_register_security, lsm_unregister_security, the lsm_call_chain loops).
ChainBooks ==
  /\ (lsm_primary_ops = no_ops) <=> (lsm_modules = <<>>)
  /\ lsm_modules # <<>> => \E i \in DOMAIN lsm_modules : lsm_modules[i].ops = lsm_primary_ops
  /\ \A i \in DOMAIN lsm_modules :
       /\ lsm_modules[i].order = "FIRST" => i = 1 /\ lsm_primary_ops = lsm_modules[1].ops
       /\ \A j \in DOMAIN lsm_modules :
            (lsm_modules[i].name = lsm_modules[j].name /\ i # j)
              => lsm_modules[i].name \in {CutName[n] : n \in DOMAIN CutName}
  /\ lsm_walk.phase = "astray" => lsm_walk.torn
  /\ (lsm_walk.phase = "granted" /\ ~lsm_walk.torn) => lsm_walk.owed \subseteq lsm_walk.asked
  /\ lsm_walk.phase = "denied" => lsm_walk.at \in lsm_walk.asked

-----------------------------------------------------------------------------
(* Credentials                                                             *)

no_cred == [none |-> TRUE]
init_cred ==
  [uid |-> 0, euid |-> 0, suid |-> 0, ruid |-> 0, gid |-> 0, egid |-> 0, sgid |-> 0, rgid |-> 0,
   permitted |-> Cap, effective |-> Cap, seccomp |-> "DISABLED"]

\* proc->cred is NULL until it is given one.
cred_init == cred = [p \in CredTask |-> no_cred]

cap_test(set, cap) == cap \in Cap /\ cap \in set
security_check_cap(c, cap) == c.euid = 0 \/ cap_test(c.effective, cap)

security_init_cred(p) == cred' = [cred EXCEPT ![p] = init_cred]

security_copy_cred(dst, src) ==
  /\ cred[src] # no_cred
  /\ cred' = [cred EXCEPT ![dst] = cred[src]]

\* The superuser changes the three ids the call sets, never ruid, and gives up
\* its capabilities unless it stays the superuser.
user_changed(c, uid) ==
  LET moved == [c EXCEPT !.uid = uid, !.euid = uid, !.suid = uid]
  IN  IF uid = 0 THEN moved ELSE [moved EXCEPT !.effective = {}, !.permitted = {}]

security_setuid(p, uid) ==
  /\ cred[p] # no_cred
  /\ LET c == cred[p]
     IN  cred' = IF c.euid = 0 THEN [cred EXCEPT ![p] = user_changed(c, uid)]
                 ELSE IF uid \in {c.ruid, c.suid} THEN [cred EXCEPT ![p].euid = uid]
                 ELSE cred

security_setgid(p, gid) ==
  /\ cred[p] # no_cred
  /\ LET c == cred[p]
     IN  cred' = IF c.euid = 0 THEN [cred EXCEPT ![p].gid = gid, ![p].egid = gid, ![p].sgid = gid]
                 ELSE IF gid \in {c.rgid, c.sgid} THEN [cred EXCEPT ![p].egid = gid]
                 ELSE cred

security_seccomp_set_mode(p, mode) ==
  /\ cred[p] # no_cred
  /\ mode \in {"DISABLED", "STRICT", "FILTER"}
  /\ security_check_cap(cred[p], "SYS_ADMIN")
  /\ cred' = [cred EXCEPT ![p].seccomp = mode]

CredNext ==
  \/ \E p \in CredTask : security_init_cred(p)
  \/ \E dst \in CredTask, src \in CredTask : security_copy_cred(dst, src)
  \/ \E p \in CredTask, id \in Uid : security_setuid(p, id) \/ security_setgid(p, id)
  \/ \E p \in CredTask, mode \in {"DISABLED", "STRICT", "FILTER"} : security_seccomp_set_mode(p, mode)

\* Capability sets and identity never disagree: along any sequence of
\* setuid, setgid, copies and seccomp changes a capability check grants what
\* the effective user 0 would be granted and nothing else, the effective set is
\* the permitted one, and an effective id is one the process was given or
\* started with (security_check_cap, security_setuid, security_setgid).
CredBooks ==
  \A p \in CredTask : cred[p] # no_cred =>
    LET c == cred[p]
    IN  /\ \A cap \in Cap : security_check_cap(c, cap) <=> c.euid = 0
        /\ c.permitted = c.effective
        /\ c.euid \in {c.ruid, c.suid} /\ c.egid \in {c.rgid, c.sgid}
        /\ c.uid = c.suid /\ c.gid = c.sgid

-----------------------------------------------------------------------------
(* SELinux                                                                 *)

KERNEL == 1
UNLABELED == 2
FILE == 3
DIR == 4
PROCESS == 10
SOCKET == 13
TCP_SOCKET == 14
NODE == 18
SECINITSID_MAX == 21

\* selinux_sidtab_init: seven of the twenty initial entries are given a
\* context, KERNEL and PROCESS the same one; the others stay zero.
selinux_sidtab_init ==
  [i \in 1..(SECINITSID_MAX - 1) |->
     CASE i \in {KERNEL, PROCESS} -> "kernel_t"
       [] i = UNLABELED -> "unlabeled_t"
       [] i = FILE -> "file_t"
       [] i = DIR -> "dir_t"
       [] i = TCP_SOCKET -> "tcp_socket_t"
       [] i = SOCKET -> "socket_t"
       [] OTHER -> "blank"]

\* selinux_load_default_policy: what each (source, target, class) may do.
socket_perms == {"BIND", "CONNECT", "LISTEN", "ACCEPT", "SEND", "RECV", "READ", "WRITE", "SHUTDOWN"}
process_perms == {"FORK", "TRANSITION", "SIGCHLD", "SIGKILL", "SIGNAL", "GETATTR", "SETSID"}
avtab ==
  { [key |-> <<KERNEL, FILE, "FILE">>,
     allowed |-> {"READ", "WRITE", "GETATTR", "CREATE", "UNLINK", "APPEND", "RENAME", "LOCK", "EXECUTE", "MOUNTON"}],
    [key |-> <<KERNEL, DIR, "DIR">>,
     allowed |-> {"READ", "WRITE", "CREATE", "GETATTR", "REMOVE_NAME", "ADD_NAME", "SEARCH", "LIST", "RMDIR"}],
    [key |-> <<PROCESS, PROCESS, "PROCESS">>, allowed |-> process_perms],
    [key |-> <<KERNEL, PROCESS, "PROCESS">>, allowed |-> process_perms \cup {"EXECMEM", "DYNTRANSITION"}],
    [key |-> <<KERNEL, TCP_SOCKET, "TCP_SOCKET">>, allowed |-> socket_perms \cup {"NODE_BIND"}],
    [key |-> <<KERNEL, SOCKET, "SOCKET">>, allowed |-> socket_perms],
    [key |-> <<KERNEL, KERNEL, "SYSTEM">>, allowed |-> {"IPC_INFO", "SYSLOG", "MODIFY"}] }

\* What a key may do: nothing when the table has no entry for it.
selinux_compute_av(key) == UNION {e.allowed : e \in {x \in avtab : x.key = key}}

\* The (key, permissions) each hook asks about; bits 1, 2 and 4 of an inode
\* mask are read, write and execute.
selinux_inode_perm(mask) ==
  {"GETATTR"} \cup (IF 1 \in mask THEN {"READ"} ELSE {})
    \cup (IF 2 \in mask THEN {"WRITE"} ELSE {}) \cup (IF 4 \in mask THEN {"EXECUTE"} ELSE {})
ask(source, target, class, perms) == [key |-> <<source, target, class>>, perms |-> perms]
selinux_inode_permission == {ask(KERNEL, FILE, "FILE", selinux_inode_perm(mask)) : mask \in SUBSET {1, 2, 4}}
selinux_socket_bind == ask(KERNEL, SOCKET, "SOCKET", {"BIND", "NODE_BIND"})
selinux_socket_io == {ask(KERNEL, TCP_SOCKET, "TCP_SOCKET", {op}) : op \in {"CONNECT", "SEND", "RECV"}}
selinux_task_create == ask(PROCESS, PROCESS, "PROCESS", {"FORK"})
selinux_task_setid == ask(KERNEL, PROCESS, "PROCESS", {"DYNTRANSITION"})
selinux_task_kill == ask(KERNEL, PROCESS, "PROCESS", {"SIGKILL", "SIGNAL"})
selinux_node_perm == ask(KERNEL, NODE, "NODE", {"0x01"})
selinux_hooks ==
  selinux_inode_permission \cup selinux_socket_io
    \cup {selinux_socket_bind, selinux_task_create, selinux_task_setid, selinux_task_kill, selinux_node_perm}

no_check == [phase |-> "idle"]

selinux_init ==
  /\ se_contexts = selinux_sidtab_init
  /\ avc_cache = <<>> /\ enforcing = TRUE
  /\ se_check = [t \in Checker |-> no_check] /\ avc_flushes = 0

selinux_set_enforcing(val) ==
  enforcing' = val /\ UNCHANGED <<se_contexts, avc_cache, se_check, avc_flushes>>

known_sids(ctx) == {i \in DOMAIN se_contexts : se_contexts[i] = ctx}

\* The least sid with this context, else a new one while there is room.
selinux_context_to_sid(ctx) ==
  IF known_sids(ctx) # {} THEN Min(known_sids(ctx))
  ELSE IF Len(se_contexts) + 1 >= SELINUX_SID_MAX THEN -1
  ELSE Len(se_contexts) + 1

selinux_sid_to_context(sid) == IF sid \in DOMAIN se_contexts THEN se_contexts[sid] ELSE "none"

label(ctx) ==
  /\ se_contexts' = IF selinux_context_to_sid(ctx) = Len(se_contexts) + 1
                    THEN Append(se_contexts, ctx) ELSE se_contexts
  /\ UNCHANGED <<avc_cache, enforcing, se_check, avc_flushes>>

cached_av(key) == SelectInSeq(avc_cache, LAMBDA slot : slot.key = key)

\* selinux_avc_has_perm, first lock: selinux_avc_lookup.
selinux_avc_lookup(t, hook) ==
  /\ se_check[t].phase = "idle"
  /\ LET i == cached_av(hook.key)
     IN  se_check' = [se_check EXCEPT ![t] =
           [phase |-> IF i # 0 THEN "check" ELSE "compute", hook |-> hook,
            allowed |-> IF i # 0 THEN avc_cache[i].allowed ELSE {}]]
  /\ UNCHANGED <<se_contexts, avc_cache, enforcing, avc_flushes>>

\* Second lock: the decision of the table.
avc_compute(t) ==
  /\ se_check[t].phase = "compute"
  /\ se_check' = [se_check EXCEPT ![t].phase = "insert", ![t].allowed = selinux_compute_av(se_check[t].hook.key)]
  /\ UNCHANGED <<se_contexts, avc_cache, enforcing, avc_flushes>>

avc_slot(t) == [key |-> se_check[t].hook.key, allowed |-> se_check[t].allowed]

\* Third lock: a new slot at the head of the bucket, whatever is there already.
selinux_avc_insert(t) ==
  /\ se_check[t].phase = "insert"
  /\ avc_cache' = <<avc_slot(t)>> \o avc_cache
  /\ se_check' = [se_check EXCEPT ![t].phase = "check"]
  /\ UNCHANGED <<se_contexts, enforcing, avc_flushes>>

\* The end of selinux_avc_has_perm; permissive mode lets the request pass.
selinux_avc_has_perm(t) ==
  /\ se_check[t].phase = "check"
  /\ LET check == se_check[t]
     IN  se_check' = [se_check EXCEPT ![t].phase =
                        IF check.hook.perms \subseteq check.allowed \/ ~enforcing THEN "granted" ELSE "denied"]
  /\ UNCHANGED <<se_contexts, avc_cache, enforcing, avc_flushes>>

\* The hook's caller has its answer.
check_returned(t) ==
  /\ se_check[t].phase \in {"granted", "denied"}
  /\ se_check' = [se_check EXCEPT ![t] = no_check]
  /\ UNCHANGED <<se_contexts, avc_cache, enforcing, avc_flushes>>

selinux_avc_flush ==
  /\ avc_flushes < MaxFlushes
  /\ avc_cache' = <<>> /\ avc_flushes' = avc_flushes + 1
  /\ UNCHANGED <<se_contexts, enforcing, se_check>>

SelinuxNext ==
  \/ \E t \in Checker, hook \in CheckedHook : selinux_avc_lookup(t, hook)
  \/ \E t \in Checker :
       avc_compute(t) \/ selinux_avc_insert(t) \/ selinux_avc_has_perm(t) \/ check_returned(t)
  \/ \E val \in BOOLEAN : selinux_set_enforcing(val)
  \/ selinux_avc_flush
  \/ \E ctx \in Context : label(ctx)

\* Labels: no context is given a second sid, a sid keeps the context it was
\* given, and the table never holds more than SELINUX_SID_MAX - 1 of them.
\* Reading a sid's context and asking for the sid of that context gives the
\* sid back except for PROCESS, which has the kernel's context, and for the
\* initial sids that were never given one (selinux_context_to_sid,
\* selinux_sid_to_context).
SidBooks ==
  /\ Len(se_contexts) < SELINUX_SID_MAX
  /\ \A i \in 1..(SECINITSID_MAX - 1) : se_contexts[i] = selinux_sidtab_init[i]
  /\ \A i \in DOMAIN se_contexts :
       LET again == selinux_context_to_sid(selinux_sid_to_context(i))
       IN  again = i \/ i = PROCESS \/ se_contexts[i] = "blank"

\* The decision cache agrees with the policy table in every interleaving of
\* tasks with a flush, holds no key more often than tasks can have missed it
\* at once, and a refusal is only ever of something the table does not allow
\* (selinux_avc_lookup, selinux_avc_insert, selinux_avc_has_perm).
AvcBooks ==
  /\ \A i \in DOMAIN avc_cache :
       /\ avc_cache[i].allowed = selinux_compute_av(avc_cache[i].key)
       /\ Cardinality({j \in DOMAIN avc_cache : avc_cache[j].key = avc_cache[i].key}) <= Cardinality(Checker)
  /\ \A t \in Checker :
       se_check[t].phase = "denied" =>
         ~(se_check[t].hook.perms \subseteq selinux_compute_av(se_check[t].hook.key))

\* In enforcing mode the default policy lets through every hook of selinux.c
\* but two: binding a generic socket asks for NODE_BIND, which only TCP sockets
\* were given, and no entry covers SECINITSID_NODE (selinux_load_default_policy
\* against the permissions the hooks request).
PolicyCoversHooks ==
  {hook \in selinux_hooks : ~(hook.perms \subseteq selinux_compute_av(hook.key))}
    = {selinux_socket_bind, selinux_node_perm}

-----------------------------------------------------------------------------
(* Contexts as text                                                        *)

\* Position of the first ':' of s from i on, Len(s) + 1 when there is none.
colon(s, i) == Min({j \in i..Len(s) : s[j] = ":"} \cup {Len(s) + 1})
past(s, i) == IF i <= Len(s) THEN i + 1 ELSE i
failed == <<"failed">>

\* Three fields end at a colon and must fit; the fourth is what remains, cut to
\* its buffer.
selinux_parse_context(s) ==
  LET u == colon(s, 1)  r0 == past(s, u)
      r == colon(s, r0) t0 == past(s, r)
      t == colon(s, t0) l0 == past(s, t)
      level == SubSeq(s, l0, Len(s))
      ctx == <<SubSeq(s, 1, u - 1), SubSeq(s, r0, r - 1), SubSeq(s, t0, t - 1),
               SubSeq(level, 1, Min({Len(level), SELINUX_FIELD_MAX - 1}))>>
  IN  IF \E f \in 1..3 : Len(ctx[f]) >= SELINUX_FIELD_MAX THEN failed ELSE ctx

\* The first field needs three bytes beyond itself, the next two two; a level
\* that does not fit is left out.
selinux_context_to_string(ctx, size) ==
  LET one == ctx[1] \o <<":">>
      two == one \o ctx[2] \o <<":">>
      three == two \o ctx[3] \o <<":">>
  IN  IF Len(ctx[1]) + 3 > size \/ Len(one) + Len(ctx[2]) + 2 > size
           \/ Len(two) + Len(ctx[3]) + 2 > size THEN failed
      ELSE IF Len(three) + Len(ctx[4]) + 1 > size THEN three
      ELSE three \o ctx[4]

Field == BoundedSeq({"a"}, SELINUX_FIELD_MAX - 1)
Level == BoundedSeq({"a", ":"}, SELINUX_FIELD_MAX - 1)

\* A context written to a buffer of any size and parsed again is the context,
\* or the context with an empty level when only the level did not fit; what is
\* written always leaves room for the terminator
\* (selinux_context_to_string, selinux_parse_context).
ContextRoundTrip ==
  \A u \in Field, r \in Field, t \in Field, l \in Level, size \in 1..(4 * SELINUX_FIELD_MAX) :
    LET s == selinux_context_to_string(<<u, r, t, l>>, size)
    IN  s # failed =>
          /\ Len(s) < size
          /\ selinux_parse_context(s) \in {<<u, r, t, l>>, <<u, r, t, <<>>>>}
          /\ size > Len(u) + Len(r) + Len(t) + Len(l) + 3 => selinux_parse_context(s) = <<u, r, t, l>>

AccessTypeOK ==
  /\ \A i \in DOMAIN lsm_modules : lsm_modules[i].id \in 1..MaxRegs /\ lsm_modules[i].order \in {"FIRST", "SECONDARY"}
  /\ lsm_walk.phase \in {"idle", "call", "next", "granted", "denied", "astray"}
  /\ \A p \in CredTask : cred[p] # no_cred => cred[p].euid \in Uid /\ cred[p].effective \in SUBSET Cap
  /\ enforcing \in BOOLEAN /\ avc_flushes \in 0..MaxFlushes
=============================================================================
