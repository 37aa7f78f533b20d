----------------------------- MODULE DevTables -----------------------------
(***************************************************************************)
(* The tables devices are kept in: block and character devices             *)
(* (kapi_blkdev.c, kapi_cdev.c), the timers of kapi_device.c, the nodes of *)
(* devtmpfs (devtmpfs.c), kernel objects (kapi_kobject.c) and the files of *)
(* debugfs (kapi_debugfs.c); the SMBus controllers (i2c.c), and the seq    *)
(* files (kapi_seq_file.c).  Each has its own variables and next-state     *)
(* relation; but for the last two an operation runs to its end.            *)
(***************************************************************************)
EXTENDS Naturals, Integers, Sequences, FiniteSets, SequencesExt, FiniteSetsExt

CONSTANTS
  DevSlot,             \* 1..KAPI_BLKDEV_MAX_DEVICES
  Major,
  DevUser,             \* holders of what kapi_blkdev_get returns
  MaxAllocs,           \* bounds the devices ever allocated
  KtimerSlot,          \* 1..KAPI_MAX_TIMERS
  Interval,
  TscAhead,            \* by how much the TSC clock is ahead of the jiffies
  ClockMod,            \* 2^64, the modulus of the subtraction
  MaxClock, MaxSets,   \* bounds
  DevName, DEVTMPFS_MAX, DefaultDevs, MaxNodes,
  Kobj, MaxKrefs, KAPI_SYSFS_MAX_ATTRS,
  DebugSlot,           \* 1..KAPI_DEBUGFS_MAX_FILES; slot 1 is the root
  I2cTask, I2C_MAX_BUSES, I2C_SMBUS_MAX_BLOCK,
  MaxFunctions,        \* PCI_MAX_FUNCTIONS, of a device
  MaxI2cStarts,        \* bounds how often the controller is started
  SeqTask, KAPI_SEQ_MAX_ENTRIES, KAPI_SEQ_BUF_SIZE,
  SeqSize,             \* lengths of what is written, and sizes of callers' buffers
  SeqName,
  MaxSeqOpens          \* bounds the files ever opened

ASSUME DevTablesAssumption ==
  /\ ClockMod > MaxClock + TscAhead /\ 0 \notin Interval
  /\ 1 \in DebugSlot

VARIABLES
  dev_class,           \* which of the two tables: "blk" or "chr", the code is the same
  kapi_dev_table,      \* the devices by slot
  dev_gen,             \* how often each slot has been allocated
  dev_ref,             \* the pointer each user holds, with the allocation it was to
  torn,                \* slots freed while a user held a pointer to them
  kapi_timer_table, ktimer_now, ktimer_poll, ktimer_count,
  devfs_table,         \* devtmpfs.c: dev_table
  devfs_root,          \* devtmpfs_root # NULL
  devfs_nodes,         \* the nodes below it, newest first
  devfs_hidden,        \* names registered while there was no root
  kobjs, kapi_sysfs_attrs, deleted,
  debugfs, orphaned, fops_freed,
  i2c_functions,       \* by PCI device, how many of its functions are SMBus controllers
  i2c_bus, i2c_call, i2c_starts,
  kapi_seq_table, kapi_seq_registry,
  seq_call,            \* kapi_seq_open in progress, by task: the slot it found
  seq_file,            \* the file each task has open
  seq_opens, seq_bufs, \* how many were opened; buffers allocated for them
  seq_named,           \* by name, how often it is registered
  seq_raced, seq_overrun

devVars == <<dev_class, kapi_dev_table, dev_gen, dev_ref, torn>>
ktimerVars == <<kapi_timer_table, ktimer_now, ktimer_poll, ktimer_count>>
devfsVars == <<devfs_table, devfs_root, devfs_nodes, devfs_hidden>>
kobjVars == <<kobjs, kapi_sysfs_attrs, deleted>>
debugfsVars == <<debugfs, orphaned, fops_freed>>
i2cVars == <<i2c_functions, i2c_bus, i2c_call, i2c_starts>>
seqVars == <<kapi_seq_table, kapi_seq_registry, seq_call, seq_file, seq_opens, seq_bufs, seq_named, seq_raced, seq_overrun>>

-----------------------------------------------------------------------------
no_ref == [slot |-> 0, gen |-> 0]
free_dev == [valid |-> 0, refcount |-> 0, registered |-> 0, major |-> 0]
holders(i) == {u \in DevUser : dev_ref[u].slot = i}

kapi_dev_init_subsystem ==
  /\ dev_class \in {"blk", "chr"}
  /\ kapi_dev_table = [i \in DevSlot |-> free_dev]
  /\ dev_gen = [i \in DevSlot |-> 0]
  /\ dev_ref = [u \in DevUser |-> no_ref]
  /\ torn = {}

dev_alloc ==
  LET unused == {i \in DevSlot : kapi_dev_table[i].valid = 0}
  IN  /\ unused # {} /\ FoldSet(LAMBDA i, n : dev_gen[i] + n, 0, DevSlot) < MaxAllocs
      /\ kapi_dev_table' = [kapi_dev_table EXCEPT ![Min(unused)] = [free_dev EXCEPT !.valid = 1, !.refcount = 1]]
      /\ dev_gen' = [dev_gen EXCEPT ![Min(unused)] = @ + 1]
      /\ UNCHANGED <<dev_class, dev_ref, torn>>

(* The reference count is not looked at. *)
dev_free(i) ==
  /\ kapi_dev_table[i].valid = 1
  /\ kapi_dev_table' = [kapi_dev_table EXCEPT ![i].valid = 0, ![i].registered = 0, ![i].refcount = 0]
  /\ torn' = IF holders(i) # {} THEN torn \cup {i} ELSE torn
  /\ UNCHANGED <<dev_class, dev_gen, dev_ref>>

dev_register(i, major) ==
  /\ kapi_dev_table[i].valid = 1
  /\ kapi_dev_table' = [kapi_dev_table EXCEPT ![i].major = major, ![i].registered = 1]
  /\ UNCHANGED <<dev_class, dev_gen, dev_ref, torn>>

dev_unregister(i) ==
  /\ kapi_dev_table[i].valid = 1
  /\ kapi_dev_table' = [kapi_dev_table EXCEPT ![i].registered = 0]
  /\ UNCHANGED <<dev_class, dev_gen, dev_ref, torn>>

matching(major) ==
  {i \in DevSlot : kapi_dev_table[i].valid = 1 /\ kapi_dev_table[i].registered = 1 /\ kapi_dev_table[i].major = major}

counted(i) == [kapi_dev_table EXCEPT ![i].refcount = @ + 1]

dev_get(u, major) ==
  /\ dev_ref[u] = no_ref /\ matching(major) # {}
  /\ LET i == Min(matching(major))
     IN  /\ kapi_dev_table' = counted(i)
         /\ dev_ref' = [dev_ref EXCEPT ![u] = [slot |-> i, gen |-> dev_gen[i]]]
  /\ UNCHANGED <<dev_class, dev_gen, torn>>

(* A pointer to a slot that was freed since is to whatever the slot holds now. *)
dev_put(u) ==
  /\ dev_ref[u] # no_ref
  /\ LET i == dev_ref[u].slot
     IN  kapi_dev_table' = IF kapi_dev_table[i].valid = 1 /\ kapi_dev_table[i].refcount > 0
                           THEN [kapi_dev_table EXCEPT ![i].refcount = @ - 1] ELSE kapi_dev_table
  /\ dev_ref' = [dev_ref EXCEPT ![u] = no_ref]
  /\ UNCHANGED <<dev_class, dev_gen, torn>>

kapi_blkdev_alloc == dev_class = "blk" /\ dev_alloc
kapi_blkdev_free(i) == dev_class = "blk" /\ dev_free(i)
kapi_blkdev_register(i, major) == dev_class = "blk" /\ dev_register(i, major)
kapi_blkdev_unregister(i) == dev_class = "blk" /\ dev_unregister(i)
kapi_blkdev_get(u, major) == dev_class = "blk" /\ dev_get(u, major)
kapi_blkdev_put(u) == dev_class = "blk" /\ dev_put(u)
kapi_cdev_alloc == dev_class = "chr" /\ dev_alloc
kapi_cdev_free(i) == dev_class = "chr" /\ dev_free(i)
kapi_cdev_register(i, major) == dev_class = "chr" /\ dev_register(i, major)
kapi_cdev_unregister(i) == dev_class = "chr" /\ dev_unregister(i)
kapi_cdev_get(u, major) == dev_class = "chr" /\ dev_get(u, major)
kapi_cdev_put(u) == dev_class = "chr" /\ dev_put(u)

DevNext ==
  \/ kapi_blkdev_alloc \/ kapi_cdev_alloc
  \/ \E i \in DevSlot :
       \/ kapi_blkdev_free(i) \/ kapi_cdev_free(i) \/ kapi_blkdev_unregister(i) \/ kapi_cdev_unregister(i)
       \/ \E major \in Major : kapi_blkdev_register(i, major) \/ kapi_cdev_register(i, major)
  \/ \E u \in DevUser :
       \/ kapi_blkdev_put(u) \/ kapi_cdev_put(u)
       \/ \E major \in Major : kapi_blkdev_get(u, major) \/ kapi_cdev_get(u, major)

(* Unless its slot was ever freed in use, a device counts its allocation   *)
(* and every user that holds it, and a held pointer is to the device that  *)
(* was got; and what kapi_blkdev_get may find is never a free slot.        *)
DevBooks ==
  /\ \A i \in DevSlot : kapi_dev_table[i].registered = 1 => kapi_dev_table[i].valid = 1
  /\ \A i \in DevSlot \ torn :
       /\ kapi_dev_table[i].valid = 1 => kapi_dev_table[i].refcount = 1 + Cardinality(holders(i))
       /\ \A u \in holders(i) : kapi_dev_table[i].valid = 1 /\ dev_ref[u].gen = dev_gen[i]

-----------------------------------------------------------------------------
(* The timers of kapi_device.c.  kapi_timer_set stamps with the TSC clock, *)
(* kapi_timer_poll compares with the jiffies, modulo 2^64.                 *)
free_ktimer == [valid |-> 0, interval |-> 1, last |-> 0, periodic |-> 0, polled |-> 0]

kapi_device_init ==
  /\ kapi_timer_table = [i \in KtimerSlot |-> free_ktimer]
  /\ ktimer_now = 0
  /\ ktimer_poll = [at |-> 0, now |-> 0]
  /\ ktimer_count = [sets |-> 0, fired |-> 0, cancelled |-> 0, lost |-> 0]

unset(table) == {i \in KtimerSlot : table[i].valid = 0}
with_timer(table, interval, periodic) ==
  [table EXCEPT ![Min(unset(table))] =
     [valid |-> 1, interval |-> interval, last |-> ktimer_now + TscAhead, periodic |-> periodic, polled |-> 0]]

kapi_timer_set(interval, periodic) ==
  /\ unset(kapi_timer_table) # {} /\ ktimer_count.sets < MaxSets
  /\ kapi_timer_table' = with_timer(kapi_timer_table, interval, periodic)
  /\ ktimer_count' = [ktimer_count EXCEPT !.sets = @ + 1]
  /\ UNCHANGED <<ktimer_now, ktimer_poll>>

kapi_timer_cancel(i) ==
  /\ kapi_timer_table' = [kapi_timer_table EXCEPT ![i].valid = 0]
  /\ ktimer_count' = [ktimer_count EXCEPT !.cancelled = @ + kapi_timer_table[i].valid]
  /\ UNCHANGED <<ktimer_now, ktimer_poll>>

ktimer_tick ==
  /\ ktimer_now < MaxClock
  /\ ktimer_now' = ktimer_now + 1
  /\ UNCHANGED <<kapi_timer_table, ktimer_poll, ktimer_count>>

poll_begin ==
  /\ ktimer_poll.at = 0
  /\ ktimer_poll' = [at |-> 1, now |-> ktimer_now]
  /\ UNCHANGED <<kapi_timer_table, ktimer_now, ktimer_count>>

elapsed(i) == (ktimer_poll.now - kapi_timer_table[i].last) % ClockMod

(* What the slot holds after its callback: the stamp, and off if it is not *)
(* periodic - whichever timer it holds by then.                            *)
refired(table, i) == [table EXCEPT ![i].last = ktimer_poll.now, ![i].polled = 1, ![i].valid = table[i].periodic * @]

next_slot == [ktimer_poll EXCEPT !.at = IF @ = Max(KtimerSlot) THEN 0 ELSE @ + 1]

poll_skip ==
  /\ ktimer_poll.at # 0
  /\ kapi_timer_table[ktimer_poll.at].valid = 1 => elapsed(ktimer_poll.at) < kapi_timer_table[ktimer_poll.at].interval
  /\ ktimer_poll' = next_slot
  /\ UNCHANGED <<kapi_timer_table, ktimer_now, ktimer_count>>

(* The callback may cancel its own timer, and may then set another, which  *)
(* takes the same slot when it is the first free one.                      *)
poll_fire(cancels, sets) ==
  LET i == ktimer_poll.at
      after == IF cancels THEN [kapi_timer_table EXCEPT ![i].valid = 0] ELSE kapi_timer_table
      does_set == sets /\ unset(after) # {} /\ ktimer_count.sets < MaxSets
      called == IF does_set THEN with_timer(after, Min(Interval), 0) ELSE after
      ends == kapi_timer_table[i].periodic = 0
  IN  /\ i # 0 /\ kapi_timer_table[i].valid = 1 /\ elapsed(i) >= kapi_timer_table[i].interval
      /\ kapi_timer_table' = refired(called, i)
      /\ ktimer_count' = [ktimer_count EXCEPT
            !.sets = IF does_set THEN @ + 1 ELSE @,
            !.cancelled = IF cancels /\ ~ends THEN @ + 1 ELSE @,
            !.fired = IF ends THEN @ + 1 ELSE @,
            !.lost = IF cancels /\ called[i].valid = 1 THEN @ + 1 ELSE @]
      /\ ktimer_poll' = next_slot
      /\ UNCHANGED ktimer_now

KtimerNext ==
  \/ ktimer_tick \/ poll_begin \/ poll_skip
  \/ \E cancels, sets \in BOOLEAN : poll_fire(cancels, sets)
  \/ ktimer_poll.at = 0 /\ \E i \in KtimerSlot : kapi_timer_cancel(i)
  \/ ktimer_poll.at = 0 /\ \E interval \in Interval, periodic \in {0, 1} : kapi_timer_set(interval, periodic)

(* Every timer set is running, was cancelled, or fired once and ended; the *)
(* ones lost are those a callback set in its own slot after it cancelled   *)
(* itself.  From its first poll on a timer keeps the jiffies clock, so the *)
(* difference of the two clocks shortens its first period only.            *)
KtimerBooks ==
  /\ ktimer_count.sets = ktimer_count.fired + ktimer_count.cancelled + ktimer_count.lost
                         + Cardinality(KtimerSlot \ unset(kapi_timer_table))
  /\ \A i \in KtimerSlot : kapi_timer_table[i].polled = 1 => kapi_timer_table[i].last <= ktimer_now

-----------------------------------------------------------------------------
(* devtmpfs.  A device number is abstracted to which registration gave it. *)
devfs_find(name) == {i \in DOMAIN devfs_table : devfs_table[i].name = name}

devtmpfs_init ==
  /\ devfs_table = DefaultDevs
  /\ devfs_root = FALSE /\ devfs_nodes = <<>>
  /\ devfs_hidden = {DefaultDevs[i].name : i \in DOMAIN DefaultDevs}

(* A known name is given its new numbers and keeps its type; a full table  *)
(* refuses even that.                                                      *)
devtmpfs_register(name, type, dev) ==
  /\ Len(devfs_table) < DEVTMPFS_MAX /\ Len(devfs_nodes) < MaxNodes
  /\ IF devfs_find(name) # {}
     THEN /\ devfs_table' = [devfs_table EXCEPT ![Min(devfs_find(name))].dev = dev]
          /\ UNCHANGED <<devfs_nodes, devfs_hidden>>
     ELSE /\ devfs_table' = Append(devfs_table, [name |-> name, type |-> type, dev |-> dev])
          /\ devfs_nodes' = IF devfs_root THEN <<name>> \o devfs_nodes ELSE devfs_nodes
          /\ devfs_hidden' = IF devfs_root THEN devfs_hidden \ {name} ELSE devfs_hidden \cup {name}
  /\ UNCHANGED devfs_root

(* The last entry moves into the place; the node stays. *)
devtmpfs_unregister(name) ==
  /\ devfs_find(name) # {}
  /\ LET n == Len(devfs_table)
     IN  devfs_table' = SubSeq([devfs_table EXCEPT ![Min(devfs_find(name))] = devfs_table[n]], 1, n - 1)
  /\ UNCHANGED <<devfs_root, devfs_nodes, devfs_hidden>>

devtmpfs_get_root ==
  /\ ~devfs_root /\ devfs_root' = TRUE
  /\ UNCHANGED <<devfs_table, devfs_nodes, devfs_hidden>>

DevfsNext ==
  \/ devtmpfs_get_root
  \/ \E name \in DevName :
       \/ devtmpfs_unregister(name)
       \/ \E type \in {"CHAR", "BLOCK"}, dev \in {1, 2} : devtmpfs_register(name, type, dev)

(* A name has one entry.  Once there is a root, a registered device has a  *)
(* node unless it was registered before the root was, the defaults among   *)
(* them; nothing ever removes a node.                                      *)
DevfsBooks ==
  /\ \A i, k \in DOMAIN devfs_table : devfs_table[i].name = devfs_table[k].name => i = k
  /\ devfs_root => \A i \in DOMAIN devfs_table :
       devfs_table[i].name \in Range(devfs_nodes) \cup devfs_hidden
  /\ ~devfs_root => devfs_nodes = <<>>

-----------------------------------------------------------------------------
(* Kernel objects: the references, and how often release was called. *)
kapi_sysfs_init ==
  /\ kobjs = [k \in Kobj |-> [valid |-> 0, refcount |-> 0, released |-> 0]]
  /\ kapi_sysfs_attrs = [i \in 1..KAPI_SYSFS_MAX_ATTRS |-> [valid |-> 0, parent |-> 0, late |-> 0]]
  /\ deleted = [k \in Kobj |-> 0]

kapi_kobject_init(k) ==
  /\ kobjs[k].valid = 0 /\ kobjs[k].released = 0
  /\ kobjs' = [kobjs EXCEPT ![k] = [valid |-> 1, refcount |-> 1, released |-> 0]]
  /\ UNCHANGED <<kapi_sysfs_attrs, deleted>>

kapi_kobject_del(k) ==
  /\ kobjs[k].valid = 1 /\ deleted[k] < 2
  /\ kapi_sysfs_attrs' = [i \in DOMAIN kapi_sysfs_attrs |->
       IF kapi_sysfs_attrs[i].parent = k THEN [kapi_sysfs_attrs[i] EXCEPT !.valid = 0] ELSE kapi_sysfs_attrs[i]]
  /\ kobjs' = [kobjs EXCEPT ![k].released = @ + 1]
  /\ deleted' = [deleted EXCEPT ![k] = @ + 1]

kapi_kobject_get(k) ==
  /\ kobjs[k].valid = 1 /\ kobjs[k].refcount < MaxKrefs
  /\ kobjs' = [kobjs EXCEPT ![k].refcount = @ + 1]
  /\ UNCHANGED <<kapi_sysfs_attrs, deleted>>

dropped(kobj) ==
  LET left == kobj.refcount - 1
  IN  IF left <= 0 THEN [valid |-> 0, refcount |-> left, released |-> kobj.released + 1]
      ELSE [kobj EXCEPT !.refcount = left]

(* Called by a holder: the object has a reference to give up. *)
kapi_kobject_put(k) ==
  /\ kobjs[k].refcount > 0
  /\ kobjs' = [kobjs EXCEPT ![k] = dropped(@)]
  /\ UNCHANGED <<kapi_sysfs_attrs, deleted>>

kapi_kobject_create_file(k) ==
  LET unused == {i \in DOMAIN kapi_sysfs_attrs : kapi_sysfs_attrs[i].valid = 0}
  IN  /\ kobjs[k].refcount > 0 /\ unused # {}
      /\ kapi_sysfs_attrs' = [kapi_sysfs_attrs EXCEPT ![Min(unused)] =
            [valid |-> 1, parent |-> k, late |-> Min({1, deleted[k]})]]
      /\ UNCHANGED <<kobjs, deleted>>

kapi_kobject_remove_file(k) ==
  LET files == {i \in DOMAIN kapi_sysfs_attrs : kapi_sysfs_attrs[i].valid = 1 /\ kapi_sysfs_attrs[i].parent = k}
  IN  /\ files # {}
      /\ kapi_sysfs_attrs' = [kapi_sysfs_attrs EXCEPT ![Min(files)].valid = 0]
      /\ UNCHANGED <<kobjs, deleted>>

KobjNext ==
  \E k \in Kobj : \/ kapi_kobject_init(k) \/ kapi_kobject_del(k) \/ kapi_kobject_get(k) \/ kapi_kobject_put(k)
                  \/ kapi_kobject_create_file(k) \/ kapi_kobject_remove_file(k)

(* An object is valid exactly while it is referenced.  Its release runs    *)
(* once for every kapi_kobject_del and once for the last put: an object    *)
(* that is deleted and then dropped is released twice.  A file of a        *)
(* deleted object was made after the deletion.                             *)
KobjBooks ==
  /\ \A k \in Kobj :
       /\ kobjs[k].valid = 1 <=> kobjs[k].refcount > 0
       /\ kobjs[k].released > 0 => kobjs[k].released = deleted[k] + (1 - kobjs[k].valid)
  /\ \A i \in DOMAIN kapi_sysfs_attrs :
       LET file == kapi_sysfs_attrs[i]
       IN  file.valid = 1 /\ deleted[file.parent] > 0 => file.late = 1

-----------------------------------------------------------------------------
(* debugfs.  fops: 0 none, 1 allocated by a create_u32 and the like, 2 the *)
(* caller's own, given to kapi_debugfs_create_file.                        *)
free_file == [valid |-> 0, parent |-> 0, fops |-> 0]

kapi_debugfs_init ==
  /\ debugfs = [i \in DebugSlot |-> IF i = 1 THEN [free_file EXCEPT !.valid = 1] ELSE free_file]
  /\ orphaned = FALSE /\ fops_freed = 0

debugfs_create(parent, fops) ==
  LET unused == {i \in DebugSlot : debugfs[i].valid = 0}
  IN  /\ unused # {} /\ debugfs[parent].valid = 1
      /\ debugfs' = [debugfs EXCEPT ![Min(unused)] = [valid |-> 1, parent |-> parent, fops |-> fops]]
      /\ UNCHANGED <<orphaned, fops_freed>>

kapi_debugfs_create_dir(parent) == debugfs_create(parent, 0)
kapi_debugfs_create_file(parent) == debugfs_create(parent, 2)
kapi_debugfs_create_u32(parent) == debugfs_create(parent, 1)

children(of) == {i \in DebugSlot : debugfs[i].valid = 1 /\ debugfs[i].parent = of}
removed(files) == [i \in DebugSlot |-> IF i \in files THEN [debugfs[i] EXCEPT !.valid = 0, !.fops = 0] ELSE debugfs[i]]
freed_foreign(files) == Cardinality({i \in files : debugfs[i].fops = 2})

(* Removed alone, a directory leaves its children with a parent that is    *)
(* free, or is whatever next takes the slot.  The caller's fops are freed. *)
kapi_debugfs_remove(i) ==
  /\ i # 1 /\ debugfs[i].valid = 1
  /\ debugfs' = removed({i})
  /\ orphaned' = (orphaned \/ children(i) # {})
  /\ fops_freed' = fops_freed + freed_foreign({i})

below(i) ==
  LET grow[n \in 0..Cardinality(DebugSlot)] ==
        IF n = 0 THEN {i} ELSE grow[n - 1] \cup UNION {children(k) : k \in grow[n - 1]}
  IN  grow[Cardinality(DebugSlot)]

(* Among children that form a cycle the recursion of the code has no end. *)
cyclic(i) == \E k \in below(i) : k \in UNION {below(c) : c \in children(k)}

kapi_debugfs_remove_recursive(i) ==
  /\ i # 1 /\ debugfs[i].valid = 1 /\ ~cyclic(i)
  /\ debugfs' = removed(below(i))
  /\ fops_freed' = fops_freed + freed_foreign(below(i))
  /\ UNCHANGED orphaned

DebugfsNext ==
  \E i \in DebugSlot :
    \/ kapi_debugfs_create_dir(i) \/ kapi_debugfs_create_u32(i) \/ (fops_freed < 2 /\ kapi_debugfs_create_file(i))
    \/ kapi_debugfs_remove(i) \/ kapi_debugfs_remove_recursive(i)

(* Until a directory is removed without its children, every file has a     *)
(* parent that is there, and the parents lead to the root without a cycle, *)
(* so that kapi_debugfs_remove_recursive ends.                             *)
DebugfsTree ==
  /\ debugfs[1].valid = 1
  /\ ~orphaned => \A i \in DebugSlot : debugfs[i].valid = 1 =>
       /\ i # 1 => debugfs[debugfs[i].parent].valid = 1
       /\ i \in below(1) /\ ~cyclic(i)

-----------------------------------------------------------------------------
(* i2c.c: transactions on one SMBus controller.  The data register is the  *)
(* controller's, one for all: d0 is the task whose transaction set it      *)
(* last.  bus->lock is held from "ready" to the end of the transaction.    *)

NO_TASK == "nobody"
I2cOp == {"read", "write", "block_read", "block_write"}

i2c_bus_t ==
  [lock : I2cTask \cup {NO_TASK},
   busy : {0, 1},
   owner : I2cTask \cup {NO_TASK},     \* who started the controller last
   failed : {0, 1},
   d0 : I2cTask \cup {NO_TASK}]

i2c_call_t ==
  [op : I2cOp \cup {"none"},
   phase : {"idle", "lock", "ready", "done", "unlocked"},
   overtaken : {0, 1},                 \* the bus was locked before d0 was read
   ret : I2cTask \cup {NO_TASK, "none", "OK", "ERROR", "TIMEOUT"}]

no_i2c_call == [op |-> "none", phase |-> "idle", overtaken |-> 0, ret |-> "none"]

\* The controllers found: a function of each device in turn, a device only while
\* a slot is free.  functions is how many each device has.
i2c_smbus_init(functions) ==
  FoldLeft(LAMBDA n, f : IF n < I2C_MAX_BUSES THEN n + f ELSE n, 0, functions)

i2c_init ==
  /\ i2c_functions \in [1..2 -> 0..MaxFunctions]
  /\ i2c_bus = [lock |-> NO_TASK, busy |-> 0, owner |-> NO_TASK, failed |-> 0, d0 |-> NO_TASK]
  /\ i2c_call = [t \in I2cTask |-> no_i2c_call]
  /\ i2c_starts = 0

i2c_returns(t, ret) ==
  /\ i2c_call' = [i2c_call EXCEPT ![t] = [@ EXCEPT !.phase = "idle", !.ret = ret]]
  /\ i2c_bus' = [i2c_bus EXCEPT !.lock = NO_TASK]

i2c_smbus_call(t, op) ==
  /\ i2c_call[t].phase = "idle" /\ i2c_starts < MaxI2cStarts
  /\ i2c_call' = [i2c_call EXCEPT ![t] = [op |-> op, phase |-> "lock", overtaken |-> 0, ret |-> "none"]]
  /\ UNCHANGED <<i2c_functions, i2c_bus, i2c_starts>>

i2c_lock(t) ==
  /\ i2c_call[t].phase = "lock" /\ i2c_bus.lock = NO_TASK
  /\ i2c_bus' = [i2c_bus EXCEPT !.lock = t]
  /\ i2c_call' = [u \in I2cTask |->
       IF u = t THEN [i2c_call[u] EXCEPT !.phase = "ready"]
       ELSE IF i2c_call[u].phase = "unlocked" THEN [i2c_call[u] EXCEPT !.overtaken = 1]
       ELSE i2c_call[u]]
  /\ UNCHANGED <<i2c_functions, i2c_starts>>

\* i2c_smbus_wait_until_ready, then the registers and START.  What is sent is in
\* d0 before, a zero when a byte or word is read.
i2c_smbus_execute(t) ==
  /\ i2c_call[t].phase = "ready" /\ i2c_bus.busy = 0
  /\ i2c_bus' = [i2c_bus EXCEPT !.busy = 1, !.owner = t, !.failed = 0, !.d0 = IF i2c_call[t].op = "read" THEN NO_TASK ELSE t]
  /\ i2c_call' = [i2c_call EXCEPT ![t].phase = "done"]
  /\ i2c_starts' = i2c_starts + 1
  /\ UNCHANGED i2c_functions

i2c_never_ready(t) ==
  /\ i2c_call[t].phase = "ready" /\ i2c_bus.busy = 1
  /\ i2c_returns(t, "TIMEOUT")
  /\ UNCHANGED <<i2c_functions, i2c_starts>>

\* The controller ends what it was started with.
i2c_host_ends(failed) ==
  /\ i2c_bus.busy = 1
  /\ i2c_bus' = [i2c_bus EXCEPT !.busy = 0, !.failed = failed, !.d0 = IF failed = 1 THEN @ ELSE i2c_bus.owner]
  /\ UNCHANGED <<i2c_functions, i2c_call, i2c_starts>>

\* i2c_smbus_wait_until_done: a block is read with the lock held, a byte or word
\* when it has been dropped.  length: what the device says, in a block_read.
i2c_smbus_done(t, length) ==
  LET c == i2c_call[t]
  IN  /\ c.phase = "done" /\ i2c_bus.busy = 0
      /\ \/ i2c_bus.failed = 1 /\ i2c_returns(t, "ERROR")
         \/ i2c_bus.failed = 0 /\ c.op \in {"write", "block_write"} /\ i2c_returns(t, "OK")
         \/ /\ i2c_bus.failed = 0 /\ c.op = "block_read"
            /\ i2c_returns(t, IF length \in 1..I2C_SMBUS_MAX_BLOCK THEN i2c_bus.d0 ELSE "ERROR")
         \/ /\ i2c_bus.failed = 0 /\ c.op = "read"
            /\ i2c_bus' = [i2c_bus EXCEPT !.lock = NO_TASK]
            /\ i2c_call' = [i2c_call EXCEPT ![t].phase = "unlocked"]
      /\ UNCHANGED <<i2c_functions, i2c_starts>>

\* The wait runs out: KILL.
i2c_never_done(t) ==
  /\ i2c_call[t].phase = "done" /\ i2c_bus.busy = 1
  /\ i2c_bus' = [i2c_bus EXCEPT !.lock = NO_TASK, !.busy = 0]
  /\ i2c_call' = [i2c_call EXCEPT ![t] = [@ EXCEPT !.phase = "idle", !.ret = "TIMEOUT"]]
  /\ UNCHANGED <<i2c_functions, i2c_starts>>

\* i2c_smbus_read_byte, i2c_smbus_read_word, i2c_smbus_process_call, behind
\* i2c_smbus_execute.
i2c_smbus_read_d0(t) ==
  /\ i2c_call[t].phase = "unlocked"
  /\ i2c_call' = [i2c_call EXCEPT ![t] = [@ EXCEPT !.phase = "idle", !.ret = i2c_bus.d0]]
  /\ UNCHANGED <<i2c_functions, i2c_bus, i2c_starts>>

\* i2c_transfer_start and i2c_transfer_ack start the controller and do not wait.
i2c_transfer_start ==
  /\ i2c_bus.lock = NO_TASK /\ i2c_starts < MaxI2cStarts
  /\ i2c_bus' = [i2c_bus EXCEPT !.busy = 1, !.owner = NO_TASK, !.failed = 0]
  /\ i2c_starts' = i2c_starts + 1
  /\ i2c_call' = [t \in I2cTask |-> IF i2c_call[t].phase = "unlocked" THEN [i2c_call[t] EXCEPT !.overtaken = 1] ELSE i2c_call[t]]
  /\ UNCHANGED i2c_functions

i2c_transfer_stop ==
  /\ i2c_bus.lock = NO_TASK /\ i2c_bus.busy = 1
  /\ i2c_bus' = [i2c_bus EXCEPT !.busy = 0]
  /\ UNCHANGED <<i2c_functions, i2c_call, i2c_starts>>

\* The bus is run in a machine with one controller.
I2cNext ==
  /\ i2c_functions = <<1, 0>>
  /\ \/ \E t \in I2cTask, op \in I2cOp : i2c_smbus_call(t, op)
     \/ \E t \in I2cTask, length \in {0, 1, I2C_SMBUS_MAX_BLOCK + 1} : i2c_smbus_done(t, length)
     \/ \E t \in I2cTask : \/ i2c_lock(t) \/ i2c_smbus_execute(t) \/ i2c_never_ready(t)
                           \/ i2c_never_done(t) \/ i2c_smbus_read_d0(t)
     \/ \E failed \in {0, 1} : i2c_host_ends(failed)
     \/ i2c_transfer_start \/ i2c_transfer_stop

(* While a task waits for its transaction, the controller runs no other.   *)
(* A block that is read is the one asked for; a byte or word is, unless    *)
(* the bus was locked, or started, between the end of the transaction and  *)
(* the read of the register (i2c_smbus_execute).  The scan runs past the   *)
(* table by less than the functions of one device (i2c_smbus_init).        *)
I2cBooks ==
  /\ \A t \in I2cTask : LET c == i2c_call[t]
                        IN  /\ c.phase \in {"ready", "done"} => i2c_bus.lock = t
                            /\ c.phase = "done" => i2c_bus.owner = t
                            /\ c.op = "block_read" => c.ret \in {t, "none", "ERROR", "TIMEOUT"}
                            /\ c.op = "read" /\ c.ret \in I2cTask \cup {NO_TASK} => c.ret = t \/ c.overtaken = 1
  /\ i2c_smbus_init(i2c_functions) < I2C_MAX_BUSES + MaxFunctions

-----------------------------------------------------------------------------
(* kapi_seq_file.c: files that are written piece by piece.  No open sets   *)
(* ops, so that every kapi_seq_read returns KAPI_ERROR: what is written is *)
(* never read back.                                                        *)

SeqSlot == 1..KAPI_SEQ_MAX_ENTRIES
no_seq == [slot |-> 0, open |-> 0]

kapi_seq_file_t ==
  [valid : {0, 1},
   open : 0..MaxSeqOpens,              \* which open the slot is filled by
   size : Nat,
   buf : Seq(SeqTask),                 \* by whom each of the count bytes is
   is_private : {0, 1}]

zeroed_seq == [valid |-> 0, open |-> 0, size |-> 0, buf |-> <<>>, is_private |-> 0]

kapi_seq_file_init ==
  /\ kapi_seq_table = [i \in SeqSlot |-> zeroed_seq]
  /\ kapi_seq_registry = [i \in SeqSlot |-> "none"]
  /\ seq_call = [t \in SeqTask |-> 0] /\ seq_file = [t \in SeqTask |-> no_seq]
  /\ seq_opens = 0 /\ seq_bufs = {} /\ seq_named = [n \in SeqName |-> 0]
  /\ seq_raced = FALSE /\ seq_overrun = FALSE

\* The first slot that is not valid, and it is not valid until the buffer is
\* there: another open may find the same one.
kapi_seq_open(t) ==
  LET free == {i \in SeqSlot : kapi_seq_table[i].valid = 0}
      i == Min(free)
  IN  /\ seq_call[t] = 0 /\ seq_file[t] = no_seq /\ free # {}
      /\ kapi_seq_table' = [kapi_seq_table EXCEPT ![i] = zeroed_seq]
      /\ seq_call' = [seq_call EXCEPT ![t] = i]
      /\ seq_raced' = (seq_raced \/ \E u \in SeqTask \ {t} : seq_call[u] = i)
      /\ UNCHANGED <<kapi_seq_registry, seq_file, seq_opens, seq_bufs, seq_named, seq_overrun>>

\* The caller's buffer, or one of memory_alloc.
kapi_seq_opened(t, private, size) ==
  /\ seq_call[t] # 0 /\ seq_opens < MaxSeqOpens
  /\ kapi_seq_table' = [kapi_seq_table EXCEPT ![seq_call[t]] =
       [valid |-> 1, open |-> seq_opens + 1, buf |-> <<>>, is_private |-> private,
        size |-> IF private = 1 THEN size ELSE KAPI_SEQ_BUF_SIZE]]
  /\ seq_file' = [seq_file EXCEPT ![t] = [slot |-> seq_call[t], open |-> seq_opens + 1]]
  /\ seq_call' = [seq_call EXCEPT ![t] = 0]
  /\ seq_opens' = seq_opens + 1
  /\ seq_bufs' = IF private = 1 THEN seq_bufs ELSE seq_bufs \cup {seq_opens + 1}
  /\ UNCHANGED <<kapi_seq_registry, seq_named, seq_raced, seq_overrun>>

kapi_seq_no_memory(t) ==
  /\ seq_call[t] # 0
  /\ seq_call' = [seq_call EXCEPT ![t] = 0]
  /\ UNCHANGED <<kapi_seq_table, kapi_seq_registry, seq_file, seq_opens, seq_bufs, seq_named, seq_raced, seq_overrun>>

\* As much as there is room for.  kapi_seq_puts, kapi_seq_putc, kapi_seq_put_dec
\* and kapi_seq_put_hex end in this.
kapi_seq_write(t, count) ==
  LET i == seq_file[t].slot
      seq == kapi_seq_table[i]
      remaining == seq.size - Len(seq.buf)
      n == IF count > remaining THEN remaining ELSE count
  IN  /\ i # 0 /\ seq.valid = 1
      /\ kapi_seq_table' = [kapi_seq_table EXCEPT ![i].buf = @ \o [k \in 1..n |-> t]]
      /\ UNCHANGED <<kapi_seq_registry, seq_call, seq_file, seq_opens, seq_bufs, seq_named, seq_raced, seq_overrun>>

\* vsprintf writes all of it, and the zero behind it; then the count is cut.
kapi_seq_printf(t, ret) ==
  LET i == seq_file[t].slot
      seq == kapi_seq_table[i]
      count == Len(seq.buf) + ret
  IN  /\ i # 0 /\ seq.valid = 1
      /\ kapi_seq_table' = [kapi_seq_table EXCEPT ![i].buf =
           SubSeq(@ \o [k \in 1..ret |-> t], 1, IF count > seq.size THEN seq.size ELSE count)]
      /\ seq_overrun' = (seq_overrun \/ count + 1 > seq.size)
      /\ UNCHANGED <<kapi_seq_registry, seq_call, seq_file, seq_opens, seq_bufs, seq_named, seq_raced>>

kapi_seq_close(t) ==
  LET i == seq_file[t].slot
      seq == kapi_seq_table[i]
  IN  /\ i # 0 /\ seq.valid = 1
      /\ kapi_seq_table' = [kapi_seq_table EXCEPT ![i].valid = 0, ![i].buf = <<>>]
      /\ seq_bufs' = IF seq.is_private = 1 THEN seq_bufs ELSE seq_bufs \ {seq.open}
      /\ seq_file' = [seq_file EXCEPT ![t] = no_seq]
      /\ UNCHANGED <<kapi_seq_registry, seq_call, seq_opens, seq_named, seq_raced, seq_overrun>>

\* A name may be registered twice; kapi_seq_unregister takes the first.
kapi_seq_register(name) ==
  LET free == {i \in SeqSlot : kapi_seq_registry[i] = "none"}
  IN  /\ free # {}
      /\ kapi_seq_registry' = [kapi_seq_registry EXCEPT ![Min(free)] = name]
      /\ seq_named' = [seq_named EXCEPT ![name] = @ + 1]
      /\ UNCHANGED <<kapi_seq_table, seq_call, seq_file, seq_opens, seq_bufs, seq_raced, seq_overrun>>

kapi_seq_unregister(name) ==
  LET found == {i \in SeqSlot : kapi_seq_registry[i] = name}
  IN  /\ found # {}
      /\ kapi_seq_registry' = [kapi_seq_registry EXCEPT ![Min(found)] = "none"]
      /\ seq_named' = [seq_named EXCEPT ![name] = @ - 1]
      /\ UNCHANGED <<kapi_seq_table, seq_call, seq_file, seq_opens, seq_bufs, seq_raced, seq_overrun>>

\* What follows an overrun is not explored.
SeqNext ==
  /\ ~seq_overrun
  /\ \/ \E t \in SeqTask : kapi_seq_open(t) \/ kapi_seq_no_memory(t) \/ kapi_seq_close(t)
     \/ \E t \in SeqTask, private \in {0, 1}, size \in SeqSize : kapi_seq_opened(t, private, size)
     \/ \E t \in SeqTask, n \in SeqSize : kapi_seq_write(t, n) \/ kapi_seq_printf(t, n)
     \/ \E name \in SeqName : kapi_seq_register(name) \/ kapi_seq_unregister(name)

(* No file holds more than its buffer, so that size - count never wraps;   *)
(* and unless two opens have found the same slot, a file holds what its    *)
(* task wrote and nothing else, and the buffers allocated are those of the *)
(* files that are open (kapi_seq_open, kapi_seq_write, kapi_seq_close).    *)
SeqBooks ==
  /\ \A i \in SeqSlot : Len(kapi_seq_table[i].buf) <= kapi_seq_table[i].size
  /\ \A n \in SeqName : seq_named[n] = Cardinality({i \in SeqSlot : kapi_seq_registry[i] = n})
  /\ ~seq_raced =>
       /\ \A t \in SeqTask : seq_file[t] # no_seq =>
            LET seq == kapi_seq_table[seq_file[t].slot]
            IN  seq.valid = 1 /\ seq.open = seq_file[t].open /\ Range(seq.buf) \subseteq {t}
       /\ seq_bufs = {kapi_seq_table[i].open : i \in {j \in SeqSlot : kapi_seq_table[j].valid = 1 /\ kapi_seq_table[j].is_private = 0}}

-----------------------------------------------------------------------------
(* Every variable has its type. *)
DevTablesTypeOK ==
  /\ \A i \in DevSlot : kapi_dev_table[i].refcount \in Nat /\ kapi_dev_table[i].valid \in {0, 1}
  /\ \A u \in DevUser : dev_ref[u].slot \in DevSlot \cup {0}
  /\ \A i \in KtimerSlot : kapi_timer_table[i].valid \in {0, 1} /\ kapi_timer_table[i].last \in Nat
  /\ ktimer_poll.at \in KtimerSlot \cup {0} /\ ktimer_now \in Nat
  /\ Range(devfs_nodes) \cup devfs_hidden \cup {devfs_table[i].name : i \in DOMAIN devfs_table} \subseteq DevName
  /\ \A k \in Kobj : kobjs[k].valid \in {0, 1} /\ kobjs[k].refcount \in Nat
  /\ \A i \in DebugSlot : debugfs[i].parent \in DebugSlot \cup {0} /\ debugfs[i].fops \in 0..2
  /\ kapi_seq_table \in [SeqSlot -> kapi_seq_file_t]
  /\ i2c_bus \in i2c_bus_t /\ i2c_call \in [I2cTask -> i2c_call_t]
=============================================================================
