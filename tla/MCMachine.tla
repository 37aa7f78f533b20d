----------------------------- MODULE MCMachine -----------------------------
(***************************************************************************)
(* One run for the components that share no state with one another: in a   *)
(* behaviour one of them runs, named by kind, and the others stay where    *)
(* they started.                                                           *)
(***************************************************************************)
EXTENDS Rcu, Kthread, Signal, Paging, Power, DevTables, Access,
  Memory, Containers, Loader, Cfs, Consoles

VARIABLE kind

MCSaMask == {{}, {SIGSTOP, SIGRTMIN}}

MCGovernors == <<"performance", "powersave">>
MCWdtSource == [d \in WdtDriver |-> IF d = "w1" THEN "SOFTWARE" ELSE "HPET"]
MCWdtAction == [d \in WdtDriver |-> IF d = "w1" THEN "CALLBACK" ELSE "RESET"]

MCDefaultDevs == <<[name |-> "null", type |-> "CHAR", dev |-> 1]>>

MCCutName == [n \in {"longname"} |-> "cut"]
MCProvides ==
  [o \in {"selinux_ops", "audit_ops"} |->
     IF o = "audit_ops" THEN {"inode_permission", "task_free", "file_receive"} ELSE {"inode_permission"}]
MCCheckedHook == {selinux_socket_bind, selinux_task_create}

MCRbKey == <<1, 2, 2, 3, 4, 5, 6, 7>>
MCHash == [a |-> 1, b |-> 2, c |-> 4]

MCTime == {[hour |-> 0, min |-> 0, sec |-> 0], [hour |-> 7, min |-> 30, sec |-> 59], [hour |-> 12, min |-> 59, sec |-> 59], [hour |-> 21, min |-> 5, sec |-> 58], [hour |-> 23, min |-> 59, sec |-> 59]}
MCDate == {[year |-> 1999, mon |-> 1, day |-> 1], [year |-> 1999, mon |-> 12, day |-> 31], [year |-> 2000, mon |-> 2, day |-> 29], [year |-> 2023, mon |-> 2, day |-> 28], [year |-> 2024, mon |-> 2, day |-> 28], [year |-> 2024, mon |-> 10, day |-> 9], [year |-> 2025, mon |-> 6, day |-> 30]}
MCRtcStart == {[sec |-> t.sec, min |-> t.min, hour |-> t.hour, day |-> d.day, mon |-> d.mon, year |-> d.year] : t \in MCTime, d \in MCDate}

MCSymbolsOf == [fs |-> {"open", "log"}, net |-> {"send", "log"}]
MCSegment == {s \in [vaddr : {2, 4, 7}, offset : {0, 1, 2, 3}, filesz : {0, 2, 3, 6}, memsz : {1, 3, 6}] : s.vaddr % 4 = s.offset % 4 /\ s.filesz <= s.memsz}
MCImage == {[size |-> n, segments |-> <<s>>] : n \in {9, 16}, s \in MCSegment} \cup {[size |-> 9, segments |-> <<s, r>>] : s \in {q \in MCSegment : q.filesz = q.memsz}, r \in {q \in MCSegment : q.filesz = 3}}

MCNeeds == [liba |-> <<"libb">>, libb |-> <<>>]

MCWeights == <<4, 2, 1>>
MCNiceMin == -1
MCNiceOf == <<0, 2, -1, 0>>

Kinds == {"rcu", "kthread", "signal", "swap", "cache", "fault",
          "freq", "idle", "thermal", "wdt", "pm", "dev", "ktimer", "devfs", "kobj", "debugfs", "i2c", "seq",
          "lsm", "cred", "selinux",
          "pool", "buddy", "slab", "mempool", "malloc",
          "rb", "kfifo", "idr", "hash", "notifier", "sort", "rtc", "strtol",
          "kmod", "elf", "ldso",
          "cfs",
          "log", "kbd", "ps2", "gdb", "bp"}

Init ==
  /\ kind \in Kinds
  /\ rcu_init /\ srcu_init /\ kthread_init /\ sg_init
  /\ swap_init /\ pagecache_init /\ pagefault_init
  /\ cpufreq_init /\ cpuidle_init /\ thermal_init /\ watchdog_init /\ acpi_pm_init
  /\ kapi_dev_init_subsystem /\ kapi_device_init /\ devtmpfs_init /\ kapi_sysfs_init /\ kapi_debugfs_init /\ i2c_init /\ kapi_seq_file_init
  /\ lsm_init /\ cred_init /\ selinux_init
  /\ memory_init /\ buddy_init /\ slab_init /\ kapi_mempool_init /\ libc_init
  /\ rb_init /\ kfifo_init /\ kapi_idr_init /\ kapi_hash_init /\ kapi_notifier_chain_init /\ sort_init /\ rtc_init /\ str_init
  /\ module_init /\ elf_init /\ ldso_init_state
  /\ cfs_init
  /\ log_init /\ kbd_ring_init /\ ps2_init /\ gdb_stub_init /\ bp_init
  /\ kind # "dev" => dev_class = "blk"
  /\ kind # "rtc" => rtc.year = 1999 /\ rtc.hour = 0 /\ rtc.mon = 1 /\ rtc.sec = 0 /\ rtc_mode = [bcd |-> FALSE, hour_12 |-> FALSE]
  /\ kind # "i2c" => i2c_functions = <<0, 0>>

Next ==
  /\ UNCHANGED kind
  /\ IF kind = "rcu" THEN RcuNext ELSE UNCHANGED rcuVars
  /\ IF kind = "kthread" THEN KtNext ELSE UNCHANGED ktVars
  /\ IF kind = "signal" THEN SgNext ELSE UNCHANGED sgVars
  /\ IF kind = "swap" THEN SwapNext ELSE UNCHANGED swapVars
  /\ IF kind = "cache" THEN CacheNext ELSE UNCHANGED cacheVars
  /\ IF kind = "fault" THEN FaultNext ELSE UNCHANGED faultVars
  /\ IF kind = "freq" THEN FreqNext ELSE UNCHANGED freqVars
  /\ IF kind = "idle" THEN IdleNext ELSE UNCHANGED idleVars
  /\ IF kind = "thermal" THEN ThermalNext ELSE UNCHANGED thermalVars
  /\ IF kind = "wdt" THEN WdtNext ELSE UNCHANGED wdtVars
  /\ IF kind = "pm" THEN PmNext ELSE UNCHANGED pmVars
  /\ IF kind = "dev" THEN DevNext ELSE UNCHANGED devVars
  /\ IF kind = "ktimer" THEN KtimerNext ELSE UNCHANGED ktimerVars
  /\ IF kind = "devfs" THEN DevfsNext ELSE UNCHANGED devfsVars
  /\ IF kind = "kobj" THEN KobjNext ELSE UNCHANGED kobjVars
  /\ IF kind = "debugfs" THEN DebugfsNext ELSE UNCHANGED debugfsVars
  /\ IF kind = "i2c" THEN I2cNext ELSE UNCHANGED i2cVars
  /\ IF kind = "seq" THEN SeqNext ELSE UNCHANGED seqVars
  /\ IF kind = "lsm" THEN LsmNext ELSE UNCHANGED lsmVars
  /\ IF kind = "cred" THEN CredNext ELSE UNCHANGED credVars
  /\ IF kind = "selinux" THEN SelinuxNext ELSE UNCHANGED seVars
  /\ IF kind = "pool" THEN PoolNext ELSE UNCHANGED poolVars
  /\ IF kind = "buddy" THEN BuddyNext ELSE UNCHANGED buddyVars
  /\ IF kind = "slab" THEN SlabNext ELSE UNCHANGED slabVars
  /\ IF kind = "mempool" THEN MempoolNext ELSE UNCHANGED mempoolVars
  /\ IF kind = "malloc" THEN LibcNext ELSE UNCHANGED libcVars
  /\ IF kind = "rb" THEN RbNext ELSE UNCHANGED rbVars
  /\ IF kind = "kfifo" THEN KfifoNext ELSE UNCHANGED kfifoVars
  /\ IF kind = "idr" THEN IdrNext ELSE UNCHANGED idrVars
  /\ IF kind = "hash" THEN HashNext ELSE UNCHANGED hashVars
  /\ IF kind = "notifier" THEN NotifierNext ELSE UNCHANGED notifierVars
  /\ IF kind = "sort" THEN SortNext ELSE UNCHANGED sortVars
  /\ IF kind = "rtc" THEN RtcNext ELSE UNCHANGED rtcVars
  /\ IF kind = "strtol" THEN StrNext ELSE UNCHANGED strVars
  /\ IF kind = "kmod" THEN ModNext ELSE UNCHANGED modVars
  /\ IF kind = "elf" THEN ElfNext ELSE UNCHANGED elfVars
  /\ IF kind = "ldso" THEN LdsoNext ELSE UNCHANGED ldsoVars
  /\ IF kind = "cfs" THEN CfsNext ELSE UNCHANGED cfsVars
  /\ IF kind = "log" THEN LogNext ELSE UNCHANGED logVars
  /\ IF kind = "kbd" THEN KbdNext ELSE UNCHANGED kbdVars
  /\ IF kind = "ps2" THEN Ps2Next ELSE UNCHANGED ps2Vars
  /\ IF kind = "gdb" THEN GdbNext ELSE UNCHANGED gdbVars
  /\ IF kind = "bp" THEN BpNext ELSE UNCHANGED bpVars

vars == <<kind, rcuVars, ktVars, sgVars, swapVars, cacheVars, faultVars,
          freqVars, idleVars, thermalVars, wdtVars, pmVars, devVars, ktimerVars, devfsVars, kobjVars,
          debugfsVars, i2cVars, seqVars,
          lsmVars, credVars, seVars,
          poolVars, buddyVars, slabVars, mempoolVars, libcVars,
          rbVars, kfifoVars, idrVars, hashVars, notifierVars, sortVars, rtcVars, strVars,
          modVars, elfVars, ldsoVars,
          cfsVars,
          logVars, kbdVars, ps2Vars, gdbVars, bpVars>>

Spec == Init /\ [][Next]_vars

(* Every variable of the composed components has its type. *)
MachineTypeOK ==
  CASE kind = "rcu" -> RcuTypeOK
    [] kind = "kthread" -> KtTypeOK
    [] kind = "signal" -> SgTypeOK
    [] kind \in {"swap", "cache", "fault"} -> PagingTypeOK
    [] kind \in {"freq", "idle", "thermal", "wdt", "pm"} -> PowerTypeOK
    [] kind \in {"dev", "ktimer", "devfs", "kobj", "debugfs", "i2c", "seq"} -> DevTablesTypeOK
    [] kind \in {"lsm", "cred", "selinux"} -> AccessTypeOK
    [] kind \in {"pool", "buddy", "slab", "mempool", "malloc"} -> MemoryTypeOK
    [] kind \in {"rb", "kfifo", "idr", "hash", "notifier", "sort", "rtc", "strtol"} -> ContainersTypeOK
    [] kind \in {"kmod", "elf", "ldso"} -> LoaderTypeOK
    [] kind \in {"cfs"} -> CfsTypeOK
    [] kind \in {"log", "kbd", "ps2", "gdb", "bp"} -> ConsolesTypeOK

(* Who runs, and what they may do.  No kthread_t is freed while its        *)
(* thread, a join or a stop uses it (KthreadSafe); no mask of signal.c     *)
(* holds SIGKILL, and realtime entries stay in order and in bounds         *)
(* (SignalBooks); a walk of the lsm chain that grants has asked every      *)
(* module (ChainBooks); capabilities follow the effective user through any *)
(* setuid and copy (CredBooks); the labels, cached decisions and hooks of  *)
(* selinux.c agree with its tables (SidBooks, AvcBooks, PolicyCoversHooks, *)
(* ContextRoundTrip); a loaded module's sections are freed once, when it   *)
(* leaves the table (ModuleBooks), a loaded image has its bytes where its  *)
(* segments say (ElfBooks), and a library stays loaded while its handle or *)
(* another library holds it, until the events named there (LdsoBooks); the *)
(* tree of cfs.c holds the queued tasks, in order, until the events its    *)
(* invariant names (CfsBooks).                                             *)
RunnersSafe ==
  /\ kind = "kthread" => KthreadSafe
  /\ kind = "signal" => SignalBooks
  /\ kind = "lsm" => ChainBooks
  /\ kind = "cred" => CredBooks
  /\ kind = "selinux" => SidBooks /\ AvcBooks /\ PolicyCoversHooks /\ ContextRoundTrip
  /\ kind = "kmod" => ModuleBooks
  /\ kind = "elf" => ElfBooks
  /\ kind = "ldso" => LdsoBooks
  /\ kind = "cfs" => CfsBooks

(* Pages and the memory under them.  No two swap entries name one slot     *)
(* (SwapBooks), pc_dirty counts the dirty pages and a clean one is what    *)
(* the disk has (CacheBooks), and a page is writable only on a frame of    *)
(* its own (FaultBooks); the pools of memory.c, buddy.c, slab.c and        *)
(* kapi_mempool.c keep count of what they handed out, and hand out nothing *)
(* twice until the events their invariants name (PoolBooks, BuddyBooks,    *)
(* SlabBooks, MempoolBooks); the blocks of malloc lie apart and keep what  *)
(* was written through any realloc (MallocBooks).                          *)
PagingBooks ==
  /\ kind = "swap" => SwapBooks
  /\ kind = "cache" => CacheBooks
  /\ kind = "fault" => FaultBooks
  /\ kind = "pool" => PoolBooks
  /\ kind = "buddy" => BuddyBooks
  /\ kind = "slab" => SlabBooks
  /\ kind = "mempool" => MempoolBooks
  /\ kind = "malloc" => MallocBooks

(* Devices, and the containers the K API keeps them in.  Governors, idle   *)
(* states, trips and watchdogs stay as registered through any order of     *)
(* calls (FreqBooks, IdleBooks, ThermalBooks, WatchdogBooks), and a        *)
(* suspended machine never comes back (PmNeverBack); the tables of         *)
(* devices, timers, nodes and objects count their holders (DevBooks,       *)
(* KtimerBooks, DevfsBooks, KobjBooks, DebugfsTree); the red-black tree    *)
(* keeps its order and colours (RbTree), the ring, the identifiers, the    *)
(* hash table and the notifier chain hold what was put in (KfifoBooks,     *)
(* IdrBooks, HashBooks, NotifierBooks), and the three sorts sort           *)
(* (SortsAgree); the log gives its last characters (LogBooks), the         *)
(* keyboard its events once and in order (KbdRing) and its modifiers as    *)
(* they are held (Ps2Books), and the debugger's stub obeys nobody and      *)
(* keeps the code it patches (GdbDeaf, BpBooks); the SMBus host runs one   *)
(* transaction at a time (I2cBooks), a sequence file stays in its buffer   *)
(* (SeqBooks), and the C library reads clock and numerals as they stand,   *)
(* but for the cases named there (TimeBooks, StringsToNumbers).            *)
DeviceBooks ==
  /\ kind = "freq" => FreqBooks
  /\ kind = "idle" => IdleBooks
  /\ kind = "thermal" => ThermalBooks
  /\ kind = "wdt" => WatchdogBooks
  /\ kind = "pm" => PmNeverBack
  /\ kind = "dev" => DevBooks
  /\ kind = "ktimer" => KtimerBooks
  /\ kind = "devfs" => DevfsBooks
  /\ kind = "kobj" => KobjBooks
  /\ kind = "debugfs" => DebugfsTree
  /\ kind = "i2c" => I2cBooks
  /\ kind = "seq" => SeqBooks
  /\ kind = "rb" => RbTree
  /\ kind = "kfifo" => KfifoBooks
  /\ kind = "idr" => IdrBooks
  /\ kind = "hash" => HashBooks
  /\ kind = "notifier" => NotifierBooks
  /\ kind = "sort" => SortsAgree
  /\ kind = "rtc" => TimeBooks
  /\ kind = "strtol" => StringsToNumbers
  /\ kind = "log" => LogBooks
  /\ kind = "kbd" => KbdRing
  /\ kind = "ps2" => Ps2Books
  /\ kind = "gdb" => GdbDeaf
  /\ kind = "bp" => BpBooks
=============================================================================
