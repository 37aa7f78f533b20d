-------------------------------- MODULE Jbd2 --------------------------------
(***************************************************************************)
(* The journal of arch/x86_64/jbd2.c: transactions, the commit with its    *)
(* device writes one by one, checkpoint, crash, and replay at the next     *)
(* mount.  The device and its journal area survive a crash.                *)
(*                                                                         *)
(* The data blocks of a transaction get their journal blocks when they are *)
(* logged, before the descriptor gets its own, and the replay looks for    *)
(* them behind the descriptor; a data block in the journal carries the     *)
(* type of a descriptor, so replay also takes file data for block numbers. *)
(* What replay copies is a journal block with its header, "raw" here.      *)
(* A transaction is committed by the one process that started it.          *)
(* Block sizes above sizeof(jbd2_block_header_t), 4100 bytes: below, the   *)
(* descriptor does not fit in its buffer.                                  *)
(***************************************************************************)
EXTENDS Integers, Sequences, FiniteSets

CONSTANTS
  journal_blocks,     \* jbd2_journal_init refuses less than 16; any value > 2 here
  JBlock,             \* block numbers outside the journal
  DataWord,           \* the block number that the first word of file data reads as
  TransMaxBlocks,     \* JBD2_TRANS_MAX_BLOCKS
  MaxStarted,         \* bound: transactions ever started
  MaxCrashes          \* bound: crashes

VARIABLES
  journal,    \* jbd2_journal: [initialized, next_tid, used, last_cp, list]
  commit_lock,\* "free", "commit", "checkpoint", or "hung": jbd2_journal_flush spins on it
  journal_lock_hung, \* jbd2_journal_destroy spins on journal_lock
  writing,    \* the transaction being committed: [serial, done] or [0, 0]
  sb, log,    \* on the device: the superblock and the rest of the journal area
  home,       \* on the device, per block: old, raw, or the serial whose data it holds
  started, crashes,  \* counters of transactions and crashes
  in_log      \* history: serials whose commit block has been written

jbdVars == <<journal, commit_lock, journal_lock_hung, writing, sb, log, home, started, crashes, in_log>>

LogSlot == 1 .. journal_blocks - 1
old     == 0
raw     == 0 - 1
no_sb   == [magic |-> 0, next_tid |-> 0, last |-> 0, free |-> 0]
no_blk  == [type |-> "none", tid |-> 0, nos |-> << >>]
off     == [initialized |-> 0, next_tid |-> 1, used |-> 0, last_cp |-> 0, current |-> 0, list |-> << >>]
no_write    == [serial |-> 0, done |-> 0]

jbd_init ==
  /\ journal = off /\ commit_lock = "free" /\ journal_lock_hung = 0 /\ writing = no_write
  /\ sb = no_sb /\ log = [j \in LogSlot |-> no_blk] /\ home = [b \in JBlock |-> old]
  /\ started = 0 /\ crashes = 0 /\ in_log = {}

jbd2_write_superblock(jn) ==
  sb' = [magic |-> 1, next_tid |-> jn.next_tid, last |-> jn.last_cp, free |-> journal_blocks - jn.used]

(* The next journal block, given how many count as used; freeing one only
   lowers the count. *)
jbd2_alloc_journal_block(used) == (used % (journal_blocks - 1)) + 1
jbd2_free_journal_block(used, n) == IF used > n THEN used - n ELSE 0

running == journal.initialized = 1 /\ journal_lock_hung = 0
index(s) == CHOOSE i \in 1 .. Len(journal.list) : journal.list[i].serial = s
trans(s) == journal.list[index(s)]
live     == {journal.list[i].serial : i \in 1 .. Len(journal.list)}
set_trans(s, t) == [journal.list EXCEPT ![index(s)] = t]
without(list, S) == SelectSeq(list, LAMBDA t : t.serial \notin S)

-----------------------------------------------------------------------------
(* readable: whether the superblock could be read. *)
jbd2_journal_init(readable) ==
  LET found == readable /\ sb.magic = 1
      jn == [off EXCEPT !.initialized = 1,
               !.next_tid = IF found /\ sb.next_tid > 0 THEN sb.next_tid ELSE 1,
               !.last_cp = IF found THEN sb.last ELSE 0,
               !.used = IF found THEN journal_blocks - sb.free ELSE 0]
  IN  /\ journal.initialized = 0
      /\ journal' = jn /\ commit_lock' = "free" /\ journal_lock_hung' = 0
      /\ IF found THEN UNCHANGED sb ELSE jbd2_write_superblock(jn)
      /\ UNCHANGED <<writing, log, home, started, crashes, in_log>>

(* The transactions that jbd2_journal_load replays. *)
replayed_tids == {log[j].tid : j \in {k \in LogSlot : log[k].type = "COMMIT"}} \ {0}

(* What they write: descriptor in block j, entry b, data from block j + b. *)
replay_targets ==
  {log[x[1]].nos[x[2]] : x \in {y \in LogSlot \X (1 .. TransMaxBlocks) :
     /\ log[y[1]].type = "DESCRIPTOR" /\ log[y[1]].tid \in replayed_tids
     /\ y[2] \in DOMAIN log[y[1]].nos /\ y[1] + y[2] < journal_blocks}}

jbd2_journal_load ==
  LET top == CHOOSE t \in replayed_tids \cup {journal.last_cp} : \A u \in replayed_tids \cup {journal.last_cp} : u <= t
      jn == [journal EXCEPT !.last_cp = top, !.used = 0]
  IN  /\ running /\ journal.list = << >>
      /\ \E j \in LogSlot : log[j].tid > 0
      /\ home' = [b \in JBlock |-> IF b \in replay_targets THEN raw ELSE home[b]]
      /\ journal' = jn /\ jbd2_write_superblock(jn)
      /\ UNCHANGED <<commit_lock, journal_lock_hung, writing, log, started, crashes, in_log>>

jbd2_trans_start ==
  /\ running /\ started < MaxStarted
  /\ started' = started + 1
  /\ journal' = [journal EXCEPT !.next_tid = @ + 1, !.current = started + 1,
                   !.list = Append(@, [serial |-> started + 1, tid |-> journal.next_tid, state |-> "RUNNING", blks |-> << >>])]
  /\ UNCHANGED <<commit_lock, journal_lock_hung, writing, sb, log, home, crashes, in_log>>

jbd2_trans_log_block(s, b) ==
  LET t == trans(s)
      blk == [no |-> b, jno |-> jbd2_alloc_journal_block(journal.used), inlog |-> 0]
  IN  /\ running /\ t.state = "RUNNING" /\ Len(t.blks) < TransMaxBlocks
      /\ journal.used < journal_blocks - 2
      /\ journal' = [journal EXCEPT !.used = @ + 1, !.list = set_trans(s, [t EXCEPT !.blks = Append(@, blk)])]
      /\ UNCHANGED <<commit_lock, journal_lock_hung, writing, sb, log, home, started, crashes, in_log>>

-----------------------------------------------------------------------------
(* jbd2_trans_commit, one device write after the other.  It takes the lock,
   and writes the descriptor when there are blocks. *)
commit_begin(s) ==
  LET t == trans(s)
      j == jbd2_alloc_journal_block(journal.used)
      on == [journal EXCEPT !.current = IF @ = s THEN 0 ELSE @,
                            !.list = set_trans(s, [t EXCEPT !.state = "FLUSHING"])]
  IN  /\ running /\ commit_lock = "free" /\ t.state \in {"RUNNING", "LOCKED"}
      /\ commit_lock' = "commit" /\ writing' = [serial |-> s, done |-> 0]
      /\ IF t.blks = << >> THEN journal' = on /\ UNCHANGED log
         ELSE /\ journal.used < journal_blocks
              /\ journal' = [on EXCEPT !.used = @ + 1]
              /\ log' = [log EXCEPT ![j] = [type |-> "DESCRIPTOR", tid |-> t.tid, nos |-> [i \in 1 .. Len(t.blks) |-> t.blks[i].no]]]
      /\ UNCHANGED <<journal_lock_hung, sb, home, started, crashes, in_log>>

(* No memory or no journal block for the descriptor, or its write failed. *)
commit_refused(s) ==
  LET t == trans(s)
  IN  /\ running /\ commit_lock = "free" /\ t.state \in {"RUNNING", "LOCKED"} /\ t.blks # << >>
      /\ journal' = [journal EXCEPT !.current = IF @ = s THEN 0 ELSE @, !.list = set_trans(s, [t EXCEPT !.state = "LOCKED"])]
      /\ UNCHANGED <<commit_lock, journal_lock_hung, writing, sb, log, home, started, crashes, in_log>>

commit_data ==
  LET s == writing.serial
      t == trans(s)
      i == writing.done + 1
  IN  /\ commit_lock = "commit" /\ t.state = "FLUSHING" /\ i <= Len(t.blks)
      /\ log' = [log EXCEPT ![t.blks[i].jno] = [type |-> "DESCRIPTOR", tid |-> t.tid, nos |-> <<DataWord>>]]
      /\ journal' = [journal EXCEPT !.list = set_trans(s, [t EXCEPT !.blks[i].inlog = 1])]
      /\ writing' = [writing EXCEPT !.done = i]
      /\ UNCHANGED <<commit_lock, journal_lock_hung, sb, home, started, crashes, in_log>>

commit_block ==
  LET s == writing.serial
      t == trans(s)
  IN  /\ commit_lock = "commit" /\ t.state = "FLUSHING" /\ writing.done = Len(t.blks) /\ journal.used < journal_blocks
      /\ log' = [log EXCEPT ![jbd2_alloc_journal_block(journal.used)] = [type |-> "COMMIT", tid |-> t.tid, nos |-> << >>]]
      /\ journal' = [journal EXCEPT !.used = @ + 1, !.list = set_trans(s, [t EXCEPT !.state = "FINISHED"])]
      /\ in_log' = in_log \cup {s}
      /\ UNCHANGED <<commit_lock, journal_lock_hung, writing, sb, home, started, crashes>>

commit_end ==
  /\ commit_lock = "commit" /\ trans(writing.serial).state = "FINISHED"
  /\ jbd2_write_superblock(journal)
  /\ commit_lock' = "free" /\ writing' = no_write
  /\ UNCHANGED <<journal, journal_lock_hung, log, home, started, crashes, in_log>>

(* The same further on: the transaction can be committed again from the
   beginning. *)
commit_fail ==
  LET s == writing.serial
  IN  /\ commit_lock = "commit" /\ trans(s).state = "FLUSHING"
      /\ journal' = [journal EXCEPT !.list = set_trans(s, [trans(s) EXCEPT !.state = "LOCKED"])]
      /\ commit_lock' = "free" /\ writing' = no_write
      /\ UNCHANGED <<journal_lock_hung, sb, log, home, started, crashes, in_log>>

(* Blocks already in the journal are given back twice, once here and once in
   jbd2_free_transaction; the others never. *)
jbd2_trans_abort(s) ==
  LET n == Cardinality({i \in 1 .. Len(trans(s).blks) : trans(s).blks[i].inlog = 1})
      once == [journal EXCEPT !.used = jbd2_free_journal_block(@, n), !.current = IF @ = s THEN 0 ELSE @,
                              !.list = without(@, {s})]
  IN  /\ running /\ trans(s).state \in {"RUNNING", "LOCKED"}
      /\ jbd2_write_superblock(once)
      /\ journal' = [once EXCEPT !.used = jbd2_free_journal_block(@, n)]
      /\ UNCHANGED <<commit_lock, journal_lock_hung, writing, log, home, started, crashes, in_log>>

-----------------------------------------------------------------------------
(* Mutant: every transaction is written home. *)
due_any == {i \in 1 .. Len(journal.list) : Len(journal.list[i].blks) >= 0}

due == {i \in 1 .. Len(journal.list) : journal.list[i].state = "FINISHED"}

checkpoint_begin ==
  /\ running /\ commit_lock = "free" /\ commit_lock' = "checkpoint"
  /\ UNCHANGED <<journal, journal_lock_hung, writing, sb, log, home, started, crashes, in_log>>

(* One transaction is written home and forgotten, failed writes included;
   ok are the block numbers whose writes succeed. *)
checkpoint_one(ok) ==
  LET i == CHOOSE k \in due : \A m \in due : k <= m
      t == journal.list[i]
      n == Cardinality({k \in 1 .. Len(t.blks) : t.blks[k].inlog = 1})
      hit == {t.blks[k].no : k \in 1 .. Len(t.blks)}
  IN  /\ commit_lock = "checkpoint" /\ due # {} /\ ok \subseteq hit
      /\ home' = [b \in JBlock |-> IF b \in ok THEN t.serial ELSE home[b]]
      /\ journal' = [journal EXCEPT !.used = jbd2_free_journal_block(@, n), !.list = without(@, {t.serial}),
                                    !.last_cp = IF t.tid > @ THEN t.tid ELSE @]
      /\ UNCHANGED <<commit_lock, journal_lock_hung, writing, sb, log, started, crashes, in_log>>

checkpoint_end ==
  /\ commit_lock = "checkpoint" /\ due = {}
  /\ jbd2_write_superblock(journal) /\ commit_lock' = "free"
  /\ UNCHANGED <<journal, journal_lock_hung, writing, log, home, started, crashes, in_log>>

(* It calls jbd2_journal_checkpoint, which takes commit_lock again. *)
jbd2_journal_flush ==
  /\ running /\ commit_lock = "free" /\ commit_lock' = "hung"
  /\ UNCHANGED <<journal, journal_lock_hung, writing, sb, log, home, started, crashes, in_log>>

(* With a current transaction it calls jbd2_trans_abort, which takes
   journal_lock again; otherwise everything in the list is forgotten. *)
jbd2_journal_destroy ==
  /\ running /\ writing = no_write /\ commit_lock # "checkpoint"
  /\ IF journal.current # 0 THEN journal_lock_hung' = 1 /\ UNCHANGED <<journal, sb>>
     ELSE LET jn == [journal EXCEPT !.used = 0, !.list = << >>, !.initialized = 0]
          IN  journal' = jn /\ jbd2_write_superblock(jn) /\ UNCHANGED journal_lock_hung
  /\ UNCHANGED <<commit_lock, writing, log, home, started, crashes, in_log>>

crash ==
  /\ crashes < MaxCrashes /\ crashes' = crashes + 1
  /\ journal' = off /\ commit_lock' = "free" /\ journal_lock_hung' = 0 /\ writing' = no_write
  /\ UNCHANGED <<sb, log, home, started, in_log>>

JbdNext ==
  \/ \E r \in BOOLEAN : jbd2_journal_init(r)
  \/ jbd2_journal_load \/ jbd2_trans_start
  \/ \E s \in live : jbd2_trans_abort(s) \/ commit_begin(s) \/ commit_refused(s) \/ \E b \in JBlock : jbd2_trans_log_block(s, b)
  \/ commit_data \/ commit_block \/ commit_end \/ commit_fail
  \/ checkpoint_begin \/ checkpoint_end \/ \E ok \in SUBSET JBlock : checkpoint_one(ok)
  \/ jbd2_journal_flush \/ jbd2_journal_destroy \/ crash

-----------------------------------------------------------------------------
JbdTypeOK ==
  /\ journal.initialized \in {0, 1} /\ journal.used \in 0 .. journal_blocks /\ journal.next_tid \in Nat
  /\ commit_lock \in {"free", "commit", "checkpoint", "hung"} /\ journal_lock_hung \in {0, 1}
  /\ sb.free \in 0 .. journal_blocks
  /\ \A j \in LogSlot : log[j].type \in {"none", "DESCRIPTOR", "COMMIT"}

(* Write-ahead, whatever crashes, fails and is replayed: file data of a    *)
(* transaction is in its home block only once the commit block of that     *)
(* transaction has gone to the journal, and replay touches nothing before  *)
(* some transaction has been committed.                                    *)
WriteAhead ==
  \A b \in JBlock :
    /\ home[b] \in {old, raw} \cup in_log
    /\ home[b] = raw => in_log # {}
=============================================================================
