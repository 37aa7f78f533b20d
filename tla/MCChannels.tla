----------------------------- MODULE MCChannels -----------------------------
(***************************************************************************)
(* What a descriptor leads to, for TLC: the pipes and sockets of Streams,  *)
(* Epoll and Files, and the mounts, file systems, journal and drivers      *)
(* below them.  They share no state but what the modules already relate,   *)
(* so one run explores one of them at a time: chan_kind is chosen in the   *)
(* initial state, and the others stay as they begin.  "cred" explores the  *)
(* credentials of Files.                                                   *)
(***************************************************************************)
EXTENDS Streams, Epoll, Files, Jbd2, BlockIo, Vfs, ExtFs

VARIABLE chan_kind

ShutBoth == {{"SHUT_RD", "SHUT_WR"}}

MCPrefixOf == {<<"/a", "/a">>, <<"/ab", "/ab">>, <<"/a", "/ab">>}
MCHoles == {h \in SUBSET {<<1>>, <<2>>, <<2, 3>>, <<3>>, <<3, 1>>, <<3, 1, 2>>, <<4>>, <<4, 0>>, <<4, 1, 1>>, <<4, 0, 1, 3>>} : Cardinality(h) <= 2}
MCExtent == {[block |-> 1, len |-> 2, start |-> 20], [block |-> 1, len |-> 4, start |-> 20], [block |-> 1, len |-> 6, start |-> 20], [block |-> 1, len |-> 0, start |-> 20]}
MCLeaf(b) == {<<>>} \cup {<<[x EXCEPT !.block = b + y]>> : x \in {e \in MCExtent : e.len > 0}, y \in {0, 1}}
MCLeaves(b) == [depth : {0}, entries : MCLeaf(b)]
MCIndex == {[depth |-> 1, entries |-> <<[block |-> 0, child |-> l1], [block |-> 5, child |-> l2]>>] : l1 \in MCLeaves(0), l2 \in MCLeaves(5)}
MCExtentTrees == MCLeaves(1) \cup MCIndex \cup {[depth |-> 2, entries |-> <<[block |-> 0, child |-> i]>>] : i \in MCIndex}
MCExt2File == {[size |-> 9, holes |-> {}], [size |-> 6, holes |-> {}], [size |-> 9, holes |-> {1}]}
MCFarFile == {[size |-> 6, holes |-> {}]}
MCRecord == [inode : {0, 11}, name : {"d1"}, zero : {FALSE}] \cup [inode : {12}, name : {"d1", "d2"}, zero : {FALSE}] \cup {[inode |-> 0, name |-> "d1", zero |-> TRUE]}
MCDirBlock == {<<>>} \cup {<<r>> : r \in MCRecord} \cup {<<r, t>> : r, t \in MCRecord}
MCDirectory == {<<b1, b2>> : b1, b2 \in MCDirBlock}

ChanInit ==
  /\ chan_kind \in {"fifo", "unix", "epoll", "fd", "cred", "jbd2", "nvme", "virtio", "mount", "dentry",
                    "ext", "ext4", "ext2"}
  /\ fifo_create /\ usk_init /\ epoll_init /\ fs_init /\ cred_init
  /\ jbd_init /\ block_init /\ mount_init /\ kapi_vfs_init /\ ext_init /\ ext4_init /\ ext2_init

ChanNext ==
  /\ UNCHANGED chan_kind
  /\ IF chan_kind = "fifo" THEN FifoNext ELSE UNCHANGED fifoVars
  /\ IF chan_kind = "unix" THEN UskNext ELSE UNCHANGED uskVars
  /\ IF chan_kind = "epoll" THEN EpNext ELSE UNCHANGED epVars
  /\ IF chan_kind = "fd" THEN FdNext ELSE IF chan_kind = "cred" THEN CredNext ELSE UNCHANGED <<fdVars, credVars>>
  /\ IF chan_kind = "jbd2" THEN JbdNext ELSE UNCHANGED jbdVars
  /\ IF chan_kind = "nvme" THEN NvmeNext ELSE IF chan_kind = "virtio" THEN VirtioNext ELSE UNCHANGED blockVars
  /\ IF chan_kind = "mount" THEN MountNext ELSE UNCHANGED mountVars
  /\ IF chan_kind = "dentry" THEN DentryNext ELSE UNCHANGED dentryVars
  /\ IF chan_kind = "ext" THEN ExtNext ELSE UNCHANGED extVars
  /\ IF chan_kind = "ext4" THEN Ext4Next ELSE UNCHANGED ext4Vars
  /\ IF chan_kind = "ext2" THEN Ext2Next ELSE UNCHANGED ext2Vars

ChanSpec ==
  ChanInit /\ [][ChanNext]_<<chan_kind, fifoVars, uskVars, epVars, fdVars, credVars, jbdVars, blockVars,
                            mountVars, dentryVars, extVars, ext4Vars, ext2Vars>>

(* The types of the components. *)
ChanTypeOK ==
  /\ FifoTypeOK /\ UskTypeOK /\ EpTypeOK /\ FdTypeOK
  /\ chan_kind = "jbd2" => JbdTypeOK
  /\ chan_kind \in {"nvme", "virtio"} => BlockTypeOK
  /\ chan_kind \in {"mount", "dentry"} => VfsTypeOK
  /\ chan_kind \in {"ext", "ext4", "ext2"} => ExtFsTypeOK

(* The counters, slots and rings of epoll and of the descriptor tables agree
   with what is registered and open. *)
TablesAgree == EpollBooks /\ FdOwnership

(* The disk and what stands before it.  File data reaches its home block   *)
(* only after the commit block of its transaction (WriteAhead), no request *)
(* of the NVMe and virtio drivers is seen to complete (NoCompletions); the *)
(* mount records and the dentries agree with what is mounted and in use    *)
(* (MountBooks, DentryBooks); the block and name searches of ext4.c and    *)
(* ext2.c give what the tree and the directory hold (BlockSearch,          *)
(* NameSearch), ext4 never attaches a journal (Ext4Mounts), and ext2 reads *)
(* consecutive bytes (Ext2Reads).                                          *)
StorageSafe ==
  /\ chan_kind = "jbd2" => WriteAhead
  /\ chan_kind \in {"nvme", "virtio"} => NoCompletions
  /\ chan_kind = "mount" => MountBooks
  /\ chan_kind = "dentry" => DentryBooks
  /\ chan_kind = "ext" => BlockSearch /\ NameSearch
  /\ chan_kind = "ext4" => Ext4Mounts
  /\ chan_kind = "ext2" => Ext2Reads
=============================================================================
