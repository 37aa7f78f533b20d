-------------------------------- MODULE Vfs --------------------------------
(***************************************************************************)
(* Mounts (fs.c and the mounts of kapi_vfs.c, kapi_fs.c) and the dentries  *)
(* and inodes of kapi_vfs.c.  A file system's own mount and unmount are    *)
(* external: they may fail.  A free slot is shown blank: its contents are  *)
(* cleared when it is taken again and not read before.                     *)
(***************************************************************************)
EXTENDS Naturals, Integers, Sequences, FiniteSets, SequencesExt, FiniteSetsExt

CONSTANTS
  MountDir,            \* mount points
  PrefixOf,            \* the pairs <<a, b>> of them where the text of a starts that of b
  FsType,              \* the registered file systems
  FS_MAX_MOUNTS,
  MountSlot,           \* 1..KAPI_VFS_MAX_MOUNTS
  DentrySlot, InodeSlot,
  MaxFsMounts          \* bounds the mounts alive at once

ASSUME VfsAssumption == \A t \in MountDir : <<t, t>> \in PrefixOf

VARIABLES
  mount_points,        \* the array of fs.c
  kapi_mount_table,
  fs_alive,            \* what the file systems have mounted: pairs of target and type, in order
  unrecorded,          \* some of it was mounted by fs_mount, which records nothing
  stacked,             \* a target has been mounted while it was a mount point
  dentries, inodes, inode_torn, inode_leaks

mountVars == <<mount_points, kapi_mount_table, fs_alive, unrecorded, stacked>>
dentryVars == <<dentries, inodes, inode_torn, inode_leaks>>

-----------------------------------------------------------------------------
free_mount == [valid |-> 0, mounted |-> 0, dir |-> "", type |-> ""]

mount_init ==
  /\ mount_points = <<>> /\ fs_alive = <<>>
  /\ kapi_mount_table = [i \in MountSlot |-> free_mount]
  /\ unrecorded = FALSE /\ stacked = FALSE

on(dir) == {i \in DOMAIN mount_points : mount_points[i].dir = dir}
alive(dir) == {i \in DOMAIN fs_alive : fs_alive[i].dir = dir}

(* vfs_mount with its record, or, when that fails, fs_mount without one. *)
vfs_mount(dir, type) ==
  /\ Len(mount_points) < FS_MAX_MOUNTS
  /\ mount_points' = Append(mount_points, [dir |-> dir, type |-> type])
  /\ fs_alive' = Append(fs_alive, [dir |-> dir, type |-> type])
  /\ stacked' = (stacked \/ alive(dir) # {})
  /\ UNCHANGED unrecorded

fs_mount(dir, type) ==
  /\ fs_alive' = Append(fs_alive, [dir |-> dir, type |-> type])
  /\ unrecorded' = TRUE
  /\ stacked' = (stacked \/ alive(dir) # {})
  /\ UNCHANGED mount_points

mount_failed == UNCHANGED <<mount_points, fs_alive, unrecorded, stacked>>

(* The slot is taken whether or not anything was mounted. *)
kapi_vfs_kern_mount(dir, type) ==
  LET unused == {i \in MountSlot : kapi_mount_table[i].valid = 0}
      slot == Min(unused)
      filled(mounted) == [kapi_mount_table EXCEPT ![slot] = [valid |-> 1, mounted |-> mounted, dir |-> dir, type |-> type]]
  IN  /\ unused # {} /\ Len(fs_alive) < MaxFsMounts
      /\ \/ (vfs_mount(dir, type) \/ fs_mount(dir, type)) /\ kapi_mount_table' = filled(1)
         \/ mount_failed /\ kapi_mount_table' = filled(0)

kapi_mount(dir, type) ==
  /\ Len(fs_alive) < MaxFsMounts
  /\ vfs_mount(dir, type) \/ fs_mount(dir, type)
  /\ UNCHANGED kapi_mount_table

(* The first record of the target goes, the last one moves into its place; *)
(* the file system named by that record unmounts the target.               *)
filled_by_last(seq, i) == SubSeq([seq EXCEPT ![i] = seq[Len(seq)]], 1, Len(seq) - 1)

taken_down(dir, points, mounts) ==
  LET here == {i \in DOMAIN points : points[i].dir = dir}
      type == points[Min(here)].type
      gone == {i \in DOMAIN mounts : mounts[i] = [dir |-> dir, type |-> type]}
  IN  IF here = {} THEN [ok |-> FALSE, points |-> points, mounts |-> mounts]
      ELSE [ok |-> TRUE, points |-> filled_by_last(points, Min(here)), mounts |-> RemoveAt(mounts, Max(gone))]

vfs_umount(dir) ==
  LET down == taken_down(dir, mount_points, fs_alive)
  IN  down.ok /\ mount_points' = down.points /\ fs_alive' = down.mounts

kapi_umount(dir) == vfs_umount(dir) /\ UNCHANGED <<kapi_mount_table, unrecorded, stacked>>

kapi_vfs_kern_umount(slot) ==
  /\ kapi_mount_table[slot].valid = 1
  /\ vfs_umount(kapi_mount_table[slot].dir)
  /\ kapi_mount_table' = [kapi_mount_table EXCEPT ![slot] = free_mount]
  /\ UNCHANGED <<unrecorded, stacked>>

(* Then every mounted slot whose directory has that prefix, in slot order. *)
kapi_vfs_umount_tree(slot) ==
  LET top == kapi_mount_table[slot]
      step(i, st) ==
        LET down == taken_down(st.table[i].dir, st.points, st.mounts)
        IN  IF st.table[i].valid = 1 /\ st.table[i].mounted = 1 /\ <<top.dir, st.table[i].dir>> \in PrefixOf /\ down.ok
            THEN [table |-> [st.table EXCEPT ![i] = free_mount], points |-> down.points, mounts |-> down.mounts]
            ELSE st
      first == taken_down(top.dir, mount_points, fs_alive)
      start == [table |-> [kapi_mount_table EXCEPT ![slot] = free_mount],
                points |-> first.points, mounts |-> first.mounts]
      done == FoldLeft(LAMBDA st, i : step(i, st), start, [k \in 1..Cardinality(MountSlot) |-> k])
  IN  /\ top.valid = 1 /\ first.ok
      /\ kapi_mount_table' = done.table /\ mount_points' = done.points /\ fs_alive' = done.mounts
      /\ UNCHANGED <<unrecorded, stacked>>

MountNext ==
  \/ \E dir \in MountDir, type \in FsType : kapi_vfs_kern_mount(dir, type) \/ kapi_mount(dir, type)
  \/ \E dir \in MountDir : kapi_umount(dir)
  \/ \E slot \in MountSlot : kapi_vfs_kern_umount(slot) \/ kapi_vfs_umount_tree(slot)

(* The records and what the file systems have mounted agree, apart from    *)
(* what fs_mount mounted without a record; while no target is mounted      *)
(* twice, each record is the mount of its target.                          *)
MountBooks ==
  /\ \A r \in MountDir : Cardinality(on(r)) <= Cardinality(alive(r))
  /\ ~unrecorded => Len(mount_points) = Len(fs_alive)
  /\ ~unrecorded /\ ~stacked =>
       /\ \A i, k \in DOMAIN mount_points : mount_points[i].dir = mount_points[k].dir => i = k
       /\ Range(mount_points) = Range(fs_alive)

-----------------------------------------------------------------------------
(* Dentries and inodes.  A slot number stands for the pointer; a holder    *)
(* gives a dentry up by deleting it or by putting it.                      *)
free_dentry == [valid |-> 0, refcount |-> 0, inode |-> 0, parent |-> 0]

kapi_vfs_init ==
  /\ dentries = [d \in DentrySlot |-> free_dentry]
  /\ inodes = [n \in InodeSlot |-> 0]
  /\ inode_torn = {} /\ inode_leaks = {}

free_inodes == {n \in InodeSlot : inodes[n] = 0}
new_dentry(parent, inode) ==
  LET unused == {d \in DentrySlot : dentries[d].valid = 0}
  IN  /\ unused # {}
      /\ dentries' = [dentries EXCEPT ![Min(unused)] = [valid |-> 1, refcount |-> 1, inode |-> inode, parent |-> parent]]

(* Every lookup makes a dentry of its own, without an inode. *)
kapi_vfs_dentry_lookup(parent) ==
  /\ new_dentry(parent, 0)
  /\ UNCHANGED <<inodes, inode_torn, inode_leaks>>

(* Without a free inode the dentry is made all the same. *)
kapi_vfs_dentry_create(parent) ==
  /\ dentries[parent].valid = 1
  /\ IF free_inodes = {} THEN new_dentry(parent, 0) /\ UNCHANGED inodes
     ELSE new_dentry(parent, Min(free_inodes)) /\ inodes' = [inodes EXCEPT ![Min(free_inodes)] = 1]
  /\ UNCHANGED <<inode_torn, inode_leaks>>

with_inode(d, table) == IF dentries[d].inode = 0 THEN table ELSE [table EXCEPT ![dentries[d].inode] = 0]

kapi_vfs_dentry_delete(d) ==
  /\ dentries[d].valid = 1
  /\ inodes' = with_inode(d, inodes)
  /\ dentries' = [dentries EXCEPT ![d] = free_dentry]
  /\ UNCHANGED <<inode_torn, inode_leaks>>

(* The last put frees the dentry and leaves its inode behind. *)
kapi_vfs_dentry_put(d) ==
  /\ dentries[d].valid = 1
  /\ dentries' = [dentries EXCEPT ![d] = IF @.refcount <= 1 THEN free_dentry ELSE [@ EXCEPT !.refcount = @ - 1]]
  /\ inode_leaks' = IF dentries[d].refcount <= 1 THEN inode_leaks \cup ({dentries[d].inode} \ {0}) ELSE inode_leaks
  /\ UNCHANGED <<inodes, inode_torn>>

kapi_vfs_inode_alloc ==
  /\ free_inodes # {}
  /\ inodes' = [inodes EXCEPT ![Min(free_inodes)] = 1]
  /\ inode_leaks' = inode_leaks \cup {Min(free_inodes)}
  /\ UNCHANGED <<dentries, inode_torn>>

owners(n) == {d \in DentrySlot : dentries[d].valid = 1 /\ dentries[d].inode = n}

kapi_vfs_inode_free(n) ==
  /\ inodes[n] = 1
  /\ inodes' = [inodes EXCEPT ![n] = 0]
  /\ inode_torn' = IF owners(n) # {} THEN inode_torn \cup {n} ELSE inode_torn
  /\ inode_leaks' = inode_leaks \ {n}
  /\ UNCHANGED dentries

DentryNext ==
  \/ kapi_vfs_inode_alloc
  \/ \E d \in DentrySlot : kapi_vfs_dentry_create(d) \/ kapi_vfs_dentry_delete(d) \/ kapi_vfs_dentry_put(d)
  \/ \E d \in DentrySlot : (dentries[d].valid = 1 \/ d = 1) /\ kapi_vfs_dentry_lookup(IF dentries[d].valid = 1 THEN d ELSE 0)
  \/ \E n \in InodeSlot : kapi_vfs_inode_free(n)

(* Unless an inode was freed under its dentry, the inode of a dentry is in *)
(* use and is that dentry's alone, and an inode in use belongs to a        *)
(* dentry, or was allocated without one or left behind by a put: those are *)
(* what fills the table.                                                   *)
DentryBooks ==
  \A n \in InodeSlot \ inode_torn :
    /\ Cardinality(owners(n)) <= 1
    /\ owners(n) # {} => inodes[n] = 1
    /\ inodes[n] = 1 => owners(n) # {} \/ n \in inode_leaks

-----------------------------------------------------------------------------
(* Every variable has its type. *)
VfsTypeOK ==
  /\ \A i \in DOMAIN mount_points : mount_points[i] \in [dir : MountDir, type : FsType]
  /\ Len(mount_points) <= FS_MAX_MOUNTS
  /\ \A i \in MountSlot : kapi_mount_table[i].valid \in {0, 1} /\ kapi_mount_table[i].mounted \in {0, 1}
  /\ unrecorded \in BOOLEAN /\ stacked \in BOOLEAN
  /\ \A d \in DentrySlot : dentries[d].refcount \in {0, 1} /\ dentries[d].inode \in InodeSlot \cup {0}
  /\ inodes \in [InodeSlot -> {0, 1}] /\ inode_torn \cup inode_leaks \subseteq InodeSlot
=============================================================================
