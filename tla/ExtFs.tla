------------------------------- MODULE ExtFs -------------------------------
(***************************************************************************)
(* The ext2 and ext4 readers (ext2.c, ext4.c): mounting, open files, and   *)
(* the searches of the two: the blocks of a file through indirect blocks   *)
(* and extents, the names of a directory.  Neither writes to the disk.     *)
(***************************************************************************)
EXTENDS Integers, Sequences, FiniteSets, SequencesExt, FiniteSetsExt

CONSTANTS
  NDIR,                \* direct blocks of an inode: 12
  PerBlock,            \* block numbers in an indirect block: block_size / 4
  PerSector,           \* those in its first sector
  Holes,               \* the sets of absent blocks a file may have, as paths
  ExtentTrees,         \* the extent trees an inode may have
  ZERO_LEN,            \* EXT4_EXT_ZERO_LEN: 0x8000
  LBlock,              \* blocks asked of an extent tree
  EXT4_MAX_FS,
  Ext2Mounts,          \* 16, the file systems ext2 can mount
  Ext2Fds,             \* 256, its open files
  BLOCK_SIZE, SECTOR,  \* bytes in a block of ext2, 1024, and in a sector, 512
  Ext2File,            \* files: their size, and the blocks that are holes
  FarFile,             \* those whose inode is not in the first sector of its table
  Ext2ReadSize,            \* sizes asked of ext2_read, offsets of ext2_seek
  MaxExt2Offset,           \* bounds the offset of an open file
  Directory, DirName   \* directories: sequences of blocks, each a sequence of records

ASSUME ExtFsAssumption ==
  /\ NDIR > 0 /\ PerSector > 0 /\ PerSector <= PerBlock
  /\ SECTOR > 0 /\ SECTOR <= BLOCK_SIZE
  /\ FarFile \subseteq Ext2File

VARIABLES
  inode,               \* the inode read, once: its holes, its extents, or a directory
  ext4_fs_table, ext4_fs_count, ext4_replayed,
  ext2_fs_count, ext2_fds,
  ext2_got             \* the read just made, if one was

extVars == <<inode>>
ext4Vars == <<ext4_fs_table, ext4_fs_count, ext4_replayed>>
ext2Vars == <<ext2_fs_count, ext2_fds, ext2_got>>

-----------------------------------------------------------------------------
(* The blocks of a file.  A physical block is named by the path that leads *)
(* to it: its place in the inode, then its place in each indirect block.   *)
IND == NDIR
DIND == NDIR + 1
TIND == NDIR + 2
no_block == <<>>
uninitialised == <<-1>>

prefixes(path) == {SubSeq(path, 1, n) : n \in 1..Len(path)}
ext4_read_indirect_block(path) == IF prefixes(path) \cap inode.holes # {} THEN no_block ELSE path

(* ext2_read_block fills the first sector of its buffer: an entry beyond   *)
(* it is what the buffer held.                                             *)
ext2_read_block(path) ==
  LET beyond == {n \in 2..Len(path) : path[n] >= PerSector}
      hole == {n \in 1..Len(path) : SubSeq(path, 1, n) \in inode.holes}
  IN  IF beyond # {} /\ \A n \in hole : Min(beyond) <= n THEN uninitialised
      ELSE IF hole # {} THEN no_block ELSE path

(* The levels of ext4_map_block_indirect and of ext2_get_block_num. *)
block_path(lblock) ==
  LET rel == lblock - NDIR
      rel2 == rel - PerBlock
      dind_entries == PerBlock * PerBlock
      rel3 == rel2 - dind_entries
      remaining == rel3 % dind_entries
  IN  IF lblock < NDIR THEN <<lblock>>
      ELSE IF rel < PerBlock THEN <<IND, rel>>
      ELSE IF rel2 < dind_entries THEN <<DIND, rel2 \div PerBlock, rel2 % PerBlock>>
      ELSE IF rel3 < PerBlock * dind_entries
           THEN <<TIND, rel3 \div dind_entries, remaining \div PerBlock, remaining % PerBlock>>
      ELSE no_block

ext4_map_block_indirect(lblock) == ext4_read_indirect_block(block_path(lblock))
ext2_get_block_num(lblock) == ext2_read_block(block_path(lblock))

(* An extent tree: a node has a depth and entries, which are children with *)
(* the first block below each, or extents.                                 *)
actual_len(ee_len) ==
  LET len == IF ee_len >= ZERO_LEN THEN ee_len - ZERO_LEN ELSE ee_len
  IN  IF len = 0 THEN 1 ELSE len

no_node == [depth |-> 0, entries |-> <<>>]
child_for(node, lblock) ==
  LET e == node.entries
      found == {i \in DOMAIN e : e[i].block <= lblock /\ ~(i < Len(e) /\ e[i + 1].block <= lblock)}
  IN  IF found = {} THEN no_node ELSE e[Min(found)].child

ext4_read_extent_block(lblock) ==
  LET root == inode.extents
      reached[d \in 0..root.depth] == IF d = 0 THEN root ELSE child_for(reached[d - 1], lblock)
      ext == reached[root.depth].entries
      hit == {i \in DOMAIN ext : lblock >= ext[i].block /\ lblock < ext[i].block + actual_len(ext[i].len)}
  IN  IF hit = {} THEN -1 ELSE ext[Min(hit)].start + (lblock - ext[Min(hit)].block)

(* The names of a directory.  A record has an inode, 0 when it is unused,  *)
(* or a rec_len of 0; a block that is a hole has no records.  ext4 stops   *)
(* at a hole, and at a rec_len of 0 it reads the same block again, for     *)
(* ever; ext2 passes on to the next block from either.                     *)
met(records) ==
  LET zero == {k \in DOMAIN records : records[k].zero}
  IN  IF zero = {} THEN records ELSE SubSeq(records, 1, Min(zero) - 1)

up_to_hole(dir) ==
  LET holes == {b \in DOMAIN dir : dir[b] = <<>>}
  IN  IF holes = {} THEN dir ELSE SubSeq(dir, 1, Min(holes) - 1)

first_named(records, name) ==
  LET hits == {k \in DOMAIN records : records[k].inode # 0 /\ records[k].name = name}
  IN  IF hits = {} THEN 0 ELSE records[Min(hits)].inode

never_ends(dir) == LET all == FlattenSeq(up_to_hole(dir)) IN met(all) # all
ext4_dir_iterate(dir) == SelectSeq(met(FlattenSeq(up_to_hole(dir))), LAMBDA r : r.inode # 0)
ext4_lookup(dir, name) == first_named(met(FlattenSeq(up_to_hole(dir))), name)
ext2_lookup_path(dir, name) == first_named(FlattenSeq([b \in DOMAIN dir |-> met(dir[b])]), name)

no_inode == [holes |-> {}, extents |-> no_node, dir |-> <<>>]
ext_init == inode = no_inode
ext4_read_inode ==
  inode = no_inode /\ inode' \in [holes : Holes, extents : {no_node}, dir : {<<>>}]
                 \cup [holes : {{}}, extents : ExtentTrees, dir : {<<>>}]
                 \cup [holes : {{}}, extents : {no_node}, dir : Directory]
ExtNext == ext4_read_inode

(* For reference: the blocks in the order of the tree, depth first, and    *)
(* the extents of a tree, with the length the format gives one: written up *)
(* to ZERO_LEN blocks, not yet written above.                              *)
Index == 0..(PerBlock - 1)
leaves ==
  {<<i>> : i \in 0..(NDIR - 1)} \cup {<<IND, i>> : i \in Index} \cup {<<DIND, i, k>> : i, k \in Index}
    \cup {<<TIND, i, k, n>> : i, k, n \in Index}
precedes(a, b) ==
  \E n \in 1..Min({Len(a), Len(b)}) : SubSeq(a, 1, n - 1) = SubSeq(b, 1, n - 1) /\ a[n] < b[n]
rank == [path \in leaves |-> Cardinality({p \in leaves : precedes(p, path)})]
format_len(len) == IF len > ZERO_LEN THEN len - ZERO_LEN ELSE len
child_nodes(nodes) == UNION {{n.entries[i].child : i \in DOMAIN n.entries} : n \in nodes}
extents_of(root) ==
  LET level[d \in 0..root.depth] == IF d = 0 THEN {root} ELSE child_nodes(level[d - 1])
  IN  UNION {{n.entries[i] : i \in DOMAIN n.entries} : n \in level[root.depth]}

(* ext4_map_block_indirect gives the lblock-th block of the tree, or none  *)
(* exactly where the file has a hole on the way; ext2_get_block_num gives  *)
(* the same while the way stays within first sectors, and beyond them what *)
(* the buffer held, or none.  ext4_read_extent_block finds a block exactly *)
(* when an extent of the tree covers it, and where that one puts it; of an *)
(* extent of just ZERO_LEN blocks it finds only the first.                 *)
BlockSearch ==
  /\ \A path \in leaves :
       LET l == rank[path]
           wanted == IF prefixes(path) \cap inode.holes # {} THEN no_block ELSE path
       IN  /\ ext4_map_block_indirect(l) = wanted
           /\ ext2_get_block_num(l) \in
                IF \A n \in 2..Len(path) : path[n] < PerSector THEN {wanted} ELSE {uninitialised, no_block}
  /\ ext4_map_block_indirect(Cardinality(leaves)) = no_block
  /\ \A l \in LBlock :
       LET cover == {e \in extents_of(inode.extents) : l \in e.block..(e.block + format_len(e.len) - 1)}
           seen == {e \in cover : e.len = ZERO_LEN => l = e.block}
       IN  IF seen = {} THEN ext4_read_extent_block(l) = -1
           ELSE \E e \in seen : ext4_read_extent_block(l) = e.start + (l - e.block)

(* In a directory without holes and without a record of length 0, ext4 and *)
(* ext2 give a name the inode of its first record in use, 0 when there is  *)
(* none, and ext4_dir_iterate visits each record in use once, in order; in *)
(* any other, what ext4 finds ext2 finds.                                  *)
NameSearch ==
  LET dir == inode.dir
      used == {<<b, k>> \in (DOMAIN dir) \X (1..3) : k <= Len(dir[b]) /\ dir[b][k].inode # 0}
      named(name) == {p \in used : dir[p[1]][p[2]].name = name}
      sound == \A b \in DOMAIN dir : dir[b] # <<>> /\ \A k \in DOMAIN dir[b] : ~dir[b][k].zero
  IN  /\ \A name \in DirName :
           /\ ext4_lookup(dir, name) # 0 => ext2_lookup_path(dir, name) = ext4_lookup(dir, name)
           /\ sound =>
                /\ ext4_lookup(dir, name) = ext2_lookup_path(dir, name)
                /\ IF named(name) = {} THEN ext4_lookup(dir, name) = 0
                   ELSE \E p \in named(name) :
                          /\ ext4_lookup(dir, name) = dir[p[1]][p[2]].inode
                          /\ \A q \in named(name) : p = q \/ precedes(p, q)
      /\ sound => /\ ~never_ends(dir)
                  /\ ext4_dir_iterate(dir) = [n \in 1..Cardinality(used) |->
                       LET p == SetToSortSeq(used, precedes)[n] IN dir[p[1]][p[2]]]

-----------------------------------------------------------------------------
(* ext4_mount: what a slot holds, and whether its journal was replayed.    *)
free_ext4 == [mounted |-> FALSE, gdt |-> FALSE, journal |-> FALSE]

ext4_init ==
  /\ ext4_fs_table = [i \in 1..EXT4_MAX_FS |-> free_ext4]
  /\ ext4_fs_count = 0
  /\ ext4_replayed = FALSE

free_slots == {i \in 1..EXT4_MAX_FS : ~ext4_fs_table[i].mounted}

(* ext4_read_inode refuses a file system that is not mounted, as the one   *)
(* ext4_mount asks it about is not yet.                                    *)
inode_readable(fs) == fs.mounted

ext4_mount(has_journal) ==
  /\ ext4_fs_count < EXT4_MAX_FS /\ free_slots # {}
  /\ LET slot == Min(free_slots)
         journal == has_journal /\ inode_readable(ext4_fs_table[slot])
     IN  /\ ext4_fs_table' = [ext4_fs_table EXCEPT ![slot] = [mounted |-> TRUE, gdt |-> TRUE, journal |-> journal]]
         /\ ext4_replayed' = (ext4_replayed \/ journal)
  /\ ext4_fs_count' = ext4_fs_count + 1

(* A disk error, a bad magic number or no memory: what was allocated is freed. *)
ext4_mount_fails ==
  /\ ext4_fs_count < EXT4_MAX_FS /\ free_slots # {}
  /\ ext4_fs_table' = [ext4_fs_table EXCEPT ![Min(free_slots)].gdt = FALSE]
  /\ UNCHANGED <<ext4_fs_count, ext4_replayed>>

ext4_unmount(slot) ==
  /\ ext4_fs_table[slot].mounted
  /\ ext4_fs_table' = [ext4_fs_table EXCEPT ![slot] = free_ext4]
  /\ ext4_fs_count' = ext4_fs_count - 1
  /\ UNCHANGED ext4_replayed

Ext4Next ==
  \/ ext4_mount_fails
  \/ \E has_journal \in BOOLEAN : ext4_mount(has_journal)
  \/ \E slot \in 1..EXT4_MAX_FS : ext4_unmount(slot)

(* The count is that of the mounted slots, and only those hold memory; the *)
(* journal of a file system that has one is never attached, so mounting    *)
(* after a crash replays nothing.                                          *)
Ext4Mounts ==
  /\ ext4_fs_count = Cardinality((1..EXT4_MAX_FS) \ free_slots)
  /\ \A i \in 1..EXT4_MAX_FS : ext4_fs_table[i].gdt <=> ext4_fs_table[i].mounted
  /\ \A i \in 1..EXT4_MAX_FS : ~ext4_fs_table[i].journal
  /\ ~ext4_replayed

-----------------------------------------------------------------------------
(* ext2: its mounts and open files.  An open file has the inode it was     *)
(* opened for and the one it got.                                          *)
some_file == CHOOSE f \in Ext2File : TRUE
free_ext2_fd == [used |-> FALSE, fs |-> 0, path |-> some_file, file |-> some_file, offset |-> 0]
no_read == [file |-> some_file, asked |-> 0, at |-> 0, bytes |-> <<>>]

ext2_init ==
  /\ ext2_fs_count = 0
  /\ ext2_fds = [fd \in 1..Ext2Fds |-> free_ext2_fd]
  /\ ext2_got = no_read

ext2_mount ==
  /\ ext2_fs_count < Ext2Mounts
  /\ ext2_fs_count' = ext2_fs_count + 1
  /\ ext2_got' = no_read
  /\ UNCHANGED ext2_fds

(* Whatever is unmounted, the files of all are closed and none is gone. *)
ext2_unmount ==
  /\ ext2_fds' = [fd \in 1..Ext2Fds |-> free_ext2_fd]
  /\ ext2_got' = no_read
  /\ UNCHANGED ext2_fs_count

(* An inode beyond the first sector of its table is what the buffer held. *)
ext2_get_inode(file) == IF file \in FarFile THEN Ext2File ELSE {file}

(* ext2_open looks in the file system mounted last, ext2_alloc_fd takes    *)
(* the first descriptor that is free.                                      *)
ext2_open(path) ==
  LET unused == {fd \in 1..Ext2Fds : ~ext2_fds[fd].used}
  IN  /\ ext2_fs_count > 0 /\ unused # {}
      /\ \E file \in ext2_get_inode(path) :
           ext2_fds' = [ext2_fds EXCEPT ![Min(unused)] =
             [used |-> TRUE, fs |-> ext2_fs_count, path |-> path, file |-> file, offset |-> 0]]
      /\ ext2_got' = no_read
      /\ UNCHANGED ext2_fs_count

ext2_close(fd) ==
  /\ ext2_fds[fd].used
  /\ ext2_fds' = [ext2_fds EXCEPT ![fd] = free_ext2_fd]
  /\ ext2_got' = no_read
  /\ UNCHANGED ext2_fs_count

(* The bytes a block gives: their offsets in the file, or -1 for what the  *)
(* buffer held.                                                            *)
block_bytes(cur, n) == [i \in 1..n |-> IF (cur + i - 1) % BLOCK_SIZE < SECTOR THEN cur + i - 1 ELSE -1]

ext2_read_file(file, size, offset) ==
  LET read[n \in 0..size] ==
        LET cur == offset + n
            left == BLOCK_SIZE - (cur % BLOCK_SIZE)
            read_size == IF n + left > size THEN size - n ELSE left
        IN  IF n >= size \/ cur >= file.size \/ (cur \div BLOCK_SIZE) \in file.holes THEN <<>>
            ELSE block_bytes(cur, read_size) \o read[n + read_size]
  IN  read[0]

(* The length ext4_read_file returns. *)
ext4_read_file(file, size, offset) ==
  IF offset >= file.size THEN 0 ELSE IF offset + size > file.size THEN file.size - offset ELSE size

ext2_read(fd, size) ==
  /\ ext2_fds[fd].used /\ ext2_fds[fd].offset <= MaxExt2Offset
  /\ LET f == ext2_fds[fd]
         bytes == ext2_read_file(f.file, size, f.offset)
     IN  /\ ext2_fds' = [ext2_fds EXCEPT ![fd].offset = @ + Len(bytes)]
         /\ ext2_got' = [file |-> f.file, asked |-> size, at |-> f.offset, bytes |-> bytes]
  /\ UNCHANGED ext2_fs_count

ext2_seek(fd, offset) ==
  /\ ext2_fds[fd].used
  /\ ext2_fds' = [ext2_fds EXCEPT ![fd].offset = offset]
  /\ ext2_got' = no_read
  /\ UNCHANGED ext2_fs_count

Ext2Next ==
  \/ ext2_mount \/ ext2_unmount
  \/ \E path \in Ext2File : ext2_open(path)
  \/ \E fd \in 1..Ext2Fds :
       \/ ext2_close(fd)
       \/ \E size \in Ext2ReadSize : ext2_read(fd, size) \/ ext2_seek(fd, size)

(* A read gives consecutive bytes of the file, each its own or, in the     *)
(* second sector of a block, what the buffer held; it stops short of what  *)
(* ext4_read_file would give only at a hole, never goes past one, and may  *)
(* go past the end of the file to the end of its last block.  An open file *)
(* belongs to a file system that was mounted, and is the one asked for     *)
(* unless its inode is beyond the first sector of the table.               *)
Ext2Reads ==
  LET r == ext2_got
      got == Len(r.bytes)
      crossed == {(r.at + i - 1) \div BLOCK_SIZE : i \in 1..got}
      last_block == (r.file.size - 1) \div BLOCK_SIZE
  IN  /\ got <= r.asked
      /\ \A i \in 1..got : r.bytes[i] \in
           IF (r.at + i - 1) % BLOCK_SIZE < SECTOR THEN {r.at + i - 1} ELSE {-1}
      /\ crossed \cap r.file.holes = {}
      /\ got < ext4_read_file(r.file, r.asked, r.at) => ((r.at + got) \div BLOCK_SIZE) \in r.file.holes
      /\ \A b \in crossed : b <= last_block
      /\ \A fd \in 1..Ext2Fds : ext2_fds[fd].used =>
           /\ ext2_fds[fd].fs \in 1..ext2_fs_count
           /\ ext2_fds[fd].path \notin FarFile => ext2_fds[fd].file = ext2_fds[fd].path

(* Every variable has its type. *)
ExtFsTypeOK ==
  /\ inode.holes \in Holes \cup {{}} /\ inode.dir \in Directory \cup {<<>>}
  /\ inode.extents \in ExtentTrees \cup {no_node}
  /\ ext4_fs_count \in 0..EXT4_MAX_FS /\ ext2_fs_count \in 0..Ext2Mounts
  /\ \A i \in 1..EXT4_MAX_FS : ext4_fs_table[i] \in [mounted : BOOLEAN, gdt : BOOLEAN, journal : BOOLEAN]
  /\ ext4_replayed \in BOOLEAN
  /\ \A fd \in 1..Ext2Fds : ext2_fds[fd].offset \in Nat /\ ext2_fds[fd].file \in Ext2File
=============================================================================
