------------------------------- MODULE Files -------------------------------
(***************************************************************************)
(* Descriptors: the tables behind open, close, read, write, lseek, dup,    *)
(* dup2, fcntl, pipe, socket, getdents64, fork and clone of                *)
(* api/kapi_syscall.c, the file and directory tables of api/kapi_fs.c, the *)
(* open files of kernel/fs.c and the nodes of tmpfs.c.                     *)
(*                                                                         *)
(* A descriptor holds a pointer into the file table, whose slot holds an   *)
(* index of open_files; none of the three is counted, so dup and fork make *)
(* aliases that a close does not know of.  vfs_root is NULL in the kernel  *)
(* itself (fs_init); the lookup finds the nodes an embedder has put there  *)
(* (external).  What is read and written is the offset: contents of pipes  *)
(* are in Streams, and the close-on-exec mark, which only fcntl reads,     *)
(* is left out.  Process credentials and the names kept per process, which *)
(* the same system calls set, are the second part of the module.           *)
(***************************************************************************)
EXTENDS Integers, Sequences, FiniteSets

CONSTANTS
  FdProc,                          \* process indices
  Child,                           \* bound: indices fork gives to a child, which opens files
                                   \* and closes descriptors but makes no others
  StdFds,                          \* console descriptors 0 .. StdFds - 1 (3 in the code)
  KAPI_FD_MAX, KAPI_MAX_OPEN_FILES, FS_MAX_OPEN_FDS,
  Node,                            \* files of the tree
  NoNode,
  TMPFS_BLOCK_SIZE,
  MaxPipes,                        \* bound: pipes created
  MaxOffset,                       \* bound: largest end of a write or seek
  ReadSize, WriteSize, SeekTo,     \* bound: arguments of read, write and lseek
  NewFlags,                        \* bound: flags set by fcntl
  Uid,                             \* user ids; 0 is root
  FdName                           \* host and root names

VARIABLES
  fdt,          \* proc_fd_table
  file_table,   \* kapi_file_table: [valid, fd]
  dir_table,    \* kapi_dir_table: [valid, index]
  open_files,   \* open_files[0 .. next_fd-1] of fs.c, as a sequence
  node,         \* tmpfs nodes: [mem, size, capacity, nlink]
  pipes,        \* created pipes: [refs, freed]
  copied,       \* history: file table slots a descriptor of which was copied
  cred,         \* per process: [uid, euid, umask, root, mm, brk]
  hostname, cwd

fdVars   == <<fdt, file_table, dir_table, open_files, node, pipes, copied>>
credVars == <<cred, hostname, cwd>>

Fds       == 0 .. KAPI_FD_MAX - 1
FileSlots == 0 .. KAPI_MAX_OPEN_FILES - 1
closed_fd == [type |-> "NONE", obj |-> 0, flags |-> "0"]

fs_init ==
  /\ fdt = [p \in FdProc |-> [fd \in Fds |-> closed_fd]]
  /\ file_table = [s \in FileSlots |-> [valid |-> 0, fd |-> 0]]
  /\ dir_table = [s \in FileSlots |-> [valid |-> 0, index |-> 0]]
  /\ open_files = << >>
  /\ node = [n \in Node |-> [mem |-> "live", size |-> 0, capacity |-> 0, nlink |-> 0]]
  /\ pipes = << >>
  /\ copied = {}
cred_init ==
  /\ cred = [p \in FdProc |-> [uid |-> 0, euid |-> 0, umask |-> 0, root |-> "/", mm |-> "none", brk |-> 0]]
  /\ hostname = "kenux" /\ cwd = "/"

first(T, ok(_)) == {i \in T : ok(i) /\ \A j \in T : j < i => ~ok(j)}
kapi_fd_alloc(p) == LET ok(fd) == fdt[p][fd].type = "NONE" IN first(Fds, ok)
kapi_fd_check(p, fd) == fd \in Fds /\ fdt[p][fd].type # "NONE"
file_slot == LET ok(s) == file_table[s].valid = 0 IN first(FileSlots, ok)
dir_slot  == LET ok(s) == dir_table[s].valid = 0 IN first(FileSlots, ok)
entry(type, obj, flags) == [type |-> type, obj |-> obj, flags |-> flags]

-----------------------------------------------------------------------------
(* vfs_open hands out the next index and never reuses one. *)
vfs_open(n) ==
  /\ node[n].mem = "live" /\ Len(open_files) < FS_MAX_OPEN_FDS
  /\ open_files' = Append(open_files, [node |-> n, offset |-> 0])
  /\ node' = [node EXCEPT ![n].nlink = @ + 1]

sys_open_file(p, n) ==
  /\ vfs_open(n)
  /\ \E s \in file_slot, fd \in kapi_fd_alloc(p) :
       /\ file_table' = [file_table EXCEPT ![s] = [valid |-> 1, fd |-> Len(open_files) + 1]]
       /\ fdt' = [fdt EXCEPT ![p][fd] = entry("FILE", s, "0")]
  /\ UNCHANGED <<dir_table, pipes, copied>> /\ UNCHANGED credVars

(* Without a free descriptor kapi_close takes the open back, and the index
   of open_files is gone for good. *)
sys_open_full(p, n) ==
  /\ node[n].mem = "live" /\ Len(open_files) < FS_MAX_OPEN_FDS
  /\ file_slot # {} /\ kapi_fd_alloc(p) = {}
  /\ open_files' = Append(open_files, [node |-> NoNode, offset |-> 0])
  /\ UNCHANGED <<fdt, file_table, dir_table, node, pipes, copied>> /\ UNCHANGED credVars

sys_open_dir(p) ==
  /\ \E s \in dir_slot, fd \in kapi_fd_alloc(p) :
       /\ dir_table' = [dir_table EXCEPT ![s] = [valid |-> 1, index |-> 0]]
       /\ fdt' = [fdt EXCEPT ![p][fd] = entry("DIR", s, "0")]
  /\ UNCHANGED <<file_table, open_files, node, pipes, copied>> /\ UNCHANGED credVars

(* Mutant: the node is not told that an open file of it is gone. *)
kapi_close_keeps_link(s) ==
  IF file_table[s].valid = 0 THEN UNCHANGED <<file_table, open_files, node>>
  ELSE /\ file_table' = [file_table EXCEPT ![s] = [valid |-> 0, fd |-> 0]]
       /\ open_files' = [open_files EXCEPT ![file_table[s].fd] = [node |-> NoNode, offset |-> 0]]
       /\ UNCHANGED node

(* kapi_close and vfs_close; an invalid slot changes nothing. *)
kapi_close(s) ==
  LET i == file_table[s].fd
      n == open_files[i].node
  IN  IF file_table[s].valid = 0 THEN UNCHANGED <<file_table, open_files, node>>
      ELSE /\ file_table' = [file_table EXCEPT ![s] = [valid |-> 0, fd |-> 0]]
           /\ open_files' = [open_files EXCEPT ![i] = [node |-> NoNode, offset |-> 0]]
           /\ node' = IF n = NoNode \/ node[n].mem = "freed" THEN node
                      ELSE [node EXCEPT ![n].nlink = IF @ > 0 THEN @ - 1 ELSE 0]

(* fifo_close_reader or fifo_close_writer by the flags; RDWR closes neither. *)
drop_pipe(i, flags) ==
  IF flags \in {"RDONLY", "WRONLY"} /\ ~pipes[i].freed
  THEN [pipes EXCEPT ![i] = [refs |-> @.refs - 1, freed |-> @.refs = 1]] ELSE pipes

(* What closing the object of e does; a socket is only forgotten. *)
released(e) ==
  /\ IF e.type = "FILE" THEN kapi_close(e.obj) ELSE UNCHANGED <<file_table, open_files, node>>
  /\ dir_table' = IF e.type = "DIR" THEN [dir_table EXCEPT ![e.obj].valid = 0] ELSE dir_table
  /\ pipes' = IF e.type = "PIPE" THEN drop_pipe(e.obj, e.flags) ELSE pipes

sys_close(p, fd) ==
  /\ kapi_fd_check(p, fd)
  /\ released(fdt[p][fd])
  /\ fdt' = [fdt EXCEPT ![p][fd] = closed_fd]
  /\ UNCHANGED <<copied>> /\ UNCHANGED credVars

-----------------------------------------------------------------------------
on_file(p, fd) == /\ kapi_fd_check(p, fd)
                  /\ fdt[p][fd].type = "FILE" /\ file_table[fdt[p][fd].obj].valid = 1

(* tmpfs_read: up to the end of the file; a freed node yields any count. *)
tmpfs_read(i, k) ==
  LET n == open_files[i].node
      off == open_files[i].offset
  IN  IF node[n].mem = "freed" THEN {0, k}
      ELSE {IF off >= node[n].size THEN 0 ELSE IF off + k > node[n].size THEN node[n].size - off ELSE k}

sys_read(p, fd, k) ==
  LET i == file_table[fdt[p][fd].obj].fd
  IN  /\ on_file(p, fd) /\ fd >= StdFds /\ open_files[i].node # NoNode
      /\ \E got \in tmpfs_read(i, k) : open_files' = [open_files EXCEPT ![i].offset = @ + got]
      /\ open_files'[i].offset <= MaxOffset
      /\ UNCHANGED <<fdt, file_table, dir_table, node, pipes, copied>> /\ UNCHANGED credVars

grown(cap, need) ==
  LET start == IF cap = 0 THEN TMPFS_BLOCK_SIZE ELSE 2 * cap
  IN  IF need <= cap THEN cap
      ELSE CHOOSE c \in {start * 2 ^ j : j \in 0 .. need} :
             c >= need /\ \A j \in 0 .. need : start * 2 ^ j >= need => c <= start * 2 ^ j

tmpfs_write(n, need) ==
  [node EXCEPT ![n].capacity = grown(@, need), ![n].size = IF need > @ THEN need ELSE @]

sys_write(p, fd, k) ==
  LET i == file_table[fdt[p][fd].obj].fd
      n == open_files[i].node
      need == open_files[i].offset + k
  IN  /\ on_file(p, fd) /\ fd \notin 1 .. StdFds - 1 /\ n # NoNode /\ need <= MaxOffset
      /\ node' = IF node[n].mem = "freed" THEN node ELSE tmpfs_write(n, need)
      /\ open_files' = [open_files EXCEPT ![i].offset = need]
      /\ UNCHANGED <<fdt, file_table, dir_table, pipes, copied>> /\ UNCHANGED credVars

(* whence is ignored. *)
sys_lseek(p, fd, off) ==
  /\ on_file(p, fd) /\ fd >= StdFds /\ open_files[file_table[fdt[p][fd].obj].fd].node # NoNode
  /\ open_files' = [open_files EXCEPT ![file_table[fdt[p][fd].obj].fd].offset = off]
  /\ UNCHANGED <<fdt, file_table, dir_table, node, pipes, copied>> /\ UNCHANGED credVars

sys_getdents64(p, fd) ==
  /\ kapi_fd_check(p, fd) /\ fdt[p][fd].type = "DIR"
  /\ dir_table[fdt[p][fd].obj].valid = 1 /\ dir_table[fdt[p][fd].obj].index < Cardinality(Node)
  /\ dir_table' = [dir_table EXCEPT ![fdt[p][fd].obj].index = @ + 1]
  /\ UNCHANGED <<fdt, file_table, open_files, node, pipes, copied>> /\ UNCHANGED credVars

(* tmpfs_unlink frees the node whoever has it open. *)
sys_unlink(n) ==
  /\ node[n].mem = "live"
  /\ node' = [node EXCEPT ![n] = [mem |-> "freed", size |-> 0, capacity |-> 0, nlink |-> 0]]
  /\ UNCHANGED <<fdt, file_table, dir_table, open_files, pipes, copied>> /\ UNCHANGED credVars

-----------------------------------------------------------------------------
sharing(E) == copied' = copied \cup {e.obj : e \in {x \in E : x.type = "FILE"}}

sys_dup(p, old) ==
  /\ kapi_fd_check(p, old)
  /\ \E fd \in kapi_fd_alloc(p) : fdt' = [fdt EXCEPT ![p][fd] = fdt[p][old]]
  /\ sharing({fdt[p][old]})
  /\ UNCHANGED <<file_table, dir_table, open_files, node, pipes>> /\ UNCHANGED credVars

sys_dup2(p, old, new) ==
  /\ old # new /\ kapi_fd_check(p, old) /\ new \in Fds
  /\ IF fdt[p][new].type = "NONE" THEN UNCHANGED <<file_table, dir_table, open_files, node, pipes>>
     ELSE released(fdt[p][new])
  /\ fdt' = [fdt EXCEPT ![p][new] = fdt[p][old]]
  /\ sharing({fdt[p][old]}) /\ UNCHANGED credVars

(* F_SETFL; F_DUPFD is sys_dup.  Only the flags of a pipe are used again. *)
sys_fcntl(p, fd, flags) ==
  /\ kapi_fd_check(p, fd) /\ fdt[p][fd].type = "PIPE"
  /\ fdt' = [fdt EXCEPT ![p][fd].flags = flags]
  /\ UNCHANGED <<file_table, dir_table, open_files, node, pipes, copied>> /\ UNCHANGED credVars

(* The two calls of kapi_fd_alloc return the same slot, since the first one
   reserves nothing: the write end overwrites the read end. *)
sys_pipe(p) ==
  /\ Len(pipes) < MaxPipes
  /\ \E fd \in kapi_fd_alloc(p) : fdt' = [fdt EXCEPT ![p][fd] = entry("PIPE", Len(pipes) + 1, "WRONLY")]
  /\ pipes' = Append(pipes, [refs |-> 2, freed |-> FALSE])
  /\ UNCHANGED <<file_table, dir_table, open_files, node, copied>> /\ UNCHANGED credVars

sys_socket(p) ==
  /\ \E fd \in kapi_fd_alloc(p) : fdt' = [fdt EXCEPT ![p][fd] = entry("SOCKET", 0, "0")]
  /\ UNCHANGED <<file_table, dir_table, open_files, node, pipes, copied>> /\ UNCHANGED credVars

(* fork, vfork and clone: the table and the credentials of the child's index
   are overwritten, whatever it still held. *)
sys_fork(p, c, vm) ==
  /\ c # p
  /\ fdt' = [fdt EXCEPT ![c] = fdt[p]]
  /\ sharing({fdt[p][fd] : fd \in Fds})
  /\ cred' = [cred EXCEPT ![c] = [cred[p] EXCEPT !.root = cred[c].root,
                                    !.mm = IF vm THEN cred[p].mm ELSE "own"]]
  /\ UNCHANGED <<file_table, dir_table, open_files, node, pipes, hostname, cwd>>

FdNext ==
  \/ \E n \in Node : sys_unlink(n)
  \/ \E p \in FdProc :
       \/ \E n \in Node : sys_open_file(p, n) \/ sys_open_full(p, n)
       \/ p \notin Child /\ (sys_open_dir(p) \/ sys_pipe(p) \/ sys_socket(p))
       \/ \E c \in Child : sys_fork(p, c, FALSE)
       \/ \E fd \in Fds :
            \/ sys_close(p, fd) \/ sys_getdents64(p, fd)
            \/ p \notin Child /\ (sys_dup(p, fd) \/ \E new \in Fds : sys_dup2(p, fd, new))
            \/ \E flags \in NewFlags : sys_fcntl(p, fd, flags)
            \/ \E k \in ReadSize : sys_read(p, fd, k)
            \/ \E k \in WriteSize : sys_write(p, fd, k)
            \/ \E off \in SeekTo : sys_lseek(p, fd, off)

-----------------------------------------------------------------------------
(* Credentials and per-process names. *)
(* Mutant: the test of the effective uid is left out. *)
may_set_any(p, u) == TRUE
may_set(p, u) == cred[p].euid = 0 \/ u = cred[p].uid

sys_setuid(p, u) ==
  /\ may_set(p, u)
  /\ cred' = [cred EXCEPT ![p].uid = u, ![p].euid = u]
  /\ UNCHANGED fdVars /\ UNCHANGED <<hostname, cwd>>

sys_umask(p, mask) ==
  /\ cred' = [cred EXCEPT ![p].umask = mask % 512]
  /\ UNCHANGED fdVars /\ UNCHANGED <<hostname, cwd>>

sys_chroot(p, name) ==
  /\ cred' = [cred EXCEPT ![p].root = name]
  /\ UNCHANGED fdVars /\ UNCHANGED <<hostname, cwd>>

sys_chdir(name) == cwd' = name /\ UNCHANGED fdVars /\ UNCHANGED <<cred, hostname>>

sys_sethostname(p, name) ==
  /\ cred[p].euid = 0
  /\ hostname' = name /\ UNCHANGED fdVars /\ UNCHANGED <<cred, cwd>>

(* mmap_do_mmap may fail; mmap_do_munmap's result is ignored (Mmap). *)
sys_brk(p, new, mapped) ==
  /\ new > 0
  /\ cred' = [cred EXCEPT ![p].mm = IF @ = "none" THEN "own" ELSE @,
                          ![p].brk = IF new > @ /\ ~mapped THEN @ ELSE new]
  /\ UNCHANGED fdVars /\ UNCHANGED <<hostname, cwd>>

CredNext ==
  \/ \E name \in FdName : sys_chdir(name)
  \/ \E p \in FdProc :
       \/ \E u \in Uid : sys_setuid(p, u)
       \/ \E mask \in {0, 18} : sys_umask(p, mask)
       \/ \E name \in FdName : sys_chroot(p, name) \/ sys_sethostname(p, name)
       \/ \E new \in 1 .. 2, mapped \in BOOLEAN : sys_brk(p, new, mapped)
       \/ \E c \in Child, vm \in BOOLEAN : sys_fork(p, c, vm)

FilesSpec == fs_init /\ cred_init /\ [][FdNext \/ CredNext]_<<fdVars, credVars>>

-----------------------------------------------------------------------------
(* Every variable has the type of the C object it stands for. *)
FdTypeOK ==
  /\ \A p \in FdProc, fd \in Fds :
       /\ fdt[p][fd].type \in {"NONE", "FILE", "PIPE", "SOCKET", "DIR"}
       /\ fdt[p][fd].type \in {"FILE", "DIR"} => fdt[p][fd].obj \in FileSlots
       /\ fdt[p][fd].type = "PIPE" => fdt[p][fd].obj \in DOMAIN pipes
  /\ \A s \in FileSlots : file_table[s].valid = 1 => file_table[s].fd \in DOMAIN open_files
  /\ \A n \in Node : node[n].nlink \in 0 .. FS_MAX_OPEN_FDS
  /\ \A p \in FdProc : cred[p].uid \in Uid /\ cred[p].euid \in Uid /\ cred[p].umask \in 0 .. 511

(***************************************************************************)
(* sys_open, sys_close and the tables below them: a file table slot that   *)
(* dup or fork never copied has at most one descriptor, and none when it   *)
(* is free; every node knows how many open files it has, and tmpfs_write   *)
(* never stores past the block it allocated.                               *)
(***************************************************************************)
FdOwnership ==
  /\ \A s \in FileSlots \ copied :
       Cardinality({x \in FdProc \X Fds : fdt[x[1]][x[2]].type = "FILE" /\ fdt[x[1]][x[2]].obj = s})
         <= file_table[s].valid
  /\ \A n \in Node : node[n].mem = "live" =>
       /\ node[n].nlink = Cardinality({i \in DOMAIN open_files : open_files[i].node = n})
       /\ node[n].size <= node[n].capacity

(***************************************************************************)
(* sys_setuid ("a process that is not root can only set its own uid", in   *)
(* the words of its comment) and sys_fork: a process that is not root gets *)
(* the effective uid 0 only when a fork by a root process takes its slot.  *)
(***************************************************************************)
CredsDropOnly ==
  [][\A p \in FdProc : cred[p].euid # 0 /\ cred'[p].euid = 0 =>
       \E q \in FdProc : cred[q].euid = 0 /\ fdt'[p] = fdt[q] /\ cred'[p].brk = cred[q].brk]_credVars
=============================================================================
