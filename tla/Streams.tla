------------------------------- MODULE Streams -------------------------------
(***************************************************************************)
(* Byte streams between processes: the pipes of kernel/fifo.c and the Unix *)
(* domain sockets of kernel/unixsock.c, over the ring of bytes that both   *)
(* keep.                                                                   *)
(***************************************************************************)
EXTENDS Integers, Sequences, FiniteSets

(***************************************************************************)
(* The byte ring under FIFOs and Unix sockets: ring_write and ring_read of *)
(* kernel/unixsock.c, which fifo_write and fifo_read of kernel/fifo.c      *)
(* repeat in line.  A position runs up to and including the size: it is    *)
(* brought back to 0 by the copy after the one that ended at the size.     *)
(***************************************************************************)
least(a, b) == IF a < b THEN a ELSE b

ring_init(size) == [buf |-> [i \in 0 .. size - 1 |-> 0], rpos |-> 0, wpos |-> 0, bytes |-> 0]

room(size, r) == size - r.bytes

(* Where n bytes from pos on end: the wrap is taken only past the size. *)
advance(size, pos, n) == IF size - pos >= n THEN pos + n ELSE n - (size - pos)

(* Mutant: a wrapped second chunk is copied to where the first one began. *)
write_without_wrap(size, r, data) ==
  LET n == least(Len(data), room(size, r))
  IN  [buf   |-> [i \in 0 .. size - 1 |->
                    IF i - r.wpos \in 0 .. n - 1 THEN data[i - r.wpos + 1] ELSE r.buf[i]],
       rpos  |-> r.rpos,
       wpos  |-> advance(size, r.wpos, n),
       bytes |-> r.bytes + n]

(* The ring after as much of data as there is room for. *)
ring_write(size, r, data) ==
  LET n     == least(Len(data), room(size, r))
      first == least(n, size - r.wpos)
  IN  [buf   |-> [i \in 0 .. size - 1 |->
                    IF i - r.wpos \in 0 .. first - 1 THEN data[i - r.wpos + 1]
                    ELSE IF i < n - first THEN data[first + i + 1]
                    ELSE r.buf[i]],
       rpos  |-> r.rpos,
       wpos  |-> advance(size, r.wpos, n),
       bytes |-> r.bytes + n]

(* Where a byte lies that is pos bytes from the start of the buffer. *)
place(size, pos) == IF pos < size THEN pos ELSE pos - size

(* The first n bytes, n at most r.bytes, and the ring without them. *)
ring_data(size, r, n) == [j \in 1 .. n |-> r.buf[place(size, r.rpos + j - 1)]]

ring_read(size, r, n) ==
  [buf |-> r.buf, rpos |-> advance(size, r.rpos, n), wpos |-> r.wpos, bytes |-> r.bytes - n]

(* What is in the ring, oldest first. *)
ring_contents(size, r) == ring_data(size, r, r.bytes)

-----------------------------------------------------------------------------
(***************************************************************************)
(* The pipes of kernel/fifo.c.  A step runs from where a process got the   *)
(* CPU to wait_queue_wait or to its return.  The wake-ups find only READY  *)
(* processes (Sync_proofs, NoBlockedProcess), so they change nothing       *)
(* and the wait queues are left out; every waiter looks again at its next  *)
(* turn.  An end is closed once, when no process is in a call on it, and   *)
(* not used afterwards.  Bytes are numbered in the order they are offered. *)
(***************************************************************************)
CONSTANTS
  FIFO_PIPE_SIZE,
  FifoReader, FifoWriter,   \* the processes at the two ends
  FifoChunk,                \* bound: bytes of one call
  MaxFifoBytes              \* bound: bytes offered

ASSUME FifoAssumption ==
  /\ FIFO_PIPE_SIZE \in Nat \ {0} /\ FifoChunk \in Nat \ {0}
  /\ MaxFifoBytes \in Nat /\ FifoReader \cap FifoWriter = {}

VARIABLES
  pipe,             \* data, read_pos, write_pos, bytes
  fifo_flags,       \* subset of {"READER_CLOSED", "WRITER_CLOSED"}
  ref_count,
  pipe_freed,
  fifo_want,        \* per reader: bytes its fifo_read still wants, 0 outside
  fifo_rest,        \* per writer: what its fifo_write has not stored, empty outside
  offered,          \* history: bytes given to fifo_write so far
  fifo_in, fifo_out \* history: bytes in the order they entered and left the pipe

fifoVars == <<pipe, fifo_flags, ref_count, pipe_freed, fifo_want, fifo_rest,
              offered, fifo_in, fifo_out>>

fifo_create ==
  /\ pipe = ring_init(FIFO_PIPE_SIZE)
  /\ fifo_flags = {} /\ ref_count = 2 /\ pipe_freed = FALSE
  /\ fifo_want = [p \in FifoReader |-> 0]
  /\ fifo_rest = [p \in FifoWriter |-> << >>]
  /\ offered = 0 /\ fifo_in = << >> /\ fifo_out = << >>

(* The loop of fifo_read: take what there is, then return or wait for more. *)
read_loop(p, want) ==
  LET n == least(want, pipe.bytes)
  IN  /\ pipe' = ring_read(FIFO_PIPE_SIZE, pipe, n)
      /\ fifo_out' = fifo_out \o ring_data(FIFO_PIPE_SIZE, pipe, n)
      /\ fifo_want' = [fifo_want EXCEPT ![p] =
                         IF n = want \/ "WRITER_CLOSED" \in fifo_flags THEN 0 ELSE want - n]
      /\ UNCHANGED <<fifo_flags, ref_count, pipe_freed, fifo_rest, offered, fifo_in>>

fifo_read(p, count) ==
  /\ "READER_CLOSED" \notin fifo_flags /\ fifo_want[p] = 0
  /\ read_loop(p, count)

fifo_read_resume(p) == fifo_want[p] > 0 /\ read_loop(p, fifo_want[p])

(* The loop of fifo_write: fill the room there is, then return or wait. *)
write_loop(p, rest) ==
  LET n == IF "READER_CLOSED" \in fifo_flags THEN 0
           ELSE least(Len(rest), room(FIFO_PIPE_SIZE, pipe))
  IN  /\ pipe' = ring_write(FIFO_PIPE_SIZE, pipe, SubSeq(rest, 1, n))
      /\ fifo_in' = fifo_in \o SubSeq(rest, 1, n)
      /\ fifo_rest' = [fifo_rest EXCEPT ![p] =
                         IF "READER_CLOSED" \in fifo_flags THEN << >>
                         ELSE SubSeq(rest, n + 1, Len(rest))]
      /\ UNCHANGED <<fifo_flags, ref_count, pipe_freed, fifo_want, fifo_out>>

fifo_write(p, count) ==
  /\ "WRITER_CLOSED" \notin fifo_flags /\ fifo_rest[p] = << >>
  /\ offered + count <= MaxFifoBytes
  /\ offered' = offered + count
  /\ write_loop(p, [i \in 1 .. count |-> offered + i])

fifo_write_resume(p) ==
  fifo_rest[p] # << >> /\ write_loop(p, fifo_rest[p]) /\ UNCHANGED offered

(* fifo_close_reader, fifo_close_writer and fifo_destroy. *)
fifo_close(flag) ==
  /\ fifo_flags' = fifo_flags \cup {flag}
  /\ ref_count' = ref_count - 1
  /\ pipe_freed' = (pipe_freed \/ ref_count = 1)
  /\ UNCHANGED <<pipe, fifo_want, fifo_rest, offered, fifo_in, fifo_out>>

fifo_close_reader ==
  /\ "READER_CLOSED" \notin fifo_flags /\ \A p \in FifoReader : fifo_want[p] = 0
  /\ fifo_close("READER_CLOSED")

fifo_close_writer ==
  /\ "WRITER_CLOSED" \notin fifo_flags /\ \A p \in FifoWriter : fifo_rest[p] = << >>
  /\ fifo_close("WRITER_CLOSED")

FifoNext ==
  \/ \E p \in FifoReader, n \in 1 .. FifoChunk : fifo_read(p, n)
  \/ \E p \in FifoReader : fifo_read_resume(p)
  \/ \E p \in FifoWriter, n \in 1 .. FifoChunk : fifo_write(p, n)
  \/ \E p \in FifoWriter : fifo_write_resume(p)
  \/ fifo_close_reader
  \/ fifo_close_writer

FifoSpec == fifo_create /\ [][FifoNext]_fifoVars

-----------------------------------------------------------------------------
(* Every variable has the type of the C object it stands for. *)
FifoTypeOK ==
  /\ pipe.rpos \in 0 .. FIFO_PIPE_SIZE /\ pipe.wpos \in 0 .. FIFO_PIPE_SIZE
  /\ pipe.bytes \in 0 .. FIFO_PIPE_SIZE
  /\ fifo_flags \subseteq {"READER_CLOSED", "WRITER_CLOSED"}
  /\ ref_count \in 0 .. 2 /\ pipe_freed \in BOOLEAN
  /\ fifo_want \in [FifoReader -> Nat]
  /\ fifo_rest \in [FifoWriter -> Seq(Nat)]

(***************************************************************************)
(* The pipe neither loses, repeats nor reorders a byte across the wrap of  *)
(* its two positions: what has been read, followed by what is in the ring, *)
(* is what was stored (fifo_read and fifo_write).  And nobody is left in a *)
(* call on memory that was freed.                                          *)
(***************************************************************************)
FifoOrder ==
  /\ fifo_out \o ring_contents(FIFO_PIPE_SIZE, pipe) = fifo_in
  /\ pipe_freed => /\ \A p \in FifoReader : fifo_want[p] = 0
                   /\ \A p \in FifoWriter : fifo_rest[p] = << >>
                   /\ fifo_flags = {"READER_CLOSED", "WRITER_CLOSED"}

-----------------------------------------------------------------------------
(***************************************************************************)
(* Unix domain sockets: kernel/unixsock.c.  As for pipes, a step runs from *)
(* where a process got the CPU to wait_queue_wait or to its return, and    *)
(* the wake-ups, which find READY processes only, are left out.            *)
(*                                                                         *)
(* unix_socket_close sets sock->peer to NULL before it unlocks             *)
(* sock->peer->lock, so the peer's lock stays taken: lock is 1 from then   *)
(* on and the next process to ask for it spins for ever (usk_hung).        *)
(*                                                                         *)
(* A process closes a socket once, when no other process is in a call on   *)
(* it.  Bytes are numbered per receiving socket in the order they arrive.  *)
(***************************************************************************)
CONSTANTS
  Sock,                    \* unix_sock_t objects, numbered in the order of allocation
  UskProc,                 \* processes
  Acceptor, Connector, Sender, Receiver,   \* bound: the ones that make each call
  Path,                    \* bind paths
  NoSock, NoPath,
  UNIX_SOCK_MAX, UNIX_SOCK_RECV_BUF, UNIX_SOCK_BACKLOG_MAX,
  UskTypes,                \* the socket types used
  ShutHow, Shutter,        \* bound: the flag sets passed to shutdown, its sockets
  MaxUskBytes,             \* bound: bytes sent
  MaxUskRefs,              \* bound: references on one socket (leaked ones accumulate)
  UskSend, UskRecv         \* bound: sizes of one call

ASSUME UskAssumption ==
  /\ UNIX_SOCK_RECV_BUF \in Nat \ {0}
  /\ UskSend \subseteq Nat /\ UskRecv \subseteq Nat
  /\ NoSock \notin Sock /\ Shutter \subseteq Sock

VARIABLES
  sk,             \* per socket: the fields of unix_sock_t, mem and the history counts
  usk_call,       \* per process: the waiting loop it was switched out in
  usk_hung        \* a process spins on a lock that is never released

uskVars == <<sk, usk_call, usk_hung>>

unallocated ==
  [mem |-> "none", open |-> FALSE, reg |-> FALSE, type |-> "STREAM", state |-> "UNCONNECTED",
   path |-> NoPath, peer |-> NoSock, ring |-> ring_init(UNIX_SOCK_RECV_BUF),
   refs |-> 0, pending |-> << >>, backlog |-> 0, flags |-> {}, lock |-> 0,
   in |-> 0, out |-> 0, quit |-> FALSE]

NoUskCall == [op |-> "none", s |-> NoSock, other |-> NoSock, n |-> 0]

usk_init ==
  /\ sk = [s \in Sock |-> unallocated]
  /\ usk_call = [p \in UskProc |-> NoUskCall]
  /\ usk_hung = FALSE

(* spin_lock on the sockets of S, then the rest of the call. *)
locking(S, A) ==
  IF \E s \in S : sk[s].lock = 1
  THEN usk_hung' = TRUE /\ UNCHANGED <<sk, usk_call>>
  ELSE A /\ UNCHANGED usk_hung

idle(p)  == usk_call[p] = NoUskCall
usable(s) == sk[s].open
returning(p) == usk_call' = [usk_call EXCEPT ![p] = NoUskCall]
suspended(p, op, s, other, n) ==
  usk_call' = [usk_call EXCEPT ![p] = [op |-> op, s |-> s, other |-> other, n |-> n]]

find_bound_socket(path) == {s \in Sock : sk[s].reg /\ sk[s].path = path}
fresh(s) == sk[s].mem = "none" /\ \A t \in Sock : t < s => sk[t].mem # "none"
register_socket == Cardinality({s \in Sock : sk[s].reg}) < UNIX_SOCK_MAX

created(s, type) ==
  [unallocated EXCEPT !.mem = "live", !.open = TRUE, !.reg = TRUE, !.type = type, !.refs = 1]

unix_socket_create(s, type) ==
  /\ fresh(s) /\ register_socket
  /\ sk' = [sk EXCEPT ![s] = created(s, type)]
  /\ UNCHANGED <<usk_call, usk_hung>>

unix_socket_bind(s, path) ==
  /\ usable(s) /\ sk[s].path = NoPath /\ find_bound_socket(path) = {}
  /\ sk' = [sk EXCEPT ![s].path = path]
  /\ UNCHANGED <<usk_call, usk_hung>>

(* A second listen forgets the clients that wait. *)
unix_socket_listen(s, backlog) ==
  /\ usable(s) /\ sk[s].type = "STREAM" /\ sk[s].path # NoPath
  /\ locking({s}, /\ sk' = [sk EXCEPT ![s].backlog = backlog, ![s].pending = << >>,
                                      ![s].state = "LISTENING"]
                  /\ UNCHANGED usk_call)

-----------------------------------------------------------------------------
(* Mutant: accept takes no reference on the two sockets it joins. *)
joined_uncounted(tab, new, client) ==
  [tab EXCEPT ![new] = [created(new, "STREAM") EXCEPT !.peer = client, !.state = "CONNECTED"],
              ![client].peer = new, ![client].state = "CONNECTED"]

joined(tab, new, client) ==
  [tab EXCEPT ![new] = [created(new, "STREAM") EXCEPT !.peer = client, !.state = "CONNECTED",
                                                      !.refs = 2],
              ![client].peer = new, ![client].state = "CONNECTED", ![client].refs = @ + 1]

(* From the loop on; the lock of ls is released whoever holds it. *)
accept_turn(p, ls) ==
  \/ /\ sk[ls].pending = << >>
     /\ IF sk[ls].state = "CLOSED" THEN returning(p) ELSE suspended(p, "accept", ls, NoSock, 0)
     /\ sk' = [sk EXCEPT ![ls].lock = 0] /\ UNCHANGED usk_hung
  \/ /\ sk[ls].pending # << >>
     /\ LET client == Head(sk[ls].pending)
            popped == [sk EXCEPT ![ls].pending = Tail(@), ![ls].lock = 0]
        IN  \/ /\ ~register_socket                          \* no room: NULL is returned
               /\ sk' = popped /\ returning(p) /\ UNCHANGED usk_hung
            \/ /\ register_socket
               /\ \E new \in Sock :
                    /\ fresh(new)
                    /\ locking({client} \ {ls}, sk' = joined(popped, new, client) /\ returning(p))

unix_socket_accept(p, ls) ==
  /\ idle(p) /\ usable(ls)
  /\ IF sk[ls].lock = 1 THEN usk_hung' = TRUE /\ UNCHANGED <<sk, usk_call>>
     ELSE sk[ls].state = "LISTENING" /\ accept_turn(p, ls)

accept_resume(p) == usk_call[p].op = "accept" /\ accept_turn(p, usk_call[p].s)

(* A server of the other type keeps the reference that was just taken. *)
connect_mistyped(p, s, srv) ==
  /\ sk[srv].type # sk[s].type
  /\ sk' = [sk EXCEPT ![srv].refs = @ + 1] /\ UNCHANGED <<usk_call, usk_hung>>

connect_dgram(p, s, srv) ==
  /\ sk[s].type = "DGRAM" /\ sk[srv].type = "DGRAM"
  /\ locking({s}, /\ sk' = [[sk EXCEPT ![srv].refs = @ + 1]
                              EXCEPT ![s].peer = srv, ![s].state = "CONNECTED"]
                  /\ UNCHANGED usk_call)

admits(srv) == sk[srv].state = "LISTENING" /\ Len(sk[srv].pending) < sk[srv].backlog

(* Somewhere s waits to be accepted. *)
queued(s) == \E t \in Sock : \E i \in DOMAIN sk[t].pending : sk[t].pending[i] = s

connect_stream(p, s, srv) ==
  /\ sk[s].type = "STREAM" /\ sk[srv].type = "STREAM"
  /\ locking({srv} \cup (IF admits(srv) THEN {s} ELSE {}),
       /\ admits(srv)
       /\ sk' = [[sk EXCEPT ![srv].refs = @ + 1, ![srv].pending = Append(@, s)]
                   EXCEPT ![s].state = "CONNECTING", ![s].quit = @ \/ "PEER_CLOSED" \in sk[s].flags]
       /\ IF "PEER_CLOSED" \in sk[s].flags THEN returning(p) ELSE suspended(p, "connect", s, srv, 0))

unix_socket_connect(p, s, path) ==
  /\ idle(p) /\ usable(s)
  /\ \E srv \in {t \in find_bound_socket(path) : sk[t].refs < MaxUskRefs} :
       connect_mistyped(p, s, srv) \/ connect_dgram(p, s, srv) \/ connect_stream(p, s, srv)

(* Still CONNECTING: give up if the peer closed, else wait on. *)
connect_resume(p) ==
  LET s == usk_call[p].s
      srv == usk_call[p].other
  IN  /\ usk_call[p].op = "connect"
      /\ sk[s].state # "CONNECTING" \/ "PEER_CLOSED" \in sk[s].flags
      /\ sk' = [sk EXCEPT ![s].lock = 0, ![s].quit = @ \/ queued(s),
                          ![srv].refs = IF sk[s].state = "CONNECTING" THEN @ ELSE @ - 1,
                          ![srv].lock = IF srv = s THEN 0 ELSE @]
      /\ returning(p) /\ UNCHANGED usk_hung

-----------------------------------------------------------------------------
within_bound(n) ==
  Cardinality({x \in Sock \X (1 .. MaxUskBytes) : x[2] <= sk[x[1]].in}) + n <= MaxUskBytes

numbered(s, n) == [j \in 1 .. n |-> sk[s].in + j]

stored(d, n) ==
  [sk EXCEPT ![d].ring = ring_write(UNIX_SOCK_RECV_BUF, @, numbered(d, n)), ![d].in = @ + n]

(* A datagram goes in whole or not at all. *)
send_whole(d, n) ==
  locking({d}, /\ room(UNIX_SOCK_RECV_BUF, sk[d].ring) >= n
               /\ sk' = stored(d, n) /\ UNCHANGED usk_call)

(* The loop of a stream send, n bytes to go. *)
send_turn(p, s, d, n) ==
  LET k == least(n, room(UNIX_SOCK_RECV_BUF, sk[d].ring))
  IN  IF sk[d].flags \cap {"PEER_CLOSED", "SHUT_RD"} # {}
      THEN locking({d, s}, sk' = [sk EXCEPT ![s].flags = @ \cup {"PEER_CLOSED"}] /\ returning(p))
      ELSE locking({d}, /\ sk' = stored(d, k)
                        /\ IF k = n THEN returning(p) ELSE suspended(p, "send", s, d, n - k))

unix_socket_send(p, s, n) ==
  LET d == sk[s].peer
  IN  /\ idle(p) /\ usable(s) /\ d # NoSock /\ "SHUT_WR" \notin sk[s].flags
      /\ within_bound(n)
      /\ \/ sk[s].type = "STREAM" /\ send_turn(p, s, d, n)
         \/ sk[s].type = "DGRAM" /\ send_whole(d, n)

send_resume(p) ==
  usk_call[p].op = "send" /\ send_turn(p, usk_call[p].s, usk_call[p].other, usk_call[p].n)

(* The loop of unix_socket_recv and unix_socket_recvfrom; it ends by unlocking. *)
recv_turn(p, s, n) ==
  LET k == least(n, sk[s].ring.bytes)
  IN  /\ sk' = [sk EXCEPT ![s].ring = ring_read(UNIX_SOCK_RECV_BUF, @, k), ![s].out = @ + k,
                          ![s].lock = 0]
      /\ IF k > 0 \/ "PEER_CLOSED" \in sk[s].flags THEN returning(p) ELSE suspended(p, "recv", s, NoSock, n)
      /\ UNCHANGED usk_hung

(* unix_socket_recv; unix_socket_recvfrom serves datagram sockets after SHUT_RD too. *)
unix_socket_recv(p, s, n) ==
  /\ idle(p) /\ usable(s)
  /\ sk[s].type = "DGRAM" \/ "SHUT_RD" \notin sk[s].flags
  /\ IF sk[s].lock = 1 THEN usk_hung' = TRUE /\ UNCHANGED <<sk, usk_call>> ELSE recv_turn(p, s, n)

recv_resume(p) == usk_call[p].op = "recv" /\ recv_turn(p, usk_call[p].s, usk_call[p].n)

unix_socket_sendto(p, s, path, n) ==
  /\ idle(p) /\ usable(s) /\ sk[s].type = "DGRAM"
  /\ \E d \in find_bound_socket(path) :
       within_bound(n) /\ send_whole(d, n)

-----------------------------------------------------------------------------
(* The second lock of a socket that is its own peer never comes. *)
with_peer(s, A) ==
  IF sk[s].peer = s THEN usk_hung' = TRUE /\ UNCHANGED <<sk, usk_call>>
  ELSE locking({s} \cup ({sk[s].peer} \ {NoSock}), A)

unix_socket_shutdown(s, how) ==
  /\ usable(s)
  /\ with_peer(s, /\ sk' = [t \in Sock |->
                        IF t = s THEN [sk[s] EXCEPT !.flags = @ \cup how]
                        ELSE IF t = sk[s].peer THEN [sk[t] EXCEPT !.flags = @ \cup {"PEER_CLOSED"}]
                        ELSE sk[t]]
                  /\ UNCHANGED usk_call)

left_by_peer(t) ==
  [sk[t] EXCEPT !.flags = @ \cup {"PEER_CLOSED"}, !.refs = @ - 1,
                !.state = IF sk[t].refs = 1 THEN "CLOSED" ELSE @, !.lock = 1]

refused(r) == [r EXCEPT !.state = "UNCONNECTED", !.flags = @ \cup {"PEER_CLOSED"}]

closed(s) ==
  IF sk[s].refs = 1 THEN [unallocated EXCEPT !.mem = "freed", !.state = "CLOSED", !.quit = sk[s].quit]
  ELSE [sk[s] EXCEPT !.state = "CLOSED", !.peer = NoSock, !.pending = << >>, !.reg = FALSE,
                     !.open = FALSE, !.refs = @ - 1]

(* A waiting client that is the peer, or s itself, is found locked. *)
unix_socket_close(s) ==
  LET waiting == {sk[s].pending[i] : i \in DOMAIN sk[s].pending}
  IN  /\ usable(s) /\ \A p \in UskProc : usk_call[p].s # s
      /\ IF \E c \in waiting : c = s \/ c = sk[s].peer \/ sk[c].lock = 1
         THEN usk_hung' = TRUE /\ UNCHANGED <<sk, usk_call>>
         ELSE with_peer(s, /\ sk' = [t \in Sock |->
                                 IF t = s THEN closed(s)
                                 ELSE IF t = sk[s].peer THEN left_by_peer(t)
                                 ELSE IF t \in waiting THEN refused(sk[t])
                                 ELSE sk[t]]
                           /\ UNCHANGED usk_call)

UskNext ==
  /\ ~usk_hung
  /\ \/ \E s \in Sock, type \in UskTypes : unix_socket_create(s, type)
     \/ \E s \in Sock, path \in Path : unix_socket_bind(s, path)
     \/ \E s \in Sock, b \in 1 .. UNIX_SOCK_BACKLOG_MAX : unix_socket_listen(s, b)
     \/ \E s \in Shutter, how \in ShutHow : unix_socket_shutdown(s, how)
     \/ \E s \in Sock : unix_socket_close(s)
     \/ \E p \in UskProc :
          \/ accept_resume(p) \/ connect_resume(p) \/ send_resume(p) \/ recv_resume(p)
          \/ \E s \in Sock :
               \/ p \in Acceptor /\ unix_socket_accept(p, s)
               \/ \E path \in Path : p \in Connector /\ unix_socket_connect(p, s, path)
               \/ \E n \in UskRecv : p \in Receiver /\ unix_socket_recv(p, s, n)
               \/ \E n \in UskSend :
                    /\ p \in Sender
                    /\ \/ unix_socket_send(p, s, n)
                       \/ \E path \in Path : unix_socket_sendto(p, s, path, n)

UskSpec == usk_init /\ [][UskNext]_uskVars

-----------------------------------------------------------------------------
(* Every variable has the type of the C object it stands for. *)
UskTypeOK ==
  /\ \A s \in Sock :
       /\ sk[s].mem \in {"none", "live", "freed"} /\ sk[s].peer \in Sock \cup {NoSock}
       /\ sk[s].state \in {"UNCONNECTED", "LISTENING", "CONNECTED", "CONNECTING", "CLOSED"}
       /\ sk[s].refs \in Nat /\ sk[s].path \in Path \cup {NoPath}
       /\ sk[s].ring.bytes \in 0 .. UNIX_SOCK_RECV_BUF
       /\ sk[s].flags \subseteq {"SHUT_RD", "SHUT_WR", "PEER_CLOSED"}
  /\ usk_call \in [UskProc -> [op : {"none", "accept", "connect", "send", "recv"},
                              s : Sock \cup {NoSock}, other : Sock \cup {NoSock}, n : Nat]]

(***************************************************************************)
(* The reference counts of unix_socket_accept, connect and close: memory   *)
(* is given back only when no socket has it as its peer or among its       *)
(* pending clients, and no suspended call still holds the pointer.  The    *)
(* exception is a client that a connect left in a pending list (quit): it  *)
(* returned while the client was queued, for its PEER_CLOSED flag, because *)
(* another process made it listen, or because two processes connected it.  *)
(***************************************************************************)
UskMemorySafe ==
  \A f \in Sock : sk[f].mem = "freed" /\ ~sk[f].quit =>
    /\ \A s \in Sock : sk[s].mem = "live" =>
         sk[s].peer # f /\ \A i \in DOMAIN sk[s].pending : sk[s].pending[i] # f
    /\ \A p \in UskProc : usk_call[p].s # f /\ usk_call[p].other # f

(***************************************************************************)
(* A socket's ring holds exactly the bytes that arrived and have not been  *)
(* received, in order, whoever sent them (send, sendto and recv meet in    *)
(* one ring, also after a peer has closed).                                *)
(***************************************************************************)
UskOrder ==
  \A s \in Sock :
    ring_contents(UNIX_SOCK_RECV_BUF, sk[s].ring) =
      [j \in 1 .. sk[s].in - sk[s].out |-> sk[s].out + j]

-----------------------------------------------------------------------------
(* What fifo_write and unix_socket_send put in is what fifo_read and
   unix_socket_recv take out, in order, across waits, closes and wrapped
   rings. *)
StreamOrder == FifoOrder /\ UskOrder
=============================================================================
