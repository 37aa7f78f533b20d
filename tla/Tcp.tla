-------------------------------- MODULE Tcp --------------------------------
(***************************************************************************)
(* TCP of arch/x86_64/net.c.  Host are the hosts that run this stack; the  *)
(* wire carries what they send to each other, in any order.  The rest of   *)
(* the network is Stray, the segments other hosts may send at any time and *)
(* any number of times: it subsumes loss, repetition and reordering.       *)
(* Nothing is ever sent again (there are no timers).                       *)
(*                                                                         *)
(* sys_socket reserves no slot of tcp_socks: a slot is free while its      *)
(* state is CLOSED, so two sockets may share one.  tcp_find_socket takes   *)
(* the first slot that fits, a listening one included, and looks at        *)
(* SYN_RECV, ESTABLISHED and LISTEN only.  A byte is modelled by the host  *)
(* and port it came from; windows, checksums and snd_una steer nothing.    *)
(***************************************************************************)
EXTENDS Integers, Sequences, FiniteSets

CONSTANTS
  Host,
  TcpFds,              \* descriptors per host: 1 .. TcpFds
  TCP_MAX_SOCKETS,
  TCP_RX_BUF_SIZE, TCP_MSS,
  TcpPort,             \* ports passed to bind and connect, none of them 0
  EphemeralBase, EphemeralPorts,
  TcpLen,              \* bound: arguments of send and recv
  TcpServer, TcpClient,\* bound: hosts that listen, hosts that connect
  TcpPeer,             \* bound: the hosts they connect to
  Closes,              \* bound: whether sockets are shut down and closed
  Stray,               \* segments other hosts may send
  MaxSeq,              \* bound: initial sequence numbers and bytes sent per host
  MaxWire              \* bound: segments under way

VARIABLES
  sockets,       \* per host and descriptor: the slot of tcp_socks, or 0
  tcp_socks,     \* per host and slot
  tcp_next_seq,  \* per host
  wire           \* segments under way

tcpVars == <<sockets, tcp_socks, tcp_next_seq, wire>>

TcpFd   == 1 .. TcpFds
TcpSlot == 1 .. TCP_MAX_SOCKETS

(* memset of a slot. *)
blank == [state |-> "CLOSED", local_port |-> 0, remote |-> <<"", 0>>, snd_nxt |-> 0, rcv_nxt |-> 0,
          rx |-> << >>, opener |-> "nobody"]

net_init ==
  /\ sockets = [h \in Host |-> [fd \in TcpFd |-> 0]]
  /\ tcp_socks = [h \in Host |-> [i \in TcpSlot |-> blank]]
  /\ tcp_next_seq = [h \in Host |-> 0]
  /\ wire = {}

lowest(S) == CHOOSE i \in S : \A j \in S : i <= j

(* tcp_send_packet from socket s of host h: the segment, and the socket. *)
segment(h, s, flags, len) ==
  [from |-> <<h, s.local_port>>, to |-> s.remote, seq |-> s.snd_nxt, ack |-> s.rcv_nxt,
   flags |-> flags, len |-> len]
posted(segs) == {g \in segs : g.to[1] \in Host}
after_send(s, flags, len) ==
  [s EXCEPT !.snd_nxt = @ + Cardinality(flags \cap {"SYN", "FIN"}) + len]

closed_slots(h) == {i \in TcpSlot : tcp_socks[h][i].state = "CLOSED"}
free_fds(h)     == {fd \in TcpFd : sockets[h][fd] = 0}
sock(h, fd)     == tcp_socks[h][sockets[h][fd]]
in_use(h, fd)   == sockets[h][fd] # 0
put(h, fd, s)   == tcp_socks' = [tcp_socks EXCEPT ![h][sockets[h][fd]] = s]

-----------------------------------------------------------------------------
sys_socket(h) ==
  /\ free_fds(h) # {} /\ closed_slots(h) # {}
  /\ tcp_socks' = [tcp_socks EXCEPT ![h][lowest(closed_slots(h))] = blank]
  /\ sockets' = [sockets EXCEPT ![h][lowest(free_fds(h))] = lowest(closed_slots(h))]
  /\ UNCHANGED <<tcp_next_seq, wire>>

sys_bind(h, fd, port) ==
  /\ in_use(h, fd)
  /\ put(h, fd, [sock(h, fd) EXCEPT !.local_port = port])
  /\ UNCHANGED <<sockets, tcp_next_seq, wire>>

sys_listen(h, fd) ==
  /\ in_use(h, fd)
  /\ put(h, fd, [sock(h, fd) EXCEPT !.state = "LISTEN"])
  /\ UNCHANGED <<sockets, tcp_next_seq, wire>>

(* The first half open connection, whatever port it came in on, becomes
   ESTABLISHED without waiting for the last segment of the handshake. *)
sys_accept(h, fd) ==
  LET half == {i \in TcpSlot : tcp_socks[h][i].state = "SYN_RECV"}
  IN  /\ in_use(h, fd) /\ sock(h, fd).state = "LISTEN"
      /\ half # {} /\ free_fds(h) # {}
      /\ sockets' = [sockets EXCEPT ![h][lowest(free_fds(h))] = lowest(half)]
      /\ tcp_socks' = [tcp_socks EXCEPT ![h][lowest(half)].state = "ESTABLISHED"]
      /\ UNCHANGED <<tcp_next_seq, wire>>

sys_connect(h, fd, to) ==
  LET seq == tcp_next_seq[h]
      s == [sock(h, fd) EXCEPT !.remote = to, !.snd_nxt = seq, !.state = "SYN_SENT", !.opener = "here",
              !.local_port = IF @ = 0 THEN EphemeralBase + (seq % EphemeralPorts) ELSE @]
  IN  /\ in_use(h, fd)
      /\ put(h, fd, after_send(s, {"SYN"}, 0))
      /\ tcp_next_seq' = [tcp_next_seq EXCEPT ![h] = @ + 1]
      /\ wire' = wire \cup posted({segment(h, s, {"SYN"}, 0)})
      /\ UNCHANGED sockets

(* The loop of sys_send: full segments, then the rest. *)
sys_send(h, fd, n) ==
  LET s == sock(h, fd)
      chunks == (n + TCP_MSS - 1) \div TCP_MSS
      size(k) == IF k < chunks THEN TCP_MSS ELSE n - TCP_MSS * (chunks - 1)
  IN  /\ in_use(h, fd) /\ s.state = "ESTABLISHED"
      /\ wire' = wire \cup posted({segment(h, after_send(s, {}, TCP_MSS * (k - 1)), {"ACK", "PSH"}, size(k)) :
                                    k \in 1 .. chunks})
      /\ put(h, fd, after_send(s, {}, n))
      /\ UNCHANGED <<sockets, tcp_next_seq>>

sys_recv(h, fd, n) ==
  LET s == sock(h, fd)
  IN  /\ in_use(h, fd)
      /\ put(h, fd, [s EXCEPT !.rx = SubSeq(@, n + 1, Len(@))])
      /\ UNCHANGED <<sockets, tcp_next_seq, wire>>

(* sys_shutdown on socket s: the socket and the segments it adds. *)
shut(s)    == IF s.state = "ESTABLISHED" THEN after_send([s EXCEPT !.state = "FIN_WAIT1"], {"FIN"}, 0) ELSE s
fin(h, s)  == IF s.state = "ESTABLISHED" THEN {segment(h, s, {"FIN", "ACK"}, 0)} ELSE {}

sys_shutdown(h, fd) ==
  /\ in_use(h, fd)
  /\ put(h, fd, shut(sock(h, fd)))
  /\ wire' = wire \cup posted(fin(h, sock(h, fd)))
  /\ UNCHANGED <<sockets, tcp_next_seq>>

(* The slot is free at once; from CLOSE_WAIT no FIN is sent. *)
sys_close_socket(h, fd) ==
  /\ in_use(h, fd)
  /\ put(h, fd, [shut(sock(h, fd)) EXCEPT !.state = "CLOSED"])
  /\ wire' = wire \cup posted(fin(h, sock(h, fd)))
  /\ sockets' = [sockets EXCEPT ![h][fd] = 0]
  /\ UNCHANGED tcp_next_seq

-----------------------------------------------------------------------------
(* Mutant: the other states count as connections too. *)
find_any(h, port, from) ==
  {i \in TcpSlot : LET s == tcp_socks[h][i]
                   IN  /\ s.state # "CLOSED" /\ s.local_port = port
                       /\ s.state = "LISTEN" \/ s.remote = from}

(* The slots tcp_find_socket would accept; it takes the first. *)
tcp_find_socket(h, port, from) ==
  {i \in TcpSlot : LET s == tcp_socks[h][i]
                   IN  /\ s.local_port = port
                       /\ \/ s.state \in {"SYN_RECV", "ESTABLISHED"} /\ s.remote = from
                          \/ s.state = "LISTEN"}

(* What fits of the payload; the rest is acknowledged and lost. *)
stored_part(s, g) ==
  LET room == TCP_RX_BUF_SIZE - Len(s.rx)
  IN  s.rx \o [k \in 1 .. (IF g.len < room THEN g.len ELSE room) |-> g.from]

(* The switch of tcp_handle_packet but for LISTEN: the socket afterwards,
   and the flags of the answer, if any. *)
handled(s, g) ==
  LET to(st) == [s EXCEPT !.state = st]
  IN  CASE s.state = "SYN_SENT" /\ {"SYN", "ACK"} \subseteq g.flags /\ g.ack = s.snd_nxt
             -> <<[to("ESTABLISHED") EXCEPT !.rcv_nxt = g.seq + 1], {"ACK"}>>
        [] s.state = "SYN_RECV" /\ "ACK" \in g.flags -> <<to("ESTABLISHED"), {}>>
        [] s.state = "ESTABLISHED" /\ "FIN" \in g.flags
             -> <<[to("CLOSE_WAIT") EXCEPT !.rcv_nxt = g.seq + 1], {"ACK"}>>
        [] s.state = "ESTABLISHED" /\ "FIN" \notin g.flags /\ g.len > 0
             -> <<[s EXCEPT !.rx = stored_part(s, g), !.rcv_nxt = g.seq + g.len], {"ACK"}>>
        [] s.state = "CLOSE_WAIT" /\ "FIN" \in g.flags -> <<s, {"ACK"}>>
        [] s.state = "LAST_ACK" /\ "ACK" \in g.flags -> <<to("CLOSED"), {}>>
        [] OTHER -> <<s, {}>>

(* The connection that a SYN to a listening socket of h opens. *)
spawned(h, g) ==
  [blank EXCEPT !.state = "SYN_RECV", !.local_port = g.to[2], !.remote = g.from,
                !.rcv_nxt = g.seq + 1, !.snd_nxt = tcp_next_seq[h], !.opener = "there"]

(* tcp_handle_packet; rest is what stays on the wire. *)
tcp_handle_packet(g, rest) ==
  LET h == g.to[1]
      fits == tcp_find_socket(h, g.to[2], g.from)
      i == lowest(fits)
      s == tcp_socks[h][i]
      r == handled(s, g)
  IN  IF fits = {} THEN wire' = rest /\ UNCHANGED <<tcp_socks, tcp_next_seq>>
      ELSE IF s.state = "LISTEN"
      THEN IF "SYN" \in g.flags /\ closed_slots(h) # {}
           THEN /\ tcp_socks' = [tcp_socks EXCEPT ![h][lowest(closed_slots(h))] = after_send(spawned(h, g), {"SYN"}, 0)]
                /\ tcp_next_seq' = [tcp_next_seq EXCEPT ![h] = @ + 1]
                /\ wire' = rest \cup posted({segment(h, spawned(h, g), {"SYN", "ACK"}, 0)})
           ELSE wire' = rest /\ UNCHANGED <<tcp_socks, tcp_next_seq>>
      ELSE /\ tcp_socks' = [tcp_socks EXCEPT ![h][i] = r[1]]
           /\ wire' = rest \cup posted(IF r[2] = {} THEN {} ELSE {segment(h, r[1], r[2], 0)})
           /\ UNCHANGED tcp_next_seq

deliver(g) == tcp_handle_packet(g, wire \ {g}) /\ UNCHANGED sockets

within_wire ==
  /\ Cardinality(wire') <= MaxWire
  /\ \A h \in Host : tcp_next_seq'[h] <= MaxSeq /\ \A i \in TcpSlot : tcp_socks'[h][i].snd_nxt <= MaxSeq + 1

TcpNext ==
  /\ \/ \E h \in TcpServer, fd \in TcpFd :
          (\E port \in TcpPort : sys_bind(h, fd, port)) \/ sys_listen(h, fd) \/ sys_accept(h, fd)
     \/ \E h \in TcpClient, fd \in TcpFd, to \in TcpPeer \X TcpPort : sys_connect(h, fd, to)
     \/ \E h \in Host : sys_socket(h)
     \/ \E h \in Host, fd \in TcpFd, n \in TcpLen : sys_send(h, fd, n) \/ sys_recv(h, fd, n)
     \/ \E h \in Host, fd \in TcpFd : Closes /\ (sys_shutdown(h, fd) \/ sys_close_socket(h, fd))
     \/ \E g \in wire \cup Stray : deliver(g)
  /\ within_wire

(* Frames arrive: the receive interrupt of the card is not held off. *)
TcpSpec == net_init /\ [][TcpNext]_tcpVars /\ WF_tcpVars(\E g \in wire : deliver(g) /\ within_wire)
-----------------------------------------------------------------------------
TcpStates == {"CLOSED", "SYN_SENT", "SYN_RECV", "ESTABLISHED", "FIN_WAIT1", "CLOSE_WAIT", "LISTEN"}

TcpTypeOK ==
  /\ sockets \in [Host -> [TcpFd -> TcpSlot \cup {0}]]
  /\ \A h \in Host, i \in TcpSlot :
       LET s == tcp_socks[h][i]
       IN  /\ s.state \in TcpStates /\ s.snd_nxt \in Nat /\ s.rcv_nxt \in Nat
           /\ Len(s.rx) <= TCP_RX_BUF_SIZE
  /\ tcp_next_seq \in [Host -> Nat]

(* What tcp_find_socket lets through: a slot that is or was ESTABLISHED    *)
(* was opened by a SYN of the other side, a socket that connects stays in  *)
(* SYN_SENT, and the bytes to be read from a slot came from the host and   *)
(* port it names as its peer, whatever the other hosts send and however  *)
(* slots are shared and reused.                                             *)
TcpPeers ==
  \A h \in Host, i \in TcpSlot :
    LET s == tcp_socks[h][i]
    IN  /\ s.state \in {"ESTABLISHED", "FIN_WAIT1", "CLOSE_WAIT"} => s.opener = "there"
        /\ s.state = "ESTABLISHED" => \A k \in 1 .. Len(s.rx) : s.rx[k] = s.remote

(* README.md:61, "TCP state machine (three-way handshake, ...)": a socket  *)
(* that has sent its SYN and whose answer, with SYN and the ACK of that    *)
(* SYN, is on a wire that loses nothing, leaves SYN_SENT.                  *)
HandshakeCompletes ==
  \A h \in TcpClient, fd \in TcpFd :
    (/\ in_use(h, fd) /\ sock(h, fd).state = "SYN_SENT"
     /\ \E g \in wire : /\ {"SYN", "ACK"} \subseteq g.flags /\ g.ack = sock(h, fd).snd_nxt
                       /\ g.from = sock(h, fd).remote /\ g.to = <<h, sock(h, fd).local_port>>)
    ~> (in_use(h, fd) /\ sock(h, fd).state # "SYN_SENT")
=============================================================================
