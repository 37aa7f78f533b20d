------------------------------- MODULE MCIpc -------------------------------
(***************************************************************************)
(* What processes and hosts say to one another, for model checking: the    *)
(* four mechanisms of kernel/ipc.c, TCP and the rest of the network.  They *)
(* share no state but dns and udp, so a behaviour uses one of them, named  *)
(* by kind, and the others stay where they started.                        *)
(***************************************************************************)
EXTENDS MsgQueue, SemSet, ShmSegment, IpcRing, Tcp, NetStack

CONSTANTS kenux, remote   \* the host of Tcp and one that is elsewhere

VARIABLE kind

MCStray ==
  LET addressed(flags, len) ==
        [from : {<<remote, 1>>, <<remote, 2>>}, to : {<<kenux, 1>>, <<kenux, EphemeralBase>>},
         seq : {0}, ack : {1}, flags : flags, len : len]
  IN  addressed({{"SYN"}, {"ACK"}, {"SYN", "ACK"}, {"FIN", "ACK"}}, {0}) \cup addressed({{"ACK", "PSH"}}, {2})

MCNeighbour == {{1}, {1, 2}}
MCAnswer ==
  LET rr(t, ip) == [type |-> t, ip |-> ip, ttl |-> 0]
  IN  {[rcode |-> 0, records |-> <<rr("CNAME", 9), rr("A", 1)>>], [rcode |-> 3, records |-> <<>>]}
MCLeased == {{1}, {2}}
MCPrefix == {{}, {1}, {1, 2}}

op(num, by, nowait) == [sem_num |-> num, sem_op |-> by, nowait |-> nowait]

(* Two semaphores taken in either order, given back, a large step, an attempt, a bad number. *)
MCOpLists ==
  { <<op(0, -1, FALSE), op(1, -1, FALSE)>>,
    <<op(1, -1, FALSE), op(0, -1, FALSE)>>,
    <<op(0, 1, FALSE), op(1, 1, FALSE)>>,
    <<op(0, 1, FALSE), op(1, -1, TRUE)>>,
    <<op(0, 3, FALSE)>> }

ipcVars == <<kind, msgVars, semVars, shmVars, ringVars, tcpVars,
             linkVars, udpVars, dnsVars, routeVars, vlanVars, congVars>>

IpcInit ==
  /\ kind \in {"msg", "sem", "shm", "ring", "tcp", "link", "udp", "dns", "route", "vlan", "cong"}
  /\ msg_init /\ sem_init /\ shm_init /\ ipc_init
  /\ net_init /\ link_init /\ udp_init /\ dns_init /\ route_init /\ vlan_init /\ tcp_cong_init

IpcNext ==
  /\ UNCHANGED kind
  /\ IF kind = "msg" THEN MsgNext ELSE UNCHANGED msgVars
  /\ IF kind = "sem" THEN SemNext ELSE UNCHANGED semVars
  /\ IF kind = "shm" THEN ShmNext ELSE UNCHANGED shmVars
  /\ IF kind = "ring" THEN RingNext ELSE UNCHANGED ringVars
  /\ IF kind = "tcp" THEN TcpNext ELSE UNCHANGED tcpVars
  /\ IF kind = "link" THEN LinkNext ELSE UNCHANGED linkVars
  /\ IF kind = "udp" THEN UdpNext /\ UNCHANGED dnsVars
     ELSE IF kind = "dns" THEN DnsNext ELSE UNCHANGED <<udpVars, dnsVars>>
  /\ IF kind = "route" THEN RouteNext ELSE UNCHANGED routeVars
  /\ IF kind = "vlan" THEN VlanNext ELSE UNCHANGED vlanVars
  /\ IF kind = "cong" THEN CongNext ELSE UNCHANGED congVars

IpcSpec == IpcInit /\ [][IpcNext]_ipcVars

(* Every variable has the type of the C object it stands for. *)
IpcTypeOK ==
  /\ MsgTypeOK /\ SemTypeOK /\ ShmTypeOK /\ RingTypeOK
  /\ kind = "tcp" => TcpTypeOK
  /\ kind \in {"link", "udp", "dns", "route", "vlan", "cong"} => NetStackTypeOK

(* What arrives reaches whom it is for.  The bytes of a TCP slot came from *)
(* the peer it names, and a socket that connects stays in SYN_SENT         *)
(* (TcpPeers); the interface has an address a server acknowledged          *)
(* (DhcpBooks) and a packet goes to the hardware address cached for its    *)
(* next hop (ArpBooks); datagram slots are never given back (UdpBooks); an *)
(* address resolved is one a server gave for the name (DnsBooks); a lookup *)
(* takes the longest prefix (RouteBooks), no two VLAN devices are one      *)
(* (VlanBooks), and a congestion window falls on an acknowledgement only   *)
(* by wrapping (CongBooks).                                                *)
NetworkBooks ==
  /\ kind = "tcp" => TcpPeers
  /\ kind = "link" => DhcpBooks /\ ArpBooks
  /\ kind = "udp" => UdpBooks
  /\ kind = "dns" => UdpBooks /\ DnsBooks
  /\ kind = "route" => RouteBooks
  /\ kind = "vlan" => VlanBooks
  /\ kind = "cong" => CongBooks
=============================================================================
