------------------------------ MODULE NetStack ------------------------------
(***************************************************************************)
(* The network stack around TCP: addresses, ARP, DHCP and datagram sockets *)
(* (net.c), the resolver (dns.c), the routing tables (route.c), VLAN       *)
(* devices (vlan.c) and congestion control (tcp_cong.c).  An IPv4 address  *)
(* is the set of its one bits, so that `ip & mask' is an intersection, 0   *)
(* is {} and the broadcast address is Bit.                                 *)
(***************************************************************************)
EXTENDS Naturals, Integers, Sequences, FiniteSets, SequencesExt, FiniteSetsExt

CONSTANTS
  Bit,                   \* the bits of an address
  Neighbour, Mac,        \* addresses that answer ARP, and hardware addresses
  Destination,           \* where datagrams are sent
  Leased,                \* addresses the DHCP servers give out
  ARP_CACHE_SIZE,
  UDP_MAX_SOCKETS, UDP_RX_BUF_SIZE, UdpFd, UdpPort, Peer, DatagramLen,
  HostName, Resolver, DNS_CACHE_MAX, TTL_MIN, TTL_MAX, Answer, Retries, MaxQueries, MaxDnsTime,
  LabelLen, MaxLabels,   \* the names that are encoded
  FIB_TABLE_MAX, FIB_ENTRY_MAX, TableId, Prefix, Metric, MaxRoutes,
  VlanName, LongName, VlanParent, Vid, VLAN_MAX_DEVICES, MaxVlanFrames,
  CongSock, WND,         \* WND: 2^16, the modulus of snd_wnd
  MSS, INIT_CWND, SLOT_MAX, CUBIC_C, CUBIC_DEN, SCALE, SEQ, AckNo, AckedBytes,
  BDP_GAIN, BW_WINDOW, MaxInits, MaxSwitches, CUBE_HI

ASSUME NetStackAssumption ==
  /\ Neighbour \subseteq SUBSET Bit /\ Leased \subseteq SUBSET Bit /\ {} \notin Leased
  /\ INIT_CWND < WND /\ MSS > 0 /\ SLOT_MAX > 0
  /\ LongName \subseteq VlanName /\ TTL_MIN <= TTL_MAX

VARIABLES
  net_if,                \* local_ip, netmask, gateway_ip, net_configured
  net_phase,             \* "off", "up" after net_init, "hung" in net_config_load
  arp_cache,
  tx,                    \* the frame the last step sent
  dhcp_air,              \* DHCP messages on the segment
  dhcp_seen,             \* what has happened: requested and leased addresses
  arp_told,             \* by address, the last hardware address an ARP reply gave
  udp_socks, udp_fd, udp_read,
  dns_cache, dns_query_id, dns_call, dns_now, dns_asked, dns_told,
  fib, route_count,
  vlan_tbl, vlan_moved,
  snd_wnd, cong_default, cubic_slots, cubic_slot_next, cubic_born,
  bbr_slots, bbr_slot_next, cong_last, cong_switched

linkVars == <<net_if, net_phase, arp_cache, tx, dhcp_air, dhcp_seen, arp_told>>
udpVars == <<udp_socks, udp_fd, udp_read>>
dnsVars == <<dns_cache, dns_query_id, dns_call, dns_now, dns_asked, dns_told>>
routeVars == <<fib, route_count>>
vlanVars == <<vlan_tbl, vlan_moved>>
congVars == <<snd_wnd, cong_default, cubic_slots, cubic_slot_next, cubic_born,
              bbr_slots, bbr_slot_next, cong_last, cong_switched>>

-----------------------------------------------------------------------------
(* Addresses, ARP and DHCP (net.c)                                         *)

Broadcast == Bit
silent == [what |-> "none", ip |-> {}, mac |-> "none"]
frame(w, ip, mac) == [what |-> w, ip |-> ip, mac |-> mac]
dhcp(t, ip, to) == [type |-> t, ip |-> ip, to |-> to]
unknown == "none"
dhcp_send_discover == dhcp("DISCOVER", {}, "kenux")
dhcp_send_request(ip) == dhcp("REQUEST", ip, "kenux")

\* Only a server's message that gives an address has a type to the client;
\* neither the transaction nor the client it is for is looked at
dhcp_parse_response(m) == IF m.type \in {"OFFER", "ACK"} /\ m.ip # {} THEN m.type ELSE "none"

link_init ==
  /\ net_if = [ip |-> {}, mask |-> {}, gw |-> {}, configured |-> FALSE]
  /\ net_phase = "off"
  /\ arp_cache = <<>> /\ tx = silent
  /\ dhcp_air = {}
  /\ dhcp_seen = [discovers |-> 0, requested |-> {}, acked |-> {}, foreign |-> FALSE,
                  loaded |-> FALSE]
  /\ arp_told = [ip \in Neighbour |-> unknown]

\* The value of local_ip, gateway_ip and netmask the text sets; a text of more
\* than one line keeps the scan at the first '\n', which no branch steps over.
net_config_load(c, lines) ==
  /\ net_phase # "hung"
  /\ net_if' = [ip |-> c.ip, mask |-> c.mask, gw |-> c.gw,
                configured |-> net_if.configured \/ lines = 1]
  /\ net_phase' = IF lines = 1 THEN net_phase ELSE "hung"
  /\ dhcp_seen' = [dhcp_seen EXCEPT !.loaded = TRUE]
  /\ tx' = silent
  /\ UNCHANGED <<arp_cache, dhcp_air, arp_told>>

bring_up ==
  /\ net_phase = "off"
  /\ net_phase' = "up" /\ arp_cache' = <<>>
  /\ IF net_if.configured
       THEN UNCHANGED <<dhcp_air, dhcp_seen>> /\ tx' = silent
       ELSE /\ dhcp_air' = dhcp_air \cup {dhcp_send_discover}
            /\ dhcp_seen' = [dhcp_seen EXCEPT !.discovers = @ + 1]
            /\ tx' = frame("dhcp", Broadcast, "all")
  /\ UNCHANGED <<net_if, arp_told>>

\* arp_lookup's choice of the address to look for
next_hop(ip) ==
  IF ip \cap net_if.mask # net_if.ip \cap net_if.mask THEN net_if.gw ELSE ip

cached(ip) == {i \in DOMAIN arp_cache : arp_cache[i].ip = ip}

\* ip_send_packet: the packet goes out if the next hop is cached and is lost
\* behind an ARP request otherwise
ip_sent(ip) ==
  LET hop == next_hop(ip)
  IN  IF cached(hop) = {} THEN frame("arp_request", hop, "all")
      ELSE frame("ip", ip, arp_cache[Min(cached(hop))].mac)

udp_send_packet(ip) ==
  /\ net_phase = "up"
  /\ tx' = ip_sent(ip)
  /\ UNCHANGED <<net_if, net_phase, arp_cache, dhcp_air, dhcp_seen, arp_told>>

learned(ip, mac) ==
  IF cached(ip) # {} THEN [arp_cache EXCEPT ![Min(cached(ip))].mac = mac]
  ELSE IF Len(arp_cache) < ARP_CACHE_SIZE THEN Append(arp_cache, [ip |-> ip, mac |-> mac])
  ELSE arp_cache

arp_reply(ip, mac) ==
  /\ net_phase = "up"
  /\ arp_cache' = learned(ip, mac)
  /\ arp_told' = [arp_told EXCEPT ![ip] = mac]
  /\ tx' = silent
  /\ UNCHANGED <<net_if, net_phase, dhcp_air, dhcp_seen>>

\* A request is answered when it is for local_ip; its sender is not learned
arp_request(target, mac) ==
  /\ net_phase = "up"
  /\ tx' = IF target = net_if.ip THEN frame("arp_reply", target, mac) ELSE silent
  /\ UNCHANGED <<net_if, net_phase, arp_cache, dhcp_air, dhcp_seen, arp_told>>

icmp_handle_packet(src, dst) ==
  /\ net_phase = "up"
  /\ dst \in {net_if.ip, Broadcast}
  /\ tx' = ip_sent(src)
  /\ UNCHANGED <<net_if, net_phase, arp_cache, dhcp_air, dhcp_seen, arp_told>>

\* udp_handle_packet for ports 67 -> 68 while the interface is not configured
dhcp_handle(m) ==
  /\ net_phase = "up" /\ m \in dhcp_air
  /\ dhcp_parse_response(m) # "none" /\ ~net_if.configured
  /\ IF dhcp_parse_response(m) = "OFFER"
       THEN /\ dhcp_air' = (dhcp_air \ {m}) \cup {dhcp_send_request(m.ip)}
            /\ dhcp_seen' = [dhcp_seen EXCEPT !.requested = @ \cup {m.ip}]
            /\ tx' = frame("dhcp", Broadcast, "all")
            /\ UNCHANGED net_if
       ELSE /\ net_if' = [net_if EXCEPT !.ip = m.ip, !.configured = TRUE]
            /\ dhcp_air' = dhcp_air \ {m} /\ tx' = silent
            /\ UNCHANGED dhcp_seen
  /\ UNCHANGED <<net_phase, arp_cache, arp_told>>

\* The segment: servers offer and acknowledge, to this machine or to another
\* client (the replies are broadcast: both set the flag), and messages are lost
dhcp_server(m, ip) ==
  /\ m \in dhcp_air /\ m.type \in {"DISCOVER", "REQUEST"}
  /\ m.type = "REQUEST" => ip = m.ip
  /\ LET t == IF m.type = "DISCOVER" THEN "OFFER" ELSE "ACK"
     IN  /\ dhcp_air' = (dhcp_air \ {m}) \cup {dhcp(t, ip, m.to)}
         /\ dhcp_seen' = [dhcp_seen EXCEPT !.acked = IF t = "ACK" THEN @ \cup {ip} ELSE @]
  /\ tx' = silent
  /\ UNCHANGED <<net_if, net_phase, arp_cache, arp_told>>

other_client(ip) ==
  /\ ~dhcp_seen.foreign
  /\ dhcp_air' = dhcp_air \cup {dhcp("ACK", ip, "other")}
  /\ dhcp_seen' = [dhcp_seen EXCEPT !.foreign = TRUE, !.acked = @ \cup {ip}]
  /\ tx' = silent
  /\ UNCHANGED <<net_if, net_phase, arp_cache, arp_told>>

lost_message(m) ==
  /\ m \in dhcp_air
  /\ dhcp_air' = dhcp_air \ {m} /\ tx' = silent
  /\ UNCHANGED <<net_if, net_phase, arp_cache, dhcp_seen, arp_told>>

LinkNext ==
  \/ bring_up
  \/ \E c \in [ip : Leased, mask : {{}, {Min(Bit)}}, gw : {Broadcast \ {Max(Bit)}}],
        lines \in 1..2 : ~dhcp_seen.loaded /\ net_config_load(c, lines)
  \/ \E ip \in Destination : udp_send_packet(ip)
  \/ \E ip \in Neighbour, mac \in Mac : arp_reply(ip, mac)
  \/ \E ip \in Leased, mac \in Mac : arp_request(ip, mac)
  \/ \E src \in Destination, dst \in Leased \cup {Broadcast} : icmp_handle_packet(src, dst)
  \/ \E m \in dhcp_air : dhcp_handle(m) \/ lost_message(m)
  \/ \E m \in dhcp_air, ip \in Leased : dhcp_server(m, ip)
  \/ \E ip \in Leased : other_client(ip)

-----------------------------------------------------------------------------
(* Datagram sockets (net.c)                                                *)

UdpSlot == 1..UDP_MAX_SOCKETS
free_udp == [bound |-> FALSE, port |-> 0, rx |-> <<>>, peer |-> "none", has_data |-> FALSE]
not_read == [fd |-> 0, data |-> <<>>, peer |-> "none", queued |-> <<>>]

udp_init ==
  /\ udp_socks = [i \in UdpSlot |-> free_udp]
  /\ udp_fd = [f \in UdpFd |-> 0]
  /\ udp_read = not_read

\* sys_socket(SOCK_DGRAM): the first slot that is not bound, whoever holds it
unbound == {i \in UdpSlot : ~udp_socks[i].bound}
closed_fds == {f \in UdpFd : udp_fd[f] = 0}

socket_dgram ==
  /\ closed_fds # {} /\ unbound # {}
  /\ udp_fd' = [udp_fd EXCEPT ![Min(closed_fds)] = Min(unbound)]
  /\ udp_socks' = [udp_socks EXCEPT ![Min(unbound)] = free_udp]
  /\ udp_read' = not_read

bind_dgram(f, port) ==
  /\ udp_fd[f] # 0
  /\ udp_socks' = [udp_socks EXCEPT ![udp_fd[f]].port = port, ![udp_fd[f]].bound = TRUE]
  /\ udp_read' = not_read
  /\ UNCHANGED udp_fd

receiver(port) ==
  LET s == {i \in UdpSlot : udp_socks[i].bound /\ udp_socks[i].port = port}
  IN  IF s = {} THEN 0 ELSE Min(s)

\* udp_handle_packet: as much of the datagram as fits; the peer is overwritten
stored_datagram(i, data, peer) ==
  LET room == UDP_RX_BUF_SIZE - Len(udp_socks[i].rx)
  IN  [udp_socks EXCEPT ![i].rx = @ \o SubSeq(data, 1, Min({room, Len(data)})),
                        ![i].peer = peer, ![i].has_data = TRUE]

udp_handle_packet(port, data, peer) ==
  /\ receiver(port) # 0
  /\ udp_socks' = stored_datagram(receiver(port), data, peer)
  /\ udp_read' = not_read
  /\ UNCHANGED udp_fd

sys_recvfrom(f, len) ==
  /\ udp_fd[f] # 0
  /\ LET u == udp_socks[udp_fd[f]]
         n == Min({len, Len(u.rx)})
     IN  /\ udp_socks' = [udp_socks EXCEPT ![udp_fd[f]].rx = SubSeq(@, n + 1, Len(@)),
                            ![udp_fd[f]].has_data = IF n = Len(u.rx) THEN FALSE ELSE @]
         /\ udp_read' = [fd |-> f, data |-> SubSeq(u.rx, 1, n), peer |-> u.peer,
                         queued |-> u.rx]
  /\ UNCHANGED udp_fd

\* sys_close_socket: tcp and udp are one field, the first branch clears it and
\* the second, which would unbind the slot, is not taken
close_dgram(f) == udp_socks

sys_close_dgram(f) ==
  /\ udp_fd[f] # 0
  /\ udp_socks' = close_dgram(f)
  /\ udp_fd' = [udp_fd EXCEPT ![f] = 0]
  /\ udp_read' = not_read

UdpNext ==
  \/ socket_dgram
  \/ \E f \in UdpFd, port \in UdpPort : bind_dgram(f, port)
  \/ \E port \in UdpPort, p \in Peer, n \in DatagramLen :
       udp_handle_packet(port, [j \in 1..n |-> p], p)
  \/ \E f \in UdpFd, len \in 1..2 : sys_recvfrom(f, len)
  \/ \E f \in UdpFd : sys_close_dgram(f)

-----------------------------------------------------------------------------
(* The resolver and its cache (dns.c)                                      *)

DnsSlot == 1..DNS_CACHE_MAX
free_dns == [valid |-> FALSE, host |-> "none", ip |-> 0, expire |-> 0]
no_query == [pc |-> "idle", host |-> "none", fd |-> 0, tries |-> 0]
dns_port(id) == 10000 + id         \* id % 1000: fewer than 1000 queries are made

\* A name is the sequence of its labels' lengths; an empty label ends it.  In a
\* message a label is its length and its letters, a pointer to position k the
\* two cells <<-k, "p">>.
dns_encode_name(labels) ==
  LET empty == {i \in DOMAIN labels : labels[i] = 0}
      kept == IF empty = {} THEN labels ELSE SubSeq(labels, 1, Min(empty) - 1)
  IN  FoldLeft(LAMBDA msg, l : msg \o <<l>> \o [i \in 1..l |-> "x"], <<>>, kept) \o <<0>>

after_pointer(pos) == pos + 2

\* The labels from an offset and the offset of the field that follows the name;
\* steps bounds a chain of pointers, which the code follows without a bound
dns_decode_name(msg, offset, steps) ==
  LET read[s \in (1..(Len(msg) + 1)) \X (0..steps)] ==
        LET pos == s[1]
            next == read[<<pos + 1 + msg[pos], s[2] - 1>>]
        IN  IF s[2] = 0 THEN [end |-> "never", labels |-> <<>>]
            ELSE IF pos > Len(msg) \/ msg[pos] = 0 THEN [end |-> "ok", labels |-> <<>>]
            ELSE IF msg[pos] < 0 THEN read[<<-msg[pos], s[2] - 1>>]
            ELSE IF pos + msg[pos] > Len(msg) THEN [end |-> "failed", labels |-> <<>>]
            ELSE [end |-> next.end, labels |-> <<msg[pos]>> \o next.labels]
      field[pos \in 1..(Len(msg) + 1)] ==
        IF pos > Len(msg) \/ msg[pos] = 0 THEN pos + 1
        ELSE IF msg[pos] < 0 THEN after_pointer(pos)
        ELSE field[pos + 1 + msg[pos]]
      r == read[<<offset, steps>>]
  IN  IF r.end = "ok" THEN [end |-> "ok", labels |-> r.labels, next |-> field[offset]]
      ELSE [end |-> r.end, labels |-> <<>>, next |-> 0]

dns_init ==
  /\ dns_cache = [entries |-> [i \in DnsSlot |-> free_dns], count |-> 0]
  /\ dns_query_id = 0
  /\ dns_call = [r \in Resolver |-> no_query]
  /\ dns_now = 0
  /\ dns_asked = {} /\ dns_told = [h \in HostName |-> {}]

valid_for(h) == {i \in DnsSlot : dns_cache.entries[i].valid /\ dns_cache.entries[i].host = h}
fresh(i) == dns_now < dns_cache.entries[i].expire
expired(s) ==
  [entries |-> [i \in DnsSlot |-> IF i \in s THEN [dns_cache.entries[i] EXCEPT !.valid = FALSE]
                                  ELSE dns_cache.entries[i]],
   count |-> dns_cache.count - Cardinality(s)]

\* dns_cache_lookup drops the entry it finds expired
looked_up(h) == IF valid_for(h) = {} \/ fresh(Min(valid_for(h))) THEN dns_cache
                ELSE expired({Min(valid_for(h))})

clamped(ttl) == Max({TTL_MIN, Min({TTL_MAX, ttl})})

\* The entry to replace when the table is full: the first of those that expire first
oldest ==
  Min({i \in DnsSlot : \A j \in DnsSlot :
         dns_cache.entries[i].expire <= dns_cache.entries[j].expire})

\* dns_cache_add
dns_added(h, ip, ttl) ==
  LET e == [valid |-> TRUE, host |-> h, ip |-> ip, expire |-> dns_now + clamped(ttl)]
      free == {i \in DnsSlot : ~dns_cache.entries[i].valid}
      i == IF valid_for(h) # {} THEN Min(valid_for(h))
           ELSE IF free # {} THEN Min(free) ELSE oldest
  IN  [entries |-> [dns_cache.entries EXCEPT ![i] = e],
       count |-> dns_cache.count + (IF dns_cache.entries[i].valid THEN 0 ELSE 1)]

dns_build_query(h, id) == [host |-> h, port |-> dns_port(id)]

\* dns_resolve up to its first msleep: a hit, a failure, or a query in flight
dns_resolve(r, h) ==
  /\ dns_call[r].pc = "idle"
  /\ dns_cache' = looked_up(h)
  /\ IF valid_for(h) # {} /\ fresh(Min(valid_for(h)))
       THEN UNCHANGED <<dns_call, dns_query_id, dns_asked, udpVars>>
       ELSE /\ dns_query_id' = dns_query_id + 1
            /\ IF closed_fds = {} \/ unbound = {}
                 THEN UNCHANGED <<dns_call, dns_asked, udpVars>>
                 ELSE LET f == Min(closed_fds)
                          q == dns_build_query(h, dns_query_id')
                      IN  /\ udp_fd' = [udp_fd EXCEPT ![f] = Min(unbound)]
                          /\ udp_socks' = [udp_socks EXCEPT ![Min(unbound)] =
                                [free_udp EXCEPT !.bound = TRUE, !.port = q.port]]
                          /\ dns_asked' = dns_asked \cup {q}
                          /\ dns_call' = [dns_call EXCEPT ![r] =
                                [no_query EXCEPT !.pc = "waiting", !.host = h, !.fd = f]]
                          /\ UNCHANGED udp_read
  /\ UNCHANGED <<dns_now, dns_told>>

\* The first address record; 0 when the server reports an error or gives none
dns_parse_response(a) ==
  LET addresses == SelectSeq(a.records, LAMBDA r : r.type = "A")
  IN  IF a.rcode # 0 \/ addresses = <<>> THEN [ip |-> 0, ttl |-> 0]
      ELSE [ip |-> Head(addresses).ip, ttl |-> Head(addresses).ttl]

\* An answer to a query, once or more, early or late
dns_answer(q, a) ==
  /\ receiver(q.port) # 0
  /\ udp_socks' = stored_datagram(receiver(q.port), <<a>>, "server")
  /\ dns_told' = [dns_told EXCEPT ![q.host] =
                    @ \cup {r.ip : r \in {x \in Range(a.records) : x.type = "A"}}]
  /\ UNCHANGED <<udp_fd, udp_read, dns_cache, dns_query_id, dns_call, dns_now, dns_asked>>

\* One turn of the waiting loop; the last one, or the one that reads something,
\* closes the socket and ends the call
dns_poll(r) ==
  LET c == dns_call[r]
      rx == udp_socks[udp_fd[c.fd]].rx
      ended == rx # <<>> \/ c.tries + 1 = Retries
      got == dns_parse_response(Head(rx))
      ok == rx # <<>> /\ got.ip # 0
  IN  /\ c.pc = "waiting"
      /\ udp_socks' = [IF ended THEN close_dgram(c.fd) ELSE udp_socks
                         EXCEPT ![udp_fd[c.fd]].rx = <<>>, ![udp_fd[c.fd]].has_data = FALSE]
      /\ udp_fd' = IF ended THEN [udp_fd EXCEPT ![c.fd] = 0] ELSE udp_fd
      /\ dns_cache' = IF ok THEN dns_added(c.host, got.ip, got.ttl) ELSE dns_cache
      /\ dns_call' = [dns_call EXCEPT ![r] =
            IF ended THEN no_query ELSE [c EXCEPT !.tries = @ + 1]]
      /\ UNCHANGED <<udp_read, dns_query_id, dns_now, dns_asked, dns_told>>

dns_cache_flush ==
  /\ dns_cache' = [entries |-> [i \in DnsSlot |-> [dns_cache.entries[i] EXCEPT !.valid = FALSE]],
                   count |-> 0]
  /\ UNCHANGED <<udpVars, dns_query_id, dns_call, dns_now, dns_asked, dns_told>>

dns_cache_cleanup ==
  /\ dns_cache' = expired({i \in DnsSlot : dns_cache.entries[i].valid /\ ~fresh(i)})
  /\ UNCHANGED <<udpVars, dns_query_id, dns_call, dns_now, dns_asked, dns_told>>

dns_tick ==
  /\ dns_now < MaxDnsTime
  /\ dns_now' = dns_now + 1
  /\ UNCHANGED <<udpVars, dns_cache, dns_query_id, dns_call, dns_asked, dns_told>>

DnsNext ==
  \/ \E r \in Resolver, h \in HostName : dns_query_id < MaxQueries /\ dns_resolve(r, h)
  \/ \E q \in dns_asked, a \in Answer : dns_answer(q, a)
  \/ \E r \in Resolver : dns_poll(r)
  \/ dns_cache_flush \/ dns_cache_cleanup \/ dns_tick

-----------------------------------------------------------------------------
(* Routing tables (route.c)                                                *)

FibSlot == 1..FIB_TABLE_MAX
mask_to_prefix(mask) == Cardinality(mask)
loopback == {Min(Bit)}
route(dst, mask, metric) == [dst |-> dst \cap mask, mask |-> mask, metric |-> metric]
no_route == route({}, {}, 0)

\* RT_TABLE_LOCAL, RT_TABLE_MAIN and RT_TABLE_DEFAULT; 0 marks a free table
route_init ==
  /\ fib = [t \in FibSlot |->
              [id |-> IF t <= 3 THEN 256 - t ELSE 0,
               entries |-> IF t = 1 THEN << route(loopback, Bit, 0),
                                            route(loopback, loopback, 0) >> ELSE <<>>]]
  /\ route_count = 0

\* The first table with this identifier, a free one for 0
with_id(id) == {t \in FibSlot : fib[t].id = id}
created(tables, id) ==
  LET free == {t \in FibSlot : tables[t].id = 0}
  IN  IF free = {} THEN tables
      ELSE [tables EXCEPT ![Min(free)] = [id |-> id, entries |-> <<>>]]

\* route_insert_sorted: where the new route e stops, in front of f
goes_before(e, f) ==
  \/ mask_to_prefix(e.mask) > mask_to_prefix(f.mask)
  \/ mask_to_prefix(e.mask) = mask_to_prefix(f.mask) /\ e.metric < f.metric

insert_sorted(s, e) ==
  LET stops == {i \in DOMAIN s : goes_before(e, s[i])}
      at == IF stops = {} THEN Len(s) + 1 ELSE Min(stops)
  IN  SubSeq(s, 1, at - 1) \o <<e>> \o SubSeq(s, at, Len(s))

route_add(id, e) ==
  LET tables == IF with_id(id) = {} THEN created(fib, id) ELSE fib
      have == {t \in FibSlot : tables[t].id = id}
  IN  /\ have # {} /\ Len(tables[Min(have)].entries) < FIB_ENTRY_MAX
      /\ fib' = [tables EXCEPT ![Min(have)].entries = insert_sorted(@, e)]
      /\ route_count' = route_count + 1

route_del(id, dst, mask) ==
  /\ with_id(id) # {}
  /\ LET t == Min(with_id(id))
         s == fib[t].entries
         same == {i \in DOMAIN s : s[i].dst = dst \cap mask /\ s[i].mask = mask}
     IN  /\ same # {}
         /\ fib' = [fib EXCEPT ![t].entries = RemoveAt(s, Min(same))]
  /\ UNCHANGED route_count

route_table_create(id) ==
  /\ with_id(0) # {}
  /\ fib' = created(fib, id) /\ route_count' = route_count + 1

route_flush(id) ==
  /\ with_id(id) # {}
  /\ fib' = [fib EXCEPT ![Min(with_id(id))].entries = <<>>]
  /\ UNCHANGED route_count

route_flush_all ==
  /\ fib' = [t \in FibSlot |-> IF fib[t].id = 0 THEN fib[t] ELSE [fib[t] EXCEPT !.entries = <<>>]]
  /\ UNCHANGED route_count

\* What route_lookup walks over: the tables in use, in their order
visible ==
  FoldLeft(LAMBDA walk, t : walk \o (IF fib[t].id = 0 THEN <<>> ELSE fib[t].entries),
           <<>>, [t \in FibSlot |-> t])
prefix_matches(dst, e) == dst \cap e.mask = e.dst

\* best_prefix starts at 0, which no_route stands for: a route of prefix 0 is
\* never better
better(e, best) == mask_to_prefix(e.mask) > mask_to_prefix(best.mask)

route_lookup(dst) ==
  FoldLeft(LAMBDA best, e : IF prefix_matches(dst, e) /\ better(e, best) THEN e ELSE best,
           no_route, visible)

RouteNext ==
  \/ \E id \in TableId, dst \in SUBSET Bit, mask \in Prefix, m \in Metric :
       route_count < MaxRoutes /\ route_add(id, route(dst, mask, m))
  \/ \E id \in TableId, dst \in SUBSET Bit, mask \in Prefix : route_del(id, dst, mask)
  \/ \E id \in TableId :
       route_flush(id) \/ (route_count < MaxRoutes /\ route_table_create(id))
  \/ route_flush_all

-----------------------------------------------------------------------------
(* VLAN devices (vlan.c)                                                   *)

\* strncpy to VLAN_NAME_MAX - 1: a longer name is kept under its beginning
stored_name(n) == IF n \in LongName THEN "cut" ELSE n

vlan_init == vlan_tbl = <<>> /\ vlan_moved = 0

vlan_clash(v, parent, vid, name) == v.name = name \/ (v.parent = parent /\ v.vid = vid)

vlan_add_device(parent, vid, name) ==
  /\ Len(vlan_tbl) < VLAN_MAX_DEVICES
  /\ \A i \in DOMAIN vlan_tbl : ~vlan_clash(vlan_tbl[i], parent, vid, name)
  /\ vlan_tbl' = <<[name |-> stored_name(name), parent |-> parent, vid |-> vid,
                    rx |-> 0, tx |-> 0, drops |-> 0]>> \o vlan_tbl
  /\ UNCHANGED vlan_moved

vlan_named(name) == {i \in DOMAIN vlan_tbl : vlan_tbl[i].name = name}
vlan_by_vid(parent, vid) == {i \in DOMAIN vlan_tbl : vlan_tbl[i].parent = parent /\ vlan_tbl[i].vid = vid}

vlan_del_device(name) ==
  /\ vlan_named(name) # {}
  /\ vlan_tbl' = RemoveAt(vlan_tbl, Min(vlan_named(name)))
  /\ UNCHANGED vlan_moved

vlan_rx(parent, vid) ==
  /\ vlan_by_vid(parent, vid) # {}
  /\ vlan_tbl' = [vlan_tbl EXCEPT ![Min(vlan_by_vid(parent, vid))].rx = @ + 1]
  /\ vlan_moved' = vlan_moved + 1

\* fits: the frame and its tag are within max_len
vlan_tx(name, fits) ==
  /\ vlan_named(name) # {}
  /\ LET i == Min(vlan_named(name))
     IN  vlan_tbl' = IF fits THEN [vlan_tbl EXCEPT ![i].tx = @ + 1]
                     ELSE [vlan_tbl EXCEPT ![i].drops = @ + 1]
  /\ vlan_moved' = vlan_moved + 1

VlanNext ==
  \/ \E p \in VlanParent, vid \in Vid, n \in VlanName : vlan_add_device(p, vid, n)
  \/ \E n \in VlanName : vlan_del_device(n)
  \/ \E p \in VlanParent, vid \in Vid : vlan_moved < MaxVlanFrames /\ vlan_rx(p, vid)
  \/ \E n \in VlanName, fits \in BOOLEAN : vlan_moved < MaxVlanFrames /\ vlan_tx(n, fits)

-----------------------------------------------------------------------------
(* Congestion control (tcp_cong.c)                                         *)
(* snd_wnd has 16 bits and TCP_INIT_SSTHRESH is 0xffff.  Cubic leaves slow *)
(* start at snd_wnd = 0xffff only, where its origin point is 0xffff, K is  *)
(* 0 and tcp_jiffies is epoch_start; bictcp_found is never set.  BBR takes *)
(* every interval for one microsecond and has no minimum round trip time.  *)

SSTHRESH == WND - 1
CongSlot == 1..SLOT_MAX
Algo == {"reno", "cubic", "bbr"}
free_cubic == [sk |-> "none", w_max |-> 0, epoch_start |-> 0, ack_cnt |-> 0]
free_bbr == [sk |-> "none", samples |-> <<>>, full_bw |-> 0, full_bw_cnt |-> 0, mode |-> 0,
             filled_pipe |-> FALSE]
no_cong == [op |-> "none", algo |-> "none", sk |-> "none", before |-> 0, fault |-> FALSE]

tcp_cong_init ==
  /\ snd_wnd = [k \in CongSock |-> 0]
  /\ cong_default = "cubic"
  /\ cubic_slots = [i \in CongSlot |-> free_cubic] /\ cubic_slot_next = 0
  /\ cubic_born = [k \in CongSock |-> 0]
  /\ bbr_slots = [i \in CongSlot |-> free_bbr] /\ bbr_slot_next = 0
  /\ cong_last = no_cong /\ cong_switched = 0

\* Binary search for the cube root, from 0 .. hi
cubic_root(x) ==
  LET search[p \in (0..CUBE_HI) \X (0..CUBE_HI)] ==
        LET lo == p[1]
            hi == p[2]
            mid == (lo + hi + 1) \div 2
        IN  IF lo >= hi THEN lo
            ELSE IF mid * mid * mid <= x THEN search[<<mid, hi>>] ELSE search[<<lo, mid - 1>>]
  IN  IF x = 0 THEN 0 ELSE search[<<0, CUBE_HI>>]

slow_start(w, acked) == Min({w + acked, SSTHRESH})

reno_cong_avoid(w, acked) ==
  IF w = 0 THEN 0
  ELSE IF w < SSTHRESH THEN slow_start(w, acked)
  ELSE (w + Max({1, (MSS * acked) \div w})) % WND

cubic_of(k) == {i \in CongSlot : cubic_slots[i].sk = k}
bbr_of(k) == {i \in CongSlot : bbr_slots[i].sk = k}

\* How many acknowledgements raise the window by one: TCP_MSS / delta, 0 when
\* delta is above TCP_MSS
cubic_period(w, ack, epoch) ==
  LET since == (ack + SEQ - epoch) % SEQ
      t == IF since < epoch THEN epoch + 1 ELSE since
      target == SSTHRESH + (CUBIC_C * (t - epoch) * (t - epoch)) \div CUBIC_DEN
      delta == (((target - w) * SCALE) \div 2) \div MSS
  IN  MSS \div Max({1, delta})

cubic_cong_avoid(k, ack, acked) ==
  LET w == snd_wnd[k]
      i == Min(cubic_of(k))
      ca == cubic_slots[i]
      epoch == IF ca.epoch_start = 0 THEN ack ELSE ca.epoch_start
      cnt == IF ca.epoch_start = 0 THEN 1 ELSE ca.ack_cnt + 1
      period == cubic_period(w, ack, epoch)
      left == IF period = 0 THEN cnt ELSE cnt % period
  IN  IF w < SSTHRESH THEN [wnd |-> slow_start(w, acked), slots |-> cubic_slots, fault |-> FALSE]
      ELSE IF cubic_of(k) = {} THEN [wnd |-> w, slots |-> cubic_slots, fault |-> FALSE]
      ELSE [wnd |-> IF period # 0 /\ left = 0 THEN (w + 1) % WND ELSE w,
            slots |-> [cubic_slots EXCEPT ![i].epoch_start = epoch, ![i].ack_cnt = left],
            fault |-> period = 0]

bbr_target(mode, bw) ==
  LET bdp == bw * BDP_GAIN
  IN  Max({4 * MSS, CASE mode = 0 -> (bdp * 2885) \div 1024
                      [] mode = 1 -> (bdp * 733) \div 1024
                      [] OTHER -> bdp})

\* The state after a sample, and from it the window, cut to 16 bits
bbr_sampled(b, w, acked) ==
  LET samples == SubSeq(<<acked>> \o b.samples, 1, Min({BW_WINDOW, Len(b.samples) + 1}))
      bw == Max(Range(samples))
      grows == bw >= (b.full_bw * 125) \div 100
      cnt == IF grows THEN 0 ELSE b.full_bw_cnt + 1
      filled == b.filled_pipe \/ cnt >= 3
      m1 == IF b.mode = 0 /\ filled THEN 1 ELSE b.mode
  IN  [b EXCEPT !.samples = samples,
                !.full_bw = IF b.filled_pipe \/ ~grows THEN @ ELSE bw,
                !.full_bw_cnt = IF b.filled_pipe THEN @ ELSE cnt,
                !.filled_pipe = filled,
                !.mode = IF m1 = 1 /\ w = 0 THEN 2 ELSE m1]

cong_done(op, k, fault) ==
  [op |-> op, algo |-> cong_default, sk |-> k, before |-> snd_wnd[k], fault |-> fault]

tcp_cong_on_ack(k, ack, acked) ==
  /\ ~cong_last.fault
  /\ CASE cong_default = "reno" ->
            /\ snd_wnd' = [snd_wnd EXCEPT ![k] = reno_cong_avoid(@, acked)]
            /\ cong_last' = cong_done("ack", k, FALSE)
            /\ UNCHANGED <<cubic_slots, bbr_slots>>
       [] cong_default = "cubic" ->
            LET r == cubic_cong_avoid(k, ack, acked)
            IN  /\ snd_wnd' = [snd_wnd EXCEPT ![k] = r.wnd]
                /\ cubic_slots' = r.slots
                /\ cong_last' = cong_done("ack", k, r.fault)
                /\ UNCHANGED bbr_slots
       [] OTHER ->
            /\ IF bbr_of(k) = {} THEN UNCHANGED <<snd_wnd, bbr_slots>>
               ELSE LET b == bbr_sampled(bbr_slots[Min(bbr_of(k))], snd_wnd[k], acked)
                    IN  /\ bbr_slots' = [bbr_slots EXCEPT ![Min(bbr_of(k))] = b]
                        /\ snd_wnd' = [snd_wnd EXCEPT ![k] =
                              bbr_target(b.mode, Max(Range(b.samples))) % WND]
            /\ cong_last' = cong_done("ack", k, FALSE)
            /\ UNCHANGED cubic_slots
  /\ UNCHANGED <<cong_default, cubic_slot_next, cubic_born, bbr_slot_next, cong_switched>>

cubic_lost(k) == IF cubic_of(k) = {} THEN snd_wnd[k] ELSE INIT_CWND

\* TCP_CONG_EVENT_RETRANS and TCP_CONG_EVENT_LOSS_TIMEOUT ("loss"), or "frto"
tcp_cong_event(k, event) ==
  /\ ~cong_last.fault
  /\ snd_wnd' = [snd_wnd EXCEPT ![k] =
        CASE cong_default = "reno" -> IF event = "loss" THEN 1 ELSE INIT_CWND
          [] cong_default = "cubic" /\ event = "loss" -> cubic_lost(k)
          [] cong_default = "bbr" /\ event = "loss" /\ bbr_of(k) # {} -> INIT_CWND
          [] OTHER -> @]
  /\ cubic_slots' =
        IF cong_default # "cubic" \/ event # "loss" \/ cubic_of(k) = {} THEN cubic_slots
        ELSE [cubic_slots EXCEPT ![Min(cubic_of(k))] =
                [@ EXCEPT !.w_max = IF snd_wnd[k] < @ THEN (snd_wnd[k] * 717) \div 1000
                                    ELSE snd_wnd[k],
                          !.epoch_start = 0]]
  /\ bbr_slots' =
        IF cong_default # "bbr" \/ event # "loss" \/ bbr_of(k) = {} THEN bbr_slots
        ELSE [bbr_slots EXCEPT ![Min(bbr_of(k))] =
                [@ EXCEPT !.mode = 0, !.filled_pipe = FALSE, !.full_bw = 0, !.full_bw_cnt = 0]]
  /\ cong_last' = cong_done(event, k, FALSE)
  /\ UNCHANGED <<cong_default, cubic_slot_next, cubic_born, bbr_slot_next, cong_switched>>

\* cubic_get_slot and bbr_cong_get_slot: the next of the ring, whoever has it
ring_slot(n) == (n % SLOT_MAX) + 1

tcp_cong_init_sock(k) ==
  /\ ~cong_last.fault
  /\ snd_wnd' = [snd_wnd EXCEPT ![k] = INIT_CWND]
  /\ IF cong_default = "cubic"
       THEN /\ cubic_slots' = [cubic_slots EXCEPT ![ring_slot(cubic_slot_next)] =
                                 [free_cubic EXCEPT !.sk = k, !.w_max = SSTHRESH]]
            /\ cubic_slot_next' = cubic_slot_next + 1
            /\ cubic_born' = [cubic_born EXCEPT ![k] = cubic_slot_next + 1]
       ELSE UNCHANGED <<cubic_slots, cubic_slot_next, cubic_born>>
  /\ IF cong_default = "bbr"
       THEN /\ bbr_slots' = [bbr_slots EXCEPT ![ring_slot(bbr_slot_next)] =
                               [free_bbr EXCEPT !.sk = k]]
            /\ bbr_slot_next' = bbr_slot_next + 1
       ELSE UNCHANGED <<bbr_slots, bbr_slot_next>>
  /\ cong_last' = no_cong
  /\ UNCHANGED <<cong_default, cong_switched>>

tcp_cong_set_default(a) ==
  /\ ~cong_last.fault /\ cong_switched < MaxSwitches
  /\ cong_switched' = cong_switched + 1
  /\ cong_default' = a /\ cong_last' = no_cong
  /\ UNCHANGED <<snd_wnd, cubic_slots, cubic_slot_next, cubic_born, bbr_slots, bbr_slot_next>>

CongNext ==
  \/ \E k \in CongSock, ack \in AckNo, acked \in AckedBytes : tcp_cong_on_ack(k, ack, acked)
  \/ \E k \in CongSock, e \in {"loss", "frto"} : tcp_cong_event(k, e)
  \/ \E k \in CongSock : cubic_slot_next + bbr_slot_next < MaxInits /\ tcp_cong_init_sock(k)
  \/ \E a \in Algo : tcp_cong_set_default(a)

-----------------------------------------------------------------------------
(* Properties                                                              *)

\* The interface's address is one a DHCP server acknowledged or the loaded
\* text gave; unless another client's acknowledgement was on the segment it is
\* one this machine asked for.  The discovery is sent at most once, whatever
\* is lost.  DHCP sets neither netmask nor gateway: everything is on the link.
DhcpBooks ==
  /\ net_if.configured /\ ~dhcp_seen.loaded =>
       /\ net_if.ip \in dhcp_seen.acked
       /\ dhcp_seen.foreign \/ net_if.ip \in dhcp_seen.requested
       /\ \A ip \in Destination : next_hop(ip) = ip
  /\ ~net_if.configured /\ ~dhcp_seen.loaded => net_if.ip = {}
  /\ dhcp_seen.discovers <= 1

\* The ARP cache has one entry for an address, with the hardware address of the
\* last reply; an address that was announced is missing only when the cache
\* filled up without it.  A packet goes to the hardware address cached for the
\* next hop its destination has, and to nobody while there is none.
ArpBooks ==
  /\ \A ip \in Neighbour : Cardinality(cached(ip)) <= 1
  /\ \A i \in DOMAIN arp_cache : arp_cache[i].mac = arp_told[arp_cache[i].ip]
  /\ \A ip \in Neighbour :
       arp_told[ip] # unknown /\ cached(ip) = {} => Len(arp_cache) = ARP_CACHE_SIZE
  /\ tx.what = "ip" =>
       LET hop == IF net_if.mask = {} \/ (tx.ip \cap net_if.mask = net_if.ip \cap net_if.mask)
                  THEN tx.ip ELSE net_if.gw
       IN  \E i \in DOMAIN arp_cache : arp_cache[i].ip = hop /\ arp_cache[i].mac = tx.mac

\* Closing a datagram socket never gives its slot back: the bound slots are the
\* first ones, an open socket is on one of them or on the next, which all the
\* sockets not yet bound share; what is queued is announced by has_data and
\* fits the buffer.
UdpBooks ==
  LET bound == {i \in UdpSlot : udp_socks[i].bound}
  IN  /\ bound = 1..Cardinality(bound)
      /\ \A f \in UdpFd : udp_fd[f] <= Cardinality(bound) + 1
      /\ \A i \in UdpSlot :
           /\ Len(udp_socks[i].rx) <= UDP_RX_BUF_SIZE
           /\ udp_socks[i].rx # <<>> => udp_socks[i].has_data /\ udp_socks[i].bound

\* Decoding undoes encoding, for a name in full and for one that ends in a
\* pointer to it, and leaves the offset behind the name; a pointer to itself is
\* followed for ever.
NamesRoundTrip ==
  \A labels \in UNION {[1..n -> LabelLen] : n \in 0..MaxLabels}, l \in LabelLen :
    LET msg == dns_encode_name(labels)
        tail == <<l>> \o [i \in 1..l |-> "x"] \o <<-1, "p">>
        at == Len(msg) + 1
    IN  /\ dns_decode_name(msg, 1, 9) = [end |-> "ok", labels |-> labels, next |-> at]
        /\ dns_decode_name(msg \o tail, at, 9) =
             [end |-> "ok", labels |-> <<l>> \o labels, next |-> at + Len(tail)]
        /\ dns_decode_name(msg \o <<-at, "p">>, at, 9).end = "never"

\* The resolver's cache has one valid entry for a name, counted, with an address
\* a server gave for that name however late or often its answers came; every
\* query that was sent has cost a datagram slot for good.
DnsBooks ==
  LET valid == {i \in DnsSlot : dns_cache.entries[i].valid}
  IN  /\ NamesRoundTrip
      /\ dns_cache.count = Cardinality(valid)
      /\ \A i, j \in valid : dns_cache.entries[i].host = dns_cache.entries[j].host => i = j
      /\ \A i \in valid :
           /\ dns_cache.entries[i].ip \in dns_told[dns_cache.entries[i].host]
           /\ dns_cache.entries[i].expire <= dns_now + TTL_MAX
      /\ dns_asked # {} =>
           Cardinality(dns_asked) = Cardinality({i \in UdpSlot : udp_socks[i].bound})

\* A table's routes are in the order of longer prefix, then smaller metric, and
\* only the first table of an identifier has any; route_lookup finds a route of
\* the longest prefix that matches, with the smallest metric of its table, and
\* no route of prefix 0.
RouteBooks ==
  /\ \A t \in FibSlot : \A i, j \in DOMAIN fib[t].entries :
       i < j => ~goes_before(fib[t].entries[j], fib[t].entries[i])
  /\ \A t, u \in FibSlot : t < u /\ fib[t].id = fib[u].id => fib[u].entries = <<>>
  /\ \A dst \in SUBSET Bit :
       LET r == route_lookup(dst)
           longer(t) == {i \in DOMAIN fib[t].entries : prefix_matches(dst, fib[t].entries[i])
                           /\ Cardinality(fib[t].entries[i].mask) >= Cardinality(r.mask)}
           used == {t \in FibSlot : fib[t].id # 0 /\ longer(t) # {}}
       IN  IF r = no_route
             THEN \A t \in used : \A i \in longer(t) : fib[t].entries[i].mask = {}
             ELSE /\ \A t \in used : \A i \in longer(t) :
                       Cardinality(fib[t].entries[i].mask) = Cardinality(r.mask)
                  /\ \A i \in longer(Min(used)) :
                       r.metric <= fib[Min(used)].entries[i].metric

\* No two VLAN devices have a parent and identifier in common, or a name that
\* fits; the count is within its bound.
VlanBooks ==
  \A i, j \in DOMAIN vlan_tbl : i # j =>
    /\ <<vlan_tbl[i].parent, vlan_tbl[i].vid>> # <<vlan_tbl[j].parent, vlan_tbl[j].vid>>
    /\ vlan_tbl[i].name # vlan_tbl[j].name \/ vlan_tbl[i].name = "cut"

\* The binary search is the integer cube root on the whole of its range.
CubicRootExact ==
  \A x \in 0..((CUBE_HI + 1) * (CUBE_HI + 1) * (CUBE_HI + 1) - 1) :
    LET r == cubic_root(x) IN r * r * r <= x /\ x < (r + 1) * (r + 1) * (r + 1)

\* A socket has cubic's state exactly while fewer than TCP_CUBIC_SLOT_MAX
\* initialisations followed its own.  An acknowledgement lowers the window of
\* reno or cubic only by wrapping at its top; reno then leaves it at 0 until an
\* event.  The remainder by TCP_MSS / delta has divisor 0 at the top only.
CongBooks ==
  /\ CubicRootExact
  /\ \A k \in CongSock : cubic_of(k) # {} <=>
       cubic_born[k] # 0 /\ cubic_slot_next - cubic_born[k] < SLOT_MAX
  /\ cong_last.op = "ack" =>
       LET after == snd_wnd[cong_last.sk]
       IN  /\ cong_last.algo # "bbr" /\ after < cong_last.before => cong_last.before = SSTHRESH
           /\ cong_last.algo = "reno" /\ cong_last.before = 0 => after = 0
           /\ cong_last.fault => cong_last.algo = "cubic" /\ cong_last.before = SSTHRESH
  /\ cong_last.op = "loss" /\ cong_last.algo = "cubic" /\ cubic_of(cong_last.sk) = {} =>
       snd_wnd[cong_last.sk] = cong_last.before

NetStackTypeOK ==
  /\ net_phase \in {"off", "up", "hung"} /\ net_if.ip \subseteq Bit
  /\ Len(arp_cache) <= ARP_CACHE_SIZE
  /\ udp_fd \in [UdpFd -> 0..UDP_MAX_SOCKETS]
  /\ \A r \in Resolver : dns_call[r].pc \in {"idle", "waiting"} /\ dns_call[r].tries < Retries
  /\ \A t \in FibSlot : Len(fib[t].entries) <= FIB_ENTRY_MAX
  /\ Len(vlan_tbl) <= VLAN_MAX_DEVICES
  /\ snd_wnd \in [CongSock -> 0..(WND - 1)] /\ cong_default \in Algo

=============================================================================
