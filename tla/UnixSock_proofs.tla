-------------------------- MODULE UnixSock_proofs --------------------------
(***************************************************************************)
(* What unix_socket_close frees nobody points to, for any number of Unix   *)
(* domain sockets and processes.  RefCounts has the argument about the     *)
(* counts; here every operation of the sockets is shown to be a step of    *)
(* one of the kinds it treats.                                             *)
(***************************************************************************)
EXTENDS Streams, TLAPS

INSTANCE RefCounts

(* The inductive invariant: every socket leads to sockets, and the counts
   cover the holders. *)
MemInv == SocksOK(sk) /\ DOMAIN usk_call = UskProc /\ MemOK(sk, usk_call)

(* unix_socket_create: the socket is new and has one reference, its owner's. *)
LEMMA CreateStep ==
  ASSUME MemInv, NEW s \in Sock, NEW type, unix_socket_create(s, type) PROVE MemInv'
<1>1. /\ \A t \in Sock : t # s => sk'[t] = sk[t]
      /\ sk'[s].mem = "live" /\ sk'[s].refs = 1 /\ sk'[s].peer = NoSock /\ sk'[s].pending = << >>
      /\ usk_call' = usk_call /\ sk[s].mem = "none" /\ SocksOK(sk) /\ SocksOK(sk')
  BY DEF MemInv, SocksOK, Linked, SockFields, unix_socket_create, fresh, created, unallocated
<1>2. MemOK(sk, usk_call) /\ NoSock \notin Sock
  BY UskAssumption DEF MemInv
<1>3. MemOK(sk', usk_call)
  BY <1>1, <1>2, NewCounts
<1> QED
  BY <1>1, <1>3 DEF MemInv

(* unix_socket_connect, from its call: the reference on the server is taken
   before its type is looked at, for the socket that has it as its peer or
   for the call that waits. *)
LEMMA ConnectStep ==
  ASSUME MemInv, NEW p \in UskProc, NEW s \in Sock, NEW path, unix_socket_connect(p, s, path)
  PROVE  MemInv'
<1>0. /\ SocksOK(sk) /\ DOMAIN usk_call = UskProc /\ MemOK(sk, usk_call)
      /\ usk_call[p] = NoUskCall /\ NoUskCall.op = "none" /\ sk[s].mem = "live"
  BY DEF MemInv, MemOK, unix_socket_connect, usable, idle, NoUskCall
<1>1. PICK srv \in Sock : /\ sk[srv].reg
                          /\ connect_mistyped(p, s, srv) \/ connect_dgram(p, s, srv) \/ connect_stream(p, s, srv)
  BY DEF unix_socket_connect, find_bound_socket
<1>2. sk[srv].mem = "live" /\ \A q \in UskProc : Attached(sk, usk_call[q])
  BY <1>0, <1>1 DEF MemOK
<1>3. CASE UNCHANGED <<sk, usk_call>>
  BY <1>3 DEF MemInv
<1>4. CASE /\ \/ sk' = [sk EXCEPT ![srv].refs = @ + 1]
              \/ sk' = [[sk EXCEPT ![srv].refs = @ + 1] EXCEPT ![s].peer = srv, ![s].state = "CONNECTED"]
           /\ UNCHANGED usk_call
  <2>1. /\ Took(sk, sk', srv) /\ SocksOK(sk')
        /\ \A t \in Sock : sk[t].peer = sk'[t].peer \/ (t = s /\ sk'[t].peer = srv)
        /\ \A t \in Sock : sk'[t].pending = sk[t].pending
    <3> DEFINE tab == [sk EXCEPT ![srv].refs = @ + 1]
    <3>1. /\ Took(sk, tab, srv)
          /\ \A t \in Sock : tab[t].peer = sk[t].peer /\ tab[t].pending = sk[t].pending
          /\ SocksOK(tab)
      BY <1>0 DEF SocksOK, Linked, SockFields, Took
    <3> HIDE DEF tab
    <3>2. CASE sk' = tab
      BY <3>1, <3>2
    <3>3. CASE sk' = [tab EXCEPT ![s].peer = srv, ![s].state = "CONNECTED"]
      <4>1. ASSUME NEW t \in Sock
            PROVE  /\ Alike(tab[t], sk'[t]) /\ sk'[t].refs = tab[t].refs /\ sk'[t].pending = tab[t].pending
                   /\ sk'[t].peer = IF t = s THEN srv ELSE tab[t].peer
        BY <3>1, <3>3 DEF SocksOK, Linked, Alike, SockFields
      <4>2. SocksOK(sk')
        BY <3>1, <3>3 DEF SocksOK, Linked, SockFields
      <4> QED
        BY <3>1, <4>1, <4>2 DEF Took, Alike
    <3> QED
      BY <1>4, <3>2, <3>3 DEF tab
  <2>2. MemOK(sk', usk_call)
    BY <1>0, <1>2, <2>1, PeerCounts
  <2> QED
    BY <1>0, <1>4, <2>1, <2>2 DEF MemInv
<1>5. CASE /\ sk' = [[sk EXCEPT ![srv].refs = @ + 1, ![srv].pending = Append(@, s)]
                       EXCEPT ![s].state = "CONNECTING", ![s].quit = @ \/ "PEER_CLOSED" \in sk[s].flags]
           /\ IF "PEER_CLOSED" \in sk[s].flags THEN returning(p) ELSE suspended(p, "connect", s, srv, 0)
  <2> DEFINE u == sk'
             c == usk_call'
             hup == "PEER_CLOSED" \in sk[s].flags
             tab == [sk EXCEPT ![srv].refs = @ + 1, ![srv].pending = Append(@, s)]
  <2>1. /\ Took(sk, u, srv) /\ SocksOK(u)
        /\ \A t \in Sock : u[t].peer = sk[t].peer
        /\ \A t \in Sock : t # srv => u[t].pending = sk[t].pending
        /\ u[srv].pending = Append(sk[srv].pending, s)
        /\ hup => u[s].quit
    <3>1. /\ Took(sk, tab, srv) /\ \A t \in Sock : tab[t].peer = sk[t].peer /\ tab[t].quit = sk[t].quit
          /\ \A t \in Sock : t # srv => tab[t].pending = sk[t].pending
          /\ tab[srv].pending = Append(sk[srv].pending, s)
          /\ SocksOK(tab)
      BY <1>0 DEF SocksOK, Linked, SockFields, Took
    <3> HIDE DEF tab
    <3>2. PICK quit : /\ sk' = [tab EXCEPT ![s].state = "CONNECTING", ![s].quit = quit]
                      /\ quit = (tab[s].quit \/ hup)
      BY <1>5, Zenon DEF tab
    <3> HIDE DEF hup
    <3>3. ASSUME NEW t \in Sock
          PROVE  /\ sk'[t].mem = tab[t].mem /\ sk'[t].open = tab[t].open /\ sk'[t].reg = tab[t].reg
                 /\ sk'[t].refs = tab[t].refs /\ sk'[t].pending = tab[t].pending /\ sk'[t].peer = tab[t].peer
                 /\ sk'[t].quit = IF t = s THEN quit ELSE tab[t].quit
                 /\ Linked(sk'[t])
      BY <3>1, <3>2 DEF SocksOK, Linked, SockFields
    <3>4. ASSUME NEW t \in Sock, sk[t].quit PROVE sk'[t].quit
      <4>1. tab[t].quit
        BY <3>1, <3>4 DEF Took
      <4>2. sk'[t].quit = IF t = s THEN quit ELSE tab[t].quit
        BY <3>3
      <4>3. t = s => quit
        BY <3>2, <4>1, Zenon
      <4> QED
        BY <4>1, <4>2, <4>3
    <3>5. hup => sk'[s].quit
      BY <3>2, <3>3, Zenon
    <3>6. SocksOK(sk')
      BY <3>1, <3>2, <3>3 DEF SocksOK
    <3> QED
      BY <3>1, <3>3, <3>4, <3>5, <3>6 DEF Took
  <2>2. /\ DOMAIN c = UskProc /\ \A q \in UskProc : q # p => c[q] = usk_call[q]
        /\ hup => c[p] = NoUskCall
        /\ ~hup => c[p].op = "connect" /\ c[p].s = s /\ c[p].other = srv
    BY <1>0, <1>5 DEF returning, suspended
  <2> HIDE DEF u, c, hup, tab
  <2>3. \/ u[s].quit /\ c[p].op = "none" /\ c[p].s = NoSock /\ c[p].other = NoSock
        \/ c[p].op = "connect" /\ c[p].s = s /\ c[p].other = srv
    BY <2>1, <2>2 DEF NoUskCall
  <2>4. MemOK(u, c)
    BY <1>0, <1>2, <2>1, <2>2, <2>3, WaitCounts
  <2> QED
    BY <2>1, <2>2, <2>4 DEF MemInv, u, c
<1> QED
  BY <1>1, <1>3, <1>4, <1>5, Zenon DEF connect_mistyped, connect_dgram, connect_stream, locking

(* unix_socket_connect, from its wait: the call gives back the reference it
   holds on the server, or returns without it. *)
LEMMA ConnectResumeStep ==
  ASSUME MemInv, NEW p \in UskProc, connect_resume(p) PROVE MemInv'
<1> DEFINE s == usk_call[p].s
           srv == usk_call[p].other
           u == sk'
           c == usk_call'
           went == queued(s)
<1>0. /\ SocksOK(sk) /\ DOMAIN usk_call = UskProc /\ MemOK(sk, usk_call)
      /\ usk_call[p].op = "connect" /\ s \in Sock /\ srv \in Sock /\ NoUskCall.op = "none"
  BY DEF MemInv, MemOK, Attached, connect_resume, NoUskCall
<1>1. /\ \A t \in Sock : /\ u[t].mem = sk[t].mem /\ u[t].open = sk[t].open /\ u[t].reg = sk[t].reg
                         /\ u[t].peer = sk[t].peer /\ u[t].pending = sk[t].pending
                         /\ u[t].refs = sk[t].refs \/ (t = srv /\ u[t].refs = sk[t].refs - 1)
                         /\ sk[t].quit => u[t].quit
      /\ went => u[s].quit
      /\ SocksOK(u)
  <2>1. sk' = [sk EXCEPT ![s].lock = 0, ![s].quit = @ \/ went,
                         ![srv].refs = IF sk[s].state = "CONNECTING" THEN @ ELSE @ - 1,
                         ![srv].lock = IF srv = s THEN 0 ELSE @]
    BY Zenon DEF connect_resume
  <2> HIDE DEF s, srv, went
  <2>2. PICK quit : /\ sk' = [[sk EXCEPT ![s].lock = 0, ![s].quit = quit] EXCEPT
                                ![srv].refs = IF sk[s].state = "CONNECTING" THEN @ ELSE @ - 1,
                                ![srv].lock = IF srv = s THEN 0 ELSE @]
                    /\ quit = (sk[s].quit \/ went)
    BY <1>0, <2>1, ZenonT(40) DEF SocksOK, Linked, SockFields
  <2> DEFINE tab == [sk EXCEPT ![s].lock = 0, ![s].quit = quit]
  <2>3. /\ SocksOK(tab)
        /\ \A t \in Sock : /\ tab[t].mem = sk[t].mem /\ tab[t].open = sk[t].open /\ tab[t].reg = sk[t].reg
                           /\ tab[t].peer = sk[t].peer /\ tab[t].pending = sk[t].pending
                           /\ tab[t].refs = sk[t].refs
                           /\ tab[t].quit = IF t = s THEN quit ELSE sk[t].quit
    BY <1>0 DEF SocksOK, Linked, SockFields
  <2>4. PICK refs, lock : /\ sk' = [tab EXCEPT ![srv].refs = refs, ![srv].lock = lock]
                          /\ refs = tab[srv].refs \/ refs = tab[srv].refs - 1
    BY <2>2, Zenon
  <2> HIDE DEF tab
  <2>5. \A t \in Sock : /\ u[t].mem = tab[t].mem /\ u[t].open = tab[t].open /\ u[t].reg = tab[t].reg
                        /\ u[t].peer = tab[t].peer /\ u[t].pending = tab[t].pending /\ u[t].quit = tab[t].quit
                        /\ u[t].refs = IF t = srv THEN refs ELSE tab[t].refs
                        /\ Linked(u[t])
    BY <1>0, <2>3, <2>4 DEF SocksOK, Linked, SockFields
  <2>6. SocksOK(u)
    BY <2>3, <2>4, <2>5 DEF SocksOK
  <2> HIDE DEF u
  <2>7. ASSUME NEW t \in Sock, sk[t].quit PROVE u[t].quit
    <3>1. t = s => quit
      BY <2>2, <2>7, Zenon
    <3>2. u[t].quit = IF t = s THEN quit ELSE sk[t].quit
      BY <2>3, <2>5
    <3> QED
      BY <2>7, <3>1, <3>2
  <2>8. went => u[s].quit
    BY <1>0, <2>2, <2>3, <2>5, Zenon
  <2> QED
    BY <1>0, <2>3, <2>4, <2>5, <2>6, <2>7, <2>8
<1>2. DOMAIN c = UskProc /\ c[p] = NoUskCall /\ \A q \in UskProc : q # p => c[q] = usk_call[q]
  <2>1. returning(p)
    BY Zenon DEF connect_resume
  <2> QED
    BY <1>0, <2>1 DEF returning
<1> HIDE DEF u, c
<1>3. Returns(sk, u, srv)
  BY <1>1 DEF Returns
<1>4. \A t \in Sock : \A i \in DOMAIN sk[t].pending : sk[t].pending[i] = s => u[s].quit
  BY <1>1 DEF queued
<1>5. c[p].op = "none" /\ c[p].s = NoSock /\ c[p].other = NoSock
  BY <1>2 DEF NoUskCall
<1>6. MemOK(u, c)
  BY <1>0, <1>2, <1>3, <1>4, <1>5, ReturnCounts
<1>7. SocksOK(u) /\ DOMAIN c = UskProc
  BY <1>1, <1>2
<1> QED
  BY <1>6, <1>7 DEF MemInv, u, c

-----------------------------------------------------------------------------
(* unix_socket_accept joins a client to a new socket: each has the other as
   its peer and a reference for it. *)
LEMMA JoinStep ==
  ASSUME NEW tab, NEW c, SocksOK(tab), MemOK(tab, c), NEW new \in Sock, NEW client \in Sock,
         tab[new].mem = "none", Kept(tab, c, client), NEW u, u = joined(tab, new, client)
  PROVE  SocksOK(u) /\ MemOK(u, c)
<1>1. client # new
  BY DEF Kept
<1>2. /\ \A t \in Sock : t \notin {new, client} => u[t] = tab[t]
      /\ u[new].mem = "live" /\ u[new].refs = 2 /\ u[new].peer = client /\ u[new].pending = << >>
      /\ Alike(tab[client], u[client]) /\ u[client].refs = tab[client].refs + 1
      /\ u[client].peer = new /\ u[client].pending = tab[client].pending
      /\ Linked(u[new]) /\ Linked(u[client]) /\ DOMAIN u = Sock
  <2> DEFINE n == [created(new, "STREAM") EXCEPT !.peer = client, !.state = "CONNECTED", !.refs = 2]
  <2>1. n.mem = "live" /\ n.refs = 2 /\ n.peer = client /\ n.pending = << >> /\ Linked(n)
    <3> DEFINE r == created(new, "STREAM")
    <3>1. r.mem = "live" /\ r.pending = << >> /\ Linked(r)
      BY DEF created, unallocated, Linked, SockFields
    <3> HIDE DEF r
    <3>2. n = [r EXCEPT !.peer = client, !.state = "CONNECTED", !.refs = 2]
      BY DEF r
    <3> HIDE DEF n
    <3>3. n.mem = "live" /\ n.refs = 2 /\ n.peer = client /\ n.pending = << >>
      BY <3>1, <3>2 DEF Linked, SockFields
    <3>4. Linked(n)
      BY <3>1, <3>2 DEF Linked, SockFields
    <3> QED
      BY <3>3, <3>4
  <2>2. u = [tab EXCEPT ![new] = n, ![client].peer = new, ![client].state = "CONNECTED", ![client].refs = @ + 1]
    BY DEF joined
  <2> HIDE DEF n
  <2>3. u[new] = n
    BY <1>1, <2>2 DEF SocksOK
  <2>4. /\ DOMAIN u = Sock /\ \A t \in Sock : t \notin {new, client} => u[t] = tab[t]
        /\ Alike(tab[client], u[client]) /\ u[client].refs = tab[client].refs + 1
        /\ u[client].peer = new /\ u[client].pending = tab[client].pending
        /\ DOMAIN u[client] = SockFields
    BY <1>1, <2>2 DEF SocksOK, Linked, SockFields, Alike
  <2>5. Linked(u[client])
    BY <2>4 DEF SocksOK, Linked
  <2> QED
    BY <2>1, <2>3, <2>4, <2>5
<1>3. Joins(tab, u, new, client)
  BY <1>2 DEF Joins
<1>4. SocksOK(u)
  BY <1>2 DEF SocksOK
<1> QED
  BY <1>3, <1>4, JoinCounts

(* A call that is no connect returns. *)
LEMMA EndsCalmer ==
  ASSUME DOMAIN usk_call = UskProc, NEW tab, NEW p \in UskProc, usk_call[p].op # "connect", returning(p)
  PROVE  Calmer(tab, usk_call, usk_call')
BY DEF returning, Calmer, Attached, NoUskCall

(* A call that waits for no other socket begins or goes on to wait. *)
LEMMA WaitsCalmer ==
  ASSUME DOMAIN usk_call = UskProc, NEW tab, NEW p \in UskProc, usk_call[p].op # "connect",
         NEW op \in {"accept", "recv"}, NEW s \in Sock, tab[s].mem = "live", NEW n,
         suspended(p, op, s, NoSock, n)
  PROVE  Calmer(tab, usk_call, usk_call')
BY DEF suspended, Calmer, Attached

(* The loop of unix_socket_accept. *)
LEMMA AcceptTurn ==
  ASSUME MemInv, NEW p \in UskProc, NEW ls \in Sock, sk[ls].mem = "live",
         usk_call[p].op # "connect", accept_turn(p, ls)
  PROVE  MemInv'
<1> DEFINE client == Head(sk[ls].pending)
           popped == [sk EXCEPT ![ls].pending = Tail(@), ![ls].lock = 0]
<1>0. SocksOK(sk) /\ DOMAIN usk_call = UskProc /\ MemOK(sk, usk_call)
  BY DEF MemInv
<1>1. CASE /\ sk[ls].pending = << >>
           /\ returning(p) \/ suspended(p, "accept", ls, NoSock, 0)
           /\ sk' = [sk EXCEPT ![ls].lock = 0]
  <2>1. Steady(sk, sk')
    BY <1>0, <1>1 DEF SocksOK, Linked, SockFields, Steady, Alike, Fewer
  <2>2. Calmer(sk, usk_call, usk_call')
    BY <1>0, <1>1, EndsCalmer, WaitsCalmer
  <2> QED
    BY <1>0, <2>1, <2>2, SteadyKeeps DEF MemInv
<1>2. ASSUME sk[ls].pending # << >>
      PROVE  /\ client \in Sock /\ Steady(sk, popped)
             /\ 1 \in DOMAIN sk[ls].pending /\ client = sk[ls].pending[1]
  <2>1. sk[ls].pending \in Seq(Sock)
    BY <1>0 DEF SocksOK, Linked
  <2>2. /\ client \in Sock /\ Tail(sk[ls].pending) \in Seq(Sock)
        /\ 1 \in DOMAIN sk[ls].pending /\ client = sk[ls].pending[1]
    BY <1>2, <2>1
  <2>3. Fewer(sk[ls].pending, Tail(sk[ls].pending))
    BY <1>2, <2>1 DEF Fewer
  <2>4. \A t \in Sock : Fewer(sk[t].pending, sk[t].pending)
    BY DEF Fewer
  <2>5. Steady(sk, popped)
    BY <1>0, <2>2, <2>3, <2>4 DEF SocksOK, Linked, SockFields, Steady, Alike
  <2> QED
    BY <2>2, <2>5
<1>3. CASE sk[ls].pending # << >> /\ sk' = popped /\ returning(p)
  <2>1. Steady(sk, sk') /\ Calmer(sk, usk_call, usk_call')
    BY <1>0, <1>2, <1>3, EndsCalmer
  <2> QED
    BY <1>0, <2>1, SteadyKeeps DEF MemInv
<1>4. ASSUME NEW new \in Sock, sk[new].mem = "none", sk[ls].pending # << >>,
             sk' = joined(popped, new, client), returning(p)
      PROVE  MemInv'
  <2> DEFINE tab == popped
             c == usk_call'
  <2>1. /\ client \in Sock /\ Steady(sk, tab) /\ SocksOK(tab)
        /\ 1 \in DOMAIN sk[ls].pending /\ client = sk[ls].pending[1]
    BY <1>2, <1>4 DEF Steady
  <2>2. sk' = joined(tab, new, client) /\ Calmer(sk, usk_call, c) /\ DOMAIN c = UskProc
    BY <1>0, <1>4, EndsCalmer DEF Calmer
  <2>3. \A q \in UskProc : usk_call[q].op = "connect" => c[q] = usk_call[q]
    BY <1>0, <1>4 DEF returning
  <2> HIDE DEF tab, c, client
  <2>4. MemOK(tab, c)
    BY <1>0, <2>1, <2>2, SteadyKeeps
  <2>5. Kept(tab, c, client)
    BY <1>0, <2>1, <2>3, StillKept DEF Steady, Alike
  <2>6. tab[new].mem = "none"
    BY <1>4, <2>1 DEF Steady, Alike
  <2>7. SocksOK(sk') /\ MemOK(sk', c)
    BY <2>1, <2>2, <2>4, <2>5, <2>6, JoinStep
  <2> QED
    BY <2>2, <2>7 DEF MemInv, c
<1>5. CASE UNCHANGED <<sk, usk_call>>
  BY <1>5 DEF MemInv
<1> QED
  BY <1>1, <1>3, <1>4, <1>5, Zenon DEF accept_turn, locking, fresh

-----------------------------------------------------------------------------
(* unix_socket_close: the owner's reference goes, and the one on the peer;
   memory is given back with the last. *)
LEMMA CloseStep ==
  ASSUME MemInv, NEW s \in Sock, unix_socket_close(s) PROVE MemInv'
<1> DEFINE waiting == {sk[s].pending[i] : i \in DOMAIN sk[s].pending}
           peer == sk[s].peer
           u == sk'
           c == usk_call
<1>0. /\ SocksOK(sk) /\ MemOK(sk, c) /\ sk[s].open /\ sk[s].mem = "live" /\ NoSock \notin Sock
      /\ \A p \in UskProc : c[p].s # s
  BY UskAssumption DEF MemInv, MemOK, unix_socket_close, usable
<1>1. CASE UNCHANGED <<sk, usk_call>>
  BY <1>1 DEF MemInv
<1>2. CASE /\ peer # s
           /\ sk' = [t \in Sock |-> IF t = s THEN closed(s)
                                    ELSE IF t = peer THEN left_by_peer(t)
                                    ELSE IF t \in waiting THEN refused(sk[t])
                                    ELSE sk[t]]
           /\ UNCHANGED usk_call
  <2>2. sk[s].refs \in Nat
    BY <1>0 DEF MemOK, Covers
  <2>3. /\ u[s].mem \in {"live", "freed"} /\ u[s].open = FALSE /\ u[s].reg = FALSE /\ u[s].quit = sk[s].quit
        /\ u[s].refs = sk[s].refs - 1 /\ u[s].peer = NoSock /\ u[s].pending = << >>
        /\ u[s].mem = "freed" => u[s].refs = 0
        /\ Linked(u[s])
    <3>1. u[s] = closed(s)
      BY <1>2
    <3>2. CASE sk[s].refs = 1
      <4> DEFINE quit == sk[s].quit
      <4>1. u[s] = [unallocated EXCEPT !.mem = "freed", !.state = "CLOSED", !.quit = quit]
        BY <3>1, <3>2 DEF closed
      <4> HIDE DEF quit
      <4>2. /\ u[s].mem = "freed" /\ u[s].open = FALSE /\ u[s].reg = FALSE /\ u[s].quit = quit
            /\ u[s].refs = 0 /\ u[s].peer = NoSock /\ u[s].pending = << >> /\ Linked(u[s])
        BY <4>1 DEF unallocated, Linked, SockFields
      <4> QED
        BY <3>2, <4>2 DEF quit
    <3>3. CASE sk[s].refs # 1
      <4>1. u[s] = [sk[s] EXCEPT !.state = "CLOSED", !.peer = NoSock, !.pending = << >>, !.reg = FALSE,
                                 !.open = FALSE, !.refs = @ - 1]
        BY <3>1, <3>3 DEF closed
      <4>2. /\ u[s].mem = sk[s].mem /\ u[s].open = FALSE /\ u[s].reg = FALSE /\ u[s].quit = sk[s].quit
            /\ u[s].refs = sk[s].refs - 1 /\ u[s].peer = NoSock /\ u[s].pending = << >> /\ Linked(u[s])
        BY <1>0, <4>1 DEF SocksOK, Linked, SockFields
      <4> QED
        BY <1>0, <4>2
    <3> QED
      BY <3>2, <3>3
  <2>4. ASSUME NEW t \in Sock, t # s
        PROVE  /\ Alike(sk[t], u[t]) /\ u[t].peer = sk[t].peer /\ u[t].pending = sk[t].pending
               /\ u[t].refs = IF t = peer THEN sk[t].refs - 1 ELSE sk[t].refs
               /\ Linked(u[t])
    <3>1. u[t] = IF t = peer THEN left_by_peer(t) ELSE IF t \in waiting THEN refused(sk[t]) ELSE sk[t]
      BY <1>2, <2>4
    <3> HIDE DEF u, waiting, peer
    <3> QED
      BY <1>0, <3>1 DEF SocksOK, Linked, SockFields, left_by_peer, refused, Alike
  <2> HIDE DEF u, waiting, c
  <2>5. Closes(sk, u, s)
    BY <2>3, <2>4 DEF Closes, peer
  <2>6. MemOK(u, c)
    BY <1>0, <1>2, <2>5, CloseCounts DEF peer
  <2>7. SocksOK(u)
    BY <1>2, <2>3, <2>4 DEF SocksOK, u
  <2> QED
    BY <1>2, <2>6, <2>7 DEF MemInv, u, c
<1> QED
  BY <1>1, <1>2 DEF unix_socket_close, with_peer, locking

-----------------------------------------------------------------------------
(* Bytes that arrive change no reference. *)
LEMMA StoredSteady ==
  ASSUME SocksOK(sk), NEW d \in Sock, NEW n PROVE Steady(sk, stored(d, n))
<1>1. \A t \in Sock : Fewer(sk[t].pending, sk[t].pending)
  BY DEF Fewer
<1>2. PICK ring, in : stored(d, n) = [sk EXCEPT ![d].ring = ring, ![d].in = in]
  BY Zenon DEF SocksOK, Linked, SockFields, stored
<1> QED
  BY <1>1, <1>2 DEF SocksOK, Linked, SockFields, Steady, Alike

(* The loop of a stream unix_socket_send. *)
LEMMA SendTurn ==
  ASSUME MemInv, NEW p \in UskProc, NEW s \in Sock, NEW d \in Sock, NEW n, sk[s].mem = "live",
         usk_call[p].op # "connect", Refers(sk, usk_call, s, d), send_turn(p, s, d, n)
  PROVE  MemInv'
<1> DEFINE k == least(n, room(UNIX_SOCK_RECV_BUF, sk[d].ring))
<1>0. SocksOK(sk) /\ DOMAIN usk_call = UskProc /\ MemOK(sk, usk_call)
  BY DEF MemInv
<1> HIDE DEF k
<1>1. CASE UNCHANGED <<sk, usk_call>>
  BY <1>1 DEF MemInv
<1>2. CASE sk' = [sk EXCEPT ![s].flags = @ \cup {"PEER_CLOSED"}] /\ returning(p)
  <2>1. Steady(sk, sk')
    BY <1>0, <1>2 DEF SocksOK, Linked, SockFields, Steady, Alike, Fewer
  <2> QED
    BY <1>0, <1>2, <2>1, EndsCalmer, SteadyKeeps DEF MemInv
<1>3. CASE sk' = stored(d, k) /\ (returning(p) \/ suspended(p, "send", s, d, n - k))
  <2>1. suspended(p, "send", s, d, n - k) => Calmer(sk, usk_call, usk_call')
    BY <1>0 DEF suspended, Calmer, Attached
  <2>2. Calmer(sk, usk_call, usk_call')
    BY <1>0, <1>3, <2>1, EndsCalmer
  <2> QED
    BY <1>0, <1>3, <2>2, StoredSteady, SteadyKeeps DEF MemInv
<1> QED
  BY <1>1, <1>2, <1>3 DEF send_turn, locking, k

(* A datagram. *)
LEMMA SendWhole ==
  ASSUME MemInv, NEW d \in Sock, NEW n, send_whole(d, n) PROVE MemInv'
<1>1. CASE UNCHANGED <<sk, usk_call>>
  BY <1>1 DEF MemInv
<1>2. CASE sk' = stored(d, n) /\ UNCHANGED usk_call
  BY <1>2, StoredSteady, SameCalmer, SteadyKeeps DEF MemInv
<1> QED
  BY <1>1, <1>2 DEF send_whole, locking

(* The loop of unix_socket_recv. *)
LEMMA RecvTurn ==
  ASSUME MemInv, NEW p \in UskProc, NEW s \in Sock, NEW n, sk[s].mem = "live",
         usk_call[p].op # "connect", recv_turn(p, s, n)
  PROVE  MemInv'
<1>0. SocksOK(sk) /\ DOMAIN usk_call = UskProc /\ MemOK(sk, usk_call)
  BY DEF MemInv
<1>1. PICK ring, out : sk' = [sk EXCEPT ![s].ring = ring, ![s].out = out, ![s].lock = 0]
  BY <1>0, Zenon DEF SocksOK, Linked, SockFields, recv_turn
<1>2. Steady(sk, sk')
  BY <1>0, <1>1 DEF SocksOK, Linked, SockFields, Steady, Alike, Fewer
<1>3. returning(p) \/ suspended(p, "recv", s, NoSock, n)
  BY DEF recv_turn
<1>4. Calmer(sk, usk_call, usk_call')
  BY <1>0, <1>3, EndsCalmer, WaitsCalmer
<1> QED
  BY <1>0, <1>2, <1>4, SteadyKeeps DEF MemInv

(* unix_socket_bind, unix_socket_listen and unix_socket_shutdown. *)
LEMMA BindStep ==
  ASSUME MemInv, NEW s \in Sock, NEW path, unix_socket_bind(s, path) PROVE MemInv'
<1>1. Steady(sk, sk')
  BY DEF MemInv, SocksOK, Linked, SockFields, Steady, Alike, Fewer, unix_socket_bind
<1> QED
  BY <1>1, SameCalmer, SteadyKeeps DEF MemInv, unix_socket_bind

(* A second listen forgets who waits, and they are held no less. *)
LEMMA ListenStep ==
  ASSUME MemInv, NEW s \in Sock, NEW backlog, unix_socket_listen(s, backlog) PROVE MemInv'
<1>1. CASE UNCHANGED <<sk, usk_call>>
  BY <1>1 DEF MemInv
<1>2. CASE /\ sk' = [sk EXCEPT ![s].backlog = backlog, ![s].pending = << >>, ![s].state = "LISTENING"]
           /\ UNCHANGED usk_call
  <2>1. Steady(sk, sk')
    BY <1>2 DEF MemInv, SocksOK, Linked, SockFields, Steady, Alike, Fewer
  <2> QED
    BY <1>2, <2>1, SameCalmer, SteadyKeeps DEF MemInv
<1> QED
  BY <1>1, <1>2 DEF unix_socket_listen, locking

(* unix_socket_shutdown marks the socket and its peer, and keeps both. *)
LEMMA ShutdownStep ==
  ASSUME MemInv, NEW s \in Sock, NEW how, unix_socket_shutdown(s, how) PROVE MemInv'
<1> DEFINE tab == [t \in Sock |-> IF t = s THEN [sk[s] EXCEPT !.flags = @ \cup how]
                                  ELSE IF t = sk[s].peer THEN [sk[t] EXCEPT !.flags = @ \cup {"PEER_CLOSED"}]
                                  ELSE sk[t]]
<1>1. CASE UNCHANGED <<sk, usk_call>>
  BY <1>1 DEF MemInv
<1>2. Steady(sk, tab)
  BY DEF MemInv, SocksOK, Linked, SockFields, Steady, Alike, Fewer
<1> HIDE DEF tab
<1>3. CASE sk' = tab /\ UNCHANGED usk_call
  BY <1>2, <1>3, SameCalmer, SteadyKeeps DEF MemInv
<1> QED
  BY <1>1, <1>3 DEF unix_socket_shutdown, with_peer, locking, tab

-----------------------------------------------------------------------------
(* No socket has been made, and none is held. *)
LEMMA MemInit == usk_init => MemInv
<1> SUFFICES ASSUME usk_init PROVE MemInv
  OBVIOUS
<1>1. /\ unallocated.mem = "none" /\ unallocated.open = FALSE /\ unallocated.reg = FALSE
      /\ unallocated.refs = 0 /\ unallocated.peer = NoSock /\ unallocated.pending = << >>
      /\ Linked(unallocated)
  BY DEF unallocated, Linked, SockFields
<1>2. NoUskCall.op = "none" /\ NoUskCall.s = NoSock /\ NoUskCall.other = NoSock /\ NoSock \notin Sock
  BY UskAssumption DEF NoUskCall
<1>3. /\ DOMAIN sk = Sock /\ \A f \in Sock : sk[f] = unallocated
      /\ DOMAIN usk_call = UskProc /\ \A p \in UskProc : usk_call[p] = NoUskCall
  BY DEF usk_init
<1>4. \A f \in Sock : /\ sk[f].mem = "none" /\ sk[f].open = FALSE /\ sk[f].reg = FALSE
                      /\ sk[f].refs = 0 /\ sk[f].peer = NoSock /\ sk[f].pending = << >>
  BY <1>1, <1>3
<1>5. \A p \in UskProc : usk_call[p].op = "none" /\ usk_call[p].s = NoSock /\ usk_call[p].other = NoSock
  BY <1>2, <1>3
<1>6. MemOK(sk, usk_call)
  BY <1>2, <1>4, <1>5, NoneCounts, Zenon
<1> QED
  BY <1>1, <1>3, <1>6 DEF MemInv, SocksOK

(* A process that is in a call finds the socket of the call in place. *)
LEMMA InCall ==
  ASSUME MemInv, NEW p \in UskProc, usk_call[p].op # "none"
  PROVE  usk_call[p].s \in Sock /\ sk[usk_call[p].s].mem = "live"
<1>1. Attached(sk, usk_call[p])
  BY DEF MemInv, MemOK
<1> QED
  BY <1>1 DEF Attached

(* The calls that were switched out go on. *)
LEMMA AcceptResumeStep ==
  ASSUME MemInv, NEW p \in UskProc, accept_resume(p) PROVE MemInv'
<1>1. usk_call[p].op = "accept" /\ accept_turn(p, usk_call[p].s)
  BY DEF accept_resume
<1> QED
  BY <1>1, InCall, AcceptTurn

(* A receive goes on. *)
LEMMA RecvResumeStep ==
  ASSUME MemInv, NEW p \in UskProc, recv_resume(p) PROVE MemInv'
<1>1. usk_call[p].op = "recv" /\ recv_turn(p, usk_call[p].s, usk_call[p].n)
  BY DEF recv_resume
<1> QED
  BY <1>1, InCall, RecvTurn

(* A send goes on, to the socket that was its peer when it began. *)
LEMMA SendResumeStep ==
  ASSUME MemInv, NEW p \in UskProc, send_resume(p) PROVE MemInv'
<1> DEFINE s == usk_call[p].s
           d == usk_call[p].other
<1>1. usk_call[p].op = "send" /\ send_turn(p, s, d, usk_call[p].n)
  BY DEF send_resume
<1>2. s \in Sock /\ sk[s].mem = "live"
  BY <1>1, InCall
<1>3. Refers(sk, usk_call, s, d)
  BY <1>1 DEF Refers
<1>4. d \in Sock
  <2>1. Attached(sk, usk_call[p])
    BY DEF MemInv, MemOK
  <2> QED
    BY <1>1, <2>1 DEF Attached
<1> QED
  BY <1>1, <1>2, <1>3, <1>4, SendTurn

(* A process that is in no call, with a socket it has not closed. *)
LEMMA Calling ==
  ASSUME MemInv, NEW p \in UskProc, idle(p), NEW s \in Sock, usable(s)
  PROVE  sk[s].mem = "live" /\ usk_call[p].op # "connect"
<1>1. sk[s].open /\ usk_call[p].op = "none"
  BY DEF idle, usable, NoUskCall
<1> QED
  BY <1>1 DEF MemInv, MemOK

(* unix_socket_accept, unix_socket_recv and unix_socket_send, from their call. *)
LEMMA AcceptStep ==
  ASSUME MemInv, NEW p \in UskProc, NEW s \in Sock, unix_socket_accept(p, s) PROVE MemInv'
<1>1. idle(p) /\ usable(s) /\ (UNCHANGED <<sk, usk_call>> \/ accept_turn(p, s))
  BY Zenon DEF unix_socket_accept
<1>2. CASE UNCHANGED <<sk, usk_call>>
  BY <1>2 DEF MemInv
<1> QED
  BY <1>1, <1>2, Calling, AcceptTurn

(* unix_socket_recv. *)
LEMMA RecvStep ==
  ASSUME MemInv, NEW p \in UskProc, NEW s \in Sock, NEW n, unix_socket_recv(p, s, n) PROVE MemInv'
<1>1. idle(p) /\ usable(s) /\ (UNCHANGED <<sk, usk_call>> \/ recv_turn(p, s, n))
  BY Zenon DEF unix_socket_recv
<1>2. CASE UNCHANGED <<sk, usk_call>>
  BY <1>2 DEF MemInv
<1> QED
  BY <1>1, <1>2, Calling, RecvTurn

(* unix_socket_send. *)
LEMMA SendStep ==
  ASSUME MemInv, NEW p \in UskProc, NEW s \in Sock, NEW n, unix_socket_send(p, s, n) PROVE MemInv'
<1> DEFINE d == sk[s].peer
<1>1. idle(p) /\ usable(s) /\ d # NoSock /\ (send_turn(p, s, d, n) \/ send_whole(d, n))
  BY Zenon DEF unix_socket_send
<1>2. d \in Sock
  BY <1>1 DEF MemInv, SocksOK, Linked
<1>3. Refers(sk, usk_call, s, d)
  BY DEF Refers
<1> HIDE DEF d
<1> QED
  BY <1>1, <1>2, <1>3, Calling, SendTurn, SendWhole

(* Every step of a socket keeps the counts. *)
LEMMA MemStep == MemInv /\ [UskNext]_uskVars => MemInv'
<1> SUFFICES ASSUME MemInv, [UskNext]_uskVars PROVE MemInv'
  OBVIOUS
<1>1. CASE UNCHANGED uskVars
  BY <1>1 DEF uskVars, MemInv
<1>2. CASE \/ \E s \in Sock, type \in UskTypes : unix_socket_create(s, type)
           \/ \E s \in Sock, path \in Path : unix_socket_bind(s, path)
           \/ \E s \in Sock, b \in 1 .. UNIX_SOCK_BACKLOG_MAX : unix_socket_listen(s, b)
           \/ \E s \in Sock : unix_socket_close(s)
  BY <1>2, CreateStep, BindStep, ListenStep, CloseStep
<1>3. CASE \E s \in Shutter, how \in ShutHow : unix_socket_shutdown(s, how)
  BY <1>3, UskAssumption, ShutdownStep
<1>4. CASE \E p \in UskProc : accept_resume(p) \/ connect_resume(p) \/ send_resume(p) \/ recv_resume(p)
  BY <1>4, AcceptResumeStep, ConnectResumeStep, SendResumeStep, RecvResumeStep
<1>5. CASE \E p \in UskProc, s \in Sock :
             \/ unix_socket_accept(p, s)
             \/ \E path \in Path : unix_socket_connect(p, s, path)
             \/ \E n \in UskRecv : unix_socket_recv(p, s, n)
             \/ \E n \in UskSend : unix_socket_send(p, s, n)
  BY <1>5, AcceptStep, ConnectStep, RecvStep, SendStep
<1>6. CASE \E p \in UskProc, s \in Sock, n \in UskSend, path \in Path : unix_socket_sendto(p, s, path, n)
  BY <1>6, SendWhole DEF unix_socket_sendto, find_bound_socket
<1> QED
  BY <1>1, <1>2, <1>3, <1>4, <1>5, <1>6 DEF UskNext

(* Where no reference is counted there is no pointer. *)
LEMMA MemSafe == MemInv => UskMemorySafe
<1> SUFFICES ASSUME MemInv, NEW f \in Sock, sk[f].mem = "freed", ~sk[f].quit
             PROVE  /\ \A s \in Sock : sk[s].peer # f /\ \A i \in DOMAIN sk[s].pending : sk[s].pending[i] # f
                    /\ \A p \in UskProc : usk_call[p].s # f /\ usk_call[p].other # f
  BY DEF UskMemorySafe
<1>1. MemOK(sk, usk_call) /\ NoSock \notin Sock
  BY UskAssumption DEF MemInv
<1> QED
  BY <1>1, FreedUnheld

(***************************************************************************)
(* unix_socket_close gives memory back only when nobody has a pointer to   *)
(* it: no socket has it as its peer or among the clients that wait, and no *)
(* call that was switched out in a loop still uses it.  For any number of  *)
(* sockets and processes, and although connect leaks references; a client  *)
(* whose connect returned while it was still queued (quit) is excepted.    *)
(***************************************************************************)
THEOREM SocketsFreedUnused == UskSpec => []UskMemorySafe
<1> QED
  BY MemInit, MemStep, MemSafe, PTL DEF UskSpec
=============================================================================
