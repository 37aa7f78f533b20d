----------------------------- MODULE RefCounts -----------------------------
(***************************************************************************)
(* The reference counts of the Unix domain sockets, as an argument about   *)
(* two tables of sockets and of suspended calls: the one before a step and *)
(* the one after it.  Nothing here depends on what a socket does with its  *)
(* data; UnixSock_proofs shows that the steps of Streams are of the kinds  *)
(* below.                                                                  *)
(*                                                                         *)
(* The argument: the references counted on a socket are never fewer than   *)
(* its holders.  Every step adds as many holders as it counts at most, and *)
(* gives a reference back only together with a holder; so a socket whose   *)
(* count came down to 0 has none.                                          *)
(***************************************************************************)
EXTENDS Integers, Sequences, TLAPS

CONSTANTS Sock, UskProc, NoSock

(* S has at most n elements: they can be numbered with 1 to n. *)
Covers(n, S) ==
  n \in Nat /\ \E g \in [S -> 1 .. n] : \A x, y \in S : g[x] = g[y] => x = y

(* A count that covers a set covers what is left of it. *)
LEMMA CoverLess ==
  ASSUME NEW n, NEW S, Covers(n, S), NEW T, T \subseteq S
  PROVE  Covers(n, T)
<1>1. PICK g \in [S -> 1 .. n] : \A x, y \in S : g[x] = g[y] => x = y
  BY DEF Covers
<1> DEFINE h == [x \in T |-> g[x]]
<1>2. h \in [T -> 1 .. n] /\ \A x, y \in T : h[x] = h[y] => x = y
  BY <1>1
<1> QED
  BY <1>2, Zenon DEF Covers

(* One more element, one more counted. *)
LEMMA CoverMore ==
  ASSUME NEW n, NEW S, Covers(n, S), NEW z, NEW T, T \subseteq S \cup {z}
  PROVE  Covers(n + 1, T)
<1>1. PICK g \in [S -> 1 .. n] : \A x, y \in S : g[x] = g[y] => x = y
  BY DEF Covers
<1>2. n \in Nat
  BY DEF Covers
<1> DEFINE h == [x \in T |-> IF x \in S THEN g[x] ELSE n + 1]
<1>3. \A x \in S : g[x] \in 1 .. n + 1 /\ g[x] # n + 1
  BY <1>1, <1>2
<1>4. h \in [T -> 1 .. n + 1] /\ \A x, y \in T : h[x] = h[y] => x = y
  BY <1>1, <1>2, <1>3
<1>5. n + 1 \in Nat
  BY <1>2
<1> HIDE DEF h
<1> QED
  BY <1>4, <1>5, Zenon DEF Covers

(* An element less, one less counted: the number it leaves goes to the
   element that had the last.  The count was not 0. *)
LEMMA CoverDrop ==
  ASSUME NEW n, NEW S, Covers(n, S), NEW z \in S, NEW T, T \subseteq S \ {z}
  PROVE  n # 0 /\ Covers(n - 1, T)
<1>1. PICK g \in [S -> 1 .. n] : \A x, y \in S : g[x] = g[y] => x = y
  BY DEF Covers
<1>2. n \in Nat /\ g[z] \in 1 .. n /\ n - 1 \in Nat
  BY <1>1 DEF Covers
<1> DEFINE h == [x \in T |-> IF g[x] = n THEN g[z] ELSE g[x]]
<1>3. \A x \in T : g[x] \in 1 .. n /\ g[x] # g[z]
  BY <1>1
<1>4. \A x \in T : h[x] \in 1 .. n - 1
  BY <1>2, <1>3
<1>5. h \in [T -> 1 .. n - 1] /\ \A x, y \in T : h[x] = h[y] => x = y
  BY <1>1, <1>3, <1>4
<1>6. n # 0
  BY <1>2
<1> HIDE DEF h
<1> QED
  BY <1>2, <1>5, <1>6, Zenon DEF Covers

(* Where nothing is counted there is nothing. *)
LEMMA CoverNone ==
  ASSUME NEW S, Covers(0, S) PROVE S = {}
<1> SUFFICES ASSUME NEW x \in S PROVE FALSE
  OBVIOUS
<1> QED
  BY CoverDrop, Zenon

-----------------------------------------------------------------------------
(***************************************************************************)
(* Who holds a reference on f: the process that has not closed it, the     *)
(* sockets whose peer it is or was when a send on them began to wait, and  *)
(* the connects that wait for it.                                          *)
(***************************************************************************)
Refers(tab, calls, t, f) ==
  \/ tab[t].peer = f
  \/ \E p \in UskProc : calls[p].op = "send" /\ calls[p].s = t /\ calls[p].other = f

Awaits(calls, p, f) == calls[p].op = "connect" /\ calls[p].other = f

Holders(tab, calls, f) ==
  {h \in {"own", "peer", "call"} \X (Sock \cup UskProc) :
     \/ h[1] = "own" /\ h[2] = f /\ tab[f].open
     \/ h[1] = "peer" /\ h[2] \in Sock /\ Refers(tab, calls, h[2], f)
     \/ h[1] = "call" /\ h[2] \in UskProc /\ Awaits(calls, h[2], f)}

(* The fields of unix_sock_t; a socket leads to sockets. *)
SockFields ==
  {"mem", "open", "reg", "type", "state", "path", "peer", "ring", "refs", "pending", "backlog", "flags", "lock",
   "in", "out", "quit"}

Linked(r) == DOMAIN r = SockFields /\ r.peer \in Sock \cup {NoSock} /\ r.pending \in Seq(Sock)

SocksOK(tab) == DOMAIN tab = Sock /\ \A s \in Sock : Linked(tab[s])

(* No reference is left to count, or none was ever taken. *)
Spent(r) == r.mem = "none" \/ (r.mem = "freed" /\ ~r.quit)

(* A socket in a pending list: its connect has not returned, or left it there. *)
Kept(tab, calls, f) ==
  /\ tab[f].mem # "none"
  /\ tab[f].quit \/ \E p \in UskProc : calls[p].op = "connect" /\ calls[p].s = f

(* The sockets of a suspended call. *)
Attached(tab, c) ==
  /\ c.op = "none" => c.s = NoSock
  /\ c.op # "none" => c.s \in Sock /\ tab[c.s].mem = "live"
  /\ IF c.op \in {"connect", "send"} THEN c.other \in Sock ELSE c.other = NoSock

(***************************************************************************)
(* The invariant of the reference counts.  It is >= and not =, because     *)
(* connect leaks references: to a server of the other type, to a server    *)
(* whose client gave up, and to a peer that is replaced.                   *)
(***************************************************************************)
MemOK(tab, calls) ==
  /\ \A f \in Sock : Spent(tab[f]) => tab[f].refs = 0
  /\ \A f \in Sock : tab[f].open \/ tab[f].reg => tab[f].mem = "live"
  /\ \A f \in Sock : Covers(tab[f].refs, Holders(tab, calls, f))
  /\ \A s \in Sock : \A i \in DOMAIN tab[s].pending : Kept(tab, calls, tab[s].pending[i])
  /\ \A p \in UskProc : Attached(tab, calls[p])

(* With none of the three kinds of reference added there is no new holder. *)
LEMMA NoNewHolder ==
  ASSUME NEW tab, NEW calls, NEW u, NEW c, NEW f,
         u[f].open => tab[f].open,
         \A t \in Sock : Refers(u, c, t, f) => Refers(tab, calls, t, f),
         \A p \in UskProc : Awaits(c, p, f) => Awaits(calls, p, f)
  PROVE  Holders(u, c, f) \subseteq Holders(tab, calls, f)
BY DEF Holders

(* A socket t that is referred to, and from where. *)
LEMMA NewPeer ==
  ASSUME NEW tab, NEW calls, NEW u, NEW c, NEW f, NEW s,
         u[f].open => tab[f].open,
         \A t \in Sock : Refers(u, c, t, f) => t = s \/ Refers(tab, calls, t, f),
         \A p \in UskProc : Awaits(c, p, f) => Awaits(calls, p, f)
  PROVE  Holders(u, c, f) \subseteq Holders(tab, calls, f) \cup {<<"peer", s>>}
BY DEF Holders

(* A socket that is new. *)
LEMMA NewOwner ==
  ASSUME NEW tab, NEW calls, NEW u, NEW c, NEW f,
         \A t \in Sock : Refers(u, c, t, f) => Refers(tab, calls, t, f),
         \A p \in UskProc : Awaits(c, p, f) => Awaits(calls, p, f)
  PROVE  Holders(u, c, f) \subseteq Holders(tab, calls, f) \cup {<<"own", f>>}
BY DEF Holders

-----------------------------------------------------------------------------
(* No socket of q that is not one of p. *)
Fewer(p, q) == \A i \in DOMAIN q : \E j \in DOMAIN p : q[i] = p[j]

(* The life of a socket goes on as it was. *)
Alike(r, u) == u.mem = r.mem /\ u.open = r.open /\ u.reg = r.reg /\ u.quit = r.quit

(* A step that takes and drops no reference. *)
Steady(tab, u) ==
  /\ SocksOK(u)
  /\ \A t \in Sock : /\ Alike(tab[t], u[t]) /\ u[t].refs = tab[t].refs /\ u[t].peer = tab[t].peer
                     /\ Fewer(tab[t].pending, u[t].pending)

(* No connect begins or ends, and a send waits for a socket that is held. *)
Calmer(tab, calls, c) ==
  /\ DOMAIN c = UskProc
  /\ \A p \in UskProc :
       \/ c[p] = calls[p]
       \/ /\ calls[p].op # "connect" /\ c[p].op # "connect"
          /\ c[p].op = "send" => Refers(tab, calls, c[p].s, c[p].other)
          /\ Attached(tab, c[p])

(* Under a calmer table of calls a socket refers to no more than it did. *)
LEMMA CalmerRefers ==
  ASSUME NEW tab, NEW calls, NEW c, Calmer(tab, calls, c), NEW t, NEW f, Refers(tab, c, t, f)
  PROVE  Refers(tab, calls, t, f)
<1>1. CASE tab[t].peer = f
  BY <1>1 DEF Refers
<1>2. CASE tab[t].peer # f
  <2>1. PICK p \in UskProc : c[p].op = "send" /\ c[p].s = t /\ c[p].other = f
    BY <1>2 DEF Refers
  <2> QED
    BY <2>1 DEF Calmer, Refers
<1> QED
  BY <1>1, <1>2

(* A step that takes and drops no reference keeps the counts. *)
LEMMA SteadyKeeps ==
  ASSUME NEW tab, NEW calls, NEW u, NEW c, SocksOK(tab), MemOK(tab, calls),
         Steady(tab, u), Calmer(tab, calls, c)
  PROVE  SocksOK(u) /\ DOMAIN c = UskProc /\ MemOK(u, c)
<1>1. \A f \in Sock : Spent(u[f]) => u[f].refs = 0
  BY DEF MemOK, Steady, Alike, Spent
<1>2. \A f \in Sock : u[f].open \/ u[f].reg => u[f].mem = "live"
  BY DEF MemOK, Steady, Alike
<1>3. ASSUME NEW f \in Sock PROVE Covers(u[f].refs, Holders(u, c, f))
  <2>1. \A t \in Sock : Refers(u, c, t, f) => Refers(tab, c, t, f)
    BY DEF Steady, Refers
  <2>2. \A t \in Sock : Refers(u, c, t, f) => Refers(tab, calls, t, f)
    BY <2>1, CalmerRefers
  <2>3. \A p \in UskProc : Awaits(c, p, f) => Awaits(calls, p, f)
    BY DEF Calmer, Awaits
  <2>4. u[f].open => tab[f].open
    BY DEF Steady, Alike
  <2>5. Holders(u, c, f) \subseteq Holders(tab, calls, f)
    BY <2>2, <2>3, <2>4, NoNewHolder
  <2>6. u[f].refs = tab[f].refs /\ Covers(tab[f].refs, Holders(tab, calls, f))
    BY DEF Steady, MemOK
  <2> QED
    BY <2>5, <2>6, CoverLess
<1>4. ASSUME NEW s \in Sock, NEW i \in DOMAIN u[s].pending PROVE Kept(u, c, u[s].pending[i])
  <2>1. PICK j \in DOMAIN tab[s].pending : u[s].pending[i] = tab[s].pending[j]
    BY DEF Steady, Fewer
  <2>2. tab[s].pending \in Seq(Sock)
    BY DEF SocksOK, Linked
  <2> DEFINE f == tab[s].pending[j]
  <2>3. f \in Sock
    BY <2>2
  <2>4. Kept(tab, calls, f)
    BY DEF MemOK
  <2> HIDE DEF f
  <2>5. Kept(u, c, f)
    BY <2>3, <2>4 DEF Kept, Steady, Alike, Calmer
  <2> QED
    BY <2>1, <2>5 DEF f
<1>5. ASSUME NEW p \in UskProc PROVE Attached(u, c[p])
  <2>1. Attached(tab, c[p])
    BY DEF Calmer, MemOK
  <2> QED
    BY <2>1 DEF Attached, Steady, Alike
<1>6. MemOK(u, c)
  BY <1>1, <1>2, <1>3, <1>4, <1>5 DEF MemOK
<1> QED
  BY <1>6 DEF Steady, Calmer

(* Nothing happens to the calls. *)
LEMMA SameCalmer ==
  ASSUME NEW tab, NEW calls, DOMAIN calls = UskProc PROVE Calmer(tab, calls, calls)
BY DEF Calmer

-----------------------------------------------------------------------------
(* A step that takes a reference on srv, for one holder more at most. *)
Took(tab, u, srv) ==
  \A f \in Sock : /\ u[f].mem = tab[f].mem /\ u[f].open = tab[f].open /\ u[f].reg = tab[f].reg
                  /\ tab[f].quit => u[f].quit
                  /\ u[f].refs = IF f = srv THEN tab[f].refs + 1 ELSE tab[f].refs

(* Such a step keeps the counts. *)
LEMMA TakeCounts ==
  ASSUME NEW tab, NEW calls, NEW u, NEW c, MemOK(tab, calls), NEW srv \in Sock, NEW x,
         tab[srv].mem = "live", Took(tab, u, srv),
         Holders(u, c, srv) \subseteq Holders(tab, calls, srv) \cup {x},
         \A f \in Sock : f # srv => Holders(u, c, f) \subseteq Holders(tab, calls, f),
         \A s \in Sock : \A i \in DOMAIN u[s].pending : Kept(u, c, u[s].pending[i]),
         \A p \in UskProc : Attached(tab, c[p])
  PROVE  MemOK(u, c)
<1>1. ASSUME NEW f \in Sock PROVE Covers(u[f].refs, Holders(u, c, f))
  <2>1. Covers(tab[f].refs, Holders(tab, calls, f))
    BY DEF MemOK
  <2>2. CASE f = srv
    BY <2>1, <2>2, CoverMore DEF Took
  <2>3. CASE f # srv
    BY <2>1, <2>3, CoverLess DEF Took
  <2> QED
    BY <2>2, <2>3
<1>2. \A f \in Sock : Spent(u[f]) => u[f].refs = 0
  BY DEF MemOK, Took, Spent
<1>3. \A f \in Sock : u[f].open \/ u[f].reg => u[f].mem = "live"
  BY DEF MemOK, Took
<1>4. \A p \in UskProc : Attached(u, c[p])
  BY DEF Attached, Took
<1> QED
  BY <1>1, <1>2, <1>3, <1>4 DEF MemOK

(* Who waited in a list still waits, where no connect ends. *)
LEMMA StillKept ==
  ASSUME NEW tab, NEW calls, NEW u, NEW c, SocksOK(tab), MemOK(tab, calls),
         \A f \in Sock : u[f].mem = tab[f].mem /\ (tab[f].quit => u[f].quit),
         \A p \in UskProc : calls[p].op = "connect" => c[p] = calls[p],
         NEW s \in Sock, NEW i \in DOMAIN tab[s].pending
  PROVE  Kept(u, c, tab[s].pending[i])
<1> DEFINE f == tab[s].pending[i]
<1>1. tab[s].pending \in Seq(Sock)
  BY DEF SocksOK, Linked
<1>2. f \in Sock
  BY <1>1
<1>3. Kept(tab, calls, f)
  BY DEF MemOK
<1> HIDE DEF f
<1>4. Kept(u, c, f)
  BY <1>2, <1>3 DEF Kept
<1> QED
  BY <1>4 DEF f

(* unix_socket_connect of a datagram socket, or of the wrong type: the
   reference on the server is for the socket that has it as its peer. *)
LEMMA PeerCounts ==
  ASSUME NEW tab, NEW calls, SocksOK(tab), MemOK(tab, calls), NEW s \in Sock, NEW srv \in Sock,
         tab[srv].mem = "live", NEW u, Took(tab, u, srv),
         \A t \in Sock : tab[t].peer = u[t].peer \/ (t = s /\ u[t].peer = srv),
         \A t \in Sock : u[t].pending = tab[t].pending
  PROVE  MemOK(u, calls)
<1>1. \A f, t \in Sock : Refers(u, calls, t, f) => Refers(tab, calls, t, f) \/ (t = s /\ f = srv)
  BY DEF Refers
<1>2. \A f \in Sock : u[f].open => tab[f].open
  BY DEF Took
<1>3. Holders(u, calls, srv) \subseteq Holders(tab, calls, srv) \cup {<<"peer", s>>}
  BY <1>1, <1>2 DEF Holders
<1>4. \A f \in Sock : f # srv => Holders(u, calls, f) \subseteq Holders(tab, calls, f)
  BY <1>1, <1>2, NoNewHolder
<1>5. ASSUME NEW t \in Sock, NEW i \in DOMAIN u[t].pending PROVE Kept(u, calls, u[t].pending[i])
  BY <1>5, StillKept DEF Took
<1>6. \A p \in UskProc : Attached(tab, calls[p])
  BY DEF MemOK
<1> QED
  BY <1>3, <1>4, <1>5, <1>6, TakeCounts

(* unix_socket_connect of a stream joins the list of the server.  The
   reference is for the call that waits, or is leaked by one that returns. *)
LEMMA WaitCounts ==
  ASSUME NEW tab, NEW calls, SocksOK(tab), MemOK(tab, calls), NEW s \in Sock, NEW srv \in Sock,
         tab[s].mem = "live", tab[srv].mem = "live", NEW u, Took(tab, u, srv),
         \A t \in Sock : u[t].peer = tab[t].peer,
         \A t \in Sock : t # srv => u[t].pending = tab[t].pending,
         u[srv].pending = Append(tab[srv].pending, s),
         NEW p \in UskProc, calls[p].op = "none", NEW c, \A q \in UskProc : q # p => c[q] = calls[q],
         \/ u[s].quit /\ c[p].op = "none" /\ c[p].s = NoSock /\ c[p].other = NoSock
         \/ c[p].op = "connect" /\ c[p].s = s /\ c[p].other = srv
  PROVE  MemOK(u, c)
<1>1. \A f, t \in Sock : Refers(u, c, t, f) => Refers(tab, calls, t, f)
  BY DEF Refers
<1>2. \A f \in Sock : u[f].open => tab[f].open
  BY DEF Took
<1>3. \A f \in Sock, q \in UskProc : Awaits(c, q, f) => Awaits(calls, q, f) \/ (q = p /\ f = srv)
  BY DEF Awaits
<1>4. Holders(u, c, srv) \subseteq Holders(tab, calls, srv) \cup {<<"call", p>>}
  BY <1>1, <1>2, <1>3 DEF Holders
<1>5. \A f \in Sock : f # srv => Holders(u, c, f) \subseteq Holders(tab, calls, f)
  BY <1>1, <1>2, <1>3, NoNewHolder
<1>6. \A t \in Sock : \A i \in DOMAIN tab[t].pending : Kept(u, c, tab[t].pending[i])
  BY StillKept DEF Took
<1>7. Kept(u, c, s)
  BY DEF Kept, Took
<1>8. ASSUME NEW t \in Sock, NEW i \in DOMAIN u[t].pending PROVE Kept(u, c, u[t].pending[i])
  <2>1. CASE t = srv
    <3>1. tab[srv].pending \in Seq(Sock)
      BY DEF SocksOK, Linked
    <3>2. u[t].pending[i] = s \/ (i \in DOMAIN tab[srv].pending /\ u[t].pending[i] = tab[srv].pending[i])
      BY <1>8, <2>1, <3>1, SMTT(30)
    <3> QED
      BY <1>6, <1>7, <3>2, Zenon
  <2>2. CASE t # srv
    BY <1>6, <1>8, <2>2
  <2> QED
    BY <2>1, <2>2
<1>9. \A q \in UskProc : Attached(tab, c[q])
  <2>1. \A q \in UskProc : Attached(tab, calls[q])
    BY DEF MemOK
  <2> QED
    BY <2>1 DEF Attached
<1> QED
  BY <1>4, <1>5, <1>8, <1>9, TakeCounts, Zenon

-----------------------------------------------------------------------------
(* A socket that unix_socket_create makes has one reference, its owner's. *)
LEMMA NewCounts ==
  ASSUME NEW tab, NEW calls, SocksOK(tab), MemOK(tab, calls), NoSock \notin Sock,
         NEW s \in Sock, tab[s].mem = "none", NEW u, \A t \in Sock : t # s => u[t] = tab[t],
         u[s].mem = "live", u[s].refs = 1, u[s].peer = NoSock, u[s].pending = << >>
  PROVE  MemOK(u, calls)
<1>3. \A f, t \in Sock : Refers(u, calls, t, f) => Refers(tab, calls, t, f)
  BY DEF Refers
<1>4. ASSUME NEW f \in Sock PROVE Covers(u[f].refs, Holders(u, calls, f))
  <2>1. Covers(tab[f].refs, Holders(tab, calls, f))
    BY DEF MemOK
  <2>2. CASE f = s
    <3>1. tab[f].refs = 0 /\ u[f].refs = 1
      BY <2>2 DEF MemOK, Spent
    <3>2. Holders(u, calls, f) \subseteq Holders(tab, calls, f) \cup {<<"own", f>>}
      BY <1>3, NewOwner
    <3>3. Covers(0 + 1, Holders(u, calls, f))
      BY <2>1, <3>1, <3>2, CoverMore, Zenon
    <3> QED
      BY <3>1, <3>3
  <2>3. CASE f # s
    <3>1. Holders(u, calls, f) \subseteq Holders(tab, calls, f)
      BY <1>3, <2>3, NoNewHolder
    <3> QED
      BY <2>1, <2>3, <3>1, CoverLess
  <2> QED
    BY <2>2, <2>3
<1>5. ASSUME NEW t \in Sock, NEW i \in DOMAIN u[t].pending PROVE Kept(u, calls, u[t].pending[i])
  <2>1. t # s /\ u[t] = tab[t]
    BY <1>5
  <2>2. Kept(tab, calls, tab[t].pending[i]) /\ tab[t].pending[i] \in Sock
    BY <1>5, <2>1 DEF MemOK, SocksOK, Linked
  <2>3. u[tab[t].pending[i]] = tab[tab[t].pending[i]]
    BY <2>2 DEF Kept
  <2> QED
    BY <2>1, <2>2, <2>3 DEF Kept
<1>6. \A p \in UskProc : Attached(u, calls[p])
  BY DEF MemOK, Attached
<1>7. \A f \in Sock : (Spent(u[f]) => u[f].refs = 0) /\ (u[f].open \/ u[f].reg => u[f].mem = "live")
  BY DEF MemOK, Spent
<1> QED
  BY <1>4, <1>5, <1>6, <1>7 DEF MemOK

(* unix_socket_accept joins a client to a new socket: each has the other as
   its peer and a reference for it. *)
Joins(tab, u, new, client) ==
  /\ \A t \in Sock : t \notin {new, client} => u[t] = tab[t]
  /\ u[new].mem = "live" /\ u[new].refs = 2 /\ u[new].peer = client /\ u[new].pending = << >>
  /\ Alike(tab[client], u[client]) /\ u[client].refs = tab[client].refs + 1
  /\ u[client].peer = new /\ u[client].pending = tab[client].pending

(* Both references are counted. *)
LEMMA JoinCounts ==
  ASSUME NEW tab, NEW c, SocksOK(tab), MemOK(tab, c), NEW new \in Sock, NEW client \in Sock,
         tab[new].mem = "none", Kept(tab, c, client), NEW u, Joins(tab, u, new, client)
  PROVE  MemOK(u, c)
<1>1. client # new
  BY DEF Kept
<1>2. /\ \A t \in Sock : t \notin {new, client} => u[t] = tab[t]
      /\ u[new].mem = "live" /\ u[new].refs = 2 /\ u[new].peer = client /\ u[new].pending = << >>
      /\ Alike(tab[client], u[client]) /\ u[client].refs = tab[client].refs + 1
      /\ u[client].peer = new /\ u[client].pending = tab[client].pending
  BY DEF Joins
<1>3. /\ tab[new].refs = 0 /\ ~Spent(tab[client])
      /\ \A p \in UskProc : c[p].op # "none" => c[p].s \in Sock /\ tab[c[p].s].mem = "live"
  <2>1. tab[new].refs = 0
    BY DEF MemOK, Spent
  <2>2. \A p \in UskProc : c[p].op # "none" => c[p].s \in Sock /\ tab[c[p].s].mem = "live"
    BY DEF MemOK, Attached
  <2> QED
    BY <2>1, <2>2 DEF Kept, Spent
<1>4. \A f, t \in Sock : Refers(u, c, t, f) => \/ Refers(tab, c, t, f)
                                               \/ t = new /\ f = client
                                               \/ t = client /\ f = new
  BY <1>2 DEF Refers
<1>5. \A f \in Sock : Covers(tab[f].refs, Holders(tab, c, f))
  BY DEF MemOK
<1>6. Covers(u[client].refs, Holders(u, c, client))
  <2>1. Holders(u, c, client) \subseteq Holders(tab, c, client) \cup {<<"peer", new>>}
    <3>1. u[client].open => tab[client].open
      BY <1>2 DEF Alike
    <3> QED
      BY <1>1, <1>4, <3>1, NewPeer, Zenon
  <2>2. Covers(tab[client].refs, Holders(tab, c, client))
    BY <1>5
  <2>3. Covers(tab[client].refs + 1, Holders(u, c, client))
    BY <2>1, <2>2, CoverMore, Zenon
  <2> QED
    BY <1>2, <2>3
<1>7. Covers(u[new].refs, Holders(u, c, new))
  <2> DEFINE S == Holders(tab, c, new) \cup {<<"own", new>>}
  <2>1. Covers(1, S)
    <3>1. Covers(0 + 1, S)
      BY <1>3, <1>5, CoverMore, Zenon
    <3> QED
      BY <3>1
  <2>2. Holders(u, c, new) \subseteq S \cup {<<"peer", client>>}
    BY <1>1, <1>4 DEF Holders
  <2> HIDE DEF S
  <2>3. Covers(1 + 1, Holders(u, c, new))
    BY <2>1, <2>2, CoverMore, Zenon
  <2> QED
    BY <1>2, <2>3
<1>8. ASSUME NEW f \in Sock PROVE Covers(u[f].refs, Holders(u, c, f))
  <2>1. CASE f \in {new, client}
    BY <1>6, <1>7, <2>1
  <2>2. CASE f \notin {new, client}
    <3>1. u[f] = tab[f]
      BY <1>2, <2>2
    <3>2. Holders(u, c, f) \subseteq Holders(tab, c, f)
      BY <1>4, <2>2, <3>1, NoNewHolder
    <3> QED
      BY <1>5, <3>1, <3>2, CoverLess
  <2> QED
    BY <2>1, <2>2
<1>9. \A f \in Sock : Spent(u[f]) => u[f].refs = 0
  BY <1>2, <1>3 DEF MemOK, Spent, Alike
<1>10. \A f \in Sock : u[f].open \/ u[f].reg => u[f].mem = "live"
  BY <1>2 DEF MemOK, Alike
<1>11. ASSUME NEW t \in Sock, NEW i \in DOMAIN u[t].pending PROVE Kept(u, c, u[t].pending[i])
  <2> DEFINE f == tab[t].pending[i]
  <2>1. t # new /\ u[t].pending = tab[t].pending
    BY <1>2, <1>11
  <2>2. tab[t].pending \in Seq(Sock)
    BY DEF SocksOK, Linked
  <2>3. f \in Sock /\ Kept(tab, c, f)
    BY <1>11, <2>1, <2>2 DEF MemOK
  <2> HIDE DEF f
  <2>4. Kept(u, c, f)
    BY <1>2, <2>3 DEF Kept, Alike
  <2> QED
    BY <2>1, <2>4 DEF f
<1>12. \A p \in UskProc : Attached(u, c[p])
  BY <1>1, <1>2, <1>3 DEF MemOK, Attached, Alike
<1> QED
  BY <1>8, <1>9, <1>10, <1>11, <1>12 DEF MemOK

(* unix_socket_connect returns from its wait: with the reference of the call
   on the server it gives back, or leaks, one. *)
Returns(tab, u, srv) ==
  \A t \in Sock : /\ u[t].mem = tab[t].mem /\ u[t].open = tab[t].open /\ u[t].reg = tab[t].reg
                  /\ u[t].peer = tab[t].peer /\ u[t].pending = tab[t].pending
                  /\ u[t].refs = tab[t].refs \/ (t = srv /\ u[t].refs = tab[t].refs - 1)
                  /\ tab[t].quit => u[t].quit

(* A client that is still in a list has left it there. *)
LEMMA ReturnCounts ==
  ASSUME NEW tab, NEW calls, SocksOK(tab), MemOK(tab, calls), NEW p \in UskProc, calls[p].op = "connect",
         NEW s, s = calls[p].s, NEW srv \in Sock, srv = calls[p].other, NEW u, Returns(tab, u, srv),
         \A t \in Sock : \A i \in DOMAIN tab[t].pending : tab[t].pending[i] = s => u[s].quit,
         NEW c, c[p].op = "none", c[p].s = NoSock, c[p].other = NoSock,
         \A q \in UskProc : q # p => c[q] = calls[q]
  PROVE  MemOK(u, c)
<1>1. \A f, t \in Sock : Refers(u, c, t, f) => Refers(tab, calls, t, f)
  BY DEF Refers, Returns
<1>2. \A f \in Sock, q \in UskProc : Awaits(c, q, f) => q # p /\ Awaits(calls, q, f)
  BY DEF Awaits
<1>3. \A f \in Sock : u[f].open => tab[f].open
  BY DEF Returns
<1>4. \A f \in Sock : Holders(u, c, f) \subseteq Holders(tab, calls, f)
  BY <1>1, <1>2, <1>3, NoNewHolder
<1>5. /\ <<"call", p>> \in Holders(tab, calls, srv)
      /\ Holders(u, c, srv) \subseteq Holders(tab, calls, srv) \ {<<"call", p>>}
  <2>1. <<"call", p>> \in Holders(tab, calls, srv)
    BY DEF Holders, Awaits
  <2>2. <<"call", p>> \notin Holders(u, c, srv)
    BY <1>2 DEF Holders
  <2> QED
    BY <1>4, <2>1, <2>2
<1>6. \A f \in Sock : Covers(tab[f].refs, Holders(tab, calls, f))
  BY DEF MemOK
<1>7. tab[srv].refs # 0 /\ Covers(tab[srv].refs - 1, Holders(u, c, srv))
  BY <1>5, <1>6, CoverDrop
<1>8. \A f \in Sock : Covers(u[f].refs, Holders(u, c, f))
  BY <1>4, <1>6, <1>7, CoverLess DEF Returns
<1>9. \A f \in Sock : Spent(u[f]) => u[f].refs = 0
  BY <1>7 DEF MemOK, Spent, Returns
<1>10. \A f \in Sock : u[f].open \/ u[f].reg => u[f].mem = "live"
  BY DEF MemOK, Returns
<1>11. ASSUME NEW t \in Sock, NEW i \in DOMAIN u[t].pending PROVE Kept(u, c, u[t].pending[i])
  <2> DEFINE f == tab[t].pending[i]
  <2>1. i \in DOMAIN tab[t].pending /\ u[t].pending[i] = f
    BY <1>11 DEF Returns
  <2>2. tab[t].pending \in Seq(Sock)
    BY DEF SocksOK, Linked
  <2>3. f \in Sock /\ Kept(tab, calls, f)
    BY <2>1, <2>2 DEF MemOK
  <2>4. f = s => u[f].quit
    BY <2>1
  <2> HIDE DEF f
  <2>5. Kept(u, c, f)
    BY <2>3, <2>4 DEF Kept, Returns
  <2> QED
    BY <2>1, <2>5
<1>12. \A q \in UskProc : Attached(u, c[q])
  BY DEF MemOK, Attached, Returns
<1> QED
  BY <1>8, <1>9, <1>10, <1>11, <1>12 DEF MemOK

(* unix_socket_close takes the reference of the owner and the one that s has
   on its peer. *)
Closes(tab, u, s) ==
  /\ u[s].mem \in {"live", "freed"} /\ u[s].open = FALSE /\ u[s].reg = FALSE /\ u[s].quit = tab[s].quit
  /\ u[s].refs = tab[s].refs - 1 /\ u[s].peer = NoSock /\ u[s].pending = << >>
  /\ u[s].mem = "freed" => u[s].refs = 0
  /\ \A t \in Sock : t # s =>
       /\ Alike(tab[t], u[t]) /\ u[t].peer = tab[t].peer /\ u[t].pending = tab[t].pending
       /\ u[t].refs = IF t = tab[s].peer THEN tab[t].refs - 1 ELSE tab[t].refs

(* Two holders go with the two references. *)
LEMMA CloseCounts ==
  ASSUME NEW tab, NEW c, SocksOK(tab), MemOK(tab, c), NoSock \notin Sock, NEW s \in Sock,
         tab[s].open, tab[s].peer # s, \A p \in UskProc : c[p].s # s, NEW u, Closes(tab, u, s)
  PROVE  MemOK(u, c)
<1> DEFINE peer == tab[s].peer
<1>1. \A f \in Sock : Covers(tab[f].refs, Holders(tab, c, f))
  BY DEF MemOK
<1>2. \A f, t \in Sock : Refers(u, c, t, f) => t # s /\ Refers(tab, c, t, f)
  BY DEF Refers, Closes
<1>3. \A f \in Sock : u[f].open => f # s /\ tab[f].open
  BY DEF Closes, Alike
<1>4. \A f \in Sock : Holders(u, c, f) \subseteq Holders(tab, c, f)
  BY <1>2, <1>3, NoNewHolder
<1>5. tab[s].refs # 0 /\ Covers(tab[s].refs - 1, Holders(u, c, s))
  <2>1. <<"own", s>> \in Holders(tab, c, s) /\ <<"own", s>> \notin Holders(u, c, s)
    BY <1>3 DEF Holders
  <2>2. Holders(u, c, s) \subseteq Holders(tab, c, s) \ {<<"own", s>>}
    BY <1>4, <2>1
  <2> QED
    BY <1>1, <2>1, <2>2, CoverDrop
<1>6. peer \in Sock => tab[peer].refs # 0 /\ Covers(tab[peer].refs - 1, Holders(u, c, peer))
  <2> SUFFICES ASSUME peer \in Sock
               PROVE  tab[peer].refs # 0 /\ Covers(tab[peer].refs - 1, Holders(u, c, peer))
    OBVIOUS
  <2>1. Refers(tab, c, s, peer) /\ ~Refers(u, c, s, peer)
    BY <1>2 DEF Refers
  <2>2. <<"peer", s>> \in Holders(tab, c, peer) /\ <<"peer", s>> \notin Holders(u, c, peer)
    BY <2>1 DEF Holders
  <2>3. Holders(u, c, peer) \subseteq Holders(tab, c, peer) \ {<<"peer", s>>}
    BY <1>4, <2>2
  <2> QED
    BY <1>1, <2>2, <2>3, CoverDrop
<1>7. \A f \in Sock : Covers(u[f].refs, Holders(u, c, f))
  BY <1>1, <1>4, <1>5, <1>6, CoverLess DEF Closes
<1>8. \A f \in Sock : Spent(u[f]) => u[f].refs = 0
  BY <1>6 DEF MemOK, Spent, Alike, Closes
<1>9. \A f \in Sock : u[f].open \/ u[f].reg => u[f].mem = "live"
  BY DEF MemOK, Alike, Closes
<1>10. ASSUME NEW t \in Sock, NEW i \in DOMAIN u[t].pending PROVE Kept(u, c, u[t].pending[i])
  <2> DEFINE f == tab[t].pending[i]
  <2>1. t # s /\ u[t].pending = tab[t].pending
    BY <1>10 DEF Closes
  <2>2. tab[t].pending \in Seq(Sock)
    BY DEF SocksOK, Linked
  <2>3. f \in Sock /\ Kept(tab, c, f)
    BY <1>10, <2>1, <2>2 DEF MemOK
  <2> HIDE DEF f
  <2>4. u[f].mem # "none" /\ u[f].quit = tab[f].quit
    BY <2>3 DEF Kept, Alike, Closes
  <2>5. Kept(u, c, f)
    BY <2>3, <2>4 DEF Kept
  <2> QED
    BY <2>1, <2>5 DEF f
<1>11. \A p \in UskProc : Attached(u, c[p])
  BY DEF MemOK, Attached, Alike, Closes
<1> QED
  BY <1>7, <1>8, <1>9, <1>10, <1>11 DEF MemOK

-----------------------------------------------------------------------------
(* Before a socket is made none is held. *)
LEMMA NoneCounts ==
  ASSUME NEW tab, NEW calls, NoSock \notin Sock,
         \A f \in Sock : /\ tab[f].mem = "none" /\ tab[f].open = FALSE /\ tab[f].reg = FALSE
                         /\ tab[f].refs = 0 /\ tab[f].peer = NoSock /\ tab[f].pending = << >>,
         \A p \in UskProc : calls[p].op = "none" /\ calls[p].s = NoSock /\ calls[p].other = NoSock
  PROVE  MemOK(tab, calls)
<1>1. ASSUME NEW f \in Sock PROVE Covers(tab[f].refs, Holders(tab, calls, f))
  <2>1. Holders(tab, calls, f) = {}
    BY DEF Holders, Refers, Awaits
  <2>2. Covers(0, {})
    <3>1. [x \in {} |-> 0] \in [{} -> 1 .. 0]
      OBVIOUS
    <3> QED
      BY <3>1 DEF Covers
  <2> QED
    BY <2>1, <2>2
<1>2. \A p \in UskProc : Attached(tab, calls[p])
  BY DEF Attached
<1> QED
  BY <1>1, <1>2 DEF MemOK

(* What was given back is in no table. *)
LEMMA FreedUnheld ==
  ASSUME NEW tab, NEW calls, MemOK(tab, calls), NoSock \notin Sock,
         NEW f \in Sock, tab[f].mem = "freed", ~tab[f].quit
  PROVE  /\ \A s \in Sock : tab[s].peer # f /\ \A i \in DOMAIN tab[s].pending : tab[s].pending[i] # f
         /\ \A p \in UskProc : calls[p].s # f /\ calls[p].other # f
<1>1. Holders(tab, calls, f) = {}
  <2>1. tab[f].refs = 0 /\ Covers(tab[f].refs, Holders(tab, calls, f))
    BY DEF MemOK, Spent
  <2> QED
    BY <2>1, CoverNone
<1>2. \A t \in Sock : ~Refers(tab, calls, t, f)
  <2>1. \A t \in Sock : Refers(tab, calls, t, f) => <<"peer", t>> \in Holders(tab, calls, f)
    BY DEF Holders
  <2> QED
    BY <1>1, <2>1
<1>3. \A p \in UskProc : ~Awaits(calls, p, f)
  <2>1. \A p \in UskProc : Awaits(calls, p, f) => <<"call", p>> \in Holders(tab, calls, f)
    BY DEF Holders
  <2> QED
    BY <1>1, <2>1
<1>4. \A p \in UskProc : Attached(tab, calls[p])
  BY DEF MemOK
<1>5. \A p \in UskProc : calls[p].s # f
  BY <1>4 DEF Attached
<1>6. \A p \in UskProc : calls[p].other # f
  BY <1>2, <1>3, <1>4 DEF Attached, Awaits, Refers
<1>7. \A s \in Sock : \A i \in DOMAIN tab[s].pending : tab[s].pending[i] # f
  BY <1>5 DEF MemOK, Kept
<1>8. \A s \in Sock : tab[s].peer # f
  BY <1>2 DEF Refers
<1> QED
  BY <1>5, <1>6, <1>7, <1>8

=============================================================================
