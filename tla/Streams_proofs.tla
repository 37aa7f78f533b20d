--------------------------- MODULE Streams_proofs ---------------------------
(***************************************************************************)
(* Pipes and Unix sockets keep the order of their bytes.  The argument is  *)
(* one about the ring: its write position is its read position plus the    *)
(* bytes it holds, or that less its size, so that a write touches none of  *)
(* the bytes held and a read moves none.                                   *)
(***************************************************************************)
EXTENDS Streams, TLAPS

(***************************************************************************)
(* A ring in order: the two positions run up to and including the size,    *)
(* and the write position is where the bytes in the ring end.              *)
(***************************************************************************)
Ring(size, r) ==
  /\ r \in [buf : [0 .. size - 1 -> Nat], rpos : 0 .. size, wpos : 0 .. size, bytes : 0 .. size]
  /\ r.wpos = r.rpos + r.bytes \/ r.wpos = r.rpos + r.bytes - size

(* Where the bytes of a ring lie, before and after a write of n bytes of which *)
(* the first ones reach the end of the buffer. *)
Index(size, rpos, j) == place(size, rpos + j - 1)

(* The byte that is j-th in the ring. *)
At(size, r, j) == r.buf[Index(size, r.rpos, j)]

(* A write of n bytes to a ring, of which the first ones reach the end of the buffer. *)
Fits(size, rpos, wpos, bytes, n, lead) ==
  /\ size \in Nat /\ 0 < size /\ rpos \in Nat /\ rpos <= size /\ wpos \in Nat /\ wpos <= size
  /\ bytes \in Nat /\ n \in Nat /\ n <= size - bytes
  /\ wpos = rpos + bytes \/ wpos = rpos + bytes - size
  /\ lead \in Nat /\ lead <= n /\ lead <= size - wpos
  /\ lead = n \/ lead = size - wpos

(* A byte in the ring is not where the write puts its bytes. *)
LEMMA KeptIndex ==
  ASSUME NEW size, NEW rpos, NEW wpos, NEW bytes, NEW n, NEW lead, Fits(size, rpos, wpos, bytes, n, lead),
         NEW j \in 1 .. bytes
  PROVE  /\ Index(size, rpos, j) \in 0 .. size - 1
         /\ Index(size, rpos, j) - wpos \notin 0 .. lead - 1
         /\ ~(Index(size, rpos, j) < n - lead)
BY DEF Index, place, Fits

(* A byte of the data is found where the write put it. *)
LEMMA NewIndex ==
  ASSUME NEW size, NEW rpos, NEW wpos, NEW bytes, NEW n, NEW lead, Fits(size, rpos, wpos, bytes, n, lead),
         NEW j \in bytes + 1 .. bytes + n
  PROVE  /\ Index(size, rpos, j) \in 0 .. size - 1
         /\ Index(size, rpos, j) - wpos \in 0 .. lead - 1 => Index(size, rpos, j) - wpos + 1 = j - bytes
         /\ Index(size, rpos, j) - wpos \notin 0 .. lead - 1 =>
              Index(size, rpos, j) < n - lead /\ lead + Index(size, rpos, j) + 1 = j - bytes
BY DEF Index, place, Fits

(* The write position is in the ring again, behind the bytes written. *)
LEMMA WriteEnd ==
  ASSUME NEW size, NEW rpos, NEW wpos, NEW bytes, NEW n, NEW lead, Fits(size, rpos, wpos, bytes, n, lead)
  PROVE  /\ advance(size, wpos, n) \in 0 .. size
         /\ \/ advance(size, wpos, n) = rpos + (bytes + n)
            \/ advance(size, wpos, n) = rpos + (bytes + n) - size
         /\ bytes + n \in 0 .. size
BY DEF Fits, advance

(* A ring n bytes of which are to be read. *)
Holds(size, rpos, wpos, bytes, n) ==
  /\ size \in Nat /\ 0 < size /\ rpos \in Nat /\ rpos <= size /\ wpos \in Nat /\ wpos <= size
  /\ bytes \in Nat /\ bytes <= size /\ n \in Nat /\ n <= bytes
  /\ wpos = rpos + bytes \/ wpos = rpos + bytes - size

(* The read position is in the ring again, as many bytes before the write position. *)
LEMMA ReadEnd ==
  ASSUME NEW size, NEW rpos, NEW wpos, NEW bytes, NEW n, Holds(size, rpos, wpos, bytes, n)
  PROVE  /\ advance(size, rpos, n) \in 0 .. size
         /\ \/ wpos = advance(size, rpos, n) + (bytes - n)
            \/ wpos = advance(size, rpos, n) + (bytes - n) - size
         /\ bytes - n \in 0 .. size
BY DEF Holds, advance

(* The byte n places on is where it was. *)
LEMMA ReadIndex ==
  ASSUME NEW size, NEW rpos, NEW wpos, NEW bytes, NEW n, Holds(size, rpos, wpos, bytes, n), NEW j \in 1 .. bytes - n
  PROVE  Index(size, advance(size, rpos, n), j) = Index(size, rpos, n + j)
BY DEF Holds, Index, place, advance

(* A byte in the ring is in the buffer. *)
LEMMA IndexRange ==
  ASSUME NEW size, NEW rpos, NEW wpos, NEW bytes, NEW n, Holds(size, rpos, wpos, bytes, n), NEW j \in 1 .. bytes
  PROVE  Index(size, rpos, j) \in 0 .. size - 1
BY DEF Holds, Index, place

(* The lesser of two. *)
LEMMA LeastFacts ==
  ASSUME NEW a \in Nat, NEW b \in Nat
  PROVE  /\ least(a, b) \in Nat /\ least(a, b) <= a /\ least(a, b) <= b
         /\ least(a, b) = a \/ least(a, b) = b
         /\ a <= b => least(a, b) = a
BY DEF least

(* A new ring is in order, and empty. *)
LEMMA EmptyRing ==
  ASSUME NEW size \in Nat \ {0}
  PROVE  Ring(size, ring_init(size)) /\ ring_init(size).bytes = 0
BY DEF Ring, ring_init

(* The fields of a ring. *)
LEMMA RingFields ==
  ASSUME NEW size \in Nat \ {0}, NEW r, Ring(size, r)
  PROVE  /\ size \in Nat /\ 0 < size
         /\ r.rpos \in Nat /\ r.rpos <= size
         /\ r.wpos \in Nat /\ r.wpos <= size
         /\ r.bytes \in Nat /\ r.bytes <= size
         /\ r.buf \in [0 .. size - 1 -> Nat]
         /\ r.wpos = r.rpos + r.bytes \/ r.wpos = r.rpos + r.bytes - size
BY DEF Ring

(* A ring, for a read. *)
LEMMA RingHolds ==
  ASSUME NEW size \in Nat \ {0}, NEW r, Ring(size, r), NEW n \in 0 .. r.bytes
  PROVE  Holds(size, r.rpos, r.wpos, r.bytes, n)
BY RingFields DEF Holds

(* A ring, for a write. *)
LEMMA RingFits ==
  ASSUME NEW size \in Nat \ {0}, NEW r, Ring(size, r), NEW n \in Nat, n <= size - r.bytes
  PROVE  Fits(size, r.rpos, r.wpos, r.bytes, n, least(n, size - r.wpos))
<1>1. size - r.wpos \in Nat
  BY RingFields
<1>2. /\ least(n, size - r.wpos) \in Nat /\ least(n, size - r.wpos) <= n /\ least(n, size - r.wpos) <= size - r.wpos
      /\ least(n, size - r.wpos) = n \/ least(n, size - r.wpos) = size - r.wpos
  <2> DEFINE k == size - r.wpos
  <2> HIDE DEF k
  <2>1. k \in Nat
    BY <1>1 DEF k
  <2>2. least(n, k) \in Nat /\ least(n, k) <= n /\ least(n, k) <= k /\ (least(n, k) = n \/ least(n, k) = k)
    BY <2>1 DEF least
  <2> QED
    BY <2>2 DEF k
<1> QED
  BY <1>2, RingFields DEF Fits

(* The first n bytes, as a sequence. *)
LEMMA ContentsFacts ==
  ASSUME NEW size \in Nat \ {0}, NEW r, Ring(size, r), NEW n \in 0 .. r.bytes
  PROVE  /\ ring_data(size, r, n) \in Seq(Nat)
         /\ Len(ring_data(size, r, n)) = n
         /\ \A j \in 1 .. n : ring_data(size, r, n)[j] = At(size, r, j)
<1> DEFINE d == ring_data(size, r, n)
<1>1. n \in Nat /\ \A j \in 1 .. n : j \in 1 .. r.bytes
  BY RingFields
<1>2. d = [j \in 1 .. n |-> At(size, r, j)]
  BY Zenon DEF ring_data, At, Index
<1>3. \A j \in 1 .. n : At(size, r, j) \in Nat
  <2> TAKE j \in 1 .. n
  <2>1. Index(size, r.rpos, j) \in 0 .. size - 1
    BY <1>1, RingHolds, IndexRange
  <2> QED
    BY <2>1, RingFields DEF At
<1> HIDE DEF d
<1>4. d \in [1 .. n -> Nat]
  BY <1>2, <1>3
<1>5. d \in Seq(Nat) /\ Len(d) = n
  BY <1>1, <1>4
<1> QED
  BY <1>2, <1>5 DEF d

(* The buffer after a write of data of which the first bytes reach its end. *)
Filled(size, r, data, lead) ==
  [i \in 0 .. size - 1 |->
     IF i - r.wpos \in 0 .. lead - 1 THEN data[i - r.wpos + 1]
     ELSE IF i < Len(data) - lead THEN data[lead + i + 1]
     ELSE r.buf[i]]

(* A write leaves bytes in the buffer. *)
LEMMA FilledNat ==
  ASSUME NEW size \in Nat \ {0}, NEW r, Ring(size, r), NEW data \in Seq(Nat),
         NEW lead \in Nat, lead <= Len(data)
  PROVE  Filled(size, r, data, lead) \in [0 .. size - 1 -> Nat]
<1> DEFINE n == Len(data)
<1>1. n \in Nat /\ lead <= n /\ \A k \in 1 .. n : data[k] \in Nat
  OBVIOUS
<1>2. r.wpos \in Nat /\ r.buf \in [0 .. size - 1 -> Nat]
  BY RingFields
<1>3. ASSUME NEW i \in 0 .. size - 1, NEW w \in Nat, i - w \in 0 .. lead - 1 PROVE i - w + 1 \in 1 .. n
  <2> HIDE DEF n
  <2> QED
    BY <1>1, <1>3
<1>4. ASSUME NEW i \in 0 .. size - 1, i < n - lead PROVE lead + i + 1 \in 1 .. n
  <2> HIDE DEF n
  <2> QED
    BY <1>1, <1>4
<1>5. ASSUME NEW i \in 0 .. size - 1
      PROVE  (IF i - r.wpos \in 0 .. lead - 1 THEN data[i - r.wpos + 1]
              ELSE IF i < n - lead THEN data[lead + i + 1]
              ELSE r.buf[i]) \in Nat
  <2>1. CASE i - r.wpos \in 0 .. lead - 1
    <3>1. i - r.wpos + 1 \in 1 .. n
      BY <1>2, <1>3, <2>1
    <3> QED
      BY <1>1, <2>1, <3>1
  <2>2. CASE i - r.wpos \notin 0 .. lead - 1 /\ i < n - lead
    BY <1>1, <1>4, <2>2
  <2>3. CASE i - r.wpos \notin 0 .. lead - 1 /\ ~(i < n - lead)
    BY <1>2, <2>3
  <2> QED
    BY <2>1, <2>2, <2>3
<1> QED
  BY <1>5 DEF Filled

(* The ring after a write there is room for. *)
LEMMA WriteFields ==
  ASSUME NEW size \in Nat \ {0}, NEW r, Ring(size, r), NEW data \in Seq(Nat), Len(data) <= size - r.bytes
  PROVE  /\ Ring(size, ring_write(size, r, data))
         /\ ring_write(size, r, data).bytes = r.bytes + Len(data)
         /\ ring_write(size, r, data).rpos = r.rpos
         /\ ring_write(size, r, data).buf = Filled(size, r, data, least(Len(data), size - r.wpos))
<1> DEFINE n == Len(data)
           lead == least(n, size - r.wpos)
           b == Filled(size, r, data, lead)
           u == ring_write(size, r, data)
           a == advance(size, r.wpos, n)
<1>1. n \in Nat /\ n <= size - r.bytes
  OBVIOUS
<1>2. Fits(size, r.rpos, r.wpos, r.bytes, n, lead)
  <2> HIDE DEF n
  <2> QED
    BY <1>1, RingFits
<1> HIDE DEF n
<1>3. size - r.bytes \in Nat /\ r.rpos \in 0 .. size
  BY RingFields
<1>4. least(n, room(size, r)) = n
  BY <1>1, <1>3, LeastFacts DEF room
<1>5. u = [buf |-> b, rpos |-> r.rpos, wpos |-> a, bytes |-> r.bytes + n]
  BY <1>4, Zenon DEF ring_write, Filled, n
<1>6. lead \in Nat /\ lead <= n
  BY <1>2 DEF Fits
<1> HIDE DEF lead
<1>7. b \in [0 .. size - 1 -> Nat]
  BY <1>6, FilledNat DEF n
<1>8. /\ a \in 0 .. size /\ r.bytes + n \in 0 .. size
      /\ a = r.rpos + (r.bytes + n) \/ a = r.rpos + (r.bytes + n) - size
  BY <1>2, WriteEnd
<1> HIDE DEF a, b, u
<1>9. Ring(size, u)
  BY <1>3, <1>5, <1>7, <1>8 DEF Ring
<1> QED
  BY <1>5, <1>9 DEF b, lead, n, u

(* A write keeps the bytes in the ring and puts the data behind them. *)
LEMMA WriteContents ==
  ASSUME NEW size \in Nat \ {0}, NEW r, Ring(size, r), NEW data \in Seq(Nat), Len(data) <= size - r.bytes,
         NEW j \in 1 .. r.bytes + Len(data)
  PROVE  At(size, ring_write(size, r, data), j) =
           IF j <= r.bytes THEN At(size, r, j) ELSE data[j - r.bytes]
<1> DEFINE n == Len(data)
           lead == least(n, size - r.wpos)
           u == ring_write(size, r, data)
           i == Index(size, r.rpos, j)
<1>1. n \in Nat /\ n <= size - r.bytes
  OBVIOUS
<1>2. u.rpos = r.rpos /\ u.buf = Filled(size, r, data, lead)
  BY WriteFields
<1>3. At(size, u, j) = u.buf[i] /\ At(size, r, j) = r.buf[i]
  BY <1>2 DEF At
<1>4. i \in 0 .. size - 1 =>
        u.buf[i] = IF i - r.wpos \in 0 .. lead - 1 THEN data[i - r.wpos + 1]
                   ELSE IF i < n - lead THEN data[lead + i + 1]
                   ELSE r.buf[i]
  <2> HIDE DEF i, u
  <2> QED
    BY <1>2 DEF Filled
<1>5. Fits(size, r.rpos, r.wpos, r.bytes, n, lead)
  <2> HIDE DEF n
  <2> QED
    BY <1>1, RingFits
<1>6. j \in 1 .. r.bytes + n
  OBVIOUS
<1> HIDE DEF n, u, lead, i
<1>7. CASE j <= r.bytes
  <2>1. j \in 1 .. r.bytes
    BY <1>6, <1>7, <1>1, RingFields
  <2>2. i \in 0 .. size - 1 /\ i - r.wpos \notin 0 .. lead - 1 /\ ~(i < n - lead)
    BY <1>5, <2>1, KeptIndex DEF i
  <2> QED
    BY <1>3, <1>4, <1>7, <2>2 DEF u
<1>8. CASE ~(j <= r.bytes)
  <2>1. j \in r.bytes + 1 .. r.bytes + n
    BY <1>6, <1>8, <1>1, RingFields
  <2>2. /\ i \in 0 .. size - 1
        /\ i - r.wpos \in 0 .. lead - 1 => i - r.wpos + 1 = j - r.bytes
        /\ i - r.wpos \notin 0 .. lead - 1 => i < n - lead /\ lead + i + 1 = j - r.bytes
    BY <1>5, <2>1, NewIndex DEF i
  <2> QED
    BY <1>3, <1>4, <1>8, <2>2 DEF u
<1> QED
  BY <1>7, <1>8

(* A read takes the first n bytes and keeps the others, in order. *)
LEMMA ReadContents ==
  ASSUME NEW size \in Nat \ {0}, NEW r, Ring(size, r), NEW n \in 0 .. r.bytes
  PROVE  /\ Ring(size, ring_read(size, r, n))
         /\ ring_read(size, r, n).bytes = r.bytes - n
         /\ \A j \in 1 .. r.bytes - n : At(size, ring_read(size, r, n), j) = At(size, r, n + j)
<1> DEFINE u == ring_read(size, r, n)
           a == advance(size, r.rpos, n)
<1>1. Holds(size, r.rpos, r.wpos, r.bytes, n)
  BY RingHolds
<1>2. u = [buf |-> r.buf, rpos |-> a, wpos |-> r.wpos, bytes |-> r.bytes - n]
  BY DEF ring_read
<1>3. /\ a \in 0 .. size /\ r.bytes - n \in 0 .. size
      /\ r.wpos = a + (r.bytes - n) \/ r.wpos = a + (r.bytes - n) - size
  BY <1>1, ReadEnd
<1>4. r.wpos \in 0 .. size /\ r.buf \in [0 .. size - 1 -> Nat]
  BY RingFields
<1> HIDE DEF a, u
<1>5. Ring(size, u)
  BY <1>2, <1>3, <1>4 DEF Ring
<1>6. ASSUME NEW j \in 1 .. r.bytes - n PROVE At(size, u, j) = At(size, r, n + j)
  <2>1. Index(size, a, j) = Index(size, r.rpos, n + j)
    BY <1>1, ReadIndex DEF a
  <2> QED
    BY <1>2, <2>1 DEF At
<1> QED
  BY <1>2, <1>5, <1>6 DEF u

-----------------------------------------------------------------------------
(* What has been read, followed by what is in the ring, is what was written. *)
Stream(size, in, r, out) ==
  /\ in \in Seq(Nat) /\ out \in Seq(Nat) /\ Ring(size, r)
  /\ Len(in) = Len(out) + r.bytes
  /\ \A j \in 1 .. Len(out) : in[j] = out[j]
  /\ \A j \in 1 .. r.bytes : in[Len(out) + j] = At(size, r, j)

(* Two sequences one after the other. *)
LEMMA Joined ==
  ASSUME NEW s \in Seq(Nat), NEW t \in Seq(Nat)
  PROVE  /\ s \o t \in Seq(Nat)
         /\ Len(s \o t) = Len(s) + Len(t)
         /\ \A j \in 1 .. Len(s) : (s \o t)[j] = s[j]
         /\ \A j \in 1 .. Len(t) : (s \o t)[Len(s) + j] = t[j]
         /\ Len(s) \in Nat /\ Len(t) \in Nat
OBVIOUS

(* Sequences of the same bytes are the same. *)
LEMMA SameBytes ==
  ASSUME NEW s \in Seq(Nat), NEW t \in Seq(Nat), Len(s) = Len(t), \A j \in 1 .. Len(s) : s[j] = t[j]
  PROVE  s = t
<1> DEFINE D == 1 .. Len(s)
<1>1. s = [j \in D |-> s[j]]
  OBVIOUS
<1>2. t = [j \in D |-> t[j]]
  OBVIOUS
<1>3. \A j \in D : s[j] = t[j]
  OBVIOUS
<1> HIDE DEF D
<1>4. [j \in D |-> s[j]] = [j \in D |-> t[j]]
  BY <1>3
<1> QED
  BY <1>1, <1>2, <1>4

(* A stream, put together. *)
LEMMA StreamWhole ==
  ASSUME NEW size \in Nat \ {0}, NEW in, NEW r, NEW out, Stream(size, in, r, out)
  PROVE  out \o ring_contents(size, r) = in
<1> DEFINE c == ring_contents(size, r)
<1>1. r.bytes \in Nat /\ r.bytes \in 0 .. r.bytes
  BY RingFields DEF Stream
<1>2. c \in Seq(Nat) /\ Len(c) = r.bytes /\ \A j \in 1 .. r.bytes : c[j] = At(size, r, j)
  <2>1. Ring(size, r)
    BY DEF Stream
  <2> QED
    BY <1>1, <2>1, ContentsFacts, Zenon DEF ring_contents
<1> HIDE DEF c
<1>3. out \o c \in Seq(Nat) /\ in \in Seq(Nat) /\ Len(out \o c) = Len(in)
  <2>1. in \in Seq(Nat) /\ out \in Seq(Nat) /\ Len(in) = Len(out) + r.bytes
    BY DEF Stream
  <2>2. out \o c \in Seq(Nat) /\ Len(out \o c) = Len(out) + Len(c)
    BY <1>2, <2>1, Joined
  <2> QED
    BY <1>2, <2>1, <2>2
<1>4. ASSUME NEW j \in 1 .. Len(in) PROVE (out \o c)[j] = in[j]
  <2>1. Len(out) \in Nat /\ Len(in) = Len(out) + r.bytes
    BY DEF Stream
  <2>2. CASE j \in 1 .. Len(out)
    BY <1>2, <2>2, Joined DEF Stream
  <2>3. CASE j \notin 1 .. Len(out)
    <3>1. j - Len(out) \in 1 .. r.bytes /\ Len(out) + (j - Len(out)) = j
      BY <1>1, <2>1, <2>3
    <3>2. PICK k \in 1 .. r.bytes : j = Len(out) + k
      BY <3>1
    <3>3. in[Len(out) + k] = At(size, r, k) /\ out \in Seq(Nat)
      BY DEF Stream
    <3>4. (out \o c)[Len(out) + k] = c[k]
      BY <1>2, <3>3, Joined
    <3> QED
      BY <1>2, <3>2, <3>3, <3>4
  <2> QED
    BY <2>2, <2>3
<1>5. out \o c = in
  BY <1>3, <1>4, SameBytes
<1> QED
  BY <1>5 DEF c

(* A write keeps a stream a stream (ring_write, and the loop of fifo_write). *)
LEMMA StreamWrite ==
  ASSUME NEW size \in Nat \ {0}, NEW in, NEW r, NEW out, Stream(size, in, r, out),
         NEW data \in Seq(Nat), Len(data) <= size - r.bytes
  PROVE  Stream(size, in \o data, ring_write(size, r, data), out)
<1> DEFINE u == ring_write(size, r, data)
           b == r.bytes
<1>1. in \in Seq(Nat) /\ out \in Seq(Nat) /\ Ring(size, r) /\ Len(in) = Len(out) + b
  BY DEF Stream
<1>2. Ring(size, u) /\ u.bytes = b + Len(data)
  BY <1>1, WriteFields
<1>3. ASSUME NEW j \in 1 .. b + Len(data)
      PROVE  At(size, u, j) = IF j <= b THEN At(size, r, j) ELSE data[j - b]
  BY <1>1, <1>3, WriteContents
<1>4. b \in Nat
  BY <1>1, RingFields
<1> HIDE DEF u, b
<1>5. Len(in \o data) = Len(out) + u.bytes
  <2>1. Len(in \o data) = Len(in) + Len(data) /\ Len(in) \in Nat /\ Len(data) \in Nat /\ Len(out) \in Nat
    BY <1>1
  <2> QED
    BY <1>1, <1>2, <1>4, <2>1
<1>6. ASSUME NEW j \in 1 .. Len(out) PROVE (in \o data)[j] = out[j]
  <2>1. j \in 1 .. Len(in)
    BY <1>1, <1>4
  <2> QED
    BY <1>1, <2>1, Joined DEF Stream
<1>7. ASSUME NEW j \in 1 .. u.bytes PROVE (in \o data)[Len(out) + j] = At(size, u, j)
  <2>0. Len(data) \in Nat /\ Len(out) \in Nat /\ j \in 1 .. b + Len(data)
    BY <1>1, <1>2
  <2>1. CASE j <= b
    <3>1. Len(out) + j \in 1 .. Len(in) /\ j \in 1 .. b
      BY <1>1, <1>4, <2>0, <2>1
    <3>2. (in \o data)[Len(out) + j] = in[Len(out) + j]
      BY <1>1, <3>1, Joined
    <3> QED
      BY <1>3, <2>0, <2>1, <3>1, <3>2 DEF Stream, b
  <2>2. CASE ~(j <= b)
    <3>1. j - b \in 1 .. Len(data) /\ Len(out) + j = Len(in) + (j - b)
      BY <1>1, <1>4, <2>0, <2>2
    <3>2. (in \o data)[Len(in) + (j - b)] = data[j - b]
      BY <1>1, <3>1, Joined
    <3> QED
      BY <1>3, <2>0, <2>2, <3>1, <3>2
  <2> QED
    BY <2>1, <2>2
<1>8. in \o data \in Seq(Nat)
  BY <1>1
<1> QED
  BY <1>1, <1>2, <1>5, <1>6, <1>7, <1>8 DEF Stream, u

(* A read keeps a stream a stream (ring_read, and the loop of fifo_read). *)
LEMMA StreamRead ==
  ASSUME NEW size \in Nat \ {0}, NEW in, NEW r, NEW out, Stream(size, in, r, out), NEW n \in 0 .. r.bytes
  PROVE  Stream(size, in, ring_read(size, r, n), out \o ring_data(size, r, n))
<1> DEFINE u == ring_read(size, r, n)
           d == ring_data(size, r, n)
           b == r.bytes
<1>1. in \in Seq(Nat) /\ out \in Seq(Nat) /\ Ring(size, r) /\ Len(in) = Len(out) + b
  BY DEF Stream
<1>2. Ring(size, u) /\ u.bytes = b - n /\ \A j \in 1 .. b - n : At(size, u, j) = At(size, r, n + j)
  BY <1>1, ReadContents
<1>3. d \in Seq(Nat) /\ Len(d) = n /\ \A j \in 1 .. n : d[j] = At(size, r, j)
  BY <1>1, ContentsFacts
<1>4. b \in Nat /\ n \in Nat /\ n <= b /\ Len(out) \in Nat
  BY <1>1, RingFields
<1>5. \A j \in 1 .. b : in[Len(out) + j] = At(size, r, j)
  BY DEF Stream
<1>6. \A j \in 1 .. Len(out) : in[j] = out[j]
  BY DEF Stream
<1> HIDE DEF u, b, d
<1>7. out \o d \in Seq(Nat) /\ Len(out \o d) = Len(out) + n
  BY <1>1, <1>3, Joined
<1>8. Len(in) = Len(out \o d) + u.bytes
  BY <1>1, <1>2, <1>4, <1>7
<1>9. ASSUME NEW j \in 1 .. Len(out \o d) PROVE in[j] = (out \o d)[j]
  <2>1. CASE j \in 1 .. Len(out)
    BY <1>1, <1>3, <1>6, <2>1, Joined
  <2>2. CASE j \notin 1 .. Len(out)
    <3>1. j - Len(out) \in 1 .. n /\ j = Len(out) + (j - Len(out))
      BY <1>4, <1>7, <2>2
    <3>2. PICK k \in 1 .. n : j = Len(out) + k
      BY <3>1
    <3>3. k \in 1 .. b
      BY <1>4
    <3>4. (out \o d)[Len(out) + k] = d[k]
      BY <1>1, <1>3, Joined
    <3> QED
      BY <1>3, <1>5, <3>2, <3>3, <3>4
  <2> QED
    BY <2>1, <2>2
<1>10. ASSUME NEW j \in 1 .. u.bytes PROVE in[Len(out \o d) + j] = At(size, u, j)
  <2>1. j \in 1 .. b - n
    BY <1>2
  <2>2. n + j \in 1 .. b /\ Len(out \o d) + j = Len(out) + (n + j)
    BY <1>4, <1>7, <2>1
  <2> QED
    BY <1>2, <1>5, <2>1, <2>2
<1> QED
  BY <1>1, <1>2, <1>7, <1>8, <1>9, <1>10 DEF Stream, u, d

-----------------------------------------------------------------------------
Reader == "READER_CLOSED"
Writer == "WRITER_CLOSED"

(* Who still has an end of the pipe open, and what is freed when nobody has. *)
Ends ==
  /\ fifo_flags \subseteq {Reader, Writer}
  /\ Reader \in fifo_flags => \A p \in FifoReader : fifo_want[p] = 0
  /\ Writer \in fifo_flags => \A p \in FifoWriter : fifo_rest[p] = << >>
  /\ ref_count = IF Reader \in fifo_flags
                 THEN IF Writer \in fifo_flags THEN 0 ELSE 1
                 ELSE IF Writer \in fifo_flags THEN 1 ELSE 2
  /\ pipe_freed => Reader \in fifo_flags /\ Writer \in fifo_flags

FifoInv ==
  /\ Stream(FIFO_PIPE_SIZE, fifo_in, pipe, fifo_out)
  /\ fifo_want \in [FifoReader -> Nat] /\ fifo_rest \in [FifoWriter -> Seq(Nat)] /\ offered \in Nat
  /\ Ends

(* fifo_create makes an empty stream with two open ends. *)
LEMMA FifoInit == fifo_create => FifoInv
<1> SUFFICES ASSUME fifo_create PROVE FifoInv
  OBVIOUS
<1> DEFINE r == ring_init(FIFO_PIPE_SIZE)
<1>1. Ring(FIFO_PIPE_SIZE, r) /\ r.bytes = 0
  BY FifoAssumption, EmptyRing
<1> HIDE DEF r
<1>2. << >> \in Seq(Nat) /\ Len(<< >>) = 0
  OBVIOUS
<1>3. Stream(FIFO_PIPE_SIZE, << >>, r, << >>)
  BY <1>1, <1>2 DEF Stream
<1>4. Ends
  BY DEF fifo_create, Ends, Reader, Writer
<1> QED
  BY <1>3, <1>4 DEF fifo_create, FifoInv, r

(* The loop of fifo_read. *)
LEMMA ReadKeeps ==
  ASSUME FifoInv, NEW p \in FifoReader, NEW want \in Nat, read_loop(p, want), Reader \notin fifo_flags
  PROVE  FifoInv'
<1> DEFINE n == least(want, pipe.bytes)
<1>1. Ring(FIFO_PIPE_SIZE, pipe) /\ FIFO_PIPE_SIZE \in Nat \ {0}
  BY FifoAssumption DEF FifoInv, Stream
<1>2. pipe.bytes \in Nat
  BY <1>1, RingFields
<1>3. n \in 0 .. pipe.bytes /\ n <= want
  BY <1>2 DEF least
<1>4. /\ pipe' = ring_read(FIFO_PIPE_SIZE, pipe, n)
      /\ fifo_out' = fifo_out \o ring_data(FIFO_PIPE_SIZE, pipe, n)
      /\ fifo_want' = [fifo_want EXCEPT ![p] = IF n = want \/ Writer \in fifo_flags THEN 0 ELSE want - n]
      /\ fifo_flags' = fifo_flags /\ ref_count' = ref_count /\ pipe_freed' = pipe_freed
      /\ fifo_rest' = fifo_rest /\ offered' = offered /\ fifo_in' = fifo_in
  BY DEF read_loop, Writer
<1> HIDE DEF n
<1>5. Stream(FIFO_PIPE_SIZE, fifo_in, pipe, fifo_out)'
  BY <1>1, <1>3, <1>4, StreamRead DEF FifoInv
<1>6. n \in Nat /\ want - n \in Nat
  BY <1>2, <1>3
<1>7. fifo_want' \in [FifoReader -> Nat]
  BY <1>4, <1>6 DEF FifoInv
<1>8. Ends'
  BY <1>4 DEF FifoInv, Ends
<1> QED
  BY <1>4, <1>5, <1>7, <1>8 DEF FifoInv

(* The two parts of a sequence. *)
LEMMA Parted ==
  ASSUME NEW s \in Seq(Nat), NEW n \in 0 .. Len(s)
  PROVE  /\ SubSeq(s, 1, n) \in Seq(Nat) /\ Len(SubSeq(s, 1, n)) = n
         /\ SubSeq(s, n + 1, Len(s)) \in Seq(Nat)
OBVIOUS

(* The loop of fifo_write. *)
LEMMA WriteKeeps ==
  ASSUME FifoInv, NEW p \in FifoWriter, NEW rest \in Seq(Nat), write_loop(p, rest), Writer \notin fifo_flags,
         offered' \in Nat
  PROVE  FifoInv'
<1> DEFINE n == IF Reader \in fifo_flags THEN 0 ELSE least(Len(rest), room(FIFO_PIPE_SIZE, pipe))
           data == SubSeq(rest, 1, n)
<1>1. Ring(FIFO_PIPE_SIZE, pipe) /\ FIFO_PIPE_SIZE \in Nat \ {0}
  BY FifoAssumption DEF FifoInv, Stream
<1>2. pipe.bytes \in Nat /\ FIFO_PIPE_SIZE - pipe.bytes \in Nat /\ Len(rest) \in Nat
  BY <1>1, RingFields
<1>3. n \in 0 .. Len(rest) /\ n <= FIFO_PIPE_SIZE - pipe.bytes
  BY <1>2 DEF least, room
<1>4. /\ pipe' = ring_write(FIFO_PIPE_SIZE, pipe, data)
      /\ fifo_in' = fifo_in \o data
      /\ fifo_rest' = [fifo_rest EXCEPT ![p] = IF Reader \in fifo_flags THEN << >> ELSE SubSeq(rest, n + 1, Len(rest))]
      /\ fifo_flags' = fifo_flags /\ ref_count' = ref_count /\ pipe_freed' = pipe_freed
      /\ fifo_want' = fifo_want /\ fifo_out' = fifo_out
  BY DEF write_loop, Reader
<1> HIDE DEF n
<1>5. data \in Seq(Nat) /\ Len(data) = n /\ SubSeq(rest, n + 1, Len(rest)) \in Seq(Nat)
  BY <1>3, Parted
<1> HIDE DEF data
<1>6. Len(data) <= FIFO_PIPE_SIZE - pipe.bytes
  BY <1>3, <1>5
<1>7. Stream(FIFO_PIPE_SIZE, fifo_in, pipe, fifo_out)'
  BY <1>1, <1>4, <1>5, <1>6, StreamWrite DEF FifoInv
<1>8. fifo_rest' \in [FifoWriter -> Seq(Nat)]
  BY <1>4, <1>5 DEF FifoInv
<1>9. Ends'
  BY <1>4 DEF FifoInv, Ends
<1> QED
  BY <1>4, <1>7, <1>8, <1>9 DEF FifoInv

Opposite(flag, other) ==
  /\ flag # other
  /\ (flag = Reader /\ other = Writer) \/ (flag = Writer /\ other = Reader)

(* One end is closed, the other as it was. *)
LEMMA EndClosed ==
  ASSUME FifoInv, NEW flag, NEW other, Opposite(flag, other), flag \notin fifo_flags,
         fifo_close(flag),
         flag = Reader => \A p \in FifoReader : fifo_want[p] = 0,
         flag = Writer => \A p \in FifoWriter : fifo_rest[p] = << >>
  PROVE  FifoInv'
<1>1. UNCHANGED <<pipe, fifo_want, fifo_rest, offered, fifo_in, fifo_out>>
  BY DEF fifo_close
<1>2. fifo_flags' = fifo_flags \cup {flag} /\ ref_count' = ref_count - 1
  BY DEF fifo_close
<1>3. pipe_freed' = (pipe_freed \/ ref_count = 1)
  BY DEF fifo_close
<1>4. fifo_flags \subseteq {Reader, Writer} /\ ((flag = Reader /\ other = Writer) \/ (flag = Writer /\ other = Reader))
  BY DEF FifoInv, Ends, Opposite
<1>5. ref_count = IF other \in fifo_flags THEN 1 ELSE 2
  BY <1>4 DEF FifoInv, Ends, Opposite
<1>6. ref_count = 1 => other \in fifo_flags
  BY <1>5
<1>7. flag \in fifo_flags' /\ (other \in fifo_flags' <=> other \in fifo_flags) /\ fifo_flags' \subseteq {Reader, Writer}
  BY <1>2, <1>4 DEF Opposite
<1>8. pipe_freed => flag \in fifo_flags
  BY <1>4, Zenon DEF FifoInv, Ends
<1>9. pipe_freed' => Reader \in fifo_flags' /\ Writer \in fifo_flags'
  BY <1>3, <1>4, <1>6, <1>7, <1>8, Zenon
<1>10. ref_count' = IF Reader \in fifo_flags'
                    THEN IF Writer \in fifo_flags' THEN 0 ELSE 1
                    ELSE IF Writer \in fifo_flags' THEN 1 ELSE 2
  BY <1>2, <1>4, <1>5, <1>7
<1>11. /\ Reader \in fifo_flags' => \A p \in FifoReader : fifo_want'[p] = 0
       /\ Writer \in fifo_flags' => \A p \in FifoWriter : fifo_rest'[p] = << >>
  BY <1>1, <1>4, <1>7 DEF FifoInv, Ends
<1>12. Ends'
  BY <1>7, <1>9, <1>10, <1>11 DEF Ends
<1> QED
  BY <1>1, <1>12 DEF FifoInv

(* fifo_close_reader and fifo_close_writer. *)
LEMMA CloseKeeps ==
  ASSUME FifoInv, fifo_close_reader \/ fifo_close_writer
  PROVE  FifoInv'
<1>1. Opposite(Reader, Writer) /\ Opposite(Writer, Reader) /\ Reader # Writer
  BY DEF Opposite, Reader, Writer
<1>2. CASE fifo_close_reader
  <2>1. Reader \notin fifo_flags /\ fifo_close(Reader) /\ \A p \in FifoReader : fifo_want[p] = 0
    BY <1>2 DEF fifo_close_reader, Reader
  <2> QED
    BY <1>1, <2>1, EndClosed
<1>3. CASE fifo_close_writer
  <2>1. Writer \notin fifo_flags /\ fifo_close(Writer) /\ \A p \in FifoWriter : fifo_rest[p] = << >>
    BY <1>3 DEF fifo_close_writer, Writer
  <2> QED
    BY <1>1, <2>1, EndClosed
<1> QED
  BY <1>2, <1>3

(* Every step of a pipe keeps the invariant. *)
LEMMA FifoStep == FifoInv /\ [FifoNext]_fifoVars => FifoInv'
<1> SUFFICES ASSUME FifoInv, [FifoNext]_fifoVars PROVE FifoInv'
  OBVIOUS
<1>1. CASE \E p \in FifoReader, n \in 1 .. FifoChunk : fifo_read(p, n)
  <2>1. PICK p \in FifoReader, n \in 1 .. FifoChunk : fifo_read(p, n)
    BY <1>1
  <2>2. n \in Nat
    BY FifoAssumption
  <2> QED
    BY <2>1, <2>2, ReadKeeps DEF fifo_read, Reader
<1>2. CASE \E p \in FifoReader : fifo_read_resume(p)
  <2>1. PICK p \in FifoReader : fifo_read_resume(p)
    BY <1>2
  <2>2. fifo_want[p] \in Nat /\ fifo_want[p] # 0 /\ read_loop(p, fifo_want[p])
    BY <2>1 DEF FifoInv, fifo_read_resume
  <2>3. Reader \notin fifo_flags
    BY <2>2 DEF FifoInv, Ends
  <2> QED
    BY <2>2, <2>3, ReadKeeps
<1>3. CASE \E p \in FifoWriter, n \in 1 .. FifoChunk : fifo_write(p, n)
  <2>1. PICK p \in FifoWriter, n \in 1 .. FifoChunk : fifo_write(p, n)
    BY <1>3
  <2> DEFINE data == [i \in 1 .. n |-> offered + i]
  <2>2. n \in Nat /\ offered \in Nat
    BY FifoAssumption DEF FifoInv
  <2>3. data \in Seq(Nat)
    <3>1. \A i \in 1 .. n : offered + i \in Nat
      BY <2>2
    <3> QED
      BY <2>2, <3>1
  <2>4. offered' \in Nat /\ Writer \notin fifo_flags /\ write_loop(p, data)
    BY <2>1, <2>2 DEF fifo_write, Writer
  <2> HIDE DEF data
  <2> QED
    BY <2>3, <2>4, WriteKeeps
<1>4. CASE \E p \in FifoWriter : fifo_write_resume(p)
  <2>1. PICK p \in FifoWriter : fifo_write_resume(p)
    BY <1>4
  <2>2. fifo_rest[p] \in Seq(Nat) /\ fifo_rest[p] # << >> /\ write_loop(p, fifo_rest[p]) /\ offered' \in Nat
    BY <2>1 DEF FifoInv, fifo_write_resume
  <2>3. Writer \notin fifo_flags
    BY <2>2 DEF FifoInv, Ends
  <2> QED
    BY <2>2, <2>3, WriteKeeps
<1>5. CASE fifo_close_reader \/ fifo_close_writer
  BY <1>5, CloseKeeps
<1>6. CASE UNCHANGED fifoVars
  BY <1>6 DEF fifoVars, FifoInv, Ends
<1> QED
  BY <1>1, <1>2, <1>3, <1>4, <1>5, <1>6 DEF FifoNext

(* The invariant gives the order of the bytes, and who is left on a freed pipe. *)
LEMMA FifoSafe == FifoInv => FifoOrder
<1> SUFFICES ASSUME FifoInv PROVE FifoOrder
  OBVIOUS
<1>1. fifo_out \o ring_contents(FIFO_PIPE_SIZE, pipe) = fifo_in
  BY FifoAssumption, StreamWhole DEF FifoInv
<1>2. pipe_freed => /\ \A p \in FifoReader : fifo_want[p] = 0
                    /\ \A p \in FifoWriter : fifo_rest[p] = << >>
                    /\ fifo_flags = {Reader, Writer}
  BY DEF FifoInv, Ends
<1> QED
  BY <1>1, <1>2 DEF FifoOrder, Reader, Writer

-----------------------------------------------------------------------------
SockFields ==
  {"mem", "open", "reg", "type", "state", "path", "peer", "ring", "refs", "pending", "backlog", "flags", "lock",
   "in", "out", "quit"}

(* A socket's ring holds the bytes that arrived and were not received. *)
Carries(r) ==
  /\ r.in \in Nat /\ r.out \in Nat /\ Ring(UNIX_SOCK_RECV_BUF, r.ring)
  /\ r.in = r.out + r.ring.bytes
  /\ \A j \in 1 .. r.ring.bytes : At(UNIX_SOCK_RECV_BUF, r.ring, j) = r.out + j

(* A socket leads to sockets. *)
Linked(r) == DOMAIN r = SockFields /\ r.peer \in Sock \cup {NoSock} /\ r.pending \in Seq(Sock)

SocksOK(tab) == DOMAIN tab = Sock /\ \A s \in Sock : Linked(tab[s]) /\ Carries(tab[s])

Calling(c) ==
  /\ c.op # "none" => c.s \in Sock
  /\ c.op \in {"connect", "send"} => c.other \in Sock
  /\ c.n \in Nat

CallsOK(calls) == DOMAIN calls = UskProc /\ \A p \in UskProc : Calling(calls[p])

UskInv == SocksOK(sk) /\ CallsOK(usk_call)

(* The bytes of a socket are not touched. *)
Quiet(r, u) == u.ring = r.ring /\ u.in = r.in /\ u.out = r.out

(* A socket no byte has reached. *)
Silent(u) == u.ring = ring_init(UNIX_SOCK_RECV_BUF) /\ u.in = 0 /\ u.out = 0

(* A socket no byte has reached holds none. *)
LEMMA SilentCarries ==
  ASSUME NEW u, Silent(u) PROVE Carries(u)
BY UskAssumption, EmptyRing DEF Silent, Carries

(* Where no byte moved, the ring holds what it held. *)
LEMMA QuietCarries ==
  ASSUME NEW r, NEW u, Carries(r), Quiet(r, u) PROVE Carries(u)
BY DEF Carries, Quiet

(* A table in which no byte moved. *)
Follows(tab, u) ==
  DOMAIN u = Sock /\ \A s \in Sock : Linked(u[s]) /\ (Quiet(tab[s], u[s]) \/ Silent(u[s]))

(* A call that moves no byte keeps the table in order. *)
LEMMA QuietKeeps ==
  ASSUME NEW tab, NEW u, SocksOK(tab), Follows(tab, u)
  PROVE  SocksOK(u)
BY SilentCarries, QuietCarries DEF SocksOK, Follows

(* A call returns. *)
LEMMA CallEnds ==
  ASSUME CallsOK(usk_call), NEW p, returning(p) PROVE CallsOK(usk_call')
BY DEF CallsOK, Calling, returning, NoUskCall

(* A call waits. *)
LEMMA CallWaits ==
  ASSUME CallsOK(usk_call), NEW p, NEW op, NEW s \in Sock, NEW other, NEW n \in Nat,
         op \in {"connect", "send"} => other \in Sock, suspended(p, op, s, other, n)
  PROVE  CallsOK(usk_call')
BY DEF CallsOK, Calling, suspended

(* Bytes that arrive are numbered on from those that did. *)
LEMMA StoredKeeps ==
  ASSUME SocksOK(sk), NEW d \in Sock, NEW n \in Nat, n <= room(UNIX_SOCK_RECV_BUF, sk[d].ring)
  PROVE  SocksOK(stored(d, n))
<1> DEFINE B == UNIX_SOCK_RECV_BUF
           r == sk[d].ring
           data == numbered(d, n)
           u == ring_write(B, r, data)
           tab == stored(d, n)
<1>1. /\ sk[d].in \in Nat /\ sk[d].out \in Nat /\ Ring(B, r) /\ sk[d].in = sk[d].out + r.bytes
      /\ \A j \in 1 .. r.bytes : At(B, r, j) = sk[d].out + j
  BY DEF SocksOK, Carries
<1>2. B \in Nat \ {0} /\ r.bytes \in Nat
  BY <1>1, UskAssumption, RingFields
<1>3. /\ data \in Seq(Nat) /\ Len(data) = n
      /\ \A j \in 1 .. n : data[j] = sk[d].in + j
  <2>1. data = [j \in 1 .. n |-> sk[d].in + j]
    BY DEF numbered
  <2> HIDE DEF data
  <2>2. \A j \in 1 .. n : sk[d].in + j \in Nat
    BY <1>1
  <2> QED
    BY <2>1, <2>2
<1>4. n <= B - r.bytes
  BY DEF room
<1> HIDE DEF data, B
<1>5. Ring(B, u) /\ u.bytes = r.bytes + n
  <2>1. Len(data) <= B - r.bytes
    BY <1>3, <1>4
  <2>2. Ring(B, r) /\ B \in Nat \ {0} /\ data \in Seq(Nat)
    BY <1>1, <1>2, <1>3, Zenon
  <2>3. Ring(B, u) /\ u.bytes = r.bytes + Len(data)
    <3> HIDE DEF r
    <3> QED
      BY <2>1, <2>2, WriteFields, Zenon
  <2> QED
    BY <1>3, <2>3, Zenon
<1>6. ASSUME NEW j \in 1 .. u.bytes PROVE At(B, u, j) = sk[d].out + j
  <2>1. j \in 1 .. r.bytes + Len(data)
    BY <1>3, <1>5
  <2>2. At(B, u, j) = IF j <= r.bytes THEN At(B, r, j) ELSE data[j - r.bytes]
    BY <1>1, <1>2, <1>3, <1>4, <2>1, WriteContents
  <2>3. CASE j <= r.bytes
    <3>1. j \in 1 .. r.bytes
      BY <1>2, <1>3, <2>1, <2>3
    <3> QED
      BY <1>1, <2>2, <2>3, <3>1
  <2>4. CASE ~(j <= r.bytes)
    <3>1. j - r.bytes \in 1 .. n
      BY <1>2, <1>3, <2>1, <2>4
    <3>2. data[j - r.bytes] = sk[d].in + (j - r.bytes)
      BY <1>3, <3>1
    <3> QED
      BY <1>1, <1>2, <2>2, <2>4, <3>2, SMTT(30)
  <2> QED
    BY <2>3, <2>4
<1>7. /\ DOMAIN tab = Sock
      /\ \A s \in Sock : s # d => tab[s] = sk[s]
      /\ Linked(tab[d])
      /\ tab[d].ring = u /\ tab[d].in = sk[d].in + n /\ tab[d].out = sk[d].out
  BY SMTT(30) DEF SocksOK, Linked, SockFields, stored, B, data
<1> HIDE DEF u, tab, r
<1>8. Carries(tab[d])
  <2>1. sk[d].in + n \in Nat /\ sk[d].in + n = sk[d].out + u.bytes
    BY <1>1, <1>2, <1>5
  <2> QED
    BY <1>1, <1>5, <1>6, <1>7, <2>1 DEF Carries, B
<1> QED
  BY <1>7, <1>8 DEF SocksOK, tab

(* What is received is what comes next. *)
LEMMA ReceivedKeeps ==
  ASSUME SocksOK(sk), NEW s \in Sock, NEW k \in 0 .. sk[s].ring.bytes, NEW tab,
         tab = [sk EXCEPT ![s].ring = ring_read(UNIX_SOCK_RECV_BUF, @, k), ![s].out = @ + k, ![s].lock = 0]
  PROVE  SocksOK(tab)
<1> DEFINE B == UNIX_SOCK_RECV_BUF
           r == sk[s].ring
           u == ring_read(B, r, k)
<1>1. /\ sk[s].in \in Nat /\ sk[s].out \in Nat /\ Ring(B, r) /\ sk[s].in = sk[s].out + r.bytes
      /\ \A j \in 1 .. r.bytes : At(B, r, j) = sk[s].out + j
  BY DEF SocksOK, Carries
<1>2. B \in Nat \ {0} /\ r.bytes \in Nat
  BY <1>1, UskAssumption, RingFields
<1>3. Ring(B, u) /\ u.bytes = r.bytes - k /\ \A j \in 1 .. r.bytes - k : At(B, u, j) = At(B, r, k + j)
  BY <1>1, <1>2, ReadContents
<1>4. /\ DOMAIN tab = Sock
      /\ \A t \in Sock : t # s => tab[t] = sk[t]
      /\ Linked(tab[s])
      /\ tab[s].ring = u /\ tab[s].in = sk[s].in /\ tab[s].out = sk[s].out + k
  BY DEF SocksOK, Linked, SockFields
<1>5. k \in Nat /\ k <= r.bytes
  BY <1>2
<1> HIDE DEF u, r, B
<1>6. ASSUME NEW j \in 1 .. u.bytes PROVE At(B, u, j) = (sk[s].out + k) + j
  <2>1. j \in 1 .. r.bytes - k /\ k + j \in 1 .. r.bytes
    BY <1>2, <1>3, <1>5
  <2> QED
    BY <1>1, <1>3, <1>5, <2>1
<1>7. Carries(tab[s])
  <2>1. sk[s].out + k \in Nat /\ sk[s].in = (sk[s].out + k) + u.bytes
    BY <1>1, <1>2, <1>3, <1>5
  <2> QED
    BY <1>1, <1>3, <1>4, <1>6, <2>1 DEF Carries, B
<1> QED
  BY <1>4, <1>7 DEF SocksOK

-----------------------------------------------------------------------------
(* unix_socket_create. *)
LEMMA CreateKeeps ==
  ASSUME UskInv, NEW s \in Sock, NEW type, unix_socket_create(s, type) PROVE UskInv'
<1>1. Follows(sk, sk')
  BY DEF UskInv, SocksOK, Linked, SockFields, Follows, Quiet, Silent, unix_socket_create, created, unallocated
<1> QED
  BY <1>1, QuietKeeps DEF UskInv, unix_socket_create

(* unix_socket_bind. *)
LEMMA BindKeeps ==
  ASSUME UskInv, NEW s \in Sock, NEW path, unix_socket_bind(s, path) PROVE UskInv'
<1>1. Follows(sk, sk')
  BY DEF UskInv, SocksOK, Linked, SockFields, Follows, Quiet, unix_socket_bind
<1> QED
  BY <1>1, QuietKeeps DEF UskInv, unix_socket_bind

(* unix_socket_listen. *)
LEMMA ListenKeeps ==
  ASSUME UskInv, NEW s \in Sock, NEW backlog, unix_socket_listen(s, backlog) PROVE UskInv'
<1>1. CASE UNCHANGED <<sk, usk_call>>
  BY <1>1 DEF UskInv
<1>2. CASE /\ sk' = [sk EXCEPT ![s].backlog = backlog, ![s].pending = << >>, ![s].state = "LISTENING"]
           /\ UNCHANGED usk_call
  <2>1. Follows(sk, sk')
    BY <1>2 DEF UskInv, SocksOK, Linked, SockFields, Follows, Quiet
  <2> QED
    BY <1>2, <2>1, QuietKeeps DEF UskInv
<1> QED
  BY <1>1, <1>2 DEF unix_socket_listen, locking

(* The loop of unix_socket_accept: a client that waits is joined to a new socket. *)
LEMMA AcceptTurnKeeps ==
  ASSUME UskInv, NEW p, NEW ls \in Sock, accept_turn(p, ls) PROVE UskInv'
<1> DEFINE client == Head(sk[ls].pending)
           popped == [sk EXCEPT ![ls].pending = Tail(@), ![ls].lock = 0]
<1>0. SocksOK(sk) /\ CallsOK(usk_call) /\ 0 \in Nat
  BY DEF UskInv
<1>1. CASE /\ sk[ls].pending = << >>
           /\ returning(p) \/ suspended(p, "accept", ls, NoSock, 0)
           /\ sk' = [sk EXCEPT ![ls].lock = 0]
  <2>1. Follows(sk, sk')
    BY <1>0, <1>1 DEF SocksOK, Linked, SockFields, Follows, Quiet
  <2>2. CallsOK(usk_call')
    BY <1>0, <1>1, CallEnds, CallWaits
  <2> QED
    BY <1>0, <2>1, <2>2, QuietKeeps DEF UskInv
<1>2. ASSUME sk[ls].pending # << >>
      PROVE  /\ client \in Sock
             /\ Follows(sk, popped)
  <2>1. sk[ls].pending \in Seq(Sock)
    BY <1>0 DEF SocksOK, Linked
  <2>2. client \in Sock /\ Tail(sk[ls].pending) \in Seq(Sock)
    BY <1>2, <2>1
  <2> QED
    BY <1>0, <2>2 DEF SocksOK, Linked, SockFields, Follows, Quiet
<1>3. CASE sk[ls].pending # << >> /\ sk' = popped /\ returning(p)
  BY <1>0, <1>2, <1>3, QuietKeeps, CallEnds DEF UskInv
<1>4. ASSUME NEW new \in Sock, sk[ls].pending # << >>, sk' = joined(popped, new, client), returning(p)
      PROVE  UskInv'
  <2>1. SocksOK(popped) /\ client \in Sock
    BY <1>0, <1>2, <1>4, QuietKeeps
  <2> HIDE DEF popped, client
  <2> DEFINE n == [created(new, "STREAM") EXCEPT !.peer = client, !.state = "CONNECTED", !.refs = 2]
  <2>2. Linked(n) /\ Silent(n)
    <3> DEFINE c == created(new, "STREAM")
    <3>1. Linked(c) /\ Silent(c)
      BY DEF Linked, SockFields, Silent, created, unallocated
    <3> HIDE DEF c
    <3>2. Linked([c EXCEPT !.peer = client, !.state = "CONNECTED", !.refs = 2])
      BY <2>1, <3>1 DEF Linked, SockFields
    <3>3. Silent([c EXCEPT !.peer = client, !.state = "CONNECTED", !.refs = 2])
      BY <3>1 DEF Linked, SockFields, Silent
    <3> QED
      BY <3>2, <3>3 DEF c
  <2>3. sk' = [popped EXCEPT ![new] = n, ![client].peer = new, ![client].state = "CONNECTED", ![client].refs = @ + 1]
    BY <1>4 DEF joined
  <2> HIDE DEF n
  <2>4. Follows(popped, sk')
    <3>1. DOMAIN sk' = Sock /\ \A t \in Sock : t \notin {new, client} => sk'[t] = popped[t]
      BY <2>1, <2>3 DEF SocksOK
    <3>2. client # new => /\ sk'[new] = n
                          /\ Linked(sk'[client]) /\ Quiet(popped[client], sk'[client])
      BY <2>1, <2>3 DEF SocksOK, Linked, SockFields, Quiet
    <3>3. client = new => Linked(sk'[new]) /\ Silent(sk'[new])
      BY <2>1, <2>2, <2>3 DEF SocksOK, Linked, SockFields, Silent
    <3>4. \A t \in Sock : Linked(popped[t]) /\ Quiet(popped[t], popped[t])
      BY <2>1 DEF SocksOK, Quiet
    <3> QED
      BY <2>2, <3>1, <3>2, <3>3, <3>4 DEF Follows
  <2> QED
    BY <1>0, <1>4, <2>1, <2>4, QuietKeeps, CallEnds DEF UskInv
<1>5. CASE UNCHANGED <<sk, usk_call>>
  BY <1>5 DEF UskInv
<1> QED
  BY <1>1, <1>3, <1>4, <1>5 DEF accept_turn, locking

(* unix_socket_accept, from its call. *)
LEMMA AcceptKeeps ==
  ASSUME UskInv, NEW p, NEW s \in Sock, unix_socket_accept(p, s) PROVE UskInv'
<1>1. CASE UNCHANGED <<sk, usk_call>>
  BY <1>1 DEF UskInv
<1> QED
  BY <1>1, AcceptTurnKeeps DEF unix_socket_accept

(* unix_socket_accept, from its wait. *)
LEMMA AcceptResumeKeeps ==
  ASSUME UskInv, NEW p \in UskProc, accept_resume(p) PROVE UskInv'
<1>1. usk_call[p].s \in Sock
  BY DEF UskInv, CallsOK, Calling, accept_resume
<1> QED
  BY <1>1, AcceptTurnKeeps DEF accept_resume

(* unix_socket_connect, from its call. *)
LEMMA ConnectKeeps ==
  ASSUME UskInv, NEW p, NEW s \in Sock, NEW path, unix_socket_connect(p, s, path) PROVE UskInv'
<1>0. SocksOK(sk) /\ CallsOK(usk_call) /\ 0 \in Nat
  BY DEF UskInv
<1>1. PICK srv \in Sock : connect_mistyped(p, s, srv) \/ connect_dgram(p, s, srv) \/ connect_stream(p, s, srv)
  BY DEF unix_socket_connect, find_bound_socket
<1>2. CASE UNCHANGED <<sk, usk_call>>
  BY <1>2 DEF UskInv
<1>3. CASE sk' = [sk EXCEPT ![srv].refs = @ + 1] /\ UNCHANGED usk_call
  <2>1. Follows(sk, sk')
    BY <1>0, <1>3 DEF SocksOK, Linked, SockFields, Follows, Quiet
  <2> QED
    BY <1>0, <1>3, <2>1, QuietKeeps DEF UskInv
<1>4. CASE /\ sk' = [[sk EXCEPT ![srv].refs = @ + 1] EXCEPT ![s].peer = srv, ![s].state = "CONNECTED"]
           /\ UNCHANGED usk_call
  <2>1. Follows(sk, sk')
    BY <1>0, <1>4 DEF SocksOK, Linked, SockFields, Follows, Quiet
  <2> QED
    BY <1>0, <1>4, <2>1, QuietKeeps DEF UskInv
<1>5. CASE /\ sk' = [[sk EXCEPT ![srv].refs = @ + 1, ![srv].pending = Append(@, s)]
                       EXCEPT ![s].state = "CONNECTING", ![s].quit = @ \/ "PEER_CLOSED" \in sk[s].flags]
           /\ returning(p) \/ suspended(p, "connect", s, srv, 0)
  <2>1. \A t \in Sock : Append(sk[t].pending, s) \in Seq(Sock)
    <3> TAKE t \in Sock
    <3>1. sk[t].pending \in Seq(Sock)
      BY <1>0 DEF SocksOK, Linked
    <3> QED
      BY <3>1
  <2>2. Follows(sk, sk')
    <3> DEFINE tab == [sk EXCEPT ![srv].refs = @ + 1, ![srv].pending = Append(@, s)]
    <3>1. Follows(sk, tab)
      BY <1>0, <2>1, SMTT(30) DEF SocksOK, Linked, SockFields, Follows, Quiet
    <3> HIDE DEF tab
    <3>2. PICK quit : sk' = [tab EXCEPT ![s].state = "CONNECTING", ![s].quit = quit]
      BY <1>5 DEF tab
    <3> QED
      BY <3>1, <3>2 DEF SocksOK, Linked, SockFields, Follows, Quiet, Silent
  <2>3. CallsOK(usk_call')
    BY <1>0, <1>5, CallEnds, CallWaits
  <2> QED
    BY <1>0, <2>2, <2>3, QuietKeeps DEF UskInv
<1> QED
  BY <1>1, <1>2, <1>3, <1>4, <1>5 DEF connect_mistyped, connect_dgram, connect_stream, locking

(* unix_socket_connect, from its wait. *)
LEMMA ConnectResumeKeeps ==
  ASSUME UskInv, NEW p \in UskProc, connect_resume(p) PROVE UskInv'
<1> DEFINE s == usk_call[p].s
           srv == usk_call[p].other
<1>0. SocksOK(sk) /\ CallsOK(usk_call)
  BY DEF UskInv
<1>1. s \in Sock /\ srv \in Sock
  BY DEF UskInv, CallsOK, Calling, connect_resume
<1>2. /\ sk' = [sk EXCEPT ![s].lock = 0, ![s].quit = @ \/ queued(s),
                          ![srv].refs = IF sk[s].state = "CONNECTING" THEN @ ELSE @ - 1,
                          ![srv].lock = IF srv = s THEN 0 ELSE @]
      /\ returning(p)
  BY DEF connect_resume
<1> HIDE DEF s, srv
<1>3. Follows(sk, sk')
  <2>1. DOMAIN sk = Sock /\ \A t \in Sock : Linked(sk[t])
    BY <1>0 DEF SocksOK
  <2>2. DOMAIN sk' = Sock
    BY <1>2, <2>1
  <2>3. ASSUME NEW t \in Sock PROVE Linked(sk'[t]) /\ Quiet(sk[t], sk'[t])
    <3>1. /\ DOMAIN sk[t] = SockFields
          /\ sk[t].peer \in Sock \cup {NoSock} /\ sk[t].pending \in Seq(Sock)
      BY <2>1 DEF Linked
    <3>2. /\ DOMAIN sk'[t] = DOMAIN sk[t]
          /\ sk'[t].peer = sk[t].peer /\ sk'[t].pending = sk[t].pending
          /\ sk'[t].ring = sk[t].ring /\ sk'[t].in = sk[t].in /\ sk'[t].out = sk[t].out
      BY <1>1, <1>2, <2>1, <3>1 DEF SockFields
    <3> QED
      BY <3>1, <3>2, Zenon DEF Linked, Quiet
  <2> QED
    BY <2>2, <2>3, Zenon DEF Follows
<1> QED
  BY <1>0, <1>2, <1>3, QuietKeeps, CallEnds DEF UskInv

(* The loop of a stream unix_socket_send. *)
LEMMA SendTurnKeeps ==
  ASSUME UskInv, NEW p, NEW s \in Sock, NEW d \in Sock, NEW n \in Nat, send_turn(p, s, d, n) PROVE UskInv'
<1> DEFINE k == least(n, room(UNIX_SOCK_RECV_BUF, sk[d].ring))
<1>0. SocksOK(sk) /\ CallsOK(usk_call)
  BY DEF UskInv
<1>1. room(UNIX_SOCK_RECV_BUF, sk[d].ring) \in Nat
  BY <1>0, UskAssumption, RingFields DEF SocksOK, Carries, room
<1>2. k \in Nat /\ k <= room(UNIX_SOCK_RECV_BUF, sk[d].ring) /\ n - k \in Nat
  BY <1>1 DEF least
<1> HIDE DEF k
<1>3. CASE UNCHANGED <<sk, usk_call>>
  BY <1>3 DEF UskInv
<1>4. CASE sk' = [sk EXCEPT ![s].flags = @ \cup {"PEER_CLOSED"}] /\ returning(p)
  <2>1. Follows(sk, sk')
    BY <1>0, <1>4 DEF SocksOK, Linked, SockFields, Follows, Quiet
  <2> QED
    BY <1>0, <1>4, <2>1, QuietKeeps, CallEnds DEF UskInv
<1>5. CASE sk' = stored(d, k) /\ (returning(p) \/ suspended(p, "send", s, d, n - k))
  BY <1>0, <1>2, <1>5, StoredKeeps, CallEnds, CallWaits DEF UskInv
<1> QED
  BY <1>3, <1>4, <1>5 DEF send_turn, locking, k

(* A datagram, whole or not at all. *)
LEMMA SendWholeKeeps ==
  ASSUME UskInv, NEW d \in Sock, NEW n \in Nat, send_whole(d, n) PROVE UskInv'
<1>1. CASE UNCHANGED <<sk, usk_call>>
  BY <1>1 DEF UskInv
<1>2. CASE room(UNIX_SOCK_RECV_BUF, sk[d].ring) >= n /\ sk' = stored(d, n) /\ UNCHANGED usk_call
  <2>1. room(UNIX_SOCK_RECV_BUF, sk[d].ring) \in Nat
    BY UskAssumption, RingFields DEF UskInv, SocksOK, Carries, room
  <2>2. n <= room(UNIX_SOCK_RECV_BUF, sk[d].ring)
    BY <1>2, <2>1
  <2> QED
    BY <1>2, <2>2, StoredKeeps DEF UskInv
<1> QED
  BY <1>1, <1>2 DEF send_whole, locking

(* unix_socket_send, from its call. *)
LEMMA SendKeeps ==
  ASSUME UskInv, NEW p, NEW s \in Sock, NEW n \in Nat, unix_socket_send(p, s, n) PROVE UskInv'
<1>1. sk[s].peer \in Sock
  BY DEF UskInv, SocksOK, Linked, unix_socket_send
<1>2. CASE send_turn(p, s, sk[s].peer, n)
  BY <1>1, <1>2, SendTurnKeeps, Zenon
<1>3. CASE send_whole(sk[s].peer, n)
  BY <1>1, <1>3, SendWholeKeeps, Zenon
<1> QED
  BY <1>2, <1>3, Zenon DEF unix_socket_send

(* unix_socket_sendto. *)
LEMMA SendToKeeps ==
  ASSUME UskInv, NEW p, NEW s \in Sock, NEW path, NEW n \in Nat, unix_socket_sendto(p, s, path, n) PROVE UskInv'
BY SendWholeKeeps DEF unix_socket_sendto, find_bound_socket

(* unix_socket_send, from its wait. *)
LEMMA SendResumeKeeps ==
  ASSUME UskInv, NEW p \in UskProc, send_resume(p) PROVE UskInv'
<1>1. usk_call[p].s \in Sock /\ usk_call[p].other \in Sock /\ usk_call[p].n \in Nat
  BY DEF UskInv, CallsOK, Calling, send_resume
<1> QED
  BY <1>1, SendTurnKeeps DEF send_resume

(* The loop of unix_socket_recv. *)
LEMMA RecvTurnKeeps ==
  ASSUME UskInv, NEW p, NEW s \in Sock, NEW n \in Nat, recv_turn(p, s, n) PROVE UskInv'
<1> DEFINE k == least(n, sk[s].ring.bytes)
<1>0. SocksOK(sk) /\ CallsOK(usk_call)
  BY DEF UskInv
<1>1. sk[s].ring.bytes \in Nat
  BY <1>0, UskAssumption, RingFields DEF SocksOK, Carries
<1>2. k \in 0 .. sk[s].ring.bytes
  BY <1>1 DEF least
<1> HIDE DEF k
<1>3. sk' = [sk EXCEPT ![s].ring = ring_read(UNIX_SOCK_RECV_BUF, @, k), ![s].out = @ + k, ![s].lock = 0]
  BY DEF recv_turn, k
<1>4. SocksOK(sk')
  BY <1>0, <1>2, <1>3, ReceivedKeeps
<1>5. returning(p) \/ suspended(p, "recv", s, NoSock, n)
  BY DEF recv_turn
<1> QED
  BY <1>0, <1>4, <1>5, CallEnds, CallWaits DEF UskInv

(* unix_socket_recv, from its call. *)
LEMMA RecvKeeps ==
  ASSUME UskInv, NEW p, NEW s \in Sock, NEW n \in Nat, unix_socket_recv(p, s, n) PROVE UskInv'
<1>1. CASE UNCHANGED <<sk, usk_call>>
  BY <1>1 DEF UskInv
<1> QED
  BY <1>1, RecvTurnKeeps DEF unix_socket_recv

(* unix_socket_recv, from its wait. *)
LEMMA RecvResumeKeeps ==
  ASSUME UskInv, NEW p \in UskProc, recv_resume(p) PROVE UskInv'
<1>1. usk_call[p].s \in Sock /\ usk_call[p].n \in Nat
  BY DEF UskInv, CallsOK, Calling, recv_resume
<1> QED
  BY <1>1, RecvTurnKeeps DEF recv_resume

(* unix_socket_shutdown. *)
LEMMA ShutdownKeeps ==
  ASSUME UskInv, NEW s \in Sock, NEW how, unix_socket_shutdown(s, how) PROVE UskInv'
<1> DEFINE tab == [t \in Sock |-> IF t = s THEN [sk[s] EXCEPT !.flags = @ \cup how]
                                  ELSE IF t = sk[s].peer THEN [sk[t] EXCEPT !.flags = @ \cup {"PEER_CLOSED"}]
                                  ELSE sk[t]]
<1>1. CASE UNCHANGED <<sk, usk_call>>
  BY <1>1 DEF UskInv
<1>2. Follows(sk, tab)
  BY DEF UskInv, SocksOK, Linked, SockFields, Follows, Quiet
<1> HIDE DEF tab
<1>3. CASE sk' = tab /\ UNCHANGED usk_call
  BY <1>2, <1>3, QuietKeeps DEF UskInv
<1> QED
  BY <1>1, <1>3 DEF unix_socket_shutdown, with_peer, locking, tab

(* unix_socket_close: the ring of a freed socket is a new one. *)
LEMMA CloseSockKeeps ==
  ASSUME UskInv, NEW s \in Sock, unix_socket_close(s) PROVE UskInv'
<1> DEFINE waiting == {sk[s].pending[i] : i \in DOMAIN sk[s].pending}
           tab == [t \in Sock |-> IF t = s THEN closed(s)
                                  ELSE IF t = sk[s].peer THEN left_by_peer(t)
                                  ELSE IF t \in waiting THEN refused(sk[t])
                                  ELSE sk[t]]
<1>1. CASE UNCHANGED <<sk, usk_call>>
  BY <1>1 DEF UskInv
<1>2. ASSUME NEW t \in Sock
      PROVE  Linked(sk[t]) /\ Quiet(sk[t], sk[t])
  BY DEF UskInv, SocksOK, Quiet
<1>3. Linked(closed(s)) /\ (Quiet(sk[s], closed(s)) \/ Silent(closed(s)))
  BY <1>2 DEF Linked, SockFields, Quiet, Silent, closed, unallocated
<1>4. ASSUME NEW t \in Sock PROVE Linked(left_by_peer(t)) /\ Quiet(sk[t], left_by_peer(t))
  BY <1>2 DEF Linked, SockFields, Quiet, left_by_peer
<1>5. ASSUME NEW t \in Sock PROVE Linked(refused(sk[t])) /\ Quiet(sk[t], refused(sk[t]))
  BY <1>2 DEF Linked, SockFields, Quiet, refused
<1>6. Follows(sk, tab)
  BY <1>2, <1>3, <1>4, <1>5 DEF Follows
<1> HIDE DEF tab
<1>7. CASE sk' = tab /\ UNCHANGED usk_call
  BY <1>6, <1>7, QuietKeeps DEF UskInv
<1> QED
  BY <1>1, <1>7 DEF unix_socket_close, with_peer, locking, tab

-----------------------------------------------------------------------------
(* No socket has been made. *)
LEMMA UskInit == usk_init => UskInv
<1> SUFFICES ASSUME usk_init PROVE UskInv
  OBVIOUS
<1>1. Linked(unallocated) /\ Silent(unallocated)
  BY SMTT(30) DEF Linked, SockFields, Silent, unallocated
<1>2. SocksOK(sk)
  BY <1>1, SilentCarries DEF usk_init, SocksOK
<1>3. CallsOK(usk_call)
  BY DEF usk_init, CallsOK, Calling, NoUskCall
<1> QED
  BY <1>2, <1>3, SMTT(30) DEF UskInv

(* Every step of a socket keeps the invariant. *)
LEMMA UskStep == UskInv /\ [UskNext]_uskVars => UskInv'
<1> SUFFICES ASSUME UskInv, [UskNext]_uskVars PROVE UskInv'
  OBVIOUS
<1>1. CASE UNCHANGED uskVars
  BY <1>1 DEF uskVars, UskInv
<1>2. \A n \in UskSend \cup UskRecv : n \in Nat
  BY UskAssumption
<1>3. CASE \/ \E s \in Sock, type \in UskTypes : unix_socket_create(s, type)
           \/ \E s \in Sock, path \in Path : unix_socket_bind(s, path)
           \/ \E s \in Sock, b \in 1 .. UNIX_SOCK_BACKLOG_MAX : unix_socket_listen(s, b)
           \/ \E s \in Sock : unix_socket_close(s)
  BY <1>3, CreateKeeps, BindKeeps, ListenKeeps, CloseSockKeeps
<1>4. CASE \E s \in Shutter, how \in ShutHow : unix_socket_shutdown(s, how)
  BY <1>4, UskAssumption, ShutdownKeeps
<1>5. CASE \E p \in UskProc : accept_resume(p) \/ connect_resume(p) \/ send_resume(p) \/ recv_resume(p)
  BY <1>5, AcceptResumeKeeps, ConnectResumeKeeps, SendResumeKeeps, RecvResumeKeeps
<1>6. CASE \E p \in UskProc, s \in Sock :
             \/ unix_socket_accept(p, s)
             \/ \E path \in Path : unix_socket_connect(p, s, path)
             \/ \E n \in UskRecv : unix_socket_recv(p, s, n)
             \/ \E n \in UskSend : \/ unix_socket_send(p, s, n)
                                   \/ \E path \in Path : unix_socket_sendto(p, s, path, n)
  BY <1>2, <1>6, AcceptKeeps, ConnectKeeps, RecvKeeps, SendKeeps, SendToKeeps
<1> QED
  BY <1>1, <1>3, <1>4, <1>5, <1>6 DEF UskNext

(* The invariant gives the order of the bytes. *)
LEMMA UskSafe == UskInv => UskOrder
<1> SUFFICES ASSUME UskInv, NEW s \in Sock
             PROVE  ring_contents(UNIX_SOCK_RECV_BUF, sk[s].ring) = [j \in 1 .. sk[s].in - sk[s].out |-> sk[s].out + j]
  BY SMTT(30) DEF UskOrder
<1> DEFINE r == sk[s].ring
           c == ring_contents(UNIX_SOCK_RECV_BUF, r)
           w == [j \in 1 .. sk[s].in - sk[s].out |-> sk[s].out + j]
<1>1. /\ sk[s].in \in Nat /\ sk[s].out \in Nat /\ Ring(UNIX_SOCK_RECV_BUF, r) /\ sk[s].in = sk[s].out + r.bytes
      /\ \A j \in 1 .. r.bytes : At(UNIX_SOCK_RECV_BUF, r, j) = sk[s].out + j
  BY DEF UskInv, SocksOK, Carries
<1>2. r.bytes \in 0 .. r.bytes /\ r.bytes \in Nat
  BY <1>1, UskAssumption, RingFields, SMTT(30)
<1>3. c \in Seq(Nat) /\ Len(c) = r.bytes /\ \A j \in 1 .. r.bytes : c[j] = At(UNIX_SOCK_RECV_BUF, r, j)
  <2>1. UNIX_SOCK_RECV_BUF \in Nat \ {0} /\ Ring(UNIX_SOCK_RECV_BUF, r)
    BY <1>1, UskAssumption, Zenon
  <2> HIDE DEF r
  <2> QED
    BY <1>2, <2>1, ContentsFacts, Zenon DEF ring_contents
<1>4. sk[s].in - sk[s].out = r.bytes /\ \A j \in 1 .. r.bytes : sk[s].out + j \in Nat
  BY <1>1, <1>2
<1>5. w = [j \in 1 .. r.bytes |-> sk[s].out + j]
  BY <1>4
<1> HIDE DEF w, c, r
<1>6. w \in Seq(Nat) /\ Len(w) = r.bytes /\ \A j \in 1 .. r.bytes : w[j] = sk[s].out + j
  BY <1>2, <1>4, <1>5
<1>7. c = w
  <2>1. Len(c) = Len(w) /\ \A j \in 1 .. Len(c) : c[j] = w[j]
    BY <1>1, <1>3, <1>6
  <2> QED
    BY <1>3, <1>6, <2>1, SameBytes
<1> QED
  BY <1>7 DEF w, c, r

(***************************************************************************)
(* A pipe and a Unix socket hand out the bytes they were given, each once  *)
(* and in order, whatever the size of the ring, the sizes of the calls,    *)
(* the number of processes and where the two positions of fifo_write,      *)
(* fifo_read, ring_write and ring_read wrap; and no process is left in a   *)
(* call on a pipe that was freed.                                          *)
(***************************************************************************)
THEOREM StreamsInOrder == FifoSpec /\ UskSpec => []StreamOrder
<1>1. FifoInv /\ UskInv => StreamOrder
  BY FifoSafe, UskSafe DEF StreamOrder
<1> QED
  BY <1>1, FifoInit, FifoStep, UskInit, UskStep, PTL DEF FifoSpec, UskSpec
=============================================================================
