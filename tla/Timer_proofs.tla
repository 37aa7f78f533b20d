---------------------------- MODULE Timer_proofs ----------------------------
(***************************************************************************)
(* The timer wheel and the list of high resolution timers, for every size  *)
(* of the wheel, every set of timers and every delay.                      *)
(***************************************************************************)
EXTENDS Timer, WellFoundedInduction, TLAPS

(* A non-empty set of naturals has a least element. *)
LEMMA LeastExists ==
  ASSUME NEW S, S \subseteq Nat, S # {}
  PROVE  \E m \in S : \A k \in S : m <= k
<1>1. PICK m \in S : \A k \in S : ~ (<<k, m>> \in OpToRel(<, Nat))
  BY WFMin, NatLessThanWellFounded
<1>2. \A k \in S : ~ (k < m)
  BY <1>1 DEF OpToRel
<1>3. m \in Nat /\ \A k \in S : k \in Nat
  OBVIOUS
<1>4. \A k \in S : m <= k
  BY <1>2, <1>3
<1> QED
  BY <1>4


(* What holds of 0 and of the successor of every number below n holds up to n. *)
LEMMA IntervalInduction ==
  ASSUME NEW n \in Nat, NEW S, 0 \in S,
         \A i \in 0 .. n - 1 : i \in S => i + 1 \in S
  PROVE  \A i \in 0 .. n : i \in S
<1> DEFINE Out == {i \in 0 .. n : i \notin S}
<1> SUFFICES ASSUME Out # {} PROVE FALSE
  OBVIOUS
<1>1. PICK m \in Out : \A k \in Out : m <= k
  <2>1. Out \subseteq Nat
    OBVIOUS
  <2> HIDE DEF Out
  <2> QED
    BY <2>1, LeastExists
<1>2. m \in 1 .. n
  OBVIOUS
<1>3. m - 1 \in 0 .. n - 1 /\ m - 1 \in S
  BY <1>1, <1>2
<1>4. (m - 1) + 1 \in S
  BY <1>3
<1> QED
  BY <1>2, <1>4

-----------------------------------------------------------------------------
(* The timer wheel *)

Wheels == [Level -> [Bucket -> Seq(Timers)]]
Entries == [state : {"INACTIVE", "ACTIVE", "EXPIRED"}, expires : Nat, oneshot : {0, 1}]

(* The wheel w holds the timers of S, each in one place. *)
Placed(w, S) ==
  /\ w \in Wheels
  /\ \A l \in Level, i \in Bucket : \A j, k \in 1 .. Len(w[l][i]) :
       w[l][i][j] = w[l][i][k] => j = k
  /\ \A l, m \in Level, i, j \in Bucket : \A t \in Timers :
       t \in Range(w[l][i]) /\ t \in Range(w[m][j]) => l = m /\ i = j
  /\ \A t \in Timers : t \in S <=> \E l \in Level, i \in Bucket : t \in Range(w[l][i])

(* A slot of level 0 holds the timers that expire when its turn comes next, or before. *)
Dated(w, tm, now) ==
  \A i \in Bucket : \A t \in Range(w[0][i]) :
    tm[t].expires % SIZE = i /\ tm[t].expires < now + SIZE

Good(w, S, tm, now) == Placed(w, S) /\ Dated(w, tm, now)

(* What the assumption on the wheel says of its levels and slots. *)
LEMMA SizeFacts == SIZE \in Nat /\ SIZE > 0 /\ Level = 0 .. 3 /\ 0 \in Level /\ 1 \in Level
BY TimerAssumption DEF SIZE, Level

(* A remainder is a slot. *)
LEMMA InBucket ==
  ASSUME NEW x \in Nat
  PROVE  x % SIZE \in Bucket
BY SizeFacts DEF Bucket

(* A list stands for at least one tick. *)
LEMMA SpanFacts ==
  ASSUME NEW l \in Level
  PROVE  span(l) \in Nat /\ span(l) > 0
<1>1. SIZE \in Nat \ {0}
  BY SizeFacts
<1>2. SIZE * SIZE \in Nat /\ SIZE * SIZE > 0
  BY <1>1
<1>3. SIZE * SIZE * SIZE \in Nat /\ SIZE * SIZE * SIZE > 0
  <2> DEFINE q == SIZE * SIZE
  <2>1. q \in Nat /\ q > 0
    BY <1>2
  <2> HIDE DEF q
  <2>2. q * SIZE \in Nat /\ q * SIZE > 0
    BY <1>1, <2>1
  <2> QED
    BY <2>2 DEF q
<1> QED
  BY <1>1, <1>2, <1>3 DEF span

(* Every expiry has a slot, on level 0 the one of the tick itself. *)
LEMMA IndexFacts ==
  ASSUME NEW e \in Nat, NEW l \in Level
  PROVE  index(e, l) \in Bucket /\ index(e, 0) = e % SIZE
<1>1. span(l) \in Nat /\ span(l) > 0
  BY SpanFacts
<1>2. e \div span(l) \in Nat
  BY <1>1
<1>3. e \div 1 = e /\ span(0) = 1
  BY DEF span
<1> QED
  BY <1>2, <1>3, InBucket DEF index

(* A timer goes to level 0 only if it expires within one turn of that level. *)
LEMMA LevelFacts ==
  ASSUME NEW d \in Int
  PROVE  level(d) \in Level /\ (level(d) = 0 => d < SIZE)
BY SizeFacts DEF level

(* A timer whose slot has come is due: the counters agree modulo the size of a level. *)
LEMMA SameSlot ==
  ASSUME NEW x \in Nat, NEW y \in Nat, x % SIZE = y % SIZE, x < y + SIZE
  PROVE  x <= y
<1> DEFINE a == x \div SIZE
           b == y \div SIZE
           r == x % SIZE
<1>1. SIZE \in Nat \ {0}
  BY SizeFacts
<1>2. x = SIZE * a + r /\ y = SIZE * b + r /\ a \in Nat /\ b \in Nat /\ r \in Nat
  BY <1>1
<1> HIDE DEF a, b, r
<1>3. SIZE * a < SIZE * b + SIZE
  <2>1. SIZE * a \in Nat /\ SIZE * b \in Nat
    BY <1>1, <1>2
  <2> QED
    BY <1>1, <1>2, <2>1
<1>4. a <= b
  <2> SUFFICES ASSUME a >= b + 1 PROVE FALSE
    BY <1>2
  <2>1. a - b - 1 \in Nat
    BY <1>2
  <2>2. SIZE * (a - b - 1) >= 0
    BY <1>1, <2>1
  <2>3. SIZE * (a - b - 1) = SIZE * a - SIZE * b - SIZE
    BY <1>1, <1>2
  <2>4. SIZE * a \in Nat /\ SIZE * b \in Nat
    BY <1>1, <1>2
  <2> QED
    BY <1>1, <1>3, <2>2, <2>3, <2>4
<1>5. SIZE * a <= SIZE * b
  <2>1. b - a \in Nat
    BY <1>2, <1>4
  <2>2. SIZE * (b - a) >= 0
    BY <1>1, <2>1
  <2>3. SIZE * (b - a) = SIZE * b - SIZE * a
    BY <1>1, <1>2
  <2>4. SIZE * a \in Nat /\ SIZE * b \in Nat
    BY <1>1, <1>2
  <2> QED
    BY <2>2, <2>3, <2>4
<1>6. SIZE * a \in Nat /\ SIZE * b \in Nat
  BY <1>1, <1>2
<1> QED
  BY <1>2, <1>5, <1>6

(* One list of a wheel is replaced, the others stay. *)
Cell(w, a, b, c) == [w EXCEPT ![a][b] = c]

(* The replaced list is the new one. *)
LEMMA CellFacts ==
  ASSUME NEW w \in Wheels, NEW a \in Level, NEW b \in Bucket, NEW c \in Seq(Timers)
  PROVE  /\ Cell(w, a, b, c) \in Wheels
         /\ Cell(w, a, b, c)[a][b] = c
         /\ \A l \in Level, i \in Bucket : l # a \/ i # b => Cell(w, a, b, c)[l][i] = w[l][i]
BY DEF Wheels, Cell

(* What a list holds after an append. *)
LEMMA AppendRange ==
  ASSUME NEW l \in Seq(Timers), NEW t \in Timers
  PROVE  /\ Append(l, t) \in Seq(Timers)
         /\ Range(Append(l, t)) = Range(l) \cup {t}
<1> DEFINE n == Len(l)
           r == Append(l, t)
<1>1. n \in Nat /\ r \in Seq(Timers) /\ DOMAIN l = 1 .. n /\ DOMAIN r = 1 .. n + 1
  OBVIOUS
<1>2. \A i \in 1 .. n : r[i] = l[i]
  OBVIOUS
<1>3. r[n + 1] = t
  OBVIOUS
<1> HIDE DEF n, r
<1>4. \A i \in 1 .. n + 1 : i \in 1 .. n \/ i = n + 1
  BY <1>1
<1>5. \A i \in 1 .. n : i \in 1 .. n + 1
  BY <1>1
<1>6. n + 1 \in 1 .. n + 1
  BY <1>1
<1>7. ASSUME NEW x PROVE x \in Range(r) <=> x \in Range(l) \/ x = t
  <2>1. x \in Range(r) <=> \E i \in 1 .. n + 1 : r[i] = x
    BY <1>1 DEF Range
  <2>2. x \in Range(l) <=> \E i \in 1 .. n : l[i] = x
    BY <1>1 DEF Range
  <2> QED
    BY <1>2, <1>3, <1>4, <1>5, <1>6, <2>1, <2>2
<1> QED
  BY <1>1, <1>7 DEF r

(* The wheel with the timer t at the tail of one list. *)
Added(w, a, b, t) == Cell(w, a, b, Append(w[a][b], t))

(* The list that grows, and those that stay. *)
LEMMA AddedCells ==
  ASSUME NEW w \in Wheels, NEW t \in Timers, NEW a \in Level, NEW b \in Bucket
  PROVE  /\ Added(w, a, b, t) \in Wheels
         /\ Added(w, a, b, t)[a][b] = Append(w[a][b], t)
         /\ \A l \in Level, i \in Bucket : l # a \/ i # b => Added(w, a, b, t)[l][i] = w[l][i]
<1> DEFINE c == Append(w[a][b], t)
           u == Added(w, a, b, t)
<1>1. c \in Seq(Timers)
  BY AppendRange DEF Wheels
<1>2. u = Cell(w, a, b, c)
  BY DEF Added
<1> HIDE DEF c, u
<1>3. /\ u \in Wheels /\ u[a][b] = c
      /\ \A l \in Level, i \in Bucket : l # a \/ i # b => u[l][i] = w[l][i]
  BY <1>1, <1>2, CellFacts
<1> QED
  BY <1>3 DEF c, u

(* The timer added is in the wheel, and there once. *)
LEMMA AddPlaced ==
  ASSUME NEW w, NEW S, Placed(w, S), NEW t \in Timers, t \notin S,
         NEW a \in Level, NEW b \in Bucket
  PROVE  Placed(Added(w, a, b, t), S \cup {t})
<1> DEFINE c == Append(w[a][b], t)
           u == Added(w, a, b, t)
<1>1. w \in Wheels /\ w[a][b] \in Seq(Timers)
  BY DEF Placed, Wheels
<1>2. c \in Seq(Timers) /\ Range(c) = Range(w[a][b]) \cup {t}
  BY <1>1, AppendRange
<1>3. /\ u \in Wheels /\ u[a][b] = c
      /\ \A l \in Level, i \in Bucket : l # a \/ i # b => u[l][i] = w[l][i]
  BY <1>1, AddedCells
<1>4. \A l \in Level, i \in Bucket : t \notin Range(w[l][i])
  BY DEF Placed
<1>5. \A j, k \in 1 .. Len(c) : c[j] = c[k] => j = k
  <2> DEFINE o == w[a][b]
             n == Len(o)
  <2>1. n \in Nat /\ Len(c) = n + 1 /\ c[n + 1] = t
    BY <1>1
  <2>2. \A j \in 1 .. n : c[j] = o[j] /\ o[j] # t
    <3>1. \A j \in 1 .. n : c[j] = o[j]
      BY <1>1
    <3>2. \A j \in 1 .. n : o[j] \in Range(o)
      BY <1>1 DEF Range
    <3> QED
      BY <1>4, <3>1, <3>2
  <2>3. \A j, k \in 1 .. n : o[j] = o[k] => j = k
    BY DEF Placed
  <2> HIDE DEF o, n, c, u
  <2>4. \A j \in 1 .. n + 1 : j \in 1 .. n \/ j = n + 1
    BY <2>1
  <2> QED
    BY <2>1, <2>2, <2>3, <2>4
<1> HIDE DEF c, u
<1>6. /\ Range(u[a][b]) = Range(w[a][b]) \cup {t}
      /\ \A l \in Level, i \in Bucket : l # a \/ i # b => Range(u[l][i]) = Range(w[l][i])
  BY <1>2, <1>3
<1>7. \A l \in Level, i \in Bucket : \A j, k \in 1 .. Len(u[l][i]) :
        u[l][i][j] = u[l][i][k] => j = k
  <2> TAKE l \in Level, i \in Bucket
  <2>1. CASE l = a /\ i = b
    BY <1>3, <1>5, <2>1
  <2>2. CASE l # a \/ i # b
    <3>1. u[l][i] = w[l][i]
      BY <1>3, <2>2
    <3> QED
      BY <3>1 DEF Placed
  <2> QED
    BY <2>1, <2>2
<1>8. \A l, m \in Level, i, j \in Bucket : \A x \in Timers :
        x \in Range(u[l][i]) /\ x \in Range(u[m][j]) => l = m /\ i = j
  <2> SUFFICES ASSUME NEW l \in Level, NEW m \in Level, NEW i \in Bucket, NEW j \in Bucket, NEW x \in Timers,
                      x \in Range(u[l][i]), x \in Range(u[m][j])
               PROVE  l = m /\ i = j
    OBVIOUS
  <2>1. CASE x = t
    BY <1>4, <1>6, <2>1
  <2>2. CASE x # t
    <3>1. x \in Range(w[l][i]) /\ x \in Range(w[m][j])
      BY <1>6, <2>2
    <3> QED
      BY <3>1 DEF Placed
  <2> QED
    BY <2>1, <2>2
<1>9. \A x \in Timers : x \in S \cup {t} <=> \E l \in Level, i \in Bucket : x \in Range(u[l][i])
  <2> TAKE x \in Timers
  <2>1. CASE x = t
    <3>1. x \in Range(u[a][b])
      BY <1>6, <2>1
    <3> QED
      BY <2>1, <3>1
  <2>2. CASE x # t
    <3>1. \A l \in Level, i \in Bucket : x \in Range(u[l][i]) <=> x \in Range(w[l][i])
      BY <1>6, <2>2
    <3>2. x \in S <=> \E l \in Level, i \in Bucket : x \in Range(w[l][i])
      BY DEF Placed
    <3> QED
      BY <2>2, <3>1, <3>2
  <2> QED
    BY <2>1, <2>2
<1> QED
  BY <1>3, <1>7, <1>8, <1>9 DEF Placed, u

(* The wheel with one list emptied. *)
Detached(w, a, b) == Cell(w, a, b, << >>)

(* The list that is emptied, and those that stay. *)
LEMMA DetachedCells ==
  ASSUME NEW w \in Wheels, NEW a \in Level, NEW b \in Bucket
  PROVE  /\ Detached(w, a, b) \in Wheels
         /\ Detached(w, a, b)[a][b] = << >>
         /\ \A l \in Level, i \in Bucket : l # a \/ i # b => Detached(w, a, b)[l][i] = w[l][i]
<1> DEFINE c == << >>
<1>1. c \in Seq(Timers) /\ Detached(w, a, b) = Cell(w, a, b, c)
  BY DEF Detached
<1> HIDE DEF c
<1>2. /\ Cell(w, a, b, c) \in Wheels /\ Cell(w, a, b, c)[a][b] = c
      /\ \A l \in Level, i \in Bucket : l # a \/ i # b => Cell(w, a, b, c)[l][i] = w[l][i]
  BY <1>1, CellFacts
<1> QED
  BY <1>1, <1>2 DEF c

(* The timers of the emptied list are in the wheel no more. *)
LEMMA DetachPlaced ==
  ASSUME NEW w, NEW S, Placed(w, S), NEW a \in Level, NEW b \in Bucket
  PROVE  Placed(Detached(w, a, b), S \ Range(w[a][b]))
<1> DEFINE u == Detached(w, a, b)
<1>1. w \in Wheels
  BY DEF Placed
<1>2. /\ u \in Wheels /\ u[a][b] = << >>
      /\ \A l \in Level, i \in Bucket : l # a \/ i # b => u[l][i] = w[l][i]
  BY <1>1, DetachedCells
<1> HIDE DEF u
<1>3. Len(u[a][b]) = 0 /\ Range(u[a][b]) = {}
  BY <1>2 DEF Range
<1>4. \A l \in Level, i \in Bucket : \A j, k \in 1 .. Len(u[l][i]) :
        u[l][i][j] = u[l][i][k] => j = k
  <2> TAKE l \in Level, i \in Bucket
  <2>1. CASE l = a /\ i = b
    BY <1>3, <2>1
  <2>2. CASE l # a \/ i # b
    <3>1. u[l][i] = w[l][i]
      BY <1>2, <2>2
    <3> QED
      BY <3>1 DEF Placed
  <2> QED
    BY <2>1, <2>2
<1>5. \A l, m \in Level, i, j \in Bucket : \A x \in Timers :
        x \in Range(u[l][i]) /\ x \in Range(u[m][j]) => l = m /\ i = j
  <2> SUFFICES ASSUME NEW l \in Level, NEW m \in Level, NEW i \in Bucket, NEW j \in Bucket, NEW x \in Timers,
                      x \in Range(u[l][i]), x \in Range(u[m][j])
               PROVE  l = m /\ i = j
    OBVIOUS
  <2>1. x \in Range(w[l][i]) /\ x \in Range(w[m][j])
    BY <1>2, <1>3
  <2> QED
    BY <2>1 DEF Placed
<1>6. \A x \in Timers : x \in S \ Range(w[a][b]) <=> \E l \in Level, i \in Bucket : x \in Range(u[l][i])
  <2> TAKE x \in Timers
  <2>1. x \in S <=> \E l \in Level, i \in Bucket : x \in Range(w[l][i])
    BY DEF Placed
  <2>2. ASSUME x \in S, x \notin Range(w[a][b])
        PROVE  \E l \in Level, i \in Bucket : x \in Range(u[l][i])
    <3>1. PICK l \in Level, i \in Bucket : x \in Range(w[l][i])
      BY <2>1, <2>2
    <3>2. u[l][i] = w[l][i]
      BY <1>2, <2>2, <3>1
    <3> QED
      BY <3>1, <3>2
  <2>3. ASSUME NEW l \in Level, NEW i \in Bucket, x \in Range(u[l][i])
        PROVE  x \in S /\ x \notin Range(w[a][b])
    <3>1. (l # a \/ i # b) /\ x \in Range(w[l][i])
      BY <1>2, <1>3, <2>3
    <3>2. x \notin Range(w[a][b])
      BY <3>1 DEF Placed
    <3> QED
      BY <2>1, <3>1, <3>2
  <2> QED
    BY <2>2, <2>3
<1> QED
  BY <1>2, <1>4, <1>5, <1>6 DEF Placed, u

(* __timer_enqueue places a timer, and dates it if it goes to level 0. *)
LEMMA EnqueueKeeps ==
  ASSUME NEW w, NEW S, NEW tm \in [Timers -> Entries], NEW now \in Nat,
         Good(w, S, tm, now), NEW t \in Timers, t \notin S
  PROVE  Good(__timer_enqueue(w, t, tm[t].expires, now), S \cup {t}, tm, now)
<1> DEFINE e == tm[t].expires
           a == level(e - now)
           b == index(e, a)
           u == __timer_enqueue(w, t, e, now)
<1>0. Placed(w, S) /\ Dated(w, tm, now)
  BY DEF Good
<1>1. e \in Nat
  BY DEF Entries
<1>2. a \in Level /\ (a = 0 => e - now < SIZE)
  BY <1>1, LevelFacts
<1>3. b \in Bucket /\ (a = 0 => b = e % SIZE)
  <2> HIDE DEF a, e
  <2> QED
    BY <1>1, <1>2, IndexFacts
<1>4. u = Added(w, a, b, t)
  BY Zenon DEF __timer_enqueue, Cell, Added
<1> HIDE DEF a, b, u, e
<1>5. /\ Placed(u, S \cup {t}) /\ u[a][b] = Append(w[a][b], t)
      /\ \A l \in Level, i \in Bucket : l # a \/ i # b => u[l][i] = w[l][i]
  <2>1. a \in Level /\ b \in Bucket
    BY <1>2, <1>3
  <2>2. Placed(Added(w, a, b, t), S \cup {t})
    BY <1>0, <2>1, AddPlaced
  <2>3. w \in Wheels
    BY <1>0 DEF Placed
  <2> QED
    BY <1>4, <2>1, <2>2, <2>3, AddedCells
<1>6. Dated(u, tm, now)
  <2> SUFFICES ASSUME NEW i \in Bucket, NEW x \in Range(u[0][i])
               PROVE  tm[x].expires % SIZE = i /\ tm[x].expires < now + SIZE
    BY DEF Dated
  <2>1. CASE x \in Range(w[0][i])
    BY <1>0, <2>1 DEF Dated
  <2>2. CASE x \notin Range(w[0][i])
    <3>2. a = 0 /\ b = i
      BY <1>5, <2>2, SizeFacts
    <3>3. w[a][b] \in Seq(Timers)
      BY <1>0, <1>2, <1>3 DEF Placed, Wheels
    <3>4. x = t
      <4>1. Range(Append(w[a][b], t)) = Range(w[a][b]) \cup {t}
        BY <3>3, AppendRange
      <4> QED
        BY <1>5, <2>2, <3>2, <4>1
    <3>5. e < now + SIZE
      BY <1>1, <1>2, <3>2, SizeFacts
    <3> QED
      BY <1>3, <3>2, <3>4, <3>5 DEF e
  <2> QED
    BY <2>1, <2>2
<1> QED
  BY <1>5, <1>6 DEF Good, u, e

(* One turn of the loop of requeue. *)
Turn(v, ts, again, tm, now, k) ==
  IF ts[k] \in again THEN __timer_enqueue(v, ts[k], tm[ts[k]].expires, now) ELSE v

(* A turn makes a wheel of a wheel. *)
LEMMA TurnWheel ==
  ASSUME NEW v \in Wheels, NEW ts \in Seq(Timers), NEW again, NEW tm \in [Timers -> Entries],
         NEW now \in Nat, NEW k \in 1 .. Len(ts)
  PROVE  Turn(v, ts, again, tm, now, k) \in Wheels
<1> DEFINE t == ts[k]
           e == tm[t].expires
           a == level(e - now)
           b == index(e, a)
<1>1. t \in Timers
  OBVIOUS
<1>2. e \in Nat
  BY <1>1 DEF Entries
<1>3. a \in Level
  BY <1>2, LevelFacts
<1>4. b \in Bucket
  <2> HIDE DEF a, e
  <2> QED
    BY <1>2, <1>3, IndexFacts
<1>5. __timer_enqueue(v, t, e, now) = Added(v, a, b, t)
  BY Zenon DEF __timer_enqueue, Cell, Added
<1>6. Turn(v, ts, again, tm, now, k) = IF t \in again THEN __timer_enqueue(v, t, e, now) ELSE v
  BY DEF Turn
<1> HIDE DEF a, b, e, t
<1>7. Added(v, a, b, t) \in Wheels
  BY <1>1, <1>3, <1>4, AddedCells
<1> QED
  BY <1>5, <1>6, <1>7

(* The wheels that the loop goes through. *)
Turns(w, ts, again, tm, now, f) ==
  \A i \in 0 .. Len(ts) : f[i] = IF i = 0 THEN w ELSE Turn(f[i - 1], ts, again, tm, now, i)

(* The recursion of requeue has a solution. *)
LEMMA TurnsExist ==
  ASSUME NEW w \in Wheels, NEW ts \in Seq(Timers), NEW again, NEW tm \in [Timers -> Entries],
         NEW now \in Nat
  PROVE  \E f \in [0 .. Len(ts) -> Wheels] : Turns(w, ts, again, tm, now, f)
<1> DEFINE n == Len(ts)
           Run(k, f) == \A i \in 0 .. k :
             f[i] = IF i = 0 THEN w ELSE Turn(f[i - 1], ts, again, tm, now, i)
           S == {k \in 0 .. n : \E f \in [0 .. k -> Wheels] : Run(k, f)}
<1>0. n \in Nat
  OBVIOUS
<1>1. 0 \in S
  <2>1. [i \in 0 .. 0 |-> w] \in [0 .. 0 -> Wheels] /\ Run(0, [i \in 0 .. 0 |-> w])
    OBVIOUS
  <2>2. 0 \in 0 .. n
    OBVIOUS
  <2> HIDE DEF Run
  <2> QED
    BY <2>1, <2>2
<1>2. ASSUME NEW k \in 0 .. n - 1, k \in S PROVE k + 1 \in S
  <2>1. PICK f \in [0 .. k -> Wheels] : Run(k, f)
    BY <1>2
  <2> DEFINE v == Turn(f[k], ts, again, tm, now, k + 1)
             g == [i \in 0 .. k + 1 |-> IF i = k + 1 THEN v ELSE f[i]]
  <2>2. v \in Wheels
    <3>1. k + 1 \in 1 .. Len(ts) /\ f[k] \in Wheels
      OBVIOUS
    <3> QED
      BY <3>1, TurnWheel
  <2>3. g \in [0 .. k + 1 -> Wheels]
    <3> HIDE DEF v
    <3> QED
      BY <2>2
  <2>4. ASSUME NEW i \in 0 .. k + 1
        PROVE  g[i] = IF i = 0 THEN w ELSE Turn(g[i - 1], ts, again, tm, now, i)
    <3>1. CASE i = k + 1
      <4>1. g[i] = v /\ i # 0 /\ g[i - 1] = f[k]
        BY <3>1
      <4> QED
        BY <3>1, <4>1
    <3>2. CASE i # k + 1
      <4>1. i \in 0 .. k /\ g[i] = f[i] /\ (i # 0 => g[i - 1] = f[i - 1])
        BY <3>2
      <4>2. f[i] = IF i = 0 THEN w ELSE Turn(f[i - 1], ts, again, tm, now, i)
        BY <2>1, <4>1
      <4> QED
        BY <4>1, <4>2
    <3> QED
      BY <3>1, <3>2
  <2>5. Run(k + 1, g)
    BY <2>4
  <2>6. k + 1 \in 0 .. n
    OBVIOUS
  <2> HIDE DEF Run, g
  <2> QED
    BY <2>3, <2>5, <2>6
<1>3. n \in S
  <2> HIDE DEF S, n
  <2>1. \A i \in 0 .. n - 1 : i \in S => i + 1 \in S
    BY <1>2
  <2>2. \A i \in 0 .. n : i \in S
    BY <1>0, <1>1, <2>1, IntervalInduction
  <2> QED
    BY <1>0, <2>2
<1> QED
  BY <1>3 DEF Turns

(***************************************************************************)
(* requeue enters the timers of a detached list, those in the set again,   *)
(* into the wheel.                                                         *)
(***************************************************************************)
LEMMA RequeueKeeps ==
  ASSUME NEW w, NEW S, NEW ts \in Seq(Timers), NEW again, NEW tm \in [Timers -> Entries],
         NEW now \in Nat, Good(w, S, tm, now),
         \A i, j \in 1 .. Len(ts) : ts[i] = ts[j] => i = j,
         \A i \in 1 .. Len(ts) : ts[i] \notin S
  PROVE  Good(requeue(w, ts, again, tm, now), S \cup (Range(ts) \cap again), tm, now)
<1> DEFINE n == Len(ts)
           h == CHOOSE g : g = [i \in 0 .. n |->
                  IF i = 0 THEN w
                  ELSE IF ts[i] \in again THEN __timer_enqueue(g[i - 1], ts[i], tm[ts[i]].expires, now)
                  ELSE g[i - 1]]
<1>1. requeue(w, ts, again, tm, now) = h[n]
  BY Zenon DEF requeue
<1>2. w \in Wheels /\ n \in Nat
  BY DEF Good, Placed
<1>3. PICK f \in [0 .. n -> Wheels] : Turns(w, ts, again, tm, now, f)
  BY <1>2, TurnsExist
<1>4. f = [i \in 0 .. n |->
             IF i = 0 THEN w
             ELSE IF ts[i] \in again THEN __timer_enqueue(f[i - 1], ts[i], tm[ts[i]].expires, now)
             ELSE f[i - 1]]
  BY <1>3 DEF Turns, Turn
<1>5. h = [i \in 0 .. n |->
             IF i = 0 THEN w
             ELSE IF ts[i] \in again THEN __timer_enqueue(h[i - 1], ts[i], tm[ts[i]].expires, now)
             ELSE h[i - 1]]
  BY <1>4, Zenon
<1> HIDE DEF h
<1> DEFINE In(k) == S \cup ({ts[j] : j \in 1 .. k} \cap again)
           T == {i \in 0 .. n : Good(h[i], In(i), tm, now)}
<1>6. 0 \in T
  <2>1. h[0] = w /\ 0 \in 0 .. n
    BY <1>2, <1>5
  <2>2. In(0) = S
    OBVIOUS
  <2> HIDE DEF In
  <2> QED
    BY <2>1, <2>2
<1>7. ASSUME NEW i \in 0 .. n - 1, i \in T PROVE i + 1 \in T
  <2> DEFINE t == ts[i + 1]
  <2>1. i + 1 \in 0 .. n /\ i + 1 # 0 /\ (i + 1) - 1 = i /\ i + 1 \in 1 .. n /\ i \in 0 .. n
    BY <1>2
  <2>2. h[i + 1] = IF t \in again THEN __timer_enqueue(h[i], t, tm[t].expires, now) ELSE h[i]
    BY <1>5, <2>1
  <2>3. t \in Timers
    BY <2>1
  <2>4. t \notin In(i)
    <3>1. \A j \in 1 .. i : j \in 1 .. n /\ j # i + 1
      BY <1>2, <2>1
    <3> QED
      BY <2>1, <3>1
  <2>5. In(i + 1) = IF t \in again THEN In(i) \cup {t} ELSE In(i)
    <3>1. {ts[j] : j \in 1 .. i + 1} = {ts[j] : j \in 1 .. i} \cup {t}
      <4>1. 1 .. i + 1 = (1 .. i) \cup {i + 1}
        BY <2>1
      <4> QED
        BY <4>1
    <3> QED
      BY <3>1
  <2>6. Good(h[i], In(i), tm, now)
    BY <1>7
  <2> HIDE DEF In, t
  <2>7. Good(h[i + 1], In(i + 1), tm, now)
    <3>1. CASE t \in again
      <4>1. Good(__timer_enqueue(h[i], t, tm[t].expires, now), In(i) \cup {t}, tm, now)
        BY <2>3, <2>4, <2>6, EnqueueKeeps
      <4> QED
        BY <2>2, <2>5, <3>1, <4>1
    <3>2. CASE t \notin again
      BY <2>2, <2>5, <2>6, <3>2
    <3> QED
      BY <3>1, <3>2
  <2> QED
    BY <2>1, <2>7
<1>8. n \in T
  <2> HIDE DEF T, n
  <2>1. \A i \in 0 .. n - 1 : i \in T => i + 1 \in T
    BY <1>7
  <2>2. \A i \in 0 .. n : i \in T
    BY <1>2, <1>6, <2>1, IntervalInduction
  <2> QED
    BY <1>2, <2>2
<1>9. In(n) = S \cup (Range(ts) \cap again)
  BY DEF Range
<1> HIDE DEF In
<1> QED
  BY <1>1, <1>8, <1>9

(* A list is detached while time goes on and the records of its timers change. *)
LEMMA DetachKeeps ==
  ASSUME NEW w, NEW S, NEW tm, NEW tm2, NEW now \in Nat, NEW now2 \in Nat, now <= now2,
         tm \in [Timers -> Entries], Good(w, S, tm, now), NEW a \in Level, NEW b \in Bucket,
         \A t \in Timers \ Range(w[a][b]) : tm2[t] = tm[t]
  PROVE  Good(Detached(w, a, b), S \ Range(w[a][b]), tm2, now2)
<1> DEFINE u == Detached(w, a, b)
<1>0. Placed(w, S) /\ Dated(w, tm, now)
  BY DEF Good
<1>1. /\ Placed(u, S \ Range(w[a][b])) /\ u[a][b] = << >>
      /\ \A l \in Level, i \in Bucket : l # a \/ i # b => u[l][i] = w[l][i]
  <2>1. w \in Wheels
    BY <1>0, Zenon DEF Placed
  <2>2. Placed(u, S \ Range(w[a][b]))
    BY <1>0, DetachPlaced
  <2> QED
    BY <2>1, <2>2, DetachedCells
<1>2. Range(u[a][b]) = {}
  BY <1>1 DEF Range
<1> HIDE DEF u
<1>3. Dated(u, tm2, now2)
  <2> SUFFICES ASSUME NEW i \in Bucket, NEW x \in Range(u[0][i])
               PROVE  tm2[x].expires % SIZE = i /\ tm2[x].expires < now2 + SIZE
    BY DEF Dated
  <2>1. 0 # a \/ i # b
    BY <1>2
  <2>2. x \in Range(w[0][i])
    BY <1>1, <2>1, SizeFacts
  <2>3. x \in Timers
    <3>1. w[0][i] \in Seq(Timers)
      BY <1>0, SizeFacts DEF Placed, Wheels
    <3> QED
      BY <2>2, <3>1 DEF Range
  <2>4. x \notin Range(w[a][b])
    BY <1>0, <2>1, <2>2, <2>3, SizeFacts DEF Placed
  <2>5. tm2[x] = tm[x]
    BY <2>3, <2>4
  <2>6. tm[x].expires % SIZE = i /\ tm[x].expires < now + SIZE
    BY <1>0, <2>2 DEF Dated
  <2>7. tm[x].expires \in Nat
    BY <2>3 DEF Entries
  <2> QED
    BY <2>5, <2>6, <2>7, SizeFacts
<1> QED
  BY <1>1, <1>3 DEF Good, u

(* The list of a slot. *)
LEMMA ListFacts ==
  ASSUME NEW w, NEW S, NEW tm, NEW now, Good(w, S, tm, now), NEW a \in Level, NEW b \in Bucket
  PROVE  /\ w[a][b] \in Seq(Timers)
         /\ \A i, j \in 1 .. Len(w[a][b]) : w[a][b][i] = w[a][b][j] => i = j
         /\ Range(w[a][b]) \subseteq S \cap Timers
         /\ \A i \in 1 .. Len(w[a][b]) : w[a][b][i] \in Range(w[a][b])
<1>1. Placed(w, S)
  BY DEF Good
<1>2. w[a][b] \in Seq(Timers)
  BY <1>1 DEF Placed, Wheels
<1>3. Range(w[a][b]) \subseteq Timers /\ \A i \in 1 .. Len(w[a][b]) : w[a][b][i] \in Range(w[a][b])
  BY <1>2 DEF Range
<1>4. \A t \in Timers : t \in Range(w[a][b]) => t \in S
  BY <1>1 DEF Placed
<1>5. \A i, j \in 1 .. Len(w[a][b]) : w[a][b][i] = w[a][b][j] => i = j
  BY <1>1 DEF Placed
<1> QED
  BY <1>2, <1>3, <1>4, <1>5

-----------------------------------------------------------------------------
(* The timers that are to fire. *)
Active == {t \in Timers : timer[t].state = "ACTIVE"}

(***************************************************************************)
(* The wheel holds the ACTIVE timers, each in one place; a slot of level 0 *)
(* holds timers of its own tick or of an earlier turn; a timer that a call *)
(* is about to enter is not ACTIVE.                                        *)
(***************************************************************************)
TwInv ==
  /\ jiffies \in Nat
  /\ timer \in [Timers -> Entries]
  /\ adding = NoAdd \/ adding \in [stage : {"lock", "flag"}, t : Timers, oneshot : {0, 1}]
  /\ adding.stage = "lock" => timer[adding.t].state # "ACTIVE"
  /\ Good(wheel, Active, timer, jiffies)
  /\ NeverEarly

(* The empty wheel of timer_wheel_init is in order. *)
LEMMA TwInit == timer_wheel_init => TwInv
<1> SUFFICES ASSUME timer_wheel_init PROVE TwInv
  OBVIOUS
<1> USE DEF timer_wheel_init
<1>1. Active = {} /\ timer \in [Timers -> Entries]
  BY DEF Active, Unused, Entries
<1>2. wheel \in Wheels /\ \A l \in Level, i \in Bucket : wheel[l][i] = << >>
  BY DEF Wheels
<1>3. \A l \in Level, i \in Bucket : Len(wheel[l][i]) = 0 /\ Range(wheel[l][i]) = {}
  BY <1>2 DEF Range
<1>4. Placed(wheel, {})
  BY <1>2, <1>3 DEF Placed
<1>5. Dated(wheel, timer, jiffies)
  BY <1>3, SizeFacts DEF Dated
<1> QED
  BY <1>1, <1>4, <1>5 DEF TwInv, Good, NoAdd, NeverEarly

(* timer_add up to the lock: the timer it writes is in no list. *)
LEMMA AddBeginKeeps ==
  ASSUME TwInv, NEW t \in Timers, NEW ms \in Delay, NEW oneshot \in {0, 1},
         timer_add_begin(t, ms, oneshot)
  PROVE  TwInv'
<1> USE DEF TwInv, timer_add_begin
<1>1. jiffies + timer_ms_to_jiffies(ms) \in Nat
  BY TimerAssumption DEF timer_ms_to_jiffies
<1> DEFINE e == jiffies + timer_ms_to_jiffies(ms)
           r == [Unused EXCEPT !.expires = e]
<1>2. r \in Entries /\ r.state = "INACTIVE"
  <2>1. e \in Nat
    BY <1>1
  <2> HIDE DEF e, TwInv, timer_add_begin
  <2> QED
    BY <2>1 DEF Unused, Entries
<1>3. timer' \in [Timers -> Entries] /\ timer'[t].state = "INACTIVE" /\ \A x \in Timers \ {t} : timer'[x] = timer[x]
  <2>1. timer' = [timer EXCEPT ![t] = r]
    OBVIOUS
  <2> HIDE DEF r
  <2> QED
    BY <1>2, <2>1
<1> HIDE DEF r, e
<1>4. Active' = Active /\ t \notin Active
  BY <1>3 DEF Active
<1>5. Placed(wheel, Active) /\ Dated(wheel, timer, jiffies)
  BY DEF Good
<1>6. \A i \in Bucket : Range(wheel[0][i]) \subseteq Timers \ {t}
  BY <1>4, ListFacts, SizeFacts
<1>7. Dated(wheel, timer', jiffies)
  BY <1>3, <1>5, <1>6 DEF Dated
<1>8. adding' \in [stage : {"lock", "flag"}, t : Timers, oneshot : {0, 1}] /\ adding'.t = t
  OBVIOUS
<1>9. Good(wheel, Active, timer, jiffies)'
  BY <1>4, <1>5, <1>7 DEF Good
<1> QED
  BY <1>3, <1>8, <1>9 DEF NeverEarly

(* timer_add, the critical section: the timer enters one list and is ACTIVE. *)
LEMMA AddLockKeeps ==
  ASSUME TwInv, timer_add_lock
  PROVE  TwInv'
<1> USE DEF TwInv, timer_add_lock
<1> DEFINE t == adding.t
<1>1. adding \in [stage : {"lock", "flag"}, t : Timers, oneshot : {0, 1}] /\ t \in Timers
  BY DEF NoAdd
<1>2. t \notin Active
  BY <1>1 DEF Active
<1>3. Good(wheel', Active \cup {t}, timer, jiffies)
  BY <1>1, <1>2, EnqueueKeeps
<1>4. timer' \in [Timers -> Entries] /\ \A x \in Timers : timer'[x].expires = timer[x].expires
  BY <1>1 DEF Entries
<1>5. Active' = Active \cup {t}
  BY <1>1 DEF Active, Entries
<1>6. Placed(wheel', Active \cup {t}) /\ Dated(wheel', timer, jiffies)
  BY <1>3 DEF Good
<1>7. \A i \in Bucket : Range(wheel'[0][i]) \subseteq Timers
  BY <1>3, ListFacts, SizeFacts
<1>8. Dated(wheel', timer', jiffies)
  BY <1>4, <1>6, <1>7 DEF Dated
<1>9. adding' \in [stage : {"lock", "flag"}, t : Timers, oneshot : {0, 1}] /\ adding'.stage = "flag"
  BY <1>1
<1>10. Good(wheel, Active, timer, jiffies)'
  BY <1>5, <1>6, <1>8 DEF Good
<1> QED
  BY <1>4, <1>9, <1>10 DEF NeverEarly

(* timer_add_oneshot sets its flag after the lock is given up. *)
LEMMA AddEndKeeps ==
  ASSUME TwInv, timer_add_end
  PROVE  TwInv'
<1> USE DEF TwInv, timer_add_end
<1> DEFINE t == adding.t
<1>1. adding \in [stage : {"lock", "flag"}, t : Timers, oneshot : {0, 1}] /\ t \in Timers
  BY DEF NoAdd
<1>4. timer' \in [Timers -> Entries] /\ \A x \in Timers : timer'[x].expires = timer[x].expires
  BY <1>1 DEF Entries
<1>5. Active' = Active
  BY <1>1 DEF Active, Entries
<1>6. Placed(wheel, Active) /\ Dated(wheel, timer, jiffies)
  BY DEF Good
<1>7. \A i \in Bucket : Range(wheel[0][i]) \subseteq Timers
  BY ListFacts, SizeFacts
<1>8. Dated(wheel, timer', jiffies)
  BY <1>4, <1>6, <1>7 DEF Dated
<1>10. Good(wheel, Active, timer, jiffies)'
  BY <1>5, <1>6, <1>8 DEF Good
<1> QED
  BY <1>4, <1>10 DEF NeverEarly, NoAdd

(* What __expire_level0 leaves in the records of the timers. *)
LEMMA RearmedFacts ==
  ASSUME timer \in [Timers -> Entries], NEW now
  PROVE  /\ rearmed(now) \in [Timers -> Entries]
         /\ \A t \in Timers \ Range(due(now)) : rearmed(now)[t] = timer[t]
         /\ \A t \in Range(due(now)) \cap Timers : rearmed(now)[t].state =
              IF t \in periodic THEN timer[t].state ELSE "EXPIRED"
<1> DEFINE D == Range(due(now))
           r == rearmed(now)
           P == periodic
<1>1. r = [t \in Timers |->
             IF t \notin D THEN timer[t]
             ELSE IF t \in P THEN [timer[t] EXCEPT !.expires = @ + 1]
             ELSE [timer[t] EXCEPT !.state = "EXPIRED"]]
  BY DEF rearmed
<1> HIDE DEF D, r, P
<1>2. ASSUME NEW t \in Timers
      PROVE  /\ r[t] \in Entries
             /\ t \notin D => r[t] = timer[t]
             /\ t \in D => r[t].state = IF t \in P THEN timer[t].state ELSE "EXPIRED"
  <2>1. timer[t] \in Entries
    OBVIOUS
  <2>2. [timer[t] EXCEPT !.expires = @ + 1] \in Entries /\ [timer[t] EXCEPT !.expires = @ + 1].state = timer[t].state
    BY <2>1 DEF Entries
  <2>3. [timer[t] EXCEPT !.state = "EXPIRED"] \in Entries /\ [timer[t] EXCEPT !.state = "EXPIRED"].state = "EXPIRED"
    BY <2>1 DEF Entries
  <2>4. CASE t \notin D
    BY <1>1, <2>1, <2>4
  <2>5. CASE t \in D /\ t \in P
    <3>1. r[t] = [timer[t] EXCEPT !.expires = @ + 1]
      BY <1>1, <2>5
    <3> QED
      BY <2>2, <2>5, <3>1
  <2>6. CASE t \in D /\ t \notin P
    <3>1. r[t] = [timer[t] EXCEPT !.state = "EXPIRED"]
      BY <1>1, <2>6
    <3> QED
      BY <2>3, <2>6, <3>1
  <2> QED
    BY <2>4, <2>5, <2>6
<1>3. r \in [Timers -> Entries]
  BY <1>1, <1>2
<1> QED
  BY <1>2, <1>3 DEF D, r, P

(* Level 1 gives its timers to the levels they belong to now. *)
LEMMA CascadeKeeps ==
  ASSUME NEW w, NEW S, NEW tm \in [Timers -> Entries], NEW now \in Nat, Good(w, S, tm, now)
  PROVE  Good(__cascade(w, tm, now), S, tm, now)
<1> DEFINE i == index(now, 1)
           L == w[1][i]
           u == Detached(w, 1, i)
<1>1. i \in Bucket /\ 1 \in Level
  BY SizeFacts, IndexFacts
<1>2. __cascade(w, tm, now) = requeue(u, L, Timers, tm, now)
  BY Zenon DEF __cascade, Detached, Cell
<1> HIDE DEF i
<1>3. /\ L \in Seq(Timers)
      /\ \A j, k \in 1 .. Len(L) : L[j] = L[k] => j = k
      /\ Range(L) \subseteq S \cap Timers
      /\ \A j \in 1 .. Len(L) : L[j] \in Range(L)
  <2>1. L \in Seq(Timers)
    BY <1>1, ListFacts
  <2>2. \A j, k \in 1 .. Len(L) : L[j] = L[k] => j = k
    BY <1>1, ListFacts
  <2>3. Range(L) \subseteq S \cap Timers
    BY <1>1, ListFacts
  <2>4. \A j \in 1 .. Len(L) : L[j] \in Range(L)
    BY <1>1, ListFacts
  <2> QED
    BY <2>1, <2>2, <2>3, <2>4
<1>4. Good(u, S \ Range(L), tm, now)
  <2>1. now <= now
    OBVIOUS
  <2> QED
    BY <1>1, <2>1, DetachKeeps
<1> HIDE DEF L, u
<1>5. Good(requeue(u, L, Timers, tm, now), (S \ Range(L)) \cup (Range(L) \cap Timers), tm, now)
  BY <1>3, <1>4, RequeueKeeps
<1>6. (S \ Range(L)) \cup (Range(L) \cap Timers) = S
  BY <1>3
<1> QED
  BY <1>2, <1>5, <1>6

(* The timer interrupt: expiry of a slot, re-arming and the cascade of level 1. *)
LEMMA TickKeeps ==
  ASSUME TwInv, timer_tick
  PROVE  TwInv'
<1> DEFINE now == jiffies + 1
           b == now % SIZE
           D == due(now)
           u == Detached(wheel, 0, b)
           A == (Active \ Range(D)) \cup (Range(D) \cap periodic)
<1>0. /\ jiffies \in Nat /\ timer \in [Timers -> Entries] /\ Good(wheel, Active, timer, jiffies)
  BY DEF TwInv
<1>1. now \in Nat /\ b \in Bucket /\ 0 \in Level /\ jiffies <= now
  BY <1>0, InBucket, SizeFacts
<1>2. D = wheel[0][b]
  BY DEF due
<1>3. jiffies' = now /\ timer' = rearmed(now) /\ adding' = adding
  BY DEF timer_tick
<1>4. wheel' = IF now % SIZE = 0 THEN __cascade(expired(now), rearmed(now), now) ELSE expired(now)
  BY DEF timer_tick
<1>5. ran' = {<<t, timer[t].expires>> : t \in Range(D)}
  BY DEF timer_tick
<1>6. expired(now) = requeue(u, D, periodic, rearmed(now), now)
  BY Zenon DEF expired, Detached, Cell
<1> HIDE DEF b, now, D, u
<1>7. /\ D \in Seq(Timers)
      /\ \A j, k \in 1 .. Len(D) : D[j] = D[k] => j = k
      /\ Range(D) \subseteq Active \cap Timers
      /\ \A j \in 1 .. Len(D) : D[j] \in Range(D)
  <2>1. D \in Seq(Timers)
    BY <1>0, <1>1, <1>2, ListFacts
  <2>2. \A j, k \in 1 .. Len(D) : D[j] = D[k] => j = k
    BY <1>0, <1>1, <1>2, ListFacts
  <2>3. Range(D) \subseteq Active \cap Timers
    BY <1>0, <1>1, <1>2, ListFacts
  <2>4. \A j \in 1 .. Len(D) : D[j] \in Range(D)
    BY <1>0, <1>1, <1>2, ListFacts
  <2> QED
    BY <2>1, <2>2, <2>3, <2>4
<1>8. /\ rearmed(now) \in [Timers -> Entries]
      /\ \A t \in Timers \ Range(D) : rearmed(now)[t] = timer[t]
      /\ \A t \in Range(D) \cap Timers : rearmed(now)[t].state =
           IF t \in periodic THEN timer[t].state ELSE "EXPIRED"
  BY <1>0, RearmedFacts DEF D
<1>9. Good(u, Active \ Range(D), rearmed(now), now)
  <2>1. \A t \in Timers \ Range(wheel[0][b]) : rearmed(now)[t] = timer[t]
    BY <1>2, <1>8
  <2> QED
    BY <1>0, <1>1, <1>2, <2>1, DetachKeeps DEF u
<1>10. Good(expired(now), A, rearmed(now), now)
  <2>1. \A j \in 1 .. Len(D) : D[j] \notin Active \ Range(D)
    BY <1>7, SMTT(30)
  <2>2. Good(requeue(u, D, periodic, rearmed(now), now), (Active \ Range(D)) \cup (Range(D) \cap periodic), rearmed(now), now)
    BY <1>1, <1>7, <1>8, <1>9, <2>1, RequeueKeeps
  <2> QED
    BY <1>6, <2>2
<1>11. Active' = A
  <2>1. \A t \in Timers : t \in Active' <=> rearmed(now)[t].state = "ACTIVE"
    BY <1>3 DEF Active
  <2>2. \A t \in Timers : t \in Active <=> timer[t].state = "ACTIVE"
    BY DEF Active
  <2>3. Active' \subseteq Timers /\ Active \subseteq Timers
    BY DEF Active
  <2>4. ASSUME NEW t \in Timers PROVE t \in Active' <=> t \in A
    <3>1. CASE t \notin Range(D)
      BY <1>8, <2>1, <2>2, <3>1
    <3>2. CASE t \in Range(D)
      <4>1. t \in Active
        BY <1>7, <3>2
      <4> QED
        BY <1>8, <2>1, <2>2, <3>2, <4>1
    <3> QED
      BY <3>1, <3>2
  <2>5. A \subseteq Timers
    BY <1>7, <2>3
  <2> HIDE DEF A
  <2> QED
    BY <2>3, <2>4, <2>5
<1> HIDE DEF A
<1>12. Good(wheel', A, rearmed(now), now)
  <2>1. Good(__cascade(expired(now), rearmed(now), now), A, rearmed(now), now)
    BY <1>1, <1>8, <1>10, CascadeKeeps
  <2> QED
    BY <1>4, <1>10, <2>1
<1>13. NeverEarly'
  <2> SUFFICES ASSUME NEW t \in Range(D) PROVE timer[t].expires <= now
    BY <1>3, <1>5 DEF NeverEarly
  <2>1. Dated(wheel, timer, jiffies)
    BY <1>0 DEF Good
  <2>2. timer[t].expires % SIZE = b /\ timer[t].expires < jiffies + SIZE
    BY <1>1, <1>2, <2>1 DEF Dated
  <2>3. timer[t].expires \in Nat
    BY <1>0, <1>7 DEF Entries
  <2>4. timer[t].expires < now + SIZE
    BY <1>0, <1>1, <2>2, <2>3, SizeFacts
  <2> QED
    BY <1>1, <2>2, <2>3, <2>4, SameSlot DEF b
<1>14. adding'.stage = "lock" => timer'[adding'.t].state # "ACTIVE"
  <2> SUFFICES ASSUME adding.stage = "lock" PROVE timer'[adding.t].state # "ACTIVE"
    BY <1>3
  <2>1. adding.t \in Timers /\ timer[adding.t].state # "ACTIVE"
    BY DEF TwInv, NoAdd
  <2>2. adding.t \notin Range(D)
    BY <1>7, <2>1 DEF Active
  <2> QED
    BY <1>3, <1>8, <2>1, <2>2
<1>15. adding' = NoAdd \/ adding' \in [stage : {"lock", "flag"}, t : Timers, oneshot : {0, 1}]
  BY <1>3 DEF TwInv, NoAdd
<1>16. Good(wheel, Active, timer, jiffies)'
  BY <1>3, <1>11, <1>12
<1>17. jiffies' \in Nat /\ timer' \in [Timers -> Entries]
  BY <1>1, <1>3, <1>8
<1>18. NoAdd' = NoAdd
  BY DEF NoAdd
<1> QED
  BY <1>13, <1>14, <1>15, <1>16, <1>17, <1>18, Zenon DEF TwInv, Entries

(* Every step keeps the invariant of the wheel. *)
LEMMA TwStep ==
  ASSUME TwInv, [TimerNext]_timerVars
  PROVE  TwInv'
<1>1. CASE UNCHANGED wheelVars
  BY <1>1 DEF wheelVars, TwInv, NeverEarly, Active, NoAdd
<1>2. ASSUME NEW t \in Timers, NEW ms \in Delay, NEW o \in {0, 1}, timer_add_begin(t, ms, o)
      PROVE  TwInv'
  BY <1>2, AddBeginKeeps
<1>3. CASE timer_add_lock
  BY <1>3, AddLockKeeps
<1>4. CASE timer_add_end
  BY <1>4, AddEndKeeps
<1>5. CASE timer_tick
  BY <1>5, TickKeeps
<1>6. ASSUME NEW h \in HrTimers, NEW ns \in Ns, hrtimer_start_begin(h, ns)
      PROVE  UNCHANGED wheelVars
  BY <1>6 DEF hrtimer_start_begin
<1>7. ASSUME NEW h \in HrTimers, hrtimer_cancel(h)
      PROVE  UNCHANGED wheelVars
  BY <1>7 DEF hrtimer_cancel
<1>8. CASE hrtimer_start_lock \/ hrtimer_expire_turn \/ hrtimer_expire_end \/ hpet_counts
  <2>1. UNCHANGED wheelVars
    BY <1>8 DEF hrtimer_start_lock, hrtimer_expire_turn, hrtimer_expire_end, hpet_counts
  <2> QED
    BY <1>1, <2>1
<1>9. CASE UNCHANGED timerVars
  <2>1. UNCHANGED wheelVars
    BY <1>9 DEF timerVars
  <2> QED
    BY <1>1, <2>1
<1> QED
  BY <1>1, <1>2, <1>3, <1>4, <1>5, <1>6, <1>7, <1>8, <1>9 DEF TimerNext, critical

(***************************************************************************)
(* No callback of timer.c's wheel runs before its expiry, for every size   *)
(* of the wheel, every number of timers and every delay.                   *)
(***************************************************************************)
THEOREM TimersNeverEarly == TimerSpec => []NeverEarly
<1>1. TwInv => NeverEarly
  BY DEF TwInv
<1>2. TwInv /\ [TimerNext]_timerVars => TwInv'
  BY TwStep
<1> QED
  BY TwInit, <1>1, <1>2, PTL DEF TimerSpec

(***************************************************************************)
(* A timer is in one list of the wheel exactly while it is ACTIVE: adding, *)
(* expiry, re-arming and cascade neither lose nor duplicate one.           *)
(***************************************************************************)
THEOREM WheelIsActive == TimerSpec => []WheelHoldsActive
<1>1. TwInv => WheelHoldsActive
  <2> SUFFICES ASSUME TwInv PROVE WheelHoldsActive
    OBVIOUS
  <2> DEFINE lists(t) == {x \in Level \X Bucket : t \in Range(wheel[x[1]][x[2]])}
  <2>1. Placed(wheel, Active)
    BY DEF TwInv, Good
  <2>2. \A t \in Timers : t \in Active <=> timer[t].state = "ACTIVE"
    BY DEF Active
  <2>3. ASSUME NEW t \in Timers, t \in Active PROVE \E x \in lists(t) : lists(t) = {x}
    <3>1. PICK l \in Level, i \in Bucket : t \in Range(wheel[l][i])
      BY <2>1, <2>3 DEF Placed
    <3>2. <<l, i>> \in lists(t)
      BY <3>1
    <3>3. ASSUME NEW x \in lists(t) PROVE x = <<l, i>>
      <4>1. x[1] \in Level /\ x[2] \in Bucket /\ x = <<x[1], x[2]>> /\ t \in Range(wheel[x[1]][x[2]])
        BY SMTT(30)
      <4>2. x[1] = l /\ x[2] = i
        BY <2>1, <3>1, <4>1 DEF Placed
      <4> QED
        BY <4>1, <4>2
    <3> HIDE DEF lists
    <3> QED
      BY <3>2, <3>3
  <2>4. ASSUME NEW t \in Timers, t \notin Active PROVE lists(t) = {}
    BY <2>1, <2>4 DEF Placed
  <2>5. \A l \in Level, i \in Bucket : \A j, k \in DOMAIN wheel[l][i] :
          wheel[l][i][j] = wheel[l][i][k] => j = k
    <3>1. \A l \in Level, i \in Bucket : DOMAIN wheel[l][i] = 1 .. Len(wheel[l][i])
      BY <2>1 DEF Placed, Wheels
    <3> QED
      BY <2>1, <3>1 DEF Placed
  <2> QED
    BY <2>2, <2>3, <2>4, <2>5, Zenon DEF WheelHoldsActive
<1>2. TwInv /\ [TimerNext]_timerVars => TwInv'
  BY TwStep
<1> QED
  BY TwInit, <1>1, <1>2, PTL DEF TimerSpec

-----------------------------------------------------------------------------
(* High resolution timers *)

(* A list of timers is sorted by the expiries e, and has none twice. *)
Sorted(l, e) ==
  \A i, j \in 1 .. Len(l) : i < j => e[l[i]] <= e[l[j]] /\ l[i] # l[j]

(* The list is sorted, and the timer that a start is about to insert is not in it. *)
HrInv ==
  /\ hrtimer_list \in Seq(HrTimers)
  /\ expire_ns \in [HrTimers -> Nat]
  /\ hpet \in Nat
  /\ starting \in HrTimers \cup {NoTimer}
  /\ starting \notin Range(hrtimer_list)
  /\ Sorted(hrtimer_list, expire_ns)

(* What put makes of a list. *)
LEMMA PutFacts ==
  ASSUME NEW l \in Seq(HrTimers), NEW k \in 0 .. Len(l), NEW h \in HrTimers
  PROVE  /\ put(l, k, h) \in Seq(HrTimers)
         /\ Len(put(l, k, h)) = Len(l) + 1
         /\ Range(put(l, k, h)) \subseteq Range(l) \cup {h}
<1> DEFINE n == Len(l)
           r == [j \in 1 .. n + 1 |-> IF j <= k THEN l[j] ELSE IF j = k + 1 THEN h ELSE l[j - 1]]
<1>1. put(l, k, h) = r
  BY DEF put
<1>2. n \in Nat /\ \A j \in 1 .. n : l[j] \in HrTimers /\ l[j] \in Range(l)
  BY DEF Range
<1>3. ASSUME NEW j \in 1 .. n + 1 PROVE r[j] \in HrTimers /\ r[j] \in Range(l) \cup {h}
  <2>1. CASE j <= k
    <3>1. j \in 1 .. n /\ r[j] = l[j]
      BY <2>1
    <3> QED
      BY <1>2, <3>1
  <2>2. CASE j = k + 1
    BY <2>2
  <2>3. CASE j > k + 1
    <3>1. j - 1 \in 1 .. n /\ r[j] = l[j - 1]
      BY <2>3
    <3> QED
      BY <1>2, <3>1
  <2> QED
    BY <2>1, <2>2, <2>3
<1>4. r \in [1 .. n + 1 -> HrTimers] /\ n + 1 \in Nat
  BY <1>2, <1>3
<1>5. r \in Seq(HrTimers) /\ Len(r) = n + 1 /\ DOMAIN r = 1 .. n + 1
  <2> HIDE DEF n
  <2> QED
    BY <1>4
<1>6. Range(r) \subseteq Range(l) \cup {h}
  BY <1>3, <1>5 DEF Range
<1> QED
  BY <1>1, <1>5, <1>6

(* Putting h after the earlier and before the other timers keeps a list sorted. *)
LEMMA PutSorted ==
  ASSUME NEW l \in Seq(HrTimers), NEW k \in 0 .. Len(l), NEW h \in HrTimers,
         NEW e \in [HrTimers -> Nat], Sorted(l, e), h \notin Range(l),
         \A i \in 1 .. k : e[l[i]] <= e[h],
         k < Len(l) => e[h] <= e[l[k + 1]]
  PROVE  Sorted(put(l, k, h), e)
<1> DEFINE n == Len(l)
           r == put(l, k, h)
<1>1. Len(r) = n + 1 /\ n \in Nat
  BY PutFacts
<1>2. \A j \in 1 .. n + 1 :
        /\ j <= k => r[j] = l[j]
        /\ j = k + 1 => r[j] = h
        /\ j > k + 1 => r[j] = l[j - 1]
  <2>1. r = [j \in 1 .. n + 1 |-> IF j <= k THEN l[j] ELSE IF j = k + 1 THEN h ELSE l[j - 1]]
    BY DEF put
  <2>2. k \in Int /\ n \in Int
    BY <1>1
  <2> HIDE DEF n, r
  <2> QED
    BY <2>1, <2>2
<1>3. \A j \in 1 .. n : l[j] \in HrTimers /\ l[j] # h /\ e[l[j]] \in Nat
  BY DEF Range
<1>4. \A i, j \in 1 .. n : i < j => e[l[i]] <= e[l[j]] /\ l[i] # l[j]
  BY DEF Sorted
<1>5. \A j \in k + 1 .. n : e[h] <= e[l[j]]
  <2> SUFFICES ASSUME NEW j \in k + 1 .. n PROVE e[h] <= e[l[j]]
    OBVIOUS
  <2>1. k + 1 \in 1 .. n /\ j \in 1 .. n /\ k < n
    OBVIOUS
  <2>2. e[h] <= e[l[k + 1]] /\ e[h] \in Nat
    BY <2>1
  <2>3. j = k + 1 \/ e[l[k + 1]] <= e[l[j]]
    BY <1>4, <2>1
  <2>4. e[l[k + 1]] \in Nat /\ e[l[j]] \in Nat
    BY <1>3, <2>1
  <2> QED
    BY <2>2, <2>3, <2>4
<1> HIDE DEF n, r
<1>6. ASSUME NEW i \in 1 .. n + 1, NEW j \in 1 .. n + 1, i < j
      PROVE  e[r[i]] <= e[r[j]] /\ r[i] # r[j]
  <2>0. k \in 0 .. n
    BY DEF n
  <2>1. CASE j <= k
    <3>1. r[i] = l[i] /\ r[j] = l[j] /\ i \in 1 .. n /\ j \in 1 .. n
      BY <1>1, <1>2, <1>6, <2>0, <2>1
    <3> QED
      BY <1>4, <1>6, <3>1
  <2>2. CASE j = k + 1
    <3>1. r[i] = l[i] /\ r[j] = h /\ i \in 1 .. n /\ i \in 1 .. k
      BY <1>1, <1>2, <1>6, <2>0, <2>2
    <3> QED
      BY <1>3, <3>1
  <2>3. CASE i = k + 1
    <3>1. r[i] = h /\ r[j] = l[j - 1] /\ j - 1 \in 1 .. n /\ j - 1 \in k + 1 .. n
      BY <1>1, <1>2, <1>6, <2>0, <2>3
    <3> QED
      BY <1>3, <1>5, <3>1
  <2>4. CASE i <= k /\ j > k + 1
    <3>1. r[i] = l[i] /\ r[j] = l[j - 1] /\ i \in 1 .. n /\ j - 1 \in 1 .. n /\ i < j - 1
      BY <1>1, <1>2, <1>6, <2>0, <2>4
    <3> QED
      BY <1>4, <3>1
  <2>5. CASE i > k + 1
    <3>1. r[i] = l[i - 1] /\ r[j] = l[j - 1] /\ i - 1 \in 1 .. n /\ j - 1 \in 1 .. n /\ i - 1 < j - 1
      BY <1>1, <1>2, <1>6, <2>0, <2>5
    <3> QED
      BY <1>4, <3>1
  <2> QED
    BY <1>1, <1>6, <2>0, <2>1, <2>2, <2>3, <2>4, <2>5
<1> QED
  BY <1>1, <1>6 DEF Sorted, r

(* The insertion loop stops where h keeps the list sorted. *)
LEMMA InsertSorted ==
  ASSUME NEW l \in Seq(HrTimers), NEW h \in HrTimers, h \notin Range(l),
         expire_ns \in [HrTimers -> Nat], NEW e \in [HrTimers -> Nat],
         \A g \in HrTimers \ {h} : e[g] = expire_ns[g], Sorted(l, expire_ns)
  PROVE  /\ insert(l, e[h], h) \in Seq(HrTimers)
         /\ Range(insert(l, e[h], h)) \subseteq Range(l) \cup {h}
         /\ Sorted(insert(l, e[h], h), e)
<1> DEFINE n == Len(l)
           stops == {k \in 0 .. n : k = n \/ expire_ns[l[k + 1]] >= e[h]}
           k == CHOOSE k \in stops : \A i \in stops : k <= i
<1>1. n \in Nat /\ \A j \in 1 .. n : l[j] \in HrTimers /\ l[j] # h /\ e[l[j]] = expire_ns[l[j]]
  BY DEF Range
<1>2. stops \subseteq Nat /\ n \in stops
  BY <1>1
<1>3. k \in stops /\ \A i \in stops : k <= i
  <2> HIDE DEF stops
  <2>1. \E m \in stops : \A i \in stops : m <= i
    BY <1>2, LeastExists
  <2> QED
    BY <2>1
<1>4. insert(l, e[h], h) = put(l, k, h)
  BY DEF insert
<1> HIDE DEF k
<1>5. k \in 0 .. n
  BY <1>3
<1>6. ASSUME NEW i \in 1 .. k PROVE e[l[i]] <= e[h]
  <2>1. i - 1 \in 0 .. n /\ i - 1 # n /\ i - 1 < k /\ i \in 1 .. n
    BY <1>1, <1>5
  <2>2. i - 1 \notin stops
    <3> HIDE DEF stops
    <3>1. ~(k <= i - 1)
      BY <1>5, <2>1
    <3> QED
      BY <1>3, <3>1
  <2>3. ~(expire_ns[l[(i - 1) + 1]] >= e[h])
    BY <2>1, <2>2
  <2>4. (i - 1) + 1 = i
    BY <2>1
  <2>5. l[i] \in HrTimers /\ e[l[i]] = expire_ns[l[i]]
    BY <1>1, <2>1
  <2>6. e[l[i]] \in Nat /\ e[h] \in Nat
    BY <2>5
  <2> QED
    BY <2>3, <2>4, <2>5, <2>6
<1>7. k < n => e[h] <= e[l[k + 1]]
  <2> SUFFICES ASSUME k < n PROVE e[h] <= e[l[k + 1]]
    OBVIOUS
  <2>1. expire_ns[l[k + 1]] >= e[h] /\ k + 1 \in 1 .. n
    BY <1>1, <1>3, <1>5
  <2>2. e[l[k + 1]] = expire_ns[l[k + 1]] /\ l[k + 1] \in HrTimers
    BY <1>1, <2>1
  <2>3. e[l[k + 1]] \in Nat /\ e[h] \in Nat
    BY <2>2
  <2> QED
    BY <2>1, <2>2, <2>3
<1>8. Sorted(l, e)
  BY <1>1 DEF Sorted
<1>9. Sorted(put(l, k, h), e)
  BY <1>5, <1>6, <1>7, <1>8, PutSorted
<1> QED
  BY <1>4, <1>5, <1>9, PutFacts

(* Taking the timer h out keeps a list sorted. *)
LEMMA UnlinkSorted ==
  ASSUME NEW l \in Seq(HrTimers), NEW h, NEW e, Sorted(l, e)
  PROVE  /\ unlink(l, h) \in Seq(HrTimers)
         /\ Range(unlink(l, h)) \subseteq Range(l)
         /\ Sorted(unlink(l, h), e)
<1>1. CASE h \notin Range(l)
  BY <1>1 DEF unlink
<1>2. CASE h \in Range(l)
  <2> DEFINE n == Len(l)
             k == CHOOSE i \in DOMAIN l : l[i] = h
             r == [j \in 1 .. n - 1 |-> IF j < k THEN l[j] ELSE l[j + 1]]
  <2>1. k \in 1 .. n /\ n \in Nat
    BY <1>2 DEF Range
  <2>2. unlink(l, h) = r
    BY <1>2 DEF unlink
  <2> HIDE DEF k
  <2>3. \A j \in 1 .. n : l[j] \in HrTimers /\ l[j] \in Range(l)
    BY DEF Range
  <2>4. \A i, j \in 1 .. n : i < j => e[l[i]] <= e[l[j]] /\ l[i] # l[j]
    BY DEF Sorted
  <2> HIDE DEF n
  <2>5. \A j \in 1 .. n - 1 : \E m \in 1 .. n : r[j] = l[m] /\ m = IF j < k THEN j ELSE j + 1
    BY <2>1
  <2>6. \A j \in 1 .. n - 1 : r[j] \in HrTimers /\ r[j] \in Range(l)
    <3> HIDE DEF r
    <3> QED
      BY <2>3, <2>5
  <2>7. n - 1 \in Nat
    BY <2>1
  <2>8. r \in Seq(HrTimers) /\ Len(r) = n - 1 /\ DOMAIN r = 1 .. n - 1
    BY <2>6, <2>7
  <2>9. Range(r) \subseteq Range(l)
    BY <2>6, <2>8 DEF Range
  <2>10. Sorted(r, e)
    <3> HIDE DEF r
    <3> SUFFICES ASSUME NEW i \in 1 .. n - 1, NEW j \in 1 .. n - 1, i < j
                 PROVE  e[r[i]] <= e[r[j]] /\ r[i] # r[j]
      BY <2>8 DEF Sorted
    <3>1. PICK a \in 1 .. n : r[i] = l[a] /\ a = IF i < k THEN i ELSE i + 1
      BY <2>5
    <3>2. PICK b \in 1 .. n : r[j] = l[b] /\ b = IF j < k THEN j ELSE j + 1
      BY <2>5
    <3>3. a < b
      BY <2>1, <3>1, <3>2
    <3> QED
      BY <2>4, <3>1, <3>2, <3>3
  <2> QED
    BY <2>2, <2>8, <2>9, <2>10
<1> QED
  BY <1>1, <1>2

(* Taking the head off keeps a list sorted, and the head is in it no more. *)
LEMMA TailSorted ==
  ASSUME NEW l \in Seq(HrTimers), l # << >>, NEW e, Sorted(l, e)
  PROVE  /\ Tail(l) \in Seq(HrTimers) /\ Sorted(Tail(l), e)
         /\ Range(Tail(l)) \subseteq Range(l) /\ Head(l) \notin Range(Tail(l))
<1> DEFINE n == Len(l)
           r == Tail(l)
<1>1. n \in Nat /\ n >= 1 /\ r \in Seq(HrTimers) /\ Len(r) = n - 1 /\ DOMAIN r = 1 .. n - 1 /\ Head(l) = l[1]
  OBVIOUS
<1>2. \A i \in 1 .. n - 1 : r[i] = l[i + 1] /\ i + 1 \in 1 .. n
  OBVIOUS
<1>3. \A i, j \in 1 .. n : i < j => e[l[i]] <= e[l[j]] /\ l[i] # l[j]
  BY DEF Sorted
<1>4. \A i \in 1 .. n : l[i] \in Range(l)
  BY DEF Range
<1> HIDE DEF n, r
<1>5. Sorted(r, e)
  <2> SUFFICES ASSUME NEW i \in 1 .. n - 1, NEW j \in 1 .. n - 1, i < j
               PROVE  e[r[i]] <= e[r[j]] /\ r[i] # r[j]
    BY <1>1 DEF Sorted
  <2>1. i + 1 \in 1 .. n /\ j + 1 \in 1 .. n /\ i + 1 < j + 1
    BY <1>1
  <2> QED
    BY <1>2, <1>3, <2>1
<1>6. Range(r) \subseteq Range(l)
  BY <1>1, <1>2, <1>4 DEF Range
<1>7. l[1] \notin Range(r)
  <2> SUFFICES ASSUME NEW i \in 1 .. n - 1 PROVE r[i] # l[1]
    BY <1>1 DEF Range
  <2>1. 1 \in 1 .. n /\ i + 1 \in 1 .. n /\ 1 < i + 1
    BY <1>1
  <2> QED
    BY <1>2, <1>3, <2>1
<1> QED
  BY <1>1, <1>5, <1>6, <1>7 DEF r

(* The empty list is sorted. *)
LEMMA HrStart == timer_wheel_init => HrInv
<1> SUFFICES ASSUME timer_wheel_init PROVE HrInv
  OBVIOUS
<1>1. hrtimer_list = << >> /\ hrtimer_list \in Seq(HrTimers) /\ Len(hrtimer_list) = 0 /\ DOMAIN hrtimer_list = {}
  BY DEF timer_wheel_init
<1>2. Range(hrtimer_list) = {} /\ Sorted(hrtimer_list, expire_ns)
  BY <1>1, SMTT(30) DEF Range, Sorted
<1> QED
  BY <1>1, <1>2 DEF timer_wheel_init, HrInv

(* What every step of the high resolution timers keeps. *)
LEMMA HrStep ==
  ASSUME HrInv, [TimerNext]_timerVars
  PROVE  HrInv'
<1>0. Ns \subseteq Nat \ {0} /\ NoTimer \notin HrTimers
  BY TimerAssumption
<1> USE DEF HrInv
<1>1. CASE UNCHANGED hrVars
  BY <1>1 DEF hrVars, Sorted
<1>2. ASSUME NEW h \in HrTimers, NEW ns \in Ns, hrtimer_start_begin(h, ns)
      PROVE  HrInv'
  <2>1. hpet + ns \in Nat /\ h \notin Range(hrtimer_list)
    BY <1>0, <1>2 DEF hrtimer_start_begin, active
  <2>2. expire_ns' \in [HrTimers -> Nat] /\ \A g \in HrTimers \ {h} : expire_ns'[g] = expire_ns[g]
    BY <1>2, <2>1 DEF hrtimer_start_begin
  <2>3. \A i \in 1 .. Len(hrtimer_list) : hrtimer_list[i] \in HrTimers \ {h}
    BY <2>1 DEF Range
  <2>4. Sorted(hrtimer_list, expire_ns')
    BY <2>2, <2>3 DEF Sorted
  <2> QED
    BY <1>2, <2>1, <2>2, <2>4 DEF hrtimer_start_begin
<1>3. CASE hrtimer_start_lock
  <2>1. starting \in HrTimers /\ starting \notin Range(hrtimer_list)
    BY <1>3 DEF hrtimer_start_lock
  <2> DEFINE l == insert(hrtimer_list, expire_ns[starting], starting)
  <2>2. /\ l \in Seq(HrTimers) /\ Sorted(l, expire_ns)
        /\ Range(l) \subseteq Range(hrtimer_list) \cup {starting}
    BY <2>1, InsertSorted
  <2>3. Range(hrtimer_list) \subseteq HrTimers
    BY DEF Range
  <2>4. hrtimer_list' = l /\ starting' = NoTimer /\ expire_ns' = expire_ns /\ hpet' = hpet
    BY <1>3 DEF hrtimer_start_lock
  <2> HIDE DEF l
  <2> QED
    BY <1>0, <2>1, <2>2, <2>3, <2>4
<1>4. ASSUME NEW h \in HrTimers, hrtimer_cancel(h)
      PROVE  HrInv'
  <2>1. hrtimer_list' = unlink(hrtimer_list, h) /\ UNCHANGED <<expire_ns, hpet, starting>>
    BY <1>4 DEF hrtimer_cancel
  <2> QED
    BY <2>1, UnlinkSorted
<1>5. CASE hrtimer_expire_turn
  <2> DEFINE l == Tail(hrtimer_list)
             g == Head(hrtimer_list)
  <2>1. hrtimer_list # << >> /\ UNCHANGED <<hpet, starting>>
    BY <1>5 DEF hrtimer_expire_turn, head_due
  <2>2. /\ l \in Seq(HrTimers) /\ Sorted(l, expire_ns)
        /\ Range(l) \subseteq Range(hrtimer_list) /\ g \notin Range(l)
    BY <2>1, TailSorted
  <2>3. CASE hrtimer_list' = l /\ UNCHANGED expire_ns
    BY <2>1, <2>2, <2>3, SMTT(30)
  <2>4. ASSUME NEW h \in HrTimers, NEW ns \in Ns, h = g \/ ~active(h), h # starting,
               expire_ns' = [expire_ns EXCEPT ![h] = hpet + ns],
               hrtimer_list' = insert(l, hpet + ns, h)
        PROVE  HrInv'
    <3>1. hpet + ns \in Nat
      BY <1>0
    <3>2. /\ expire_ns' \in [HrTimers -> Nat] /\ expire_ns'[h] = hpet + ns
          /\ \A f \in HrTimers \ {h} : expire_ns'[f] = expire_ns[f]
      BY <2>4, <3>1
    <3>3. h \notin Range(l)
      BY <2>2, <2>4 DEF active
    <3> HIDE DEF l, g
    <3>4. /\ hrtimer_list' \in Seq(HrTimers) /\ Sorted(hrtimer_list', expire_ns')
          /\ Range(hrtimer_list') \subseteq Range(l) \cup {h}
      <4> DEFINE e == expire_ns'
      <4>1. /\ l \in Seq(HrTimers) /\ Sorted(l, expire_ns) /\ expire_ns \in [HrTimers -> Nat]
            /\ e \in [HrTimers -> Nat] /\ \A f \in HrTimers \ {h} : e[f] = expire_ns[f]
        BY <1>0, <2>2, <3>2, Zenon
      <4>2. hrtimer_list' = insert(l, e[h], h)
        BY <2>4, <3>2, Zenon
      <4> HIDE DEF e
      <4>3. /\ insert(l, e[h], h) \in Seq(HrTimers)
            /\ Range(insert(l, e[h], h)) \subseteq Range(l) \cup {h}
            /\ Sorted(insert(l, e[h], h), e)
        BY <2>4, <3>3, <4>1, InsertSorted, Zenon
      <4> QED
        BY <4>2, <4>3, Zenon DEF e
    <3> QED
      BY <2>1, <2>2, <2>4, <3>2, <3>4
  <2>5. ASSUME NEW h \in HrTimers, hrtimer_list' = unlink(l, h), UNCHANGED expire_ns
        PROVE  HrInv'
    <3> HIDE DEF l
    <3> QED
      BY <2>1, <2>2, <2>5, UnlinkSorted
  <2> QED
    BY <1>5, <2>3, <2>4, <2>5 DEF hrtimer_expire_turn
<1>6. CASE timer_tick \/ hrtimer_expire_end
  BY <1>6 DEF timer_tick, hrtimer_expire_end
<1>7. CASE hpet_counts
  BY <1>7 DEF hpet_counts
<1>8. ASSUME NEW t \in Timers, NEW ms \in Delay, NEW o \in {0, 1}, timer_add_begin(t, ms, o)
      PROVE  HrInv'
  <2>1. UNCHANGED hrVars
    BY <1>8 DEF timer_add_begin
  <2> QED
    BY <1>1, <2>1
<1>9. CASE timer_add_lock \/ timer_add_end
  <2>1. UNCHANGED hrVars
    BY <1>9 DEF timer_add_lock, timer_add_end
  <2> QED
    BY <1>1, <2>1
<1>10. CASE UNCHANGED timerVars
  <2>1. UNCHANGED hrVars
    BY <1>10 DEF timerVars
  <2> QED
    BY <1>1, <2>1
<1> QED
  BY <1>1, <1>2, <1>3, <1>4, <1>5, <1>6, <1>7, <1>8, <1>9, <1>10 DEF TimerNext, critical

(***************************************************************************)
(* timer.c's list of high resolution timers stays sorted by expiry with no *)
(* timer in it twice: hrtimer_start, hrtimer_cancel and the callbacks that *)
(* __hrtimer_expire runs with the lock given up may come in any order.     *)
(***************************************************************************)
THEOREM HrListSorted == TimerSpec => []HrSorted
<1>1. HrInv => HrSorted
  BY DEF HrInv, HrSorted, Sorted
<1>2. HrInv /\ [TimerNext]_timerVars => HrInv'
  BY HrStep
<1> QED
  BY HrStart, <1>1, <1>2, PTL DEF TimerSpec
=============================================================================
