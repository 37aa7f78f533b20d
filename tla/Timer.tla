------------------------------- MODULE Timer -------------------------------
(***************************************************************************)
(* The timer wheel and the high resolution timers of kernel/timer.c.       *)
(* Processes add timers; the timer interrupt, which may come between any   *)
(* two statements of a process, runs timer_tick.  spin_lock leaves         *)
(* interrupts on, so an interrupt inside a critical section of tw.lock or  *)
(* hrtimer_lock spins for ever on the one CPU: that is `hung`.             *)
(*                                                                         *)
(* timer_del and timer_mod have no callers and are left out, and so is     *)
(* tw.next_expire, which is written and never read.  A timer is added only *)
(* when it is not in the wheel.                                            *)
(***************************************************************************)
EXTENDS Integers, Sequences, Functions

CONSTANTS
  Timers,              \* timer_entry_t objects
  TIMER_WHEEL_SIZE,    \* lists of a level, a power of two: shifts and masks are \div and %
  TIMER_WHEEL_LEVELS,
  Delay,               \* the expires_ms arguments
  MaxJiffies,          \* bound: ticks
  HrTimers,            \* hrtimer_t objects
  Ns,                  \* the ns arguments
  MaxHpet,             \* bound: the HPET counter
  NoTimer

ASSUME TimerAssumption ==
  /\ TIMER_WHEEL_SIZE \in Nat \ {0} /\ TIMER_WHEEL_LEVELS = 4
  /\ Delay \subseteq Nat /\ Ns \subseteq Nat \ {0}
  /\ MaxJiffies \in Nat /\ MaxHpet \in Nat
  /\ NoTimer \notin HrTimers

VARIABLES
  jiffies,
  wheel,               \* tw.levels[l].lists[i], from head to tail
  timer,               \* per timer: state, expires, oneshot
  adding,              \* the timer_add call under way, if there is one
  ran,                 \* history: the callbacks of the last tick, with their expiry
  hpet,                \* the main counter
  hrtimer_list,
  expire_ns,
  starting,            \* the timer of the hrtimer_start call under way, or NoTimer
  expiring,            \* the now of the __hrtimer_expire under way, or -1
  hung

wheelVars == <<jiffies, wheel, timer, adding, ran>>
hrVars    == <<hpet, hrtimer_list, expire_ns, starting, expiring>>
timerVars == <<wheelVars, hrVars, hung>>

SIZE   == TIMER_WHEEL_SIZE
Level  == 0 .. TIMER_WHEEL_LEVELS - 1
Bucket == 0 .. SIZE - 1

NoAdd   == [stage |-> "none"]
Unused  == [state |-> "INACTIVE", expires |-> 0, oneshot |-> 0]
Idle    == -1

timer_wheel_init ==
  /\ jiffies = 0
  /\ wheel = [l \in Level |-> [i \in Bucket |-> << >>]]
  /\ timer = [t \in Timers |-> Unused]
  /\ adding = NoAdd
  /\ ran = {}
  /\ hpet = 0 /\ hrtimer_list = << >> /\ expire_ns = [h \in HrTimers |-> 0]
  /\ starting = NoTimer /\ expiring = Idle
  /\ hung = FALSE

-----------------------------------------------------------------------------
(* expires - now is unsigned: an expiry in the past is a very large delta. *)
level(delta) ==
  IF 0 <= delta /\ delta < SIZE THEN 0
  ELSE IF 0 <= delta /\ delta < SIZE * SIZE THEN 1
  ELSE IF 0 <= delta /\ delta < SIZE * SIZE * SIZE THEN 2
  ELSE 3

(* The ticks that a list of a level stands for. *)
span(l) ==
  IF l = 0 THEN 1 ELSE IF l = 1 THEN SIZE ELSE IF l = 2 THEN SIZE * SIZE ELSE SIZE * SIZE * SIZE

(* Mutant: the slot is one short of the expiry. *)
index_early(expires, l) == ((expires + SIZE - 1) \div span(l)) % SIZE

index(expires, l) == (expires \div span(l)) % SIZE

__timer_enqueue(w, t, expires, now) ==
  LET l == level(expires - now)
  IN  [w EXCEPT ![l][index(expires, l)] = Append(@, t)]

timer_ms_to_jiffies(ms) == IF ms = 0 THEN 1 ELSE ms

(* timer_add up to the lock: the expiry is computed from an unlocked read of jiffies. *)
timer_add_begin(t, ms, oneshot) ==
  /\ adding = NoAdd
  /\ timer[t].state # "ACTIVE"
  /\ timer' = [timer EXCEPT ![t] = [Unused EXCEPT !.expires = jiffies + timer_ms_to_jiffies(ms)]]
  /\ adding' = [stage |-> "lock", t |-> t, oneshot |-> oneshot]
  /\ UNCHANGED <<jiffies, wheel, ran, hrVars>>

(* The critical section. *)
timer_add_lock ==
  /\ adding.stage = "lock"
  /\ wheel' = __timer_enqueue(wheel, adding.t, timer[adding.t].expires, jiffies)
  /\ timer' = [timer EXCEPT ![adding.t].state = "ACTIVE"]
  /\ adding' = [adding EXCEPT !.stage = "flag"]
  /\ UNCHANGED <<jiffies, ran, hrVars>>

(* timer_add_oneshot sets TIMER_FLAG_ONESHOT when timer_add has returned. *)
timer_add_end ==
  /\ adding.stage = "flag"
  /\ timer' = [timer EXCEPT ![adding.t].oneshot = adding.oneshot]
  /\ adding' = NoAdd
  /\ UNCHANGED <<jiffies, wheel, ran, hrVars>>

(* A loop that enters the timers of the list ts, those in the set again, into the wheel. *)
requeue(w, ts, again, tm, now) ==
  LET after[k \in 0 .. Len(ts)] ==
        IF k = 0 THEN w
        ELSE IF ts[k] \in again
               THEN __timer_enqueue(after[k - 1], ts[k], tm[ts[k]].expires, now)
               ELSE after[k - 1]
  IN  after[Len(ts)]

(***************************************************************************)
(* __expire_level0 at time now: the list of the current slot is detached,  *)
(* its callbacks run, timers that are not one-shot enter the wheel again   *)
(* one tick after their old expiry.                                        *)
(***************************************************************************)
due(now) == wheel[0][now % SIZE]

periodic == {t \in Timers : timer[t].oneshot = 0}

rearmed(now) ==
  [t \in Timers |->
     IF t \notin Range(due(now)) THEN timer[t]
     ELSE IF t \in periodic THEN [timer[t] EXCEPT !.expires = @ + 1]
     ELSE [timer[t] EXCEPT !.state = "EXPIRED"]]

(* Mutant: the slot is not emptied before its timers enter the wheel again. *)
expired_stays(now) == requeue(wheel, due(now), periodic, rearmed(now), now)

expired(now) ==
  requeue([wheel EXCEPT ![0][now % SIZE] = << >>], due(now), periodic, rearmed(now), now)

(* __cascade(0): level 1 only, and after the expiry of slot 0. *)
__cascade(w, tm, now) ==
  LET i == index(now, 1)
  IN  requeue([w EXCEPT ![1][i] = << >>], w[1][i], Timers, tm, now)

timer_tick ==
  LET now == jiffies + 1
  IN  /\ now <= MaxJiffies
      /\ expiring = Idle
      /\ jiffies' = now
      /\ ran' = {<<t, timer[t].expires>> : t \in Range(due(now))}
      /\ timer' = rearmed(now)
      /\ wheel' = IF now % SIZE = 0 THEN __cascade(expired(now), rearmed(now), now) ELSE expired(now)
      /\ expiring' = hpet
      /\ UNCHANGED <<adding, hpet, hrtimer_list, expire_ns, starting>>

-----------------------------------------------------------------------------
(* High resolution timers.  All are one-shot: hrtimer_start says so. *)

active(h) == h \in Range(hrtimer_list)

(* The list with h after its first k entries, and without h. *)
put(list, k, h) ==
  [j \in 1 .. Len(list) + 1 |-> IF j <= k THEN list[j] ELSE IF j = k + 1 THEN h ELSE list[j - 1]]

unlink(list, h) ==
  LET k == CHOOSE i \in DOMAIN list : list[i] = h
  IN  IF h \notin Range(list) THEN list
      ELSE [j \in 1 .. Len(list) - 1 |-> IF j < k THEN list[j] ELSE list[j + 1]]

(* Mutant: the comparison of the insertion loop is turned round. *)
insert_descending(list, e, h) ==
  LET stops == {k \in 0 .. Len(list) : k = Len(list) \/ expire_ns[list[k + 1]] <= e}
  IN  put(list, CHOOSE k \in stops : \A i \in stops : k <= i, h)

(* The loop stops at the first timer that is not earlier. *)
insert(list, e, h) ==
  LET stops == {k \in 0 .. Len(list) : k = Len(list) \/ expire_ns[list[k + 1]] >= e}
  IN  put(list, CHOOSE k \in stops : \A i \in stops : k <= i, h)

(* hrtimer_start up to the lock: the counter is read and the expiry set. *)
hrtimer_start_begin(h, ns) ==
  /\ starting = NoTimer /\ ~active(h)
  /\ expire_ns' = [expire_ns EXCEPT ![h] = hpet + ns]
  /\ starting' = h
  /\ UNCHANGED <<wheelVars, hpet, hrtimer_list, expiring>>

hrtimer_start_lock ==
  /\ starting # NoTimer
  /\ hrtimer_list' = insert(hrtimer_list, expire_ns[starting], starting)
  /\ starting' = NoTimer
  /\ UNCHANGED <<wheelVars, hpet, expire_ns, expiring>>

hrtimer_cancel(h) ==
  /\ starting = NoTimer
  /\ hrtimer_list' = unlink(hrtimer_list, h)
  /\ UNCHANGED <<wheelVars, hpet, expire_ns, starting, expiring>>

(***************************************************************************)
(* One turn of __hrtimer_expire, in the interrupt.  The callback runs with *)
(* the lock given up and may start or cancel timers; the loop goes on with *)
(* the counter value it read at first.                                     *)
(***************************************************************************)
head_due == hrtimer_list # << >> /\ expire_ns[Head(hrtimer_list)] <= expiring

hrtimer_expire_turn ==
  /\ expiring # Idle /\ head_due
  /\ \/ hrtimer_list' = Tail(hrtimer_list) /\ UNCHANGED expire_ns
     \/ \E h \in HrTimers, ns \in Ns :
          /\ h = Head(hrtimer_list) \/ ~active(h)
          /\ h # starting
          /\ expire_ns' = [expire_ns EXCEPT ![h] = hpet + ns]
          /\ hrtimer_list' = insert(Tail(hrtimer_list), hpet + ns, h)
     \/ \E h \in HrTimers :
          /\ hrtimer_list' = unlink(Tail(hrtimer_list), h)
          /\ UNCHANGED expire_ns
  /\ UNCHANGED <<wheelVars, hpet, starting, expiring>>

hrtimer_expire_end ==
  /\ expiring # Idle /\ ~head_due
  /\ expiring' = Idle
  /\ UNCHANGED <<wheelVars, hpet, hrtimer_list, expire_ns, starting>>

hpet_counts ==
  /\ hpet < MaxHpet /\ hpet' = hpet + 1
  /\ UNCHANGED <<wheelVars, hrtimer_list, expire_ns, starting, expiring>>

(* A critical section is left, or the interrupt comes inside it. *)
critical(A) ==
  \/ A /\ UNCHANGED hung
  \/ hung' = TRUE /\ UNCHANGED <<wheelVars, hrVars>>

(* Processes run only outside the interrupt. *)
TimerNext ==
  /\ ~hung
  /\ \/ /\ expiring = Idle
        /\ \/ \E t \in Timers, ms \in Delay, oneshot \in {0, 1} :
                timer_add_begin(t, ms, oneshot) /\ UNCHANGED hung
           \/ adding.stage = "lock" /\ critical(timer_add_lock)
           \/ timer_add_end /\ UNCHANGED hung
           \/ \E h \in HrTimers, ns \in Ns : hrtimer_start_begin(h, ns) /\ UNCHANGED hung
           \/ starting # NoTimer /\ critical(hrtimer_start_lock)
           \/ \E h \in HrTimers : critical(hrtimer_cancel(h))
     \/ (timer_tick \/ hrtimer_expire_turn \/ hrtimer_expire_end \/ hpet_counts) /\ UNCHANGED hung

TimerSpec == timer_wheel_init /\ [][TimerNext]_timerVars

-----------------------------------------------------------------------------
(* Every variable has the type of the C object it stands for. *)
TimerTypeOK ==
  /\ jiffies \in 0 .. MaxJiffies /\ hpet \in 0 .. MaxHpet
  /\ timer \in [Timers -> [state : {"INACTIVE", "ACTIVE", "EXPIRED"}, expires : Nat, oneshot : {0, 1}]]
  /\ wheel \in [Level -> [Bucket -> Seq(Timers)]]
  /\ hrtimer_list \in Seq(HrTimers)
  /\ starting \in HrTimers \cup {NoTimer} /\ expiring \in {Idle} \cup 0 .. MaxHpet

(***************************************************************************)
(* No callback runs before its time, for timers of every level, moved down *)
(* by a cascade or not, also when a tick comes between the computation of  *)
(* the expiry and the lock.                                                *)
(***************************************************************************)
NeverEarly == \A r \in ran : r[2] <= jiffies

(* A timer is in the wheel, and there in one place, exactly while it is ACTIVE. *)
WheelHoldsActive ==
  LET lists(t) == {x \in Level \X Bucket : t \in Range(wheel[x[1]][x[2]])}
  IN  /\ \A t \in Timers :
           IF timer[t].state = "ACTIVE" THEN \E x \in lists(t) : lists(t) = {x} ELSE lists(t) = {}
      /\ \A l \in Level, i \in Bucket : \A j, k \in DOMAIN wheel[l][i] :
           wheel[l][i][j] = wheel[l][i][k] => j = k

(***************************************************************************)
(* The comment on hrtimer_list (timer.c:16) says it is sorted by expiry.   *)
(* It is, with no timer in it twice, whatever the callbacks that run in    *)
(* the middle of __hrtimer_expire start or cancel.                         *)
(***************************************************************************)
HrSorted ==
  \A i, j \in DOMAIN hrtimer_list : i < j =>
    /\ expire_ns[hrtimer_list[i]] <= expire_ns[hrtimer_list[j]]
    /\ hrtimer_list[i] # hrtimer_list[j]
=============================================================================
