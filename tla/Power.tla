------------------------------- MODULE Power -------------------------------
(***************************************************************************)
(* Power management: frequency policies and their governors (cpufreq.c),   *)
(* idle states (cpuidle.c), thermal zones (thermal.c), watchdogs           *)
(* (watchdog.c) and the sleep states (acpi_pm.c).  The five share nothing, *)
(* each has its own variables and its own next-state relation.             *)
(***************************************************************************)
EXTENDS Naturals, Integers, Sequences, FiniteSets, SequencesExt, FiniteSetsExt

CONSTANTS
  Governors,              \* the names cpufreq_init registers, in its order
  OtherGovernor,          \* a name outside the build: registered by a driver or unknown
  CPUFREQ_MAX_GOVERNORS,
  MaxFreq, MinFreq, CPUFREQ_TABLE_MAX,  \* in steps of the table, 100 MHz each
  TripAt, Hysteresis,     \* the passive trip of the zone
  Temp,                   \* what the sensor may read
  CoolingMax,             \* max_state of the cooling device
  Poller,                 \* callers of thermal_zone_device_update
  WdtDriver,              \* drivers that own a watchdog_device_t
  WdtSource,              \* the source field each of them asks for
  WdtAction,              \* and the action
  WATCHDOG_MAX_DEVICES,
  Timeout,                \* timeouts asked for
  HpetAvailable, AcpiAvailable,
  MaxTick,                \* bounds the clock
  SleepTypes,             \* the states whose sleep_type the FADT gives
  MaxIdles                \* bounds the completed idle periods

ASSUME PowerAssumption ==
  /\ CPUFREQ_TABLE_MAX > 0 /\ MinFreq < MaxFreq
  /\ OtherGovernor \notin Range(Governors) /\ Len(Governors) <= CPUFREQ_MAX_GOVERNORS

VARIABLES
  cpufreq_governors,      \* cpufreq.c: the registered names, in array order
  gov_active,             \* the active field of each governor
  cpufreq_driver,         \* cpufreq_curr_driver # NULL
  policy,                 \* policy 0: governor_name and cur_freq
  asked,                  \* a caller has set or announced a frequency since the last start
  unregistered,           \* governors unregistered while active
  idle_dev,               \* cpuidle.c: the device of the processor
  idle_devices,           \* cpuidle_num_devices
  idling,                 \* the state being left, -1 when not idle
  idles,                  \* idle periods completed since the last registration
  zone,                   \* thermal.c: a zone with one passive trip
  cdev_state,             \* the state of its cooling device
  update_at,              \* where each poller is in the update
  announced,              \* the temperature last given to the notifiers
  updates_crossed,        \* two updates have been in progress at once
  watchdog_devices, watchdog_count, own_wdt, held_wdt, wdt_now, wdt_reset, wdt_moved,
  pm_state, pm_saved

freqVars == <<cpufreq_governors, gov_active, cpufreq_driver, policy, asked, unregistered>>
idleVars == <<idle_dev, idle_devices, idling, idles>>
thermalVars == <<zone, cdev_state, update_at, announced, updates_crossed>>
wdtVars == <<watchdog_devices, watchdog_count, own_wdt, held_wdt, wdt_now, wdt_reset, wdt_moved>>
pmVars == <<pm_state, pm_saved>>

-----------------------------------------------------------------------------
(* cpufreq.  The table falls from max_freq; below min_freq it repeats it.   *)
Governor == Range(Governors) \cup {OtherGovernor}
freq_table == [i \in 1..CPUFREQ_TABLE_MAX |-> IF MaxFreq - (i - 1) >= MinFreq THEN MaxFreq - (i - 1) ELSE MinFreq]

(* The first entry whose successor is above the maximum, or the last one. *)
performance_start(freq) ==
  LET fits == {i \in DOMAIN freq_table :
                 /\ freq_table[i] <= MaxFreq
                 /\ ~(i < Len(freq_table) /\ freq_table[i + 1] <= MaxFreq)}
  IN  IF fits = {} THEN freq ELSE freq_table[Min(fits)]

(* The last entry not below the minimum. *)
powersave_start(freq) ==
  LET fits == {i \in DOMAIN freq_table : freq_table[i] >= MinFreq}
  IN  IF fits = {} THEN freq ELSE freq_table[Max(fits)]

started_freq(g, freq) ==
  IF ~cpufreq_driver THEN freq
  ELSE IF g = "performance" THEN performance_start(freq)
  ELSE IF g = "powersave" THEN powersave_start(freq) ELSE freq

cpufreq_init ==
  /\ cpufreq_governors = Governors
  /\ gov_active = [g \in Governor |-> IF g = "performance" THEN 1 ELSE 0]
  /\ cpufreq_driver = TRUE
  /\ policy = [governor_name |-> "performance", cur_freq |-> performance_start(MaxFreq)]
  /\ asked = FALSE /\ unregistered = {}

cpufreq_register_driver == ~cpufreq_driver /\ cpufreq_driver' = TRUE
cpufreq_unregister_driver == cpufreq_driver /\ cpufreq_driver' = FALSE
cpufreq_driver_change ==
  /\ (cpufreq_register_driver \/ cpufreq_unregister_driver)
  /\ UNCHANGED <<cpufreq_governors, gov_active, policy, asked, unregistered>>

cpufreq_register_governor(g) ==
  /\ Len(cpufreq_governors) < CPUFREQ_MAX_GOVERNORS
  /\ g \notin Range(cpufreq_governors)
  /\ cpufreq_governors' = Append(cpufreq_governors, g)
  /\ UNCHANGED <<gov_active, cpufreq_driver, policy, asked, unregistered>>

(* The last governor takes the place of the one removed. *)
swap_removed(g) ==
  LET n == Len(cpufreq_governors)
      filled == [i \in 1..n |-> IF cpufreq_governors[i] = g THEN cpufreq_governors[n] ELSE cpufreq_governors[i]]
  IN  SubSeq(filled, 1, n - 1)

cpufreq_unregister_governor(g) ==
  /\ g \in Range(cpufreq_governors)
  /\ cpufreq_governors' = swap_removed(g)
  /\ unregistered' = IF gov_active[g] = 1 THEN unregistered \cup {g} ELSE unregistered
  /\ UNCHANGED <<gov_active, cpufreq_driver, policy, asked>>

(* The old governor is stopped before the new one is looked up: an unknown *)
(* name leaves the policy with a governor that is stopped.                 *)
stop_old(flags) ==
  IF policy.governor_name \in Range(cpufreq_governors) THEN [flags EXCEPT ![policy.governor_name] = 0] ELSE flags

switched(g, flags) == [flags EXCEPT ![g] = 1]

cpufreq_set_policy(g) ==
  /\ IF g \in Range(cpufreq_governors)
     THEN /\ gov_active' = switched(g, stop_old(gov_active))
          /\ policy' = [governor_name |-> g, cur_freq |-> started_freq(g, policy.cur_freq)]
          /\ asked' = (asked /\ (~cpufreq_driver \/ g \notin {"performance", "powersave"}))
     ELSE /\ gov_active' = stop_old(gov_active)
          /\ UNCHANGED <<policy, asked>>
  /\ UNCHANGED <<cpufreq_governors, cpufreq_driver, unregistered>>

cpufreq_update_policy ==
  /\ policy.governor_name \in Range(cpufreq_governors)
  /\ policy' = [policy EXCEPT !.cur_freq =
                  IF policy.governor_name \in {"performance", "powersave"}
                  THEN started_freq(policy.governor_name, @) ELSE @]
  /\ asked' = (asked /\ (~cpufreq_driver \/ policy.governor_name \notin {"performance", "powersave"}))
  /\ UNCHANGED <<cpufreq_governors, gov_active, cpufreq_driver, unregistered>>

cpufreq_set_frequency(f) ==
  /\ cpufreq_driver
  /\ f \in MinFreq..MaxFreq /\ f \in Range(freq_table)
  /\ policy' = [policy EXCEPT !.cur_freq = f]
  /\ asked' = TRUE
  /\ UNCHANGED <<cpufreq_governors, gov_active, cpufreq_driver, unregistered>>

cpufreq_notify_transition(f) ==
  /\ policy' = [policy EXCEPT !.cur_freq = f]
  /\ asked' = TRUE
  /\ UNCHANGED <<cpufreq_governors, gov_active, cpufreq_driver, unregistered>>

FreqNext ==
  \/ cpufreq_driver_change \/ cpufreq_update_policy
  \/ \E g \in Governor : cpufreq_register_governor(g) \/ cpufreq_unregister_governor(g) \/ cpufreq_set_policy(g)
  \/ \E f \in {MinFreq, MaxFreq, MaxFreq + 1} : cpufreq_set_frequency(f) \/ cpufreq_notify_transition(f)

(* No name is registered twice; a governor is active only while the policy *)
(* names it, or because it was unregistered in use and never stopped; and  *)
(* until a caller chooses a frequency the processor stands at the last     *)
(* entry of the table, which both "performance" and "powersave" select.    *)
FreqBooks ==
  /\ IsInjective(cpufreq_governors)
  /\ \A g \in Governor : gov_active[g] = 1 => g = policy.governor_name \/ g \in unregistered
  /\ ~asked => policy.cur_freq = Last(freq_table)

-----------------------------------------------------------------------------
(* cpuidle.  The states of the table of the build, in its units.           *)
exit_latency == <<0, 1, 10, 80, 120, 200>>
target_residency == <<0, 2, 20, 200, 400, 600>>
IdleState == 0..(Len(exit_latency) - 1)
CPUIDLE_MAX_CPUS == 2     \* bounds the registrations

zeroed_dev == [enabled |-> 0, state_count |-> 0, last_state_idx |-> 0, usage_count |-> [i \in IdleState |-> 0]]

cpuidle_init == idle_dev = zeroed_dev /\ idle_devices = 0 /\ idling = -1 /\ idles = 0

(* Every registration counts as one more device, the same one included. *)
cpuidle_register_device ==
  /\ idle_devices < CPUIDLE_MAX_CPUS
  /\ idle_dev' = [zeroed_dev EXCEPT !.enabled = 1, !.state_count = Cardinality(IdleState)]
  /\ idle_devices' = idle_devices + 1
  /\ idles' = 0
  /\ UNCHANGED idling

cpuidle_unregister_device ==
  /\ idle_dev.enabled = 1
  /\ idle_dev' = [idle_dev EXCEPT !.enabled = 0, !.state_count = 0]
  /\ UNCHANGED <<idle_devices, idling, idles>>

(* The deepest state, by exit latency, worth entering for so long. *)
cpuidle_get_best_state(predicted) ==
  LET worth == {i \in 0..(idle_dev.state_count - 1) : target_residency[i + 1] <= predicted}
  IN  IF worth = {} THEN 0
      ELSE Min({i \in worth : \A k \in worth : exit_latency[k + 1] <= exit_latency[i + 1]})

cpuidle_enter_state(i) ==
  /\ idling = -1 /\ idles < MaxIdles
  /\ i < idle_dev.state_count
  /\ idling' = i
  /\ UNCHANGED <<idle_dev, idle_devices, idles>>

cpuidle_enter_free == idle_dev.state_count > 0 /\ cpuidle_enter_state(cpuidle_get_best_state(100))

(* Awake again: the counters, then reflect, which looks at state_count anew. *)
reflected(dev, i) == IF i < dev.state_count THEN [dev EXCEPT !.last_state_idx = i] ELSE dev

cpuidle_left_state ==
  /\ idling # -1
  /\ idle_dev' = reflected([idle_dev EXCEPT !.usage_count[idling] = @ + 1], idling)
  /\ idles' = idles + 1
  /\ idling' = -1
  /\ UNCHANGED idle_devices

IdleNext ==
  \/ cpuidle_register_device \/ cpuidle_unregister_device \/ cpuidle_enter_free \/ cpuidle_left_state
  \/ \E i \in IdleState : cpuidle_enter_state(i)

(* The usage counters add up to the idle periods completed since the last  *)
(* registration, whatever was registered or unregistered during them; the  *)
(* last state is one that was used, and a device is enabled exactly while  *)
(* it has states to enter.                                                 *)
IdleBooks ==
  /\ FoldSet(LAMBDA i, n : idle_dev.usage_count[i] + n, 0, IdleState) = idles
  /\ idle_dev.last_state_idx # 0 => idle_dev.usage_count[idle_dev.last_state_idx] > 0
  /\ idle_dev.enabled = 1 <=> idle_dev.state_count > 0

-----------------------------------------------------------------------------
(* thermal: one zone, its governor step_wise, one cooling device bound to  *)
(* it by the driver.  An update runs in three steps, at the unlock between *)
(* them: the temperature stored, the notifiers called, the trips walked.   *)
thermal_init ==
  /\ zone = [temperature |-> 0, last_temperature |-> 0, passive |-> 0]
  /\ cdev_state = 0
  /\ update_at = [p \in Poller |-> [at |-> "out", temp |-> 0]]
  /\ announced = 0
  /\ updates_crossed = FALSE

update_store(p, temp) ==
  /\ update_at[p].at = "out"
  /\ zone' = [zone EXCEPT !.last_temperature = zone.temperature, !.temperature = temp]
  /\ update_at' = [update_at EXCEPT ![p] = [at |-> "notify", temp |-> temp]]
  /\ updates_crossed' = (updates_crossed \/ \E q \in Poller \ {p} : update_at[q].at # "out")
  /\ UNCHANGED <<cdev_state, announced>>

update_notify(p) ==
  /\ update_at[p].at = "notify"
  /\ announced' = IF update_at[p].temp # zone.last_temperature THEN update_at[p].temp ELSE announced
  /\ update_at' = [update_at EXCEPT ![p].at = "trips"]
  /\ UNCHANGED <<zone, cdev_state, updates_crossed>>

(* throttle is called at or above the trip only, so only its way up runs. *)
step_wise_throttle(state) ==
  IF zone.temperature >= TripAt THEN IF state < CoolingMax THEN state + 1 ELSE state
  ELSE IF zone.temperature < TripAt - Hysteresis /\ state > 0 THEN state - 1 ELSE state

update_trips(p) ==
  /\ update_at[p].at = "trips"
  /\ IF zone.temperature >= TripAt
     THEN /\ zone' = [zone EXCEPT !.passive = 1]
          /\ cdev_state' = step_wise_throttle(cdev_state)
     ELSE /\ zone' = IF zone.temperature < TripAt - Hysteresis THEN [zone EXCEPT !.passive = 0] ELSE zone
          /\ UNCHANGED cdev_state
  /\ update_at' = [update_at EXCEPT ![p] = [at |-> "out", temp |-> 0]]
  /\ UNCHANGED <<announced, updates_crossed>>

thermal_cooling_set_cur_state(state) ==
  /\ state <= CoolingMax
  /\ cdev_state' = state
  /\ UNCHANGED <<zone, update_at, announced, updates_crossed>>

ThermalNext ==
  \/ \E p \in Poller : update_notify(p) \/ update_trips(p) \/ \E temp \in Temp : update_store(p, temp)
  \/ \E state \in 0..(CoolingMax + 1) : thermal_cooling_set_cur_state(state)

(* The cooling device never leaves its range; between updates that did not *)
(* cross, the notifiers know the temperature and the zone is passive above *)
(* the trip and not below the hysteresis.  Two updates that cross may lose *)
(* the notification: last_temperature is read after the unlock.            *)
ThermalBooks ==
  /\ cdev_state <= CoolingMax
  /\ ~updates_crossed =>
       /\ (\A p \in Poller : update_at[p].at \in {"out", "trips"}) => announced = zone.temperature
       /\ (\A p \in Poller : update_at[p].at = "out") =>
            /\ zone.temperature >= TripAt => zone.passive = 1
            /\ zone.temperature < TripAt - Hysteresis => zone.passive = 0

-----------------------------------------------------------------------------
(* watchdog.  A registered device is copied into the array: the driver has *)
(* its own object, and may get a pointer into the array with               *)
(* watchdog_get_by_name.  Slots past the count keep their last contents.   *)
WdtSlot == 1..WATCHDOG_MAX_DEVICES
watchdog_get_ticks == IF HpetAvailable THEN wdt_now ELSE 0

unused_wdt == [name |-> "", status |-> "STOPPED", last_ping |-> 0, expires |-> 0,
               timeout |-> 0, source |-> "PCI", registered |-> 0]

watchdog_init ==
  /\ watchdog_devices = [i \in WdtSlot |-> unused_wdt]
  /\ watchdog_count = 0
  /\ own_wdt = [d \in WdtDriver |-> [unused_wdt EXCEPT !.name = d, !.source = WdtSource[d]]]
  /\ held_wdt = [d \in WdtDriver |-> 0]
  /\ wdt_now = 1 /\ wdt_reset = FALSE
  /\ wdt_moved = {}

chosen_source(source) ==
  IF source # "HPET" \/ HpetAvailable THEN source ELSE IF AcpiAvailable THEN "ACPI" ELSE "SOFTWARE"

watchdog_register(d) ==
  /\ watchdog_count < WATCHDOG_MAX_DEVICES
  /\ \A i \in 1..watchdog_count : watchdog_devices[i].name # d
  /\ LET wdt == [own_wdt[d] EXCEPT !.status = "STOPPED", !.last_ping = 0, !.expires = 0, !.registered = 1,
                                   !.timeout = IF @ = 0 THEN Max(Timeout) ELSE @,
                                   !.source = chosen_source(@)]
     IN  /\ own_wdt' = [own_wdt EXCEPT ![d] = wdt]
         /\ watchdog_devices' = [watchdog_devices EXCEPT ![watchdog_count + 1] = wdt]
  /\ watchdog_count' = watchdog_count + 1
  /\ UNCHANGED <<held_wdt, wdt_now, wdt_reset, wdt_moved>>

(* The timers.  Those of the HPET and of ACPI are hardware: only whether   *)
(* they could be set is seen here.                                         *)
software_expires(wdt) ==
  IF wdt.source = "SOFTWARE" THEN watchdog_get_ticks + (IF HpetAvailable THEN wdt.timeout ELSE 0) ELSE wdt.expires

timer_set(wdt) == wdt.source = "SOFTWARE" \/ (wdt.source = "HPET" /\ HpetAvailable) \/ (wdt.source = "ACPI" /\ AcpiAvailable)

started_wdt(wdt) ==
  [wdt EXCEPT !.last_ping = watchdog_get_ticks,
              !.expires = software_expires(wdt),
              !.status = IF timer_set(wdt) THEN "RUNNING" ELSE @]
stopped_wdt(wdt) == [wdt EXCEPT !.status = "STOPPED", !.expires = 0]

pinged_wdt(wdt) ==
  IF wdt.status # "RUNNING" THEN wdt
  ELSE [wdt EXCEPT !.last_ping = watchdog_get_ticks, !.expires = software_expires(wdt)]
timed_wdt(wdt, t) == pinged_wdt([wdt EXCEPT !.timeout = t])

(* An operation on the driver's own object, or through the pointer it holds. *)
on_own(d, Op(_)) ==
  /\ own_wdt[d].registered = 1
  /\ own_wdt' = [own_wdt EXCEPT ![d] = Op(own_wdt[d])]
  /\ UNCHANGED watchdog_devices
on_held(d, Op(_)) ==
  /\ held_wdt[d] # 0
  /\ watchdog_devices[held_wdt[d]].registered = 1
  /\ watchdog_devices' = [watchdog_devices EXCEPT ![held_wdt[d]] = Op(watchdog_devices[held_wdt[d]])]
  /\ UNCHANGED own_wdt
wdt_op(d, Op(_)) ==
  /\ on_own(d, Op) \/ on_held(d, Op)
  /\ UNCHANGED <<watchdog_count, held_wdt, wdt_now, wdt_reset, wdt_moved>>

watchdog_start(d) == wdt_op(d, started_wdt)
watchdog_stop(d) == wdt_op(d, stopped_wdt)
watchdog_ping(d) == wdt_op(d, pinged_wdt)
watchdog_set_timeout(d, t) == LET Op(wdt) == timed_wdt(wdt, t) IN wdt_op(d, Op)

watchdog_get_by_name(d) ==
  /\ \E i \in 1..watchdog_count : watchdog_devices[i].name = d /\ held_wdt' = [held_wdt EXCEPT ![d] = i]
  /\ wdt_moved' = wdt_moved \ {d}
  /\ UNCHANGED <<watchdog_devices, watchdog_count, own_wdt, wdt_now, wdt_reset>>

(* Stopped, then the later devices move down over it. *)
watchdog_unregister(d) ==
  \E i \in 1..watchdog_count :
    /\ watchdog_devices[i].name = d
    /\ LET stopped == [watchdog_devices EXCEPT ![i] = [stopped_wdt(@) EXCEPT !.registered = 0]]
       IN  watchdog_devices' = [k \in WdtSlot |-> IF k \in i..(watchdog_count - 1) THEN stopped[k + 1] ELSE stopped[k]]
      /\ watchdog_count' = watchdog_count - 1
    /\ wdt_moved' = wdt_moved \cup {e \in WdtDriver : held_wdt[e] >= i}
    /\ UNCHANGED <<own_wdt, held_wdt, wdt_now, wdt_reset>>

(* Only the devices of the array are checked; a reset ends the walk. *)
watchdog_check_all ==
  LET due == {i \in 1..watchdog_count :
                /\ watchdog_devices[i].status = "RUNNING" /\ watchdog_devices[i].source = "SOFTWARE"
                /\ watchdog_devices[i].expires # 0 /\ watchdog_get_ticks >= watchdog_devices[i].expires}
      resets == {i \in due : WdtAction[watchdog_devices[i].name] = "RESET"}
      reached == IF resets = {} THEN due ELSE {i \in due : i <= Min(resets)}
  IN  /\ watchdog_devices' = [i \in WdtSlot |->
            IF i \in reached THEN [watchdog_devices[i] EXCEPT !.status = "EXPIRED"] ELSE watchdog_devices[i]]
      /\ wdt_reset' = (resets # {})
      /\ UNCHANGED <<watchdog_count, own_wdt, held_wdt, wdt_now, wdt_moved>>

wdt_tick ==
  /\ wdt_now < MaxTick
  /\ wdt_now' = wdt_now + 1
  /\ UNCHANGED <<watchdog_devices, watchdog_count, own_wdt, held_wdt, wdt_reset, wdt_moved>>

WdtNext ==
  /\ ~wdt_reset
  /\ \/ watchdog_check_all \/ wdt_tick
     \/ \E d \in WdtDriver :
          \/ watchdog_register(d) \/ watchdog_unregister(d) \/ watchdog_get_by_name(d)
          \/ watchdog_start(d) \/ watchdog_stop(d) \/ watchdog_ping(d)
          \/ \E t \in Timeout : watchdog_set_timeout(d, t)

(* The names of the array are distinct; a running software watchdog is due *)
(* one timeout after its last ping and an expired one was not pinged that  *)
(* long; a pointer into the array is to the driver's own device unless a   *)
(* device was unregistered under it; and a watchdog run through the object *)
(* its driver registered never expires, whatever is forgotten.             *)
WatchdogBooks ==
  /\ \A i, k \in 1..watchdog_count : watchdog_devices[i].name = watchdog_devices[k].name => i = k
  /\ \A i \in 1..watchdog_count :
       LET wdt == watchdog_devices[i]
       IN  /\ HpetAvailable /\ wdt.source = "SOFTWARE" /\ wdt.status = "RUNNING" => wdt.expires = wdt.last_ping + wdt.timeout
           /\ wdt.status = "EXPIRED" => wdt.expires \in 1..watchdog_get_ticks
  /\ \A d \in WdtDriver :
       /\ held_wdt[d] # 0 /\ d \notin wdt_moved => watchdog_devices[held_wdt[d]].name = d
       /\ own_wdt[d].status # "EXPIRED"

-----------------------------------------------------------------------------
(* acpi_pm.  The saved instruction pointer lies inside the save itself, so *)
(* the jump of a resume runs the rest of the suspend again.                *)
sleep_write(s) == pm_state' = s

fallen_asleep(s) == pm_saved' = s /\ sleep_write(s)

acpi_pm_init == pm_state = "run" /\ pm_saved = "none"
acpi_pm_suspend == pm_state = "run" /\ "S3" \in SleepTypes /\ fallen_asleep("S3")
acpi_pm_hibernate == pm_state = "run" /\ "S4" \in SleepTypes /\ fallen_asleep("S4")
acpi_pm_shutdown == pm_state = "run" /\ pm_state' = "S5" /\ UNCHANGED pm_saved
acpi_pm_resume == pm_state \in {"S3", "S4"} /\ fallen_asleep(pm_saved)
PmNext == acpi_pm_suspend \/ acpi_pm_hibernate \/ acpi_pm_shutdown \/ acpi_pm_resume

(* Once a context is saved the processor runs no more: the wake-up falls   *)
(* back into the sleep it came from, and sti is never reached.             *)
PmNeverBack == pm_saved # "none" => pm_state = pm_saved

-----------------------------------------------------------------------------
(* Every variable has its type. *)
PowerTypeOK ==
  /\ Range(cpufreq_governors) \subseteq Governor /\ gov_active \in [Governor -> {0, 1}]
  /\ policy.governor_name \in Governor /\ policy.cur_freq \in Nat /\ cpufreq_driver \in BOOLEAN
  /\ asked \in BOOLEAN /\ unregistered \subseteq Governor
  /\ idle_dev.last_state_idx \in IdleState /\ idle_devices \in Nat /\ idling \in IdleState \cup {-1} /\ idles \in Nat
  /\ zone.passive \in {0, 1} /\ {zone.temperature, zone.last_temperature, announced} \subseteq Temp \cup {0}
  /\ cdev_state \in Nat /\ updates_crossed \in BOOLEAN
  /\ \A p \in Poller : update_at[p].at \in {"out", "notify", "trips"}
  /\ watchdog_count \in 0..WATCHDOG_MAX_DEVICES /\ DOMAIN watchdog_devices = WdtSlot
  /\ \A i \in WdtSlot : watchdog_devices[i].status \in {"STOPPED", "RUNNING", "EXPIRED"}
  /\ held_wdt \in [WdtDriver -> WdtSlot \cup {0}] /\ wdt_moved \subseteq WdtDriver
  /\ wdt_now \in Nat /\ wdt_reset \in BOOLEAN
  /\ pm_state \in {"run", "S3", "S4", "S5"} /\ pm_saved \in {"none", "S3", "S4"}
=============================================================================
