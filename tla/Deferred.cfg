CONSTANTS
  Timers = {t1, t2}
  TIMER_WHEEL_SIZE = 4
  TIMER_WHEEL_LEVELS = 4
  Delay = {0, 3, 6, 17}
  MaxJiffies = 9
  HrTimers = {h1, h2}
  Ns = {1, 2}
  MaxHpet = 3
  NoTimer = NoTimer
  Work = {w1, w2, w3}
  Flusher = {f1, f2}
  Tasklets = {k1, k2, k3}
  Runner = {r1, r2}
  TASKLET_MAX = 2
  MaxDisable = 1
  NoTasklet = NoTasklet
SPECIFICATION DeferredSpec
INVARIANTS DeferredTypeOK    WorkAccounting TaskletBooks
PROPERTIES FlushTaken WorkRuns
CHECK_DEADLOCK FALSE
