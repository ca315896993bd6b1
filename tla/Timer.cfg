CONSTANTS
  Timer = {t1, t2}
  SchedTimer = sched
  NoTimer = NoTimer
  Period = 3
  MinDelta = 1
  Latency = 1
  Interval = 15
  KtimeMax = 20
  Deadline = {0, 2, 3, 5, 20}
  MaxTime = 7
SPECIFICATION Spec
INVARIANTS NextIsEarliest LateByAtMostAPeriod
 
