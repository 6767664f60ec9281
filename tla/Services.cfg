\* The bridge, the update queue and the subagent pool.
SPECIFICATION Spec
CONSTANTS
  MaxPanels = 2
  MaxJobs = 2
  MaxRestarts = 1
  Scopes = {s, u}
  UserScope = u
  QueueSize = 1
  MaxUpdates = 3
  MaxFlushes = 1
  Tasks = {t1, t2}
INVARIANTS ServicesTypeOK DeliveredOnce NoStaleSave NewestIsKept TaskEndsAsTold
PROPERTIES WritesWait
CHECK_DEADLOCK FALSE
