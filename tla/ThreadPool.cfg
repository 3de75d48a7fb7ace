CONSTANTS
  Workers = {w1, w2, w3}
  Clients = {c1, c2}
  Tasks = {t1, t2, t3}
  NoWorker = NoWorker
  NoTask = NoTask
  WorkerTimeout = TRUE
  RunMayOverlapShutdown = FALSE
SPECIFICATION FairSpec
INVARIANT NoUseAfterDelete
PROPERTY AcceptedTaskRuns WorkersTerminate ImplementsTaskPool
