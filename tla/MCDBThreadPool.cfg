\* Two of the five workers, so that with Pool three threads compete for a task;
\* three tasks.  The program stops, and may abort or hang.
SPECIFICATION PoolFairSpec
CONSTANTS
  Workers = {w1, w2}
  Pool = pool
  Tasks = {t1, t2, t3}
  NoTask = noTask
INVARIANTS PoolTypeOK
PROPERTIES PoolIsChannel FutureBecomesReady CleanShutdown
CHECK_DEADLOCK FALSE
