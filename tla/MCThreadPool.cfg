\* Three workers and five tasks, enqueued by the owner or by tasks.
CONSTANTS
  Worker = {w1, w2, w3}
  MaxTasks = 5
SPECIFICATION FairSpec
INVARIANTS NoLostWakeup
PROPERTIES ImplementsTaskService EveryTaskEnds DestructorReturns
CHECK_DEADLOCK FALSE
