----------------------------- MODULE ThreadPool -----------------------------
(***************************************************************************)
(* mong-c-test/inc/ThreadPool.h: worker threads that wait on a condition   *)
(* variable for tasks in a queue.                                          *)
(*                                                                         *)
(* What runs with queue_mutex held is one action; enqueue notifies after   *)
(* it has released the mutex, in an action of its own.  Tasks are numbered *)
(* as they are enqueued.  One thread owns the pool: it enqueues tasks and  *)
(* at last destroys the pool.  A task may itself enqueue tasks, which the  *)
(* destructor's stop flag turns into an exception.                         *)
(***************************************************************************)
EXTENDS Integers, Sequences, FiniteSets

CONSTANTS
  Worker,   \* the threads of workers
  MaxTasks  \* bound: tasks enqueued

ASSUME PoolAssumption == Worker # {} /\ MaxTasks \in Nat

VARIABLES
  tasks,     \* the queue
  accepted,  \* number of tasks enqueued so far
  wpc,       \* a worker is at its mutex ("loop"), blocked on the condition
             \* ("wait"), running a task ("run"), in an enqueue made by that
             \* task before its notify_one ("notify"), or returned ("done")
  running,   \* the task a worker runs, 0 for none
  finished,  \* the tasks whose future is ready
  owner      \* the owner: "use", "notify" (in enqueue, before notify_one),
             \* and in the destructor "notify_all", "join", and "gone" after it

vars == <<tasks, accepted, wpc, running, finished, owner>>

\* The destructor sets stop before anything else.
stop == owner \in {"notify_all", "join", "gone"}

TypeOK ==
  /\ accepted \in Nat
  /\ tasks \in Seq(1..accepted)
  /\ wpc \in [Worker -> {"loop", "wait", "run", "notify", "done"}]
  /\ running \in [Worker -> 0..accepted]
  /\ finished \subseteq 1..accepted
  /\ owner \in {"use", "notify", "notify_all", "join", "gone"}

Init ==
  /\ tasks = << >>
  /\ accepted = 0
  /\ wpc = [w \in Worker |-> "loop"]
  /\ running = [w \in Worker |-> 0]
  /\ finished = {}
  /\ owner = "use"
-----------------------------------------------------------------------------
\* Mutant: the task goes to the front of the queue.
pushFront ==
  /\ ~stop /\ accepted < MaxTasks
  /\ accepted' = accepted + 1
  /\ tasks' = <<accepted + 1>> \o tasks

\* enqueue up to the release of the mutex; it throws once stop is set.
push ==
  /\ ~stop /\ accepted < MaxTasks
  /\ accepted' = accepted + 1
  /\ tasks' = Append(tasks, accepted + 1)

\* condition.notify_one(): one of the workers blocked on it wakes up.
Waiting == {w \in Worker : wpc[w] = "wait"}

\* p: the workers' program counters with the notifier already past the call.
notify_one(p) ==
  \/ \E w \in Waiting : wpc' = [p EXCEPT ![w] = "loop"]
  \/ Waiting = {} /\ wpc' = p
-----------------------------------------------------------------------------
OwnerEnqueue ==
  /\ owner = "use"
  /\ push
  /\ owner' = "notify"
  /\ UNCHANGED <<wpc, running, finished>>

OwnerNotify ==
  /\ owner = "notify"
  /\ notify_one(wpc)
  /\ owner' = "use"
  /\ UNCHANGED <<tasks, accepted, running, finished>>

\* ~ThreadPool: stop under the mutex, notify_all, join every worker.
Destroy ==
  /\ owner = "use"
  /\ owner' = "notify_all"
  /\ UNCHANGED <<tasks, accepted, wpc, running, finished>>

\* Mutant: notify_one for notify_all.
NotifyAllOne ==
  /\ owner = "notify_all"
  /\ notify_one(wpc)
  /\ owner' = "join"
  /\ UNCHANGED <<tasks, accepted, running, finished>>

NotifyAll ==
  /\ owner = "notify_all"
  /\ wpc' = [w \in Worker |-> IF wpc[w] = "wait" THEN "loop" ELSE wpc[w]]
  /\ owner' = "join"
  /\ UNCHANGED <<tasks, accepted, running, finished>>

Join ==
  /\ owner = "join"
  /\ \A w \in Worker : wpc[w] = "done"
  /\ owner' = "gone"
  /\ UNCHANGED <<tasks, accepted, wpc, running, finished>>
-----------------------------------------------------------------------------
\* Mutants: wait's predicate does not mention stop; a worker returns on stop
\* with tasks still queued.
BlockIgnoresStop(w) ==
  /\ wpc[w] = "loop" /\ tasks = << >>
  /\ wpc' = [wpc EXCEPT ![w] = "wait"]
  /\ UNCHANGED <<tasks, accepted, running, finished, owner>>
ReturnOnStop(w) ==
  /\ wpc[w] = "loop" /\ stop
  /\ wpc' = [wpc EXCEPT ![w] = "done"]
  /\ UNCHANGED <<tasks, accepted, running, finished, owner>>

\* The worker's turn under the mutex: wait's predicate is false and it blocks,
\* or it returns, or it takes the first task.
Block(w) ==
  /\ wpc[w] = "loop" /\ ~stop /\ tasks = << >>
  /\ wpc' = [wpc EXCEPT ![w] = "wait"]
  /\ UNCHANGED <<tasks, accepted, running, finished, owner>>

Return(w) ==
  /\ wpc[w] = "loop" /\ stop /\ tasks = << >>
  /\ wpc' = [wpc EXCEPT ![w] = "done"]
  /\ UNCHANGED <<tasks, accepted, running, finished, owner>>

Take(w) ==
  /\ wpc[w] = "loop" /\ tasks # << >>
  /\ tasks' = Tail(tasks)
  /\ running' = [running EXCEPT ![w] = Head(tasks)]
  /\ wpc' = [wpc EXCEPT ![w] = "run"]
  /\ UNCHANGED <<accepted, finished, owner>>

\* A wakeup that nobody notified, which condition variables allow; wait then
\* evaluates its predicate again.
Spurious(w) ==
  /\ wpc[w] = "wait"
  /\ wpc' = [wpc EXCEPT ![w] = "loop"]
  /\ UNCHANGED <<tasks, accepted, running, finished, owner>>

\* The running task calls enqueue.
TaskEnqueue(w) ==
  /\ wpc[w] = "run"
  /\ push
  /\ wpc' = [wpc EXCEPT ![w] = "notify"]
  /\ UNCHANGED <<running, finished, owner>>

TaskNotify(w) ==
  /\ wpc[w] = "notify"
  /\ notify_one([wpc EXCEPT ![w] = "run"])
  /\ UNCHANGED <<tasks, accepted, running, finished, owner>>

\* The task ends, by returning or by an exception, such as that of a refused
\* enqueue; either way packaged_task makes its future ready.
TaskEnd(w) ==
  /\ wpc[w] = "run"
  /\ finished' = finished \cup {running[w]}
  /\ running' = [running EXCEPT ![w] = 0]
  /\ wpc' = [wpc EXCEPT ![w] = "loop"]
  /\ UNCHANGED <<tasks, accepted, owner>>

Work(w) ==
  \/ Block(w) \/ Return(w) \/ Take(w)
  \/ TaskNotify(w) \/ TaskEnd(w)

Next ==
  \/ OwnerEnqueue \/ OwnerNotify \/ Destroy \/ NotifyAll \/ Join
  \/ \E w \in Worker : Work(w) \/ TaskEnqueue(w) \/ Spurious(w)

Spec == Init /\ [][Next]_vars

\* Every thread is scheduled, and every task ends.  The owner need not destroy
\* the pool, but the call it is in goes on.
FairSpec ==
  /\ Spec
  /\ \A w \in Worker : WF_vars(Work(w))
  /\ WF_vars(OwnerNotify) /\ WF_vars(NotifyAll) /\ WF_vars(Join)
-----------------------------------------------------------------------------
\* No wakeup is lost, although notify_one runs after the mutex is released
\* and may find nobody waiting: while a task is queued, some worker will look
\* at the queue again, or a notification is on its way; and a destructor that
\* joins waits for no worker that is blocked.
NoLostWakeup ==
  /\ tasks # << >> =>
       \/ \E w \in Worker : wpc[w] \in {"loop", "run", "notify"}
       \/ owner \in {"notify", "notify_all"}
  /\ owner \in {"join", "gone"} => Waiting = {}

\* ThreadPool implements TaskService: tasks begin in the order they were
\* enqueued, each runs once, none is accepted once stop is set, and the
\* destructor returns only when all accepted tasks are done.
Service == INSTANCE TaskService WITH
             begun <- accepted - Len(tasks),
             doing <- {running[w] : w \in Worker} \ {0},
             phase <- CASE owner \in {"use", "notify"} -> "open"
                        [] owner \in {"notify_all", "join"} -> "closing"
                        [] owner = "gone" -> "closed"
ImplementsTaskService == Service!SSpec

\* Every task that enqueue accepted is run to its end.
EveryTaskEnds ==
  \A k \in 1..MaxTasks : k <= accepted ~> k \in finished

\* The destructor returns: every worker is woken and comes to its return.
DestructorReturns == stop ~> owner = "gone"
=============================================================================
