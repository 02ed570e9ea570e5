-------------------------- MODULE ThreadPoolProofs --------------------------
(***************************************************************************)
(* ThreadPool loses no wakeup and implements TaskService, for any number   *)
(* of workers and tasks.  The inductive invariant says what the queue      *)
(* holds (the last tasks accepted, in order), that the others are finished *)
(* or with exactly one worker, and that a worker returns only from an      *)
(* empty queue of a stopped pool.                                          *)
(***************************************************************************)
EXTENDS ThreadPool, TLAPS

begun == accepted - Len(tasks)

\* The queue holds the tasks begun+1 .. accepted, in that order.
InOrder ==
  /\ Len(tasks) <= accepted
  /\ \A i \in 1..Len(tasks) : tasks[i] = begun + i

\* A worker has a task while it runs one, and only then.
Busy == \A w \in Worker : running[w] # 0 <=> wpc[w] \in {"run", "notify"}

\* The tasks taken from the queue are finished or with one worker each.
Taken ==
  /\ \A w \in Worker : running[w] <= begun
  /\ \A v, w \in Worker : running[v] = running[w] /\ running[v] # 0 => v = w
  /\ \A k \in 1..begun : k \in finished \/ \E w \in Worker : running[w] = k
  /\ finished \subseteq 1..begun

\* A worker returns only when the pool is stopped and its queue empty.
DoneEmpty == \A w \in Worker : wpc[w] = "done" => stop /\ tasks = << >>

PoolInv == TypeOK /\ InOrder /\ Busy /\ Taken /\ DoneEmpty /\ NoLostWakeup

\* The queue operations.
LEMMA TailFacts ==
  ASSUME NEW S, NEW q \in Seq(S), q # << >>
  PROVE  /\ Len(q) \in Nat /\ Len(q) >= 1
         /\ Tail(q) \in Seq(S) /\ Len(Tail(q)) = Len(q) - 1
         /\ \A i \in 1..(Len(q) - 1) : Tail(q)[i] = q[i + 1]
         /\ Head(q) = q[1] /\ Head(q) \in S
OBVIOUS

LEMMA AppendFacts ==
  ASSUME NEW n \in Nat, NEW q \in Seq(1..n)
  PROVE  /\ Len(q) \in Nat
         /\ Append(q, n + 1) \in Seq(1..(n + 1)) /\ Len(Append(q, n + 1)) = Len(q) + 1
         /\ \A i \in 1..Len(q) : Append(q, n + 1)[i] = q[i]
         /\ Append(q, n + 1)[Len(q) + 1] = n + 1
         /\ Append(q, n + 1) # << >>
<1>1. q \in Seq(1..(n + 1)) /\ n + 1 \in 1..(n + 1)
  OBVIOUS
<1> QED BY <1>1

\* The initial state satisfies the invariant.
LEMMA PoolInit == Init => PoolInv
BY DEF Init, PoolInv, TypeOK, InOrder, Busy, Taken, DoneEmpty, NoLostWakeup, stop, begun, Waiting

\* A new task at the end of the queue keeps what the invariant says of it.
LEMMA PushFacts ==
  ASSUME PoolInv, push, UNCHANGED <<running, finished>>
  PROVE  /\ accepted' \in Nat /\ accepted' = accepted + 1
         /\ tasks' \in Seq(1..accepted') /\ tasks' # << >>
         /\ begun' = begun
         /\ InOrder' /\ Taken'
         /\ running' \in [Worker -> 0..accepted'] /\ finished' \subseteq 1..accepted'
<1> USE DEF PoolInv
<1>1. /\ accepted \in Nat /\ accepted' = accepted + 1 /\ tasks' = Append(tasks, accepted + 1)
      /\ tasks \in Seq(1..accepted)
  BY DEF TypeOK, push
<1>2. /\ Len(tasks) \in Nat /\ tasks' \in Seq(1..accepted') /\ Len(tasks') = Len(tasks) + 1
      /\ \A i \in 1..Len(tasks) : tasks'[i] = tasks[i]
      /\ tasks'[Len(tasks) + 1] = accepted + 1
      /\ tasks' # << >>
  BY <1>1, AppendFacts
<1>3. begun' = begun
  BY <1>1, <1>2 DEF begun
<1>4. InOrder'
  <2>1. Len(tasks') <= accepted'
    BY <1>1, <1>2 DEF InOrder
  <2>2. ASSUME NEW i \in 1..Len(tasks') PROVE tasks'[i] = begun' + i
    <3>1. CASE i \in 1..Len(tasks)
      BY <3>1, <1>2, <1>3 DEF InOrder
    <3>2. CASE i = Len(tasks) + 1
      BY <3>2, <1>1, <1>2, <1>3 DEF begun
    <3> QED BY <3>1, <3>2, <1>2
  <2> QED BY <2>1, <2>2 DEF InOrder
<1>5. Taken'
  BY <1>3 DEF Taken
<1>6. running' \in [Worker -> 0..accepted'] /\ finished' \subseteq 1..accepted'
  BY <1>1 DEF TypeOK
<1> QED BY <1>1, <1>2, <1>3, <1>4, <1>5, <1>6

\* A step that moves no task keeps what the invariant says of tasks.
LEMMA SameTasks ==
  ASSUME PoolInv, UNCHANGED <<tasks, accepted, running, finished>>
  PROVE  /\ InOrder' /\ Taken'
         /\ accepted' \in Nat /\ tasks' \in Seq(1..accepted')
         /\ running' \in [Worker -> 0..accepted'] /\ finished' \subseteq 1..accepted'
BY DEF PoolInv, TypeOK, InOrder, Taken, begun

\* notify_one wakes a waiting worker or finds none, and changes no other.
LEMMA NotifyFacts ==
  ASSUME PoolInv, NEW p \in [Worker -> {"loop", "wait", "run", "notify", "done"}], notify_one(p)
  PROVE  /\ wpc' \in [Worker -> {"loop", "wait", "run", "notify", "done"}]
         /\ \A w \in Worker : wpc'[w] = p[w] \/ (w \in Waiting /\ wpc'[w] = "loop")
         /\ Waiting = {} \/ \E w \in Worker : wpc'[w] = "loop"
BY DEF notify_one, Waiting

\* If every worker has returned or waits, and none waits, the queue is empty.
LEMMA SomeoneLooks ==
  ASSUME PoolInv, tasks # << >>, Waiting = {}
  PROVE  \E w \in Worker : wpc[w] \in {"loop", "run", "notify"}
<1>1. PICK w \in Worker : TRUE
  BY PoolAssumption
<1>2. wpc[w] # "done" /\ wpc[w] # "wait"
  BY DEF PoolInv, DoneEmpty, Waiting
<1> QED BY <1>2 DEF PoolInv, TypeOK

\* Taking the first task: it is the next in order, and nobody else has it.
LEMMA TakeFacts ==
  ASSUME PoolInv, NEW w \in Worker, Take(w)
  PROVE  /\ Head(tasks) = begun + 1 /\ begun' = begun + 1 /\ begun \in Nat
         /\ accepted' = accepted /\ begun + 1 <= accepted
         /\ tasks' \in Seq(1..accepted)
         /\ running[w] = 0
         /\ running' \in [Worker -> 0..accepted]
         /\ \A v \in Worker : running'[v] = IF v = w THEN begun + 1 ELSE running[v]
         /\ InOrder' /\ Taken'
<1> USE DEF PoolInv
<1>1. /\ accepted \in Nat /\ tasks \in Seq(1..accepted) /\ tasks # << >>
      /\ accepted' = accepted /\ tasks' = Tail(tasks) /\ finished' = finished
      /\ running' = [running EXCEPT ![w] = Head(tasks)]
      /\ running \in [Worker -> 0..accepted]
  BY DEF TypeOK, Take
<1>2. /\ Len(tasks) \in Nat /\ Len(tasks) >= 1
      /\ tasks' \in Seq(1..accepted) /\ Len(tasks') = Len(tasks) - 1
      /\ \A i \in 1..(Len(tasks) - 1) : tasks'[i] = tasks[i + 1]
      /\ Head(tasks) = tasks[1] /\ Head(tasks) \in 1..accepted
  BY <1>1, TailFacts
<1>3. Head(tasks) = begun + 1 /\ begun' = begun + 1 /\ begun \in Nat /\ begun + 1 <= accepted
  <2>1. begun' = begun + 1 /\ begun \in Nat /\ begun + 1 <= accepted
    BY <1>1, <1>2 DEF begun, InOrder
  <2>2. 1 \in 1..Len(tasks)
    BY <1>2
  <2> QED BY <2>1, <2>2, <1>2 DEF InOrder
<1>4. running[w] = 0
  BY DEF Busy, Take
<1>5. /\ running' \in [Worker -> 0..accepted]
      /\ \A v \in Worker : running'[v] = IF v = w THEN begun + 1 ELSE running[v]
  BY <1>1, <1>2, <1>3
<1>6. InOrder'
  <2>1. Len(tasks') <= accepted'
    BY <1>1, <1>2 DEF InOrder
  <2>2. ASSUME NEW i \in 1..Len(tasks') PROVE tasks'[i] = begun' + i
    <3>1. i \in 1..(Len(tasks) - 1) /\ i + 1 \in 1..Len(tasks)
      BY <1>2
    <3>2. tasks[i + 1] = begun + (i + 1)
      BY <3>1 DEF InOrder
    <3> QED BY <1>2, <1>3, <3>1, <3>2
  <2> QED BY <2>1, <2>2 DEF InOrder
<1>7. Taken'
  <2>1. \A v \in Worker : running[v] <= begun /\ running[v] \in 0..accepted
    BY <1>1 DEF Taken
  <2>2. \A v \in Worker : running'[v] <= begun'
    BY <1>1, <1>3, <1>5, <2>1
  <2>3. \A v, u \in Worker : running'[v] = running'[u] /\ running'[v] # 0 => v = u
    BY <1>1, <1>3, <1>5, <2>1 DEF Taken
  <2>4. \A k \in 1..begun' : k \in finished' \/ \E v \in Worker : running'[v] = k
    <3>1. SUFFICES ASSUME NEW k \in 1..(begun + 1)
                   PROVE  k \in finished \/ \E v \in Worker : running'[v] = k
      BY <1>1, <1>3
    <3>2. CASE k = begun + 1
      BY <3>2, <1>5
    <3>3. CASE k \in 1..begun
      BY <3>3, <1>4, <1>5 DEF Taken
    <3> QED BY <3>2, <3>3, <1>3
  <2>5. finished' \subseteq 1..begun'
    BY <1>1, <1>3 DEF Taken
  <2> QED BY <2>2, <2>3, <2>4, <2>5 DEF Taken
<1> QED BY <1>1, <1>2, <1>3, <1>4, <1>5, <1>6, <1>7

\* A task that ends moves from its worker to the finished ones.
LEMMA EndFacts ==
  ASSUME PoolInv, NEW w \in Worker, TaskEnd(w)
  PROVE  /\ running[w] # 0
         /\ begun' = begun
         /\ running' \in [Worker -> 0..accepted] /\ finished' \subseteq 1..accepted
         /\ \A v \in Worker : running'[v] = IF v = w THEN 0 ELSE running[v]
         /\ InOrder' /\ Taken'
<1> USE DEF PoolInv
<1>1. /\ accepted \in Nat /\ running \in [Worker -> 0..accepted]
      /\ accepted' = accepted /\ tasks' = tasks
      /\ finished' = finished \cup {running[w]}
      /\ running' = [running EXCEPT ![w] = 0]
  BY DEF TypeOK, TaskEnd
<1>2. running[w] # 0
  BY DEF Busy, TaskEnd
<1>3. begun' = begun /\ begun \in Int
  BY <1>1 DEF begun, TypeOK
<1>4. running' \in [Worker -> 0..accepted] /\ finished' \subseteq 1..accepted
  <2>1. running[w] \in 1..accepted
    BY <1>1, <1>2
  <2>2. running' \in [Worker -> 0..accepted]
    BY <1>1
  <2>3. finished' \subseteq 1..accepted
    BY <1>1, <2>1 DEF TypeOK
  <2> QED BY <2>2, <2>3
<1>5. \A v \in Worker : running'[v] = IF v = w THEN 0 ELSE running[v]
  BY <1>1
<1>6. InOrder'
  BY <1>1 DEF InOrder, begun
<1>7. Taken'
  <2>1. 0 <= begun
    BY <1>1, <1>2, <1>3 DEF Taken
  <2>2. \A v \in Worker : running'[v] <= begun'
    BY <2>1, <1>3, <1>5 DEF Taken
  <2>3. \A v, u \in Worker : running'[v] = running'[u] /\ running'[v] # 0 => v = u
    BY <1>5 DEF Taken
  <2>4. \A k \in 1..begun' : k \in finished' \/ \E v \in Worker : running'[v] = k
    BY <1>1, <1>3, <1>5 DEF Taken
  <2>5. running[w] \in 1..begun
    <3>1. running[w] \in 0..accepted /\ running[w] <= begun
      BY <1>1 DEF Taken
    <3> QED BY <3>1, <1>1, <1>2, <1>3
  <2>6. finished' \subseteq 1..begun'
    BY <2>5, <1>1, <1>3 DEF Taken
  <2> QED BY <2>2, <2>3, <2>4, <2>6 DEF Taken
<1> QED BY <1>2, <1>3, <1>4, <1>5, <1>6, <1>7

\* Every step preserves the invariant.
LEMMA PoolStep ==
  ASSUME PoolInv, [Next]_vars
  PROVE  PoolInv'
<1> USE DEF PoolInv
<1>t. /\ wpc \in [Worker -> {"loop", "wait", "run", "notify", "done"}]
      /\ owner \in {"use", "notify", "notify_all", "join", "gone"}
  BY DEF TypeOK
<1>1. CASE OwnerEnqueue
  <2>1. push /\ UNCHANGED <<wpc, running, finished>> /\ owner = "use" /\ owner' = "notify"
    BY <1>1 DEF OwnerEnqueue
  <2>2. TypeOK'
    BY <2>1, <1>t, PushFacts DEF TypeOK
  <2>3. Busy' /\ DoneEmpty' /\ NoLostWakeup'
    BY <2>1, <1>t DEF Busy, DoneEmpty, NoLostWakeup, stop
  <2> QED BY <2>1, <2>2, <2>3, PushFacts
<1>2. CASE OwnerNotify
  <2>1. /\ notify_one(wpc) /\ owner = "notify" /\ owner' = "use"
        /\ UNCHANGED <<tasks, accepted, running, finished>>
    BY <1>2 DEF OwnerNotify
  <2>2. /\ wpc' \in [Worker -> {"loop", "wait", "run", "notify", "done"}]
        /\ \A w \in Worker : wpc'[w] = wpc[w] \/ (w \in Waiting /\ wpc'[w] = "loop")
        /\ Waiting = {} \/ \E w \in Worker : wpc'[w] = "loop"
    BY <2>1, <1>t, NotifyFacts
  <2>3. Busy' /\ DoneEmpty'
    BY <2>1, <2>2, <1>t DEF Busy, DoneEmpty, Waiting, stop
  <2>4. NoLostWakeup'
    <3>1. tasks # << >> => \E w \in Worker : wpc'[w] \in {"loop", "run", "notify"}
      <4>1. CASE Waiting = {}
        BY <4>1, <2>2, SomeoneLooks
      <4> QED BY <4>1, <2>2
    <3> QED BY <3>1, <2>1 DEF NoLostWakeup
  <2> QED BY <2>1, <2>2, <2>3, <2>4, SameTasks DEF TypeOK
<1>3. CASE Destroy
  <2>1. /\ owner = "use" /\ owner' = "notify_all"
        /\ UNCHANGED <<wpc, tasks, accepted, running, finished>>
    BY <1>3 DEF Destroy
  <2>2. Busy' /\ DoneEmpty' /\ NoLostWakeup'
    BY <2>1 DEF Busy, DoneEmpty, NoLostWakeup, stop
  <2> QED BY <2>1, <2>2, <1>t, SameTasks DEF TypeOK
<1>4. CASE NotifyAll
  <2>1. /\ owner = "notify_all" /\ owner' = "join"
        /\ wpc' = [w \in Worker |-> IF wpc[w] = "wait" THEN "loop" ELSE wpc[w]]
        /\ UNCHANGED <<tasks, accepted, running, finished>>
    BY <1>4 DEF NotifyAll
  <2>2. wpc' \in [Worker -> {"loop", "wait", "run", "notify", "done"}]
    BY <2>1, <1>t
  <2>3. Busy' /\ DoneEmpty'
    BY <2>1 DEF Busy, DoneEmpty, stop
  <2>4. NoLostWakeup'
    <3>1. Waiting' = {}
      BY <2>1 DEF Waiting
    <3>2. ASSUME tasks # << >> PROVE \E w \in Worker : wpc'[w] \in {"loop", "run", "notify"}
      <4>1. CASE Waiting = {}
        BY <4>1, <3>2, <2>1, SomeoneLooks DEF Waiting
      <4>2. CASE Waiting # {}
        BY <4>2, <2>1 DEF Waiting
      <4> QED BY <4>1, <4>2
    <3> QED BY <3>1, <3>2, <2>1 DEF NoLostWakeup
  <2> QED BY <2>1, <2>2, <2>3, <2>4, SameTasks DEF TypeOK
<1>5. CASE Join
  <2>1. /\ owner = "join" /\ owner' = "gone"
        /\ UNCHANGED <<wpc, tasks, accepted, running, finished>>
    BY <1>5 DEF Join
  <2>2. Busy' /\ DoneEmpty' /\ NoLostWakeup'
    BY <2>1 DEF Busy, DoneEmpty, NoLostWakeup, stop, Waiting
  <2> QED BY <2>1, <2>2, <1>t, SameTasks DEF TypeOK
<1>6. ASSUME NEW w \in Worker, Block(w) PROVE PoolInv'
  <2>1. /\ wpc[w] = "loop" /\ ~stop /\ tasks = << >> /\ wpc' = [wpc EXCEPT ![w] = "wait"]
        /\ UNCHANGED <<tasks, accepted, running, finished, owner>>
    BY <1>6 DEF Block
  <2>2. Busy' /\ DoneEmpty' /\ NoLostWakeup'
    BY <2>1, <1>t DEF Busy, DoneEmpty, NoLostWakeup, stop
  <2> QED BY <2>1, <2>2, <1>t, SameTasks DEF TypeOK
<1>7. ASSUME NEW w \in Worker, Return(w) PROVE PoolInv'
  <2>1. /\ wpc[w] = "loop" /\ stop /\ tasks = << >> /\ wpc' = [wpc EXCEPT ![w] = "done"]
        /\ UNCHANGED <<tasks, accepted, running, finished, owner>>
    BY <1>7 DEF Return
  <2>2. Busy' /\ DoneEmpty' /\ NoLostWakeup'
    BY <2>1, <1>t DEF Busy, DoneEmpty, NoLostWakeup, stop, Waiting
  <2> QED BY <2>1, <2>2, <1>t, SameTasks DEF TypeOK
<1>8. ASSUME NEW w \in Worker, Spurious(w) PROVE PoolInv'
  <2>1. /\ wpc[w] = "wait" /\ wpc' = [wpc EXCEPT ![w] = "loop"]
        /\ UNCHANGED <<tasks, accepted, running, finished, owner>>
    BY <1>8 DEF Spurious
  <2>2. Busy' /\ DoneEmpty' /\ NoLostWakeup'
    BY <2>1, <1>t DEF Busy, DoneEmpty, NoLostWakeup, stop, Waiting
  <2> QED BY <2>1, <2>2, <1>t, SameTasks DEF TypeOK
<1>9. ASSUME NEW w \in Worker, Take(w) PROVE PoolInv'
  <2>1. /\ wpc[w] = "loop" /\ tasks # << >> /\ wpc' = [wpc EXCEPT ![w] = "run"]
        /\ UNCHANGED <<accepted, finished, owner>>
    BY <1>9 DEF Take
  <2>2. /\ begun \in Nat /\ tasks' \in Seq(1..accepted) /\ running' \in [Worker -> 0..accepted]
        /\ \A v \in Worker : running'[v] = IF v = w THEN begun + 1 ELSE running[v]
        /\ InOrder' /\ Taken'
    BY <1>9, TakeFacts
  <2>3. wpc' \in [Worker -> {"loop", "wait", "run", "notify", "done"}]
    BY <2>1, <1>t
  <2>4. TypeOK'
    BY <2>1, <2>2, <2>3 DEF TypeOK
  <2>5. Busy'
    BY <2>1, <2>2, <1>t DEF Busy
  <2>6. DoneEmpty' /\ NoLostWakeup'
    BY <2>1, <1>t DEF DoneEmpty, NoLostWakeup, stop, Waiting
  <2> QED BY <2>2, <2>4, <2>5, <2>6
<1>10. ASSUME NEW w \in Worker, TaskEnqueue(w) PROVE PoolInv'
  <2>1. /\ wpc[w] = "run" /\ push /\ wpc' = [wpc EXCEPT ![w] = "notify"] /\ ~stop
        /\ UNCHANGED <<running, finished, owner>>
    BY <1>10 DEF TaskEnqueue, push
  <2>2. TypeOK'
    BY <2>1, <1>t, PushFacts DEF TypeOK
  <2>3. Busy' /\ DoneEmpty' /\ NoLostWakeup'
    BY <2>1, <1>t DEF Busy, DoneEmpty, NoLostWakeup, stop
  <2> QED BY <2>1, <2>2, <2>3, PushFacts
<1>11. ASSUME NEW w \in Worker, TaskNotify(w) PROVE PoolInv'
  <2>1. /\ wpc[w] = "notify" /\ notify_one([wpc EXCEPT ![w] = "run"])
        /\ UNCHANGED <<tasks, accepted, running, finished, owner>>
    BY <1>11 DEF TaskNotify
  <2>2. PICK p \in [Worker -> {"loop", "wait", "run", "notify", "done"}] :
          /\ notify_one(p)
          /\ \A v \in Worker : p[v] = IF v = w THEN "run" ELSE wpc[v]
    <3>1. [wpc EXCEPT ![w] = "run"] \in [Worker -> {"loop", "wait", "run", "notify", "done"}]
      BY <1>t
    <3>2. \A v \in Worker : [wpc EXCEPT ![w] = "run"][v] = IF v = w THEN "run" ELSE wpc[v]
      BY <1>t
    <3> QED BY <2>1, <3>1, <3>2
  <2>3. /\ wpc' \in [Worker -> {"loop", "wait", "run", "notify", "done"}]
        /\ \A v \in Worker : \/ wpc'[v] = IF v = w THEN "run" ELSE wpc[v]
                             \/ v \in Waiting /\ wpc'[v] = "loop"
    BY <2>2, NotifyFacts
  <2>4. Busy' /\ DoneEmpty'
    BY <2>1, <2>3, <1>t DEF Busy, DoneEmpty, Waiting, stop
  <2>5. wpc'[w] = "run"
    BY <2>1, <2>3 DEF Waiting
  <2>6. NoLostWakeup'
    BY <2>1, <2>3, <2>5 DEF NoLostWakeup, Waiting
  <2> QED BY <2>1, <2>3, <2>4, <2>6, <1>t, SameTasks DEF TypeOK
<1>12. ASSUME NEW w \in Worker, TaskEnd(w) PROVE PoolInv'
  <2>1. /\ wpc[w] = "run" /\ wpc' = [wpc EXCEPT ![w] = "loop"]
        /\ UNCHANGED <<tasks, accepted, owner>>
    BY <1>12 DEF TaskEnd
  <2>2. /\ running' \in [Worker -> 0..accepted] /\ finished' \subseteq 1..accepted
        /\ \A v \in Worker : running'[v] = IF v = w THEN 0 ELSE running[v]
        /\ InOrder' /\ Taken'
    BY <1>12, EndFacts
  <2>3. wpc' \in [Worker -> {"loop", "wait", "run", "notify", "done"}]
    BY <2>1, <1>t
  <2>4. TypeOK'
    BY <2>1, <2>2, <2>3 DEF TypeOK
  <2>5. Busy' /\ DoneEmpty' /\ NoLostWakeup'
    BY <2>1, <2>2, <1>t DEF Busy, DoneEmpty, NoLostWakeup, stop, Waiting
  <2> QED BY <2>2, <2>4, <2>5
<1>13. CASE UNCHANGED vars
  BY <1>13 DEF vars, TypeOK, InOrder, Busy, Taken, DoneEmpty, NoLostWakeup, stop, begun, Waiting
<1> QED
  BY <1>1, <1>2, <1>3, <1>4, <1>5, <1>6, <1>7, <1>8, <1>9, <1>10, <1>11, <1>12, <1>13
     DEF Next, Work
-----------------------------------------------------------------------------
\* For any number of workers, and any tasks enqueued by the owner and by other
\* tasks: no wakeup is lost between enqueue's notify_one, which comes after
\* the mutex is released, and wait's test of its predicate.
THEOREM ThreadPoolSafe == Spec => [](TypeOK /\ NoLostWakeup)
<1>1. Init => PoolInv
  BY PoolInit
<1>2. PoolInv /\ [Next]_vars => PoolInv'
  BY PoolStep
<1> QED BY <1>1, <1>2, PTL DEF Spec, PoolInv

\* Initially TaskService has nothing either.
LEMMA InitService == Init => Service!SInit
<1> SUFFICES ASSUME Init PROVE Service!SInit
  OBVIOUS
<1>1. accepted - Len(tasks) = 0
  <2>1. accepted = 0 /\ Len(tasks) = 0
    BY DEF Init
  <2> QED BY <2>1
<1>2. {running[w] : w \in Worker} \ {0} = {}
  BY DEF Init
<1> QED BY <1>1, <1>2 DEF Init, Service!SInit

\* Every step of the pool is a step of TaskService or a stutter.
LEMMA StepService ==
  ASSUME PoolInv, PoolInv', [Next]_vars
  PROVE  [Service!SNext]_(Service!serviceVars)
<1> DEFINE phase == CASE owner \in {"use", "notify"} -> "open"
                      [] owner \in {"notify_all", "join"} -> "closing"
                      [] owner = "gone" -> "closed"
           doing == {running[w] : w \in Worker} \ {0}
<1> USE DEF PoolInv
<1>u. ASSUME UNCHANGED <<tasks, accepted, running, finished>>, phase' = phase
      PROVE  UNCHANGED Service!serviceVars
  BY <1>u DEF Service!serviceVars
<1>p. ASSUME push, UNCHANGED <<running, finished>>, phase = "open", phase' = "open"
      PROVE  Service!SNext
  <2>1. accepted' = accepted + 1 /\ begun' = begun
    BY <1>p, PushFacts
  <2> QED BY <1>p, <2>1 DEF Service!SNext, Service!Accept, begun
<1>1. CASE OwnerEnqueue
  BY <1>1, <1>p DEF OwnerEnqueue
<1>2. CASE OwnerNotify
  BY <1>2, <1>u DEF OwnerNotify
<1>3. CASE Destroy
  BY <1>3 DEF Destroy, Service!SNext, Service!Close
<1>4. CASE NotifyAll
  BY <1>4, <1>u DEF NotifyAll
<1>5. CASE Join
  <2>1. /\ owner = "join" /\ owner' = "gone" /\ UNCHANGED <<wpc, tasks, accepted, running, finished>>
        /\ \A w \in Worker : wpc[w] = "done"
    BY <1>5 DEF Join
  <2>2. tasks = << >> /\ \A w \in Worker : running[w] = 0
    BY <2>1, PoolAssumption DEF DoneEmpty, Busy
  <2>3. begun = accepted /\ accepted \in Nat
    BY <2>2 DEF begun, TypeOK
  <2>4. finished = 1..accepted
    <3>1. \A k \in 1..accepted : k # 0
      OBVIOUS
    <3>2. 1..accepted \subseteq finished
      BY <2>2, <2>3, <3>1 DEF Taken
    <3>3. finished \subseteq 1..accepted
      BY <2>3 DEF Taken
    <3> QED BY <3>2, <3>3
  <2> QED BY <2>1, <2>4 DEF Service!SNext, Service!Closed
<1>6. ASSUME NEW w \in Worker, Block(w) \/ Return(w) \/ Spurious(w) \/ TaskNotify(w)
      PROVE  UNCHANGED Service!serviceVars
  BY <1>6, <1>u DEF Block, Return, Spurious, TaskNotify
<1>7. ASSUME NEW w \in Worker, Take(w) PROVE Service!SNext
  <2>1. /\ begun' = begun + 1 /\ begun \in Nat /\ begun + 1 <= accepted /\ accepted' = accepted
        /\ running[w] = 0
        /\ \A v \in Worker : running'[v] = IF v = w THEN begun + 1 ELSE running[v]
    BY <1>7, TakeFacts
  <2>2. finished' = finished /\ owner' = owner
    BY <1>7 DEF Take
  <2>3. doing' = doing \cup {begun + 1}
    BY <2>1
  <2>4. begun < accepted
    BY <2>1 DEF TypeOK
  <2> QED BY <2>1, <2>2, <2>3, <2>4 DEF Service!SNext, Service!Begin, begun
<1>8. ASSUME NEW w \in Worker, TaskEnqueue(w) PROVE Service!SNext
  <2>1. phase = "open" /\ phase' = "open"
    BY <1>8 DEF TaskEnqueue, push, stop, TypeOK
  <2> QED BY <1>8, <2>1, <1>p DEF TaskEnqueue
<1>9. ASSUME NEW w \in Worker, TaskEnd(w) PROVE Service!SNext
  <2>1. /\ running[w] # 0 /\ begun' = begun
        /\ \A v \in Worker : running'[v] = IF v = w THEN 0 ELSE running[v]
    BY <1>9, EndFacts
  <2>2. finished' = finished \cup {running[w]} /\ UNCHANGED <<tasks, accepted, owner>>
    BY <1>9 DEF TaskEnd
  <2>3. running[w] \in doing
    BY <2>1
  <2>4. doing' = doing \ {running[w]}
    BY <2>1 DEF Taken
  <2> QED BY <2>2, <2>3, <2>4 DEF Service!SNext, Service!Finish
<1>10. CASE UNCHANGED vars
  BY <1>10, <1>u DEF vars
<1> QED
  BY <1>1, <1>2, <1>3, <1>4, <1>5, <1>6, <1>7, <1>8, <1>9, <1>10 DEF Next, Work

\* The thread pool implements TaskService, for any number of workers and tasks:
\* the queue, the workers and the destructor run every accepted task exactly
\* once, begin them in order, accept none once stop is set, and the destructor
\* returns only when all are done.
THEOREM ThreadPoolImplementsTaskService == Spec => ImplementsTaskService
<1>1. Init => PoolInv /\ Service!SInit
  BY PoolInit, InitService
<1>2. PoolInv /\ [Next]_vars => PoolInv'
  BY PoolStep
<1>3. PoolInv /\ PoolInv' /\ [Next]_vars => [Service!SNext]_(Service!serviceVars)
  BY StepService
<1> QED BY <1>1, <1>2, <1>3, PTL DEF Spec, ImplementsTaskService, Service!SSpec
=============================================================================
