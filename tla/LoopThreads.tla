---------------------------- MODULE LoopThreads ----------------------------
(***************************************************************************)
(* ccnet's EventLoopThreadPool and EventLoopThread: start() makes one      *)
(* thread after the other, each with a loop of its own, and waits until    *)
(* the thread has published it; then getNextLoop hands out the loops in    *)
(* turn.  All calls of the pool come from one thread, the owner.           *)
(*                                                                         *)
(* The members of an EventLoopThread are constructed in the order of their *)
(* declarations: the thread starts running before mutex_, cond_ and        *)
(* callback_ exist.  What it does with a member that is still raw memory   *)
(* is undefined: here it may go well, hang the thread or end the program.  *)
(***************************************************************************)
EXTENDS Integers, Sequences

CONSTANTS
  num_threads_,
  HasCallback,  \* whether start is given a ThreadInitCallback
  MaxCalls      \* bound: calls of getNextLoop

ASSUME LoopThreadsAssumption ==
  num_threads_ \in Nat /\ HasCallback \in BOOLEAN /\ MaxCalls \in Nat

Thread == 1..num_threads_
base_loop_ == 0

\* The members of an EventLoopThread after loop_ and ready, in order.
THREAD == 1
MUTEX == 2
COND == 3
CALLBACK == 4

VARIABLES
  made,     \* the members of each EventLoopThread constructed so far
  tpc,      \* where its thread is
  loop_,    \* the EventLoopThreads whose loop_ and ready are set
  mutex_,   \* who has locked it: "free", "owner", "thread"
  called,   \* the threads whose callback has returned
  early,    \* the threads that have used a member before it was constructed
  pc,       \* where the owner is
  loops_,   \* the pool's loops
  next_,    \* the index, from 0, of the loop to hand out next
  given,    \* the loops handed out by getNextLoop
  down      \* why the program has ended, "no" while it runs

threadVars == <<made, tpc, loop_, mutex_, called, early>>
vars == <<threadVars, pc, loops_, next_, given, down>>

TypeOK ==
  /\ made \in [Thread -> 0..CALLBACK]
  /\ tpc \in [Thread -> {"none", "begin", "call", "lock", "publish", "unlock", "loop", "stuck"}]
  /\ loop_ \subseteq Thread /\ called \subseteq Thread /\ early \subseteq Thread
  /\ mutex_ \in [Thread -> {"free", "owner", "thread"}]
  /\ pc \in {"construct", "lock", "test", "blocked", "wake", "started"}
  /\ loops_ \in Seq(Thread) /\ next_ \in Nat /\ given \in Seq(Thread \cup {base_loop_})
  /\ down \in {"no", "undefined", "SIGFPE"}

Init ==
  /\ made = [t \in Thread |-> 0] /\ tpc = [t \in Thread |-> "none"]
  /\ loop_ = {} /\ mutex_ = [t \in Thread |-> "free"]
  /\ called = {} /\ early = {} /\ pc = "construct"
  /\ loops_ = << >> /\ next_ = 0 /\ given = << >> /\ down = "no"

\* The EventLoopThread that start() is at.
Current == Len(loops_) + 1
-----------------------------------------------------------------------------
\* The owner: start, the constructor and startLoop.

\* The next member of the current EventLoopThread is constructed: the thread
\* starts, or a mutex nobody has locked takes the place of what was there.
Construct ==
  LET t == Current IN
  /\ down = "no" /\ pc = "construct" /\ t \in Thread
  /\ made' = [made EXCEPT ![t] = @ + 1]
  /\ tpc' = IF made'[t] = THREAD THEN [tpc EXCEPT ![t] = "begin"] ELSE tpc
  /\ mutex_' = IF made'[t] = MUTEX THEN [mutex_ EXCEPT ![t] = "free"] ELSE mutex_
  /\ pc' = IF made'[t] = CALLBACK THEN "lock" ELSE pc
  /\ UNCHANGED <<loop_, called, early, loops_, next_, given, down>>

StartLoopLock ==
  /\ down = "no" /\ pc \in {"lock", "wake"} /\ mutex_[Current] = "free"
  /\ mutex_' = [mutex_ EXCEPT ![Current] = "owner"]
  /\ pc' = "test"
  /\ UNCHANGED <<made, tpc, loop_, called, early, loops_, next_, given, down>>

Published == Current \in loop_

\* With a loop startLoop unlocks and returns, and start() goes on.
StartLoopReturn ==
  /\ down = "no" /\ pc = "test" /\ Published
  /\ mutex_' = [mutex_ EXCEPT ![Current] = "free"]
  /\ loops_' = Append(loops_, Current)
  /\ pc' = "construct"
  /\ UNCHANGED <<made, tpc, loop_, called, early, next_, given, down>>

\* Without one it blocks, and so unlocks.
StartLoopBlock ==
  /\ down = "no" /\ pc = "test" /\ ~Published
  /\ mutex_' = [mutex_ EXCEPT ![Current] = "free"]
  /\ pc' = "blocked"
  /\ UNCHANGED <<made, tpc, loop_, called, early, loops_, next_, given, down>>

Spurious ==
  /\ down = "no" /\ pc = "blocked"
  /\ pc' = "wake"
  /\ UNCHANGED <<threadVars, loops_, next_, given, down>>

\* After the last thread; without threads the callback gets the base loop.
Started ==
  /\ down = "no" /\ pc = "construct" /\ Current \notin Thread
  /\ pc' = "started"
  /\ UNCHANGED <<threadVars, loops_, next_, given, down>>
-----------------------------------------------------------------------------
\* threadFunc.

\* Thread t uses member m and does Step; a member not yet constructed may
\* also hang it or end the program.
Using(t, m, Step) ==
  /\ down = "no"
  /\ early' = IF made[t] < m THEN early \cup {t} ELSE early
  /\ \/ Step /\ UNCHANGED <<made, down>>
     \/ /\ made[t] < m
        /\ \/ tpc' = [tpc EXCEPT ![t] = "stuck"] /\ UNCHANGED down
           \/ down' = "undefined" /\ UNCHANGED tpc
        /\ UNCHANGED <<made, loop_, mutex_, called, pc>>
  /\ UNCHANGED <<loops_, next_, given>>

\* Mutant: the loop is published before the callback is called.
AfterBeginPublish(t) == "lock"

\* A callback not yet constructed may look empty.
AfterBegin(t) == IF HasCallback /\ made[t] = CALLBACK THEN "call" ELSE "lock"

TestCallback(t) ==
  /\ tpc[t] = "begin"
  /\ Using(t, CALLBACK, /\ tpc' = [tpc EXCEPT ![t] = AfterBegin(t)]
                        /\ UNCHANGED <<loop_, mutex_, called, pc>>)

CallbackReturns(t) ==
  /\ down = "no" /\ tpc[t] = "call"
  /\ tpc' = [tpc EXCEPT ![t] = "lock"]
  /\ called' = called \cup {t}
  /\ UNCHANGED <<made, loop_, mutex_, early, pc, loops_, next_, given, down>>

Lock(t) ==
  /\ tpc[t] = "lock" /\ mutex_[t] = "free"
  /\ Using(t, MUTEX, /\ tpc' = [tpc EXCEPT ![t] = "publish"]
                     /\ mutex_' = [mutex_ EXCEPT ![t] = "thread"]
                     /\ UNCHANGED <<loop_, called, pc>>)

\* Mutant: without notify_one.
NotifiedNot(t) == pc

\* The owner after notify_one, if it is blocked here.
Notified(t) == IF pc = "blocked" /\ Current = t THEN "wake" ELSE pc

\* loop_ and ready are set, and the owner is notified.
Publish(t) ==
  /\ tpc[t] = "publish"
  /\ Using(t, COND, /\ tpc' = [tpc EXCEPT ![t] = "unlock"]
                    /\ loop_' = loop_ \cup {t}
                    /\ pc' = Notified(t)
                    /\ UNCHANGED <<mutex_, called>>)

\* The lock is released, and the loop runs: nothing sets quit_.
Unlock(t) ==
  /\ down = "no" /\ tpc[t] = "unlock"
  /\ tpc' = [tpc EXCEPT ![t] = "loop"]
  /\ mutex_' = [mutex_ EXCEPT ![t] = "free"]
  /\ UNCHANGED <<made, loop_, called, early, pc, loops_, next_, given, down>>
-----------------------------------------------------------------------------
\* The owner, when the pool is started.

Advance(n) == IF n + 1 >= Len(loops_) THEN 0 ELSE n + 1

getNextLoop ==
  /\ down = "no" /\ pc = "started"
  /\ Len(given) < MaxCalls
  /\ IF loops_ = << >>
       THEN given' = Append(given, base_loop_) /\ UNCHANGED next_
       ELSE given' = Append(given, loops_[next_ + 1]) /\ next_' = Advance(next_)
  /\ UNCHANGED <<threadVars, pc, loops_, down>>

\* The test of empty() is the wrong way round: with loops the answer is the
\* base loop, without loops the index is taken modulo zero.
getLoopFroHash ==
  /\ down = "no" /\ pc = "started"
  /\ down' = IF loops_ = << >> THEN "SIGFPE" ELSE "no"
  /\ UNCHANGED <<threadVars, pc, loops_, next_, given>>
-----------------------------------------------------------------------------
StartOwner == Construct \/ StartLoopLock \/ StartLoopReturn \/ StartLoopBlock \/ Started
ThreadFunc(t) == TestCallback(t) \/ CallbackReturns(t) \/ Lock(t) \/ Publish(t) \/ Unlock(t)

Next ==
  \/ StartOwner \/ Spurious \/ getNextLoop \/ getLoopFroHash
  \/ \E t \in Thread : ThreadFunc(t)

Spec == Init /\ [][Next]_vars

\* The threads run, a callback returns, and a mutex that becomes free again and
\* again is locked at last.
Fairness ==
  WF_vars(StartOwner) /\ \A t \in Thread : WF_vars(ThreadFunc(t)) /\ SF_vars(Lock(t))

FairSpec == Spec /\ Fairness
-----------------------------------------------------------------------------
\* A loop in loops_ is that of one thread, which has published it, and its
\* callback has returned: unless the thread ran ahead of its own constructor.
LoopsAreReady ==
  \A k \in 1..Len(loops_) :
    /\ loops_[k] = k /\ k \in loop_
    /\ k \in early \/ (HasCallback => k \in called)

\* Of any num_threads_ loops that getNextLoop has handed out one after the
\* other, no two are the same.
InTurn ==
  \A i, j \in 1..Len(given) : i < j /\ j < i + num_threads_ => given[i] # given[j]

\* The pool hands out loops in turn that are ready for use, although start,
\* startLoop and the threads' functions interleave in any way.
ReadyLoopsInTurn == LoopsAreReady /\ InTurn

\* start() returns: no wakeup is lost between startLoop and threadFunc, and
\* none of the mutexes is left locked, unless a thread has run ahead of its
\* constructor.
StartReturns == <>(pc = "started" \/ early # {})
=============================================================================
