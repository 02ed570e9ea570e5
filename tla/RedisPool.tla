----------------------------- MODULE RedisPool -----------------------------
(***************************************************************************)
(* hiredis_test: RedisPool (a queue of connections behind one mutex),      *)
(* RedisConn (a connection that reconnects after a failure) and the        *)
(* DBIORedis calls that borrow from the pool, made by several threads      *)
(* while the redis server goes down and comes back.                        *)
(*                                                                         *)
(* Every iteration of GetRedisConn's loop, FreeRedisConn, CheckStatus and  *)
(* ReleaseRedisConn holds the mutex from beginning to end and is one       *)
(* action; commands run without it.  A "flat" call (Set, Get, HSet, HGet,  *)
(* HKeys, HGetAll) borrows one connection, executes one command and gives  *)
(* it back.  A "nested" call, HGetAllByKeys, borrows a second one through  *)
(* HKeys while it holds the first.  An iteration that finds nothing and    *)
(* may not create changes nothing: the thread spins, a stuttering step.    *)
(*                                                                         *)
(* The pool is configured without a password, as in mian.cpp, so auth      *)
(* never fails; what a reply says does not matter to the pool and is left  *)
(* out.                                                                    *)
(***************************************************************************)
EXTENDS Integers, Sequences

CONSTANTS
  Thread,        \* the threads that call DBIORedis
  Kinds,         \* the calls they make, a subset of {"flat", "nested"}
  PoolSize,      \* InitPool's pool_size
  RequestedMax,  \* InitPool's pool_max_size
  DefaultMax,    \* pool_max_size_ as RedisPool's constructor sets it
  MaxCalls,      \* bound: calls per thread
  MaxKeys,       \* bound: keys HKeys returns
  MaxOutages,    \* bound: times the server goes down
  MaxReleases    \* bound: calls of ReleasePool

ASSUME PoolAssumption ==
  /\ 0 \notin Thread
  /\ Kinds \subseteq {"flat", "nested"}
  /\ PoolSize \in Nat /\ RequestedMax \in Nat /\ DefaultMax \in Nat
  /\ MaxCalls \in Nat /\ MaxKeys \in Nat /\ MaxOutages \in Nat /\ MaxReleases \in Nat

VARIABLES
  conn_pool_,  \* the queue of idle connections; a connection is its number
  pool_size_,  \* RedisPool's count
  created,     \* connections made so far: numbers 1..created
  status_,     \* the connections whose RedisConn::status_ is true
  dead,        \* the connections whose socket an outage has cut
  failed,      \* those a command failed on while the server was up, since it
               \* last came up
  pc,          \* where each thread is
  held,        \* the connection it holds, 0 for none
  inner,       \* the second one of a nested call, 0 for none
  keys,        \* keys a nested call has yet to look up
  calls,       \* calls a thread has made
  lost,        \* connections destroyed, by ReleaseRedisConn or by a return
               \* without FreeRedisConn; pool_size_ still counts them
  server,      \* "up" or "down"
  outages,     \* times it went down
  releases     \* calls of ReleasePool made

poolVars == <<conn_pool_, pool_size_, created>>
connVars == <<status_, dead, failed>>
threadVars == <<pc, held, inner, keys, calls>>
serverVars == <<server, outages, releases>>
vars == <<poolVars, connVars, threadVars, lost, serverVars>>

up == server = "up"

\* GetRedisConn of a flat call, its command, FreeRedisConn; GetRedisConn of a
\* nested call, the three of its HKeys ("fail2": free, HKeys having failed)
\* and its loop over the keys, which ends in "free".
PC == {"idle", "get", "use", "free", "get1", "get2", "use2", "free2", "fail2", "hget"}

TypeOK ==
  /\ created \in Nat /\ pool_size_ \in Nat
  /\ conn_pool_ \in Seq(1..created)
  /\ status_ \subseteq 1..created /\ dead \subseteq 1..created
  /\ failed \subseteq 1..created /\ lost \subseteq 1..created
  /\ pc \in [Thread -> PC]
  /\ held \in [Thread -> 0..created] /\ inner \in [Thread -> 0..created]
  /\ keys \in [Thread -> Nat] /\ calls \in [Thread -> Nat]
  /\ server \in {"up", "down"} /\ outages \in Nat /\ releases \in Nat

\* InitPool has run.  Each of pool_size calls of CreateConnection has pushed a
\* connection, and counted it on top of pool_size_ = pool_size, unless the
\* server was down at that moment.
Init ==
  /\ server \in {"up", "down"}
  /\ created \in 0..PoolSize
  /\ conn_pool_ = [i \in 1..created |-> i]
  /\ pool_size_ = PoolSize + created
  /\ status_ = 1..created
  /\ dead = IF up THEN {} ELSE 1..created
  /\ failed = {} /\ lost = {}
  /\ pc = [t \in Thread |-> "idle"]
  /\ held = [t \in Thread |-> 0] /\ inner = [t \in Thread |-> 0]
  /\ keys = [t \in Thread |-> 0] /\ calls = [t \in Thread |-> 0]
  /\ outages = 0 /\ releases = 0

\* InitPool assigns pool_max_size_ to itself: the caller's limit is not used.
pool_max_size_ == DefaultMax
-----------------------------------------------------------------------------
\* Mutant: without pool_size_++.
CreateConnectionUncounted ==
  /\ created' = created + 1
  /\ conn_pool_' = Append(conn_pool_, created + 1)
  /\ status_' = status_ \cup {created + 1}
  /\ UNCHANGED pool_size_

\* RedisPool::CreateConnection, when RedisConnect succeeds.
CreateConnection ==
  /\ created' = created + 1
  /\ conn_pool_' = Append(conn_pool_, created + 1)
  /\ pool_size_' = pool_size_ + 1
  /\ status_' = status_ \cup {created + 1}

\* RedisConn::ExecuteResonse, ExecuteVector and ExecuteMap on connection c: a
\* connection marked bad reconnects first; redisCommand on a cut socket, or
\* with the server down, returns no reply and marks the connection bad.
Answered(c) == up /\ (c \notin status_ \/ c \notin dead)

\* Mutant: a reply that does not come leaves status_ as it was.
ExecuteKeepsStatus(c) ==
  \/ /\ Answered(c)
     /\ status_' = status_ \cup {c}
     /\ dead' = dead \ {c}
     /\ UNCHANGED failed
  \/ /\ ~Answered(c)
     /\ failed' = IF up THEN failed \cup {c} ELSE failed
     /\ UNCHANGED <<status_, dead>>

Execute(c) ==
  \/ /\ Answered(c)
     /\ status_' = status_ \cup {c}
     /\ dead' = dead \ {c}
     /\ UNCHANGED failed
  \/ /\ ~Answered(c)
     /\ status_' = status_ \ {c}
     /\ failed' = IF up THEN failed \cup {c} ELSE failed
     /\ UNCHANGED dead
-----------------------------------------------------------------------------
\* A thread enters one of the calls.
Call(t) ==
  /\ pc[t] = "idle" /\ calls[t] < MaxCalls
  /\ \/ "flat" \in Kinds /\ pc' = [pc EXCEPT ![t] = "get"]
     \/ "nested" \in Kinds /\ pc' = [pc EXCEPT ![t] = "get1"]
  /\ calls' = [calls EXCEPT ![t] = @ + 1]
  /\ UNCHANGED <<poolVars, connVars, held, inner, keys, lost, serverVars>>

Getting(t) == pc[t] \in {"get", "get1", "get2"}

\* Mutant: front() without pop().
GetPopKeeps(t) ==
  /\ conn_pool_ # << >>
  /\ \/ /\ pc[t] \in {"get", "get1"}
        /\ held' = [held EXCEPT ![t] = Head(conn_pool_)]
        /\ pc' = [pc EXCEPT ![t] = IF pc[t] = "get" THEN "use" ELSE "get2"]
        /\ UNCHANGED inner
     \/ /\ pc[t] = "get2"
        /\ inner' = [inner EXCEPT ![t] = Head(conn_pool_)]
        /\ pc' = [pc EXCEPT ![t] = "use2"]
        /\ UNCHANGED held
  /\ UNCHANGED <<poolVars, connVars, keys, calls, lost, serverVars>>

\* GetRedisConn, an iteration that pops the front of the queue.
GetPop(t) ==
  /\ conn_pool_ # << >>
  /\ conn_pool_' = Tail(conn_pool_)
  /\ \/ /\ pc[t] \in {"get", "get1"}
        /\ held' = [held EXCEPT ![t] = Head(conn_pool_)]
        /\ pc' = [pc EXCEPT ![t] = IF pc[t] = "get" THEN "use" ELSE "get2"]
        /\ UNCHANGED inner
     \/ /\ pc[t] = "get2"
        /\ inner' = [inner EXCEPT ![t] = Head(conn_pool_)]
        /\ pc' = [pc EXCEPT ![t] = "use2"]
        /\ UNCHANGED held
  /\ UNCHANGED <<pool_size_, created, connVars, keys, calls, lost, serverVars>>

\* Mutant: < for <=.
MayCreateStrict == conn_pool_ = << >> /\ pool_size_ < pool_max_size_

MayCreate == conn_pool_ = << >> /\ pool_size_ <= pool_max_size_

\* An iteration that creates a connection and goes round again: it releases
\* the mutex in between, and another thread may take the new connection.
GetCreate(t) ==
  /\ Getting(t) /\ MayCreate /\ up
  /\ CreateConnection
  /\ UNCHANGED <<dead, failed, threadVars, lost, serverVars>>

\* The call returns without FreeRedisConn: the last reference to the
\* connection it holds, if any, goes away and destroys it.
ReturnEarly(t) ==
  /\ pc' = [pc EXCEPT ![t] = "idle"]
  /\ held' = [held EXCEPT ![t] = 0]
  /\ lost' = lost \cup ({held[t]} \ {0})

\* An iteration that fails to create one: GetRedisConn returns null, and the
\* call (or HKeys, and HGetAllByKeys around it) returns false.
GetFails(t) ==
  /\ Getting(t) /\ MayCreate /\ ~up
  /\ ReturnEarly(t)
  /\ UNCHANGED <<poolVars, connVars, inner, keys, calls, serverVars>>

\* The command of a flat call.
Use(t) ==
  /\ pc[t] = "use"
  /\ Execute(held[t])
  /\ pc' = [pc EXCEPT ![t] = "free"]
  /\ UNCHANGED <<poolVars, held, inner, keys, calls, lost, serverVars>>

\* FreeRedisConn, the last thing a call does.
Free(t) ==
  /\ pc[t] = "free"
  /\ conn_pool_' = Append(conn_pool_, held[t])
  /\ held' = [held EXCEPT ![t] = 0]
  /\ pc' = [pc EXCEPT ![t] = "idle"]
  /\ UNCHANGED <<pool_size_, created, connVars, inner, keys, calls, lost, serverVars>>

\* HKeys inside HGetAllByKeys: its command ...
Use2(t) ==
  /\ pc[t] = "use2"
  /\ Execute(inner[t])
  /\ \/ /\ Answered(inner[t])
        /\ pc' = [pc EXCEPT ![t] = "free2"]
        /\ \E n \in 0..MaxKeys : keys' = [keys EXCEPT ![t] = n]
     \/ /\ ~Answered(inner[t])
        /\ pc' = [pc EXCEPT ![t] = "fail2"]
        /\ UNCHANGED keys
  /\ UNCHANGED <<poolVars, held, inner, calls, lost, serverVars>>

\* ... and its FreeRedisConn, after which HGetAllByKeys goes on, or returns
\* false if HKeys failed.
Free2(t) ==
  /\ conn_pool_' = Append(conn_pool_, inner[t])
  /\ inner' = [inner EXCEPT ![t] = 0]
  /\ \/ /\ pc[t] = "free2"
        /\ pc' = [pc EXCEPT ![t] = "hget"]
        /\ UNCHANGED <<held, lost>>
     \/ pc[t] = "fail2" /\ ReturnEarly(t)
  /\ UNCHANGED <<pool_size_, created, connVars, keys, calls, serverVars>>

\* HGetAllByKeys' loop: one hget per key on the connection it holds, whether
\* the previous one succeeded or not.
HGetNext(t) ==
  /\ pc[t] = "hget"
  /\ \/ /\ keys[t] > 0
        /\ Execute(held[t])
        /\ keys' = [keys EXCEPT ![t] = @ - 1]
        /\ UNCHANGED pc
     \/ /\ keys[t] = 0
        /\ pc' = [pc EXCEPT ![t] = "free"]
        /\ UNCHANGED <<connVars, keys>>
  /\ UNCHANGED <<poolVars, held, inner, calls, lost, serverVars>>
-----------------------------------------------------------------------------
\* RedisPool::CheckStatus pings the front of the queue, as many times as the
\* queue is long, and reconnects it after a ping that failed.
CheckStatus ==
  /\ conn_pool_ # << >>
  /\ \/ /\ up
        /\ status_' = status_ \cup {Head(conn_pool_)}
        /\ dead' = dead \ {Head(conn_pool_)}
     \/ /\ ~up
        /\ status_' = status_ \ {Head(conn_pool_)}
        /\ UNCHANGED dead
  /\ UNCHANGED <<poolVars, failed, threadVars, lost, serverVars>>

\* RedisPool::ReleaseRedisConn pops while i < size, with size shrinking as i
\* grows: the first half of the queue, rounded up.
Released == (Len(conn_pool_) + 1) \div 2

ReleaseRedisConn ==
  /\ releases < MaxReleases /\ releases' = releases + 1
  /\ lost' = lost \cup {conn_pool_[i] : i \in 1..Released}
  /\ conn_pool_' = SubSeq(conn_pool_, Released + 1, Len(conn_pool_))
  /\ UNCHANGED <<pool_size_, created, connVars, threadVars, server, outages>>

\* The redis server goes down, which cuts every connection, and comes back.
ServerDown ==
  /\ up /\ outages < MaxOutages
  /\ server' = "down" /\ outages' = outages + 1
  /\ dead' = 1..created
  /\ UNCHANGED <<poolVars, status_, failed, threadVars, lost, releases>>

ServerUp ==
  /\ ~up
  /\ server' = "up"
  /\ failed' = {}
  /\ UNCHANGED <<poolVars, status_, dead, threadVars, lost, outages, releases>>
-----------------------------------------------------------------------------
\* What a call does once it is entered.
Work(t) ==
  \/ GetPop(t) \/ GetCreate(t) \/ GetFails(t)
  \/ Use(t) \/ Free(t)
  \/ Use2(t) \/ Free2(t) \/ HGetNext(t)

Next ==
  \/ \E t \in Thread : Call(t) \/ Work(t)
  \/ CheckStatus \/ ReleaseRedisConn
  \/ ServerDown \/ ServerUp

Spec == Init /\ [][Next]_vars

\* The threads are scheduled, and each gets the mutex it keeps asking for.
FairSpec == Spec /\ \A t \in Thread : WF_vars(Work(t))
-----------------------------------------------------------------------------
Slots == 1..Len(conn_pool_)

\* Every connection that GetRedisConn, FreeRedisConn, HGetAllByKeys and
\* ReleaseRedisConn move about is in one place only: no two threads ever hold
\* the same connection, none is queued while a thread still uses it, none is
\* queued twice, none is destroyed while it is queued or in use.
OneOwner ==
  /\ \A i, j \in Slots : conn_pool_[i] = conn_pool_[j] => i = j
  /\ \A i \in Slots : conn_pool_[i] \notin lost
  /\ \A i \in Slots, t \in Thread : conn_pool_[i] # held[t] /\ conn_pool_[i] # inner[t]
  /\ \A t, u \in Thread : held[t] = held[u] /\ held[t] # 0 => t = u
  /\ \A t, u \in Thread : inner[t] = inner[u] /\ inner[t] # 0 => t = u
  /\ \A t, u \in Thread : held[t] = inner[u] => held[t] = 0
  /\ \A t \in Thread : held[t] \notin lost /\ inner[t] \notin lost

\* No connection disappears: one that is neither queued nor with a thread is
\* one that ReleaseRedisConn or an early return of HGetAllByKeys destroyed.
NoneForgotten ==
  \A c \in 1..created :
    \/ \E i \in Slots : conn_pool_[i] = c
    \/ \E t \in Thread : held[t] = c \/ inner[t] = c
    \/ c \in lost

\* Every connection ever made is in exactly one place: queued, with one thread,
\* or destroyed.
OnePlace == OneOwner /\ NoneForgotten

\* pool_size_ starts at InitPool's pool_size and counts every connection on
\* top of it, gone ones too: beyond what InitPool made, GetRedisConn stops
\* creating when the count has passed pool_max_size_ by one.
PoolBound ==
  /\ pool_size_ = PoolSize + created
  /\ pool_size_ <= 2 * PoolSize \/ pool_size_ <= pool_max_size_ + 1

\* A connection the outage cut costs one failed command, no more: once a
\* command has failed on it while the server is up, its next one reconnects
\* and is answered.
FailsOnce == up => \A c \in failed : Answered(c)

\* The pool has nothing to give and may not grow, no thread has anything to
\* give back, and this comes of a connection that was destroyed or of an
\* HGetAllByKeys that waits for its second one.
Exhausted ==
  /\ conn_pool_ = << >> /\ pool_size_ > pool_max_size_
  /\ \A t \in Thread : pc[t] = "idle" \/ Getting(t)
  /\ lost # {} \/ \E t \in Thread : pc[t] = "get2"

\* Every call comes back, whatever the server does: the spinning in
\* GetRedisConn ends, unless HGetAllByKeys or ReleasePool has used the pool up.
\* The calls RedisManage offers, each on one connection, never use it up.
CallReturns ==
  \A t \in Thread : pc[t] # "idle" ~> (pc[t] = "idle" \/ Exhausted)

\* InitPool's pool_max_size is the most connections the pool may hold.
WithinRequestedMax == created <= RequestedMax
=============================================================================
