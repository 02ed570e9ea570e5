-------------------------- MODULE RedisPoolProofs --------------------------
(***************************************************************************)
(* RedisPool: type correctness, the bound on the connections made, and     *)
(* FailsOnce are inductive almost as they stand.  OneOwner and             *)
(* NoneForgotten also need to know that a thread holds connections exactly *)
(* at the points of a call where the code has them in a variable.          *)
(***************************************************************************)
EXTENDS RedisPool, SequenceTheorems, TLAPS

\* What a thread holds where: conn between GetRedisConn and FreeRedisConn,
\* and HKeys' own conn inside HGetAllByKeys.
Holding ==
  \A t \in Thread :
    /\ held[t] # 0 <=> pc[t] \in {"use", "free", "get2", "use2", "free2", "fail2", "hget"}
    /\ inner[t] # 0 <=> pc[t] \in {"use2", "free2", "fail2"}

\* RedisConn's execute functions change no more than the connection's own
\* state.
LEMMA ExecuteType ==
  ASSUME TypeOK, NEW c \in 1..created, Execute(c)
  PROVE  /\ status_' \subseteq 1..created
         /\ dead' \subseteq 1..created
         /\ failed' \subseteq 1..created
BY DEF TypeOK, Execute

\* An early return destroys a connection that exists.
LEMMA LostType ==
  ASSUME TypeOK, NEW t \in Thread, ReturnEarly(t)
  PROVE  lost' \subseteq 1..created /\ held' \in [Thread -> 0..created]
<1>1. held[t] \in 0..created /\ created \in Nat
  BY DEF TypeOK
<1>2. \A x \in lost' : x \in lost \/ (x = held[t] /\ x # 0)
  BY DEF ReturnEarly
<1>3. lost' \subseteq 1..created
  <2>1. SUFFICES ASSUME NEW x \in lost' PROVE x \in 1..created
    OBVIOUS
  <2>2. CASE x \in lost
    BY <2>2 DEF TypeOK
  <2>3. CASE x = held[t] /\ x # 0
    BY <2>3, <1>1
  <2> QED BY <1>2, <2>2, <2>3
<1>4. held' \in [Thread -> 0..created]
  BY <1>1 DEF TypeOK, ReturnEarly
<1> QED BY <1>3, <1>4

\* What the queue operations of the pool return.
LEMMA QueueFacts ==
  ASSUME NEW S, NEW q \in Seq(S)
  PROVE  /\ q # << >> => Head(q) \in S /\ Tail(q) \in Seq(S)
         /\ \A e \in S : Append(q, e) \in Seq(S)
         /\ \A n \in 0..Len(q) : SubSeq(q, n + 1, Len(q)) \in Seq(S)
         /\ \A T : S \subseteq T => q \in Seq(T)
<1>1. q # << >> => Head(q) \in S /\ Tail(q) \in Seq(S)
  OBVIOUS
<1>2. \A e \in S : Append(q, e) \in Seq(S)
  OBVIOUS
<1>3. \A n \in 0..Len(q) : SubSeq(q, n + 1, Len(q)) \in Seq(S)
  BY SubSeqProperties
<1>4. ASSUME NEW T, S \subseteq T PROVE q \in Seq(T)
  BY <1>4
<1> QED
  BY <1>1, <1>2, <1>3, <1>4

\* Type correctness is inductive, together with Holding.
LEMMA TypeInit == Init => TypeOK /\ Holding
BY PoolAssumption DEF up, Init, TypeOK, Holding, PC

LEMMA TypeStep ==
  ASSUME TypeOK, Holding, [Next]_vars
  PROVE  TypeOK' /\ Holding'
<1> USE PoolAssumption
<1>q. /\ conn_pool_ # << >> => Head(conn_pool_) \in 1..created /\ Tail(conn_pool_) \in Seq(1..created)
      /\ \A c \in 1..created : Append(conn_pool_, c) \in Seq(1..created)
  BY QueueFacts DEF TypeOK
<1>h. ASSUME NEW t \in Thread
      PROVE  /\ pc[t] \in {"use", "free", "get2", "use2", "free2", "fail2", "hget"} => held[t] \in 1..created
             /\ pc[t] \in {"use2", "free2", "fail2"} => inner[t] \in 1..created
  BY DEF TypeOK, Holding
<1>1. ASSUME NEW t \in Thread, Call(t) PROVE TypeOK' /\ Holding'
  <2>1. pc' \in [Thread -> PC] /\ calls' \in [Thread -> Nat]
    <3>1. pc' \in [Thread -> PC]
      BY <1>1 DEF TypeOK, PC, Call
    <3>2. calls' \in [Thread -> Nat]
      BY <1>1 DEF TypeOK, PC, Call
    <3> QED BY <3>1, <3>2
  <2>2. Holding'
    BY <1>1 DEF TypeOK, Holding, Call
  <2> QED BY <1>1, <2>1, <2>2 DEF TypeOK, Call, poolVars, connVars, serverVars
<1>2. ASSUME NEW t \in Thread, GetPop(t) PROVE TypeOK' /\ Holding'
  <2>1. pc' \in [Thread -> PC]
    BY <1>2 DEF TypeOK, PC, GetPop
  <2>2. conn_pool_' \in Seq(1..created)
    BY <1>2, <1>q DEF GetPop
  <2>3. PICK h \in 1..created :
          \/ /\ pc[t] \in {"get", "get1"}
             /\ held' = [held EXCEPT ![t] = h]
             /\ pc' = [pc EXCEPT ![t] = IF pc[t] = "get" THEN "use" ELSE "get2"]
             /\ inner' = inner
          \/ /\ pc[t] = "get2"
             /\ inner' = [inner EXCEPT ![t] = h]
             /\ pc' = [pc EXCEPT ![t] = "use2"]
             /\ held' = held
    BY <1>2, <1>q DEF GetPop
  <2>4. /\ held \in [Thread -> 0..created] /\ inner \in [Thread -> 0..created]
        /\ h \in 0..created
    BY DEF TypeOK
  <2>5. held' \in [Thread -> 0..created] /\ inner' \in [Thread -> 0..created]
    <3>1. CASE held' = [held EXCEPT ![t] = h] /\ inner' = inner
      BY <2>4, <3>1
    <3>2. CASE inner' = [inner EXCEPT ![t] = h] /\ held' = held
      BY <2>4, <3>2
    <3> QED BY <2>3, <3>1, <3>2
  <2>6. Holding'
    <3>1. SUFFICES ASSUME NEW u \in Thread
                   PROVE  /\ held'[u] # 0 <=> pc'[u] \in {"use", "free", "get2", "use2", "free2", "fail2", "hget"}
                          /\ inner'[u] # 0 <=> pc'[u] \in {"use2", "free2", "fail2"}
      BY DEF Holding
    <3>2. CASE u = t
      <4>1. pc \in [Thread -> PC] /\ held \in [Thread -> 0..created] /\ inner \in [Thread -> 0..created] /\ h # 0
        BY DEF TypeOK
      <4>2. CASE pc[t] = "get2"
        BY <2>3, <3>2, <4>1, <4>2 DEF Holding
      <4>3. CASE pc[t] = "get"
        BY <2>3, <3>2, <4>1, <4>3 DEF Holding
      <4>4. CASE pc[t] = "get1"
        BY <2>3, <3>2, <4>1, <4>4 DEF Holding
      <4> QED BY <2>3, <4>2, <4>3, <4>4
    <3>3. CASE u # t
      BY <2>3, <3>3 DEF TypeOK, Holding
    <3> QED BY <3>2, <3>3
  <2> QED BY <1>2, <2>1, <2>2, <2>4, <2>5, <2>6 DEF TypeOK, GetPop, connVars, serverVars
<1>3. ASSUME NEW t \in Thread, GetCreate(t) PROVE TypeOK' /\ Holding'
  <2>1. conn_pool_' \in Seq(1..created')
    <3>1. conn_pool_ \in Seq(1..(created + 1)) /\ created + 1 \in 1..(created + 1)
      BY QueueFacts DEF TypeOK
    <3> QED BY <3>1, QueueFacts, <1>3, SMTT(30) DEF GetCreate, CreateConnection
  <2> QED BY <1>3, <2>1, SMTT(30) DEF TypeOK, Holding, PC, GetCreate, CreateConnection, threadVars, serverVars
<1>4. ASSUME NEW t \in Thread, GetFails(t) PROVE TypeOK' /\ Holding'
  <2>1. pc' \in [Thread -> PC] /\ held' \in [Thread -> 0..created] /\ lost' \subseteq 1..created
    <3>1. pc' \in [Thread -> PC]
      BY <1>4 DEF TypeOK, PC, GetFails, ReturnEarly
    <3>2. held' \in [Thread -> 0..created]
      BY <1>4 DEF TypeOK, PC, GetFails, ReturnEarly
    <3>3. lost' \subseteq 1..created
      BY <1>4, LostType DEF GetFails
    <3> QED BY <3>1, <3>2, <3>3
  <2>2. Holding'
    BY <1>4 DEF TypeOK, Holding, GetFails, Getting, ReturnEarly
  <2> QED BY <1>4, <2>1, <2>2 DEF TypeOK, GetFails, poolVars, connVars, serverVars
<1>5. ASSUME NEW t \in Thread, Use(t) PROVE TypeOK' /\ Holding'
  <2>1. held[t] \in 1..created
    BY <1>5, <1>h DEF Use
  <2> QED BY <1>5, <2>1, ExecuteType DEF TypeOK, Holding, PC, Use, poolVars, serverVars
<1>6. ASSUME NEW t \in Thread, Free(t) PROVE TypeOK' /\ Holding'
  <2>1. conn_pool_' \in Seq(1..created)
    BY <1>6, <1>h, <1>q DEF Free
  <2> QED BY <1>6, <2>1 DEF TypeOK, Holding, PC, Free, connVars, serverVars
<1>7. ASSUME NEW t \in Thread, Use2(t) PROVE TypeOK' /\ Holding'
  <2>1. inner[t] \in 1..created
    BY <1>7, <1>h DEF Use2
  <2>2. keys' \in [Thread -> Nat]
    BY <1>7 DEF Use2, TypeOK
  <2> QED BY <1>7, <2>1, <2>2, ExecuteType DEF TypeOK, Holding, PC, Use2, poolVars, serverVars
<1>8. ASSUME NEW t \in Thread, Free2(t) PROVE TypeOK' /\ Holding'
  <2>1. conn_pool_' \in Seq(1..created)
    BY <1>8, <1>h, <1>q DEF Free2
  <2>2. pc' \in [Thread -> PC] /\ inner' \in [Thread -> 0..created]
    <3>1. pc' \in [Thread -> PC]
      BY <1>8 DEF TypeOK, PC, Free2, ReturnEarly
    <3>2. inner' \in [Thread -> 0..created]
      BY <1>8 DEF TypeOK, PC, Free2, ReturnEarly
    <3> QED BY <3>1, <3>2
  <2>3. held' \in [Thread -> 0..created] /\ lost' \subseteq 1..created
    <3>1. CASE UNCHANGED <<held, lost>>
      BY <3>1 DEF TypeOK
    <3>2. CASE ReturnEarly(t)
      BY <3>2, LostType
    <3> QED BY <1>8, <3>1, <3>2 DEF Free2
  <2>4. Holding'
    BY <1>8 DEF TypeOK, Holding, Free2, ReturnEarly
  <2> QED BY <1>8, <2>1, <2>2, <2>3, <2>4 DEF TypeOK, Free2, connVars, serverVars
<1>9. ASSUME NEW t \in Thread, HGetNext(t) PROVE TypeOK' /\ Holding'
  <2>1. held[t] \in 1..created
    BY <1>9, <1>h DEF HGetNext
  <2>2. pc' \in [Thread -> PC] /\ keys' \in [Thread -> Nat]
    <3>1. pc' \in [Thread -> PC]
      BY <1>9 DEF TypeOK, PC, HGetNext
    <3>2. keys' = keys \/ (keys[t] > 0 /\ keys' = [keys EXCEPT ![t] = keys[t] - 1])
      BY <1>9 DEF HGetNext, TypeOK
    <3>3. keys' \in [Thread -> Nat]
      <4>1. keys[t] \in Nat /\ keys \in [Thread -> Nat]
        BY DEF TypeOK
      <4>2. keys[t] > 0 => keys[t] - 1 \in Nat
        BY <4>1
      <4> QED BY <3>2, <4>1, <4>2
    <3> QED BY <3>1, <3>3
  <2>3. status_' \subseteq 1..created /\ dead' \subseteq 1..created /\ failed' \subseteq 1..created
    <3>1. CASE Execute(held[t])
      BY <3>1, <2>1, ExecuteType
    <3>2. CASE UNCHANGED connVars
      BY <3>2 DEF TypeOK, connVars
    <3> QED BY <1>9, <3>1, <3>2 DEF HGetNext, connVars
  <2>4. Holding'
    BY <1>9 DEF TypeOK, Holding, HGetNext
  <2> QED BY <1>9, <2>2, <2>3, <2>4 DEF TypeOK, HGetNext, poolVars, serverVars
<1>10. CASE CheckStatus
  BY <1>10, <1>q DEF TypeOK, Holding, CheckStatus, poolVars, threadVars, serverVars
<1>11. CASE ReleaseRedisConn
  <2>1. Released \in 0..Len(conn_pool_)
    BY DEF Released, TypeOK
  <2>2. conn_pool_' \in Seq(1..created)
    BY <1>11, <2>1, QueueFacts DEF ReleaseRedisConn, TypeOK
  <2>3. \A i \in 1..Released : conn_pool_[i] \in 1..created
    BY <2>1 DEF TypeOK
  <2>4. lost' \subseteq 1..created
    BY <1>11, <2>3 DEF ReleaseRedisConn, TypeOK
  <2> QED BY <1>11, <2>2, <2>4 DEF TypeOK, Holding, ReleaseRedisConn, connVars, threadVars
<1>12. CASE ServerDown
  BY <1>12 DEF TypeOK, Holding, ServerDown, poolVars, threadVars
<1>13. CASE ServerUp
  BY <1>13 DEF TypeOK, Holding, ServerUp, poolVars, threadVars
<1>14. CASE UNCHANGED vars
  BY <1>14 DEF TypeOK, Holding, vars, poolVars, connVars, threadVars, serverVars
<1> QED
  BY <1>1, <1>2, <1>3, <1>4, <1>5, <1>6, <1>7, <1>8, <1>9, <1>10, <1>11, <1>12,
     <1>13, <1>14 DEF Next, Work
-----------------------------------------------------------------------------
\* Only GetRedisConn creates connections, and only it counts.
LEMMA CountStep ==
  ASSUME [Next]_vars
  PROVE  \/ pool_size_' = pool_size_ /\ created' = created
         \/ \E t \in Thread : GetCreate(t)
BY DEF Next, Work, vars, poolVars, Call, GetPop, GetFails, Use, Free, Use2, Free2, HGetNext,
       CheckStatus, ReleaseRedisConn, ServerDown, ServerUp

\* PoolBound is inductive.
LEMMA BoundInit == Init => PoolBound
BY PoolAssumption DEF Init, PoolBound

LEMMA BoundStep ==
  ASSUME TypeOK, PoolBound, [Next]_vars
  PROVE  PoolBound'
<1>1. CASE pool_size_' = pool_size_ /\ created' = created
  BY <1>1 DEF PoolBound, pool_max_size_
<1>2. ASSUME NEW t \in Thread, GetCreate(t) PROVE PoolBound'
  BY <1>2, PoolAssumption
     DEF TypeOK, PoolBound, pool_max_size_, GetCreate, MayCreate, CreateConnection
<1> QED BY <1>1, <1>2, CountStep

\* A failing command leaves its connection marked bad, and a command that is
\* answered leaves it with a live socket: the connections that failed keep
\* one of the two.
LEMMA ExecuteFailsOnce ==
  ASSUME FailsOnce, NEW c, Execute(c), server' = server
  PROVE  FailsOnce'
BY DEF FailsOnce, Answered, Execute, up

\* FailsOnce is inductive.
LEMMA FailsInit == Init => FailsOnce
BY DEF Init, FailsOnce

LEMMA FailsStep ==
  ASSUME TypeOK, FailsOnce, [Next]_vars
  PROVE  FailsOnce'
<1>1. CASE UNCHANGED <<connVars, server>>
  BY <1>1 DEF FailsOnce, Answered, up, connVars
<1>2. CASE \E c : Execute(c) /\ server' = server
  BY <1>2, ExecuteFailsOnce
<1>3. ASSUME NEW t \in Thread, GetCreate(t) PROVE FailsOnce'
  <2>1. created + 1 \notin failed
    BY DEF TypeOK
  <2> QED BY <1>3, <2>1 DEF FailsOnce, Answered, up, GetCreate, CreateConnection, serverVars
<1>4. CASE CheckStatus
  BY <1>4 DEF FailsOnce, Answered, up, CheckStatus, serverVars
<1>5. CASE ServerDown
  BY <1>5 DEF FailsOnce, up, ServerDown
<1>6. CASE ServerUp
  BY <1>6 DEF FailsOnce, ServerUp
<1> QED
  <2>1. ASSUME NEW t \in Thread, Call(t) \/ GetPop(t) \/ GetFails(t) \/ Free(t) \/ Free2(t)
        PROVE  UNCHANGED <<connVars, server>>
    BY <2>1 DEF Call, GetPop, GetFails, Free, Free2, serverVars
  <2>2. ASSUME NEW t \in Thread, Use(t) \/ Use2(t)
        PROVE  \E c : Execute(c) /\ server' = server
    BY <2>2 DEF Use, Use2, serverVars
  <2>3. ASSUME NEW t \in Thread, HGetNext(t)
        PROVE  (\E c : Execute(c) /\ server' = server) \/ UNCHANGED <<connVars, server>>
    BY <2>3 DEF HGetNext, serverVars
  <2>4. ReleaseRedisConn \/ UNCHANGED vars => UNCHANGED <<connVars, server>>
    BY DEF ReleaseRedisConn, vars, serverVars
  <2> QED BY <1>1, <1>2, <1>3, <1>4, <1>5, <1>6, <2>1, <2>2, <2>3, <2>4 DEF Next, Work
-----------------------------------------------------------------------------
\* Where connections are.

LEMMA PlacedInit == Init => OnePlace
BY DEF Init, OnePlace, OneOwner, NoneForgotten, Slots

\* The positions and the elements of the queue after each of its operations.
LEMMA QueueAppend ==
  ASSUME NEW S, NEW q \in Seq(S), NEW e \in S
  PROVE  /\ Len(Append(q, e)) = Len(q) + 1
         /\ Len(q) \in Nat
         /\ \A i \in 1..Len(q) : Append(q, e)[i] = q[i]
         /\ Append(q, e)[Len(q) + 1] = e
OBVIOUS

LEMMA QueueTail ==
  ASSUME NEW S, NEW q \in Seq(S), q # << >>
  PROVE  /\ Len(q) \in Nat \ {0}
         /\ Len(Tail(q)) = Len(q) - 1
         /\ \A i \in 1..(Len(q) - 1) : Tail(q)[i] = q[i + 1]
         /\ Head(q) = q[1]
OBVIOUS

\* A step that moves nothing.
LEMMA PlacedSame ==
  ASSUME OnePlace, UNCHANGED <<conn_pool_, created, held, inner, lost>>
  PROVE  OnePlace'
BY DEF OnePlace, OneOwner, NoneForgotten, Slots

\* GetRedisConn moves the head of the queue to a thread that held nothing there.
LEMMA PlacedPop ==
  ASSUME TypeOK, Holding, OnePlace, NEW t \in Thread, GetPop(t)
  PROVE  OnePlace'
<1> DEFINE h == conn_pool_[1]
<1>1. /\ Len(conn_pool_) \in Nat \ {0} /\ Len(conn_pool_') = Len(conn_pool_) - 1
      /\ \A i \in 1..(Len(conn_pool_) - 1) : conn_pool_'[i] = conn_pool_[i + 1]
      /\ Head(conn_pool_) = h
      /\ h \in 1..created /\ h # 0
  BY QueueTail, QueueFacts DEF TypeOK, GetPop
<1>2. created' = created /\ lost' = lost
  BY DEF GetPop
<1>3. \/ held[t] = 0 /\ held' = [held EXCEPT ![t] = h] /\ inner' = inner
      \/ inner[t] = 0 /\ inner' = [inner EXCEPT ![t] = h] /\ held' = held
  BY <1>1 DEF GetPop, Holding
<1>4. \A i \in Slots' : i + 1 \in Slots /\ i + 1 # 1 /\ conn_pool_'[i] = conn_pool_[i + 1]
  BY <1>1 DEF Slots
<1>5. 1 \in Slots
  BY <1>1 DEF Slots
<1> HIDE DEF h
<1>6. OneOwner'
  <2>1. \A i, j \in Slots' : conn_pool_'[i] = conn_pool_'[j] => i = j
    BY <1>4 DEF OnePlace, OneOwner, Slots
  <2>2. \A i \in Slots' : conn_pool_'[i] \notin lost'
    BY <1>4, <1>2 DEF OnePlace, OneOwner
  <2>3. \A i \in Slots', u \in Thread : conn_pool_'[i] # held'[u] /\ conn_pool_'[i] # inner'[u]
    <3>1. \A i \in Slots' : conn_pool_'[i] # h
      BY <1>4, <1>5 DEF OnePlace, OneOwner, h
    <3>2. \A u \in Thread : held'[u] \in {held[u], h} /\ inner'[u] \in {inner[u], h}
      BY <1>3 DEF TypeOK
    <3> QED BY <1>4, <3>1, <3>2 DEF OnePlace, OneOwner
  <2>4. \A u \in Thread : h # held[u] /\ h # inner[u] /\ h \notin lost
    BY <1>5 DEF OnePlace, OneOwner, h
  <2>t. held \in [Thread -> 0..created] /\ inner \in [Thread -> 0..created]
    BY DEF TypeOK
  <2>o. /\ \A u, v \in Thread : held[u] = held[v] /\ held[u] # 0 => u = v
        /\ \A u, v \in Thread : inner[u] = inner[v] /\ inner[u] # 0 => u = v
        /\ \A u, v \in Thread : held[u] = inner[v] => held[u] = 0
        /\ \A u \in Thread : held[u] \notin lost /\ inner[u] \notin lost
    BY DEF OnePlace, OneOwner
  <2>a. ASSUME held' = [held EXCEPT ![t] = h] /\ inner' = inner
        PROVE  held'[t] = h /\ (\A u \in Thread : u # t => held'[u] = held[u]) /\ inner' = inner
    BY <2>a, <2>t
  <2>b. ASSUME inner' = [inner EXCEPT ![t] = h] /\ held' = held
        PROVE  inner'[t] = h /\ (\A u \in Thread : u # t => inner'[u] = inner[u]) /\ held' = held
    BY <2>b, <2>t
  <2>5. /\ \A u, v \in Thread : held'[u] = held'[v] /\ held'[u] # 0 => u = v
        /\ \A u, v \in Thread : inner'[u] = inner'[v] /\ inner'[u] # 0 => u = v
    <3>1. CASE held' = [held EXCEPT ![t] = h] /\ inner' = inner
      BY <2>a, <2>o, <2>4, <3>1
    <3>2. CASE inner' = [inner EXCEPT ![t] = h] /\ held' = held
      BY <2>b, <2>o, <2>4, <3>2
    <3> QED BY <1>3, <3>1, <3>2
  <2>7. \A u, v \in Thread : held'[u] = inner'[v] => held'[u] = 0
    <3>1. CASE held' = [held EXCEPT ![t] = h] /\ inner' = inner
      BY <2>a, <2>o, <2>4, <3>1
    <3>2. CASE inner' = [inner EXCEPT ![t] = h] /\ held' = held
      BY <2>b, <2>o, <2>4, <3>2
    <3> QED BY <1>3, <3>1, <3>2
  <2>8. \A u \in Thread : held'[u] \notin lost' /\ inner'[u] \notin lost'
    <3>1. CASE held' = [held EXCEPT ![t] = h] /\ inner' = inner
      BY <1>2, <2>a, <2>o, <2>4, <3>1
    <3>2. CASE inner' = [inner EXCEPT ![t] = h] /\ held' = held
      BY <1>2, <2>b, <2>o, <2>4, <3>2
    <3> QED BY <1>3, <3>1, <3>2
  <2> QED BY <2>1, <2>2, <2>3, <2>5, <2>7, <2>8 DEF OneOwner
<1>7. NoneForgotten'
  <2>1. SUFFICES ASSUME NEW c \in 1..created
                 PROVE  \/ \E i \in Slots' : conn_pool_'[i] = c
                        \/ \E u \in Thread : held'[u] = c \/ inner'[u] = c
                        \/ c \in lost'
    BY <1>2 DEF NoneForgotten
  <2>2. CASE c = h
    BY <2>2, <1>3 DEF TypeOK
  <2>3. CASE c # h /\ \E i \in Slots : conn_pool_[i] = c
    <3>1. PICK i \in Slots : conn_pool_[i] = c
      BY <2>3
    <3>2. i - 1 \in Slots' /\ conn_pool_'[i - 1] = c
      BY <3>1, <2>3, <1>1 DEF Slots, h
    <3> QED BY <3>2
  <2>4. ASSUME NEW u \in Thread, held[u] = c \/ inner[u] = c
        PROVE  \E v \in Thread : held'[v] = c \/ inner'[v] = c
    BY <2>4, <1>3 DEF TypeOK
  <2> QED BY <2>2, <2>3, <2>4, <1>2 DEF OnePlace, NoneForgotten
<1> QED BY <1>6, <1>7 DEF OnePlace

\* GetRedisConn puts the new connection in the queue.
LEMMA PlacedCreate ==
  ASSUME TypeOK, OnePlace, NEW t \in Thread, GetCreate(t)
  PROVE  OnePlace'
<1>1. conn_pool_ \in Seq(1..(created + 1)) /\ created + 1 \in 1..(created + 1)
  BY QueueFacts DEF TypeOK
<1>2. conn_pool_ = << >> /\ conn_pool_' = Append(conn_pool_, created + 1) /\ created' = created + 1
  BY DEF GetCreate, MayCreate, CreateConnection
<1>3. Slots = {} /\ Slots' = {1} /\ conn_pool_'[1] = created + 1
  BY <1>1, <1>2, QueueAppend DEF Slots
<1>4. UNCHANGED <<held, inner, lost>>
  BY DEF GetCreate, threadVars
<1>5. /\ created + 1 \notin lost
      /\ \A u \in Thread : created + 1 # held[u] /\ created + 1 # inner[u]
  BY DEF TypeOK
<1>6. OneOwner'
  BY <1>3, <1>4, <1>5 DEF OnePlace, OneOwner
<1>7. NoneForgotten'
  <2>1. SUFFICES ASSUME NEW c \in 1..(created + 1)
                 PROVE  \/ \E i \in Slots' : conn_pool_'[i] = c
                        \/ \E u \in Thread : held'[u] = c \/ inner'[u] = c
                        \/ c \in lost'
    BY <1>2 DEF NoneForgotten
  <2>2. CASE c = created + 1
    BY <2>2, <1>3
  <2>3. CASE c \in 1..created
    BY <2>3, <1>3, <1>4 DEF OnePlace, NoneForgotten
  <2> QED BY <2>2, <2>3 DEF TypeOK
<1> QED BY <1>6, <1>7 DEF OnePlace

\* A step that takes connections from threads, queues at most one of them and
\* destroys the others.
LEMMA PlacedGiven ==
  ASSUME TypeOK, OnePlace, created' = created,
         \A u \in Thread : held'[u] \in {held[u], 0} /\ inner'[u] \in {inner[u], 0},
         \A i \in Slots : i \in Slots' /\ conn_pool_'[i] = conn_pool_[i],
         \A i \in Slots' \ Slots :
           /\ \A j \in Slots' \ Slots : i = j
           /\ \A j \in Slots : conn_pool_[j] # conn_pool_'[i]
           /\ \A u \in Thread : conn_pool_'[i] # held'[u] /\ conn_pool_'[i] # inner'[u]
           /\ conn_pool_'[i] \notin lost',
         lost \subseteq lost',
         \A c \in lost' \ lost :
           /\ c # 0
           /\ \A j \in Slots : conn_pool_[j] # c
           /\ \A u \in Thread : c # held'[u] /\ c # inner'[u],
         \A u \in Thread :
           /\ held'[u] # held[u] => held[u] \in lost' \/ \E i \in Slots' : conn_pool_'[i] = held[u]
           /\ inner'[u] # inner[u] => inner[u] \in lost' \/ \E i \in Slots' : conn_pool_'[i] = inner[u],
         0 \notin lost, \A i \in Slots : conn_pool_[i] # 0,
         \A i \in Slots' : conn_pool_'[i] # 0
  PROVE  OnePlace'
<1>1. OneOwner'
  <2>1. \A i, j \in Slots' : conn_pool_'[i] = conn_pool_'[j] => i = j
    BY DEF OnePlace, OneOwner
  <2>2. \A i \in Slots' : conn_pool_'[i] \notin lost'
    BY DEF OnePlace, OneOwner
  <2>3. \A i \in Slots', u \in Thread : conn_pool_'[i] # held'[u] /\ conn_pool_'[i] # inner'[u]
    BY DEF OnePlace, OneOwner
  <2>4. \A u, v \in Thread : held'[u] = held'[v] /\ held'[u] # 0 => u = v
    BY DEF OnePlace, OneOwner
  <2>5. \A u, v \in Thread : inner'[u] = inner'[v] /\ inner'[u] # 0 => u = v
    BY DEF OnePlace, OneOwner
  <2>6. \A u, v \in Thread : held'[u] = inner'[v] => held'[u] = 0
    BY DEF OnePlace, OneOwner
  <2>7. \A u \in Thread : held'[u] \notin lost' /\ inner'[u] \notin lost'
    BY DEF OnePlace, OneOwner
  <2> QED BY <2>1, <2>2, <2>3, <2>4, <2>5, <2>6, <2>7 DEF OneOwner
<1>2. NoneForgotten'
  <2>1. SUFFICES ASSUME NEW c \in 1..created
                 PROVE  \/ \E i \in Slots' : conn_pool_'[i] = c
                        \/ \E u \in Thread : held'[u] = c \/ inner'[u] = c
                        \/ c \in lost'
    BY DEF NoneForgotten
  <2> QED BY DEF OnePlace, NoneForgotten
<1> QED BY <1>1, <1>2 DEF OnePlace

\* Facts about a connection a thread is about to give back.
LEMMA Pushed ==
  ASSUME TypeOK, OnePlace, NEW c \in 1..created, conn_pool_' = Append(conn_pool_, c)
  PROVE  /\ \A i \in Slots : i \in Slots' /\ conn_pool_'[i] = conn_pool_[i]
         /\ \A i \in Slots' \ Slots : i = Len(conn_pool_) + 1 /\ conn_pool_'[i] = c
         /\ Len(conn_pool_) + 1 \in Slots' /\ conn_pool_'[Len(conn_pool_) + 1] = c
         /\ 0 \notin lost
         /\ \A i \in Slots : conn_pool_[i] # 0
<1>1. /\ Len(conn_pool_') = Len(conn_pool_) + 1
      /\ Len(conn_pool_) \in Nat
      /\ \A i \in 1..Len(conn_pool_) : conn_pool_'[i] = conn_pool_[i]
      /\ conn_pool_'[Len(conn_pool_) + 1] = c
  BY QueueAppend DEF TypeOK
<1>2. \A i \in Slots : conn_pool_[i] \in 1..created
  BY DEF TypeOK, Slots
<1> QED BY <1>1, <1>2 DEF Slots, TypeOK

\* FreeRedisConn at the end of a call.
LEMMA PlacedFree ==
  ASSUME TypeOK, Holding, OnePlace, NEW t \in Thread, Free(t)
  PROVE  OnePlace'
<1>1. held[t] \in 1..created /\ held[t] # 0
  BY DEF TypeOK, Holding, Free
<1>2. /\ conn_pool_' = Append(conn_pool_, held[t])
      /\ held' = [held EXCEPT ![t] = 0]
      /\ inner' = inner /\ lost' = lost /\ created' = created
  BY DEF Free
<1>3. /\ \A u \in Thread : held'[u] # held[t] /\ inner'[u] # held[t]
      /\ held[t] \notin lost
      /\ \A j \in Slots : conn_pool_[j] # held[t]
  BY <1>1, <1>2 DEF TypeOK, OnePlace, OneOwner
<1>4. \A u \in Thread : held'[u] = IF u = t THEN 0 ELSE held[u]
  BY <1>2 DEF TypeOK
<1>5. /\ \A i \in Slots : i \in Slots' /\ conn_pool_'[i] = conn_pool_[i]
      /\ \A i \in Slots' \ Slots : i = Len(conn_pool_) + 1 /\ conn_pool_'[i] = held[t]
      /\ Len(conn_pool_) + 1 \in Slots' /\ conn_pool_'[Len(conn_pool_) + 1] = held[t]
      /\ 0 \notin lost
      /\ \A i \in Slots : conn_pool_[i] # 0
  BY Pushed, <1>1, <1>2
<1> QED BY PlacedGiven, <1>1, <1>2, <1>3, <1>4, <1>5, ZenonT(30)

\* The FreeRedisConn of HKeys inside HGetAllByKeys.
LEMMA PlacedFree2 ==
  ASSUME TypeOK, Holding, OnePlace, NEW t \in Thread, Free2(t)
  PROVE  OnePlace'
<1>1. inner[t] \in 1..created /\ inner[t] # 0 /\ held[t] \in 1..created /\ held[t] # 0
  BY DEF TypeOK, Holding, Free2
<1>2. /\ conn_pool_' = Append(conn_pool_, inner[t])
      /\ inner' = [inner EXCEPT ![t] = 0]
      /\ created' = created
  BY DEF Free2
<1>3. \/ held' = held /\ lost' = lost
      \/ held' = [held EXCEPT ![t] = 0] /\ lost' = lost \cup {held[t]}
  BY <1>1 DEF Free2, ReturnEarly
<1>4. /\ \A u \in Thread : held'[u] # inner[t] /\ inner'[u] # inner[t]
      /\ inner[t] \notin lost'
      /\ \A j \in Slots : conn_pool_[j] # inner[t]
  BY <1>1, <1>2, <1>3 DEF TypeOK, OnePlace, OneOwner
<1>5. \A c \in lost' \ lost :
        /\ c = held[t] /\ c # 0
        /\ \A j \in Slots : conn_pool_[j] # c
        /\ \A u \in Thread : c # held'[u] /\ c # inner'[u]
  BY <1>1, <1>2, <1>3 DEF TypeOK, OnePlace, OneOwner
<1>6. \A u \in Thread : /\ inner'[u] = IF u = t THEN 0 ELSE inner[u]
                        /\ held'[u] \in {held[u], 0}
                        /\ held'[u] # held[u] => u = t /\ held[u] \in lost'
  BY <1>2, <1>3 DEF TypeOK
<1>7. /\ \A i \in Slots : i \in Slots' /\ conn_pool_'[i] = conn_pool_[i]
      /\ \A i \in Slots' \ Slots : i = Len(conn_pool_) + 1 /\ conn_pool_'[i] = inner[t]
      /\ Len(conn_pool_) + 1 \in Slots' /\ conn_pool_'[Len(conn_pool_) + 1] = inner[t]
      /\ 0 \notin lost
      /\ \A i \in Slots : conn_pool_[i] # 0
  BY Pushed, <1>1, <1>2
<1>8. lost \subseteq lost'
  BY <1>3
<1>9. \A i \in Slots' \ Slots :
        /\ \A j \in Slots' \ Slots : i = j
        /\ \A j \in Slots : conn_pool_[j] # conn_pool_'[i]
        /\ \A u \in Thread : conn_pool_'[i] # held'[u] /\ conn_pool_'[i] # inner'[u]
        /\ conn_pool_'[i] \notin lost'
  BY <1>4, <1>7
<1>10. \A u \in Thread :
         /\ held'[u] # held[u] => held[u] \in lost' \/ \E i \in Slots' : conn_pool_'[i] = held[u]
         /\ inner'[u] # inner[u] => inner[u] \in lost' \/ \E i \in Slots' : conn_pool_'[i] = inner[u]
  BY <1>6, <1>7
<1>11. \A u \in Thread : held'[u] \in {held[u], 0} /\ inner'[u] \in {inner[u], 0}
  BY <1>6
<1>12. \A i \in Slots' : conn_pool_'[i] # 0
  BY <1>1, <1>7
<1> QED BY PlacedGiven, <1>2, <1>5, <1>7, <1>8, <1>9, <1>10, <1>11, <1>12

\* GetRedisConn returning null inside HGetAllByKeys: what it holds is destroyed.
LEMMA PlacedFails ==
  ASSUME TypeOK, OnePlace, NEW t \in Thread, GetFails(t)
  PROVE  OnePlace'
<1>1. /\ conn_pool_' = conn_pool_ /\ inner' = inner /\ created' = created
      /\ held' = [held EXCEPT ![t] = 0] /\ lost' = lost \cup ({held[t]} \ {0})
  BY DEF GetFails, ReturnEarly, poolVars
<1>2. \A u \in Thread : held'[u] = IF u = t THEN 0 ELSE held[u]
  BY <1>1 DEF TypeOK
<1>3. Slots' = Slots /\ 0 \notin lost /\ \A i \in Slots : conn_pool_[i] # 0
  BY <1>1 DEF TypeOK, Slots
<1>4. \A c \in lost' \ lost :
        /\ c = held[t] /\ c # 0
        /\ \A j \in Slots : conn_pool_[j] # c
        /\ \A u \in Thread : c # held'[u] /\ c # inner'[u]
  BY <1>1, <1>2 DEF OnePlace, OneOwner
<1>5. \A u \in Thread : held'[u] # held[u] => held[u] \in lost'
  BY <1>1, <1>2
<1> QED BY PlacedGiven, <1>1, <1>2, <1>3, <1>4, <1>5, ZenonT(30)

\* ReleaseRedisConn destroys the front of the queue.
LEMMA PlacedRelease ==
  ASSUME TypeOK, OnePlace, ReleaseRedisConn
  PROVE  OnePlace'
<1> DEFINE n == Released
<1>1. Len(conn_pool_) \in Nat /\ n \in 0..Len(conn_pool_)
  BY DEF Released, TypeOK
<1>2. /\ conn_pool_' = SubSeq(conn_pool_, n + 1, Len(conn_pool_))
      /\ lost' = lost \cup {conn_pool_[i] : i \in 1..n}
      /\ UNCHANGED <<created, held, inner>>
  BY DEF ReleaseRedisConn, threadVars
<1> HIDE DEF n
<1>3. /\ Len(conn_pool_') = Len(conn_pool_) - n
      /\ \A i \in 1..(Len(conn_pool_) - n) : conn_pool_'[i] = conn_pool_[i + n]
  <2>1. \A i \in (n + 1)..Len(conn_pool_) : conn_pool_[i] \in 1..created
    BY <1>1 DEF TypeOK
  <2>2. /\ Len(conn_pool_') = IF n + 1 <= Len(conn_pool_) THEN Len(conn_pool_) - (n + 1) + 1 ELSE 0
        /\ \A i \in 1..(Len(conn_pool_) - (n + 1) + 1) : conn_pool_'[i] = conn_pool_[(n + 1) + i - 1]
    BY <1>1, <1>2, <2>1, SubSeqProperties
  <2> QED BY <1>1, <2>2
<1>4. \A i \in Slots' : i + n \in Slots /\ i + n \notin 1..n /\ conn_pool_'[i] = conn_pool_[i + n]
  BY <1>1, <1>3 DEF Slots
<1>5. 1..n \subseteq Slots
  BY <1>1 DEF Slots
<1>6. OneOwner'
  <2>1. \A i, j \in Slots' : conn_pool_'[i] = conn_pool_'[j] => i = j
    BY <1>1, <1>4 DEF OnePlace, OneOwner, Slots
  <2>2. \A i \in Slots' : conn_pool_'[i] \notin lost'
    <3>1. SUFFICES ASSUME NEW i \in Slots', conn_pool_'[i] \in lost' PROVE FALSE
      OBVIOUS
    <3>2. i + n \in Slots /\ i + n \notin 1..n /\ conn_pool_'[i] = conn_pool_[i + n]
      BY <1>4
    <3>3. CASE conn_pool_[i + n] \in lost
      BY <3>2, <3>3 DEF OnePlace, OneOwner
    <3>4. ASSUME NEW j \in 1..n, conn_pool_[i + n] = conn_pool_[j] PROVE FALSE
      BY <3>2, <3>4, <1>5 DEF OnePlace, OneOwner
    <3> QED BY <3>1, <3>2, <3>3, <3>4, <1>2
  <2>3. \A i \in Slots', u \in Thread : conn_pool_'[i] # held'[u] /\ conn_pool_'[i] # inner'[u]
    <3>1. SUFFICES ASSUME NEW i \in Slots', NEW u \in Thread
                   PROVE  conn_pool_'[i] # held[u] /\ conn_pool_'[i] # inner[u]
      BY <1>2
    <3>2. i + n \in Slots /\ conn_pool_'[i] = conn_pool_[i + n]
      BY <1>4
    <3> QED BY <3>2 DEF OnePlace, OneOwner
  <2>4. \A u \in Thread : held'[u] \notin lost' /\ inner'[u] \notin lost'
    BY <1>2, <1>5 DEF OnePlace, OneOwner
  <2> QED BY <2>1, <2>2, <2>3, <2>4, <1>2 DEF OnePlace, OneOwner
<1>7. NoneForgotten'
  <2>1. SUFFICES ASSUME NEW c \in 1..created
                 PROVE  \/ \E i \in Slots' : conn_pool_'[i] = c
                        \/ \E u \in Thread : held'[u] = c \/ inner'[u] = c
                        \/ c \in lost'
    BY <1>2 DEF NoneForgotten
  <2>2. ASSUME NEW i \in Slots, conn_pool_[i] = c
        PROVE  c \in lost' \/ \E j \in Slots' : conn_pool_'[j] = c
    <3>1. CASE i \in 1..n
      BY <3>1, <2>2, <1>2
    <3>2. CASE i \notin 1..n
      <4>1. i - n \in Slots' /\ conn_pool_'[i - n] = conn_pool_[i]
        BY <3>2, <1>1, <1>3 DEF Slots
      <4> QED BY <4>1, <2>2
    <3> QED BY <3>1, <3>2
  <2> QED BY <2>2, <1>2 DEF OnePlace, NoneForgotten
<1> QED BY <1>6, <1>7 DEF OnePlace

\* Every step leaves every connection in one place.
LEMMA PlacedStep ==
  ASSUME TypeOK, Holding, OnePlace, [Next]_vars
  PROVE  OnePlace'
<1>1. ASSUME NEW t \in Thread, Call(t) \/ Use(t) \/ Use2(t) \/ HGetNext(t)
      PROVE  OnePlace'
  <2>1. UNCHANGED <<conn_pool_, created, held, inner, lost>>
    BY <1>1 DEF Call, Use, Use2, HGetNext, poolVars
  <2> QED BY <2>1, PlacedSame
<1>2. CASE CheckStatus \/ ServerDown \/ ServerUp \/ UNCHANGED vars
  <2>1. UNCHANGED <<conn_pool_, created, held, inner, lost>>
    BY <1>2 DEF CheckStatus, ServerDown, ServerUp, vars, poolVars, threadVars
  <2> QED BY <2>1, PlacedSame
<1> QED
  BY <1>1, <1>2, PlacedPop, PlacedCreate, PlacedFails, PlacedFree, PlacedFree2, PlacedRelease
     DEF Next, Work
-----------------------------------------------------------------------------
RedisPoolInv == TypeOK /\ Holding /\ PoolBound /\ FailsOnce /\ OnePlace

\* The pool's invariants, for any number of threads, any pool size and limit,
\* and any pattern of outages: the number of connections ever made is bounded
\* by what InitPool and GetRedisConn's test of pool_size_ allow; a connection
\* that GetRedisConn has handed to a thread is nowhere else until
\* FreeRedisConn, and none disappears but those destroyed by ReleaseRedisConn
\* or an early return; a connection cut by an outage fails one command at
\* most before the execute functions reconnect it.
THEOREM RedisPoolSafe ==
  Spec => [](TypeOK /\ OnePlace /\ PoolBound /\ FailsOnce)
<1>1. Init => RedisPoolInv
  BY TypeInit, BoundInit, FailsInit, PlacedInit DEF RedisPoolInv
<1>2. RedisPoolInv /\ [Next]_vars => RedisPoolInv'
  BY TypeStep, BoundStep, FailsStep, PlacedStep DEF RedisPoolInv
<1>3. RedisPoolInv => TypeOK /\ OnePlace /\ PoolBound /\ FailsOnce
  BY DEF RedisPoolInv, OnePlace
<1> QED BY <1>1, <1>2, <1>3, PTL DEF Spec

\* CreateConnection's count and GetRedisConn's test of it bound the number of
\* connections ever made.
THEOREM PoolIsBounded == Spec => []PoolBound
BY RedisPoolSafe, PTL

\* A connection cut by an outage fails one command at most before the execute
\* functions reconnect it.
THEOREM OutageCostsOneCommand == Spec => []FailsOnce
BY RedisPoolSafe, PTL
=============================================================================
