---------------------------- MODULE MongoProofs ----------------------------
(***************************************************************************)
(* What TLAPS proves of mong-c-test's MongoPool and NoticeStore.           *)
(*                                                                         *)
(* MongoPool, for any threads, clients and bounds: its invariants, by one  *)
(* inductive invariant, MongoInv, and from it the action property          *)
(* OnlyFindLoses.                                                          *)
(*                                                                         *)
(* NoticeStore, for any maps, notices, arrays and bounds: what its selects *)
(* return of any collection.  Their loops are recursive functions over the *)
(* indices of a sequence; for each a lemma (KeptStep, ArrayStep, ...) shows *)
(* that the function exists, so that it is what its definition says at     *)
(* each index, and SetInduction carries a fact from turn to turn.          *)
(***************************************************************************)
EXTENDS MongoPool, NoticeStore, SequenceTheorems, FiniteSetTheorems,
        WellFoundedInduction, TLAPS

\* A thread that has started has a pool.
Started ==
  /\ pools <= MaxPools
  /\ \A t \in Thread : pc[t] # "off" => ptr[t] \in 1..pools

\* Before it opens a cursor and once it is about to push, a call has no cursor
\* on its client: what Push needs to keep NoCursorLeft.
NoCursorOfOthers ==
  \A t \in Thread : pc[t] \in {"use", "push"} => client[t] \notin cursors[ptr[t]]

\* Only destory_client_pool destroys, and it cleans up the library too.
DestroyedByCleanup == destroyed # {} => mongoc = "cleaned"

MongoInv ==
  /\ TypeOK
  /\ Started
  /\ OneOwner
  /\ NoCursorLeft
  /\ NoCursorOfOthers
  /\ DestroyedByCleanup
  /\ ReinitIsSafe

\* The inductive invariant holds initially.
LEMMA MongoInit == Init => MongoInv
BY MongoAssumption
DEF Init, MongoInv, TypeOK, Started, OneOwner, NoCursorLeft, NoCursorOfOthers,
    DestroyedByCleanup, ReinitIsSafe, PC, Holding, Ops, Writes, Selects

\* Every step of main and of the threads keeps the types.
LEMMA TypeStep == MongoInv /\ [Next]_vars => TypeOK'
<1> SUFFICES ASSUME MongoInv, [Next]_vars PROVE TypeOK'
  OBVIOUS
<1> USE MongoAssumption DEF MongoInv, TypeOK, Started, PC, Holding, mainVars, callVars, poolVars
<1>1. CASE mongodb_init
  <2>1. CASE mongoc = "up"
    <3>1. pools' \in Nat /\ pools' = pools + 1 /\ api' = pools + 1 /\ destroyed' = destroyed
      BY <1>1, <2>1 DEF mongodb_init, create_client_pool
    <3>2. 0..pools \subseteq 0..pools' /\ 1..pools \subseteq 1..pools' /\ api' \in 0..pools'
      BY <3>1
    <3>3. UNCHANGED <<undefined, mongoc, ptr, pc, callVars, client, calls, poolVars>>
      BY <1>1, <2>1 DEF mongodb_init
    <3>4. ptr' \in [Thread -> 0..pools'] /\ destroyed' \subseteq 1..pools'
      BY <3>1, <3>2, <3>3
    <3>5. QED
      BY <3>1, <3>2, <3>3, <3>4
  <2>2. CASE mongoc # "up"
    BY <1>1, <2>2 DEF mongodb_init
  <2>3. QED
    BY <2>1, <2>2
<1>2. CASE mongodb_cleanup
  <2>1. UNCHANGED <<pools, api, ptr, pc, callVars, client, calls, poolVars>>
    BY <1>2 DEF mongodb_cleanup
  <2>2. api \in 1..pools
    BY <1>2 DEF mongodb_cleanup
  <2>3. /\ destroyed' \subseteq 1..pools
        /\ mongoc' \in {"up", "cleaned"}
        /\ undefined' \in {"no", "pool", "doc"}
    <3>1. CASE api \in destroyed \/ mongoc = "cleaned"
      BY <1>2, <3>1 DEF mongodb_cleanup, destory_client_pool
    <3>2. CASE ~(api \in destroyed \/ mongoc = "cleaned")
      BY <1>2, <2>2, <3>2 DEF mongodb_cleanup, destory_client_pool
    <3>3. QED
      BY <3>1, <3>2
  <2>4. QED
    BY <2>1, <2>3
<1>3. ASSUME NEW t \in Thread, StartThread(t) PROVE TypeOK'
  BY <1>3 DEF StartThread
<1>4. ASSUME NEW t \in Thread, NEW o \in Ops, Call(t, o) PROVE TypeOK'
  BY <1>4 DEF Call
<1>5. ASSUME NEW t \in Thread, NEW o \in Ops, RefuseEmpty(t, o) PROVE TypeOK'
  BY <1>5 DEF RefuseEmpty
<1>6. ASSUME NEW t \in Thread, UseDestroyed(t) PROVE TypeOK'
  BY <1>6 DEF UseDestroyed
<1>7. ASSUME NEW t \in Thread, Pop(t) PROVE TypeOK'
  BY <1>7 DEF Pop
<1>8. ASSUME NEW t \in Thread, PopNull(t) PROVE TypeOK'
  BY <1>8 DEF PopNull
<1>9. ASSUME NEW t \in Thread, Push(t) PROVE TypeOK'
  BY <1>9 DEF Push
<1>10. ASSUME NEW t \in Thread, Write(t) \/ batch_insert_coll(t) PROVE TypeOK'
  BY <1>10 DEF Write, batch_insert_coll, RunCommand
<1>11. ASSUME NEW t \in Thread, OpenCursor(t) PROVE TypeOK'
  BY <1>11 DEF OpenCursor
<1>12. ASSUME NEW t \in Thread, ScanStops(t) PROVE TypeOK'
  BY <1>12 DEF ScanStops
<1>13. ASSUME NEW t \in Thread, SelectRow(t) PROVE TypeOK'
  BY <1>13 DEF SelectRow
<1>14. ASSUME NEW t \in Thread, SelectEnd(t) PROVE TypeOK'
  <2>1. CASE CursorDestroyed(t) /\ UNCHANGED undefined
    BY <1>14, <2>1 DEF SelectEnd, CursorDestroyed
  <2>2. CASE undefined' = "doc" /\ UNCHANGED <<pc, cursors>>
    BY <1>14, <2>2 DEF SelectEnd
  <2>3. QED
    BY <1>14, <2>1, <2>2 DEF SelectEnd
<1>15. ASSUME NEW t \in Thread, FindRow(t) PROVE TypeOK'
  BY <1>15 DEF FindRow
<1>16. ASSUME NEW t \in Thread, FindEnd(t) PROVE TypeOK'
  BY <1>16 DEF FindEnd, CursorDestroyed
<1>17. CASE UNCHANGED vars
  BY <1>17 DEF vars
<1>18. QED
  BY <1>1, <1>2, <1>3, <1>4, <1>5, <1>6, <1>7, <1>8, <1>9, <1>10, <1>11, <1>12,
     <1>13, <1>14, <1>15, <1>16, <1>17 DEF Next, InCall

\* Every step keeps a pool for every thread that has started.
LEMMA StartedStep == MongoInv /\ [Next]_vars => Started'
<1> SUFFICES ASSUME MongoInv, [Next]_vars PROVE Started'
  OBVIOUS
<1> USE MongoAssumption DEF MongoInv, TypeOK, Started, mainVars, callVars, poolVars
<1>1. CASE mongodb_init
  <2>1. pools' \in Nat /\ pools <= pools' /\ pools' <= MaxPools
    BY <1>1 DEF mongodb_init, create_client_pool
  <2>2. UNCHANGED <<ptr, pc>>
    BY <1>1 DEF mongodb_init
  <2>3. QED
    BY <2>1, <2>2
<1>2. CASE mongodb_cleanup
  BY <1>2 DEF mongodb_cleanup
<1>3. ASSUME NEW t \in Thread, StartThread(t) PROVE Started'
  BY <1>3 DEF StartThread
<1>4. ASSUME NEW t \in Thread, NEW o \in Ops, Call(t, o) \/ RefuseEmpty(t, o) PROVE Started'
  BY <1>4 DEF Call, RefuseEmpty
<1>5. ASSUME NEW t \in Thread, InCall(t) PROVE Started'
  <2>1. pc[t] # "off" /\ UNCHANGED <<pools, ptr>>
    BY <1>5 DEF InCall, UseDestroyed, Pop, PopNull, Push, Write, batch_insert_coll,
                RunCommand, OpenCursor, ScanStops, SelectRow, SelectEnd, FindRow, FindEnd, CursorDestroyed
  <2>2. \A u \in Thread \ {t} : pc'[u] = pc[u]
    BY <1>5 DEF InCall, UseDestroyed, Pop, PopNull, Push, Write, batch_insert_coll,
                RunCommand, OpenCursor, ScanStops, SelectRow, SelectEnd, FindRow, FindEnd, CursorDestroyed
  <2>3. QED
    BY <2>1, <2>2
<1>6. CASE UNCHANGED vars
  BY <1>6 DEF vars
<1>7. QED
  BY <1>1, <1>2, <1>3, <1>4, <1>5, <1>6 DEF Next

\* Only mongodb_cleanup leads to undefined behaviour on a pool.
LEMMA CleanupStep == MongoInv /\ [Next]_vars => DestroyedByCleanup' /\ ReinitIsSafe'
<1> SUFFICES ASSUME MongoInv, [Next]_vars PROVE DestroyedByCleanup' /\ ReinitIsSafe'
  OBVIOUS
<1> USE DEF MongoInv, DestroyedByCleanup, ReinitIsSafe
<1>1. CASE mongodb_init
  BY <1>1 DEF mongodb_init, create_client_pool, TypeOK
<1>2. CASE mongodb_cleanup
  BY <1>2 DEF mongodb_cleanup, destory_client_pool
<1>3. ASSUME NEW t \in Thread, UseDestroyed(t) PROVE DestroyedByCleanup' /\ ReinitIsSafe'
  BY <1>3 DEF UseDestroyed, Usable, mainVars, TypeOK
<1>4. ASSUME NEW t \in Thread, InCall(t), ~UseDestroyed(t)
      PROVE  DestroyedByCleanup' /\ ReinitIsSafe'
  <2>1. UNCHANGED mainVars /\ (undefined' = undefined \/ undefined' = "doc")
    BY <1>4 DEF InCall, Pop, PopNull, Push, Write, batch_insert_coll,
                RunCommand, OpenCursor, ScanStops, SelectRow, SelectEnd, FindRow, FindEnd
  <2>2. QED
    BY <2>1 DEF mainVars
<1>5. ASSUME NEW t \in Thread, NEW o \in Ops,
             StartThread(t) \/ Call(t, o) \/ RefuseEmpty(t, o)
      PROVE  DestroyedByCleanup' /\ ReinitIsSafe'
  BY <1>5 DEF StartThread, Call, RefuseEmpty, mainVars
<1>6. CASE UNCHANGED vars
  BY <1>6 DEF vars, mainVars
<1>7. "find" \in Ops
  BY DEF Ops
<1>8. QED
  BY <1>1, <1>2, <1>3, <1>4, <1>5, <1>6, <1>7 DEF Next

\* What a step says of the clients: who holds which, which are out, and which
\* have a cursor.
Owners == OneOwner /\ NoCursorLeft /\ NoCursorOfOthers

\* Every step keeps each client with its owner and each cursor off the idle
\* clients.
LEMMA OwnersStep == MongoInv /\ [Next]_vars => Owners'
<1> SUFFICES ASSUME MongoInv, [Next]_vars PROVE Owners'
  OBVIOUS
<1> USE MongoAssumption
    DEF MongoInv, TypeOK, Started, PC, Holding, Owners, OneOwner, NoCursorLeft,
        NoCursorOfOthers, mainVars, callVars, poolVars
<1>0. \A t \in Thread : pc[t] # "off" => ptr[t] \in 1..MaxPools
  OBVIOUS
<1>1. CASE mongodb_init
  BY <1>1 DEF mongodb_init
<1>2. CASE mongodb_cleanup
  BY <1>2 DEF mongodb_cleanup
<1>3. ASSUME NEW t \in Thread, StartThread(t) PROVE Owners'
  BY <1>3 DEF StartThread
<1>4. ASSUME NEW t \in Thread, NEW o \in Ops, Call(t, o) PROVE Owners'
  BY <1>4 DEF Call
<1>5. ASSUME NEW t \in Thread, NEW o \in Ops, RefuseEmpty(t, o) PROVE Owners'
  BY <1>5 DEF RefuseEmpty
<1>6. ASSUME NEW t \in Thread, UseDestroyed(t) PROVE Owners'
  BY <1>6 DEF UseDestroyed
<1>7. ASSUME NEW t \in Thread, Pop(t) PROVE Owners'
  BY <1>0, <1>7 DEF Pop
<1>8. ASSUME NEW t \in Thread, PopNull(t) PROVE Owners'
  BY <1>8 DEF PopNull
<1>9. ASSUME NEW t \in Thread, Push(t) PROVE Owners'
  BY <1>0, <1>9 DEF Push
<1>10. ASSUME NEW t \in Thread, Write(t) \/ batch_insert_coll(t) PROVE Owners'
  <2>1. /\ pc[t] = "use" /\ pc' = [pc EXCEPT ![t] = "push"]
        /\ UNCHANGED <<ptr, client, taken, cursors>>
    BY <1>10 DEF Write, batch_insert_coll, RunCommand
  <2>2. QED
    BY <2>1
<1>11. ASSUME NEW t \in Thread, OpenCursor(t) PROVE Owners'
  BY <1>0, <1>11 DEF OpenCursor
<1>12. ASSUME NEW t \in Thread, ScanStops(t) PROVE Owners'
  BY <1>12 DEF ScanStops
<1>13. ASSUME NEW t \in Thread, SelectRow(t) PROVE Owners'
  BY <1>13 DEF SelectRow
<1>14. ASSUME NEW t \in Thread, SelectEnd(t) PROVE Owners'
  <2>1. CASE CursorDestroyed(t)
    BY <1>0, <1>14, <2>1 DEF SelectEnd, CursorDestroyed
  <2>2. CASE UNCHANGED <<pc, cursors>>
    BY <1>14, <2>2 DEF SelectEnd
  <2>3. QED
    BY <1>14, <2>1, <2>2 DEF SelectEnd
<1>15. ASSUME NEW t \in Thread, FindRow(t) PROVE Owners'
  BY <1>15 DEF FindRow
<1>16. ASSUME NEW t \in Thread, FindEnd(t) PROVE Owners'
  BY <1>0, <1>16 DEF FindEnd, CursorDestroyed
<1>17. CASE UNCHANGED vars
  BY <1>17 DEF vars
<1>18. QED
  BY <1>1, <1>2, <1>3, <1>4, <1>5, <1>6, <1>7, <1>8, <1>9, <1>10, <1>11, <1>12,
     <1>13, <1>14, <1>15, <1>16, <1>17 DEF Next, InCall

\* The inductive invariant holds in every state.
LEMMA MongoInvariant == Spec => []MongoInv
<1>1. Init => MongoInv
  BY MongoInit
<1>2. MongoInv /\ [Next]_vars => MongoInv'
  BY TypeStep, StartedStep, CleanupStep, OwnersStep DEF MongoInv, Owners
<1>3. QED
  BY <1>1, <1>2, PTL DEF Spec

\* The variables keep their types: in particular a call holds a client exactly
\* from its pop to its push, whatever path it takes through dbio_mongodb.cpp.
THEOREM TypeCorrect == Spec => []TypeOK
BY MongoInvariant, PTL DEF MongoInv

\* For any number of threads and clients, no client is ever in the hands of two
\* calls of DBIOMongoDB, or in a call and in the pool.
THEOREM ClientsHaveOneOwner == Spec => []OneOwner
BY MongoInvariant, PTL DEF MongoInv

\* A select or find never leaves a cursor open on a client that it has given
\* back to the pool.
THEOREM CursorsAreClosed == Spec => []NoCursorLeft
BY MongoInvariant, PTL DEF MongoInv

\* Calling mongodb_init again never makes a thread touch a destroyed pool.
THEOREM ReinitDisturbsNobody == Spec => []ReinitIsSafe
BY MongoInvariant, PTL DEF MongoInv

\* What it means to be lost, without the image set.
LEMMA LostMember ==
  ASSUME NEW p, NEW x
  PROVE  x \in Lost(p) <=>
           x \in taken[p] /\ \A u \in Thread : ptr[u] = p => client[u] # x
BY DEF Lost

\* The step of find_coll that returns true.
FindReturns(t) == op[t] = "find" /\ pc[t] = "scan" /\ pc'[t] = "idle" /\ result'[t]

\* A step keeps, for each pool, the clients that are not lost from being lost:
\* each is still in the pool or with its call.
LEMMA LosesStep ==
  ASSUME MongoInv, [Next]_vars, NEW p \in 1..MaxPools, NEW x \in Lost(p)',
         \A t \in Thread : ~FindReturns(t)
  PROVE  x \in Lost(p)
<1> USE MongoAssumption DEF MongoInv, TypeOK, Started, PC, Holding, mainVars, callVars, poolVars
<1>0. /\ x \in taken'[p]
      /\ \A u \in Thread : ptr'[u] = p => client'[u] # x
  BY DEF Lost
<1>1. \A t \in Thread : pc[t] # "off" => ptr[t] \in 1..MaxPools
  OBVIOUS
<1>2. SUFFICES x \in taken[p] /\ \A u \in Thread : ptr[u] = p => client[u] # x
  BY LostMember
<1>3. CASE mongodb_init \/ mongodb_cleanup
  BY <1>0, <1>3 DEF mongodb_init, mongodb_cleanup
<1>4. ASSUME NEW t \in Thread, StartThread(t)
      PROVE  x \in taken[p] /\ \A u \in Thread : ptr[u] = p => client[u] # x
  BY <1>0, <1>4 DEF StartThread
<1>5. ASSUME NEW t \in Thread, NEW o \in Ops, Call(t, o) \/ RefuseEmpty(t, o)
      PROVE  x \in taken[p] /\ \A u \in Thread : ptr[u] = p => client[u] # x
  BY <1>0, <1>5 DEF Call, RefuseEmpty
<1>6. ASSUME NEW t \in Thread, Pop(t)
      PROVE  x \in taken[p] /\ \A u \in Thread : ptr[u] = p => client[u] # x
  <2>1. PICK c \in Client : /\ taken' = [taken EXCEPT ![ptr[t]] = @ \cup {c}]
                            /\ client' = [client EXCEPT ![t] = c]
    BY <1>6 DEF Pop
  <2>2. ptr' = ptr /\ ptr[t] \in 1..MaxPools /\ client[t] \notin Client
    BY <1>1, <1>6 DEF Pop
  <2>3. x \in taken[p]
    BY <1>0, <2>1, <2>2
  <2>4. x \in Client
    BY <2>3
  <2>5. ASSUME NEW u \in Thread, ptr[u] = p PROVE client[u] # x
    <3>1. CASE u = t
      BY <2>2, <2>4, <3>1
    <3>2. CASE u # t
      BY <1>0, <2>1, <2>2, <2>5, <3>2
    <3>3. QED
      BY <3>1, <3>2
  <2>6. QED
    BY <2>3, <2>5
<1>7. ASSUME NEW t \in Thread, Push(t)
      PROVE  x \in taken[p] /\ \A u \in Thread : ptr[u] = p => client[u] # x
  BY <1>0, <1>1, <1>7 DEF Push
<1>8. ASSUME NEW t \in Thread, FindRow(t)
      PROVE  FALSE
  BY <1>8 DEF FindRow, FindReturns
<1>9. ASSUME NEW t \in Thread,
             \/ UseDestroyed(t) \/ PopNull(t) \/ Write(t) \/ batch_insert_coll(t)
             \/ OpenCursor(t) \/ ScanStops(t) \/ SelectRow(t) \/ SelectEnd(t) \/ FindEnd(t)
      PROVE  x \in taken[p] /\ \A u \in Thread : ptr[u] = p => client[u] # x
  <2>1. UNCHANGED <<taken, client, ptr>>
    BY <1>9 DEF UseDestroyed, PopNull, Write, batch_insert_coll, RunCommand, OpenCursor,
                ScanStops, SelectRow, SelectEnd, FindEnd
  <2>2. QED
    BY <1>0, <2>1
<1>10. CASE UNCHANGED vars
  BY <1>0, <1>10 DEF vars
<1>11. QED
  BY <1>3, <1>4, <1>5, <1>6, <1>7, <1>8, <1>9, <1>10 DEF Next, InCall

\* For any threads, clients and bounds: only a find_coll that returns true
\* loses a client of the pool.
THEOREM OnlyFindLosesClients == Spec => OnlyFindLoses
<1>1. ASSUME MongoInv, [Next]_vars
      PROVE  [\A p \in 1..MaxPools : Lost(p)' \subseteq Lost(p)
                \/ \E t \in Thread : op[t] = "find" /\ pc[t] = "scan" /\ pc'[t] = "idle" /\ result'[t]]_vars
  BY <1>1, LosesStep DEF FindReturns
<1>2. QED
  BY <1>1, MongoInvariant, PTL DEF Spec, OnlyFindLoses
-----------------------------------------------------------------------------
\* Induction on the numbers from 0 to N.
LEMMA SetInduction ==
  ASSUME NEW N \in Nat, NEW T, 0 \in T, \A n \in 0..(N - 1) : n \in T => n + 1 \in T
  PROVE  \A n \in 0..N : n \in T
<1> DEFINE U == {n \in Nat : n <= N /\ n \notin T}
           R == OpToRel(<, Nat)
<1>1. SUFFICES ASSUME U # {} PROVE FALSE
  OBVIOUS
<1>2. U \subseteq Nat
  OBVIOUS
<1>3. \E x \in U : \A y \in U : ~(<<y, x>> \in R)
  <2> HIDE DEF U, R
  <2>1. IsWellFoundedOn(R, Nat)
    BY NatLessThanWellFounded DEF R
  <2> QED
    BY <1>1, <1>2, <2>1, WFMin
<1>4. PICK x \in U : \A y \in U : ~(y < x)
  BY <1>3 DEF OpToRel
<1>5. x # 0 /\ x \in Nat
  OBVIOUS
<1>6. x - 1 \in T
  BY <1>4, <1>5
<1> QED
  BY <1>4, <1>5, <1>6

\* A set of numbers that is not empty has a least element.
LEMMA MinIn ==
  ASSUME NEW S \in SUBSET Nat, S # {}
  PROVE  Min(S) \in S
<1> DEFINE R == OpToRel(<, Nat)
<1>1. \E x \in S : \A y \in S : ~(<<y, x>> \in R)
  <2> HIDE DEF R
  <2>1. IsWellFoundedOn(R, Nat)
    BY NatLessThanWellFounded DEF R
  <2> QED
    BY <2>1, WFMin
<1>2. PICK x \in S : \A y \in S : ~(y < x)
  BY <1>1 DEF OpToRel
<1>3. \A y \in S : x =< y
  BY <1>2
<1> QED
  BY <1>3 DEF Min

\* The loop of Kept: at index k, with r kept so far.
KeptNext(s, keep, k, r) == IF k \in keep THEN Append(r, s[k]) ELSE r

KeptFn(s, keep) ==
  CHOOSE f : f = [k \in 0..Len(s) |->
          IF k = 0 THEN << >> ELSE KeptNext(s, keep, k, f[k - 1])]

\* Kept is what its loop computes, turn by turn.
LEMMA KeptStep ==
  ASSUME NEW S, NEW s \in Seq(S), NEW keep
  PROVE  /\ Kept(s, keep) = KeptFn(s, keep)[Len(s)]
         /\ KeptFn(s, keep)[0] = << >>
         /\ \A k \in 1..Len(s) :
              KeptFn(s, keep)[k] = KeptNext(s, keep, k, KeptFn(s, keep)[k - 1])
<1> DEFINE T == {n \in Nat : \E f : f = [k \in 0..n |->
                   IF k = 0 THEN << >> ELSE KeptNext(s, keep, k, f[k - 1])]}
<1>1. 0 \in T
  <2>1. PICK f : f = [k \in 0..0 |-> << >>]
    OBVIOUS
  <2>2. f = [k \in 0..0 |-> IF k = 0 THEN << >> ELSE KeptNext(s, keep, k, f[k - 1])]
    BY <2>1
  <2> QED
    BY <2>2
<1>2. ASSUME NEW n \in Nat, n \in T PROVE n + 1 \in T
  <2>1. PICK f : f = [k \in 0..n |->
          IF k = 0 THEN << >> ELSE KeptNext(s, keep, k, f[k - 1])]
    BY <1>2
  <2>2. PICK g : g = [k \in 0..(n + 1) |->
                        IF k <= n THEN f[k] ELSE KeptNext(s, keep, k, f[n])]
    OBVIOUS
  <2>3. g = [k \in 0..(n + 1) |-> IF k = 0 THEN << >> ELSE KeptNext(s, keep, k, g[k - 1])]
    BY <2>1, <2>2
  <2>4. n + 1 \in Nat
    OBVIOUS
  <2> QED
    BY <2>3, <2>4
<1>3. Len(s) \in T
  <2> HIDE DEF T
  <2>1. \A n \in 0..(Len(s) - 1) : n \in T => n + 1 \in T
    BY <1>2
  <2>2. Len(s) \in Nat
    OBVIOUS
  <2>3. \A n \in 0..Len(s) : n \in T
    BY ONLY <1>1, <2>1, <2>2, SetInduction
  <2> QED
    BY <2>2, <2>3
<1>4. \E f : f = [k \in 0..Len(s) |->
        IF k = 0 THEN << >> ELSE KeptNext(s, keep, k, f[k - 1])]
  BY <1>3
<1>5. PICK f : f = KeptFn(s, keep)
  OBVIOUS
<1>6. f = [k \in 0..Len(s) |-> IF k = 0 THEN << >> ELSE KeptNext(s, keep, k, f[k - 1])]
  BY <1>4, <1>5 DEF KeptFn
<1>7. f[0] = << >> /\ \A k \in 1..Len(s) : f[k] = KeptNext(s, keep, k, f[k - 1])
  <2>1. Len(s) \in Nat
    OBVIOUS
  <2> QED
    BY <1>6, <2>1
<1>8. Kept(s, keep) = KeptFn(s, keep)[Len(s)]
  BY DEF Kept, KeptFn, KeptNext
<1> QED
  BY <1>5, <1>7, <1>8

\* Kept takes its elements from the indices in keep.
LEMMA KeptType ==
  ASSUME NEW S, NEW s \in Seq(S), NEW keep
  PROVE  Kept(s, keep) \in Seq({s[k] : k \in keep \cap DOMAIN s})
<1> DEFINE R == {s[k] : k \in keep \cap DOMAIN s}
<1>1. PICK f : f = KeptFn(s, keep)
  OBVIOUS
<1> DEFINE T == {n \in Nat : f[n] \in Seq(R)}
<1>2. << >> \in Seq(R)
  OBVIOUS
<1>3. 0 \in T
  <2>1. f[0] = << >>
    BY <1>1, KeptStep
  <2> QED
    BY <1>2, <2>1
<1>4. ASSUME NEW n \in 0..(Len(s) - 1), n \in T PROVE n + 1 \in T
  <2>1. f[n + 1] = IF n + 1 \in keep THEN Append(f[n], s[n + 1]) ELSE f[n]
    <3>1. n + 1 \in 1..Len(s) /\ n + 1 - 1 = n
      OBVIOUS
    <3> QED
      BY <1>1, <3>1, KeptStep DEF KeptNext
  <2>2. f[n] \in Seq(R)
    BY <1>4
  <2>3. CASE n + 1 \in keep
    <3>1. s[n + 1] \in R
      BY <2>3
    <3>2. Append(f[n], s[n + 1]) \in Seq(R)
      BY <2>2, <3>1, AppendProperties
    <3>3. f[n + 1] \in Seq(R)
      BY <2>1, <2>3, <3>2
    <3> QED
      BY <3>3
  <2>4. CASE n + 1 \notin keep
    BY <2>1, <2>2, <2>4
  <2> QED
    BY <2>3, <2>4
<1>5. Len(s) \in T
  <2> HIDE DEF T
  <2>1. \A n \in 0..(Len(s) - 1) : n \in T => n + 1 \in T
    BY <1>4
  <2>2. Len(s) \in Nat
    OBVIOUS
  <2>3. \A n \in 0..Len(s) : n \in T
    BY ONLY <1>3, <2>1, <2>2, SetInduction
  <2> QED
    BY <2>2, <2>3
<1> QED
  BY <1>1, <1>5, KeptStep

\* Every index in keep has its element in Kept.
LEMMA KeptAll ==
  ASSUME NEW S, NEW s \in Seq(S), NEW keep, NEW j \in keep \cap DOMAIN s
  PROVE  \E i \in 1..Len(Kept(s, keep)) : Kept(s, keep)[i] = s[j]
<1>1. PICK f : f = KeptFn(s, keep)
  OBVIOUS
<1> DEFINE T == {n \in Nat : f[n] \in Seq(S) /\ (j <= n => \E i \in 1..Len(f[n]) : f[n][i] = s[j])}
<1>2. << >> \in Seq(S)
  OBVIOUS
<1>3. 0 \in T
  <2>1. f[0] = << >>
    BY <1>1, KeptStep
  <2>2. ~(j <= 0)
    OBVIOUS
  <2> QED
    BY <1>2, <2>1, <2>2
<1>4. ASSUME NEW n \in 0..(Len(s) - 1), n \in T PROVE n + 1 \in T
  <2>1. f[n + 1] = IF n + 1 \in keep THEN Append(f[n], s[n + 1]) ELSE f[n]
    <3>1. n + 1 \in 1..Len(s) /\ n + 1 - 1 = n
      OBVIOUS
    <3> QED
      BY <1>1, <3>1, KeptStep DEF KeptNext
  <2>2. f[n] \in Seq(S) /\ (j <= n => \E i \in 1..Len(f[n]) : f[n][i] = s[j])
    BY <1>4
  <2>3. CASE n + 1 \in keep
    <3>1. s[n + 1] \in S
      OBVIOUS
    <3>2. /\ f[n + 1] \in Seq(S)
          /\ Len(f[n + 1]) = Len(f[n]) + 1
          /\ \A i \in 1..Len(f[n]) : f[n + 1][i] = f[n][i]
          /\ f[n + 1][Len(f[n]) + 1] = s[n + 1]
      BY <2>1, <2>2, <2>3, <3>1, AppendProperties
    <3>3. j <= n + 1 => \E i \in 1..Len(f[n + 1]) : f[n + 1][i] = s[j]
      <4>1. CASE j = n + 1
        BY <2>2, <3>2, <4>1
      <4>2. CASE j <= n
        <5>1. PICK i \in 1..Len(f[n]) : f[n][i] = s[j]
          BY <2>2, <4>2
        <5>2. Len(f[n]) \in Nat
          BY <2>2, LenProperties
        <5>3. i \in 1..Len(f[n + 1]) /\ f[n + 1][i] = s[j]
          BY <3>2, <5>1, <5>2
        <5> QED
          BY <5>3
      <4> QED
        BY <4>1, <4>2
    <3>4. f[n + 1] \in Seq(S)
      BY <3>2
    <3> QED
      BY <3>3, <3>4
  <2>4. CASE n + 1 \notin keep
    BY <2>1, <2>2, <2>4
  <2> QED
    BY <2>3, <2>4
<1>5. Len(s) \in T
  <2> HIDE DEF T
  <2>1. \A n \in 0..(Len(s) - 1) : n \in T => n + 1 \in T
    BY <1>4
  <2>2. Len(s) \in Nat
    OBVIOUS
  <2>3. \A n \in 0..Len(s) : n \in T
    BY ONLY <1>3, <2>1, <2>2, SetInduction
  <2> QED
    BY <2>2, <2>3
<1>6. j <= Len(s)
  OBVIOUS
<1> QED
  BY <1>1, <1>5, <1>6, KeptStep

\* When keep has one index of s, Kept is its element.
LEMMA KeptOne ==
  ASSUME NEW S, NEW s \in Seq(S), NEW keep, NEW j, keep \cap DOMAIN s = {j}
  PROVE  Kept(s, keep) = <<s[j]>>
<1>1. PICK f : f = KeptFn(s, keep)
  OBVIOUS
<1> DEFINE T == {n \in Nat : f[n] = IF j <= n THEN <<s[j]>> ELSE << >>}
<1>2. j \in 1..Len(s) /\ j \in keep
  BY LenProperties
<1>3. 0 \in T
  <2>1. f[0] = << >>
    BY <1>1, KeptStep
  <2> QED
    BY <1>2, <2>1
<1>4. ASSUME NEW n \in 0..(Len(s) - 1), n \in T PROVE n + 1 \in T
  <2>1. f[n + 1] = IF n + 1 \in keep THEN Append(f[n], s[n + 1]) ELSE f[n]
    <3>1. n + 1 \in 1..Len(s) /\ n + 1 - 1 = n
      OBVIOUS
    <3> QED
      BY <1>1, <3>1, KeptStep DEF KeptNext
  <2>2. f[n] = IF j <= n THEN <<s[j]>> ELSE << >>
    BY <1>4
  <2>3. n + 1 \in keep <=> n + 1 = j
    BY <1>2, LenProperties
  <2>4. CASE n + 1 = j
    <3>1. f[n] = << >>
      BY <2>2, <2>4
    <3>2. f[n + 1] = Append(<< >>, s[j])
      BY <2>1, <2>3, <2>4, <3>1
    <3>3. f[n + 1] = <<s[j]>>
      BY <3>2
    <3> QED
      BY <2>4, <3>3
  <2>5. CASE n + 1 # j
    BY <1>2, <2>1, <2>2, <2>3, <2>5
  <2> QED
    BY <2>4, <2>5
<1>5. Len(s) \in T
  <2> HIDE DEF T
  <2>1. \A n \in 0..(Len(s) - 1) : n \in T => n + 1 \in T
    BY <1>4
  <2>2. Len(s) \in Nat
    OBVIOUS
  <2>3. \A n \in 0..Len(s) : n \in T
    BY ONLY <1>3, <2>1, <2>2, SetInduction
  <2> QED
    BY <2>2, <2>3
<1>6. f[Len(s)] = <<s[j]>>
  BY <1>2, <1>5
<1>7. Kept(s, keep) = f[Len(s)]
  BY <1>1, KeptStep
<1> QED
  BY <1>6, <1>7

\* The rows SelectNoticeColl can return: the fields are those of notices, and so
\* are the values.
NoticeKey == UNION {DOMAIN n : n \in Notice}
NoticeValue == UNION {{n[k] : k \in DOMAIN n} : n \in Notice}
Row == UNION {[D -> NoticeValue] : D \in SUBSET NoticeKey}

\* The fields of the first n of items.
KeysUpTo(items, n) == UNION {DOMAIN items[j] : j \in 1..n}

\* What RowsHoldNotices says of a row and its source e.
RowOK(row, e) ==
  /\ Has(row, e.items[e.at])
  /\ DOMAIN row \subseteq KeysUpTo(e.items, e.at)

Source(A) == [items : A, at : Nat]

\* It holds of all rows, with their sources in arrays whose items are in A.
Holds(got, src, A) ==
  /\ got \in Seq(Row)
  /\ src \in Seq(Source(A))
  /\ Len(got) = Len(src)
  /\ \A i \in 1..Len(got) : src[i].at \in 1..Len(src[i].items) /\ RowOK(got[i], src[i])

\* The state of GetVecRecord's loops.
IsAcc(acc) ==
  /\ acc = [tmp_data |-> acc.tmp_data, msg_data |-> acc.msg_data]
  /\ acc.msg_data \in Seq(Row)

\* tmp_data once n of items are read.
TmpOK(tmp_data, items, n) ==
  /\ DOMAIN tmp_data \subseteq KeysUpTo(items, n)
  /\ \A k \in DOMAIN tmp_data : tmp_data[k] \in NoticeValue

\* One more element: the row pushed has its fields.
LEMMA ElementRow ==
  ASSUME NEW items \in Seq(Notice), NEW n \in 1..Len(items), NEW acc,
         IsAcc(acc), TmpOK(acc.tmp_data, items, n - 1)
  PROVE  LET r == GetElement(acc, items[n])
         IN  /\ IsAcc(r)
             /\ TmpOK(r.tmp_data, items, n)
             /\ r.msg_data = Append(acc.msg_data, r.tmp_data)
             /\ r.tmp_data \in Row
             /\ RowOK(r.tmp_data, [items |-> items, at |-> n])
<1> DEFINE m == items[n]
<1>1. PICK t : t = [k \in DOMAIN m \cup DOMAIN acc.tmp_data |->
                      IF k \in DOMAIN m THEN m[k] ELSE acc.tmp_data[k]]
  OBVIOUS
<1>2. PICK r : r = GetElement(acc, m)
  OBVIOUS
<1>3. r = [tmp_data |-> t, msg_data |-> Append(acc.msg_data, t)]
  BY <1>1, <1>2 DEF GetElement
<1>4. m \in Notice
  BY ElementOfSeq
<1>5. DOMAIN t = DOMAIN m \cup DOMAIN acc.tmp_data
  BY <1>1
<1>6. DOMAIN t \subseteq KeysUpTo(items, n)
  <2>1. DOMAIN m \subseteq KeysUpTo(items, n)
    BY DEF KeysUpTo
  <2>2. KeysUpTo(items, n - 1) \subseteq KeysUpTo(items, n)
    BY DEF KeysUpTo
  <2> QED
    BY <1>5, <2>1, <2>2 DEF TmpOK
<1>7. \A k \in DOMAIN t : t[k] \in NoticeValue
  <2>1. \A k \in DOMAIN m : m[k] \in NoticeValue
    BY <1>4 DEF NoticeValue
  <2> QED
    BY <1>1, <2>1 DEF TmpOK
<1>8. KeysUpTo(items, n) \subseteq NoticeKey
  <2>1. \A j \in 1..n : items[j] \in Notice
    BY ElementOfSeq
  <2> QED
    BY <2>1 DEF KeysUpTo, NoticeKey
<1>9. t \in Row
  <2>1. t \in [DOMAIN t -> NoticeValue]
    BY <1>1, <1>7
  <2>2. DOMAIN t \in SUBSET NoticeKey
    BY <1>6, <1>8
  <2> QED
    BY <2>1, <2>2 DEF Row
<1>10. Has(t, m)
  BY <1>1 DEF Has
<1>11. IsAcc(r)
  <2>1. Append(acc.msg_data, t) \in Seq(Row)
    BY <1>9, AppendProperties DEF IsAcc
  <2> QED
    BY <1>3, <2>1 DEF IsAcc
<1>12. r.tmp_data = t /\ r.msg_data = Append(acc.msg_data, t)
  BY <1>3
<1>13. RowOK(t, [items |-> items, at |-> n])
  BY <1>6, <1>10 DEF RowOK
<1>14. TmpOK(t, items, n)
  BY <1>6, <1>7 DEF TmpOK
<1>15. GetElement(acc, items[n]) = r
  BY <1>2
<1> HIDE DEF m
<1> QED
  BY <1>9, <1>11, <1>12, <1>13, <1>14, <1>15

\* tmp_data.clear().
Cleared(acc) == [acc EXCEPT !.tmp_data = << >>]

ArrayFn(acc, a) ==
  CHOOSE f : f = [k \in 0..Len(a.items) |->
          IF k = 0 THEN Cleared(acc) ELSE GetElement(f[k - 1], a.items[k])]

\* GetArray is what its loop over the items computes, turn by turn.
LEMMA ArrayStep ==
  ASSUME NEW acc, NEW a, Len(a.items) \in Nat
  PROVE  /\ GetArray(acc, a) = ArrayFn(acc, a)[Len(a.items)]
         /\ ArrayFn(acc, a)[0] = Cleared(acc)
         /\ \A k \in 1..Len(a.items) :
              ArrayFn(acc, a)[k] = GetElement(ArrayFn(acc, a)[k - 1], a.items[k])
<1> DEFINE T == {n \in Nat : \E f : f = [k \in 0..n |->
        IF k = 0 THEN Cleared(acc) ELSE GetElement(f[k - 1], a.items[k])]}
<1>1. 0 \in T
  <2>1. PICK f : f = [k \in 0..0 |-> Cleared(acc)]
    OBVIOUS
  <2>2. f = [k \in 0..0 |->
          IF k = 0 THEN Cleared(acc) ELSE GetElement(f[k - 1], a.items[k])]
    BY <2>1
  <2> QED
    BY <2>2
<1>2. ASSUME NEW n \in Nat, n \in T PROVE n + 1 \in T
  <2>1. PICK f : f = [k \in 0..n |->
          IF k = 0 THEN Cleared(acc) ELSE GetElement(f[k - 1], a.items[k])]
    BY <1>2
  <2>2. PICK g : g = [k \in 0..(n + 1) |-> IF k <= n THEN f[k] ELSE GetElement(f[n], a.items[k])]
    OBVIOUS
  <2>3. g = [k \in 0..(n + 1) |->
          IF k = 0 THEN Cleared(acc) ELSE GetElement(g[k - 1], a.items[k])]
    BY <2>1, <2>2
  <2>4. n + 1 \in Nat
    OBVIOUS
  <2> QED
    BY <2>3, <2>4
<1>3. Len(a.items) \in Nat
  OBVIOUS
<1>4. Len(a.items) \in T
  <2> HIDE DEF T
  <2>1. \A n \in 0..(Len(a.items) - 1) : n \in T => n + 1 \in T
    BY <1>2, <1>3
  <2>2. \A n \in 0..Len(a.items) : n \in T
    BY ONLY <1>1, <1>3, <2>1, SetInduction
  <2> QED
    BY <1>3, <2>2
<1>5. \E f : f = [k \in 0..Len(a.items) |->
        IF k = 0 THEN Cleared(acc) ELSE GetElement(f[k - 1], a.items[k])]
  BY <1>4
<1>6. PICK f : f = ArrayFn(acc, a)
  OBVIOUS
<1>7. f = [k \in 0..Len(a.items) |->
        IF k = 0 THEN Cleared(acc) ELSE GetElement(f[k - 1], a.items[k])]
  BY <1>5, <1>6 DEF ArrayFn
<1>8. f[0] = Cleared(acc) /\ \A k \in 1..Len(a.items) : f[k] = GetElement(f[k - 1], a.items[k])
  BY <1>3, <1>7
<1>9. GetArray(acc, a) = ArrayFn(acc, a)[Len(a.items)]
  BY DEF GetArray, ArrayFn, Cleared
<1> QED
  BY <1>6, <1>8, <1>9

\* GetVecRecord once it has read the string fields.
VecInit(d, msg_data) == [tmp_data |-> d.flat, msg_data |-> msg_data]

VecFn(d, msg_data) ==
  CHOOSE f : f = [k \in 0..Len(d.arrays) |->
          IF k = 0 THEN VecInit(d, msg_data) ELSE GetArray(f[k - 1], d.arrays[k])]

\* GetVecRecord is what its loop over the arrays computes, turn by turn.
LEMMA VecStep ==
  ASSUME NEW d, NEW msg_data, Len(d.arrays) \in Nat
  PROVE  /\ GetVecRecord(d, msg_data) = VecFn(d, msg_data)[Len(d.arrays)].msg_data
         /\ VecFn(d, msg_data)[0] = VecInit(d, msg_data)
         /\ \A k \in 1..Len(d.arrays) :
              VecFn(d, msg_data)[k] = GetArray(VecFn(d, msg_data)[k - 1], d.arrays[k])
<1> DEFINE T == {n \in Nat : \E f : f = [k \in 0..n |->
        IF k = 0 THEN VecInit(d, msg_data) ELSE GetArray(f[k - 1], d.arrays[k])]}
<1>1. 0 \in T
  <2>1. PICK f : f = [k \in 0..0 |-> VecInit(d, msg_data)]
    OBVIOUS
  <2>2. f = [k \in 0..0 |->
          IF k = 0 THEN VecInit(d, msg_data) ELSE GetArray(f[k - 1], d.arrays[k])]
    BY <2>1
  <2> QED
    BY <2>2
<1>2. ASSUME NEW n \in Nat, n \in T PROVE n + 1 \in T
  <2>1. PICK f : f = [k \in 0..n |->
          IF k = 0 THEN VecInit(d, msg_data) ELSE GetArray(f[k - 1], d.arrays[k])]
    BY <1>2
  <2>2. PICK g : g = [k \in 0..(n + 1) |-> IF k <= n THEN f[k] ELSE GetArray(f[n], d.arrays[k])]
    OBVIOUS
  <2>3. g = [k \in 0..(n + 1) |->
          IF k = 0 THEN VecInit(d, msg_data) ELSE GetArray(g[k - 1], d.arrays[k])]
    BY <2>1, <2>2
  <2>4. n + 1 \in Nat
    OBVIOUS
  <2> QED
    BY <2>3, <2>4
<1>3. Len(d.arrays) \in Nat
  OBVIOUS
<1>4. Len(d.arrays) \in T
  <2> HIDE DEF T
  <2>1. \A n \in 0..(Len(d.arrays) - 1) : n \in T => n + 1 \in T
    BY <1>2, <1>3
  <2>2. \A n \in 0..Len(d.arrays) : n \in T
    BY ONLY <1>1, <1>3, <2>1, SetInduction
  <2> QED
    BY <1>3, <2>2
<1>5. \E f : f = [k \in 0..Len(d.arrays) |->
        IF k = 0 THEN VecInit(d, msg_data) ELSE GetArray(f[k - 1], d.arrays[k])]
  BY <1>4
<1>6. PICK f : f = VecFn(d, msg_data)
  OBVIOUS
<1>7. f = [k \in 0..Len(d.arrays) |->
        IF k = 0 THEN VecInit(d, msg_data) ELSE GetArray(f[k - 1], d.arrays[k])]
  BY <1>5, <1>6 DEF VecFn
<1>8. f[0] = VecInit(d, msg_data) /\ \A k \in 1..Len(d.arrays) : f[k] = GetArray(f[k - 1], d.arrays[k])
  BY <1>3, <1>7
<1>9. GetVecRecord(d, msg_data) = VecFn(d, msg_data)[Len(d.arrays)].msg_data
  BY DEF GetVecRecord, VecFn, VecInit
<1> QED
  BY <1>6, <1>8, <1>9

\* The loop of SelectNoticeColl over the documents.
RowsFn(docs) ==
  CHOOSE f : f = [k \in 0..Len(docs) |->
          IF k = 0 THEN << >> ELSE GetVecRecord(docs[k], f[k - 1])]

\* Rows is what that loop computes, turn by turn.
LEMMA RowsStep ==
  ASSUME NEW docs, Len(docs) \in Nat
  PROVE  /\ Rows(docs) = RowsFn(docs)[Len(docs)]
         /\ RowsFn(docs)[0] = << >>
         /\ \A k \in 1..Len(docs) :
              RowsFn(docs)[k] = GetVecRecord(docs[k], RowsFn(docs)[k - 1])
<1> DEFINE T == {n \in Nat : \E f : f = [k \in 0..n |->
        IF k = 0 THEN << >> ELSE GetVecRecord(docs[k], f[k - 1])]}
<1>1. 0 \in T
  <2>1. PICK f : f = [k \in 0..0 |-> << >>]
    OBVIOUS
  <2>2. f = [k \in 0..0 |-> IF k = 0 THEN << >> ELSE GetVecRecord(docs[k], f[k - 1])]
    BY <2>1
  <2> QED
    BY <2>2
<1>2. ASSUME NEW n \in Nat, n \in T PROVE n + 1 \in T
  <2>1. PICK f : f = [k \in 0..n |->
          IF k = 0 THEN << >> ELSE GetVecRecord(docs[k], f[k - 1])]
    BY <1>2
  <2>2. PICK g : g = [k \in 0..(n + 1) |-> IF k <= n THEN f[k] ELSE GetVecRecord(docs[k], f[n])]
    OBVIOUS
  <2>3. g = [k \in 0..(n + 1) |->
          IF k = 0 THEN << >> ELSE GetVecRecord(docs[k], g[k - 1])]
    BY <2>1, <2>2
  <2>4. n + 1 \in Nat
    OBVIOUS
  <2> QED
    BY <2>3, <2>4
<1>3. Len(docs) \in Nat
  OBVIOUS
<1>4. Len(docs) \in T
  <2> HIDE DEF T
  <2>1. \A n \in 0..(Len(docs) - 1) : n \in T => n + 1 \in T
    BY <1>2, <1>3
  <2>2. \A n \in 0..Len(docs) : n \in T
    BY ONLY <1>1, <1>3, <2>1, SetInduction
  <2> QED
    BY <1>3, <2>2
<1>5. \E f : f = [k \in 0..Len(docs) |->
        IF k = 0 THEN << >> ELSE GetVecRecord(docs[k], f[k - 1])]
  BY <1>4
<1>6. PICK f : f = RowsFn(docs)
  OBVIOUS
<1>7. f = [k \in 0..Len(docs) |->
        IF k = 0 THEN << >> ELSE GetVecRecord(docs[k], f[k - 1])]
  BY <1>5, <1>6 DEF RowsFn
<1>8. f[0] = << >> /\ \A k \in 1..Len(docs) : f[k] = GetVecRecord(docs[k], f[k - 1])
  BY <1>3, <1>7
<1>9. Rows(docs) = RowsFn(docs)[Len(docs)]
  BY DEF Rows, RowsFn
<1> QED
  BY <1>6, <1>8, <1>9

\* The elements of a concatenation.
LEMMA Joined ==
  ASSUME NEW S, NEW a \in Seq(S), NEW b \in Seq(S)
  PROVE  /\ a \o b \in Seq(S)
         /\ Len(a \o b) = Len(a) + Len(b)
         /\ \A i \in 1..Len(a) : (a \o b)[i] = a[i]
         /\ \A i \in 1..Len(b) : (a \o b)[Len(a) + i] = b[i]
OBVIOUS

\* The sources of the rows of an array.
ArraySources(items) == [k \in DOMAIN items |-> [items |-> items, at |-> k]]

\* GetArray once it has read n of the items: a row for each of them follows the
\* rows there were.
ArrayRead(r, acc, items, n) ==
  /\ IsAcc(r)
  /\ TmpOK(r.tmp_data, items, n)
  /\ Len(r.msg_data) = Len(acc.msg_data) + n
  /\ \A i \in 1..Len(acc.msg_data) : r.msg_data[i] = acc.msg_data[i]
  /\ \A i \in 1..n : RowOK(r.msg_data[Len(acc.msg_data) + i], [items |-> items, at |-> i])

\* One more element keeps ArrayRead.
LEMMA ArrayReadStep ==
  ASSUME NEW items \in Seq(Notice), NEW n \in 0..(Len(items) - 1), NEW acc, IsAcc(acc),
         NEW r, ArrayRead(r, acc, items, n)
  PROVE  ArrayRead(GetElement(r, items[n + 1]), acc, items, n + 1)
<1>1. PICK q : q = GetElement(r, items[n + 1])
  OBVIOUS
<1>2. /\ IsAcc(q)
      /\ TmpOK(q.tmp_data, items, n + 1)
      /\ q.msg_data = Append(r.msg_data, q.tmp_data)
      /\ q.tmp_data \in Row
      /\ RowOK(q.tmp_data, [items |-> items, at |-> n + 1])
  <2>1. n + 1 \in 1..Len(items) /\ n + 1 - 1 = n
    OBVIOUS
  <2>2. IsAcc(r) /\ TmpOK(r.tmp_data, items, n)
    BY DEF ArrayRead
  <2> QED
    BY <1>1, <2>1, <2>2, ElementRow
<1>3. PICK s : s = r.msg_data
  OBVIOUS
<1>4. PICK z : z = q.msg_data
  OBVIOUS
<1>5. PICK b : b = acc.msg_data
  OBVIOUS
<1>6. s \in Seq(Row) /\ b \in Seq(Row)
  BY <1>3, <1>5 DEF ArrayRead, IsAcc
<1>7. /\ Len(s) = Len(b) + n
      /\ \A i \in 1..Len(b) : s[i] = b[i]
      /\ \A i \in 1..n : RowOK(s[Len(b) + i], [items |-> items, at |-> i])
  BY <1>3, <1>5 DEF ArrayRead
<1>8. /\ Len(z) = Len(s) + 1
      /\ \A i \in 1..Len(s) : z[i] = s[i]
      /\ z[Len(s) + 1] = q.tmp_data
  BY <1>2, <1>3, <1>4, <1>6, AppendProperties
<1>9. Len(b) \in Nat /\ Len(s) \in Nat /\ n \in Nat
  BY <1>6, LenProperties
<1>10. Len(z) = Len(b) + (n + 1)
  BY <1>7, <1>8, <1>9
<1>11. \A i \in 1..Len(b) : z[i] = b[i]
  BY <1>7, <1>8, <1>9
<1>12. ASSUME NEW i \in 1..(n + 1) PROVE RowOK(z[Len(b) + i], [items |-> items, at |-> i])
  <2>1. CASE i = n + 1
    <3>1. z[Len(b) + i] = q.tmp_data
      BY <1>7, <1>8, <1>9, <2>1
    <3> QED
      BY <1>2, <2>1, <3>1
  <2>2. CASE i \in 1..n
    <3>1. z[Len(b) + i] = s[Len(b) + i]
      BY <1>7, <1>8, <1>9, <2>2
    <3> QED
      BY <1>7, <2>2, <3>1
  <2> QED
    BY <2>1, <2>2
<1>13. ArrayRead(q, acc, items, n + 1)
  BY <1>2, <1>4, <1>5, <1>10, <1>11, <1>12 DEF ArrayRead
<1> QED
  BY <1>1, <1>13

\* One array: its notices' rows follow the rows there were.
LEMMA ArrayAll ==
  ASSUME NEW acc, IsAcc(acc), NEW a, a.items \in Seq(Notice)
  PROVE  ArrayRead(GetArray(acc, a), acc, a.items, Len(a.items))
<1>1. PICK items : items = a.items
  OBVIOUS
<1>2. PICK f : f = ArrayFn(acc, a)
  OBVIOUS
<1>3. /\ GetArray(acc, a) = f[Len(items)]
      /\ f[0] = Cleared(acc)
      /\ \A k \in 1..Len(items) : f[k] = GetElement(f[k - 1], items[k])
  <2>1. /\ GetArray(acc, a) = ArrayFn(acc, a)[Len(a.items)]
        /\ ArrayFn(acc, a)[0] = Cleared(acc)
        /\ \A k \in 1..Len(a.items) :
             ArrayFn(acc, a)[k] = GetElement(ArrayFn(acc, a)[k - 1], a.items[k])
    <3>1. Len(a.items) \in Nat
      BY LenProperties
    <3> QED
      BY <3>1, ArrayStep
  <2> QED
    BY <1>1, <1>2, <2>1
<1> DEFINE T == {n \in Nat : ArrayRead(f[n], acc, items, n)}
<1>4. 0 \in T
  <2>1. f[0] = [tmp_data |-> << >>, msg_data |-> acc.msg_data]
    BY <1>3 DEF Cleared, IsAcc
  <2>2. IsAcc(f[0]) /\ f[0].msg_data = acc.msg_data /\ f[0].tmp_data = << >>
    BY <2>1 DEF IsAcc
  <2>3. TmpOK(f[0].tmp_data, items, 0)
    BY <2>2 DEF TmpOK
  <2>4. Len(acc.msg_data) \in Nat
    BY LenProperties DEF IsAcc
  <2> QED
    BY <2>2, <2>3, <2>4 DEF ArrayRead
<1>5. ASSUME NEW n \in 0..(Len(items) - 1), n \in T PROVE n + 1 \in T
  <2>1. n + 1 \in 1..Len(items) /\ n + 1 - 1 = n /\ n + 1 \in Nat
    BY <1>1, LenProperties
  <2>2. f[n + 1] = GetElement(f[n], items[n + 1])
    BY <1>3, <2>1
  <2> QED
    BY <1>1, <1>5, <2>1, <2>2, ArrayReadStep
<1>6. Len(items) \in Nat
  BY <1>1, LenProperties
<1>7. Len(items) \in T
  <2> HIDE DEF T
  <2>1. \A n \in 0..(Len(items) - 1) : n \in T => n + 1 \in T
    BY <1>5
  <2>2. \A n \in 0..Len(items) : n \in T
    BY ONLY <1>4, <1>6, <2>1, SetInduction
  <2> QED
    BY <1>6, <2>2
<1> QED
  BY <1>1, <1>3, <1>7

\* One array keeps Holds.
LEMMA ArrayRows ==
  ASSUME NEW A \in SUBSET Seq(Notice), NEW acc, NEW src, IsAcc(acc),
         Holds(acc.msg_data, src, A), NEW a, a.items \in A
  PROVE  /\ IsAcc(GetArray(acc, a))
         /\ Holds(GetArray(acc, a).msg_data, src \o ArraySources(a.items), A)
         /\ ArraySources(a.items) \in Seq(Source(A))
<1>1. PICK items : items = a.items
  OBVIOUS
<1>2. PICK r : r = GetArray(acc, a)
  OBVIOUS
<1>3. ArrayRead(r, acc, items, Len(items))
  BY <1>1, <1>2, ArrayAll
<1>4. PICK got : got = r.msg_data
  OBVIOUS
<1>5. PICK b : b = acc.msg_data
  OBVIOUS
<1>6. PICK new : new = ArraySources(items)
  OBVIOUS
<1>7. items \in Seq(Notice) /\ Len(items) \in Nat /\ DOMAIN items = 1..Len(items)
  BY <1>1, LenProperties
<1>8. new = [k \in 1..Len(items) |-> [items |-> items, at |-> k]]
  BY <1>6, <1>7 DEF ArraySources
<1>9. new \in Seq(Source(A)) /\ Len(new) = Len(items)
  <2>1. \A k \in 1..Len(items) : [items |-> items, at |-> k] \in Source(A)
    BY <1>1 DEF Source
  <2> QED
    BY <1>7, <1>8, <2>1
<1>10. src \in Seq(Source(A)) /\ Len(b) = Len(src)
  BY <1>5 DEF Holds
<1>11. PICK z : z = src \o new
  OBVIOUS
<1>12. /\ z \in Seq(Source(A))
       /\ Len(z) = Len(src) + Len(new)
       /\ \A i \in 1..Len(src) : z[i] = src[i]
       /\ \A i \in 1..Len(new) : z[Len(src) + i] = new[i]
  <2>1. PICK S : S = Source(A)
    OBVIOUS
  <2>2. src \in Seq(S) /\ new \in Seq(S)
    BY <1>9, <1>10, <2>1
  <2>3. /\ src \o new \in Seq(S)
        /\ Len(src \o new) = Len(src) + Len(new)
        /\ \A i \in 1..Len(src) : (src \o new)[i] = src[i]
        /\ \A i \in 1..Len(new) : (src \o new)[Len(src) + i] = new[i]
    BY ONLY <2>2, Joined
  <2> QED
    BY ONLY <1>11, <2>1, <2>3
<1>13. /\ got \in Seq(Row)
       /\ Len(got) = Len(b) + Len(items)
       /\ \A i \in 1..Len(b) : got[i] = b[i]
       /\ \A i \in 1..Len(items) : RowOK(got[Len(b) + i], [items |-> items, at |-> i])
  BY <1>3, <1>4, <1>5 DEF ArrayRead, IsAcc
<1>14. ASSUME NEW i \in 1..Len(got)
       PROVE  z[i].at \in 1..Len(z[i].items) /\ RowOK(got[i], z[i])
  <2>1. Len(b) \in Nat /\ Len(src) \in Nat
    BY <1>10, LenProperties
  <2>2. CASE i <= Len(b)
    <3>1. i \in 1..Len(b) /\ i \in 1..Len(src)
      BY <1>10, <2>1, <2>2
    <3>2. got[i] = b[i] /\ z[i] = src[i]
      BY <1>12, <1>13, <3>1
    <3>3. src[i].at \in 1..Len(src[i].items) /\ RowOK(b[i], src[i])
      BY <1>5, <3>1 DEF Holds
    <3> QED
      BY <3>2, <3>3
  <2>3. CASE i > Len(b)
    <3>1. i - Len(b) \in 1..Len(items) /\ Len(b) + (i - Len(b)) = i
      BY <1>7, <1>13, <2>1, <2>3
    <3>2. z[i] = [items |-> items, at |-> i - Len(b)]
      <4>1. PICK j : j = i - Len(b)
        OBVIOUS
      <4>2. j \in 1..Len(new) /\ Len(src) + j = i
        BY <1>9, <1>10, <3>1, <4>1
      <4>3. z[i] = new[j]
        BY <1>12, <4>2
      <4>4. new[j] = [items |-> items, at |-> j]
        BY <1>8, <3>1, <4>1
      <4> QED
        BY <4>1, <4>3, <4>4
    <3>3. RowOK(got[i], [items |-> items, at |-> i - Len(b)])
      BY <1>13, <3>1
    <3>4. z[i].at = i - Len(b) /\ z[i].items = items
      BY <3>2
    <3> QED
      BY <3>1, <3>2, <3>3, <3>4
  <2> QED
    BY <2>1, <2>2, <2>3
<1>15. Len(got) = Len(z)
  BY <1>9, <1>10, <1>12, <1>13
<1>16. Holds(got, z, A)
  BY <1>12, <1>13, <1>14, <1>15 DEF Holds
<1>17. IsAcc(r)
  BY <1>3 DEF ArrayRead
<1> QED
  BY <1>1, <1>2, <1>4, <1>6, <1>9, <1>11, <1>16, <1>17

\* The function FlattenSeq computes.
FlatFn(seqs) ==
  CHOOSE f : f = [i \in 1..Len(seqs) |-> IF i = 1 THEN seqs[i] ELSE f[i - 1] \o seqs[i]]

\* Two sequences joined: \o without its axioms.
Join(a, b) == a \o b

\* FlattenSeq is what its function computes, turn by turn.
LEMMA FlatStep ==
  ASSUME NEW seqs, Len(seqs) \in Nat, Len(seqs) # 0
  PROVE  /\ FlattenSeq(seqs) = FlatFn(seqs)[Len(seqs)]
         /\ FlatFn(seqs)[1] = seqs[1]
         /\ \A i \in 2..Len(seqs) : FlatFn(seqs)[i] = Join(FlatFn(seqs)[i - 1], seqs[i])
<1> DEFINE T == {n \in Nat : \E f : f = [i \in 1..n |->
                               IF i = 1 THEN seqs[i] ELSE Join(f[i - 1], seqs[i])]}
<1>1. 0 \in T
  <2>1. PICK f : f = [i \in 1..0 |-> seqs[i]]
    OBVIOUS
  <2>2. f = [i \in 1..0 |-> IF i = 1 THEN seqs[i] ELSE Join(f[i - 1], seqs[i])]
    BY <2>1
  <2> QED
    BY <2>2
<1>2. ASSUME NEW n \in Nat, n \in T PROVE n + 1 \in T
  <2>1. PICK f : f = [i \in 1..n |-> IF i = 1 THEN seqs[i] ELSE Join(f[i - 1], seqs[i])]
    BY <1>2
  <2>2. PICK g : g = [i \in 1..(n + 1) |->
                        IF i <= n THEN f[i] ELSE IF i = 1 THEN seqs[i] ELSE Join(f[n], seqs[i])]
    OBVIOUS
  <2>3. g = [i \in 1..(n + 1) |-> IF i = 1 THEN seqs[i] ELSE Join(g[i - 1], seqs[i])]
    BY <2>1, <2>2
  <2>4. n + 1 \in Nat
    OBVIOUS
  <2> QED
    BY <2>3, <2>4
<1>3. Len(seqs) \in T
  <2> HIDE DEF T
  <2>1. \A n \in 0..(Len(seqs) - 1) : n \in T => n + 1 \in T
    BY <1>2
  <2>2. \A n \in 0..Len(seqs) : n \in T
    BY <1>1, <2>1, SetInduction
  <2> QED
    BY <2>2
<1>4. \E f : f = [i \in 1..Len(seqs) |-> IF i = 1 THEN seqs[i] ELSE Join(f[i - 1], seqs[i])]
  BY <1>3
<1>5. PICK f : f = FlatFn(seqs)
  OBVIOUS
<1>6. f = [i \in 1..Len(seqs) |-> IF i = 1 THEN seqs[i] ELSE Join(f[i - 1], seqs[i])]
  <2>1. FlatFn(seqs) = CHOOSE g : g = [i \in 1..Len(seqs) |->
                                         IF i = 1 THEN seqs[i] ELSE Join(g[i - 1], seqs[i])]
    BY DEF FlatFn, Join
  <2> QED
    BY <1>4, <1>5, <2>1
<1>7. /\ f[1] = seqs[1]
      /\ \A i \in 2..Len(seqs) : f[i] = Join(f[i - 1], seqs[i])
  BY <1>6
<1>8. FlattenSeq(seqs) = FlatFn(seqs)[Len(seqs)]
  BY DEF FlattenSeq, FlatFn
<1> QED
  BY <1>5, <1>7, <1>8

\* The same, from the empty sequence on: what a loop that appends the elements
\* of seqs one after the other has after each turn.
LEMMA FlatLoop ==
  ASSUME NEW S, NEW seqs \in Seq(Seq(S))
  PROVE  \E g : /\ g[0] = << >>
                /\ \A k \in 1..Len(seqs) : g[k] = Join(g[k - 1], seqs[k])
                /\ FlattenSeq(seqs) = g[Len(seqs)]
                /\ \A k \in 0..Len(seqs) : g[k] \in Seq(S)
<1>1. Len(seqs) \in Nat
  BY LenProperties
<1> DEFINE Loop(g) == /\ g[0] = << >>
                      /\ \A k \in 1..Len(seqs) : g[k] = Join(g[k - 1], seqs[k])
                      /\ FlattenSeq(seqs) = g[Len(seqs)]
<1>2. ASSUME Len(seqs) = 0 PROVE \E g : Loop(g)
  <2>1. seqs = << >>
    BY <1>2
  <2>2. FlattenSeq(seqs) = << >>
    BY <1>2, <2>1 DEF FlattenSeq
  <2>3. PICK g : g = [k \in 0..0 |-> << >>]
    OBVIOUS
  <2>4. g[0] = << >>
    BY <2>3
  <2> QED
    BY <1>2, <2>2, <2>4
<1>3. ASSUME Len(seqs) # 0 PROVE \E g : Loop(g)
  <2>1. PICK f : f = FlatFn(seqs)
    OBVIOUS
  <2>2. /\ FlattenSeq(seqs) = f[Len(seqs)]
        /\ f[1] = seqs[1]
        /\ \A i \in 2..Len(seqs) : f[i] = Join(f[i - 1], seqs[i])
    BY <1>1, <1>3, <2>1, FlatStep
  <2>3. PICK g : g = [k \in 0..Len(seqs) |-> IF k = 0 THEN << >> ELSE f[k]]
    OBVIOUS
  <2>4. seqs[1] = Join(<< >>, seqs[1])
    <3>1. seqs[1] \in Seq(S)
      BY <1>1, <1>3, ElementOfSeq
    <3> QED
      BY <3>1, ConcatEmptySeq DEF Join
  <2>5. g[0] = << >> /\ g[Len(seqs)] = f[Len(seqs)]
    BY <1>1, <1>3, <2>3
  <2>6. ASSUME NEW k \in 1..Len(seqs) PROVE g[k] = Join(g[k - 1], seqs[k])
    <3>1. CASE k = 1
      <4>1. g[1] = f[1] /\ g[0] = << >> /\ k - 1 = 0
        BY <1>1, <1>3, <2>3, <3>1
      <4> QED
        BY <2>2, <2>4, <3>1, <4>1
    <3>2. CASE k # 1
      <4>1. k \in 2..Len(seqs) /\ k - 1 \in 1..Len(seqs)
        BY <1>1, <3>2
      <4>2. g[k] = f[k] /\ g[k - 1] = f[k - 1]
        BY <1>1, <2>3, <4>1
      <4> QED
        BY <2>2, <4>1, <4>2
    <3> QED
      BY <3>1, <3>2
  <2> QED
    BY <2>2, <2>5, <2>6
<1>4. PICK g : /\ g[0] = << >>
               /\ \A k \in 1..Len(seqs) : g[k] = Join(g[k - 1], seqs[k])
               /\ FlattenSeq(seqs) = g[Len(seqs)]
  BY <1>2, <1>3
<1> DEFINE T == {n \in Nat : g[n] \in Seq(S)}
<1>5. 0 \in T
  <2>1. << >> \in Seq(S)
    OBVIOUS
  <2> QED
    BY <1>4, <2>1
<1>6. ASSUME NEW n \in 0..(Len(seqs) - 1), n \in T PROVE n + 1 \in T
  <2>1. n + 1 \in 1..Len(seqs) /\ n + 1 - 1 = n /\ n + 1 \in Nat
    BY <1>1
  <2>2. g[n + 1] = Join(g[n], seqs[n + 1])
    BY <1>4, <2>1
  <2>3. g[n] \in Seq(S) /\ seqs[n + 1] \in Seq(S)
    BY <1>6, <2>1, ElementOfSeq
  <2>4. Join(g[n], seqs[n + 1]) \in Seq(S)
    BY <2>3, ConcatProperties DEF Join
  <2> QED
    BY <2>1, <2>2, <2>4
<1>7. \A n \in 0..Len(seqs) : n \in T
  <2> HIDE DEF T
  <2>1. \A n \in 0..(Len(seqs) - 1) : n \in T => n + 1 \in T
    BY <1>6
  <2> QED
    BY ONLY <1>1, <1>5, <2>1, SetInduction
<1>8. \A k \in 0..Len(seqs) : g[k] \in Seq(S)
  BY <1>7
<1> QED
  BY <1>4, <1>8

\* Join is associative.
LEMMA JoinAssociative ==
  ASSUME NEW S, NEW a \in Seq(S), NEW b \in Seq(S), NEW c \in Seq(S)
  PROVE  Join(Join(a, b), c) = Join(a, Join(b, c)) /\ Join(b, c) \in Seq(S)
<1>1. (a \o b) \o c = a \o (b \o c)
  BY ConcatAssociative
<1>2. b \o c \in Seq(S)
  BY ConcatProperties
<1> QED
  BY <1>1, <1>2 DEF Join

\* The sources of the rows of a document.
DocSources(d) == FlattenSeq([j \in DOMAIN d.arrays |-> ArraySources(d.arrays[j].items)])

\* The arrays whose items are in A.
ArrayIn(A) == [name : Field, items : A]

\* An array has as many sources as items.
LEMMA ArraySourcesType ==
  ASSUME NEW A \in SUBSET Seq(Notice), NEW items \in A
  PROVE  ArraySources(items) \in Seq(Source(A)) /\ Len(ArraySources(items)) = Len(items)
<1>1. Len(items) \in Nat /\ DOMAIN items = 1..Len(items)
  BY LenProperties
<1>2. \A k \in 1..Len(items) : [items |-> items, at |-> k] \in Source(A)
  BY DEF Source
<1> QED
  BY <1>1, <1>2 DEF ArraySources

\* The sources of a document's rows, array by array.
LEMMA DocSourcesLoop ==
  ASSUME NEW A \in SUBSET Seq(Notice), NEW d, d.arrays \in Seq(ArrayIn(A))
  PROVE  \E g : /\ g[0] = << >>
                /\ \A k \in 1..Len(d.arrays) :
                     g[k] = Join(g[k - 1], ArraySources(d.arrays[k].items))
                /\ DocSources(d) = g[Len(d.arrays)]
                /\ \A k \in 0..Len(d.arrays) : g[k] \in Seq(Source(A))
<1>1. PICK arrays : arrays = d.arrays
  OBVIOUS
<1>2. PICK seqs : seqs = [j \in DOMAIN arrays |-> ArraySources(arrays[j].items)]
  OBVIOUS
<1>3. Len(arrays) \in Nat /\ DOMAIN arrays = 1..Len(arrays)
  BY <1>1, LenProperties
<1>4. \A j \in 1..Len(arrays) : arrays[j].items \in A
  <2>1. \A j \in 1..Len(arrays) : arrays[j] \in ArrayIn(A)
    BY <1>1, ElementOfSeq
  <2> QED
    BY <2>1 DEF ArrayIn
<1>5. \A j \in 1..Len(arrays) : ArraySources(arrays[j].items) \in Seq(Source(A))
  BY <1>4, ArraySourcesType
<1>6. seqs \in Seq(Seq(Source(A))) /\ Len(seqs) = Len(arrays)
  BY <1>2, <1>3, <1>5
<1>7. \A k \in 1..Len(arrays) : seqs[k] = ArraySources(arrays[k].items)
  BY <1>2, <1>3
<1>8. PICK g : /\ g[0] = << >>
               /\ \A k \in 1..Len(seqs) : g[k] = Join(g[k - 1], seqs[k])
               /\ FlattenSeq(seqs) = g[Len(seqs)]
               /\ \A k \in 0..Len(seqs) : g[k] \in Seq(Source(A))
  BY <1>6, FlatLoop
<1>9. DocSources(d) = FlattenSeq(seqs)
  BY <1>1, <1>2 DEF DocSources
<1>10. /\ g[0] = << >>
       /\ \A k \in 1..Len(arrays) : g[k] = Join(g[k - 1], ArraySources(arrays[k].items))
       /\ DocSources(d) = g[Len(arrays)]
       /\ \A k \in 0..Len(arrays) : g[k] \in Seq(Source(A))
  BY <1>6, <1>7, <1>8, <1>9
<1> QED
  BY <1>1, <1>10

\* One document keeps Holds.
LEMMA VecRows ==
  ASSUME NEW A \in SUBSET Seq(Notice), NEW got, NEW src, Holds(got, src, A),
         NEW d, d.arrays \in Seq(ArrayIn(A))
  PROVE  /\ DocSources(d) \in Seq(Source(A))
         /\ Holds(GetVecRecord(d, got), Join(src, DocSources(d)), A)
<1>1. PICK arrays : arrays = d.arrays
  OBVIOUS
<1>2. Len(arrays) \in Nat /\ arrays \in Seq(ArrayIn(A))
  BY <1>1, LenProperties
<1>3. PICK f : f = VecFn(d, got)
  OBVIOUS
<1>4. /\ GetVecRecord(d, got) = f[Len(arrays)].msg_data
      /\ f[0] = VecInit(d, got)
      /\ \A k \in 1..Len(arrays) : f[k] = GetArray(f[k - 1], arrays[k])
  BY <1>1, <1>2, <1>3, VecStep
<1>5. PICK g : /\ g[0] = << >>
               /\ \A k \in 1..Len(arrays) : g[k] = Join(g[k - 1], ArraySources(arrays[k].items))
               /\ DocSources(d) = g[Len(arrays)]
  BY <1>1, <1>2, DocSourcesLoop
<1> DEFINE T == {n \in Nat : /\ IsAcc(f[n])
                             /\ g[n] \in Seq(Source(A))
                             /\ Holds(f[n].msg_data, Join(src, g[n]), A)}
<1>6. 0 \in T
  <2>1. IsAcc(f[0]) /\ f[0].msg_data = got
    BY <1>4 DEF VecInit, IsAcc, Holds
  <2>2. << >> \in Seq(Source(A))
    OBVIOUS
  <2>3. Join(src, << >>) = src
    <3>1. src \in Seq(Source(A))
      BY DEF Holds
    <3> QED
      BY <3>1, ConcatEmptySeq DEF Join
  <2>4. Join(src, g[0]) = src
    BY <1>5, <2>3
  <2> QED
    BY <1>5, <2>1, <2>2, <2>4
<1>7. ASSUME NEW n \in 0..(Len(arrays) - 1), n \in T PROVE n + 1 \in T
  <2>1. n + 1 \in 1..Len(arrays) /\ n + 1 - 1 = n /\ n + 1 \in Nat
    BY <1>2
  <2>2. PICK a : a = arrays[n + 1]
    OBVIOUS
  <2>3. a.items \in A
    <3>1. a \in ArrayIn(A)
      BY <1>2, <2>1, <2>2, ElementOfSeq
    <3> QED
      BY <3>1 DEF ArrayIn
  <2>4. f[n + 1] = GetArray(f[n], a) /\ g[n + 1] = Join(g[n], ArraySources(a.items))
    BY <1>4, <1>5, <2>1, <2>2
  <2>5. PICK new : new = ArraySources(a.items)
    OBVIOUS
  <2>6. IsAcc(f[n]) /\ g[n] \in Seq(Source(A)) /\ Holds(f[n].msg_data, Join(src, g[n]), A)
    BY <1>7
  <2>7. /\ IsAcc(GetArray(f[n], a))
        /\ Holds(GetArray(f[n], a).msg_data, Join(Join(src, g[n]), new), A)
        /\ new \in Seq(Source(A))
    BY <2>3, <2>5, <2>6, ArrayRows DEF Join
  <2>8. Join(Join(src, g[n]), new) = Join(src, Join(g[n], new)) /\ Join(g[n], new) \in Seq(Source(A))
    <3>1. src \in Seq(Source(A))
      BY DEF Holds
    <3> QED
      BY <2>6, <2>7, <3>1, JoinAssociative
  <2> QED
    BY <2>1, <2>4, <2>5, <2>7, <2>8
<1>8. Len(arrays) \in T
  <2> HIDE DEF T
  <2>1. \A n \in 0..(Len(arrays) - 1) : n \in T => n + 1 \in T
    BY <1>7
  <2>2. \A n \in 0..Len(arrays) : n \in T
    BY ONLY <1>2, <1>6, <2>1, SetInduction
  <2> QED
    BY <1>2, <2>2
<1> QED
  BY <1>4, <1>5, <1>8

\* The whole cursor: the rows are those of the notices.
LEMMA RowsAll ==
  ASSUME NEW A \in SUBSET Seq(Notice), NEW D, NEW docs \in Seq(D),
         \A d \in D : d.arrays \in Seq(ArrayIn(A))
  PROVE  Holds(Rows(docs), SourcesOf(docs), A)
<1>1. Len(docs) \in Nat /\ DOMAIN docs = 1..Len(docs)
  BY LenProperties
<1>2. \A k \in 1..Len(docs) : docs[k].arrays \in Seq(ArrayIn(A))
  BY ElementOfSeq
<1>3. PICK f : f = RowsFn(docs)
  OBVIOUS
<1>4. /\ Rows(docs) = f[Len(docs)]
      /\ f[0] = << >>
      /\ \A k \in 1..Len(docs) : f[k] = GetVecRecord(docs[k], f[k - 1])
  BY <1>1, <1>3, RowsStep
<1>5. PICK seqs : seqs = [i \in 1..Len(docs) |-> DocSources(docs[i])]
  OBVIOUS
<1>6. Holds(<< >>, << >>, A)
  <2>1. << >> \in Seq(Row) /\ << >> \in Seq(Source(A)) /\ Len(<< >>) = 0
    OBVIOUS
  <2> QED
    BY <2>1 DEF Holds
<1>7. \A k \in 1..Len(docs) : DocSources(docs[k]) \in Seq(Source(A))
  BY <1>2, <1>6, VecRows
<1>8. seqs \in Seq(Seq(Source(A))) /\ Len(seqs) = Len(docs)
  BY <1>1, <1>5, <1>7
<1>9. PICK g : /\ g[0] = << >>
               /\ \A k \in 1..Len(seqs) : g[k] = Join(g[k - 1], seqs[k])
               /\ FlattenSeq(seqs) = g[Len(seqs)]
  BY <1>8, FlatLoop
<1>10. SourcesOf(docs) = FlattenSeq(seqs)
  BY <1>1, <1>5 DEF SourcesOf, DocSources, ArraySources
<1> DEFINE T == {n \in Nat : Holds(f[n], g[n], A)}
<1>11. 0 \in T
  BY <1>4, <1>6, <1>9
<1>12. ASSUME NEW n \in 0..(Len(docs) - 1), n \in T PROVE n + 1 \in T
  <2>1. n + 1 \in 1..Len(docs) /\ n + 1 - 1 = n /\ n + 1 \in Nat
    BY <1>1
  <2>2. f[n + 1] = GetVecRecord(docs[n + 1], f[n])
    BY <1>4, <2>1
  <2>3. g[n + 1] = Join(g[n], DocSources(docs[n + 1]))
    <3>1. seqs[n + 1] = DocSources(docs[n + 1])
      BY <1>5, <2>1
    <3>2. g[n + 1] = Join(g[n], seqs[n + 1])
      BY <1>8, <1>9, <2>1
    <3> QED
      BY <3>1, <3>2
  <2>4. Holds(f[n], g[n], A) /\ docs[n + 1].arrays \in Seq(ArrayIn(A))
    BY <1>2, <1>12, <2>1
  <2>5. Holds(GetVecRecord(docs[n + 1], f[n]), Join(g[n], DocSources(docs[n + 1])), A)
    BY <2>4, VecRows
  <2> QED
    BY <2>1, <2>2, <2>3, <2>5
<1>13. Len(docs) \in T
  <2> HIDE DEF T
  <2>1. \A n \in 0..(Len(docs) - 1) : n \in T => n + 1 \in T
    BY <1>12
  <2>2. \A n \in 0..Len(docs) : n \in T
    BY ONLY <1>1, <1>11, <2>1, SetInduction
  <2> QED
    BY <1>1, <2>2
<1> QED
  BY <1>4, <1>8, <1>9, <1>10, <1>13

\* A document, and the type of the collection.
Doc == [flat : Id \cup Record, arrays : Seq(ArrayIn(Seq(Notice)))]

StoreTypeOK == coll \in Seq(Doc)

\* An array that m pushes to ends with what it pushes.
EndsWith(a, m) ==
  a.name \in DOMAIN m => Len(a.items) # 0 /\ a.items[Len(a.items)] = m[a.name]

\* $push leaves a document a document, with the same string fields, and the
\* arrays of m are there and end with the notices of m.
LEMMA PushedType ==
  ASSUME NEW d \in Doc, NEW m \in Choice(Notice)
  PROVE  /\ Pushed(d, m) \in Doc
         /\ Pushed(d, m).flat = d.flat
         /\ \A f \in DOMAIN m : Named(Pushed(d, m), {f}) # {}
         /\ \A k \in DOMAIN Pushed(d, m).arrays : EndsWith(Pushed(d, m).arrays[k], m)
<1> DEFINE App(a) == IF a.name \in DOMAIN m THEN [a EXCEPT !.items = Append(@, m[a.name])] ELSE a
           keep == {k \in DOMAIN FieldSeq : FieldSeq[k] \in DOMAIN m /\ Named(d, {FieldSeq[k]}) = {}}
<1>1. PICK arrays : arrays = d.arrays
  OBVIOUS
<1>2. arrays \in Seq(ArrayIn(Seq(Notice)))
  BY <1>1 DEF Doc
<1>3. PICK app : app = [i \in DOMAIN arrays |-> App(arrays[i])]
  OBVIOUS
<1>4. PICK new : new = Kept(FieldSeq, keep)
  OBVIOUS
<1>5. PICK more : more = [i \in DOMAIN new |-> [name |-> new[i], items |-> <<m[new[i]]>>]]
  OBVIOUS
<1>6. \A f \in DOMAIN m : f \in Field /\ m[f] \in Notice
  BY DEF Choice
<1>7. ASSUME NEW a \in ArrayIn(Seq(Notice))
      PROVE  App(a) \in ArrayIn(Seq(Notice)) /\ App(a).name = a.name /\ EndsWith(App(a), m)
  <2>1. a.name \in Field /\ a.items \in Seq(Notice) /\ a = [name |-> a.name, items |-> a.items]
    BY DEF ArrayIn
  <2>2. CASE a.name \in DOMAIN m
    <3>1. Append(a.items, m[a.name]) \in Seq(Notice)
      BY <1>6, <2>1, <2>2, AppendProperties
    <3>2. App(a) = [name |-> a.name, items |-> Append(a.items, m[a.name])]
      BY <2>1, <2>2
    <3>3. PICK it : it = Append(a.items, m[a.name])
      OBVIOUS
    <3>4. Len(it) # 0 /\ it[Len(it)] = m[a.name]
      BY <1>6, <2>1, <2>2, <3>3, AppendProperties
    <3>5. App(a).name = a.name /\ App(a).items = it
      BY <3>2, <3>3
    <3> HIDE DEF App
    <3> QED
      BY <2>1, <3>1, <3>2, <3>3, <3>4, <3>5 DEF ArrayIn, EndsWith
  <2>3. CASE a.name \notin DOMAIN m
    BY <2>3 DEF EndsWith
  <2> QED
    BY <2>2, <2>3
<1>8. app \in Seq(ArrayIn(Seq(Notice)))
  <2> HIDE DEF App
  <2>1. Len(arrays) \in Nat /\ DOMAIN arrays = 1..Len(arrays)
    BY <1>2, LenProperties
  <2>2. \A i \in 1..Len(arrays) : App(arrays[i]) \in ArrayIn(Seq(Notice))
    BY <1>2, <1>7, ElementOfSeq
  <2> QED
    BY <1>3, <2>1, <2>2
<1>9. new \in Seq(DOMAIN m)
  <2>1. new \in Seq({FieldSeq[k] : k \in keep \cap DOMAIN FieldSeq})
    <3> HIDE DEF keep
    <3> QED
      BY <1>4, StoreAssumption, KeptType
  <2>2. {FieldSeq[k] : k \in keep \cap DOMAIN FieldSeq} \subseteq DOMAIN m
    OBVIOUS
  <2> QED
    BY <2>1, <2>2, SeqMonotonic
<1>10. more \in Seq(ArrayIn(Seq(Notice)))
  <2>1. Len(new) \in Nat /\ DOMAIN new = 1..Len(new)
    BY <1>9, LenProperties
  <2>2. ASSUME NEW i \in 1..Len(new)
        PROVE  [name |-> new[i], items |-> <<m[new[i]]>>] \in ArrayIn(Seq(Notice))
    <3>1. new[i] \in DOMAIN m
      BY <1>9, ElementOfSeq
    <3>2. <<m[new[i]]>> \in Seq(Notice)
      BY <1>6, <3>1
    <3> QED
      BY <1>6, <3>1, <3>2 DEF ArrayIn
  <2> QED
    BY <1>5, <2>1, <2>2
<1>11. app \o more \in Seq(ArrayIn(Seq(Notice)))
  BY <1>8, <1>10, ConcatProperties
<1>12. Pushed(d, m) = [d EXCEPT !.arrays = app \o more]
  BY <1>1, <1>3, <1>4, <1>5 DEF Pushed
<1>13. PICK z : z = app \o more
  OBVIOUS
<1>14. Pushed(d, m) = [flat |-> d.flat, arrays |-> z]
  BY <1>12, <1>13 DEF Doc
<1>15. Pushed(d, m) \in Doc /\ Pushed(d, m).flat = d.flat /\ Pushed(d, m).arrays = z
  BY <1>11, <1>13, <1>14 DEF Doc
<1>16. /\ Len(z) = Len(app) + Len(more)
       /\ \A i \in 1..Len(app) : z[i] = app[i]
       /\ \A i \in 1..Len(more) : z[Len(app) + i] = more[i]
       /\ DOMAIN z = 1..Len(z)
  <2>1. /\ Len(app \o more) = Len(app) + Len(more)
        /\ \A i \in 1..Len(app) : (app \o more)[i] = app[i]
        /\ \A i \in 1..Len(more) : (app \o more)[Len(app) + i] = more[i]
        /\ DOMAIN (app \o more) = 1..Len(app \o more)
    BY ONLY <1>8, <1>10, Joined, LenProperties
  <2> QED
    BY ONLY <1>13, <2>1
<1>17. /\ Len(app) = Len(arrays) /\ Len(more) = Len(new)
       /\ Len(arrays) \in Nat /\ Len(new) \in Nat
       /\ DOMAIN new = 1..Len(new) /\ DOMAIN arrays = 1..Len(arrays)
  <2> HIDE DEF App
  <2>1. /\ Len(arrays) \in Nat /\ Len(new) \in Nat
        /\ DOMAIN new = 1..Len(new) /\ DOMAIN arrays = 1..Len(arrays)
    BY <1>2, <1>9, LenProperties
  <2> QED
    BY <1>3, <1>5, <2>1
<1>18. ASSUME NEW i \in 1..Len(arrays)
       PROVE  z[i].name = arrays[i].name /\ EndsWith(z[i], m)
  <2> HIDE DEF App
  <2>1. z[i] = App(arrays[i])
    BY <1>3, <1>16, <1>17
  <2>2. arrays[i] \in ArrayIn(Seq(Notice))
    BY <1>2, ElementOfSeq
  <2> QED
    BY <1>7, <2>1, <2>2
<1>19. ASSUME NEW i \in 1..Len(new)
       PROVE  z[Len(arrays) + i].name = new[i] /\ EndsWith(z[Len(arrays) + i], m)
  <2>1. z[Len(arrays) + i] = [name |-> new[i], items |-> <<m[new[i]]>>]
    BY <1>5, <1>16, <1>17
  <2>2. PICK a : a = z[Len(arrays) + i]
    OBVIOUS
  <2>3. a.name = new[i] /\ a.items = <<m[new[i]]>>
    BY <2>1, <2>2
  <2>4. Len(a.items) # 0 /\ a.items[Len(a.items)] = m[a.name]
    BY <2>3
  <2> QED
    BY <2>2, <2>3, <2>4 DEF EndsWith
<1>20. ASSUME NEW k \in DOMAIN z PROVE EndsWith(z[k], m)
  <2>1. CASE k <= Len(arrays)
    BY <1>16, <1>17, <1>18, <2>1
  <2>2. CASE k > Len(arrays)
    <3>1. k - Len(arrays) \in 1..Len(new) /\ Len(arrays) + (k - Len(arrays)) = k
      BY <1>16, <1>17, <2>2
    <3> QED
      BY <1>19, <3>1
  <2> QED
    BY <1>16, <1>17, <2>1, <2>2
<1>21. ASSUME NEW f \in DOMAIN m PROVE \E k \in DOMAIN z : z[k].name = f
  <2>1. CASE Named(d, {f}) # {}
    <3>1. PICK k \in 1..Len(arrays) : arrays[k].name = f
      BY <1>1, <1>17, <2>1 DEF Named
    <3>2. k \in DOMAIN z /\ z[k].name = f
      BY <1>16, <1>17, <1>18, <3>1
    <3> QED
      BY <3>2
  <2>2. CASE Named(d, {f}) = {}
    <3>1. PICK k \in DOMAIN FieldSeq : FieldSeq[k] = f
      BY <1>6 DEF Field, Range
    <3>2. k \in keep \cap DOMAIN FieldSeq
      BY <2>2, <3>1
    <3>3. PICK i \in 1..Len(new) : new[i] = f
      <4> HIDE DEF keep
      <4>1. \E i \in 1..Len(Kept(FieldSeq, keep)) : Kept(FieldSeq, keep)[i] = FieldSeq[k]
        BY <3>2, StoreAssumption, KeptAll
      <4> QED
        BY <1>4, <3>1, <4>1
    <3>4. Len(arrays) + i \in DOMAIN z /\ z[Len(arrays) + i].name = f
      BY <1>16, <1>17, <1>19, <3>3
    <3> QED
      BY <3>4
  <2> QED
    BY <2>1, <2>2
<1>22. \A f \in DOMAIN m : Named(Pushed(d, m), {f}) # {}
  BY <1>15, <1>21 DEF Named
<1> QED
  BY <1>15, <1>20, <1>22

\* What $pull leaves in an array.
Left(n) == {k \in Notice : ~Has(k, n)}

\* $pull leaves a document a document, with the same string fields, and in the
\* arrays of m no notice that has the fields pulled.
LEMMA PulledType ==
  ASSUME NEW d \in Doc, NEW m \in Choice(Notice)
  PROVE  /\ Pulled(d, m) \in Doc
         /\ Pulled(d, m).flat = d.flat
         /\ \A k \in DOMAIN Pulled(d, m).arrays :
              LET a == Pulled(d, m).arrays[k]
              IN  a.name \in DOMAIN m => a.items \in Seq(Left(m[a.name]))
<1> DEFINE Stay(a) == {k \in DOMAIN a.items : ~Has(a.items[k], m[a.name])}
           Pull(a) == IF a.name \in DOMAIN m
                        THEN [a EXCEPT !.items = Kept(a.items, Stay(a))] ELSE a
<1>1. PICK arrays : arrays = d.arrays
  OBVIOUS
<1>2. arrays \in Seq(ArrayIn(Seq(Notice)))
  BY <1>1 DEF Doc
<1>3. PICK z : z = [i \in DOMAIN arrays |-> Pull(arrays[i])]
  OBVIOUS
<1>4. ASSUME NEW a \in ArrayIn(Seq(Notice))
      PROVE  /\ Pull(a) \in ArrayIn(Seq(Notice))
             /\ Pull(a).name \in DOMAIN m => Pull(a).items \in Seq(Left(m[Pull(a).name]))
  <2>1. a.name \in Field /\ a.items \in Seq(Notice) /\ a = [name |-> a.name, items |-> a.items]
    BY DEF ArrayIn
  <2>2. CASE a.name \in DOMAIN m
    <3>1. PICK it : it = a.items
      OBVIOUS
    <3>2. PICK keep : keep = Stay(a)
      OBVIOUS
    <3>3. PICK r : r = Kept(it, keep)
      OBVIOUS
    <3>4. r \in Seq({it[k] : k \in keep \cap DOMAIN it})
      BY <2>1, <3>1, <3>3, KeptType
    <3>5. {it[k] : k \in keep \cap DOMAIN it} \subseteq Left(m[a.name])
      <4>1. \A k \in DOMAIN it : it[k] \in Notice
        BY <2>1, <3>1, LenProperties, ElementOfSeq
      <4> QED
        BY <3>1, <3>2, <4>1 DEF Left
    <3>6. r \in Seq(Left(m[a.name]))
      BY <3>4, <3>5, SeqMonotonic
    <3>7. r \in Seq(Notice)
      <4>1. Left(m[a.name]) \subseteq Notice
        BY DEF Left
      <4> QED
        BY <3>6, <4>1, SeqMonotonic
    <3>8. Pull(a) = [name |-> a.name, items |-> r]
      BY <2>1, <2>2, <3>1, <3>2, <3>3
    <3> HIDE DEF Pull
    <3>9. Pull(a).name = a.name /\ Pull(a).items = r
      BY <3>8
    <3> QED
      BY <2>1, <3>6, <3>7, <3>8, <3>9 DEF ArrayIn
  <2>3. CASE a.name \notin DOMAIN m
    BY <2>3
  <2> QED
    BY <2>2, <2>3
<1> HIDE DEF Pull
<1>5. Len(arrays) \in Nat /\ DOMAIN arrays = 1..Len(arrays)
  BY <1>2, LenProperties
<1>6. \A i \in 1..Len(arrays) : arrays[i] \in ArrayIn(Seq(Notice))
  BY <1>2, ElementOfSeq
<1>7. z \in Seq(ArrayIn(Seq(Notice)))
  BY <1>3, <1>4, <1>5, <1>6
<1>8. DOMAIN z = 1..Len(arrays) /\ \A i \in 1..Len(arrays) : z[i] = Pull(arrays[i])
  BY <1>3, <1>5
<1>9. Pulled(d, m) = [d EXCEPT !.arrays = z]
  BY <1>1, <1>3 DEF Pulled, Pull
<1>10. Pulled(d, m) = [flat |-> d.flat, arrays |-> z]
  BY <1>9 DEF Doc
<1>11. Pulled(d, m) \in Doc /\ Pulled(d, m).flat = d.flat /\ Pulled(d, m).arrays = z
  BY <1>7, <1>10 DEF Doc
<1> QED
  BY <1>4, <1>6, <1>8, <1>11

\* The documents of c that match.
Matches(c, query) == {i \in DOMAIN c : Has(c[i].flat, query)}

\* The first document that matches is one of the collection's.
LEMMA FirstMatch ==
  ASSUME NEW c \in Seq(Doc), NEW query, Matches(c, query) # {}
  PROVE  Min(Matches(c, query)) \in 1..Len(c) /\ Has(c[Min(Matches(c, query))].flat, query)
<1>1. DOMAIN c = 1..Len(c) /\ Len(c) \in Nat
  BY LenProperties
<1>2. Matches(c, query) \in SUBSET Nat
  BY <1>1 DEF Matches
<1>3. PICK i : i = Min(Matches(c, query))
  OBVIOUS
<1>4. i \in Matches(c, query)
  BY <1>2, <1>3, MinIn
<1> QED
  BY <1>1, <1>3, <1>4 DEF Matches

\* A command on the first document that matches keeps the type, if what it
\* makes of a document is a document.
LEMMA ReplacedType ==
  ASSUME NEW c \in Seq(Doc), NEW i \in 1..Len(c), NEW d \in Doc
  PROVE  /\ [c EXCEPT ![i] = d] \in Seq(Doc)
         /\ Len([c EXCEPT ![i] = d]) = Len(c)
         /\ \A j \in 1..Len(c) : [c EXCEPT ![i] = d][j] = IF j = i THEN d ELSE c[j]
BY ExceptSeq

\* DelNoticeColl either leaves the collection alone or pulls from the first
\* document that matches.
LEMMA DelStep ==
  ASSUME NEW id, NEW m, DelNoticeColl(id, m)
  PROVE  \/ coll' = coll
         \/ /\ DOMAIN m # {}
            /\ Matches(coll, id) # {}
            /\ coll' = [coll EXCEPT ![Min(Matches(coll, id))] =
                          Pulled(coll[Min(Matches(coll, id))], m)]
BY DEF DelNoticeColl, Command, Refuse, Updated, ReplaceAt, Matching, Matches

\* PushNoticeColl pushes to it.
LEMMA PushStep ==
  ASSUME NEW id, NEW m, PushNoticeColl(id, m)
  PROVE  \/ coll' = coll
         \/ /\ DOMAIN m # {}
            /\ Matches(coll, id) # {}
            /\ coll' = [coll EXCEPT ![Min(Matches(coll, id))] =
                          Pushed(coll[Min(Matches(coll, id))], m)]
BY DEF PushNoticeColl, Command, Refuse, Updated, ReplaceAt, Matching, Matches

\* update_coll puts the record in its place.
LEMMA UpdateStep ==
  ASSUME NEW query, NEW m, update_coll(query, m)
  PROVE  \/ coll' = coll
         \/ /\ DOMAIN m # {}
            /\ Matches(coll, query) # {}
            /\ coll' = [coll EXCEPT ![Min(Matches(coll, query))] =
                          [flat |-> m, arrays |-> << >>]]
BY DEF update_coll, Command, Refuse, Updated, ReplaceAt, Matching, Matches

\* A document with these string fields and no array.
LEMMA FlatDoc ==
  ASSUME NEW m \in Id \cup Record
  PROVE  [flat |-> m, arrays |-> << >>] \in Doc
<1>1. << >> \in Seq(ArrayIn(Seq(Notice)))
  OBVIOUS
<1> QED
  BY <1>1 DEF Doc

\* The document InsertNoticeColl makes.
LEMMA InsertedDoc ==
  ASSUME NEW id \in Id, NEW m \in Choice(BoundedSeq(Notice, MaxNew)), NEW keep, NEW names,
         keep = {k \in DOMAIN FieldSeq : FieldSeq[k] \in DOMAIN m},
         names = Kept(FieldSeq, keep)
  PROVE  [flat |-> id,
          arrays |-> [i \in DOMAIN names |-> [name |-> names[i], items |-> m[names[i]]]]] \in Doc
<1>1. \A f \in DOMAIN m : f \in Field /\ m[f] \in Seq(Notice)
  <2>1. \A f \in DOMAIN m : f \in Field /\ m[f] \in BoundedSeq(Notice, MaxNew)
    BY DEF Choice
  <2>2. BoundedSeq(Notice, MaxNew) \subseteq Seq(Notice)
    BY DEF BoundedSeq, SeqOf
  <2> QED
    BY <2>1, <2>2
<1>2. names \in Seq(DOMAIN m)
  <2>1. names \in Seq({FieldSeq[k] : k \in keep \cap DOMAIN FieldSeq})
    BY StoreAssumption, KeptType
  <2>2. {FieldSeq[k] : k \in keep \cap DOMAIN FieldSeq} \subseteq DOMAIN m
    OBVIOUS
  <2> QED
    BY <2>1, <2>2, SeqMonotonic
<1>3. Len(names) \in Nat /\ DOMAIN names = 1..Len(names)
  BY <1>2, LenProperties
<1>4. ASSUME NEW i \in 1..Len(names)
      PROVE  [name |-> names[i], items |-> m[names[i]]] \in ArrayIn(Seq(Notice))
  <2>1. names[i] \in DOMAIN m
    BY <1>2, ElementOfSeq
  <2> QED
    BY <1>1, <2>1 DEF ArrayIn
<1>5. PICK arrays : arrays = [i \in DOMAIN names |-> [name |-> names[i], items |-> m[names[i]]]]
  OBVIOUS
<1>6. arrays \in Seq(ArrayIn(Seq(Notice)))
  BY ONLY <1>3, <1>4, <1>5
<1>7. [flat |-> id, arrays |-> arrays] \in Doc
  BY <1>6 DEF Doc
<1> QED
  BY <1>5, <1>7

\* Every command keeps the type of the collection.
LEMMA StoreTypeStep == StoreTypeOK /\ [StoreNext]_storeVars => StoreTypeOK'
<1> SUFFICES ASSUME StoreTypeOK, [StoreNext]_storeVars PROVE StoreTypeOK'
  OBVIOUS
<1>1. coll \in Seq(Doc)
  BY DEF StoreTypeOK
<1>2. CASE coll' = coll
  BY <1>1, <1>2 DEF StoreTypeOK
<1>3. ASSUME NEW d \in Doc, coll' = Append(coll, d) PROVE StoreTypeOK'
  <2>1. Append(coll, d) \in Seq(Doc)
    BY <1>1, AppendProperties
  <2> QED
    BY <1>3, <2>1 DEF StoreTypeOK
<1>4. ASSUME NEW query, Matches(coll, query) # {}, NEW d \in Doc,
             coll' = [coll EXCEPT ![Min(Matches(coll, query))] = d]
      PROVE  StoreTypeOK'
  BY <1>1, <1>4, FirstMatch, ReplacedType DEF StoreTypeOK
<1>5. ASSUME NEW m \in Record, insert_coll(m) PROVE StoreTypeOK'
  <2>1. coll' = coll \/ coll' = Append(coll, [flat |-> m, arrays |-> << >>])
    BY <1>5 DEF insert_coll, Command
  <2>2. [flat |-> m, arrays |-> << >>] \in Doc
    BY FlatDoc
  <2> QED
    BY <1>2, <1>3, <2>1, <2>2
<1>6. ASSUME NEW m \in Id \cup {<< >>}, delete_coll(m) PROVE StoreTypeOK'
  <2>1. \/ coll' = coll
        \/ Matches(coll, m) # {} /\ coll' = RemoveAt(coll, Min(Matches(coll, m)))
    BY <1>6 DEF delete_coll, Refuse, Command, Matching, Matches
  <2>2. ASSUME NEW i \in 1..Len(coll) PROVE RemoveAt(coll, i) \in Seq(Doc)
    <3>1. SubSeq(coll, 1, i - 1) \in Seq(Doc) /\ SubSeq(coll, i + 1, Len(coll)) \in Seq(Doc)
      BY <1>1
    <3> QED
      BY <3>1, ConcatProperties DEF RemoveAt
  <2> QED
    BY <1>1, <1>2, <2>1, <2>2, FirstMatch DEF StoreTypeOK
<1>7. ASSUME NEW query \in Id \cup {<< >>}, NEW m \in Record, update_coll(query, m)
      PROVE  StoreTypeOK'
  <2>1. [flat |-> m, arrays |-> << >>] \in Doc
    BY FlatDoc
  <2> QED
    BY <1>2, <1>4, <1>7, <2>1, UpdateStep
<1>8. ASSUME NEW id \in Id, NEW m \in Choice(BoundedSeq(Notice, MaxNew)), InsertNoticeColl(id, m)
      PROVE  StoreTypeOK'
  <2>1. PICK keep : keep = {k \in DOMAIN FieldSeq : FieldSeq[k] \in DOMAIN m}
    OBVIOUS
  <2>2. PICK names : names = Kept(FieldSeq, keep)
    OBVIOUS
  <2>3. PICK d : d = [flat |-> id, arrays |->
                        [i \in DOMAIN names |-> [name |-> names[i], items |-> m[names[i]]]]]
    OBVIOUS
  <2>4. coll' = coll \/ coll' = Append(coll, d)
    BY <1>8, <2>1, <2>2, <2>3 DEF InsertNoticeColl, Command, Refuse
  <2>5. d \in Doc
    BY <2>1, <2>2, <2>3, InsertedDoc
  <2> QED
    BY <1>2, <1>3, <2>4, <2>5
<1>9. ASSUME NEW id \in Id, NEW m \in Choice(Notice), PushNoticeColl(id, m) PROVE StoreTypeOK'
  <2>1. CASE coll' = coll
    BY <1>2, <2>1
  <2>2. CASE coll' # coll
    <3>1. PICK i : i = Min(Matches(coll, id))
      OBVIOUS
    <3>2. Matches(coll, id) # {} /\ coll' = [coll EXCEPT ![i] = Pushed(coll[i], m)]
      BY <1>9, <2>2, <3>1, PushStep
    <3>3. coll[i] \in Doc
      BY <1>1, <3>1, <3>2, FirstMatch, ElementOfSeq
    <3>4. Pushed(coll[i], m) \in Doc
      BY <3>3, PushedType
    <3> QED
      BY <1>4, <3>1, <3>2, <3>4
  <2> QED
    BY <2>1, <2>2
<1>10. ASSUME NEW id \in Id, NEW m \in Choice(Notice), DelNoticeColl(id, m) PROVE StoreTypeOK'
  <2>1. CASE coll' = coll
    BY <1>2, <2>1
  <2>2. CASE coll' # coll
    <3>1. PICK i : i = Min(Matches(coll, id))
      OBVIOUS
    <3>2. Matches(coll, id) # {} /\ coll' = [coll EXCEPT ![i] = Pulled(coll[i], m)]
      BY <1>10, <2>2, <3>1, DelStep
    <3>3. coll[i] \in Doc
      BY <1>1, <3>1, <3>2, FirstMatch, ElementOfSeq
    <3>4. Pulled(coll[i], m) \in Doc
      BY <3>3, PulledType
    <3> QED
      BY <1>4, <3>1, <3>2, <3>4
  <2> QED
    BY <2>1, <2>2
<1>11. CASE UNCHANGED storeVars
  BY <1>2, <1>11 DEF storeVars
<1> QED
  BY <1>5, <1>6, <1>7, <1>8, <1>9, <1>10, <1>11 DEF StoreNext

\* The collection is a sequence of documents.
THEOREM StoreTypeCorrect == StoreSpec => []StoreTypeOK
<1>1. StoreInit => StoreTypeOK
  <2>1. << >> \in Seq(Doc)
    OBVIOUS
  <2> QED
    BY <2>1 DEF StoreInit, StoreTypeOK
<1> QED
  BY <1>1, StoreTypeStep, PTL DEF StoreSpec

\* What the server returns of c.
FoundOf(c, id, F) == Kept([i \in DOMAIN c |-> Projection(c[i], F)], Matches(c, id))

\* A projection takes whole arrays.
LEMMA ProjectionType ==
  ASSUME NEW d \in Doc, NEW F
  PROVE  Projection(d, F).arrays \in Seq(ArrayIn(Seq(Notice)))
<1>1. d.arrays \in Seq(ArrayIn(Seq(Notice)))
  BY DEF Doc
<1>2. CASE F = {}
  BY <1>1, <1>2 DEF Projection
<1>3. CASE F # {}
  <2>1. Projection(d, F).arrays = Kept(d.arrays, Named(d, F))
    BY <1>3 DEF Projection
  <2>2. PICK arrays : arrays = d.arrays
    OBVIOUS
  <2>3. Kept(arrays, Named(d, F)) \in Seq({arrays[k] : k \in Named(d, F) \cap DOMAIN arrays})
    BY <1>1, <2>2, KeptType
  <2>4. {arrays[k] : k \in Named(d, F) \cap DOMAIN arrays} \subseteq ArrayIn(Seq(Notice))
    BY <1>1, <2>2, LenProperties, ElementOfSeq
  <2>5. Kept(arrays, Named(d, F)) \in Seq(ArrayIn(Seq(Notice)))
    BY <2>3, <2>4, SeqMonotonic
  <2> QED
    BY <2>1, <2>2, <2>5
<1> QED
  BY <1>2, <1>3

\* Whatever the collection, the rows are those of the notices.
LEMMA FoundRows ==
  ASSUME NEW c \in Seq(Doc), NEW id, NEW F
  PROVE  Holds(Rows(FoundOf(c, id, F)), SourcesOf(FoundOf(c, id, F)), Seq(Notice))
<1> DEFINE D == {Projection(d, F) : d \in Doc}
<1>1. PICK s : s = [i \in DOMAIN c |-> Projection(c[i], F)]
  OBVIOUS
<1>2. s \in Seq(D)
  <2>1. Len(c) \in Nat /\ DOMAIN c = 1..Len(c)
    BY LenProperties
  <2>2. \A i \in 1..Len(c) : Projection(c[i], F) \in D
    BY ElementOfSeq
  <2> HIDE DEF D
  <2> QED
    BY <1>1, <2>1, <2>2
<1>3. PICK docs : docs = FoundOf(c, id, F)
  OBVIOUS
<1>4. docs \in Seq(D)
  <2> HIDE DEF D
  <2>1. docs \in Seq({s[k] : k \in Matches(c, id) \cap DOMAIN s})
    BY <1>1, <1>2, <1>3, KeptType DEF FoundOf
  <2>2. {s[k] : k \in Matches(c, id) \cap DOMAIN s} \subseteq D
    BY <1>2, LenProperties, ElementOfSeq
  <2> QED
    BY <2>1, <2>2, SeqMonotonic
<1>5. \A d \in D : d.arrays \in Seq(ArrayIn(Seq(Notice)))
  BY ProjectionType
<1>6. Seq(Notice) \in SUBSET Seq(Notice)
  OBVIOUS
<1> HIDE DEF D
<1> QED
  BY <1>3, <1>4, <1>5, <1>6, RowsAll

\* RowsHoldNotices holds of any sequence of documents.
LEMMA RowsHold == StoreTypeOK => RowsHoldNotices
<1> SUFFICES ASSUME StoreTypeOK, NEW id \in Id, NEW F \in SUBSET Field
             PROVE  LET got == SelectNoticeColl(id, F)
                        src == Sources(id, F)
                    IN  /\ Len(got) = Len(src)
                        /\ \A i \in DOMAIN got :
                             /\ Has(got[i], src[i].items[src[i].at])
                             /\ DOMAIN got[i] \subseteq
                                  UNION {DOMAIN src[i].items[j] : j \in 1..src[i].at}
  BY DEF RowsHoldNotices
<1>1. PICK got : got = SelectNoticeColl(id, F)
  OBVIOUS
<1>2. PICK src : src = Sources(id, F)
  OBVIOUS
<1>3. Found(id, F) = FoundOf(coll, id, F)
  BY DEF Found, FoundOf, Matching, Matches
<1>4. Holds(got, src, Seq(Notice))
  BY <1>1, <1>2, <1>3, FoundRows DEF StoreTypeOK, SelectNoticeColl, Sources
<1>5. DOMAIN got = 1..Len(got)
  BY <1>4, LenProperties DEF Holds
<1>6. Len(got) = Len(src) /\ \A i \in 1..Len(got) : RowOK(got[i], src[i])
  BY <1>4 DEF Holds
<1> QED
  BY <1>1, <1>2, <1>5, <1>6 DEF RowOK, KeysUpTo

\* In every state of the store, SelectNoticeColl returns one row for each stored
\* notice, in order, with its fields and none but those of the notices before
\* it in its array.
THEOREM RowsHoldNoticesAlways == StoreSpec => []RowsHoldNotices
BY StoreTypeCorrect, RowsHold, PTL

\* With one document that matches, the cursor returns it.
LEMMA FoundOne ==
  ASSUME NEW c \in Seq(Doc), NEW id, NEW F, NEW i, Matches(c, id) = {i}
  PROVE  FoundOf(c, id, F) = <<Projection(c[i], F)>>
<1>1. PICK s : s = [j \in DOMAIN c |-> Projection(c[j], F)]
  OBVIOUS
<1>2. Len(c) \in Nat /\ DOMAIN c = 1..Len(c)
  BY LenProperties
<1>3. i \in 1..Len(c)
  BY <1>2 DEF Matches
<1> DEFINE D == {Projection(c[j], F) : j \in 1..Len(c)}
<1>4. s \in Seq(D)
  <2>1. \A j \in 1..Len(c) : Projection(c[j], F) \in D
    OBVIOUS
  <2> HIDE DEF D
  <2> QED
    BY <1>1, <1>2, <2>1
<1>5. DOMAIN s = 1..Len(c) /\ s[i] = Projection(c[i], F)
  BY <1>1, <1>2, <1>3
<1>6. Matches(c, id) \cap DOMAIN s = {i}
  BY <1>3, <1>5
<1> HIDE DEF D
<1>7. Kept(s, Matches(c, id)) = <<s[i]>>
  BY <1>4, <1>6, KeptOne
<1> QED
  BY <1>1, <1>5, <1>7 DEF FoundOf

\* An id with one document, by its number.
LEMMA OneMatch ==
  ASSUME NEW c \in Seq(Doc), NEW id, Cardinality(Matches(c, id)) = 1
  PROVE  \E i \in 1..Len(c) : Matches(c, id) = {i} /\ Min({i}) = i
<1>1. Len(c) \in Nat /\ DOMAIN c = 1..Len(c)
  BY LenProperties
<1>2. IsFiniteSet(1..Len(c))
  BY <1>1, FS_Interval
<1>3. Matches(c, id) \in SUBSET (1..Len(c))
  BY <1>1 DEF Matches
<1>4. IsFiniteSet(Matches(c, id))
  BY <1>2, <1>3, FS_Subset
<1>5. PICK i : Matches(c, id) = {i}
  BY <1>4, FS_Singleton
<1>6. i \in 1..Len(c)
  BY <1>3, <1>5
<1>7. Min({i}) = i
  <2>1. {i} \in SUBSET Nat /\ {i} # {}
    BY <1>1, <1>6
  <2>2. Min({i}) \in {i}
    BY <2>1, MinIn
  <2> QED
    BY <2>2
<1> QED
  BY <1>5, <1>6, <1>7

\* A document that keeps its string fields matches what it matched.
LEMMA StillOne ==
  ASSUME NEW c \in Seq(Doc), NEW id, NEW i \in 1..Len(c), Matches(c, id) = {i},
         NEW d \in Doc, d.flat = c[i].flat
  PROVE  /\ [c EXCEPT ![i] = d] \in Seq(Doc)
         /\ Matches([c EXCEPT ![i] = d], id) = {i}
         /\ [c EXCEPT ![i] = d][i] = d
<1>0. PICK z : z = [c EXCEPT ![i] = d]
  OBVIOUS
<1>1. /\ z \in Seq(Doc)
      /\ Len(z) = Len(c)
      /\ \A j \in 1..Len(c) : z[j] = IF j = i THEN d ELSE c[j]
  BY <1>0, ReplacedType
<1>2. DOMAIN z = 1..Len(c) /\ DOMAIN c = 1..Len(c)
  BY <1>1, LenProperties
<1>3. \A j \in 1..Len(c) : z[j].flat = c[j].flat
  BY <1>1
<1>4. Matches(z, id) = Matches(c, id)
  BY <1>2, <1>3 DEF Matches
<1> QED
  BY <1>0, <1>1, <1>4

\* When no stored notice has the fields of n and the notices of an array have
\* the same fields, no row has them.
LEMMA NoRowHas ==
  ASSUME NEW n, NEW got, NEW src, Holds(got, src, Seq(Left(n))),
         \A i \in DOMAIN src : Alike(src[i].items)
  PROVE  \A i \in DOMAIN got : ~Has(got[i], n)
<1>1. /\ DOMAIN got = 1..Len(got)
      /\ DOMAIN src = 1..Len(src)
      /\ Len(got) = Len(src)
  BY LenProperties DEF Holds
<1> SUFFICES ASSUME NEW i \in 1..Len(got) PROVE ~Has(got[i], n)
  BY <1>1
<1>2. PICK row : row = got[i]
  OBVIOUS
<1>3. PICK items : items = src[i].items
  OBVIOUS
<1>4. PICK at : at = src[i].at
  OBVIOUS
<1>5. items \in Seq(Left(n))
  <2>1. src[i] \in Source(Seq(Left(n)))
    BY <1>1, ElementOfSeq DEF Holds
  <2> QED
    BY <1>3, <2>1 DEF Source
<1>6. at \in 1..Len(items) /\ RowOK(row, src[i])
  BY <1>2, <1>3, <1>4 DEF Holds
<1>7. PICK k : k = items[at]
  OBVIOUS
<1>8. k \in Left(n)
  BY <1>5, <1>6, <1>7, ElementOfSeq
<1>9. Has(row, k) /\ DOMAIN row \subseteq UNION {DOMAIN items[j] : j \in 1..at}
  BY <1>3, <1>4, <1>6, <1>7 DEF RowOK, KeysUpTo
<1>10. DOMAIN items = 1..Len(items) /\ Len(items) \in Nat
  BY <1>5, LenProperties
<1>11. \A j \in 1..at : DOMAIN items[j] = DOMAIN k
  <2>1. Alike(items)
    BY <1>1, <1>3
  <2>2. \A j \in 1..at : items[j] \in Range(items) /\ k \in Range(items)
    BY <1>6, <1>7, <1>10 DEF Range
  <2> QED
    BY <2>1, <2>2 DEF Alike
<1>12. DOMAIN row \subseteq DOMAIN k
  BY <1>9, <1>11
<1>13. SUFFICES ASSUME Has(row, n) PROVE FALSE
  BY <1>2
<1>14. \A x \in DOMAIN n : x \in DOMAIN k /\ k[x] = n[x]
  BY <1>9, <1>12, <1>13 DEF Has
<1> QED
  BY <1>8, <1>14 DEF Has, Left

\* A DelNoticeColl that returned true, on an id with one document.
LEMMA DelDone ==
  ASSUME StoreTypeOK, NEW id \in Id, NEW m \in Choice(Notice), reply',
         Cardinality(Matching(id)) = 1, DelNoticeColl(id, m), DOMAIN m # {}
  PROVE  \E i \in 1..Len(coll) :
           /\ coll' = [coll EXCEPT ![i] = Pulled(coll[i], m)]
           /\ Matches(coll, id) = {i}
<1>1. coll \in Seq(Doc) /\ Matches(coll, id) = Matching(id)
  BY DEF StoreTypeOK, Matching, Matches
<1>2. PICK i \in 1..Len(coll) : Matches(coll, id) = {i} /\ Min({i}) = i
  BY <1>1, OneMatch
<1>3. Matching(id) = {i}
  BY <1>1, <1>2
<1>4. coll' = [coll EXCEPT ![i] = Pulled(coll[i], m)]
  BY <1>2, <1>3 DEF DelNoticeColl, Command, Updated, ReplaceAt
<1> QED
  BY <1>2, <1>4

\* After it no row has the deleted fields.
LEMMA DelGone ==
  ASSUME StoreTypeOK, NEW id \in Id, NEW m \in Choice(Notice), reply',
         Cardinality(Matching(id)) = 1, DelNoticeColl(id, m), NEW f \in DOMAIN m
  PROVE  Gone(id, f, m[f])'
<1>1. PICK i \in 1..Len(coll) :
        /\ coll' = [coll EXCEPT ![i] = Pulled(coll[i], m)]
        /\ Matches(coll, id) = {i}
  BY DelDone
<1>2. coll \in Seq(Doc) /\ coll[i] \in Doc
  BY ElementOfSeq DEF StoreTypeOK
<1>3. PICK d : d = Pulled(coll[i], m)
  OBVIOUS
<1>4. /\ d \in Doc
      /\ d.flat = coll[i].flat
      /\ \A k \in DOMAIN d.arrays : d.arrays[k].name \in DOMAIN m
           => d.arrays[k].items \in Seq(Left(m[d.arrays[k].name]))
  BY <1>2, <1>3, PulledType
<1>5. PICK c : c = coll'
  OBVIOUS
<1>6. c \in Seq(Doc) /\ Matches(c, id) = {i} /\ c[i] = d
  <2>1. Matches(coll, id) = {i}
    BY <1>1
  <2>2. c = [coll EXCEPT ![i] = d]
    BY <1>1, <1>3, <1>5
  <2>3. /\ [coll EXCEPT ![i] = d] \in Seq(Doc)
        /\ Matches([coll EXCEPT ![i] = d], id) = {i}
        /\ [coll EXCEPT ![i] = d][i] = d
    BY <1>2, <1>4, <2>1, StillOne
  <2> QED
    BY <2>2, <2>3
<1>7. PICK p : p = Projection(d, {f})
  OBVIOUS
<1>8. FoundOf(c, id, {f}) = <<p>>
  BY <1>6, <1>7, FoundOne
<1>9. p.arrays \in Seq(ArrayIn(Seq(Left(m[f]))))
  <2>1. PICK arrays : arrays = d.arrays
    OBVIOUS
  <2>2. p.arrays = Kept(arrays, Named(d, {f}))
    BY <1>7, <2>1 DEF Projection
  <2>3. arrays \in Seq(ArrayIn(Seq(Notice)))
    BY <1>4, <2>1 DEF Doc
  <2>4. p.arrays \in Seq({arrays[k] : k \in Named(d, {f}) \cap DOMAIN arrays})
    BY <2>2, <2>3, KeptType
  <2>5. ASSUME NEW k \in Named(d, {f}) \cap DOMAIN arrays
        PROVE  arrays[k] \in ArrayIn(Seq(Left(m[f])))
    <3>1. arrays[k].name = f
      BY <2>1 DEF Named
    <3>2. arrays[k] \in ArrayIn(Seq(Notice))
      BY <2>3, LenProperties, ElementOfSeq
    <3>3. arrays[k].items \in Seq(Left(m[f]))
      BY <1>4, <2>1, <3>1
    <3> QED
      BY <3>2, <3>3 DEF ArrayIn
  <2>6. {arrays[k] : k \in Named(d, {f}) \cap DOMAIN arrays} \subseteq ArrayIn(Seq(Left(m[f])))
    BY <2>5
  <2> QED
    BY <2>4, <2>6, SeqMonotonic
<1>10. Holds(Rows(<<p>>), SourcesOf(<<p>>), Seq(Left(m[f])))
  <2>1. <<p>> \in Seq({p})
    OBVIOUS
  <2>2. Seq(Left(m[f])) \in SUBSET Seq(Notice)
    <3>1. Left(m[f]) \subseteq Notice
      BY DEF Left
    <3> QED
      BY <3>1, SeqMonotonic
  <2> QED
    BY <1>9, <2>1, <2>2, RowsAll
<1>11. Found(id, {f})' = <<p>>
  BY <1>5, <1>8 DEF Found, FoundOf, Matching, Matches
<1>12. SelectNoticeColl(id, {f})' = Rows(<<p>>) /\ Sources(id, {f})' = SourcesOf(<<p>>)
  BY <1>11 DEF SelectNoticeColl, Sources
<1> QED
  BY <1>10, <1>12, NoRowHas DEF Gone

\* For any ids, notices and bounds: once DelNoticeColl has returned true for an
\* id with one document, no row has the deleted fields.
THEOREM DeletedIsGoneAlways == StoreSpec => DeletedIsGone
<1>1. ASSUME StoreTypeOK
      PROVE  [\A id \in Id, m \in Choice(Notice) :
                reply' /\ Cardinality(Matching(id)) = 1 /\ DelNoticeColl(id, m)
                  => \A f \in DOMAIN m : Gone(id, f, m[f])']_storeVars
  <2>1. ASSUME NEW id \in Id, NEW m \in Choice(Notice), reply',
               Cardinality(Matching(id)) = 1, DelNoticeColl(id, m), NEW f \in DOMAIN m
        PROVE  Gone(id, f, m[f])'
    BY <1>1, <2>1, DelGone
  <2> QED
    BY <2>1
<1> QED
  BY <1>1, StoreTypeCorrect, PTL DEF DeletedIsGone

\* The last source of a document's rows is its last array's last notice.
LEMMA LastSource ==
  ASSUME NEW d, d.arrays \in Seq(ArrayIn(Seq(Notice))), Len(d.arrays) # 0,
         Len(d.arrays[Len(d.arrays)].items) # 0
  PROVE  LET s == SourcesOf(<<d>>)
             items == d.arrays[Len(d.arrays)].items
         IN  Len(s) # 0 /\ s[Len(s)] = [items |-> items, at |-> Len(items)]
<1> DEFINE A == Seq(Notice)
<1>1. PICK arrays : arrays = d.arrays
  OBVIOUS
<1>2. PICK n : n = Len(arrays)
  OBVIOUS
<1>3. PICK items : items = arrays[n].items
  OBVIOUS
<1>4. n \in Nat /\ n # 0 /\ n \in 1..Len(arrays) /\ n - 1 \in 0..Len(arrays)
  BY <1>1, <1>2, LenProperties
<1>5. items \in Seq(Notice)
  <2>1. arrays[n] \in ArrayIn(Seq(Notice))
    BY <1>1, <1>4, ElementOfSeq
  <2> QED
    BY <1>3, <2>1 DEF ArrayIn
<1>6. Len(items) \in Nat /\ Len(items) # 0 /\ DOMAIN items = 1..Len(items)
  BY <1>1, <1>2, <1>3, <1>5, LenProperties
<1>7. PICK g : /\ \A k \in 1..Len(arrays) : g[k] = Join(g[k - 1], ArraySources(arrays[k].items))
               /\ DocSources(d) = g[Len(arrays)]
               /\ \A k \in 0..Len(arrays) : g[k] \in Seq(Source(Seq(Notice)))
  <2>1. Seq(Notice) \in SUBSET Seq(Notice)
    OBVIOUS
  <2> QED
    BY <1>1, <2>1, DocSourcesLoop
<1>8. PICK new : new = ArraySources(items)
  OBVIOUS
<1>9. new \in Seq(Source(Seq(Notice))) /\ Len(new) = Len(items)
  BY <1>5, <1>8, ArraySourcesType
<1>10. new[Len(items)] = [items |-> items, at |-> Len(items)]
  BY <1>6, <1>8 DEF ArraySources
<1>11. PICK old : old = g[n - 1]
  OBVIOUS
<1>12. old \in Seq(Source(Seq(Notice))) /\ DocSources(d) = old \o new
  BY <1>2, <1>3, <1>4, <1>7, <1>8, <1>11 DEF Join
<1>13. PICK s : s = DocSources(d)
  OBVIOUS
<1>14. Len(s) = Len(old) + Len(new) /\ s[Len(old) + Len(new)] = new[Len(new)]
  <2>1. Len(old \o new) = Len(old) + Len(new)
    BY <1>9, <1>12, Joined
  <2>2. (old \o new)[Len(old) + Len(new)] = new[Len(new)]
    <3>1. Len(new) \in 1..Len(new)
      BY <1>6, <1>9
    <3> QED
      BY <1>9, <1>12, <3>1, Joined
  <2> QED
    BY ONLY <1>12, <1>13, <2>1, <2>2
<1>15. Len(old) \in Nat
  BY <1>12, LenProperties
<1>16. Len(s) # 0 /\ s[Len(s)] = [items |-> items, at |-> Len(items)]
  BY <1>6, <1>9, <1>10, <1>14, <1>15
<1>17. SourcesOf(<<d>>) = s
  <2>1. PICK seqs : seqs = [i \in 1..1 |-> s]
    OBVIOUS
  <2>2. Len(seqs) = 1 /\ seqs[1] = s
    BY <2>1
  <2>3. FlattenSeq(seqs) = s
    <3>1. Len(seqs) \in Nat /\ Len(seqs) # 0
      BY <2>2
    <3>2. FlattenSeq(seqs) = FlatFn(seqs)[Len(seqs)] /\ FlatFn(seqs)[1] = seqs[1]
      BY ONLY <3>1, FlatStep
    <3> QED
      BY <2>2, <3>2
  <2>4. SourcesOf(<<d>>) = FlattenSeq([i \in 1..1 |-> DocSources(<<d>>[i])])
    <3>1. DOMAIN <<d>> = 1..1
      OBVIOUS
    <3> QED
      BY <3>1 DEF SourcesOf, DocSources, ArraySources
  <2>5. [i \in 1..1 |-> DocSources(<<d>>[i])] = seqs
    <3>1. \A i \in 1..1 : <<d>>[i] = d
      OBVIOUS
    <3> QED
      BY <1>13, <2>1, <3>1
  <2> QED
    BY <2>3, <2>4, <2>5
<1> QED
  BY <1>1, <1>2, <1>3, <1>16, <1>17

\* A PushNoticeColl that returned true, on an id with one document.
LEMMA PushDone ==
  ASSUME StoreTypeOK, NEW id \in Id, NEW m \in Choice(Notice), reply',
         Cardinality(Matching(id)) = 1, PushNoticeColl(id, m), DOMAIN m # {}
  PROVE  \E i \in 1..Len(coll) :
           /\ coll' = [coll EXCEPT ![i] = Pushed(coll[i], m)]
           /\ Matches(coll, id) = {i}
<1>1. coll \in Seq(Doc) /\ Matches(coll, id) = Matching(id)
  BY DEF StoreTypeOK, Matching, Matches
<1>2. PICK i \in 1..Len(coll) : Matches(coll, id) = {i} /\ Min({i}) = i
  BY <1>1, OneMatch
<1>3. Matching(id) = {i}
  BY <1>1, <1>2
<1>4. coll' = [coll EXCEPT ![i] = Pushed(coll[i], m)]
  BY <1>2, <1>3 DEF PushNoticeColl, Command, Updated, ReplaceAt
<1> QED
  BY <1>2, <1>4

\* After it the last row of each array has the pushed notice.
LEMMA PushSeen ==
  ASSUME StoreTypeOK, NEW id \in Id, NEW m \in Choice(Notice), reply',
         Cardinality(Matching(id)) = 1, PushNoticeColl(id, m), NEW f \in DOMAIN m
  PROVE  Seen(id, f, m[f])'
<1>1. PICK i \in 1..Len(coll) :
        /\ coll' = [coll EXCEPT ![i] = Pushed(coll[i], m)]
        /\ Matches(coll, id) = {i}
  BY PushDone
<1>2. coll \in Seq(Doc) /\ coll[i] \in Doc
  BY ElementOfSeq DEF StoreTypeOK
<1>3. PICK d : d = Pushed(coll[i], m)
  OBVIOUS
<1>4. /\ d \in Doc
      /\ d.flat = coll[i].flat
      /\ Named(d, {f}) # {}
      /\ \A k \in DOMAIN d.arrays : EndsWith(d.arrays[k], m)
  BY <1>2, <1>3, PushedType
<1>5. PICK c : c = coll'
  OBVIOUS
<1>6. c \in Seq(Doc) /\ Matches(c, id) = {i} /\ c[i] = d
  <2>1. Matches(coll, id) = {i}
    BY <1>1
  <2>2. c = [coll EXCEPT ![i] = d]
    BY <1>1, <1>3, <1>5
  <2>3. /\ [coll EXCEPT ![i] = d] \in Seq(Doc)
        /\ Matches([coll EXCEPT ![i] = d], id) = {i}
        /\ [coll EXCEPT ![i] = d][i] = d
    BY <1>2, <1>4, <2>1, StillOne
  <2> QED
    BY <2>2, <2>3
<1>7. PICK p : p = Projection(d, {f})
  OBVIOUS
<1>8. FoundOf(c, id, {f}) = <<p>>
  BY <1>6, <1>7, FoundOne
<1>9. PICK arrays : arrays = d.arrays
  OBVIOUS
<1>10. PICK kept : kept = Kept(arrays, Named(d, {f}))
  OBVIOUS
<1>11. p.arrays = kept
  BY <1>7, <1>9, <1>10 DEF Projection
<1>12. arrays \in Seq(ArrayIn(Seq(Notice)))
  BY <1>4, <1>9 DEF Doc
<1>13. kept \in Seq({arrays[k] : k \in Named(d, {f}) \cap DOMAIN arrays})
  BY <1>10, <1>12, KeptType
<1>14. Len(kept) \in Nat /\ Len(kept) # 0
  <2>1. PICK k : k \in Named(d, {f}) \cap DOMAIN arrays
    BY <1>4, <1>9 DEF Named
  <2>2. \E j \in 1..Len(kept) : kept[j] = arrays[k]
    BY <1>10, <1>12, <2>1, KeptAll
  <2>3. Len(kept) \in Nat
    BY <1>13, LenProperties
  <2> QED
    BY <2>2, <2>3
<1>15. PICK a : a = kept[Len(kept)]
  OBVIOUS
<1>16. Len(a.items) # 0 /\ a.items[Len(a.items)] = m[f]
  <2>1. a \in {arrays[k] : k \in Named(d, {f}) \cap DOMAIN arrays}
    <3>1. Len(kept) \in 1..Len(kept)
      BY <1>14
    <3> QED
      BY <1>13, <1>15, <3>1, ElementOfSeq
  <2>2. PICK k \in DOMAIN arrays : a = arrays[k] /\ arrays[k].name = f
    BY <1>9, <2>1 DEF Named
  <2>3. EndsWith(a, m) /\ a.name = f
    BY <1>4, <1>9, <2>2
  <2> QED
    BY <2>3 DEF EndsWith
<1>17. p.arrays \in Seq(ArrayIn(Seq(Notice)))
  BY <1>4, <1>7, ProjectionType
<1>18. PICK got : got = Rows(<<p>>)
  OBVIOUS
<1>19. PICK src : src = SourcesOf(<<p>>)
  OBVIOUS
<1>20. Holds(got, src, Seq(Notice))
  <2>1. <<p>> \in Seq({p}) /\ Seq(Notice) \in SUBSET Seq(Notice)
    OBVIOUS
  <2> QED
    BY <1>17, <1>18, <1>19, <2>1, RowsAll
<1>21. Len(src) # 0 /\ src[Len(src)] = [items |-> a.items, at |-> Len(a.items)]
  <2>1. Len(p.arrays) # 0 /\ p.arrays[Len(p.arrays)] = a
    BY <1>11, <1>14, <1>15
  <2>2. Len(p.arrays[Len(p.arrays)].items) # 0
    BY <1>16, <2>1
  <2> QED
    BY <1>17, <1>19, <2>1, <2>2, LastSource
<1>22. Len(got) = Len(src) /\ Len(got) \in Nat /\ got # << >>
  <2>1. Len(got) = Len(src) /\ Len(got) \in Nat
    BY <1>20, LenProperties DEF Holds
  <2> QED
    BY <1>21, <2>1
<1>23. Has(got[Len(got)], m[f])
  <2>1. Len(got) \in 1..Len(got)
    BY <1>21, <1>22
  <2>2. RowOK(got[Len(got)], src[Len(got)])
    BY <1>20, <2>1 DEF Holds
  <2>3. PICK e : e = src[Len(src)]
    OBVIOUS
  <2>4. e.items = a.items /\ e.at = Len(a.items)
    BY <1>21, <2>3
  <2>5. Has(got[Len(got)], e.items[e.at])
    BY <1>22, <2>2, <2>3 DEF RowOK
  <2> QED
    BY <1>16, <2>4, <2>5
<1>24. Found(id, {f})' = <<p>>
  BY <1>5, <1>8 DEF Found, FoundOf, Matching, Matches
<1>25. SelectNoticeColl(id, {f})' = got
  BY <1>18, <1>24 DEF SelectNoticeColl
<1> QED
  BY <1>22, <1>23, <1>25 DEF Seen, Last

\* For any ids, notices and bounds: once PushNoticeColl has returned true for an
\* id with one document, the last row of each array has the pushed notice.
THEOREM PushedIsSeenAlways == StoreSpec => PushedIsSeen
<1>1. ASSUME StoreTypeOK
      PROVE  [\A id \in Id, m \in Choice(Notice) :
                reply' /\ Cardinality(Matching(id)) = 1 /\ PushNoticeColl(id, m)
                  => \A f \in DOMAIN m : Seen(id, f, m[f])']_storeVars
  <2>1. ASSUME NEW id \in Id, NEW m \in Choice(Notice), reply',
               Cardinality(Matching(id)) = 1, PushNoticeColl(id, m), NEW f \in DOMAIN m
        PROVE  Seen(id, f, m[f])'
    BY <1>1, <2>1, PushSeen
  <2> QED
    BY <2>1
<1> QED
  BY <1>1, StoreTypeCorrect, PTL DEF PushedIsSeen

\* select_coll's loop over the cursor.
Selected(docs) ==
  LET out[k \in 0..Len(docs)] == IF k = 0 THEN << >> ELSE GetRecord(docs[k], out[k - 1])
  IN  out[Len(docs)]

SelectFn(docs) ==
  CHOOSE f : f = [k \in 0..Len(docs) |->
          IF k = 0 THEN << >> ELSE GetRecord(docs[k], f[k - 1])]

\* It computes, turn by turn, what it says.
LEMMA SelectStep ==
  ASSUME NEW docs, Len(docs) \in Nat
  PROVE  /\ Selected(docs) = SelectFn(docs)[Len(docs)]
         /\ SelectFn(docs)[0] = << >>
         /\ \A k \in 1..Len(docs) :
              SelectFn(docs)[k] = GetRecord(docs[k], SelectFn(docs)[k - 1])
<1> DEFINE T == {n \in Nat : \E f : f = [k \in 0..n |->
        IF k = 0 THEN << >> ELSE GetRecord(docs[k], f[k - 1])]}
<1>1. 0 \in T
  <2>1. PICK f : f = [k \in 0..0 |-> << >>]
    OBVIOUS
  <2>2. f = [k \in 0..0 |-> IF k = 0 THEN << >> ELSE GetRecord(docs[k], f[k - 1])]
    BY <2>1
  <2> QED
    BY <2>2
<1>2. ASSUME NEW n \in Nat, n \in T PROVE n + 1 \in T
  <2>1. PICK f : f = [k \in 0..n |->
          IF k = 0 THEN << >> ELSE GetRecord(docs[k], f[k - 1])]
    BY <1>2
  <2>2. PICK g : g = [k \in 0..(n + 1) |-> IF k <= n THEN f[k] ELSE GetRecord(docs[k], f[n])]
    OBVIOUS
  <2>3. g = [k \in 0..(n + 1) |-> IF k = 0 THEN << >> ELSE GetRecord(docs[k], g[k - 1])]
    BY <2>1, <2>2
  <2>4. n + 1 \in Nat
    OBVIOUS
  <2> QED
    BY <2>3, <2>4
<1>3. Len(docs) \in Nat
  OBVIOUS
<1>4. Len(docs) \in T
  <2> HIDE DEF T
  <2>1. \A n \in 0..(Len(docs) - 1) : n \in T => n + 1 \in T
    BY <1>2, <1>3
  <2>2. \A n \in 0..Len(docs) : n \in T
    BY ONLY <1>1, <1>3, <2>1, SetInduction
  <2> QED
    BY <1>3, <2>2
<1>5. \E f : f = [k \in 0..Len(docs) |->
        IF k = 0 THEN << >> ELSE GetRecord(docs[k], f[k - 1])]
  BY <1>4
<1>6. PICK f : f = SelectFn(docs)
  OBVIOUS
<1>7. f = [k \in 0..Len(docs) |-> IF k = 0 THEN << >> ELSE GetRecord(docs[k], f[k - 1])]
  BY <1>5, <1>6 DEF SelectFn
<1>8. f[0] = << >> /\ \A k \in 1..Len(docs) : f[k] = GetRecord(docs[k], f[k - 1])
  BY <1>3, <1>7
<1>9. Selected(docs) = SelectFn(docs)[Len(docs)]
  BY DEF Selected, SelectFn
<1> QED
  BY <1>6, <1>8, <1>9

\* The string fields of every document the cursor returns are in the result,
\* unless it has none.
LEMMA SelectedHas ==
  ASSUME NEW D, NEW docs \in Seq(D), NEW j \in 1..Len(docs), DOMAIN docs[j].flat # {}
  PROVE  docs[j].flat \in Range(Selected(docs))
<1> DEFINE R == {docs[k].flat : k \in 1..Len(docs)}
<1>1. Len(docs) \in Nat
  BY LenProperties
<1>2. PICK f : f = SelectFn(docs)
  OBVIOUS
<1>3. /\ Selected(docs) = f[Len(docs)]
      /\ f[0] = << >>
      /\ \A k \in 1..Len(docs) : f[k] = GetRecord(docs[k], f[k - 1])
  BY <1>1, <1>2, SelectStep
<1>4. PICK m : m = docs[j].flat
  OBVIOUS
<1> DEFINE T == {n \in Nat : f[n] \in Seq(R) /\ (j <= n => \E i \in 1..Len(f[n]) : f[n][i] = m)}
<1>5. 0 \in T
  <2>1. << >> \in Seq(R)
    OBVIOUS
  <2>2. ~(j <= 0)
    BY <1>1
  <2> HIDE DEF R
  <2> QED
    BY <1>3, <2>1, <2>2
<1>6. ASSUME NEW n \in 0..(Len(docs) - 1), n \in T PROVE n + 1 \in T
  <2>1. n + 1 \in 1..Len(docs) /\ n + 1 - 1 = n /\ n + 1 \in Nat
    BY <1>1
  <2>2. PICK r : r = docs[n + 1].flat
    OBVIOUS
  <2>3. f[n + 1] = IF DOMAIN r = {} THEN f[n] ELSE Append(f[n], r)
    <3>1. f[n + 1] = GetRecord(docs[n + 1], f[n])
      BY <1>3, <2>1
    <3> QED
      BY <2>2, <3>1 DEF GetRecord
  <2>4. r \in R
    BY <2>1, <2>2
  <2>5. f[n] \in Seq(R) /\ (j <= n => \E i \in 1..Len(f[n]) : f[n][i] = m)
    BY <1>6
  <2>6. j = n + 1 => DOMAIN r # {} /\ r = m
    BY <1>4, <2>2
  <2> HIDE DEF R
  <2>7. CASE DOMAIN r = {}
    <3>1. f[n + 1] = f[n] /\ j # n + 1
      BY <2>3, <2>6, <2>7
    <3> QED
      BY <1>1, <2>1, <2>5, <3>1
  <2>8. CASE DOMAIN r # {}
    <3>1. f[n + 1] = Append(f[n], r)
      BY <2>3, <2>8
    <3>2. /\ f[n + 1] \in Seq(R)
          /\ Len(f[n + 1]) = Len(f[n]) + 1
          /\ \A i \in 1..Len(f[n]) : f[n + 1][i] = f[n][i]
          /\ f[n + 1][Len(f[n]) + 1] = r
      BY <2>4, <2>5, <3>1, AppendProperties
    <3>3. Len(f[n]) \in Nat
      BY <2>5, LenProperties
    <3>4. j <= n + 1 => \E i \in 1..Len(f[n + 1]) : f[n + 1][i] = m
      <4>1. CASE j = n + 1
        BY <2>6, <3>2, <3>3, <4>1
      <4>2. CASE j <= n
        <5>1. PICK i \in 1..Len(f[n]) : f[n][i] = m
          BY <2>5, <4>2
        <5>2. i \in 1..Len(f[n + 1]) /\ f[n + 1][i] = m
          BY <3>2, <3>3, <5>1
        <5> QED
          BY <5>2
      <4> QED
        BY <1>1, <4>1, <4>2
    <3>5. f[n + 1] \in Seq(R)
      BY <3>2
    <3> QED
      BY <2>1, <3>4, <3>5
  <2> QED
    BY <2>7, <2>8
<1> HIDE DEF R
<1>7. Len(docs) \in T
  <2> HIDE DEF T
  <2>1. \A n \in 0..(Len(docs) - 1) : n \in T => n + 1 \in T
    BY <1>6
  <2>2. \A n \in 0..Len(docs) : n \in T
    BY ONLY <1>1, <1>5, <2>1, SetInduction
  <2> QED
    BY <1>1, <2>2
<1>8. PICK i \in 1..Len(f[Len(docs)]) : f[Len(docs)][i] = m
  BY <1>1, <1>7
<1>9. DOMAIN f[Len(docs)] = 1..Len(f[Len(docs)])
  BY <1>7, LenProperties
<1> QED
  BY <1>3, <1>4, <1>8, <1>9 DEF Range

\* An update_coll that returned true, with a query that matched.
LEMMA UpdateFound ==
  ASSUME StoreTypeOK, NEW query \in Id, NEW m \in Record, reply', Matching(query) # {},
         Has(m, query), update_coll(query, m)
  PROVE  m \in Range(select_coll(query)')
<1>1. coll \in Seq(Doc) /\ Matches(coll, query) = Matching(query)
  BY DEF StoreTypeOK, Matching, Matches
<1>2. PICK i : i = Min(Matches(coll, query))
  OBVIOUS
<1>3. i \in 1..Len(coll)
  BY <1>1, <1>2, FirstMatch
<1>4. PICK d : d = [flat |-> m, arrays |-> << >>]
  OBVIOUS
<1>5. d \in Doc /\ d.flat = m
  BY <1>4, FlatDoc
<1>6. coll' = [coll EXCEPT ![i] = d] /\ DOMAIN m # {}
  BY <1>1, <1>2, <1>4 DEF update_coll, Command, Refuse, Updated, ReplaceAt
<1>7. PICK c : c = coll'
  OBVIOUS
<1>8. c \in Seq(Doc) /\ Len(c) = Len(coll) /\ c[i] = d
  <2>1. /\ [coll EXCEPT ![i] = d] \in Seq(Doc)
        /\ Len([coll EXCEPT ![i] = d]) = Len(coll)
        /\ [coll EXCEPT ![i] = d][i] = d
    BY <1>1, <1>3, <1>5, ReplacedType
  <2> QED
    BY <1>6, <1>7, <2>1
<1>9. i \in Matches(c, query) \cap DOMAIN c
  <2>1. i \in DOMAIN c
    BY <1>3, <1>8, LenProperties
  <2> QED
    BY <1>5, <1>8, <2>1 DEF Matches
<1>10. PICK docs : docs = Kept(c, Matches(c, query))
  OBVIOUS
<1>11. PICK j \in 1..Len(docs) : docs[j] = d
  <2>1. \E j \in 1..Len(docs) : docs[j] = c[i]
    BY <1>8, <1>9, <1>10, KeptAll
  <2> QED
    BY <1>8, <2>1
<1>12. docs \in Seq({c[k] : k \in Matches(c, query) \cap DOMAIN c})
  BY <1>8, <1>10, KeptType
<1>13. m \in Range(Selected(docs))
  BY <1>5, <1>6, <1>11, <1>12, SelectedHas
<1>14. select_coll(query)' = Selected(docs)
  BY <1>7, <1>10 DEF select_coll, Selected, Matching, Matches
<1> QED
  BY <1>13, <1>14

\* For any records and bounds: once update_coll has returned true for a query
\* that matched, select_coll returns the record as it was given.
THEOREM UpdatedIsFoundAlways == StoreSpec => UpdatedIsFound
<1>1. ASSUME StoreTypeOK
      PROVE  [\A query \in Id, m \in Record :
                reply' /\ Matching(query) # {} /\ Has(m, query) /\ update_coll(query, m)
                  => m \in Range(select_coll(query)')]_storeVars
  <2>1. ASSUME NEW query \in Id, NEW m \in Record, reply', Matching(query) # {},
               Has(m, query), update_coll(query, m)
        PROVE  m \in Range(select_coll(query)')
    BY <1>1, <2>1, UpdateFound
  <2> QED
    BY <2>1
<1> QED
  BY <1>1, StoreTypeCorrect, PTL DEF UpdatedIsFound
=============================================================================
