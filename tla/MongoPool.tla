----------------------------- MODULE MongoPool -----------------------------
(***************************************************************************)
(* mong-c-test: DBIOMongoDB and the MongoDBConnectionPool behind it, used  *)
(* by several threads.  main makes the pool (api.mongodb_init) and starts  *)
(* threads, each with a copy of api, hence a share of its m_mongodb_ptr.   *)
(* A call pops a client from the mongoc pool, works on a collection with   *)
(* it and pushes it back; the steps of different threads interleave.       *)
(*                                                                         *)
(* The mongoc library is external.  Its pool gives out at most             *)
(* max_pool_size clients and pop waits while they are all out; with        *)
(* waitQueueTimeoutMS in the url, pop then gives up and returns null.      *)
(* mongoc_cursor_next sets doc, to null when it returns false.  After      *)
(* mongoc_cleanup, or on a destroyed pool, every call of it is undefined.  *)
(* What a document holds is left out here; NoticeStore models it.          *)
(***************************************************************************)
EXTENDS Integers, FiniteSets

CONSTANTS
  Thread,            \* the threads main starts
  Client,            \* the clients of one pool, max_pool_size of them
  NoClient,
  WaitQueueTimeout,  \* whether the url sets waitQueueTimeoutMS
  MaxPools,          \* bound: calls of mongodb_init
  MaxCalls,          \* bound: calls per thread
  MaxRows            \* bound: documents a query matches

ASSUME MongoAssumption ==
  /\ NoClient \notin Client
  /\ WaitQueueTimeout \in BOOLEAN
  /\ MaxPools \in Nat /\ MaxCalls \in Nat /\ MaxRows \in Nat

VARIABLES
  pools,      \* the pools made so far are 1..pools
  destroyed,  \* those mongoc_client_pool_destroy was called on
  mongoc,     \* the library: "up", or "cleaned" by mongoc_cleanup
  api,        \* the pool main's DBIOMongoDB points to, 0 for null
  ptr,        \* the pool each thread's copy points to
  pc,         \* where each thread is
  op,         \* the call it is in
  client,     \* the client it has popped
  rows,       \* documents its cursor has yet to return
  doc,        \* its local doc: "wild" (uninitialized), "null" or "row"
  result,     \* what that call returned
  calls,      \* calls it has made
  taken,      \* of each pool, the clients popped and not pushed back
  cursors,    \* the clients of each pool that have a cursor open
  undefined   \* "no"; undefined behaviour met on a "pool" or on a "doc"

mainVars == <<pools, destroyed, mongoc, api>>
callVars == <<op, rows, doc, result>>
poolVars == <<taken, cursors>>
vars == <<mainVars, ptr, pc, callVars, client, calls, poolVars, undefined>>

Writes == {"insert", "delete", "update", "batch_insert"}
Selects == {"select", "select_by_fields"}
Ops == Writes \cup Selects \cup {"find"}

\* "off": not started.  A call is in "pop", in "use" with a client, in "scan"
\* and then at the "end" of its cursor's loop, and in "push".
PC == {"off", "idle", "pop", "use", "scan", "end", "push"}
Holding == {"use", "scan", "end", "push"}

TypeOK ==
  /\ pools \in Nat
  /\ destroyed \subseteq 1..pools
  /\ mongoc \in {"up", "cleaned"}
  /\ api \in 0..pools
  /\ ptr \in [Thread -> 0..pools]
  /\ pc \in [Thread -> PC]
  /\ op \in [Thread -> Ops]
  /\ client \in [Thread -> Client \cup {NoClient}]
  /\ \A t \in Thread : client[t] \in Client <=> pc[t] \in Holding
  /\ rows \in [Thread -> Nat]
  /\ doc \in [Thread -> {"wild", "null", "row"}]
  /\ result \in [Thread -> BOOLEAN]
  /\ calls \in [Thread -> Nat]
  /\ taken \in [1..MaxPools -> SUBSET Client]
  /\ cursors \in [1..MaxPools -> SUBSET Client]
  /\ undefined \in {"no", "pool", "doc"}

\* api is a copy of the singleton, whose m_mongodb_ptr is null.
Init ==
  /\ pools = 0 /\ destroyed = {} /\ mongoc = "up" /\ api = 0
  /\ ptr = [t \in Thread |-> 0]
  /\ pc = [t \in Thread |-> "off"]
  /\ op = [t \in Thread |-> "insert"]
  /\ client = [t \in Thread |-> NoClient]
  /\ rows = [t \in Thread |-> 0]
  /\ doc = [t \in Thread |-> "null"]
  /\ result = [t \in Thread |-> FALSE]
  /\ calls = [t \in Thread |-> 0]
  /\ taken = [p \in 1..MaxPools |-> {}]
  /\ cursors = [p \in 1..MaxPools |-> {}]
  /\ undefined = "no"

\* The clients of pool p that are out and that no call will push back.
Lost(p) == taken[p] \ {client[t] : t \in {u \in Thread : ptr[u] = p}}
-----------------------------------------------------------------------------
\* Mutant: the pool that mongodb_init replaces is destroyed with its object.
create_client_pool_destroying ==
  /\ pools' = pools + 1
  /\ api' = pools + 1
  /\ destroyed' = destroyed \cup ({api} \ {0})

\* MongoDBConnectionPool::mongodb_init and create_client_pool, on the object
\* DBIOMongoDB::mongodb_init has put in place of the old one.  The destructor
\* of the old one is empty: its mongoc pool stays as it is.
create_client_pool ==
  /\ pools' = pools + 1
  /\ api' = pools + 1
  /\ UNCHANGED destroyed

\* DBIOMongoDB::mongodb_init on api.
mongodb_init ==
  /\ undefined = "no"
  /\ pools < MaxPools
  /\ IF mongoc = "up"
       THEN create_client_pool /\ UNCHANGED undefined
       ELSE undefined' = "pool" /\ UNCHANGED <<pools, api, destroyed>>
  /\ UNCHANGED <<mongoc, ptr, pc, callVars, client, calls, poolVars>>

\* destory_client_pool: m_url and m_pool keep the addresses of what it
\* destroys, so that a second call passes the test for null.
destory_client_pool ==
  IF api \in destroyed \/ mongoc = "cleaned"
    THEN undefined' = "pool" /\ UNCHANGED <<destroyed, mongoc>>
    ELSE /\ destroyed' = destroyed \cup {api}
         /\ mongoc' = "cleaned"
         /\ UNCHANGED undefined

\* DBIOMongoDB::mongodb_cleanup on api, once it has been initialized.
mongodb_cleanup ==
  /\ undefined = "no"
  /\ api # 0
  /\ destory_client_pool
  /\ UNCHANGED <<pools, api, ptr, pc, callVars, client, calls, poolVars>>

\* main starts a thread after mongodb_init and hands it a copy of api.
StartThread(t) ==
  /\ undefined = "no"
  /\ pc[t] = "off" /\ api # 0
  /\ pc' = [pc EXCEPT ![t] = "idle"]
  /\ ptr' = [ptr EXCEPT ![t] = api]
  /\ UNCHANGED <<mainVars, callVars, client, calls, poolVars, undefined>>
-----------------------------------------------------------------------------
\* insert (InsertNoticeColl), delete, update and select with an empty map
\* return false before anything else.
RefuseEmpty(t, o) ==
  /\ undefined = "no"
  /\ pc[t] = "idle" /\ calls[t] < MaxCalls
  /\ o \in {"insert", "delete", "update", "select"}
  /\ calls' = [calls EXCEPT ![t] = @ + 1]
  /\ result' = [result EXCEPT ![t] = FALSE]
  /\ op' = [op EXCEPT ![t] = o]
  /\ UNCHANGED <<mainVars, ptr, pc, client, rows, doc, poolVars, undefined>>

\* A call of DBIOMongoDB, or of batch_insert_coll: it builds its bson and
\* asks for a client.
Call(t, o) ==
  /\ undefined = "no"
  /\ pc[t] = "idle" /\ calls[t] < MaxCalls
  /\ calls' = [calls EXCEPT ![t] = @ + 1]
  /\ result' = [result EXCEPT ![t] = FALSE]
  /\ op' = [op EXCEPT ![t] = o]
  /\ pc' = [pc EXCEPT ![t] = "pop"]
  /\ UNCHANGED <<mainVars, ptr, client, rows, doc, poolVars, undefined>>

\* Whether the library may still be called on t's pool.
Usable(t) == undefined = "no" /\ mongoc = "up" /\ ptr[t] \notin destroyed

\* A call that goes on after its pool is gone.
UseDestroyed(t) ==
  /\ undefined = "no"
  /\ pc[t] \notin {"off", "idle"}
  /\ ~Usable(t)
  /\ undefined' = "pool"
  /\ UNCHANGED <<mainVars, ptr, pc, callVars, client, calls, poolVars>>

\* mongoc_client_pool_pop returns a client; mongoc_client_get_collection.
Pop(t) ==
  /\ Usable(t) /\ pc[t] = "pop"
  /\ \E c \in Client \ taken[ptr[t]] :
       /\ taken' = [taken EXCEPT ![ptr[t]] = @ \cup {c}]
       /\ client' = [client EXCEPT ![t] = c]
  /\ pc' = [pc EXCEPT ![t] = "use"]
  /\ UNCHANGED <<mainVars, ptr, op, rows, doc, result, calls, cursors, undefined>>

\* Every operation: pop has waited in vain, and the call returns false.
PopNull(t) ==
  /\ Usable(t) /\ pc[t] = "pop"
  /\ WaitQueueTimeout /\ taken[ptr[t]] = Client
  /\ pc' = [pc EXCEPT ![t] = "idle"]
  /\ UNCHANGED <<mainVars, ptr, callVars, client, calls, poolVars, undefined>>

\* mongoc_client_pool_push and return.
Push(t) ==
  /\ Usable(t) /\ pc[t] = "push"
  /\ taken' = [taken EXCEPT ![ptr[t]] = @ \ {client[t]}]
  /\ client' = [client EXCEPT ![t] = NoClient]
  /\ pc' = [pc EXCEPT ![t] = "idle"]
  /\ UNCHANGED <<mainVars, ptr, callVars, calls, cursors, undefined>>
-----------------------------------------------------------------------------
\* Mutant: the error path does not return after its push.
RunCommandFallsThrough(t) ==
  /\ \E ok \in BOOLEAN :
       /\ result' = [result EXCEPT ![t] = ok]
       /\ taken' = [taken EXCEPT ![ptr[t]] = IF ok THEN @ ELSE @ \ {client[t]}]
  /\ pc' = [pc EXCEPT ![t] = "push"]
  /\ UNCHANGED client

\* Mutant: the error path returns without a push.
RunCommandErrorKeeps(t) ==
  /\ \E ok \in BOOLEAN :
       /\ result' = [result EXCEPT ![t] = ok]
       /\ pc' = [pc EXCEPT ![t] = IF ok THEN "push" ELSE "idle"]
       /\ client' = [client EXCEPT ![t] = IF ok THEN @ ELSE NoClient]
  /\ UNCHANGED taken

\* The command fails or not, and either way the client is pushed.
RunCommand(t) ==
  /\ \E ok \in BOOLEAN : result' = [result EXCEPT ![t] = ok]
  /\ pc' = [pc EXCEPT ![t] = "push"]
  /\ UNCHANGED <<client, taken>>

\* insert_coll, delete_coll and update_coll.
Write(t) ==
  /\ Usable(t) /\ pc[t] = "use" /\ op[t] \in {"insert", "delete", "update"}
  /\ RunCommand(t)
  /\ UNCHANGED <<mainVars, ptr, op, rows, doc, calls, cursors, undefined>>

\* batch_insert_coll, which no method of DBIOMongoDB calls.
batch_insert_coll(t) ==
  /\ Usable(t) /\ pc[t] = "use" /\ op[t] = "batch_insert"
  /\ RunCommand(t)
  /\ UNCHANGED <<mainVars, ptr, op, rows, doc, calls, cursors, undefined>>

\* mongoc_collection_find, in the selects and in find_coll.  A query that the
\* driver rejects makes a cursor that is in error from the start.
OpenCursor(t) ==
  /\ Usable(t) /\ pc[t] = "use" /\ op[t] \notin Writes
  /\ cursors' = [cursors EXCEPT ![ptr[t]] = @ \cup {client[t]}]
  /\ doc' = [doc EXCEPT ![t] = "wild"]
  /\ \E n \in 0..MaxRows, rejected \in BOOLEAN :
       /\ rows' = [rows EXCEPT ![t] = n]
       /\ result' = [result EXCEPT ![t] = op[t] \in Selects /\ ~rejected]
       /\ pc' = [pc EXCEPT ![t] = IF rejected THEN "end" ELSE "scan"]
  /\ UNCHANGED <<mainVars, ptr, op, client, calls, taken, undefined>>

\* The loops' mongoc_cursor_next finds no document left, or an error.
ScanStops(t) ==
  /\ Usable(t) /\ pc[t] = "scan"
  /\ doc' = [doc EXCEPT ![t] = "null"]
  /\ \/ rows[t] = 0 /\ UNCHANGED result
     \/ result' = [result EXCEPT ![t] = FALSE]
  /\ pc' = [pc EXCEPT ![t] = "end"]
  /\ UNCHANGED <<mainVars, ptr, op, rows, client, calls, poolVars, undefined>>

\* select_coll and select_coll_by_fields: next returns a document.
SelectRow(t) ==
  /\ Usable(t) /\ pc[t] = "scan" /\ op[t] \in Selects
  /\ rows[t] > 0
  /\ rows' = [rows EXCEPT ![t] = @ - 1]
  /\ doc' = [doc EXCEPT ![t] = "row"]
  /\ UNCHANGED <<mainVars, ptr, pc, op, result, client, calls, poolVars, undefined>>

\* Mutant: without mongoc_cursor_destroy.
CursorKept(t) ==
  /\ pc' = [pc EXCEPT ![t] = "push"]
  /\ UNCHANGED cursors

\* mongoc_cursor_destroy; then push.
CursorDestroyed(t) ==
  /\ pc' = [pc EXCEPT ![t] = "push"]
  /\ cursors' = [cursors EXCEPT ![ptr[t]] = @ \ {client[t]}]

\* The ends of the selects: if (doc) free_bjson(doc), and delete doc.  If next
\* was never called, doc has no value: what follows is undefined, unless the
\* stack happens to hold a null there.
SelectEnd(t) ==
  /\ Usable(t) /\ pc[t] = "end" /\ op[t] \in Selects
  /\ \/ CursorDestroyed(t) /\ UNCHANGED undefined
     \/ /\ doc[t] = "wild"
        /\ undefined' = "doc"
        /\ UNCHANGED <<pc, cursors>>
  /\ UNCHANGED <<mainVars, ptr, op, rows, doc, result, client, calls, taken>>

\* find_coll on its first document: return true at once, the cursor open and
\* the client not pushed.
FindRow(t) ==
  /\ Usable(t) /\ pc[t] = "scan" /\ op[t] = "find"
  /\ rows[t] > 0
  /\ doc' = [doc EXCEPT ![t] = "row"]
  /\ result' = [result EXCEPT ![t] = TRUE]
  /\ client' = [client EXCEPT ![t] = NoClient]
  /\ pc' = [pc EXCEPT ![t] = "idle"]
  /\ UNCHANGED <<mainVars, ptr, op, rows, calls, poolVars, undefined>>

\* find_coll, no document found.
FindEnd(t) ==
  /\ Usable(t) /\ pc[t] = "end" /\ op[t] = "find"
  /\ CursorDestroyed(t)
  /\ UNCHANGED <<mainVars, ptr, op, rows, doc, result, client, calls, taken, undefined>>
-----------------------------------------------------------------------------
InCall(t) ==
  \/ UseDestroyed(t)
  \/ Pop(t) \/ PopNull(t) \/ Push(t)
  \/ Write(t) \/ batch_insert_coll(t)
  \/ OpenCursor(t) \/ ScanStops(t)
  \/ SelectRow(t) \/ SelectEnd(t)
  \/ FindRow(t) \/ FindEnd(t)

Next ==
  \/ mongodb_init
  \/ mongodb_cleanup
  \/ \E t \in Thread : StartThread(t)
  \/ \E t \in Thread, o \in Ops : Call(t, o) \/ RefuseEmpty(t, o)
  \/ \E t \in Thread : InCall(t)

Spec == Init /\ [][Next]_vars

\* A thread that can go on does: the kernel schedules it, the server or a
\* socket timeout answers it, and push wakes a waiter in pop.  Every thread
\* makes a bounded number of calls, so weak fairness is enough for pop.  That
\* pop gives up is not counted on: main's url sets no waitQueueTimeoutMS.
Fairness == \A t \in Thread : WF_vars(InCall(t) /\ ~PopNull(t))

FairSpec == Spec /\ Fairness
-----------------------------------------------------------------------------
\* A client is in the hands of one call at most, and then it is out of its
\* pool: whatever way a call of insert, delete, update, select or find takes
\* through its error paths, it pushes its client at most once.
OneOwner ==
  \A t \in Thread : pc[t] \in Holding =>
    /\ client[t] \in taken[ptr[t]]
    /\ \A u \in Thread :
         pc[u] \in Holding /\ ptr[u] = ptr[t] /\ client[u] = client[t] => u = t

\* A client in the pool has no cursor open on it: whoever pops it next never
\* shares its connection with the cursor of an earlier select or find.
NoCursorLeft == \A p \in 1..MaxPools : cursors[p] \subseteq taken[p]

\* mongodb_init under load disturbs no call in flight: unless main calls
\* mongodb_cleanup, no thread ever touches a destroyed pool.
ReinitIsSafe == undefined = "pool" => mongoc = "cleaned"

\* Only a find_coll that returns true loses a client; every other return, on
\* error paths too, leaves the clients as they are or gives one back.
OnlyFindLoses ==
  [][\A p \in 1..MaxPools : Lost(p)' \subseteq Lost(p)
       \/ \E t \in Thread : op[t] = "find" /\ pc[t] = "scan" /\ pc'[t] = "idle" /\ result'[t]]_vars

\* A call that has begun returns, whether or not pop ever times out, unless
\* the program has met undefined behaviour, or pop waits on a pool whose
\* clients have all been lost to find_coll, each with its cursor open.
CallReturns ==
  \A t \in Thread :
    pc[t] \notin {"off", "idle"} ~>
      \/ pc[t] = "idle"
      \/ undefined # "no"
      \/ \E p \in 1..pools : ptr[t] = p /\ Client \subseteq Lost(p) \cap cursors[p]
=============================================================================
