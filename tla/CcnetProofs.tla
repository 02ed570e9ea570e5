----------------------------- MODULE CcnetProofs -----------------------------
(***************************************************************************)
(* Theorems about two parts of ccnet that stand alone.                     *)
(*                                                                         *)
(* Buffer, for every alphabet, every reserved and initial size and every   *)
(* sequence of calls: the indices stay in bounds, a drained buffer is      *)
(* reset, and the buffer implements a queue of bytes.                      *)
(*                                                                         *)
(* LoopThreads, for any number of threads, with or without a callback: the *)
(* loops of the pool are ready when start() takes them, and getNextLoop    *)
(* hands them out in turn.  The first needs to know how far a thread is    *)
(* with its callback, the second which loops the last num_threads_ calls   *)
(* returned.                                                               *)
(***************************************************************************)
EXTENDS Buffer, LoopThreads, TLAPS

\* Buffer.

\* The constructor establishes the invariant.
LEMMA InitInv == BufferInit => BufferInv
<1> SUFFICES ASSUME BufferInit PROVE BufferInv
  OBVIOUS
<1>1. HeadSize + InitialSize \in Nat
  BY SizeAssumption
<1>2. buffer_ \in Seq(Byte) /\ Len(buffer_) = HeadSize + InitialSize
  BY <1>1, ByteAssumption DEF BufferInit
<1> QED
  BY <1>2, SizeAssumption DEF BufferInit, BufferInv, BufferTypeOK, IndicesInBounds, DrainedIsReset, readableBytes

\* makeSpace(len) leaves a vector with room for len bytes after write_index_
\* and the old cells in place.
LEMMA MakeSpace ==
  ASSUME BufferInv, NEW len \in Nat
  PROVE  /\ makeSpace(len) \in Seq(Byte)
         /\ Len(makeSpace(len)) >= Len(buffer_)
         /\ Len(makeSpace(len)) >= write_index_ + len
         /\ \A i \in 1..Len(buffer_) : makeSpace(len)[i] = buffer_[i]
<1>1. CASE len > writableBytes
  <2>1. write_index_ + len \in Nat /\ write_index_ + len > Len(buffer_)
    BY <1>1 DEF BufferInv, BufferTypeOK, writableBytes
  <2>2. makeSpace(len) = Resized(write_index_ + len)
    BY <1>1 DEF makeSpace
  <2>3. Resized(write_index_ + len) \in Seq(Byte)
    BY <2>1, ByteAssumption DEF Resized, BufferInv, BufferTypeOK
  <2>4. Len(Resized(write_index_ + len)) = write_index_ + len
    BY <2>1 DEF Resized
  <2>5. \A i \in 1..Len(buffer_) : Resized(write_index_ + len)[i] = buffer_[i]
    BY <2>1 DEF Resized, BufferInv, BufferTypeOK
  <2> QED
    BY <2>1, <2>2, <2>3, <2>4, <2>5
<1>2. CASE ~(len > writableBytes)
  BY <1>2 DEF makeSpace, writableBytes, BufferInv, BufferTypeOK, IndicesInBounds
<1> QED
  BY <1>1, <1>2

\* Storing n bytes of data from write_index_ on keeps the length and every
\* cell outside the n cells written.
LEMMA StoredProperties ==
  ASSUME BufferInv, NEW cells \in Seq(Byte), NEW data \in Seq(Byte), NEW n \in 0..Len(data),
         write_index_ + n <= Len(cells)
  PROVE  /\ Stored(cells, data, n) \in Seq(Byte)
         /\ Len(Stored(cells, data, n)) = Len(cells)
         /\ \A i \in 1..write_index_ : Stored(cells, data, n)[i] = cells[i]
<1>1. \A i \in 1..Len(cells) : i > write_index_ /\ i <= write_index_ + n =>
        data[i - write_index_] \in Byte
  BY DEF BufferInv, BufferTypeOK
<1>2. Len(cells) \in Nat
  OBVIOUS
<1>3. Stored(cells, data, n) \in [1..Len(cells) -> Byte]
  BY <1>1 DEF Stored
<1>4. Stored(cells, data, n) \in Seq(Byte) /\ Len(Stored(cells, data, n)) = Len(cells)
  BY <1>2, <1>3
<1>5. \A i \in 1..write_index_ : Stored(cells, data, n)[i] = cells[i]
  BY <1>2 DEF Stored, BufferInv, BufferTypeOK
<1> QED
  BY <1>4, <1>5

\* A step that only adds bytes after write_index_ keeps the invariant and is
\* a Put of the queue: it is what append and readFd have in common.
LEMMA FillStep ==
  ASSUME BufferInv,
         NEW cells \in Seq(Byte), NEW data \in Seq(Byte), NEW n \in 0..Len(data),
         write_index_ + n <= Len(cells), Len(cells) >= Len(buffer_),
         \A i \in 1..Len(buffer_) : cells[i] = buffer_[i],
         buffer_' = Stored(cells, data, n),
         write_index_' = write_index_ + n,
         read_index_' = read_index_
  PROVE  BufferInv' /\ Queue!Put
<1> USE DEF BufferInv, BufferTypeOK, IndicesInBounds
<1>1. /\ buffer_' \in Seq(Byte)
      /\ Len(buffer_') = Len(cells)
      /\ \A i \in 1..write_index_ : buffer_'[i] = buffer_[i]
  BY StoredProperties
<1>2. BufferInv'
  BY <1>1, SizeAssumption DEF DrainedIsReset, readableBytes
<1>3. readableBytes \in Nat /\ readableBytes' \in Nat /\ readableBytes' >= readableBytes
  BY <1>1 DEF readableBytes
<1>4. Len(Contents) = readableBytes /\ Len(Contents') = readableBytes'
  BY <1>3 DEF Contents
<1>5. Contents' \in Seq(Byte)
  <2>1. \A i \in 1..readableBytes' : buffer_'[read_index_' + i] \in Byte
    BY <1>1, <1>2, <1>3, SizeAssumption DEF readableBytes
  <2>2. Contents' \in [1..readableBytes' -> Byte]
    BY <2>1 DEF Contents
  <2> QED
    BY <2>2, <1>3
<1>6. \A i \in 1..Len(Contents) : Contents'[i] = Contents[i]
  <2> SUFFICES ASSUME NEW i \in 1..readableBytes PROVE Contents'[i] = Contents[i]
    BY <1>4
  <2>1. read_index_ + i \in 1..write_index_
    BY <1>3, SizeAssumption DEF readableBytes
  <2>2. i \in 1..readableBytes'
    BY <1>3
  <2> QED
    BY <2>1, <2>2, <1>1 DEF Contents
<1> QED
  BY <1>2, <1>3, <1>4, <1>5, <1>6 DEF Queue!Put

\* A step that moves read_index_ forward by k, or resets both indices when
\* nothing is left, keeps the invariant and is a Take of the queue.
LEMMA DrainStep ==
  ASSUME BufferInv,
         \/ \E k \in Nat : k < readableBytes /\ read_index_' = read_index_ + k
                           /\ write_index_' = write_index_ /\ buffer_' = buffer_
         \/ retrieveAll
  PROVE  BufferInv' /\ Queue!Take
<1> USE DEF BufferInv, BufferTypeOK, IndicesInBounds
<1>0. readableBytes \in Nat /\ Len(Contents) = readableBytes
  BY DEF readableBytes, Contents
<1>1. CASE retrieveAll
  <2>1. BufferInv'
    BY <1>1, SizeAssumption DEF retrieveAll, DrainedIsReset, readableBytes
  <2>2. Contents' = [i \in 1..(Len(Contents) - readableBytes) |-> Contents[i + readableBytes]]
    <3>1. readableBytes' = 0 /\ Len(Contents) - readableBytes = 0
      BY <1>0, <1>1, SizeAssumption DEF retrieveAll, readableBytes
    <3>2. 1..readableBytes' = {} /\ 1..(Len(Contents) - readableBytes) = {}
      BY <3>1
    <3> QED
      BY <3>2, Zenon DEF Contents
  <2> QED
    BY <2>1, <2>2, <1>0 DEF Queue!Take
<1>2. ASSUME NEW k \in Nat, k < readableBytes, read_index_' = read_index_ + k,
             write_index_' = write_index_, buffer_' = buffer_
      PROVE  BufferInv' /\ Queue!Take
  <2>1. BufferInv'
    BY <1>2, SizeAssumption DEF DrainedIsReset, readableBytes
  <2>2. readableBytes' = readableBytes - k
    BY <1>2 DEF readableBytes
  <2>3. Contents' = [i \in 1..(Len(Contents) - k) |-> Contents[i + k]]
    <3>1. \A i \in 1..(readableBytes - k) :
            buffer_'[read_index_' + i] = Contents[i + k]
      BY <1>0, <1>2 DEF Contents
    <3> QED
      BY <3>1, <2>2, <1>0 DEF Contents
  <2> QED
    BY <2>1, <2>3, <1>0, <1>2, SMTT(30) DEF Queue!Take
<1> QED
  BY <1>1, <1>2

\* Every call keeps the invariant and is a step of the queue.
LEMMA NextInv == BufferInv /\ [BufferNext]_bufferVars => BufferInv' /\ [Queue!QNext]_Contents
<1> SUFFICES ASSUME BufferInv, [BufferNext]_bufferVars PROVE BufferInv' /\ [Queue!QNext]_Contents
  OBVIOUS
<1>1. ASSUME NEW data \in Chunks, append(data) PROVE BufferInv' /\ Queue!Put
  <2>1. data \in Seq(Byte) /\ Len(data) \in 0..Len(data)
    BY ChunkAssumption
  <2>2. Len(data) \in Nat
    BY <2>1
  <2> QED
    BY <1>1, <2>1, <2>2, MakeSpace, FillStep DEF append
<1>2. ASSUME NEW sock \in Chunks, readFd(sock) PROVE BufferInv' /\ Queue!Put
  <2>1. sock \in Seq(Byte)
    BY ChunkAssumption
  <2>2. ReadCount(sock) \in 0..Len(sock) /\ write_index_ + ReadCount(sock) <= Len(buffer_)
    BY <2>1 DEF ReadCount, writableBytes, BufferInv, BufferTypeOK, IndicesInBounds
  <2>3. buffer_ \in Seq(Byte) /\ Len(buffer_) >= Len(buffer_)
    BY DEF BufferInv, BufferTypeOK
  <2> QED
    BY <1>2, <2>1, <2>2, <2>3, FillStep DEF readFd
<1>3. ASSUME NEW len \in Lengths, retrieve(len) PROVE BufferInv' /\ Queue!Take
  <2>1. len \in Nat
    BY LengthAssumption
  <2> QED
    BY <1>3, <2>1, DrainStep DEF retrieve
<1>4. CASE retrieveAll
  BY <1>4, DrainStep DEF Queue!QNext
<1>5. CASE UNCHANGED bufferVars
  BY <1>5 DEF bufferVars, BufferInv, BufferTypeOK, IndicesInBounds, DrainedIsReset, readableBytes, Contents
<1> QED
  BY <1>1, <1>2, <1>3, <1>4, <1>5 DEF BufferNext, Queue!QNext

\* Whatever the calls, types and indices are right and a drained buffer is
\* reset (Buffer::retrieve, retrieveAll, append, readFd).
THEOREM BufferSafe == BufferSpec => []BufferInv
BY InitInv, NextInv, PTL DEF BufferSpec

\* An empty buffer shows an empty queue.
LEMMA InitQueue == BufferInit => Queue!QInit
<1> SUFFICES ASSUME BufferInit PROVE Contents = << >>
  BY DEF Queue!QInit
<1>1. readableBytes = 0
  BY SizeAssumption DEF BufferInit, readableBytes
<1> QED
  BY <1>1 DEF Contents

\* Buffer implements ByteQueue: its users may reason with a queue of bytes.
THEOREM BufferImplementsByteQueue == BufferSpec => ImplementsByteQueue
<1>1. BufferInit => Queue!QInit
  BY InitQueue
<1>2. BufferInv /\ [BufferNext]_bufferVars => BufferInv' /\ [Queue!QNext]_Contents
  BY NextInv
<1> QED
  BY <1>1, <1>2, InitInv, PTL DEF BufferSpec, ImplementsByteQueue, Queue!QSpec
------------------------------------------------------------------------------
\* LoopThreads.

\* A thread that has got past its callback has called it, or ran ahead.
PastCallback ==
  \A t \in Thread :
    t \in loop_ \/ tpc[t] \in {"lock", "publish", "unlock", "loop"} =>
      t \in early \/ (HasCallback => t \in called)

\* loops_ holds the loops of the first threads, which are published.
InOrder ==
  /\ Len(loops_) <= num_threads_
  /\ \A k \in 1..Len(loops_) : loops_[k] = k /\ k \in loop_

\* start() constructs one EventLoopThread after the other.
OneByOne ==
  \A t \in Thread :
    /\ t > Current => made[t] = 0
    /\ pc = "construct" /\ t = Current => made[t] < CALLBACK

\* Loops are handed out only when all are there.
HandingOut ==
  /\ pc = "started" => Len(loops_) = num_threads_
  /\ given # << >> \/ next_ # 0 => pc = "started"
  /\ next_ \in 0..num_threads_ /\ (next_ # 0 => next_ < num_threads_)

\* The k-th last loop handed out is k places before next_, round the end.
Recent ==
  \A k \in 0..num_threads_ - 1 :
    k < Len(given) =>
      given[Len(given) - k] = IF next_ - k >= 1 THEN next_ - k ELSE next_ - k + num_threads_

LoopInv == TypeOK /\ PastCallback /\ InOrder /\ OneByOne /\ HandingOut /\ Recent /\ InTurn

LEMMA LoopInit == Init => LoopInv
BY LoopThreadsAssumption
   DEF Init, LoopInv, TypeOK, PastCallback, InOrder, OneByOne, HandingOut, Recent,
       InTurn, Thread, Current, THREAD, MUTEX, COND, CALLBACK, base_loop_

\* The steps of the owner in start() and of the threads.
StartStep == StartOwner \/ Spurious \/ \E t \in Thread : ThreadFunc(t)

LEMMA StartTypes == LoopInv /\ StartStep => TypeOK'
<1> SUFFICES ASSUME LoopInv, StartStep PROVE TypeOK'
  OBVIOUS
<1> USE LoopThreadsAssumption DEF LoopInv, TypeOK, THREAD, MUTEX, COND, CALLBACK
<1>1. CASE Construct
  BY <1>1 DEF Construct, OneByOne
<1>2. CASE StartLoopLock \/ StartLoopBlock \/ Spurious \/ Started
  BY <1>2 DEF StartLoopLock, StartLoopBlock, Spurious, Started, threadVars
<1>3. CASE StartLoopReturn
  BY <1>3 DEF StartLoopReturn, Published, Current
<1>4. ASSUME NEW t \in Thread, TestCallback(t) PROVE TypeOK'
  BY <1>4 DEF TestCallback, Using, AfterBegin
<1>5. ASSUME NEW t \in Thread, CallbackReturns(t) \/ Unlock(t) PROVE TypeOK'
  BY <1>5 DEF CallbackReturns, Unlock
<1>6. ASSUME NEW t \in Thread, Lock(t) PROVE TypeOK'
  BY <1>6 DEF Lock, Using
<1>7. ASSUME NEW t \in Thread, Publish(t) PROVE TypeOK'
  BY <1>7 DEF Publish, Using, Notified
<1> QED
  BY <1>1, <1>2, <1>3, <1>4, <1>5, <1>6, <1>7 DEF StartStep, StartOwner, ThreadFunc

LEMMA StartKeeps == LoopInv /\ StartStep => (PastCallback /\ InOrder /\ OneByOne)'
<1> SUFFICES ASSUME LoopInv, StartStep PROVE (PastCallback /\ InOrder /\ OneByOne)'
  OBVIOUS
<1> USE LoopThreadsAssumption
    DEF LoopInv, TypeOK, Thread, Current, THREAD, MUTEX, COND, CALLBACK
<1>1. CASE Construct
  <2>1. PastCallback'
    BY <1>1 DEF Construct, PastCallback
  <2>2. InOrder'
    BY <1>1 DEF Construct, InOrder
  <2>3. /\ loops_' = loops_ /\ Len(loops_) \in Nat /\ Current \in Thread
        /\ made' = [made EXCEPT ![Current] = @ + 1]
        /\ made'[Current] = made[Current] + 1 /\ made[Current] \in 0..CALLBACK
        /\ pc' = IF made'[Current] = CALLBACK THEN "lock" ELSE pc
        /\ made[Current] < CALLBACK
    BY <1>1 DEF Construct, OneByOne
  <2>4. ASSUME NEW t \in Thread, t > Current PROVE made'[t] = 0
    <3>1. made'[t] = made[t]
      BY <2>3, <2>4
    <3> QED BY <3>1, <2>4 DEF OneByOne
  <2>5. ASSUME pc' = "construct" PROVE made'[Current] < CALLBACK
    BY <2>3, <2>5
  <2>6. OneByOne'
    BY <2>3, <2>4, <2>5 DEF OneByOne
  <2> QED BY <2>1, <2>2, <2>6
<1>2. CASE StartLoopLock \/ StartLoopBlock \/ Spurious \/ Started
  BY <1>2 DEF StartLoopLock, StartLoopBlock, Spurious, Started, threadVars,
              PastCallback, InOrder, OneByOne
<1>3. CASE StartLoopReturn
  <2>1. PastCallback'
    BY <1>3 DEF StartLoopReturn, PastCallback
  <2>2. Len(loops_') = Len(loops_) + 1 /\ Current \in Thread
    BY <1>3 DEF StartLoopReturn, Published
  <2>3. InOrder'
    BY <1>3, <2>2 DEF StartLoopReturn, Published, InOrder
  <2>4. OneByOne'
    BY <1>3, <2>2 DEF StartLoopReturn, OneByOne
  <2> QED BY <2>1, <2>3, <2>4
<1>4. ASSUME NEW t \in Thread, TestCallback(t) PROVE (PastCallback /\ InOrder /\ OneByOne)'
  <2>1. PastCallback'
    <3>1. tpc \in [Thread -> {"none", "begin", "call", "lock", "publish", "unlock", "loop", "stuck"}]
          /\ made[t] \in 0..4
      OBVIOUS
    <3>2. /\ loop_' = loop_ /\ called' = called /\ early \subseteq early'
          /\ made[t] < 4 => t \in early'
          /\ \/ tpc' = [tpc EXCEPT ![t] = AfterBegin(t)]
             \/ tpc' = [tpc EXCEPT ![t] = "stuck"]
             \/ tpc' = tpc
      BY <1>4 DEF TestCallback, Using
    <3>3. AfterBegin(t) = "lock" => t \in early' \/ ~HasCallback
      BY <3>1, <3>2 DEF AfterBegin
    <3> HIDE DEF LoopInv, TypeOK
    <3>4. PastCallback
      BY DEF LoopInv
    <3>5. AfterBegin(t) \in {"lock", "call"}
      BY DEF AfterBegin
    <3> QED BY <3>1, <3>2, <3>3, <3>4, <3>5 DEF PastCallback
  <2>2. InOrder'
    BY <1>4 DEF TestCallback, Using, InOrder
  <2>3. OneByOne'
    BY <1>4 DEF TestCallback, Using, OneByOne
  <2> QED BY <2>1, <2>2, <2>3
<1>5. ASSUME NEW t \in Thread, CallbackReturns(t) \/ Unlock(t)
      PROVE  (PastCallback /\ InOrder /\ OneByOne)'
  BY <1>5 DEF CallbackReturns, Unlock, PastCallback, InOrder, OneByOne
<1>6. ASSUME NEW t \in Thread, Lock(t) PROVE (PastCallback /\ InOrder /\ OneByOne)'
  BY <1>6 DEF Lock, Using, PastCallback, InOrder, OneByOne
<1>7. ASSUME NEW t \in Thread, Publish(t) PROVE (PastCallback /\ InOrder /\ OneByOne)'
  <2>1. PastCallback'
    BY <1>7 DEF Publish, Using, Notified, PastCallback
  <2>2. InOrder'
    BY <1>7 DEF Publish, Using, InOrder
  <2>3. OneByOne'
    BY <1>7 DEF Publish, Using, Notified, OneByOne
  <2> QED BY <2>1, <2>2, <2>3
<1> QED
  BY <1>1, <1>2, <1>3, <1>4, <1>5, <1>6, <1>7 DEF StartStep, StartOwner, ThreadFunc

\* Until start() has returned nothing is handed out.
LEMMA StartHandsOutNothing == LoopInv /\ StartStep => (HandingOut /\ Recent /\ InTurn)'
<1> SUFFICES ASSUME LoopInv, StartStep PROVE (HandingOut /\ Recent /\ InTurn)'
  OBVIOUS
<1>1. UNCHANGED <<given, next_>>
  BY DEF StartStep, StartOwner, ThreadFunc, Construct, StartLoopLock, StartLoopBlock,
         StartLoopReturn, Started, Spurious, TestCallback, CallbackReturns, Lock, Publish,
         Unlock, Using
<1>2. (Recent /\ InTurn)'
  BY <1>1 DEF LoopInv, Recent, InTurn
<1>3. HandingOut'
  <2> USE LoopThreadsAssumption DEF LoopInv, TypeOK, HandingOut, InOrder, Thread, Current
  <2>1. CASE Construct \/ StartLoopLock \/ StartLoopBlock \/ StartLoopReturn \/ Spurious
    BY <1>1, <2>1 DEF Construct, StartLoopLock, StartLoopBlock, StartLoopReturn, Spurious
  <2>2. CASE Started
    BY <1>1, <2>2 DEF Started
  <2>3. ASSUME NEW t \in Thread, ThreadFunc(t)
        PROVE  loops_' = loops_ /\ (pc' = pc \/ (pc = "blocked" /\ pc' = "wake"))
    BY <2>3 DEF ThreadFunc, TestCallback, CallbackReturns, Lock, Publish, Notified, Unlock, Using
  <2> QED BY <1>1, <2>1, <2>2, <2>3 DEF StartStep, StartOwner
<1> QED BY <1>2, <1>3

\* getNextLoop: the loop handed out differs from the last num_threads_ - 1.
LEMMA NextLoopInTurn == LoopInv /\ getNextLoop => LoopInv'
<1> SUFFICES ASSUME LoopInv, getNextLoop PROVE LoopInv'
  OBVIOUS
<1> USE LoopThreadsAssumption DEF LoopInv
<1>1. TypeOK /\ UNCHANGED <<threadVars, pc, loops_, down>> /\ Len(loops_) = num_threads_
  BY DEF getNextLoop, HandingOut
<1>2. (PastCallback /\ InOrder /\ OneByOne)'
  BY <1>1 DEF threadVars, PastCallback, InOrder, OneByOne, Current
<1>3. CASE num_threads_ = 0
  <2>1. loops_ = << >>
    BY <1>1, <1>3 DEF TypeOK
  <2>2. given' = Append(given, base_loop_) /\ next_' = next_
    BY <2>1 DEF getNextLoop
  <2>3. TypeOK'
    BY <1>1, <2>2 DEF TypeOK, threadVars
  <2>4. (HandingOut /\ Recent /\ InTurn)'
    BY <1>1, <1>3, <2>2 DEF TypeOK, HandingOut, Recent, InTurn, getNextLoop
  <2> QED BY <1>2, <2>3, <2>4
<1>4. CASE num_threads_ > 0
  <2>1. next_ \in 0..num_threads_ - 1 /\ loops_ # << >> /\ given \in Seq(Thread \cup {base_loop_})
    BY <1>1, <1>4 DEF TypeOK, HandingOut
  <2>2. loops_[next_ + 1] = next_ + 1
    BY <1>1, <2>1 DEF InOrder
  <2>3. /\ given' = Append(given, next_ + 1)
        /\ next_' = IF next_ + 1 = num_threads_ THEN 0 ELSE next_ + 1
    BY <1>1, <2>1, <2>2 DEF getNextLoop, Advance
  <2>4. /\ Len(given') = Len(given) + 1 /\ given'[Len(given) + 1] = next_ + 1
        /\ \A i \in 1..Len(given) : given'[i] = given[i]
        /\ Len(given) \in Nat
    BY <2>1, <2>3 DEF Thread
  <2>5. TypeOK'
    <3>1. next_' \in Nat
      BY <2>1, <2>3
    <3>2. next_ + 1 \in Thread \cup {base_loop_}
      BY <2>1 DEF Thread
    <3>3. given' \in Seq(Thread \cup {base_loop_})
      BY <2>1, <2>3, <3>2
    <3> QED BY <1>1, <3>1, <3>3 DEF TypeOK, threadVars
  <2>6. HandingOut'
    BY <1>1, <2>1, <2>3 DEF HandingOut, getNextLoop
  <2>7. Recent'
    <3> SUFFICES ASSUME NEW k \in 0..num_threads_ - 1, k < Len(given) + 1
                 PROVE  given'[Len(given) + 1 - k] =
                          IF next_' - k >= 1 THEN next_' - k ELSE next_' - k + num_threads_
      BY <2>4 DEF Recent
    <3>1. CASE k = 0
      BY <3>1, <2>1, <2>3, <2>4
    <3>2. CASE k > 0
      <4>1. given'[Len(given) + 1 - k] = given[Len(given) - (k - 1)]
        BY <3>2, <2>4
      <4>2. given[Len(given) - (k - 1)] =
              IF next_ - (k - 1) >= 1 THEN next_ - (k - 1) ELSE next_ - (k - 1) + num_threads_
        BY <3>2, <2>4 DEF Recent
      <4> QED BY <3>2, <4>1, <4>2, <2>1, <2>3
    <3> QED BY <3>1, <3>2
  <2>8. InTurn'
    <3> SUFFICES ASSUME NEW i \in 1..Len(given) + 1, NEW j \in 1..Len(given) + 1,
                        i < j, j < i + num_threads_
                 PROVE  given'[i] # given'[j]
      BY <2>4 DEF InTurn
    <3>1. CASE j <= Len(given)
      BY <3>1, <2>4 DEF InTurn
    <3>2. CASE j = Len(given) + 1
      <4> DEFINE k == Len(given) - i
      <4>1. k \in 0..num_threads_ - 2 /\ k < Len(given) /\ i = Len(given) - k
        BY <3>2, <2>4
      <4>2. given[i] = IF next_ - k >= 1 THEN next_ - k ELSE next_ - k + num_threads_
        BY <4>1 DEF Recent
      <4> QED BY <3>2, <4>1, <4>2, <2>1, <2>4
    <3> QED BY <3>1, <3>2, <2>4
  <2> QED BY <1>2, <2>5, <2>6, <2>7, <2>8
<1> QED BY <1>3, <1>4

LEMMA LoopStep == LoopInv /\ [Next]_vars => LoopInv'
<1> SUFFICES ASSUME LoopInv, [Next]_vars PROVE LoopInv'
  OBVIOUS
<1>1. CASE StartStep
  BY <1>1, StartTypes, StartKeeps, StartHandsOutNothing DEF LoopInv
<1>2. CASE getNextLoop
  BY <1>2, NextLoopInTurn
<1>3. CASE getLoopFroHash \/ UNCHANGED vars
  BY <1>3 DEF getLoopFroHash, vars, threadVars, LoopInv, TypeOK, PastCallback, InOrder,
              OneByOne, Current, HandingOut, Recent, InTurn
<1> QED BY <1>1, <1>2, <1>3 DEF Next, StartStep

\* For any number of threads: EventLoopThreadPool::start takes a loop from
\* startLoop only when its thread has published it after the callback, unless
\* the thread ran ahead of the constructor, and getNextLoop hands them out in
\* turn.
THEOREM LoopThreadsSafe == Spec => []ReadyLoopsInTurn
<1>1. LoopInv => ReadyLoopsInTurn
  BY LoopThreadsAssumption
     DEF LoopInv, ReadyLoopsInTurn, LoopsAreReady, InOrder, PastCallback, Thread, TypeOK
<1> QED BY <1>1, LoopInit, LoopStep, PTL DEF Spec
==============================================================================
