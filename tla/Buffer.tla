------------------------------- MODULE Buffer -------------------------------
(***************************************************************************)
(* ccnet/net/Buffer: the byte buffer between a socket and the application. *)
(* A vector buffer_ of characters and two indices into it: the bytes from  *)
(* read_index_ up to write_index_ wait to be read (or sent).  The first    *)
(* HeadSize cells are reserved and never hold data.                        *)
(*                                                                         *)
(* The vector is a sequence, so cell i of the code is buffer_[i + 1].  One *)
(* action per operation puts a buffer through any sequence of calls.       *)
(***************************************************************************)
EXTENDS Integers, Sequences

CONSTANTS
  Byte,         \* the values a char can have in the model
  Zero,         \* the char value-initialisation puts into a new cell
  HeadSize,     \* kInitialHeadSize, 8 in the code
  InitialSize,  \* kInitialSize, 1024 in the code
  Chunks,       \* byte strings: an argument of append, or what a socket holds
  Lengths,      \* arguments of retrieve
  MaxSize       \* bound: no append that would grow the vector beyond it

ASSUME ByteAssumption == Zero \in Byte
ASSUME SizeAssumption == HeadSize \in Nat /\ InitialSize \in Nat /\ MaxSize \in Nat
ASSUME ChunkAssumption == Chunks \subseteq Seq(Byte)
ASSUME LengthAssumption == Lengths \subseteq Nat

VARIABLES buffer_, read_index_, write_index_

bufferVars == <<buffer_, read_index_, write_index_>>
-----------------------------------------------------------------------------
readableBytes == write_index_ - read_index_
writableBytes == Len(buffer_) - write_index_

\* What a user sees: the readableBytes() characters from peek() on.
Contents == [i \in 1..readableBytes |-> buffer_[read_index_ + i]]

\* vector::resize: the first n cells, new ones zero.
Resized(n) == [i \in 1..n |-> IF i <= Len(buffer_) THEN buffer_[i] ELSE Zero]

\* Mutant: no space is made.
makeSpaceNever(len) == buffer_

\* makeSpace grows the vector to just fit len more bytes after write_index_.
\* It never moves the readable bytes down to reuse the cells before them.
makeSpace(len) ==
  IF len > writableBytes THEN Resized(write_index_ + len) ELSE buffer_

\* Mutant: the bytes are stored one cell too early.
StoredOneEarly(cells, data, n) ==
  [i \in 1..Len(cells) |->
     IF i >= write_index_ /\ i < write_index_ + n
       THEN data[i - write_index_ + 1] ELSE cells[i]]

\* cells with the first n bytes of data stored from write_index_ on.
Stored(cells, data, n) ==
  [i \in 1..Len(cells) |->
     IF i > write_index_ /\ i <= write_index_ + n
       THEN data[i - write_index_] ELSE cells[i]]
-----------------------------------------------------------------------------
BufferInit ==
  /\ buffer_ = [i \in 1..(HeadSize + InitialSize) |-> Zero]
  /\ read_index_ = HeadSize
  /\ write_index_ = HeadSize

append(data) ==
  /\ write_index_ + Len(data) <= MaxSize
  /\ buffer_' = Stored(makeSpace(Len(data)), data, Len(data))
  /\ write_index_' = write_index_ + Len(data)
  /\ UNCHANGED read_index_

\* The recv loop stops when recv returns 0 or less: the socket is drained, or
\* no cell is left and recv is asked for 0 bytes.  Whatever pieces recv hands
\* out, the loop moves this many bytes of what the socket holds.
ReadCount(sock) == IF Len(sock) <= writableBytes THEN Len(sock) ELSE writableBytes

readFd(sock) ==
  /\ buffer_' = Stored(buffer_, sock, ReadCount(sock))
  /\ write_index_' = write_index_ + ReadCount(sock)
  /\ UNCHANGED read_index_

retrieveAll ==
  /\ read_index_' = HeadSize
  /\ write_index_' = HeadSize
  /\ UNCHANGED buffer_

retrieve(len) ==
  \/ /\ len < readableBytes
     /\ read_index_' = read_index_ + len
     /\ UNCHANGED <<buffer_, write_index_>>
  \/ /\ len >= readableBytes
     /\ retrieveAll

BufferNext ==
  \/ \E data \in Chunks : append(data)
  \/ \E sock \in Chunks : readFd(sock)
  \/ \E len \in Lengths : retrieve(len)
  \/ retrieveAll

BufferSpec == BufferInit /\ [][BufferNext]_bufferVars
-----------------------------------------------------------------------------
BufferTypeOK ==
  /\ buffer_ \in Seq(Byte)
  /\ read_index_ \in Nat
  /\ write_index_ \in Nat

\* The indices stay ordered and inside the vector after every sequence of
\* append, readFd, retrieve and retrieveAll, so peek()..peek()+readableBytes()
\* and the cells recv and std::copy write are always cells of buffer_.
IndicesInBounds ==
  /\ HeadSize <= read_index_
  /\ read_index_ <= write_index_
  /\ write_index_ <= Len(buffer_)

\* A drained buffer has its whole vector to write into again: retrieve resets
\* both indices when it takes the last byte.  Since makeSpace never compacts,
\* a buffer that could be empty with read_index_ further up would lose those
\* cells for good, and readFd would report 0 (end of file) too early.
DrainedIsReset == readableBytes = 0 => read_index_ = HeadSize

\* Types and indices are right and a drained buffer is reset, after any
\* sequence of calls; the three together are inductive, since what retrieve
\* does to a drained buffer depends on the order of the indices.
BufferInv == BufferTypeOK /\ IndicesInBounds /\ DrainedIsReset

\* Buffer implements the byte queue: what users see in Contents only ever
\* grows at the back and shrinks at the front, byte for byte.
Queue == INSTANCE ByteQueue WITH bytes <- Contents
ImplementsByteQueue == Queue!QSpec
=============================================================================
