----------------------------- MODULE ChatProofs -----------------------------
(***************************************************************************)
(* chat_server.cc and chat_client.cc implement the chat room of            *)
(* ChatService, for any clients, any lines and any sizes of bytes and      *)
(* headers.  The argument: the bytes in a reader's buffer and on their way *)
(* to it are always a piece of one fixed sequence of messages, the         *)
(* client's script for the server and the log for a client, that begins    *)
(* where a message begins; so wherever the stream is cut, onMessage takes  *)
(* the next messages of that sequence, and what is left is again such a    *)
(* piece.                                                                  *)
(***************************************************************************)
EXTENDS Chat, SequenceTheorems, FiniteSetTheorems, WellFoundedInduction, TLAPS

\* Induction on the numbers from 0 to N.
LEMMA SetInduction ==
  ASSUME NEW N \in Nat, NEW T, 0 \in T, \A n \in 0..(N - 1) : n \in T => n + 1 \in T
  PROVE  \A n \in 0..N : n \in T
<1> DEFINE U == {n \in Nat : n <= N /\ n \notin T}
           R == OpToRel(<, Nat)
<1>1. SUFFICES ASSUME U # {} PROVE FALSE
  OBVIOUS
<1>2. U \subseteq Nat
  OBVIOUS
<1>3. \E x \in U : \A y \in U : ~(<<y, x>> \in R)
  <2> HIDE DEF U, R
  <2>1. IsWellFoundedOn(R, Nat)
    BY NatLessThanWellFounded DEF R
  <2> QED
    BY <1>1, <1>2, <2>1, WFMin
<1>4. PICK x \in U : \A y \in U : ~(y < x)
  BY <1>3 DEF OpToRel
<1>5. x # 0 /\ x \in Nat
  OBVIOUS
<1>6. x - 1 \in T
  BY <1>4, <1>5
<1> QED
  BY <1>4, <1>5, <1>6

\* One digit taken off.
Quotient(x) == x \div Base

RestFn(len) ==
  CHOOSE f : f = [k \in 0..HeaderSize |-> IF k = 0 THEN len ELSE Quotient(f[k - 1])]

\* Rest is what its definition says for each number of digits.
LEMMA RestStep ==
  ASSUME NEW len
  PROVE  /\ Rest(len) = RestFn(len)
         /\ RestFn(len)[0] = len
         /\ \A k \in 1..HeaderSize : RestFn(len)[k] = Quotient(RestFn(len)[k - 1])
<1> DEFINE T == {n \in Nat : \E f : f = [k \in 0..n |->
        IF k = 0 THEN len ELSE Quotient(f[k - 1])]}
<1>1. 0 \in T
  <2>1. PICK f : f = [k \in 0..0 |-> len]
    OBVIOUS
  <2>2. f = [k \in 0..0 |-> IF k = 0 THEN len ELSE Quotient(f[k - 1])]
    BY <2>1
  <2> QED
    BY <2>2
<1>2. ASSUME NEW n \in Nat, n \in T PROVE n + 1 \in T
  <2>1. PICK f : f = [k \in 0..n |-> IF k = 0 THEN len ELSE Quotient(f[k - 1])]
    BY <1>2
  <2>2. PICK g : g = [k \in 0..(n + 1) |-> IF k <= n THEN f[k] ELSE Quotient(f[n])]
    OBVIOUS
  <2>3. g = [k \in 0..(n + 1) |-> IF k = 0 THEN len ELSE Quotient(g[k - 1])]
    BY <2>1, <2>2
  <2>4. n + 1 \in Nat
    OBVIOUS
  <2> QED
    BY <2>3, <2>4
<1>3. HeaderSize \in Nat
  BY ChatAssumption
<1>4. HeaderSize \in T
  <2> HIDE DEF T
  <2>1. \A n \in 0..(HeaderSize - 1) : n \in T => n + 1 \in T
    BY <1>2, <1>3
  <2>2. \A n \in 0..HeaderSize : n \in T
    BY ONLY <1>1, <1>3, <2>1, SetInduction
  <2> QED
    BY <1>3, <2>2
<1>5. \E f : f = [k \in 0..HeaderSize |-> IF k = 0 THEN len ELSE Quotient(f[k - 1])]
  BY <1>4
<1>6. PICK f : f = RestFn(len)
  OBVIOUS
<1>7. f = [k \in 0..HeaderSize |-> IF k = 0 THEN len ELSE Quotient(f[k - 1])]
  BY <1>5, <1>6 DEF RestFn
<1>8. f[0] = len /\ \A k \in 1..HeaderSize : f[k] = Quotient(f[k - 1])
  BY <1>3, <1>7
<1>9. Rest(len) = RestFn(len)
  BY DEF Rest, RestFn, Quotient
<1> QED
  BY <1>6, <1>8, <1>9

\* One more digit.
Shifted(x, b) == x * Base + b

PeekFn(buf, i) ==
  CHOOSE f : f = [k \in 0..HeaderSize |->
          IF k = 0 THEN 0 ELSE Shifted(f[k - 1], buf[i + k])]

\* PeekLength is what its loop over the bytes computes.
LEMMA PeekStep ==
  ASSUME NEW buf, NEW i
  PROVE  /\ PeekLength(buf, i) = PeekFn(buf, i)[HeaderSize]
         /\ PeekFn(buf, i)[0] = 0
         /\ \A k \in 1..HeaderSize :
              PeekFn(buf, i)[k] = Shifted(PeekFn(buf, i)[k - 1], buf[i + k])
<1> DEFINE T == {n \in Nat : \E f : f = [k \in 0..n |->
        IF k = 0 THEN 0 ELSE Shifted(f[k - 1], buf[i + k])]}
<1>1. 0 \in T
  <2>1. PICK f : f = [k \in 0..0 |-> 0]
    OBVIOUS
  <2>2. f = [k \in 0..0 |-> IF k = 0 THEN 0 ELSE Shifted(f[k - 1], buf[i + k])]
    BY <2>1
  <2> QED
    BY <2>2
<1>2. ASSUME NEW n \in Nat, n \in T PROVE n + 1 \in T
  <2>1. PICK f : f = [k \in 0..n |-> IF k = 0 THEN 0 ELSE Shifted(f[k - 1], buf[i + k])]
    BY <1>2
  <2>2. PICK g : g = [k \in 0..(n + 1) |-> IF k <= n THEN f[k] ELSE Shifted(f[n], buf[i + k])]
    OBVIOUS
  <2>3. g = [k \in 0..(n + 1) |-> IF k = 0 THEN 0 ELSE Shifted(g[k - 1], buf[i + k])]
    BY <2>1, <2>2
  <2>4. n + 1 \in Nat
    OBVIOUS
  <2> QED
    BY <2>3, <2>4
<1>3. HeaderSize \in Nat
  BY ChatAssumption
<1>4. HeaderSize \in T
  <2> HIDE DEF T
  <2>1. \A n \in 0..(HeaderSize - 1) : n \in T => n + 1 \in T
    BY <1>2, <1>3
  <2>2. \A n \in 0..HeaderSize : n \in T
    BY ONLY <1>1, <1>3, <2>1, SetInduction
  <2> QED
    BY <1>3, <2>2
<1>5. \E f : f = [k \in 0..HeaderSize |->
        IF k = 0 THEN 0 ELSE Shifted(f[k - 1], buf[i + k])]
  BY <1>4
<1>6. PICK f : f = PeekFn(buf, i)
  OBVIOUS
<1>7. f = [k \in 0..HeaderSize |-> IF k = 0 THEN 0 ELSE Shifted(f[k - 1], buf[i + k])]
  BY <1>5, <1>6 DEF PeekFn
<1>8. f[0] = 0 /\ \A k \in 1..HeaderSize : f[k] = Shifted(f[k - 1], buf[i + k])
  BY <1>3, <1>7
<1>9. PeekLength(buf, i) = PeekFn(buf, i)[HeaderSize]
  BY DEF PeekLength, PeekFn, Shifted
<1> QED
  BY <1>6, <1>8, <1>9

\* One more message.
Framed(s, text) == s \o Encode(text)

FramesFn(texts) ==
  CHOOSE f : f = [k \in 0..Len(texts) |->
          IF k = 0 THEN << >> ELSE Framed(f[k - 1], texts[k])]

\* Frames is what its loop over the messages computes.
LEMMA FramesStep ==
  ASSUME NEW texts, Len(texts) \in Nat
  PROVE  /\ Frames(texts) = FramesFn(texts)[Len(texts)]
         /\ FramesFn(texts)[0] = << >>
         /\ \A k \in 1..Len(texts) :
              FramesFn(texts)[k] = Framed(FramesFn(texts)[k - 1], texts[k])
<1> DEFINE T == {n \in Nat : \E f : f = [k \in 0..n |->
        IF k = 0 THEN << >> ELSE Framed(f[k - 1], texts[k])]}
<1>1. 0 \in T
  <2>1. PICK f : f = [k \in 0..0 |-> << >>]
    OBVIOUS
  <2>2. f = [k \in 0..0 |-> IF k = 0 THEN << >> ELSE Framed(f[k - 1], texts[k])]
    BY <2>1
  <2> QED
    BY <2>2
<1>2. ASSUME NEW n \in Nat, n \in T PROVE n + 1 \in T
  <2>1. PICK f : f = [k \in 0..n |-> IF k = 0 THEN << >> ELSE Framed(f[k - 1], texts[k])]
    BY <1>2
  <2>2. PICK g : g = [k \in 0..(n + 1) |-> IF k <= n THEN f[k] ELSE Framed(f[n], texts[k])]
    OBVIOUS
  <2>3. g = [k \in 0..(n + 1) |-> IF k = 0 THEN << >> ELSE Framed(g[k - 1], texts[k])]
    BY <2>1, <2>2
  <2>4. n + 1 \in Nat
    OBVIOUS
  <2> QED
    BY <2>3, <2>4
<1>3. Len(texts) \in Nat
  OBVIOUS
<1>4. Len(texts) \in T
  <2> HIDE DEF T
  <2>1. \A n \in 0..(Len(texts) - 1) : n \in T => n + 1 \in T
    BY <1>2, <1>3
  <2>2. \A n \in 0..Len(texts) : n \in T
    BY ONLY <1>1, <1>3, <2>1, SetInduction
  <2> QED
    BY <1>3, <2>2
<1>5. \E f : f = [k \in 0..Len(texts) |->
        IF k = 0 THEN << >> ELSE Framed(f[k - 1], texts[k])]
  BY <1>4
<1>6. PICK f : f = FramesFn(texts)
  OBVIOUS
<1>7. f = [k \in 0..Len(texts) |-> IF k = 0 THEN << >> ELSE Framed(f[k - 1], texts[k])]
  BY <1>5, <1>6 DEF FramesFn
<1>8. f[0] = << >> /\ \A k \in 1..Len(texts) : f[k] = Framed(f[k - 1], texts[k])
  BY <1>3, <1>7
<1>9. Frames(texts) = FramesFn(texts)[Len(texts)]
  BY DEF Frames, FramesFn, Framed
<1> QED
  BY <1>6, <1>8, <1>9

\* The loop of onMessage.
LoopInit == [texts |-> << >>, used |-> 0, bad |-> FALSE]
Turns(buf) == Len(buf) \div HeaderSize

LoopFn(buf) ==
  CHOOSE f : f = [k \in 0..Turns(buf) |-> IF k = 0 THEN LoopInit ELSE Turn(buf, f[k - 1])]

\* onMessage is what it computes, turn by turn.
LEMMA LoopStep ==
  ASSUME NEW buf, Turns(buf) \in Nat
  PROVE  /\ onMessage(buf) = LoopFn(buf)[Turns(buf)]
         /\ LoopFn(buf)[0] = LoopInit
         /\ \A k \in 1..Turns(buf) : LoopFn(buf)[k] = Turn(buf, LoopFn(buf)[k - 1])
<1> DEFINE T == {n \in Nat : \E f : f = [k \in 0..n |->
        IF k = 0 THEN LoopInit ELSE Turn(buf, f[k - 1])]}
<1>1. 0 \in T
  <2>1. PICK f : f = [k \in 0..0 |-> LoopInit]
    OBVIOUS
  <2>2. f = [k \in 0..0 |-> IF k = 0 THEN LoopInit ELSE Turn(buf, f[k - 1])]
    BY <2>1
  <2> QED
    BY <2>2
<1>2. ASSUME NEW n \in Nat, n \in T PROVE n + 1 \in T
  <2>1. PICK f : f = [k \in 0..n |-> IF k = 0 THEN LoopInit ELSE Turn(buf, f[k - 1])]
    BY <1>2
  <2>2. PICK g : g = [k \in 0..(n + 1) |-> IF k <= n THEN f[k] ELSE Turn(buf, f[n])]
    OBVIOUS
  <2>3. g = [k \in 0..(n + 1) |-> IF k = 0 THEN LoopInit ELSE Turn(buf, g[k - 1])]
    BY <2>1, <2>2
  <2>4. n + 1 \in Nat
    OBVIOUS
  <2> QED
    BY <2>3, <2>4
<1>3. Turns(buf) \in Nat
  OBVIOUS
<1>4. Turns(buf) \in T
  <2> HIDE DEF T
  <2>1. \A n \in 0..(Turns(buf) - 1) : n \in T => n + 1 \in T
    BY <1>2, <1>3
  <2>2. \A n \in 0..Turns(buf) : n \in T
    BY ONLY <1>1, <1>3, <2>1, SetInduction
  <2> QED
    BY <1>3, <2>2
<1>5. \E f : f = [k \in 0..Turns(buf) |-> IF k = 0 THEN LoopInit ELSE Turn(buf, f[k - 1])]
  BY <1>4
<1>6. PICK f : f = LoopFn(buf)
  OBVIOUS
<1>7. f = [k \in 0..Turns(buf) |-> IF k = 0 THEN LoopInit ELSE Turn(buf, f[k - 1])]
  BY <1>5, <1>6 DEF LoopFn
<1>8. f[0] = LoopInit /\ \A k \in 1..Turns(buf) : f[k] = Turn(buf, f[k - 1])
  BY <1>3, <1>7
<1>9. onMessage(buf) = LoopFn(buf)[Turns(buf)]
  BY DEF onMessage, LoopFn, LoopInit, Turns
<1> QED
  BY <1>6, <1>8, <1>9

-----------------------------------------------------------------------------
\* The codec: a length that is read is the length that was written.

Byte == 0..(Base - 1)

\* The lines whose length fits into a header.
Line == {t \in Seq(Byte) : Fits(Len(t))}

\* A number is its last digit and what is left.
LEMMA Division ==
  ASSUME NEW x \in Nat
  PROVE  /\ Quotient(x) \in Nat
         /\ x % Base \in Byte
         /\ Shifted(Quotient(x), x % Base) = x
<1>1. Base \in Nat /\ Base > 1
  BY ChatAssumption
<1>2. x \div Base \in Nat /\ x % Base \in 0..(Base - 1)
  BY <1>1
<1>3. (x \div Base) * Base + (x % Base) = x
  BY <1>1
<1> QED
  BY <1>2, <1>3 DEF Quotient, Shifted, Byte

\* What is left is a number.
LEMMA RestType ==
  ASSUME NEW len \in Nat
  PROVE  \A j \in 0..HeaderSize : Rest(len)[j] \in Nat
<1>1. HeaderSize \in Nat
  BY ChatAssumption
<1>2. PICK f : f = Rest(len)
  OBVIOUS
<1>3. f[0] = len /\ \A k \in 1..HeaderSize : f[k] = Quotient(f[k - 1])
  BY <1>2, RestStep
<1> DEFINE T == {n \in Nat : f[n] \in Nat}
<1>4. 0 \in T
  BY <1>3
<1>5. ASSUME NEW n \in 0..(HeaderSize - 1), n \in T PROVE n + 1 \in T
  <2>1. n + 1 \in 1..HeaderSize /\ n + 1 - 1 = n /\ n + 1 \in Nat
    BY <1>1
  <2>2. f[n + 1] = Quotient(f[n])
    BY <1>3, <2>1
  <2> QED
    BY <1>5, <2>1, <2>2, Division
<1>6. \A n \in 0..HeaderSize : n \in T
  <2> HIDE DEF T
  <2>1. \A n \in 0..(HeaderSize - 1) : n \in T => n + 1 \in T
    BY <1>5
  <2> QED
    BY ONLY <1>1, <1>4, <2>1, SetInduction
<1> QED
  BY <1>2, <1>6

\* The length that is read is the length that was written.
LEMMA PeekedLength ==
  ASSUME NEW len \in Nat, Fits(len), NEW buf, NEW i \in Nat,
         \A k \in 1..HeaderSize : buf[i + k] = Rest(len)[HeaderSize - k] % Base
  PROVE  PeekLength(buf, i) = len
<1>1. HeaderSize \in Nat
  BY ChatAssumption
<1>2. PICK r : r = Rest(len)
  OBVIOUS
<1>3. /\ r[0] = len
      /\ \A k \in 1..HeaderSize : r[k] = Quotient(r[k - 1])
      /\ \A k \in 0..HeaderSize : r[k] \in Nat
      /\ r[HeaderSize] = 0
      /\ \A k \in 1..HeaderSize : buf[i + k] = r[HeaderSize - k] % Base
  BY <1>2, RestStep, RestType DEF Fits
<1>4. PICK v : v = PeekFn(buf, i)
  OBVIOUS
<1>5. /\ PeekLength(buf, i) = v[HeaderSize]
      /\ v[0] = 0
      /\ \A k \in 1..HeaderSize : v[k] = Shifted(v[k - 1], buf[i + k])
  BY <1>4, PeekStep
<1> DEFINE T == {n \in Nat : v[n] = r[HeaderSize - n]}
<1>6. 0 \in T
  BY <1>1, <1>3, <1>5
<1>7. ASSUME NEW n \in 0..(HeaderSize - 1), n \in T PROVE n + 1 \in T
  <2>1. n + 1 \in 1..HeaderSize /\ n + 1 - 1 = n /\ n + 1 \in Nat
    BY <1>1
  <2>2. PICK j : j = HeaderSize - (n + 1)
    OBVIOUS
  <2>3. j \in 0..HeaderSize /\ HeaderSize - n \in 1..HeaderSize /\ HeaderSize - n - 1 = j
    BY <1>1, <2>2
  <2>4. v[n + 1] = Shifted(v[n], r[j] % Base)
    BY <1>3, <1>5, <2>1, <2>2
  <2>5. v[n] = Quotient(r[j])
    BY <1>3, <1>7, <2>3
  <2>6. v[n + 1] = r[j]
    BY <1>3, <2>3, <2>4, <2>5, Division
  <2> QED
    BY <2>1, <2>2, <2>6
<1>8. HeaderSize \in T
  <2> HIDE DEF T
  <2>1. \A n \in 0..(HeaderSize - 1) : n \in T => n + 1 \in T
    BY <1>7
  <2>2. \A n \in 0..HeaderSize : n \in T
    BY ONLY <1>1, <1>6, <2>1, SetInduction
  <2> QED
    BY <1>1, <2>2
<1>9. HeaderSize - HeaderSize = 0
  BY <1>1
<1> QED
  BY <1>3, <1>5, <1>8, <1>9

\* Concatenation, by a name: its elements are those of the two sequences.
Cat(a, b) == a \o b

LEMMA Joined ==
  ASSUME NEW a \in Seq(Byte), NEW b \in Seq(Byte)
  PROVE  /\ Cat(a, b) \in Seq(Byte)
         /\ Len(a) \in Nat /\ Len(b) \in Nat /\ Len(Cat(a, b)) = Len(a) + Len(b)
         /\ \A i \in 1..Len(a) : Cat(a, b)[i] = a[i]
         /\ \A i \in 1..Len(b) : Cat(a, b)[Len(a) + i] = b[i]
BY DEF Cat

\* The bytes of a message.
LEMMA EncodeBytes ==
  ASSUME NEW text \in Line
  PROVE  /\ Encode(text) \in Seq(Byte)
         /\ Len(Encode(text)) = HeaderSize + Len(text)
         /\ \A k \in 1..HeaderSize : Encode(text)[k] = Rest(Len(text))[HeaderSize - k] % Base
         /\ \A k \in 1..Len(text) : Encode(text)[HeaderSize + k] = text[k]
<1>1. HeaderSize \in Nat
  BY ChatAssumption
<1>2. text \in Seq(Byte) /\ Len(text) \in Nat
  BY LenProperties DEF Line
<1>3. PICK header : header = [k \in 1..HeaderSize |-> Rest(Len(text))[HeaderSize - k] % Base]
  OBVIOUS
<1>4. \A k \in 1..HeaderSize : Rest(Len(text))[HeaderSize - k] % Base \in Byte
  <2>1. \A k \in 1..HeaderSize : Rest(Len(text))[HeaderSize - k] \in Nat
    BY <1>1, <1>2, RestType
  <2> QED
    BY <2>1, Division
<1>5. header \in Seq(Byte) /\ Len(header) = HeaderSize
  BY <1>1, <1>3, <1>4
<1>6. PICK z : z = Cat(header, text)
  OBVIOUS
<1>7. /\ z \in Seq(Byte)
      /\ Len(z) = Len(header) + Len(text)
      /\ \A k \in 1..Len(header) : z[k] = header[k]
      /\ \A k \in 1..Len(text) : z[Len(header) + k] = text[k]
  BY ONLY <1>2, <1>5, <1>6, Joined
<1>8. /\ Len(z) = HeaderSize + Len(text)
      /\ \A k \in 1..HeaderSize : z[k] = Rest(Len(text))[HeaderSize - k] % Base
      /\ \A k \in 1..Len(text) : z[HeaderSize + k] = text[k]
  BY <1>3, <1>5, <1>7
<1>9. Encode(text) = z
  BY <1>3, <1>6 DEF Encode, Cat
<1> QED
  BY <1>7, <1>8, <1>9

\* Where message k + 1 of texts begins.
Off(texts, k) == Len(FramesFn(texts)[k])

\* The frames of the first k messages, and what the next adds.
LEMMA FramesBytes ==
  ASSUME NEW texts \in Seq(Line)
  PROVE  \A k \in 0..Len(texts) : FramesFn(texts)[k] \in Seq(Byte) /\ Off(texts, k) \in Nat
<1>1. Len(texts) \in Nat
  BY LenProperties
<1>2. PICK f : f = FramesFn(texts)
  OBVIOUS
<1>3. f[0] = << >> /\ \A k \in 1..Len(texts) : f[k] = Framed(f[k - 1], texts[k])
  BY <1>1, <1>2, FramesStep
<1> DEFINE T == {n \in Nat : f[n] \in Seq(Byte)}
<1>4. 0 \in T
  <2>1. << >> \in Seq(Byte)
    OBVIOUS
  <2> QED
    BY <1>3, <2>1
<1>5. ASSUME NEW n \in 0..(Len(texts) - 1), n \in T PROVE n + 1 \in T
  <2>1. n + 1 \in 1..Len(texts) /\ n + 1 - 1 = n /\ n + 1 \in Nat
    BY <1>1
  <2>2. f[n + 1] = Framed(f[n], texts[n + 1])
    BY <1>3, <2>1
  <2>3. texts[n + 1] \in Line
    BY <2>1, ElementOfSeq
  <2>4. Encode(texts[n + 1]) \in Seq(Byte)
    BY <2>3, EncodeBytes
  <2>5. Framed(f[n], texts[n + 1]) \in Seq(Byte)
    BY <1>5, <2>4, ConcatProperties DEF Framed
  <2> QED
    BY <2>1, <2>2, <2>5
<1>6. \A n \in 0..Len(texts) : n \in T
  <2> HIDE DEF T
  <2>1. \A n \in 0..(Len(texts) - 1) : n \in T => n + 1 \in T
    BY <1>5
  <2> QED
    BY ONLY <1>1, <1>4, <2>1, SetInduction
<1>7. \A k \in 0..Len(texts) : f[k] \in Seq(Byte) /\ Len(f[k]) \in Nat
  BY <1>6, LenProperties
<1> QED
  BY <1>2, <1>7 DEF Off

\* What one more message adds.
LEMMA FramesNext ==
  ASSUME NEW texts \in Seq(Line), NEW k \in 0..(Len(texts) - 1)
  PROVE  /\ Off(texts, 0) = 0
         /\ Off(texts, k + 1) = Off(texts, k) + HeaderSize + Len(texts[k + 1])
         /\ \A i \in 1..Off(texts, k) : FramesFn(texts)[k + 1][i] = FramesFn(texts)[k][i]
         /\ \A i \in 1..(HeaderSize + Len(texts[k + 1])) :
              FramesFn(texts)[k + 1][Off(texts, k) + i] = Encode(texts[k + 1])[i]
<1>1. Len(texts) \in Nat
  BY LenProperties
<1>2. PICK f : f = FramesFn(texts)
  OBVIOUS
<1>3. f[0] = << >> /\ \A j \in 1..Len(texts) : f[j] = Framed(f[j - 1], texts[j])
  BY <1>1, <1>2, FramesStep
<1>4. k + 1 \in 1..Len(texts) /\ k + 1 - 1 = k /\ k \in 0..Len(texts)
  BY <1>1
<1>5. PICK s : s = f[k]
  OBVIOUS
<1>6. PICK e : e = Encode(texts[k + 1])
  OBVIOUS
<1>7. s \in Seq(Byte) /\ Len(s) \in Nat /\ Off(texts, k) = Len(s)
  BY <1>2, <1>4, <1>5, FramesBytes DEF Off
<1>8. e \in Seq(Byte) /\ Len(e) = HeaderSize + Len(texts[k + 1])
  <2>1. texts[k + 1] \in Line
    BY <1>4, ElementOfSeq
  <2> QED
    BY <1>6, <2>1, EncodeBytes
<1>9. PICK g : g = f[k + 1]
  OBVIOUS
<1>10. g = Cat(s, e)
  <2>1. g = Framed(s, texts[k + 1])
    BY <1>3, <1>4, <1>5, <1>9
  <2> QED
    BY <1>6, <2>1 DEF Framed, Cat
<1>11. /\ Len(g) = Len(s) + Len(e)
       /\ \A i \in 1..Len(s) : g[i] = s[i]
       /\ \A i \in 1..Len(e) : g[Len(s) + i] = e[i]
  BY ONLY <1>7, <1>8, <1>10, Joined
<1>12. Off(texts, 0) = 0
  BY <1>2, <1>3 DEF Off
<1>13. Off(texts, k + 1) = Len(g)
  BY <1>2, <1>9 DEF Off
<1>14. HeaderSize \in Nat /\ Len(texts[k + 1]) \in Nat
  <2>1. texts[k + 1] \in Line
    BY <1>4, ElementOfSeq
  <2> QED
    BY <2>1, ChatAssumption, LenProperties DEF Line
<1>15. PICK h, l : h = HeaderSize /\ l = Len(texts[k + 1])
  OBVIOUS
<1>16. h \in Nat /\ l \in Nat /\ Len(e) = h + l
  BY <1>8, <1>14, <1>15
<1>17. Len(g) = Len(s) + h + l
  BY ONLY <1>7, <1>11, <1>16
<1>18. /\ \A i \in 1..Off(texts, k) : FramesFn(texts)[k + 1][i] = FramesFn(texts)[k][i]
       /\ \A i \in 1..(HeaderSize + Len(texts[k + 1])) :
              FramesFn(texts)[k + 1][Off(texts, k) + i] = Encode(texts[k + 1])[i]
  BY <1>2, <1>5, <1>6, <1>7, <1>8, <1>9, <1>11
<1> QED
  BY <1>7, <1>12, <1>13, <1>15, <1>17, <1>18

-----------------------------------------------------------------------------
\* The place of each message among the bytes.

\* Byte p of the messages texts, one after the other.
At(texts, p) == FramesFn(texts)[Len(texts)][p]

\* Where the messages end.
End(texts) == Off(texts, Len(texts))

\* The messages begin at the start, and their places are numbers.
LEMMA OffType ==
  ASSUME NEW texts \in Seq(Line)
  PROVE  /\ Len(texts) \in Nat /\ End(texts) \in Nat /\ Off(texts, 0) = 0
         /\ \A k \in 0..Len(texts) : Off(texts, k) \in Nat
<1>1. Len(texts) \in Nat
  BY LenProperties
<1>2. \A k \in 0..Len(texts) : Off(texts, k) \in Nat
  BY FramesBytes
<1>3. FramesFn(texts)[0] = << >>
  BY <1>1, FramesStep
<1>4. Off(texts, 0) = 0
  BY <1>3 DEF Off
<1>5. End(texts) \in Nat
  BY <1>1, <1>2 DEF End
<1> QED
  BY <1>1, <1>2, <1>4, <1>5

\* What the first messages fill stays as it is when more follow.
LEMMA FramesPrefix ==
  ASSUME NEW texts \in Seq(Line), NEW j \in 0..Len(texts)
  PROVE  /\ Off(texts, j) <= End(texts)
         /\ \A i \in 1..Off(texts, j) : At(texts, i) = FramesFn(texts)[j][i]
<1>1. Len(texts) \in Nat /\ Off(texts, j) \in Nat /\ j \in Nat
  BY OffType
<1>2. PICK f : f = FramesFn(texts)
  OBVIOUS
<1>3. PICK l, p, N : l = Len(texts) /\ p = Off(texts, j) /\ N = l - j
  OBVIOUS
<1>4. l \in Nat /\ p \in Nat /\ N \in Nat /\ j + N = l
  BY <1>1, <1>3
<1> DEFINE T == {n \in Nat : p <= Off(texts, j + n) /\ \A i \in 1..p : f[j + n][i] = f[j][i]}
<1>5. 0 \in T
  <2>1. j + 0 = j
    BY <1>1
  <2> QED
    BY <1>3, <1>4, <2>1
<1>6. ASSUME NEW n \in 0..(N - 1), n \in T PROVE n + 1 \in T
  <2>1. PICK k : k = j + n
    OBVIOUS
  <2>2. k \in 0..(l - 1) /\ k \in 0..l /\ n + 1 \in Nat /\ j + (n + 1) = k + 1
    BY <1>1, <1>4, <2>1
  <2>3. p <= Off(texts, k) /\ \A i \in 1..p : f[k][i] = f[j][i]
    BY <1>6, <2>1
  <2>4. /\ Off(texts, k + 1) = Off(texts, k) + HeaderSize + Len(texts[k + 1])
        /\ \A i \in 1..Off(texts, k) : f[k + 1][i] = f[k][i]
    BY <1>2, <1>3, <2>2, FramesNext
  <2>5. Off(texts, k) \in Nat
    BY <1>3, <2>2, OffType
  <2>6. HeaderSize \in Nat /\ Len(texts[k + 1]) \in Nat
    <3>1. k + 1 \in 1..Len(texts)
      BY <1>3, <1>4, <2>2
    <3>2. texts[k + 1] \in Line
      BY <3>1, ElementOfSeq
    <3> QED
      BY <3>2, ChatAssumption, LenProperties DEF Line
  <2>7. p <= Off(texts, k + 1)
    <3>1. PICK x, y, h, q : /\ x = Off(texts, k) /\ y = Off(texts, k + 1)
                            /\ h = HeaderSize /\ q = Len(texts[k + 1])
      OBVIOUS
    <3>2. x \in Nat /\ h \in Nat /\ q \in Nat /\ y = x + h + q /\ p <= x
      BY <2>3, <2>4, <2>5, <2>6, <3>1
    <3>3. p <= y
      BY ONLY <1>4, <3>2
    <3> QED
      BY <3>1, <3>3
  <2>8. \A i \in 1..p : i \in 1..Off(texts, k)
    BY <1>4, <2>3, <2>5
  <2>9. \A i \in 1..p : f[k + 1][i] = f[j][i]
    BY <2>3, <2>4, <2>8
  <2> QED
    BY <2>2, <2>7, <2>9
<1>7. N \in T
  <2> HIDE DEF T
  <2>1. \A n \in 0..(N - 1) : n \in T => n + 1 \in T
    BY <1>6
  <2>2. \A n \in 0..N : n \in T
    BY ONLY <1>4, <1>5, <2>1, SetInduction
  <2> QED
    BY <1>4, <2>2
<1>8. p <= Off(texts, l) /\ \A i \in 1..p : f[l][i] = f[j][i]
  BY <1>4, <1>7
<1> QED
  BY <1>2, <1>3, <1>8 DEF At, End

\* Each message has its place among the bytes.
LEMMA FramesAt ==
  ASSUME NEW texts \in Seq(Line), NEW j \in 0..(Len(texts) - 1)
  PROVE  /\ Off(texts, j + 1) = Off(texts, j) + HeaderSize + Len(texts[j + 1])
         /\ Off(texts, j + 1) <= End(texts)
         /\ \A i \in 1..(HeaderSize + Len(texts[j + 1])) :
              At(texts, Off(texts, j) + i) = Encode(texts[j + 1])[i]
<1>1. Len(texts) \in Nat
  BY OffType
<1>2. j + 1 \in 0..Len(texts) /\ j \in 0..Len(texts) /\ j + 1 \in 1..Len(texts)
  BY <1>1
<1>3. PICK o, p, h, q, f : /\ o = Off(texts, j) /\ p = Off(texts, j + 1)
                           /\ h = HeaderSize /\ q = Len(texts[j + 1]) /\ f = FramesFn(texts)
  OBVIOUS
<1>4. o \in Nat /\ p \in Nat /\ h \in Nat /\ q \in Nat
  <2>1. texts[j + 1] \in Line
    BY <1>2, ElementOfSeq
  <2> QED
    BY <1>2, <1>3, <2>1, OffType, ChatAssumption, LenProperties DEF Line
<1>5. p = o + h + q /\ \A i \in 1..(h + q) : f[j + 1][o + i] = Encode(texts[j + 1])[i]
  BY <1>3, FramesNext
<1>6. p <= End(texts) /\ \A i \in 1..p : At(texts, i) = f[j + 1][i]
  BY <1>2, <1>3, FramesPrefix
<1>7. \A i \in 1..(h + q) : o + i \in 1..p
  BY ONLY <1>4, <1>5
<1>8. \A i \in 1..(h + q) : At(texts, o + i) = Encode(texts[j + 1])[i]
  BY <1>5, <1>6, <1>7
<1> QED
  BY <1>3, <1>5, <1>6, <1>8

\* whole is a with b after it.
Extends(whole, a, b) ==
  /\ whole \in Seq(Line) /\ a \in Seq(Line) /\ b \in Seq(Line)
  /\ Len(whole) = Len(a) + Len(b)
  /\ \A i \in 1..Len(a) : whole[i] = a[i]
  /\ \A i \in 1..Len(b) : whole[Len(a) + i] = b[i]

\* The messages that were there keep their places.
LEMMA FramesKept ==
  ASSUME NEW whole, NEW a, NEW b, Extends(whole, a, b)
  PROVE  /\ \A k \in 0..Len(a) : Off(whole, k) = Off(a, k) /\ k \in 0..Len(whole)
         /\ End(a) <= End(whole)
         /\ \A p \in 1..End(a) : At(whole, p) = At(a, p)
<1>1. /\ whole \in Seq(Line) /\ a \in Seq(Line) /\ Len(whole) \in Nat /\ Len(a) \in Nat
      /\ Len(a) <= Len(whole) /\ \A i \in 1..Len(a) : whole[i] = a[i]
  <2>1. b \in Seq(Line) /\ Len(b) \in Nat /\ Len(a) \in Nat
    BY OffType DEF Extends
  <2> QED
    BY <2>1 DEF Extends
<1>2. PICK f, g, l : f = FramesFn(a) /\ g = FramesFn(whole) /\ l = Len(a)
  OBVIOUS
<1>3. l \in Nat /\ \A k \in 0..l : k \in 0..Len(whole)
  BY <1>1, <1>2
<1>4. f[0] = << >> /\ \A k \in 1..l : f[k] = Framed(f[k - 1], a[k])
  BY <1>1, <1>2, FramesStep
<1>5. g[0] = << >> /\ \A k \in 1..l : g[k] = Framed(g[k - 1], a[k])
  <2>1. g[0] = << >> /\ \A k \in 1..Len(whole) : g[k] = Framed(g[k - 1], whole[k])
    BY <1>1, <1>2, FramesStep
  <2>2. \A k \in 1..l : k \in 1..Len(whole) /\ whole[k] = a[k]
    BY <1>1, <1>2
  <2> QED
    BY <2>1, <2>2
<1> DEFINE T == {n \in Nat : g[n] = f[n]}
<1>6. 0 \in T
  BY <1>4, <1>5
<1>7. ASSUME NEW n \in 0..(l - 1), n \in T PROVE n + 1 \in T
  <2>1. n + 1 \in 1..l /\ n + 1 - 1 = n /\ n + 1 \in Nat
    BY <1>3
  <2>2. f[n + 1] = Framed(f[n], a[n + 1]) /\ g[n + 1] = Framed(g[n], a[n + 1])
    BY <1>4, <1>5, <2>1
  <2> QED
    BY <1>7, <2>1, <2>2
<1>8. \A k \in 0..l : g[k] = f[k]
  <2>1. \A n \in 0..l : n \in T
    <3> HIDE DEF T
    <3>1. \A n \in 0..(l - 1) : n \in T => n + 1 \in T
      BY <1>7
    <3> QED
      BY ONLY <1>3, <1>6, <3>1, SetInduction
  <2> QED
    BY <2>1
<1>9. \A k \in 0..l : Off(whole, k) = Off(a, k)
  BY <1>2, <1>8 DEF Off
<1>10. l \in 0..l /\ l \in 0..Len(whole)
  BY <1>3
<1>11. /\ Off(whole, l) <= End(whole)
       /\ \A i \in 1..Off(whole, l) : At(whole, i) = g[l][i]
  BY <1>1, <1>2, <1>10, FramesPrefix
<1>12. End(a) = Off(whole, l)
  BY <1>2, <1>9, <1>10 DEF End
<1>13. \A i \in 1..End(a) : At(whole, i) = At(a, i)
  BY <1>2, <1>8, <1>10, <1>11, <1>12 DEF At
<1> QED
  BY <1>2, <1>3, <1>9, <1>11, <1>12, <1>13

\* The messages that come after them lie as they would alone.
LEMMA FramesAfter ==
  ASSUME NEW whole, NEW a, NEW b, Extends(whole, a, b)
  PROVE  /\ End(whole) = End(a) + End(b)
         /\ \A p \in 1..End(b) : At(whole, End(a) + p) = At(b, p)
<1>1. /\ whole \in Seq(Line) /\ a \in Seq(Line) /\ b \in Seq(Line)
      /\ Len(whole) = Len(a) + Len(b)
      /\ \A i \in 1..Len(b) : whole[Len(a) + i] = b[i]
  BY DEF Extends
<1>2. PICK f, g, l, m, o : /\ f = FramesFn(b) /\ g = FramesFn(whole)
                           /\ l = Len(a) /\ m = Len(b) /\ o = End(a)
  OBVIOUS
<1>3. l \in Nat /\ m \in Nat /\ o \in Nat
  BY <1>1, <1>2, OffType
<1> DEFINE T == {n \in Nat : /\ Off(whole, l + n) = o + Off(b, n)
                             /\ \A p \in 1..Off(b, n) : g[l + n][o + p] = f[n][p]}
<1>4. 0 \in T
  <2>1. l + 0 = l /\ l \in 0..l
    BY <1>3
  <2>2. Off(whole, l) = o
    BY <1>2, <2>1, FramesKept DEF End
  <2>3. Off(b, 0) = 0
    BY <1>1, OffType
  <2>4. o + 0 = o /\ 1..0 = {}
    BY <1>3
  <2> QED
    BY <2>1, <2>2, <2>3, <2>4
<1>5. ASSUME NEW n \in 0..(m - 1), n \in T PROVE n + 1 \in T
  <2>1. PICK k : k = l + n
    OBVIOUS
  <2>2. /\ k \in 0..(Len(whole) - 1) /\ k + 1 = l + (n + 1) /\ n + 1 \in 1..Len(b)
        /\ n \in 0..(Len(b) - 1) /\ n + 1 \in Nat /\ k \in 0..Len(whole) /\ n \in 0..Len(b)
    BY <1>1, <1>2, <1>3, <2>1
  <2>3. whole[k + 1] = b[n + 1]
    BY <1>1, <1>2, <2>2
  <2>4. PICK x, y, h, q, e : /\ x = Off(whole, k) /\ y = Off(b, n) /\ h = HeaderSize
                             /\ q = Len(b[n + 1]) /\ e = Encode(b[n + 1])
    OBVIOUS
  <2>5. x \in Nat /\ y \in Nat /\ h \in Nat /\ q \in Nat
    <3>1. b[n + 1] \in Line
      BY <1>1, <2>2, ElementOfSeq
    <3> QED
      BY <1>1, <2>2, <2>4, <3>1, OffType, ChatAssumption, LenProperties DEF Line
  <2>6. /\ Off(whole, k + 1) = x + h + q
        /\ \A i \in 1..x : g[k + 1][i] = g[k][i]
        /\ \A i \in 1..(h + q) : g[k + 1][x + i] = e[i]
    <3>1. PICK w : w = whole[k + 1]
      OBVIOUS
    <3>2. h = HeaderSize /\ q = Len(w) /\ e = Encode(w)
      BY <2>3, <2>4, <3>1
    <3>3. /\ Off(whole, k + 1) = Off(whole, k) + HeaderSize + Len(w)
          /\ \A i \in 1..Off(whole, k) : FramesFn(whole)[k + 1][i] = FramesFn(whole)[k][i]
          /\ \A i \in 1..(HeaderSize + Len(w)) :
               FramesFn(whole)[k + 1][Off(whole, k) + i] = Encode(w)[i]
      BY <1>1, <2>2, <3>1, FramesNext
    <3> QED
      BY <1>2, <2>4, <3>2, <3>3
  <2>7. /\ Off(b, n + 1) = y + h + q
        /\ \A i \in 1..y : f[n + 1][i] = f[n][i]
        /\ \A i \in 1..(h + q) : f[n + 1][y + i] = e[i]
    BY <1>1, <1>2, <2>2, <2>4, FramesNext
  <2>8. x = o + y /\ \A p \in 1..y : g[k][o + p] = f[n][p]
    BY <1>5, <2>1, <2>4
  <2>9. x + h + q = o + (y + h + q)
    BY ONLY <1>3, <2>5, <2>8
  <2>10. ASSUME NEW p \in 1..(y + h + q) PROVE g[k + 1][o + p] = f[n + 1][p]
    <3>1. CASE p \in 1..y
      <4>1. o + p \in 1..x
        BY ONLY <1>3, <2>5, <2>8, <3>1
      <4> QED
        BY <2>6, <2>7, <2>8, <3>1, <4>1
    <3>2. CASE p \notin 1..y
      <4>1. PICK i : i = p - y
        OBVIOUS
      <4>2. i \in 1..(h + q) /\ y + i = p /\ x + i = o + p
        BY ONLY <1>3, <2>5, <2>8, <2>10, <3>2, <4>1
      <4> QED
        BY <2>6, <2>7, <4>2
    <3> QED
      BY <3>1, <3>2
  <2>11. Off(whole, l + (n + 1)) = o + Off(b, n + 1)
    BY <2>2, <2>6, <2>7, <2>9
  <2>12. \A p \in 1..Off(b, n + 1) : g[l + (n + 1)][o + p] = f[n + 1][p]
    BY <2>2, <2>7, <2>10
  <2> QED
    BY <2>2, <2>11, <2>12
<1>6. m \in T
  <2> HIDE DEF T
  <2>1. \A n \in 0..(m - 1) : n \in T => n + 1 \in T
    BY <1>5
  <2>2. \A n \in 0..m : n \in T
    BY ONLY <1>3, <1>4, <2>1, SetInduction
  <2> QED
    BY <1>3, <2>2
<1>7. /\ Off(whole, l + m) = o + Off(b, m)
      /\ \A p \in 1..Off(b, m) : g[l + m][o + p] = f[m][p]
  BY <1>6
<1> QED
  BY <1>1, <1>2, <1>7 DEF At, End

-----------------------------------------------------------------------------
\* Pieces of the bytes.

\* buf is a piece of the bytes of texts, those after the first p.
Sits(buf, texts, p) ==
  /\ buf \in Seq(Byte) /\ p \in Nat
  /\ p + Len(buf) <= End(texts)
  /\ \A i \in 1..Len(buf) : buf[i] = At(texts, p + i)

\* The two pieces of a sequence of bytes that is cut.
Taken(buf, n) == SubSeq(buf, 1, n)
Left(buf, n) == SubSeq(buf, n + 1, Len(buf))

\* Nothing is lost between the two.
LEMMA CutBytes ==
  ASSUME NEW buf \in Seq(Byte), NEW n \in 0..Len(buf)
  PROVE  /\ Taken(buf, n) \in Seq(Byte) /\ Left(buf, n) \in Seq(Byte)
         /\ Len(buf) \in Nat /\ Len(Taken(buf, n)) = n /\ Len(Left(buf, n)) = Len(buf) - n
         /\ \A i \in 1..n : Taken(buf, n)[i] = buf[i]
         /\ \A i \in 1..(Len(buf) - n) : Left(buf, n)[i] = buf[n + i]
<1>1. Len(buf) \in Nat /\ n \in Nat /\ n <= Len(buf)
  BY LenProperties
<1>2. \A i \in 1..n : buf[i] \in Byte
  BY <1>1, ElementOfSeq
<1>3. \A i \in (n + 1)..Len(buf) : buf[i] \in Byte
  BY <1>1, ElementOfSeq
<1>4. /\ Taken(buf, n) \in Seq(Byte)
      /\ Len(Taken(buf, n)) = IF 1 <= n THEN n - 1 + 1 ELSE 0
      /\ \A i \in 1..(n - 1 + 1) : Taken(buf, n)[i] = buf[1 + i - 1]
  BY <1>1, <1>2, SubSeqProperties DEF Taken
<1>5. PICK l : l = Len(buf)
  OBVIOUS
<1>6. l \in Nat /\ n + 1 \in Int /\ l \in Int
  BY <1>1, <1>5
<1>7. /\ SubSeq(buf, n + 1, l) \in Seq(Byte)
      /\ Len(SubSeq(buf, n + 1, l)) = IF n + 1 <= l THEN l - (n + 1) + 1 ELSE 0
      /\ \A i \in 1..(l - (n + 1) + 1) : SubSeq(buf, n + 1, l)[i] = buf[(n + 1) + i - 1]
  BY <1>3, <1>5, <1>6, SubSeqProperties
<1>8. PICK z : z = Left(buf, n)
  OBVIOUS
<1>9. /\ z \in Seq(Byte)
      /\ Len(z) = IF n + 1 <= l THEN l - (n + 1) + 1 ELSE 0
      /\ \A i \in 1..(l - (n + 1) + 1) : z[i] = buf[(n + 1) + i - 1]
  BY <1>5, <1>7, <1>8 DEF Left
<1>10. \A i \in 1..(l - n) : (n + 1) + i - 1 = n + i /\ i \in 1..(l - (n + 1) + 1)
  BY <1>1, <1>6
<1>11. Len(z) = l - n /\ \A i \in 1..(l - n) : z[i] = buf[n + i]
  BY <1>1, <1>5, <1>6, <1>9, <1>10
<1>12. PICK y : y = Taken(buf, n)
  OBVIOUS
<1>13. \A i \in 1..n : 1 + i - 1 = i /\ i \in 1..(n - 1 + 1)
  BY <1>1
<1>14. Len(y) = n /\ \A i \in 1..n : y[i] = buf[i]
  BY <1>1, <1>4, <1>12, <1>13
<1> QED
  BY <1>1, <1>4, <1>5, <1>8, <1>9, <1>11, <1>12, <1>14

\* A piece of a piece is a piece.
LEMMA SitsCut ==
  ASSUME NEW texts \in Seq(Line), NEW p, NEW buf, Sits(buf, texts, p), NEW n \in 0..Len(buf)
  PROVE  Sits(Taken(buf, n), texts, p) /\ Sits(Left(buf, n), texts, p + n)
<1>1. PICK l, e : l = Len(buf) /\ e = End(texts)
  OBVIOUS
<1>2. buf \in Seq(Byte) /\ p \in Nat /\ p + l <= e /\ \A i \in 1..l : buf[i] = At(texts, p + i)
  BY <1>1 DEF Sits
<1>3. l \in Nat /\ e \in Nat /\ n \in Nat /\ n <= l
  BY <1>1, <1>2, OffType, LenProperties
<1>4. PICK y, z : y = Taken(buf, n) /\ z = Left(buf, n)
  OBVIOUS
<1>5. /\ y \in Seq(Byte) /\ z \in Seq(Byte) /\ Len(y) = n /\ Len(z) = l - n
      /\ \A i \in 1..n : y[i] = buf[i]
      /\ \A i \in 1..(l - n) : z[i] = buf[n + i]
  BY <1>1, <1>2, <1>4, CutBytes
<1>6. p + n <= e /\ p + n \in Nat /\ (p + n) + (l - n) <= e
  BY ONLY <1>2, <1>3
<1>7. \A i \in 1..n : y[i] = At(texts, p + i)
  <2>1. \A i \in 1..n : i \in 1..l
    BY <1>3
  <2> QED
    BY <1>2, <1>5, <2>1
<1>8. \A i \in 1..(l - n) : z[i] = At(texts, (p + n) + i)
  <2>1. \A i \in 1..(l - n) : n + i \in 1..l /\ p + (n + i) = (p + n) + i
    BY <1>2, <1>3
  <2> QED
    BY <1>2, <1>5, <2>1
<1>9. Sits(y, texts, p)
  BY <1>1, <1>2, <1>5, <1>6, <1>7 DEF Sits
<1>10. Sits(z, texts, p + n)
  BY <1>1, <1>5, <1>6, <1>8 DEF Sits
<1> QED
  BY <1>4, <1>9, <1>10

\* Two pieces that follow each other are a piece.
LEMMA SitsJoined ==
  ASSUME NEW texts \in Seq(Line), NEW p, NEW a, NEW b, Sits(a, texts, p), Sits(b, texts, p + Len(a))
  PROVE  Sits(Cat(a, b), texts, p) /\ Len(Cat(a, b)) = Len(a) + Len(b)
<1>1. PICK l, m, e : l = Len(a) /\ m = Len(b) /\ e = End(texts)
  OBVIOUS
<1>2. /\ a \in Seq(Byte) /\ b \in Seq(Byte) /\ p \in Nat /\ (p + l) + m <= e
      /\ \A i \in 1..l : a[i] = At(texts, p + i)
      /\ \A i \in 1..m : b[i] = At(texts, (p + l) + i)
  BY <1>1 DEF Sits
<1>3. l \in Nat /\ m \in Nat /\ e \in Nat
  BY <1>1, <1>2, OffType, LenProperties
<1>4. PICK z : z = Cat(a, b)
  OBVIOUS
<1>5. /\ z \in Seq(Byte) /\ Len(z) = l + m
      /\ \A i \in 1..l : z[i] = a[i]
      /\ \A i \in 1..m : z[l + i] = b[i]
  BY <1>1, <1>2, <1>4, Joined
<1>6. p + (l + m) <= e
  BY ONLY <1>2, <1>3
<1>7. ASSUME NEW i \in 1..(l + m) PROVE z[i] = At(texts, p + i)
  <2>1. CASE i \in 1..l
    BY <1>2, <1>5, <2>1
  <2>2. CASE i \notin 1..l
    <3>1. PICK j : j = i - l
      OBVIOUS
    <3>2. j \in 1..m /\ l + j = i /\ (p + l) + j = p + i
      BY ONLY <1>2, <1>3, <1>7, <2>2, <3>1
    <3> QED
      BY <1>2, <1>5, <3>2
  <2> QED
    BY <2>1, <2>2
<1>8. Sits(z, texts, p)
  BY <1>1, <1>2, <1>5, <1>6, <1>7 DEF Sits
<1> QED
  BY <1>1, <1>4, <1>5, <1>8

\* No bytes are a piece anywhere.
LEMMA SitsEmpty ==
  ASSUME NEW texts, NEW p \in Nat, End(texts) \in Nat, p <= End(texts)
  PROVE  Sits(<< >>, texts, p)
<1>1. << >> \in Seq(Byte) /\ Len(<< >>) = 0
  OBVIOUS
<1>2. p + 0 <= End(texts) /\ 1..0 = {}
  OBVIOUS
<1> QED
  BY <1>1, <1>2 DEF Sits

\* A piece stays one when more messages come.
LEMMA SitsKept ==
  ASSUME NEW whole, NEW a, NEW b, Extends(whole, a, b), NEW buf, NEW p, Sits(buf, a, p)
  PROVE  Sits(buf, whole, p)
<1>1. whole \in Seq(Line) /\ a \in Seq(Line)
  BY DEF Extends
<1>2. PICK l, e, w : l = Len(buf) /\ e = End(a) /\ w = End(whole)
  OBVIOUS
<1>3. buf \in Seq(Byte) /\ p \in Nat /\ p + l <= e /\ \A i \in 1..l : buf[i] = At(a, p + i)
  BY <1>2 DEF Sits
<1>4. l \in Nat /\ e \in Nat /\ w \in Nat
  BY <1>1, <1>2, <1>3, OffType, LenProperties
<1>5. e <= w /\ \A q \in 1..e : At(whole, q) = At(a, q)
  BY <1>2, FramesKept
<1>6. p + l <= w /\ \A i \in 1..l : p + i \in 1..e
  BY ONLY <1>3, <1>4, <1>5
<1>7. \A i \in 1..l : buf[i] = At(whole, p + i)
  BY <1>3, <1>5, <1>6
<1> QED
  BY <1>2, <1>3, <1>6, <1>7 DEF Sits

\* The bytes of the messages that come sit after the others.
LEMMA SitsAfter ==
  ASSUME NEW whole, NEW a, NEW b, Extends(whole, a, b)
  PROVE  Sits(Frames(b), whole, End(a)) /\ End(a) + Len(Frames(b)) = End(whole)
<1>1. whole \in Seq(Line) /\ a \in Seq(Line) /\ b \in Seq(Line)
  BY DEF Extends
<1>2. PICK z, o, l : z = Frames(b) /\ o = End(a) /\ l = End(b)
  OBVIOUS
<1>3. Len(b) \in Nat /\ o \in Nat /\ l \in Nat /\ Len(b) \in 0..Len(b)
  BY <1>1, <1>2, OffType
<1>4. z = FramesFn(b)[Len(b)] /\ z \in Seq(Byte)
  BY <1>1, <1>2, <1>3, FramesStep, FramesBytes
<1>5. Len(z) = l /\ \A i \in 1..l : z[i] = At(b, i)
  BY <1>2, <1>4 DEF End, Off, At
<1>6. End(whole) = o + l /\ \A i \in 1..l : At(whole, o + i) = At(b, i)
  BY <1>2, FramesAfter
<1>7. Sits(z, whole, o)
  <2>1. o + l <= End(whole)
    BY <1>3, <1>6
  <2> QED
    BY <1>3, <1>4, <1>5, <1>6, <2>1 DEF Sits
<1> QED
  BY <1>2, <1>5, <1>6, <1>7

\* The bytes of a message sit where it begins.
LEMMA SitsMessage ==
  ASSUME NEW texts \in Seq(Line), NEW j \in 0..(Len(texts) - 1)
  PROVE  /\ Sits(Encode(texts[j + 1]), texts, Off(texts, j))
         /\ Off(texts, j) + Len(Encode(texts[j + 1])) = Off(texts, j + 1)
<1>1. j \in 0..Len(texts) /\ j + 1 \in 1..Len(texts)
  BY OffType
<1>2. PICK o, t, e, h, q : /\ o = Off(texts, j) /\ t = texts[j + 1] /\ e = Encode(t)
                           /\ h = HeaderSize /\ q = Len(t)
  OBVIOUS
<1>3. t \in Line
  BY <1>1, <1>2, ElementOfSeq
<1>4. o \in Nat /\ h \in Nat /\ q \in Nat
  BY <1>1, <1>2, <1>3, OffType, ChatAssumption, LenProperties DEF Line
<1>5. e \in Seq(Byte) /\ Len(e) = h + q
  BY <1>2, <1>3, EncodeBytes
<1>6. /\ Off(texts, j + 1) = o + h + q /\ Off(texts, j + 1) <= End(texts)
      /\ \A i \in 1..(h + q) : At(texts, o + i) = e[i]
  BY <1>2, FramesAt
<1>7. o + (h + q) = o + h + q
  BY ONLY <1>4
<1>8. o + (h + q) <= End(texts) /\ o + (h + q) = Off(texts, j + 1)
  BY <1>6, <1>7
<1>9. Sits(e, texts, o)
  BY <1>4, <1>5, <1>6, <1>8 DEF Sits
<1> QED
  BY <1>2, <1>5, <1>8, <1>9

-----------------------------------------------------------------------------
\* What onMessage takes.

\* The lines after the first k, j of them.
Lines(texts, k, j) == [i \in 1..j |-> texts[k + i]]

\* What the loop has taken from buf is whole messages from message k on, none too long.
Took(m, buf, texts, k) ==
  \E j \in 0..(Len(texts) - k) :
    /\ m.texts = Lines(texts, k, j)
    /\ m.used \in 0..Len(buf)
    /\ Off(texts, k) + m.used = Off(texts, k + j)
    /\ \A i \in 1..j : Len(texts[k + i]) <= MaxLen

\* A text among the bytes.
LEMMA TextIs ==
  ASSUME NEW buf \in Seq(Byte), NEW o \in Nat, NEW t \in Seq(Byte), o + Len(t) <= Len(buf),
         \A i \in 1..Len(t) : buf[o + i] = t[i]
  PROVE  SubSeq(buf, o + 1, o + Len(t)) = t
<1>1. PICK l, q : l = Len(buf) /\ q = Len(t)
  OBVIOUS
<1>2. l \in Nat /\ q \in Nat /\ o + q <= l
  BY <1>1, LenProperties
<1>3. o + 1 \in Int /\ o + q \in Int /\ \A i \in (o + 1)..(o + q) : i \in 1..l
  BY <1>2
<1>4. \A i \in (o + 1)..(o + q) : buf[i] \in Byte
  BY <1>1, <1>3, ElementOfSeq
<1>5. PICK z : z = SubSeq(buf, o + 1, o + q)
  OBVIOUS
<1>6. /\ z \in Seq(Byte)
      /\ Len(z) = IF o + 1 <= o + q THEN (o + q) - (o + 1) + 1 ELSE 0
      /\ \A i \in 1..((o + q) - (o + 1) + 1) : z[i] = buf[(o + 1) + i - 1]
  BY <1>3, <1>4, <1>5, SubSeqProperties
<1>7. \A i \in 1..q : i \in 1..((o + q) - (o + 1) + 1) /\ (o + 1) + i - 1 = o + i
  BY <1>2
<1>8. Len(z) = q /\ \A i \in 1..q : z[i] = t[i]
  BY <1>1, <1>2, <1>6, <1>7
<1>9. z = t
  BY <1>1, <1>6, <1>8, SeqEqual
<1> QED
  BY <1>1, <1>5, <1>9

\* One more line taken.
LEMMA LinesNext ==
  ASSUME NEW texts, NEW k \in Nat, NEW j \in Nat, NEW t, t = texts[k + j + 1]
  PROVE  Append(Lines(texts, k, j), t) = Lines(texts, k, j + 1)
<1>1. PICK S : S = {texts[k + i] : i \in 1..(j + 1)}
  OBVIOUS
<1>2. PICK x, y : x = Lines(texts, k, j) /\ y = Lines(texts, k, j + 1)
  OBVIOUS
<1>3. x \in Seq(S) /\ Len(x) = j /\ \A i \in 1..j : x[i] = texts[k + i]
  <2>1. \A i \in 1..j : texts[k + i] \in S
    BY <1>1
  <2>2. x = [i \in 1..j |-> texts[k + i]]
    BY <1>2 DEF Lines
  <2> QED
    BY ONLY <2>1, <2>2, j \in Nat
<1>4. y \in Seq(S) /\ Len(y) = j + 1 /\ \A i \in 1..(j + 1) : y[i] = texts[k + i]
  <2>1. \A i \in 1..(j + 1) : texts[k + i] \in S
    BY <1>1
  <2>2. y = [i \in 1..(j + 1) |-> texts[k + i]]
    BY <1>2 DEF Lines
  <2>3. j + 1 \in Nat
    OBVIOUS
  <2> QED
    BY ONLY <2>1, <2>2, <2>3
<1>5. t \in S
  <2>1. j + 1 \in 1..(j + 1) /\ k + (j + 1) = k + j + 1
    OBVIOUS
  <2> QED
    BY <1>1, <2>1
<1>6. PICK z : z = Append(x, t)
  OBVIOUS
<1>7. z \in Seq(S) /\ Len(z) = j + 1 /\ (\A i \in 1..j : z[i] = x[i]) /\ z[j + 1] = t
  BY <1>3, <1>5, <1>6, AppendProperties
<1>8. ASSUME NEW i \in 1..(j + 1) PROVE z[i] = y[i]
  <2>1. CASE i = j + 1
    BY <1>4, <1>7, <2>1
  <2>2. CASE i # j + 1
    <3>1. i \in 1..j
      BY <2>2
    <3> QED
      BY <1>3, <1>4, <1>7, <3>1
  <2> QED
    BY <2>1, <2>2
<1>9. z = y
  BY ONLY <1>4, <1>7, <1>8, SeqEqual
<1> QED
  BY <1>2, <1>6, <1>9

\* A turn takes the next message, if it is there as a whole.
LEMMA TurnTakes ==
  ASSUME NEW texts \in Seq(Line), NEW k \in 0..Len(texts), NEW buf,
         Sits(buf, texts, Off(texts, k)), NEW m, Took(m, buf, texts, k)
  PROVE  Took(Turn(buf, m), buf, texts, k)
<1>1. PICK l, p, len, h : l = Len(texts) /\ p = Off(texts, k) /\ len = Len(buf) /\ h = HeaderSize
  OBVIOUS
<1>2. /\ buf \in Seq(Byte) /\ p + len <= End(texts)
      /\ \A i \in 1..len : buf[i] = At(texts, p + i)
  BY <1>1 DEF Sits
<1>3. l \in Nat /\ k \in Nat /\ k <= l /\ p \in Nat /\ len \in Nat /\ h \in Nat /\ h > 0
  BY <1>1, <1>2, OffType, LenProperties, ChatAssumption
<1>4. PICK j \in 0..(l - k) :
        /\ m.texts = Lines(texts, k, j)
        /\ m.used \in 0..len
        /\ p + m.used = Off(texts, k + j)
        /\ \A i \in 1..j : Len(texts[k + i]) <= MaxLen
  BY <1>1 DEF Took
<1>5. PICK u, r : u = m.used /\ r = k + j
  OBVIOUS
<1>6. u \in Nat /\ u <= len /\ p + u = Off(texts, r) /\ r \in 0..l /\ j \in Nat
  BY <1>1, <1>3, <1>4, <1>5
<1>7. PICK n : n = PeekLength(buf, u)
  OBVIOUS
<1>8. CASE m.bad \/ len - u < h \/ (~(n > MaxLen) /\ len - u < h + n)
  <2>1. Turn(buf, m) = m
    BY <1>1, <1>5, <1>7, <1>8 DEF Turn
  <2> QED
    BY <2>1
<1>9. CASE ~m.bad /\ ~(len - u < h) /\ n > MaxLen
  <2>1. PICK w : w = [m EXCEPT !.bad = TRUE]
    OBVIOUS
  <2>2. Turn(buf, m) = w
    BY <1>1, <1>5, <1>7, <1>9, <2>1 DEF Turn
  <2>3. w.texts = m.texts /\ w.used = m.used
    BY <2>1
  <2>4. Took(w, buf, texts, k)
    BY <1>1, <1>4, <2>3 DEF Took
  <2> QED
    BY <2>2, <2>4
<1>10. CASE ~m.bad /\ ~(len - u < h) /\ ~(n > MaxLen) /\ ~(len - u < h + n)
  <2>1. r # l
    <3>1. CASE r = l
      <4>1. p + u = End(texts)
        BY <1>1, <1>6, <3>1 DEF End
      <4>2. len <= u
        BY <1>2, <1>3, <1>6, <4>1
      <4> QED
        BY <1>3, <1>6, <1>10, <4>2
    <3> QED
      BY <3>1
  <2>2. r \in 0..(l - 1) /\ r + 1 \in 1..l /\ r + 1 \in 0..l
    BY <1>3, <1>6, <2>1
  <2>3. PICK t, q, e : t = texts[r + 1] /\ q = Len(t) /\ e = Encode(t)
    OBVIOUS
  <2>4. t \in Line
    BY <1>1, <2>2, <2>3, ElementOfSeq
  <2>5. t \in Seq(Byte) /\ q \in Nat /\ Fits(q)
    BY <2>3, <2>4, LenProperties DEF Line
  <2>6. /\ Off(texts, r + 1) = (p + u) + h + q
        /\ \A i \in 1..(h + q) : At(texts, (p + u) + i) = e[i]
    BY <1>1, <1>6, <2>2, <2>3, FramesAt
  <2>7. /\ \A i \in 1..h : e[i] = Rest(q)[h - i] % Base
        /\ \A i \in 1..q : e[h + i] = t[i]
    BY <1>1, <2>3, <2>4, EncodeBytes
  <2>8. ASSUME NEW i \in 1..(h + q), u + i <= len PROVE buf[u + i] = e[i]
    <3>1. u + i \in 1..len /\ p + (u + i) = (p + u) + i
      BY <1>3, <1>6, <2>5, <2>8
    <3> QED
      BY <1>2, <2>6, <3>1
  <2>9. n = q
    <3>1. ASSUME NEW i \in 1..h PROVE buf[u + i] = Rest(q)[h - i] % Base
      <4>1. i \in 1..(h + q) /\ u + i <= len
        BY ONLY <1>3, <1>6, <1>10, <2>5, <3>1
      <4> QED
        BY <2>7, <2>8, <4>1
    <3>2. PeekLength(buf, u) = q
      BY <1>1, <1>6, <2>5, <3>1, PeekedLength
    <3> QED
      BY <1>7, <3>2
  <2>10. u + h + q <= len /\ u + h \in Nat /\ u + h + q \in Nat
    BY <1>3, <1>6, <1>10, <2>5, <2>9
  <2>11. SubSeq(buf, u + h + 1, u + h + q) = t
    <3>1. ASSUME NEW i \in 1..q PROVE buf[u + h + i] = t[i]
      <4>1. h + i \in 1..(h + q) /\ u + (h + i) <= len /\ u + (h + i) = u + h + i
        BY ONLY <1>3, <1>6, <2>5, <2>10, <3>1
      <4>2. buf[u + (h + i)] = e[h + i]
        BY <2>8, <4>1
      <4> QED
        BY <2>7, <4>1, <4>2
    <3>2. PICK o : o = u + h
      OBVIOUS
    <3>3. /\ buf \in Seq(Byte) /\ o \in Nat /\ t \in Seq(Byte) /\ o + Len(t) <= Len(buf)
          /\ \A i \in 1..Len(t) : buf[o + i] = t[i]
      BY <1>1, <1>2, <2>3, <2>5, <2>10, <3>1, <3>2
    <3>4. SubSeq(buf, o + 1, o + Len(t)) = t
      BY ONLY <3>3, TextIs
    <3> QED
      BY <2>3, <3>2, <3>4
  <2>12. PICK w : w = Turn(buf, m)
    OBVIOUS
  <2>13. w.texts = Append(m.texts, t) /\ w.used = u + h + q
    <3>1. w = [texts |-> Append(m.texts, SubSeq(buf, u + h + 1, u + h + n)),
               used |-> u + h + n, bad |-> FALSE]
      BY <1>1, <1>5, <1>7, <1>10, <2>12 DEF Turn
    <3>2. w.texts = Append(m.texts, SubSeq(buf, u + h + 1, u + h + q)) /\ w.used = u + h + q
      BY <2>9, <3>1
    <3> QED
      BY <2>11, <3>2
  <2>14. t = texts[k + j + 1] /\ k + j = r
    BY <1>5, <2>3
  <2>15. w.texts = Lines(texts, k, j + 1)
    BY <1>3, <1>4, <1>6, <2>13, <2>14, LinesNext
  <2>16. w.used \in 0..len
    BY <2>10, <2>13
  <2>17. p + (u + h + q) = (p + u) + h + q
    BY ONLY <1>3, <1>6, <2>5
  <2>18. k + (j + 1) = r + 1 /\ j + 1 \in 0..(l - k)
    BY <1>3, <1>5, <1>6, <2>2
  <2>19. p + w.used = Off(texts, k + (j + 1))
    BY <2>6, <2>13, <2>17, <2>18
  <2>20. ASSUME NEW i \in 1..(j + 1) PROVE Len(texts[k + i]) <= MaxLen
    <3>1. CASE i = j + 1
      <4>1. q <= MaxLen
        BY <1>10, <2>5, <2>9, ChatAssumption
      <4> QED
        BY <2>3, <2>18, <3>1, <4>1
    <3>2. CASE i # j + 1
      <4>1. i \in 1..j
        BY <1>6, <3>2
      <4> QED
        BY <1>4, <4>1
    <3> QED
      BY <3>1, <3>2
  <2>21. Took(w, buf, texts, k)
    BY <1>1, <2>15, <2>16, <2>18, <2>19, <2>20 DEF Took
  <2> QED
    BY <2>12, <2>21
<1> QED
  <2>1. CASE m.bad \/ len - u < h
    BY <1>8, <2>1
  <2>2. CASE ~(m.bad \/ len - u < h) /\ n > MaxLen
    BY <1>9, <2>2
  <2>3. CASE ~(m.bad \/ len - u < h) /\ ~(n > MaxLen) /\ len - u < h + n
    BY <1>8, <2>3
  <2>4. CASE ~(m.bad \/ len - u < h) /\ ~(n > MaxLen) /\ ~(len - u < h + n)
    BY <1>10, <2>4
  <2> QED
    BY <2>1, <2>2, <2>3, <2>4

\* So does the loop.
LEMMA onMessageTakes ==
  ASSUME NEW texts \in Seq(Line), NEW k \in 0..Len(texts), NEW buf,
         Sits(buf, texts, Off(texts, k))
  PROVE  Took(onMessage(buf), buf, texts, k)
<1>1. buf \in Seq(Byte) /\ Len(buf) \in Nat
  BY LenProperties DEF Sits
<1>2. PICK N : N = Turns(buf)
  OBVIOUS
<1>3. N \in Nat
  <2>1. HeaderSize \in Nat /\ HeaderSize > 0
    BY ChatAssumption
  <2>2. Len(buf) \div HeaderSize \in Nat
    BY <1>1, <2>1
  <2> QED
    BY <1>2, <2>2 DEF Turns
<1>4. PICK f : f = LoopFn(buf)
  OBVIOUS
<1>5. /\ onMessage(buf) = f[N] /\ f[0] = LoopInit
      /\ \A i \in 1..N : f[i] = Turn(buf, f[i - 1])
  BY <1>2, <1>3, <1>4, LoopStep
<1> DEFINE T == {n \in Nat : Took(f[n], buf, texts, k)}
<1>6. 0 \in T
  <2>1. PICK m : m = f[0]
    OBVIOUS
  <2>2. m.texts = << >> /\ m.used = 0
    BY <1>5, <2>1 DEF LoopInit
  <2>3. Len(texts) \in Nat /\ Off(texts, k) \in Nat /\ k + 0 = k
    BY OffType
  <2>4. 0 \in 0..(Len(texts) - k) /\ 0 \in 0..Len(buf) /\ Off(texts, k) + 0 = Off(texts, k)
    BY <1>1, <2>3
  <2>5. Lines(texts, k, 0) = << >> /\ 1..0 = {}
    BY DEF Lines
  <2>6. Took(m, buf, texts, k)
    BY <2>2, <2>3, <2>4, <2>5 DEF Took
  <2> QED
    BY <2>1, <2>6
<1>7. ASSUME NEW n \in 0..(N - 1), n \in T PROVE n + 1 \in T
  <2>1. n + 1 \in 1..N /\ n + 1 - 1 = n /\ n + 1 \in Nat
    BY <1>3
  <2>2. f[n + 1] = Turn(buf, f[n])
    BY <1>5, <2>1
  <2>3. Took(f[n], buf, texts, k)
    BY <1>7
  <2>4. Took(Turn(buf, f[n]), buf, texts, k)
    BY <2>3, TurnTakes
  <2> QED
    BY <2>1, <2>2, <2>4
<1>8. N \in T
  <2> HIDE DEF T
  <2>1. \A n \in 0..(N - 1) : n \in T => n + 1 \in T
    BY <1>7
  <2>2. \A n \in 0..N : n \in T
    BY ONLY <1>3, <1>6, <2>1, SetInduction
  <2> QED
    BY <1>3, <2>2
<1> QED
  BY <1>5, <1>8

-----------------------------------------------------------------------------
\* A stream: what a reader has taken, what it holds and what is on its way.

\* A reader that has taken the first k messages of texts: what is in its
\* buffer and what is on its way are the bytes that follow.
Stream(texts, k, buf, wire) ==
  /\ k \in 0..Len(texts)
  /\ Sits(buf, texts, Off(texts, k))
  /\ Sits(wire, texts, Off(texts, k) + Len(buf))

\* How far the bytes on their way go.
Upto(texts, k, buf, wire) == Off(texts, k) + Len(buf) + Len(wire)

\* The numbers and the bytes of a stream.
LEMMA StreamType ==
  ASSUME NEW texts \in Seq(Line), NEW k, NEW buf, NEW wire, Stream(texts, k, buf, wire)
  PROVE  /\ k \in 0..Len(texts) /\ buf \in Seq(Byte) /\ wire \in Seq(Byte)
         /\ Off(texts, k) \in Nat /\ Len(buf) \in Nat /\ Len(wire) \in Nat /\ Len(texts) \in Nat
<1>1. k \in 0..Len(texts) /\ buf \in Seq(Byte) /\ wire \in Seq(Byte)
  BY DEF Stream, Sits
<1> QED
  BY <1>1, OffType, LenProperties

\* Nothing on its way.
LEMMA StreamEmpty ==
  ASSUME NEW texts \in Seq(Line), NEW k \in 0..Len(texts)
  PROVE  Stream(texts, k, << >>, << >>) /\ Upto(texts, k, << >>, << >>) = Off(texts, k)
<1>1. PICK o : o = Off(texts, k)
  OBVIOUS
<1>2. o \in Nat /\ End(texts) \in Nat /\ o <= End(texts)
  BY <1>1, OffType, FramesPrefix
<1>3. Len(<< >>) = 0 /\ o + 0 = o /\ o + 0 + 0 = o
  BY <1>2
<1>4. Sits(<< >>, texts, o)
  BY <1>2, SitsEmpty
<1> QED
  BY <1>1, <1>3, <1>4 DEF Stream, Upto

\* A reader that has put n bytes from the wire into its buffer, which is then
\* full, takes the messages that are complete from it.
Reads(texts, k, buf, wire, n, full, m) ==
  \E j \in 0..(Len(texts) - k) :
    /\ m.texts = Lines(texts, k, j)
    /\ \A i \in 1..j : Len(texts[k + i]) <= MaxLen
    /\ Stream(texts, k + j, Left(full, m.used), Left(wire, n))
    /\ Upto(texts, k + j, Left(full, m.used), Left(wire, n)) = Upto(texts, k, buf, wire)

\* onMessage does so, wherever the stream is cut.
LEMMA StreamRead ==
  ASSUME NEW texts \in Seq(Line), NEW k, NEW buf, NEW wire, Stream(texts, k, buf, wire),
         NEW n \in 1..Len(wire), NEW full, full = Cat(buf, Taken(wire, n)),
         NEW m, m = onMessage(full)
  PROVE  Reads(texts, k, buf, wire, n, full, m)
<1>1. PICK o, x, y, l : o = Off(texts, k) /\ x = Len(buf) /\ y = Len(wire) /\ l = Len(texts)
  OBVIOUS
<1>2. /\ k \in 0..l /\ o \in Nat /\ x \in Nat /\ y \in Nat /\ l \in Nat
      /\ n \in 0..y /\ n \in Nat /\ wire \in Seq(Byte) /\ n <= y
  BY <1>1, StreamType
<1>3. Sits(buf, texts, o) /\ Sits(wire, texts, o + x)
  BY <1>1 DEF Stream
<1>4. PICK a, b : a = Taken(wire, n) /\ b = Left(wire, n)
  OBVIOUS
<1>5. Sits(a, texts, o + x) /\ Sits(b, texts, (o + x) + n) /\ Len(a) = n /\ Len(b) = y - n
  BY <1>1, <1>2, <1>3, <1>4, SitsCut, CutBytes
<1>6. Sits(full, texts, o) /\ Len(full) = x + n
  BY <1>1, <1>3, <1>4, <1>5, SitsJoined
<1>7. Took(m, full, texts, k)
  BY <1>1, <1>2, <1>6, onMessageTakes
<1>8. PICK j \in 0..(l - k) :
        /\ m.texts = Lines(texts, k, j)
        /\ m.used \in 0..Len(full)
        /\ o + m.used = Off(texts, k + j)
        /\ \A i \in 1..j : Len(texts[k + i]) <= MaxLen
  BY <1>1, <1>7 DEF Took
<1>9. PICK u, r : u = m.used /\ r = Left(full, u)
  OBVIOUS
<1>10. u \in 0..Len(full) /\ u \in Nat /\ u <= x + n /\ k + j \in 0..l /\ o + u = Off(texts, k + j)
  BY <1>2, <1>6, <1>8, <1>9
<1>11. Sits(r, texts, o + u) /\ Len(r) = (x + n) - u
  <2>1. full \in Seq(Byte)
    BY <1>6 DEF Sits
  <2>2. Sits(Left(full, u), texts, o + u)
    BY <1>6, <1>10, SitsCut
  <2>3. Len(Left(full, u)) = Len(full) - u
    BY <1>10, <2>1, CutBytes
  <2> QED
    BY <1>6, <1>9, <2>2, <2>3
<1>12. (o + u) + ((x + n) - u) = (o + x) + n
  BY ONLY <1>2, <1>10
<1>13. Stream(texts, k + j, r, b)
  BY <1>1, <1>5, <1>10, <1>11, <1>12 DEF Stream
<1>14. (o + u) + ((x + n) - u) + (y - n) = o + x + y
  BY ONLY <1>2, <1>10
<1>15. Upto(texts, k + j, r, b) = Upto(texts, k, buf, wire)
  BY <1>1, <1>5, <1>10, <1>11, <1>14 DEF Upto
<1> QED
  BY <1>1, <1>4, <1>8, <1>9, <1>13, <1>15 DEF Reads

\* The next message is written.
LEMMA StreamWrite ==
  ASSUME NEW texts \in Seq(Line), NEW k, NEW buf, NEW wire, Stream(texts, k, buf, wire),
         NEW j \in 0..(Len(texts) - 1), Upto(texts, k, buf, wire) = Off(texts, j)
  PROVE  /\ Stream(texts, k, buf, Cat(wire, Encode(texts[j + 1])))
         /\ Upto(texts, k, buf, Cat(wire, Encode(texts[j + 1]))) = Off(texts, j + 1)
<1>1. PICK o, x, y, e : /\ o = Off(texts, k) /\ x = Len(buf) /\ y = Len(wire)
                        /\ e = Encode(texts[j + 1])
  OBVIOUS
<1>2. o \in Nat /\ x \in Nat /\ y \in Nat
  BY <1>1, StreamType
<1>3. Off(texts, j) = (o + x) + y
  BY <1>1 DEF Upto
<1>4. Sits(wire, texts, o + x)
  BY <1>1 DEF Stream
<1>5. Sits(e, texts, (o + x) + y) /\ (o + x) + y + Len(e) = Off(texts, j + 1)
  BY <1>1, <1>3, SitsMessage
<1>6. Len(e) \in Nat
  BY <1>5, LenProperties DEF Sits
<1>7. PICK z : z = Cat(wire, e)
  OBVIOUS
<1>8. Sits(z, texts, o + x) /\ Len(z) = y + Len(e)
  BY <1>1, <1>4, <1>5, <1>7, SitsJoined
<1>9. Stream(texts, k, buf, z)
  BY <1>1, <1>8 DEF Stream
<1>10. o + x + (y + Len(e)) = (o + x) + y + Len(e)
  BY ONLY <1>2, <1>6
<1>11. Upto(texts, k, buf, z) = Off(texts, j + 1)
  BY <1>1, <1>5, <1>8, <1>10 DEF Upto
<1> QED
  BY <1>1, <1>7, <1>9, <1>11

\* The last bytes are lost.
LEMMA StreamCut ==
  ASSUME NEW texts \in Seq(Line), NEW k, NEW buf, NEW wire, Stream(texts, k, buf, wire),
         NEW n \in 0..Len(wire)
  PROVE  Stream(texts, k, buf, Taken(wire, n))
<1>1. Sits(Taken(wire, n), texts, Off(texts, k) + Len(buf))
  BY SitsCut DEF Stream
<1> QED
  BY <1>1 DEF Stream

\* More messages come, but not to this reader.
LEMMA StreamKept ==
  ASSUME NEW whole, NEW a, NEW b, Extends(whole, a, b),
         NEW k, NEW buf, NEW wire, Stream(a, k, buf, wire)
  PROVE  Stream(whole, k, buf, wire) /\ Upto(whole, k, buf, wire) = Upto(a, k, buf, wire)
<1>1. k \in 0..Len(a) /\ Sits(buf, a, Off(a, k)) /\ Sits(wire, a, Off(a, k) + Len(buf))
  BY DEF Stream
<1>2. Off(whole, k) = Off(a, k) /\ k \in 0..Len(whole)
  BY <1>1, FramesKept
<1>3. Sits(buf, whole, Off(a, k)) /\ Sits(wire, whole, Off(a, k) + Len(buf))
  BY <1>1, SitsKept
<1> QED
  BY <1>2, <1>3 DEF Stream, Upto

\* More messages come, to this reader too.
LEMMA StreamSend ==
  ASSUME NEW whole, NEW a, NEW b, Extends(whole, a, b),
         NEW k, NEW buf, NEW wire, Stream(a, k, buf, wire), Upto(a, k, buf, wire) = End(a)
  PROVE  /\ Stream(whole, k, buf, Cat(wire, Frames(b)))
         /\ Upto(whole, k, buf, Cat(wire, Frames(b))) = End(whole)
<1>1. a \in Seq(Line) /\ whole \in Seq(Line)
  BY DEF Extends
<1>2. PICK o, x, y, e : /\ o = Off(whole, k) /\ x = Len(buf) /\ y = Len(wire)
                        /\ e = Frames(b)
  OBVIOUS
<1>3. Stream(whole, k, buf, wire) /\ Upto(whole, k, buf, wire) = End(a)
  BY StreamKept
<1>4. o \in Nat /\ x \in Nat /\ y \in Nat
  BY <1>1, <1>2, <1>3, StreamType
<1>5. End(a) = (o + x) + y
  BY <1>2, <1>3 DEF Upto
<1>6. Sits(wire, whole, o + x)
  BY <1>2, <1>3 DEF Stream
<1>7. Sits(e, whole, (o + x) + y) /\ (o + x) + y + Len(e) = End(whole)
  BY <1>2, <1>5, SitsAfter
<1>8. Len(e) \in Nat
  BY <1>7, LenProperties DEF Sits
<1>9. PICK z : z = Cat(wire, e)
  OBVIOUS
<1>10. Sits(z, whole, o + x) /\ Len(z) = y + Len(e)
  BY <1>1, <1>2, <1>6, <1>7, <1>9, SitsJoined
<1>11. Stream(whole, k, buf, z)
  BY <1>2, <1>3, <1>10 DEF Stream
<1>12. o + x + (y + Len(e)) = (o + x) + y + Len(e)
  BY ONLY <1>4, <1>8
<1>13. Upto(whole, k, buf, z) = End(whole)
  BY <1>2, <1>7, <1>10, <1>12 DEF Upto
<1> QED
  BY <1>2, <1>9, <1>11, <1>13

-----------------------------------------------------------------------------
\* The log.

Entry == [from : Client, text : Line]

\* The texts of a log, and the lines of one author in it.
LogTexts(entries) == [k \in 1..Len(entries) |-> entries[k].text]
Count(entries, c) == Cardinality({i \in 1..Len(entries) : entries[i].from = c})

\* Lines with their author.
Signed(c, texts) == [k \in 1..Len(texts) |-> [from |-> c, text |-> texts[k]]]

\* An author has said a number of lines.
LEMMA CountType ==
  ASSUME NEW entries \in Seq(Entry), NEW c
  PROVE  Count(entries, c) \in Nat /\ IsFiniteSet({i \in 1..Len(entries) : entries[i].from = c})
<1>1. Len(entries) \in Nat
  BY LenProperties
<1>2. PICK S : S = {i \in 1..Len(entries) : entries[i].from = c}
  OBVIOUS
<1>3. S \subseteq 1..Len(entries)
  BY <1>2
<1>4. 1 \in Int /\ Len(entries) \in Int
  BY <1>1
<1>5. IsFiniteSet(1..Len(entries))
  BY <1>4, FS_Interval
<1>6. IsFiniteSet(S) /\ Cardinality(S) \in Nat
  BY <1>3, <1>5, FS_Subset, FS_CardinalityType
<1> QED
  BY <1>2, <1>6 DEF Count

\* The texts of a log are lines.
LEMMA LogTextsType ==
  ASSUME NEW entries \in Seq(Entry)
  PROVE  /\ LogTexts(entries) \in Seq(Line) /\ Len(LogTexts(entries)) = Len(entries)
         /\ \A i \in 1..Len(entries) : LogTexts(entries)[i] = entries[i].text
<1>1. PICK l : l = Len(entries)
  OBVIOUS
<1>2. l \in Nat
  BY <1>1, LenProperties
<1>3. \A i \in 1..l : entries[i].text \in Line
  <2>1. \A i \in 1..l : entries[i] \in Entry
    BY <1>1, ElementOfSeq
  <2> QED
    BY <2>1 DEF Entry
<1>4. PICK z : z = LogTexts(entries)
  OBVIOUS
<1>5. z = [i \in 1..l |-> entries[i].text]
  BY <1>1, <1>4 DEF LogTexts
<1>6. z \in Seq(Line) /\ Len(z) = l /\ \A i \in 1..l : z[i] = entries[i].text
  BY ONLY <1>2, <1>3, <1>5
<1> QED
  BY <1>1, <1>4, <1>6

\* Lines that are signed are entries.
LEMMA SignedType ==
  ASSUME NEW c \in Client, NEW texts \in Seq(Line)
  PROVE  /\ Signed(c, texts) \in Seq(Entry) /\ Len(Signed(c, texts)) = Len(texts)
         /\ \A i \in 1..Len(texts) :
              Signed(c, texts)[i].from = c /\ Signed(c, texts)[i].text = texts[i]
<1>1. PICK l : l = Len(texts)
  OBVIOUS
<1>2. l \in Nat
  BY <1>1, LenProperties
<1>3. \A i \in 1..l : [from |-> c, text |-> texts[i]] \in Entry
  <2>1. \A i \in 1..l : texts[i] \in Line
    BY <1>1, ElementOfSeq
  <2> QED
    BY <2>1 DEF Entry
<1>4. PICK z : z = Signed(c, texts)
  OBVIOUS
<1>5. z = [i \in 1..l |-> [from |-> c, text |-> texts[i]]]
  BY <1>1, <1>4 DEF Signed
<1>6. z \in Seq(Entry) /\ Len(z) = l
  BY ONLY <1>2, <1>3, <1>5
<1>7. \A i \in 1..l : z[i].from = c /\ z[i].text = texts[i]
  BY ONLY <1>5
<1> QED
  BY <1>1, <1>4, <1>6, <1>7

\* new is the log to which c has added lines.
Grown(new, entries, c, texts) ==
  /\ new \in Seq(Entry)
  /\ Extends(LogTexts(new), LogTexts(entries), texts)
  /\ Count(new, c) = Count(entries, c) + Len(texts)
  /\ \A d : d # c => Count(new, d) = Count(entries, d)

\* Appending signed lines does so.
LEMMA LogGrows ==
  ASSUME NEW entries \in Seq(Entry), NEW c \in Client, NEW texts \in Seq(Line),
         NEW new, new = entries \o Signed(c, texts)
  PROVE  Grown(new, entries, c, texts)
<1>1. PICK a, b, s : a = Len(entries) /\ b = Len(texts) /\ s = Signed(c, texts)
  OBVIOUS
<1>2. a \in Nat /\ b \in Nat
  BY <1>1, LenProperties
<1>3. s \in Seq(Entry) /\ Len(s) = b /\ \A i \in 1..b : s[i].from = c /\ s[i].text = texts[i]
  BY <1>1, SignedType
<1>4. /\ new \in Seq(Entry) /\ Len(new) = a + b
      /\ \A i \in 1..a : new[i] = entries[i]
      /\ \A i \in 1..b : new[a + i] = s[i]
  <2>1. new = entries \o s
    BY <1>1
  <2>2. PICK E : E = Entry
    OBVIOUS
  <2>3. entries \in Seq(E) /\ s \in Seq(E)
    BY <1>3, <2>2
  <2>4. /\ new \in Seq(E) /\ Len(new) = Len(entries) + Len(s)
        /\ \A i \in 1..Len(entries) : new[i] = entries[i]
        /\ \A i \in 1..Len(s) : new[Len(entries) + i] = s[i]
    BY ONLY <2>1, <2>3
  <2> QED
    BY <1>1, <1>3, <2>2, <2>4
<1>5. Extends(LogTexts(new), LogTexts(entries), texts)
  <2>1. PICK x, y : x = LogTexts(new) /\ y = LogTexts(entries)
    OBVIOUS
  <2>2. x \in Seq(Line) /\ Len(x) = a + b /\ \A i \in 1..(a + b) : x[i] = new[i].text
    BY <1>4, <2>1, LogTextsType
  <2>3. y \in Seq(Line) /\ Len(y) = a /\ \A i \in 1..a : y[i] = entries[i].text
    BY <1>1, <2>1, LogTextsType
  <2>4. \A i \in 1..a : x[i] = y[i]
    <3>1. ASSUME NEW i \in 1..a PROVE x[i] = y[i]
      <4>1. i \in 1..(a + b)
        BY <1>2
      <4>2. x[i] = new[i].text /\ y[i] = entries[i].text /\ new[i] = entries[i]
        BY <1>4, <2>2, <2>3, <4>1
      <4> QED
        BY <4>2
    <3> QED
      BY <3>1
  <2>5. \A i \in 1..b : x[a + i] = texts[i]
    <3>1. ASSUME NEW i \in 1..b PROVE x[a + i] = texts[i]
      <4>1. a + i \in 1..(a + b)
        BY <1>2
      <4>2. x[a + i] = new[a + i].text /\ new[a + i] = s[i] /\ s[i].text = texts[i]
        BY <1>3, <1>4, <2>2, <4>1
      <4> QED
        BY <4>2
    <3> QED
      BY <3>1
  <2>6. Extends(x, y, texts)
    BY <1>1, <2>2, <2>3, <2>4, <2>5 DEF Extends
  <2> QED
    BY <2>1, <2>6
<1>6. ASSUME NEW d, d # c PROVE Count(new, d) = Count(entries, d)
  <2>1. ASSUME NEW i \in 1..(a + b) PROVE new[i].from = d <=> i \in 1..a /\ entries[i].from = d
    <3>1. CASE i \in 1..a
      BY <1>4, <3>1
    <3>2. CASE i \notin 1..a
      <4>1. PICK j : j = i - a
        OBVIOUS
      <4>2. j \in 1..b /\ a + j = i
        BY <1>2, <3>2, <4>1
      <4>3. new[i].from = c
        BY <1>3, <1>4, <4>2
      <4> QED
        BY <1>6, <3>2, <4>3
    <3> QED
      BY <3>1, <3>2
  <2>2. \A i \in 1..a : i \in 1..(a + b)
    BY <1>2
  <2>3. {i \in 1..(a + b) : new[i].from = d} = {i \in 1..a : entries[i].from = d}
    BY <2>1, <2>2
  <2> QED
    BY <1>1, <1>4, <2>3 DEF Count
<1>7. Count(new, c) = Count(entries, c) + b
  <2>1. PICK S, T : S = {i \in 1..a : entries[i].from = c} /\ T = (a + 1)..(a + b)
    OBVIOUS
  <2>2. ASSUME NEW i \in 1..(a + b) PROVE new[i].from = c <=> i \in S \/ i \in T
    <3>1. CASE i \in 1..a
      <4>1. i \notin T
        BY <1>2, <2>1, <3>1
      <4> QED
        BY <1>4, <2>1, <3>1, <4>1
    <3>2. CASE i \notin 1..a
      <4>1. PICK j : j = i - a
        OBVIOUS
      <4>2. j \in 1..b /\ a + j = i /\ i \in T
        BY <1>2, <2>1, <3>2, <4>1
      <4>3. new[i].from = c
        BY <1>3, <1>4, <4>2
      <4> QED
        BY <4>2, <4>3
    <3> QED
      BY <3>1, <3>2
  <2>3. (\A i \in S : i \in 1..(a + b)) /\ (\A i \in T : i \in 1..(a + b)) /\ S \cap T = {}
    BY <1>2, <2>1
  <2>4. {i \in 1..(a + b) : new[i].from = c} = S \cup T
    BY <2>2, <2>3
  <2>5. IsFiniteSet(S) /\ Cardinality(S) = Count(entries, c) /\ Count(entries, c) \in Nat
    BY <1>1, <2>1, CountType DEF Count
  <2>6. IsFiniteSet(T) /\ Cardinality(T) = b
    <3>1. a + 1 \in Int /\ a + b \in Int
      BY <1>2
    <3>2. /\ IsFiniteSet((a + 1)..(a + b))
          /\ Cardinality((a + 1)..(a + b)) = IF a + 1 > a + b THEN 0 ELSE (a + b) - (a + 1) + 1
      BY <3>1, FS_Interval
    <3>3. (IF a + 1 > a + b THEN 0 ELSE (a + b) - (a + 1) + 1) = b
      BY <1>2
    <3> QED
      BY <2>1, <3>2, <3>3
  <2>7. Cardinality(S \cup T) = Cardinality(S) + Cardinality(T)
    <3>1. Cardinality(S \cup T) = Cardinality(S) + Cardinality(T) - Cardinality(S \cap T)
      BY <2>5, <2>6, FS_Union
    <3>2. Cardinality(S \cap T) = 0
      BY <2>3, FS_EmptySet
    <3>3. Cardinality(S) \in Nat /\ Cardinality(T) \in Nat
      BY <1>2, <2>5, <2>6
    <3> QED
      BY <3>1, <3>2, <3>3
  <2> QED
    BY <1>4, <2>4, <2>5, <2>6, <2>7 DEF Count
<1> QED
  BY <1>1, <1>4, <1>5, <1>6, <1>7 DEF Grown

\* Every line typed can be told from the bytes of its length.
LEMMA ScriptLines ==
  ASSUME NEW c \in Client
  PROVE  Script[c] \in Seq(Line) /\ Len(Script[c]) \in Nat
<1>1. PICK s, l : s = Script[c] /\ l = Len(s)
  OBVIOUS
<1>2. s \in Seq(Seq(Byte)) /\ \A k \in DOMAIN s : Fits(Len(s[k]))
  BY <1>1, ChatAssumption, LinesFit DEF Byte
<1>3. PICK S : S = Seq(Byte)
  OBVIOUS
<1>4. s \in Seq(S) /\ l \in Nat /\ DOMAIN s = 1..l /\ s = [k \in 1..l |-> s[k]]
  BY <1>1, <1>2, <1>3
<1>5. \A k \in 1..l : s[k] \in S
  BY <1>1, <1>4, ElementOfSeq
<1>6. \A k \in 1..l : s[k] \in Line
  BY <1>2, <1>3, <1>4, <1>5 DEF Line
<1>7. s \in Seq(Line)
  BY ONLY <1>4, <1>6
<1> QED
  BY <1>1, <1>4, <1>7
-----------------------------------------------------------------------------
\* What is true of every state.

ChatTypeOK ==
  /\ typed \in [Client -> Nat] /\ silent \in [Client -> Nat]
  /\ main \in [Client -> {"typing", "leaving", "exited"}]
  /\ link \in [Client -> {"syn", "est", "up", "down"}]
  /\ connection_ \subseteq Client /\ half \subseteq Client /\ connections_ \subseteq Client
  /\ up \in [Client -> Seq(Byte)] /\ down \in [Client -> Seq(Byte)]
  /\ cbuf \in [Client -> Seq(Byte)] /\ sbuf \in [Client -> Seq(Byte)]
  /\ heard \in [Client -> Seq(Line)] /\ log \in Seq(Entry)
  /\ state_ \in [Client -> {"none", "kConnected", "kDisconnecting", "kDisconnected"}]
  /\ joined \in [Client -> Int]

\* The lines of c's script that are behind it: missed, or in the room.
Behind(c) == silent[c] + Count(log, c)

\* From c to the room: what the server holds and what is on its way are the
\* bytes of the lines that follow; while c can write, up to the last typed.
\* Before its connection is up nothing has been sent.
Upward(c) ==
  /\ typed[c] \in 0..Len(Script[c])
  /\ Stream(Script[c], Behind(c), sbuf[c], up[c])
  /\ c \in connection_ <=> link[c] = "up"
  /\ link[c] \in {"syn", "est"} =>
       sbuf[c] = << >> /\ up[c] = << >> /\ Count(log, c) = 0 /\ silent[c] = typed[c]
  /\ link[c] = "up" /\ c \notin half =>
       Upto(Script[c], Behind(c), sbuf[c], up[c]) = Off(Script[c], typed[c])

\* The lines of the log that c has printed, or that came before it joined.
Passed(c) == joined[c] + Len(heard[c])

\* From the room to c: the same with the lines of the log; while the server
\* sends to c, up to the last of them.
Downward(c) ==
  /\ state_[c] = "none" <=> joined[c] = -1
  /\ state_[c] = "none" => down[c] = << >> /\ cbuf[c] = << >> /\ heard[c] = << >>
  /\ joined[c] # -1 => joined[c] \in Nat /\ Stream(LogTexts(log), Passed(c), cbuf[c], down[c])
  /\ c \in connections_ /\ state_[c] = "kConnected" /\ link[c] # "down" =>
       Upto(LogTexts(log), Passed(c), cbuf[c], down[c]) = End(LogTexts(log))

ChatInv ==
  /\ ChatTypeOK
  /\ \A c \in Client : Upward(c)
  /\ \A c \in Client : Downward(c)

\* It is true before anybody is connected.
LEMMA ChatInvInit == Init => ChatInv
<1> SUFFICES ASSUME Init PROVE ChatInv
  OBVIOUS
<1>1. << >> \in Seq(Byte) /\ << >> \in Seq(Line) /\ << >> \in Seq(Entry)
  OBVIOUS
<1>2. ChatTypeOK
  BY <1>1 DEF Init, ChatTypeOK
<1>3. \A c : Count(<< >>, c) = 0
  <2>1. \A c : {i \in 1..Len(<< >>) : << >>[i].from = c} = {}
    OBVIOUS
  <2> QED
    BY <2>1, FS_EmptySet DEF Count
<1>4. ASSUME NEW c \in Client PROVE Upward(c)
  <2>1. Script[c] \in Seq(Line) /\ Len(Script[c]) \in Nat
    BY ScriptLines
  <2>2. 0 \in 0..Len(Script[c])
    BY <2>1
  <2>3. Stream(Script[c], 0, << >>, << >>)
    BY <2>1, <2>2, StreamEmpty
  <2>4. /\ typed[c] = 0 /\ silent[c] = 0 /\ sbuf[c] = << >> /\ up[c] = << >> /\ link[c] = "syn"
        /\ log = << >> /\ connection_ = {}
    BY DEF Init
  <2>5. Behind(c) = 0
    BY <1>3, <2>4 DEF Behind
  <2> QED
    BY <1>3, <2>2, <2>3, <2>4, <2>5 DEF Upward
<1>5. ASSUME NEW c \in Client PROVE Downward(c)
  BY DEF Init, Downward
<1> QED
  BY <1>2, <1>4, <1>5 DEF ChatInv

\* What concerns a client that a step leaves alone stays true.
LEMMA UpwardFrame ==
  ASSUME NEW d \in Client, Upward(d),
         typed'[d] = typed[d], silent'[d] = silent[d], link'[d] = link[d],
         sbuf'[d] = sbuf[d], up'[d] = up[d], Count(log', d) = Count(log, d),
         d \in connection_' <=> d \in connection_, d \in half => d \in half'
  PROVE  Upward(d)'
<1>1. Behind(d)' = Behind(d)
  BY DEF Behind
<1> QED
  BY <1>1 DEF Upward

\* Likewise for what comes down to it.
LEMMA DownwardFrame ==
  ASSUME NEW d \in Client, Downward(d), log' = log,
         joined'[d] = joined[d], heard'[d] = heard[d], state_'[d] = state_[d],
         cbuf'[d] = cbuf[d], down'[d] = down[d],
         d \in connections_' => d \in connections_, link'[d] # "down" => link[d] # "down"
  PROVE  Downward(d)'
<1>1. Passed(d)' = Passed(d)
  BY DEF Passed
<1> QED
  BY <1>1 DEF Downward

-----------------------------------------------------------------------------
\* Every action keeps the invariant and is a step of the room, or none.

\* What a step of the programs is for the room.
RoomStep == Room!SNext \/ UNCHANGED Room!svars

\* The room counts an author's lines as the log shows them.
LEMMA SaidCount == \A c : Room!Said(c) = Count(log, c)
<1>1. \A S : Room!Cardinality(S) = Cardinality(S)
  BY DEF Room!Cardinality, Cardinality
<1> QED
  BY <1>1 DEF Count, Room!Said

\* A line is typed: missed by the room, written, or dropped.
LEMMA WriteStep ==
  ASSUME ChatInv, NEW c \in Client, Write(c)
  PROVE  ChatInv' /\ RoomStep
<1>1. ChatTypeOK /\ (\A d \in Client : Upward(d)) /\ (\A d \in Client : Downward(d))
  BY DEF ChatInv
<1>2. PICK s, t, k, e : s = Script[c] /\ t = typed[c] /\ k = Behind(c) /\ e = Encode(s[t + 1])
  OBVIOUS
<1>3. s \in Seq(Line) /\ Len(s) \in Nat
  BY <1>2, ScriptLines
<1>4. t \in 0..(Len(s) - 1) /\ t + 1 \in 0..Len(s) /\ t \in Nat
  BY <1>1, <1>2, <1>3 DEF Write, Upward
<1>5. typed'[c] = t + 1 /\ \A d \in Client : d # c => typed'[d] = typed[d]
  BY <1>1, <1>2 DEF Write, ChatTypeOK
<1>6. UNCHANGED <<main, link, connection_, half, down, cbuf, heard, state_, connections_, sbuf, log, joined>>
  BY DEF Write, linkVars, serverVars
<1>7. \A d \in Client : d # c => up'[d] = up[d] /\ silent'[d] = silent[d]
  BY <1>1 DEF Write, ChatTypeOK
<1>8. Stream(s, k, sbuf[c], up[c])
  BY <1>1, <1>2 DEF Upward
<1>9. up[c] \in Seq(Byte) /\ sbuf[c] \in Seq(Byte)
  BY <1>1 DEF ChatTypeOK
<1>10. e \in Seq(Byte)
  <2>1. t + 1 \in 1..Len(s)
    BY <1>3, <1>4
  <2>2. s[t + 1] \in Line
    BY <1>3, <2>1, ElementOfSeq
  <2> QED
    BY <1>2, <2>2, EncodeBytes
<1>11. /\ (c \in connection_ /\ c \notin half => up'[c] = Cat(up[c], e))
       /\ (~(c \in connection_ /\ c \notin half) => up'[c] = up[c])
  BY <1>1, <1>2 DEF Write, ChatTypeOK, Cat
<1>12. /\ (link[c] \in {"syn", "est"} => silent'[c] = silent[c] + 1)
       /\ (link[c] \notin {"syn", "est"} => silent' = silent)
  BY <1>1 DEF Write, ChatTypeOK
<1>13. ChatTypeOK'
  <2>1. typed' \in [Client -> Nat]
    BY <1>1 DEF Write, ChatTypeOK
  <2>2. silent' \in [Client -> Nat]
    BY <1>1 DEF Write, ChatTypeOK
  <2>3. up'[c] \in Seq(Byte)
    <3>1. Cat(up[c], e) \in Seq(Byte)
      BY <1>9, <1>10, Joined
    <3> QED
      BY <1>9, <1>11, <3>1
  <2>4. up' \in [Client -> Seq(Byte)]
    <3>1. DOMAIN up' = Client /\ up' = [d \in Client |-> up'[d]]
      BY <1>1 DEF Write, ChatTypeOK
    <3>2. \A d \in Client : up'[d] \in Seq(Byte)
      BY <1>1, <1>7, <2>3 DEF ChatTypeOK
    <3> QED
      BY <3>1, <3>2
  <2> QED
    BY <1>1, <1>6, <2>1, <2>2, <2>4 DEF ChatTypeOK
<1>14. \A d \in Client : Downward(d)'
  BY <1>1, <1>6, DownwardFrame
<1>15. \A d \in Client : d # c => Upward(d)'
  BY <1>1, <1>5, <1>6, <1>7, UpwardFrame
<1>16. CASE link[c] \in {"syn", "est"}
  <2>1. c \notin connection_ /\ sbuf[c] = << >> /\ up[c] = << >> /\ Count(log, c) = 0 /\ silent[c] = t
    BY <1>1, <1>2, <1>16 DEF Upward
  <2>2. silent'[c] = t + 1 /\ up'[c] = << >> /\ sbuf'[c] = << >> /\ Count(log', c) = 0
    BY <1>6, <1>11, <1>12, <1>16, <2>1
  <2>3. Behind(c)' = t + 1
    BY <1>4, <2>2 DEF Behind
  <2>4. Stream(s, t + 1, << >>, << >>)
    BY <1>3, <1>4, StreamEmpty
  <2>5. link'[c] \in {"syn", "est"} /\ link'[c] # "up" /\ c \notin connection_'
    BY <1>6, <1>16, <2>1
  <2>6. Upward(c)'
    BY <1>2, <1>4, <1>5, <2>2, <2>3, <2>4, <2>5 DEF Upward
  <2>7. Room!Miss(c)
    <3>1. silent' = [silent EXCEPT ![c] = @ + 1]
      BY <1>16 DEF Write
    <3>2. Room!Said(c) = 0
      BY <2>1, SaidCount
    <3> QED
      BY <1>6, <3>1, <3>2 DEF Room!Miss
  <2> QED
    BY <1>13, <1>14, <1>15, <2>6, <2>7 DEF ChatInv, RoomStep, Room!SNext
<1>17. CASE link[c] \notin {"syn", "est"}
  <2>1. silent' = silent /\ Behind(c)' = k /\ sbuf'[c] = sbuf[c] /\ link'[c] = link[c]
    BY <1>2, <1>6, <1>12, <1>17 DEF Behind
  <2>2. UNCHANGED Room!svars
    BY <1>6, <2>1 DEF Room!svars
  <2>3. c \in connection_ <=> link[c] = "up"
    BY <1>1 DEF Upward
  <2>4. CASE c \in connection_ /\ c \notin half
    <3>1. Upto(s, k, sbuf[c], up[c]) = Off(s, t)
      BY <1>1, <1>2, <2>3, <2>4 DEF Upward
    <3>2. /\ Stream(s, k, sbuf[c], Cat(up[c], e))
          /\ Upto(s, k, sbuf[c], Cat(up[c], e)) = Off(s, t + 1)
      BY <1>2, <1>3, <1>4, <1>8, <3>1, StreamWrite
    <3>3. Upward(c)'
      BY <1>2, <1>4, <1>5, <1>6, <1>11, <1>17, <2>1, <2>3, <2>4, <3>2 DEF Upward
    <3> QED
      BY <1>13, <1>14, <1>15, <2>2, <3>3 DEF ChatInv, RoomStep
  <2>5. CASE ~(c \in connection_ /\ c \notin half)
    <3>1. Upward(c)'
      BY <1>2, <1>4, <1>5, <1>6, <1>8, <1>11, <1>17, <2>1, <2>3, <2>5 DEF Upward
    <3> QED
      BY <1>13, <1>14, <1>15, <2>2, <3>1 DEF ChatInv, RoomStep
  <2> QED
    BY <2>4, <2>5
<1> QED
  BY <1>16, <1>17

\* The facts about c, for the steps below.
LEMMA InvOf ==
  ASSUME ChatInv, NEW c \in Client
  PROVE  /\ ChatTypeOK /\ Upward(c) /\ Downward(c)
         /\ Script[c] \in Seq(Line)
         /\ Stream(Script[c], Behind(c), sbuf[c], up[c])
         /\ LogTexts(log) \in Seq(Line) /\ Len(LogTexts(log)) = Len(log) /\ Len(log) \in Nat
<1>1. ChatTypeOK /\ Upward(c) /\ Downward(c)
  BY DEF ChatInv
<1>2. log \in Seq(Entry)
  BY <1>1 DEF ChatTypeOK
<1> QED
  BY <1>1, <1>2, ScriptLines, LogTextsType, LenProperties DEF Upward

\* The end of the input: no more lines are written.
LEMMA DisconnectStep ==
  ASSUME ChatInv, NEW c \in Client, Disconnect(c)
  PROVE  ChatInv' /\ RoomStep
<1>1. ChatTypeOK /\ (\A d \in Client : Upward(d)) /\ (\A d \in Client : Downward(d))
  BY DEF ChatInv
<1>2. UNCHANGED <<typed, silent, link, connection_, up, down, cbuf, heard, state_, connections_, sbuf, log, joined>>
  BY DEF Disconnect, serverVars
<1>3. \A d \in Client : d \in half => d \in half'
  BY DEF Disconnect
<1>4. ChatTypeOK'
  BY <1>1, <1>2 DEF Disconnect, ChatTypeOK
<1>5. \A d \in Client : Upward(d)'
  BY <1>1, <1>2, <1>3, UpwardFrame
<1>6. \A d \in Client : Downward(d)'
  BY <1>1, <1>2, DownwardFrame
<1>7. UNCHANGED Room!svars
  BY <1>2 DEF Room!svars
<1> QED
  BY <1>4, <1>5, <1>6, <1>7 DEF ChatInv, RoomStep

\* The connection is there, but the loop thread does not know.
LEMMA EstablishStep ==
  ASSUME ChatInv, NEW c \in Client, Establish(c)
  PROVE  ChatInv' /\ RoomStep
<1>1. ChatTypeOK /\ (\A d \in Client : Upward(d)) /\ (\A d \in Client : Downward(d))
  BY DEF ChatInv
<1>2. UNCHANGED <<typed, silent, main, connection_, half, up, down, cbuf, heard, state_, connections_, sbuf, log, joined>>
  BY DEF Establish, serverVars, mainVars
<1>3. /\ link[c] = "syn" /\ link'[c] = "est"
      /\ \A d \in Client : d # c => link'[d] = link[d]
  BY <1>1 DEF Establish, ChatTypeOK
<1>4. ChatTypeOK'
  BY <1>1, <1>2 DEF Establish, ChatTypeOK
<1>5. \A d \in Client : d # c => Upward(d)'
  BY <1>1, <1>2, <1>3, UpwardFrame
<1>6. Upward(c)'
  <2>1. Behind(c)' = Behind(c)
    BY <1>2 DEF Behind
  <2> QED
    BY <1>1, <1>2, <1>3, <2>1 DEF Upward
<1>7. \A d \in Client : Downward(d)'
  BY <1>1, <1>2, <1>3, DownwardFrame
<1>8. UNCHANGED Room!svars
  BY <1>2 DEF Room!svars
<1> QED
  BY <1>4, <1>5, <1>6, <1>7, <1>8 DEF ChatInv, RoomStep

\* connection_ is set: the lines that are typed from now on are written.
LEMMA ClientUpStep ==
  ASSUME ChatInv, NEW c \in Client, ClientUp(c)
  PROVE  ChatInv' /\ RoomStep
<1>1. ChatTypeOK /\ (\A d \in Client : Upward(d)) /\ (\A d \in Client : Downward(d))
  BY DEF ChatInv
<1>2. UNCHANGED <<typed, silent, main, half, up, down, cbuf, heard, state_, connections_, sbuf, log, joined>>
  BY DEF ClientUp, serverVars, mainVars
<1>3. /\ link[c] = "est" /\ link'[c] = "up" /\ c \in connection_'
      /\ \A d \in Client : d # c => link'[d] = link[d] /\ (d \in connection_' <=> d \in connection_)
  BY <1>1 DEF ClientUp, ChatTypeOK
<1>4. ChatTypeOK'
  BY <1>1, <1>2 DEF ClientUp, ChatTypeOK
<1>5. \A d \in Client : d # c => Upward(d)'
  BY <1>1, <1>2, <1>3, UpwardFrame
<1>6. Upward(c)'
  <2>1. /\ sbuf[c] = << >> /\ up[c] = << >> /\ Count(log, c) = 0 /\ silent[c] = typed[c]
        /\ typed[c] \in 0..Len(Script[c]) /\ Stream(Script[c], Behind(c), sbuf[c], up[c])
    BY <1>1, <1>3 DEF Upward
  <2>2. typed[c] \in Nat
    BY <1>1 DEF ChatTypeOK
  <2>3. Behind(c) = typed[c] /\ Behind(c)' = Behind(c)
    BY <1>2, <2>1, <2>2 DEF Behind
  <2>4. Upto(Script[c], typed[c], << >>, << >>) = Off(Script[c], typed[c])
    BY <2>1, ScriptLines, StreamEmpty
  <2> QED
    BY <1>2, <1>3, <2>1, <2>3, <2>4 DEF Upward
<1>7. \A d \in Client : Downward(d)'
  BY <1>1, <1>2, <1>3, DownwardFrame
<1>8. UNCHANGED Room!svars
  BY <1>2 DEF Room!svars
<1> QED
  BY <1>4, <1>5, <1>6, <1>7, <1>8 DEF ChatInv, RoomStep

\* main returns: what was not read is gone, and the last bytes it sent may be.
LEMMA ExitStep ==
  ASSUME ChatInv, NEW c \in Client, Exit(c)
  PROVE  ChatInv' /\ RoomStep
<1>1. ChatTypeOK /\ (\A d \in Client : Upward(d)) /\ (\A d \in Client : Downward(d))
  BY DEF ChatInv
<1>2. UNCHANGED <<typed, silent, half, heard, state_, connections_, sbuf, log, joined>>
  BY DEF Exit, serverVars
<1>3. PICK n \in 0..Len(up[c]) : up' = [up EXCEPT ![c] = Taken(up[c], n)]
  BY DEF Exit, Prefixes0, Taken
<1>4. /\ link'[c] = "down" /\ c \notin connection_' /\ up'[c] = Taken(up[c], n)
      /\ down'[c] = << >> /\ cbuf'[c] = << >>
      /\ \A d \in Client : d # c =>
           /\ link'[d] = link[d] /\ (d \in connection_' <=> d \in connection_)
           /\ up'[d] = up[d] /\ down'[d] = down[d] /\ cbuf'[d] = cbuf[d]
  BY <1>1, <1>3 DEF Exit, ChatTypeOK
<1>5. Stream(Script[c], Behind(c), sbuf[c], up'[c])
  BY <1>3, <1>4, InvOf, StreamCut
<1>6. ChatTypeOK'
  <2>1. up'[c] \in Seq(Byte)
    BY <1>5 DEF Stream, Sits
  <2>2. up' \in [Client -> Seq(Byte)]
    BY <1>1, <1>3, <1>4, <2>1 DEF ChatTypeOK
  <2>3. << >> \in Seq(Byte)
    OBVIOUS
  <2>4. down' \in [Client -> Seq(Byte)] /\ cbuf' \in [Client -> Seq(Byte)]
    BY <1>1, <2>3 DEF Exit, ChatTypeOK
  <2>5. /\ main' \in [Client -> {"typing", "leaving", "exited"}]
        /\ link' \in [Client -> {"syn", "est", "up", "down"}]
        /\ connection_' \subseteq Client
    BY <1>1 DEF Exit, ChatTypeOK
  <2> QED
    BY <1>1, <1>2, <2>2, <2>4, <2>5 DEF ChatTypeOK
<1>7. \A d \in Client : d # c => Upward(d)' /\ Downward(d)'
  BY <1>1, <1>2, <1>4, UpwardFrame, DownwardFrame
<1>8. Upward(c)'
  <2>1. Behind(c)' = Behind(c)
    BY <1>2 DEF Behind
  <2> QED
    BY <1>1, <1>2, <1>4, <1>5, <2>1 DEF Upward
<1>9. Downward(c)'
  <2>1. Passed(c)' = Passed(c)
    BY <1>2 DEF Passed
  <2>2. joined[c] # -1 => Stream(LogTexts(log), Passed(c), << >>, << >>)
    <3>1. joined[c] # -1 => Passed(c) \in 0..Len(LogTexts(log))
      BY <1>1 DEF Downward, Stream
    <3> QED
      BY <3>1, InvOf, StreamEmpty
  <2> QED
    BY <1>1, <1>2, <1>4, <2>1, <2>2 DEF Downward
<1>10. UNCHANGED Room!svars
  BY <1>2 DEF Room!svars
<1> QED
  BY <1>6, <1>7, <1>8, <1>9, <1>10 DEF ChatInv, RoomStep

\* The client closes: the last bytes it sent may be lost.
LEMMA ClientCloseStep ==
  ASSUME ChatInv, NEW c \in Client, ClientClose(c)
  PROVE  ChatInv' /\ RoomStep
<1>1. ChatTypeOK /\ (\A d \in Client : Upward(d)) /\ (\A d \in Client : Downward(d))
  BY DEF ChatInv
<1>2. UNCHANGED <<typed, silent, main, half, down, cbuf, heard, state_, connections_, sbuf, log, joined>>
  BY DEF ClientClose, serverVars, mainVars
<1>3. PICK n \in 0..Len(up[c]) : up' = [up EXCEPT ![c] = Taken(up[c], n)]
  BY DEF ClientClose, Prefixes0, Taken
<1>4. /\ link'[c] = "down" /\ c \notin connection_' /\ up'[c] = Taken(up[c], n)
      /\ \A d \in Client : d # c =>
           /\ link'[d] = link[d] /\ (d \in connection_' <=> d \in connection_)
           /\ up'[d] = up[d]
  BY <1>1, <1>3 DEF ClientClose, ChatTypeOK
<1>5. Stream(Script[c], Behind(c), sbuf[c], up'[c])
  BY <1>3, <1>4, InvOf, StreamCut
<1>6. ChatTypeOK'
  <2>1. up'[c] \in Seq(Byte)
    BY <1>5 DEF Stream, Sits
  <2>2. up' \in [Client -> Seq(Byte)]
    BY <1>1, <1>3, <1>4, <2>1 DEF ChatTypeOK
  <2>3. link' \in [Client -> {"syn", "est", "up", "down"}] /\ connection_' \subseteq Client
    BY <1>1 DEF ClientClose, ChatTypeOK
  <2> QED
    BY <1>1, <1>2, <2>2, <2>3 DEF ChatTypeOK
<1>7. \A d \in Client : d # c => Upward(d)'
  BY <1>1, <1>2, <1>4, UpwardFrame
<1>8. Upward(c)'
  <2>1. Behind(c)' = Behind(c)
    BY <1>2 DEF Behind
  <2> QED
    BY <1>1, <1>2, <1>4, <1>5, <2>1 DEF Upward
<1>9. \A d \in Client : link'[d] # "down" => link[d] # "down"
  BY <1>4 DEF ClientClose
<1>10. \A d \in Client : Downward(d)'
  BY <1>1, <1>2, <1>9, DownwardFrame
<1>11. UNCHANGED Room!svars
  BY <1>2 DEF Room!svars
<1> QED
  BY <1>6, <1>7, <1>8, <1>10, <1>11 DEF ChatInv, RoomStep

\* onConnection on the server: the client joins.
LEMMA ServerUpStep ==
  ASSUME ChatInv, NEW c \in Client, ServerUp(c)
  PROVE  ChatInv' /\ RoomStep
<1>1. ChatTypeOK /\ (\A d \in Client : Upward(d)) /\ (\A d \in Client : Downward(d))
  BY DEF ChatInv
<1>2. UNCHANGED <<typed, silent, main, link, connection_, half, up, down, cbuf, heard, sbuf, log>>
  BY DEF ServerUp, linkVars, mainVars
<1>3. /\ state_[c] = "none" /\ state_'[c] = "kConnected" /\ joined'[c] = Len(log)
      /\ joined' = [joined EXCEPT ![c] = Len(log)]
      /\ \A d \in Client : d # c =>
           /\ state_'[d] = state_[d] /\ joined'[d] = joined[d]
           /\ (d \in connections_' <=> d \in connections_)
  BY <1>1 DEF ServerUp, ChatTypeOK
<1>4. ChatTypeOK'
  <2>1. Len(log) \in Int
    BY InvOf
  <2> QED
    BY <1>1, <1>2, <2>1 DEF ServerUp, ChatTypeOK
<1>5. \A d \in Client : Upward(d)'
  BY <1>1, <1>2, UpwardFrame
<1>6. \A d \in Client : d # c => Downward(d)'
  BY <1>1, <1>2, <1>3, DownwardFrame
<1>7. joined[c] = -1 /\ down[c] = << >> /\ cbuf[c] = << >> /\ heard[c] = << >>
  BY <1>1, <1>3 DEF Downward
<1>8. Downward(c)'
  <2>1. PICK t : t = LogTexts(log)
    OBVIOUS
  <2>2. t \in Seq(Line) /\ Len(t) = Len(log) /\ Len(log) \in Nat /\ Len(log) \in 0..Len(t)
    BY <2>1, InvOf
  <2>3. Stream(t, Len(log), << >>, << >>) /\ Upto(t, Len(log), << >>, << >>) = End(t)
    BY <2>2, StreamEmpty DEF End
  <2>4. Passed(c)' = Len(log)
    <3>1. heard'[c] = << >> /\ Len(<< >>) = 0 /\ Len(log) + 0 = Len(log)
      BY <1>2, <1>7, <2>2
    <3> QED
      BY <1>3, <3>1 DEF Passed
  <2>5. LogTexts(log') = t
    BY <1>2, <2>1
  <2>6. joined'[c] # -1 /\ joined'[c] \in Nat /\ down'[c] = << >> /\ cbuf'[c] = << >>
    BY <1>2, <1>3, <1>7, <2>2
  <2> QED
    BY <1>3, <2>3, <2>4, <2>5, <2>6 DEF Downward
<1>9. Room!Join(c)
  BY <1>2, <1>3, <1>7 DEF Room!Join
<1> QED
  BY <1>4, <1>5, <1>6, <1>8, <1>9 DEF ChatInv, RoomStep, Room!SNext

\* The server closes: what it held is gone, and the last bytes it sent may be.
LEMMA ServerCloseStep ==
  ASSUME ChatInv, NEW c \in Client, ServerClose(c)
  PROVE  ChatInv' /\ RoomStep
<1>1. ChatTypeOK /\ (\A d \in Client : Upward(d)) /\ (\A d \in Client : Downward(d))
  BY DEF ChatInv
<1>2. UNCHANGED <<typed, silent, main, link, connection_, half, up, cbuf, heard, log, joined>>
  BY DEF ServerClose, linkVars, mainVars
<1>3. PICK n \in 0..Len(down[c]) : down' = [down EXCEPT ![c] = Taken(down[c], n)]
  BY DEF ServerClose, Prefixes0, Taken
<1>4. /\ state_[c] # "none" /\ state_'[c] = "kDisconnected" /\ up[c] = << >>
      /\ (c \in half \/ link[c] = "down") /\ sbuf'[c] = << >> /\ down'[c] = Taken(down[c], n)
      /\ \A d \in Client : d # c =>
           /\ state_'[d] = state_[d] /\ sbuf'[d] = sbuf[d] /\ down'[d] = down[d]
           /\ (d \in connections_' <=> d \in connections_)
  BY <1>1, <1>3 DEF ServerClose, Erase, ChatTypeOK
<1>5. joined[c] # -1 /\ Stream(LogTexts(log), Passed(c), cbuf[c], down[c])
  BY <1>1, <1>4 DEF Downward
<1>6. Stream(LogTexts(log), Passed(c), cbuf[c], down'[c])
  BY <1>3, <1>4, <1>5, InvOf, StreamCut
<1>7. ChatTypeOK'
  <2>1. down'[c] \in Seq(Byte)
    BY <1>6 DEF Stream, Sits
  <2>2. down' \in [Client -> Seq(Byte)]
    BY <1>1, <1>3, <1>4, <2>1 DEF ChatTypeOK
  <2>3. << >> \in Seq(Byte)
    OBVIOUS
  <2>4. /\ sbuf' \in [Client -> Seq(Byte)] /\ connections_' \subseteq Client
        /\ state_' \in [Client -> {"none", "kConnected", "kDisconnecting", "kDisconnected"}]
    BY <1>1, <2>3 DEF ServerClose, Erase, ChatTypeOK
  <2> QED
    BY <1>1, <1>2, <2>2, <2>4 DEF ChatTypeOK
<1>8. \A d \in Client : d # c => Upward(d)' /\ Downward(d)'
  BY <1>1, <1>2, <1>4, UpwardFrame, DownwardFrame
<1>9. Upward(c)'
  <2>1. Behind(c)' = Behind(c)
    BY <1>2 DEF Behind
  <2>2. Behind(c) \in 0..Len(Script[c])
    BY InvOf DEF Stream
  <2>3. Stream(Script[c], Behind(c), << >>, << >>)
    BY <2>2, ScriptLines, StreamEmpty
  <2> QED
    BY <1>1, <1>2, <1>4, <2>1, <2>3 DEF Upward
<1>10. Downward(c)'
  <2>1. Passed(c)' = Passed(c)
    BY <1>2 DEF Passed
  <2> QED
    BY <1>1, <1>2, <1>4, <1>5, <1>6, <2>1 DEF Downward
<1>11. UNCHANGED Room!svars
  BY <1>2 DEF Room!svars
<1> QED
  BY <1>7, <1>8, <1>9, <1>10, <1>11 DEF ChatInv, RoomStep

\* Lines of a script or a log are lines.
LEMMA LinesType ==
  ASSUME NEW texts \in Seq(Line), NEW k \in 0..Len(texts), NEW j \in 0..(Len(texts) - k)
  PROVE  /\ Lines(texts, k, j) \in Seq(Line) /\ Len(Lines(texts, k, j)) = j
         /\ \A i \in 1..j : Lines(texts, k, j)[i] = texts[k + i]
         /\ j \in Nat /\ k \in Nat /\ k + j \in 0..Len(texts)
<1>1. PICK l : l = Len(texts)
  OBVIOUS
<1>2. l \in Nat /\ k \in Nat /\ j \in Nat /\ k + j \in 0..l /\ \A i \in 1..j : k + i \in 1..l
  BY <1>1, LenProperties
<1>3. \A i \in 1..j : texts[k + i] \in Line
  BY <1>1, <1>2, ElementOfSeq
<1>4. PICK z : z = Lines(texts, k, j)
  OBVIOUS
<1>5. z = [i \in 1..j |-> texts[k + i]]
  BY <1>4 DEF Lines
<1>6. z \in Seq(Line) /\ Len(z) = j /\ \A i \in 1..j : z[i] = texts[k + i]
  BY ONLY <1>2, <1>3, <1>5
<1> QED
  BY <1>1, <1>2, <1>4, <1>6

\* No lines.
LEMMA NoLines ==
  ASSUME NEW texts, NEW S, NEW s \in Seq(S), NEW k
  PROVE  s \o Lines(texts, k, 0) = s
<1>1. Lines(texts, k, 0) = << >>
  BY DEF Lines
<1>2. s \o << >> = s
  BY ConcatEmptySeq
<1> QED
  BY <1>1, <1>2

\* The lines the room has c hear are those read from the texts of the log.
LEMMA HearLines ==
  ASSUME NEW entries \in Seq(Entry), NEW k \in 0..Len(entries), NEW j \in 0..(Len(entries) - k)
  PROVE  Room!Texts(SubSeq(entries, k + 1, k + j)) = Lines(LogTexts(entries), k, j)
<1>1. PICK l, t, s : l = Len(entries) /\ t = LogTexts(entries) /\ s = SubSeq(entries, k + 1, k + j)
  OBVIOUS
<1>2. l \in Nat /\ k \in Nat /\ j \in Nat /\ k + 1 \in Int /\ k + j \in Int
  BY <1>1, LenProperties
<1>3. \A i \in 1..l : t[i] = entries[i].text
  BY <1>1, LogTextsType
<1>4. \A i \in (k + 1)..(k + j) : entries[i] \in Entry
  <2>1. \A i \in (k + 1)..(k + j) : i \in 1..Len(entries)
    BY <1>1, <1>2
  <2> QED
    BY <2>1, ElementOfSeq
<1>5. /\ Len(s) = IF k + 1 <= k + j THEN (k + j) - (k + 1) + 1 ELSE 0
      /\ \A i \in 1..((k + j) - (k + 1) + 1) : s[i] = entries[(k + 1) + i - 1]
  BY <1>1, <1>2, <1>4, SubSeqProperties
<1>6. \A i \in 1..j : i \in 1..((k + j) - (k + 1) + 1) /\ (k + 1) + i - 1 = k + i /\ k + i \in 1..l
  BY <1>1, <1>2
<1>7. Len(s) = j /\ \A i \in 1..j : s[i] = entries[k + i]
  <2>1. (IF k + 1 <= k + j THEN (k + j) - (k + 1) + 1 ELSE 0) = j
    BY ONLY <1>2
  <2>2. Len(s) = j
    BY <1>5, <2>1
  <2>3. ASSUME NEW i \in 1..j PROVE s[i] = entries[k + i]
    <3>1. s[i] = entries[(k + 1) + i - 1]
      BY <1>5, <1>6
    <3>2. (k + 1) + i - 1 = k + i
      BY <1>6
    <3> QED
      BY <3>1, <3>2
  <2> QED
    BY <2>2, <2>3
<1>8. \A i \in 1..j : s[i].text = t[k + i]
  BY <1>3, <1>6, <1>7
<1>9. Room!Texts(s) = [i \in 1..j |-> s[i].text]
  BY <1>7 DEF Room!Texts
<1>10. [i \in 1..j |-> s[i].text] = [i \in 1..j |-> t[k + i]]
  BY <1>8
<1> QED
  BY <1>1, <1>9, <1>10 DEF Lines

\* onMessage at the client: the next lines of the log are printed.
LEMMA ClientReadStep ==
  ASSUME ChatInv, NEW c \in Client, ClientRead(c)
  PROVE  ChatInv' /\ RoomStep
<1>1. ChatTypeOK /\ (\A d \in Client : Upward(d)) /\ (\A d \in Client : Downward(d))
  BY DEF ChatInv
<1>2. UNCHANGED <<typed, silent, main, link, connection_, up, state_, connections_, sbuf, log, joined>>
  BY DEF ClientRead, mainVars, serverVars
<1>3. PICK n, full, m :
        /\ n \in 1..Len(down[c])
        /\ full = Cat(cbuf[c], Taken(down[c], n)) /\ m = onMessage(full)
        /\ down' = [down EXCEPT ![c] = Left(down[c], n)]
        /\ cbuf' = [cbuf EXCEPT ![c] = Left(full, m.used)]
        /\ heard' = [heard EXCEPT ![c] = heard[c] \o m.texts]
        /\ half' = IF m.bad THEN half \cup {c} ELSE half
  BY DEF ClientRead, Cat, Taken, Left
<1>4. PICK t, k : t = LogTexts(log) /\ k = Passed(c)
  OBVIOUS
<1>5. t \in Seq(Line) /\ Len(t) = Len(log) /\ Len(log) \in Nat
  BY <1>4, InvOf
<1>6. joined[c] # -1 /\ joined[c] \in Nat /\ state_[c] # "none" /\ Stream(t, k, cbuf[c], down[c])
  <2>1. down[c] # << >>
    BY <1>3
  <2> QED
    BY <1>1, <1>4, <2>1 DEF Downward
<1>7. PICK j \in 0..(Len(t) - k) :
        /\ m.texts = Lines(t, k, j)
        /\ Stream(t, k + j, Left(full, m.used), Left(down[c], n))
        /\ Upto(t, k + j, Left(full, m.used), Left(down[c], n)) = Upto(t, k, cbuf[c], down[c])
  <2>1. Reads(t, k, cbuf[c], down[c], n, full, m)
    BY <1>3, <1>5, <1>6, StreamRead
  <2> QED
    BY <2>1 DEF Reads
<1>8. k \in 0..Len(t)
  BY <1>6 DEF Stream
<1>9. PICK x : x = Lines(t, k, j)
  OBVIOUS
<1>10. x \in Seq(Line) /\ Len(x) = j /\ j \in Nat /\ k \in Nat /\ k + j \in 0..Len(t)
  BY <1>5, <1>8, <1>9, LinesType
<1>11. heard[c] \in Seq(Line) /\ Len(heard[c]) \in Nat
  BY <1>1, LenProperties DEF ChatTypeOK
<1>12. /\ heard'[c] = heard[c] \o x /\ down'[c] = Left(down[c], n) /\ cbuf'[c] = Left(full, m.used)
       /\ \A d \in Client : d # c =>
            heard'[d] = heard[d] /\ down'[d] = down[d] /\ cbuf'[d] = cbuf[d]
  BY <1>1, <1>3, <1>7, <1>9 DEF ChatTypeOK
<1>13. heard[c] \o x \in Seq(Line) /\ Len(heard[c] \o x) = Len(heard[c]) + j
  BY <1>10, <1>11, ConcatProperties
<1>14. \A d \in Client : d \in half => d \in half'
  BY <1>3
<1>15. ChatTypeOK'
  <2>1. down'[c] \in Seq(Byte) /\ cbuf'[c] \in Seq(Byte)
    BY <1>7, <1>12 DEF Stream, Sits
  <2>2. down' \in [Client -> Seq(Byte)]
    BY <1>1, <1>3, <1>12, <2>1 DEF ChatTypeOK
  <2>3. cbuf' \in [Client -> Seq(Byte)]
    BY <1>1, <1>3, <1>12, <2>1 DEF ChatTypeOK
  <2>4. heard' \in [Client -> Seq(Line)]
    BY <1>1, <1>3, <1>7, <1>9, <1>13 DEF ChatTypeOK
  <2>5. half' \subseteq Client
    BY <1>1, <1>3 DEF ChatTypeOK
  <2> QED
    BY <1>1, <1>2, <2>2, <2>3, <2>4, <2>5 DEF ChatTypeOK
<1>16. \A d \in Client : Upward(d)'
  BY <1>1, <1>2, <1>14, UpwardFrame
<1>17. \A d \in Client : d # c => Downward(d)'
  BY <1>1, <1>2, <1>12, DownwardFrame
<1>18. Downward(c)'
  <2>1. Passed(c)' = k + j
    <3>1. PICK a, b : a = joined[c] /\ b = Len(heard[c])
      OBVIOUS
    <3>2. a \in Nat /\ b \in Nat /\ k = a + b
      BY <1>4, <1>6, <1>11, <3>1 DEF Passed
    <3>3. Passed(c)' = a + (b + j)
      BY <1>2, <1>12, <1>13, <3>1 DEF Passed
    <3>4. a + (b + j) = (a + b) + j
      BY ONLY <1>10, <3>2
    <3> QED
      BY <3>2, <3>3, <3>4
  <2>2. Stream(t, k + j, cbuf'[c], down'[c])
    BY <1>7, <1>12
  <2>3. Upto(t, k + j, cbuf'[c], down'[c]) = Upto(t, k, cbuf[c], down[c])
    BY <1>7, <1>12
  <2>4. c \in connections_ /\ state_[c] = "kConnected" /\ link[c] # "down" =>
          Upto(t, k, cbuf[c], down[c]) = End(t)
    BY <1>1, <1>4 DEF Downward
  <2>5. LogTexts(log') = t
    BY <1>2, <1>4
  <2> QED
    BY <1>1, <1>2, <1>6, <2>1, <2>2, <2>3, <2>4, <2>5 DEF Downward
<1>19. ChatInv'
  BY <1>15, <1>16, <1>17, <1>18 DEF ChatInv
<1>20. CASE j = 0
  <2>1. heard[c] \o m.texts = heard[c]
    <3>1. m.texts = Lines(t, k, 0)
      BY <1>7, <1>20
    <3>2. heard[c] \o Lines(t, k, 0) = heard[c]
      BY <1>11, NoLines
    <3> QED
      BY <3>1, <3>2
  <2>2. heard' = heard
    BY <1>1, <1>3, <2>1 DEF ChatTypeOK
  <2>3. UNCHANGED Room!svars
    BY <1>2, <2>2 DEF Room!svars
  <2> QED
    BY <1>19, <2>3 DEF RoomStep
<1>21. CASE j # 0
  <2>1. log \in Seq(Entry) /\ k \in 0..Len(log) /\ j \in 0..(Len(log) - k) /\ j \in 1..Len(log)
    BY <1>1, <1>5, <1>8, <1>10, <1>21 DEF ChatTypeOK
  <2>2. Room!Texts(SubSeq(log, k + 1, k + j)) = m.texts
    BY <1>4, <1>7, <2>1, HearLines
  <2>3. heard' = [heard EXCEPT ![c] = @ \o Room!Texts(SubSeq(log, k + 1, k + j))]
    BY <1>3, <2>2
  <2>4. k = joined[c] + Len(heard[c]) /\ k + j <= Len(log)
    BY <1>4, <1>5, <1>10 DEF Passed
  <2>5. Room!Hear(c, j)
    BY <1>2, <1>6, <2>3, <2>4 DEF Room!Hear
  <2>6. Room!SNext
    BY <2>1, <2>5 DEF Room!SNext
  <2> QED
    BY <1>19, <2>6 DEF RoomStep
<1> QED
  BY <1>20, <1>21

\* onMessage at the server: the next lines of c's script come into the log,
\* and to everybody the server sends to.
LEMMA ReceiveStep ==
  ASSUME ChatInv, NEW c \in Client, Receive(c)
  PROVE  ChatInv' /\ RoomStep
<1>1. ChatTypeOK /\ (\A d \in Client : Upward(d)) /\ (\A d \in Client : Downward(d))
  BY DEF ChatInv
<1>2. UNCHANGED <<typed, silent, main, link, connection_, half, cbuf, heard, connections_, joined>>
  BY DEF Receive, mainVars, linkVars
<1>3. state_[c] \in {"kConnected", "kDisconnecting"}
  BY DEF Receive
<1>4. PICK n, full, m :
        /\ n \in 1..Len(up[c])
        /\ full = Cat(sbuf[c], Taken(up[c], n)) /\ m = onMessage(full)
        /\ up' = [up EXCEPT ![c] = Left(up[c], n)]
        /\ sbuf' = [sbuf EXCEPT ![c] = Left(full, m.used)]
        /\ send(c, m.texts)
        /\ log' = log \o Signed(c, m.texts)
        /\ state_' = IF m.bad THEN [state_ EXCEPT ![c] = "kDisconnecting"] ELSE state_
  BY DEF Receive, Cat, Taken, Left, Signed
<1>5. PICK s, k : s = Script[c] /\ k = Behind(c)
  OBVIOUS
<1>6. s \in Seq(Line) /\ Len(s) \in Nat /\ Stream(s, k, sbuf[c], up[c]) /\ k \in 0..Len(s)
  BY <1>5, InvOf, ScriptLines DEF Stream
<1>7. PICK j \in 0..(Len(s) - k) :
        /\ m.texts = Lines(s, k, j)
        /\ \A i \in 1..j : Len(s[k + i]) <= MaxLen
        /\ Stream(s, k + j, Left(full, m.used), Left(up[c], n))
        /\ Upto(s, k + j, Left(full, m.used), Left(up[c], n)) = Upto(s, k, sbuf[c], up[c])
  <2>1. Reads(s, k, sbuf[c], up[c], n, full, m)
    BY <1>4, <1>6, StreamRead
  <2> QED
    BY <2>1 DEF Reads
<1>8. PICK x : x = m.texts
  OBVIOUS
<1>9. /\ x \in Seq(Line) /\ Len(x) = j /\ j \in Nat /\ k \in Nat /\ k + j \in 0..Len(s)
       /\ \A i \in 1..j : x[i] = s[k + i]
  <2>1. PICK y : y = Lines(s, k, j)
    OBVIOUS
  <2>2. /\ y \in Seq(Line) /\ Len(y) = j /\ j \in Nat /\ k \in Nat /\ k + j \in 0..Len(s)
        /\ \A i \in 1..j : y[i] = s[k + i]
    BY <1>6, <2>1, LinesType
  <2>3. x = y
    BY <1>7, <1>8, <2>1
  <2> QED
    BY <2>2, <2>3
<1>10. log \in Seq(Entry) /\ log' = log \o Signed(c, x)
  BY <1>1, <1>4, <1>8 DEF ChatTypeOK
<1>11. PICK a, w : a = LogTexts(log) /\ w = LogTexts(log')
  OBVIOUS
<1>12. /\ log' \in Seq(Entry) /\ Extends(w, a, x)
       /\ Count(log', c) = Count(log, c) + j
       /\ \A d : d # c => Count(log', d) = Count(log, d)
  <2>1. Grown(log', log, c, x)
    BY <1>9, <1>10, LogGrows
  <2> QED
    BY <1>9, <1>11, <2>1 DEF Grown
<1>13. /\ up'[c] = Left(up[c], n) /\ sbuf'[c] = Left(full, m.used)
       /\ \A d \in Client : d # c => up'[d] = up[d] /\ sbuf'[d] = sbuf[d]
  BY <1>1, <1>4 DEF ChatTypeOK
<1>14. \A d \in Client :
         /\ (state_'[d] = "none" <=> state_[d] = "none")
         /\ (state_'[d] = "kConnected" => state_[d] = "kConnected")
  BY <1>1, <1>3, <1>4 DEF ChatTypeOK
<1>15. \A d \in Client : d # c => Upward(d)'
  BY <1>1, <1>2, <1>12, <1>13, UpwardFrame
<1>16. Upward(c)'
  <2>1. link[c] \notin {"syn", "est"}
    <3>1. up[c] # << >>
      BY <1>4
    <3> QED
      BY <1>1, <3>1 DEF Upward
  <2>2. Behind(c)' = k + j
    <3>1. PICK p, q : p = silent[c] /\ q = Count(log, c)
      OBVIOUS
    <3>2. p \in Nat /\ q \in Nat /\ k = p + q
      BY <1>1, <1>5, <1>10, <3>1, CountType DEF Behind, ChatTypeOK
    <3>3. Behind(c)' = p + (q + j)
      BY <1>2, <1>12, <3>1 DEF Behind
    <3>4. p + (q + j) = (p + q) + j
      BY ONLY <1>9, <3>2
    <3> QED
      BY <3>2, <3>3, <3>4
  <2>3. /\ Stream(s, k + j, sbuf'[c], up'[c])
        /\ Upto(s, k + j, sbuf'[c], up'[c]) = Upto(s, k, sbuf[c], up[c])
    BY <1>7, <1>13
  <2> QED
    BY <1>1, <1>2, <1>5, <2>1, <2>2, <2>3 DEF Upward
<1>17. ASSUME NEW d \in Client PROVE Downward(d)' /\ down'[d] \in Seq(Byte)
  <2>1. PICK p : p = Passed(d)
    OBVIOUS
  <2>2. Passed(d)' = p /\ joined'[d] = joined[d] /\ heard'[d] = heard[d] /\ cbuf'[d] = cbuf[d] /\ link'[d] = link[d]
    BY <1>2, <2>1 DEF Passed
  <2>3. down[d] \in Seq(Byte)
    BY <1>1 DEF ChatTypeOK
  <2>4. CASE d \in connections_ /\ state_[d] = "kConnected" /\ link[d] # "down"
    <3>1. down'[d] = Cat(down[d], Frames(x))
      BY <1>4, <1>8, <2>4 DEF send, Cat
    <3>2. joined[d] # -1 /\ joined[d] \in Nat /\ Stream(a, p, cbuf[d], down[d])
      BY <1>1, <1>11, <2>1, <2>4 DEF Downward
    <3>3. Upto(a, p, cbuf[d], down[d]) = End(a)
      BY <1>1, <1>11, <2>1, <2>4 DEF Downward
    <3>4. Stream(w, p, cbuf[d], down'[d]) /\ Upto(w, p, cbuf[d], down'[d]) = End(w)
      BY <1>12, <3>1, <3>2, <3>3, StreamSend
    <3>5. state_'[d] # "none"
      BY <1>14, <2>4
    <3>6. Downward(d)'
      BY <1>11, <2>2, <3>2, <3>4, <3>5 DEF Downward
    <3> QED
      BY <3>4, <3>6 DEF Stream, Sits
  <2>5. CASE ~(d \in connections_ /\ state_[d] = "kConnected" /\ link[d] # "down")
    <3>1. down'[d] = down[d]
      BY <1>4, <2>5 DEF send
    <3>2. joined[d] # -1 => joined[d] \in Nat /\ Stream(w, p, cbuf[d], down[d])
      <4>1. joined[d] # -1 => joined[d] \in Nat /\ Stream(a, p, cbuf[d], down[d])
        BY <1>1, <1>11, <2>1 DEF Downward
      <4> QED
        BY <1>12, <4>1, StreamKept
    <3>3. ~(d \in connections_' /\ state_'[d] = "kConnected" /\ link'[d] # "down")
      BY <1>2, <1>14, <2>5
    <3>4. state_'[d] = "none" <=> state_[d] = "none"
      BY <1>14
    <3>5. Downward(d)'
      BY <1>1, <1>11, <2>2, <3>1, <3>2, <3>3, <3>4 DEF Downward
    <3> QED
      BY <2>3, <3>1, <3>5
  <2> QED
    BY <2>4, <2>5
<1>18. ChatTypeOK'
  <2>1. up'[c] \in Seq(Byte) /\ sbuf'[c] \in Seq(Byte)
    BY <1>7, <1>13 DEF Stream, Sits
  <2>2. up' \in [Client -> Seq(Byte)]
    BY <1>1, <1>4, <1>13, <2>1 DEF ChatTypeOK
  <2>3. sbuf' \in [Client -> Seq(Byte)]
    BY <1>1, <1>4, <1>13, <2>1 DEF ChatTypeOK
  <2>4. down' \in [Client -> Seq(Byte)]
    <3>1. DOMAIN down' = Client /\ down' = [d \in Client |-> down'[d]]
      BY <1>4 DEF send
    <3> QED
      BY <1>17, <3>1
  <2>5. state_' \in [Client -> {"none", "kConnected", "kDisconnecting", "kDisconnected"}]
    BY <1>1, <1>4 DEF ChatTypeOK
  <2> QED
    BY <1>1, <1>2, <1>12, <2>2, <2>3, <2>4, <2>5 DEF ChatTypeOK
<1>19. ChatInv'
  BY <1>15, <1>16, <1>17, <1>18 DEF ChatInv
<1>20. CASE j = 0
  <2>1. Signed(c, x) = << >>
    BY <1>9, <1>20 DEF Signed
  <2>2. log \o << >> = log
    BY <1>10, ConcatEmptySeq
  <2>3. log' = log
    BY <1>10, <2>1, <2>2
  <2>4. UNCHANGED Room!svars
    BY <1>2, <2>3 DEF Room!svars
  <2> QED
    BY <1>19, <2>4 DEF RoomStep
<1>21. CASE j # 0
  <2>1. j \in 1..Len(s) /\ k + j <= Len(s)
    BY <1>6, <1>9, <1>21
  <2>2. k = silent[c] + Room!Said(c)
    BY <1>5, SaidCount DEF Behind
  <2>3. joined[c] # -1
    BY <1>1, <1>3 DEF Downward
  <2>4. \A i \in (k + 1)..(k + j) : Len(s[i]) <= MaxLen
    <3>1. ASSUME NEW i \in (k + 1)..(k + j) PROVE Len(s[i]) <= MaxLen
      <4>1. i - k \in 1..j /\ k + (i - k) = i
        BY <1>9
      <4> QED
        BY <1>7, <4>1
    <3> QED
      BY <3>1
  <2>5. Signed(c, x) = [i \in 1..j |-> [from |-> c, text |-> s[k + i]]]
    BY <1>9 DEF Signed
  <2>6. log' = log \o [i \in 1..j |-> [from |-> c, text |-> s[k + i]]]
    BY <1>10, <2>5
  <2>7. Room!Post(c, j)
    BY <1>2, <1>5, <2>1, <2>2, <2>3, <2>4, <2>6 DEF Room!Post
  <2>8. Room!SNext
    BY <1>5, <2>1, <2>7 DEF Room!SNext
  <2> QED
    BY <1>19, <2>8 DEF RoomStep
<1> QED
  BY <1>20, <1>21

\* A step of any client or of the server.
LEMMA ChatStep ==
  ASSUME ChatInv, [Next]_vars
  PROVE  ChatInv' /\ RoomStep
<1>1. CASE Next
  <2>1. PICK c \in Client :
          \/ Write(c) \/ Disconnect(c) \/ Exit(c) \/ Establish(c)
          \/ ClientUp(c) \/ ClientRead(c) \/ ClientClose(c)
          \/ ServerUp(c) \/ Receive(c) \/ ServerClose(c)
    BY <1>1 DEF Next, ClientLoop, Server
  <2>2. CASE Write(c)
    BY <2>2, WriteStep
  <2>3. CASE Disconnect(c)
    BY <2>3, DisconnectStep
  <2>4. CASE Exit(c)
    BY <2>4, ExitStep
  <2>5. CASE Establish(c)
    BY <2>5, EstablishStep
  <2>6. CASE ClientUp(c)
    BY <2>6, ClientUpStep
  <2>7. CASE ClientRead(c)
    BY <2>7, ClientReadStep
  <2>8. CASE ClientClose(c)
    BY <2>8, ClientCloseStep
  <2>9. CASE ServerUp(c)
    BY <2>9, ServerUpStep
  <2>10. CASE Receive(c)
    BY <2>10, ReceiveStep
  <2>11. CASE ServerClose(c)
    BY <2>11, ServerCloseStep
  <2> QED
    BY <2>1, <2>2, <2>3, <2>4, <2>5, <2>6, <2>7, <2>8, <2>9, <2>10, <2>11
<1>2. CASE UNCHANGED vars
  <2>1. /\ UNCHANGED <<typed, main, silent, link, connection_, half, up, down, cbuf, heard>>
        /\ UNCHANGED <<state_, connections_, sbuf, log, joined>>
    BY <1>2 DEF vars, mainVars, linkVars, serverVars
  <2>2. ChatTypeOK'
    BY <2>1 DEF ChatInv, ChatTypeOK
  <2>3. \A d \in Client : Upward(d)' /\ Downward(d)'
    BY <2>1, UpwardFrame, DownwardFrame DEF ChatInv
  <2>4. UNCHANGED Room!svars
    BY <2>1 DEF Room!svars
  <2> QED
    BY <2>2, <2>3, <2>4 DEF ChatInv, RoomStep
<1> QED
  BY <1>1, <1>2

\* Every state of the programs has its streams in order: what a server buffer
\* and the bytes on their way to it hold are the lines the client typed next,
\* and what a client's hold are the lines of the log it has not printed.
THEOREM ChatInvariant == Spec => []ChatInv
<1>1. Init => ChatInv
  BY ChatInvInit
<1>2. ChatInv /\ [Next]_vars => ChatInv'
  BY ChatStep
<1> QED
  BY <1>1, <1>2, PTL DEF Spec

\* The server and the clients implement the chat room, for any clients, any
\* lines, any byte and header size: the same lines in the same order for
\* everybody, without gaps.
THEOREM ChatImplementsRoom == Spec => ImplementsChatService
<1>1. Init => Room!SInit
  BY DEF Init, Room!SInit
<1>2. ChatInv /\ [Next]_vars => [Room!SNext]_(Room!svars)
  BY ChatStep DEF RoomStep
<1> QED
  BY <1>1, <1>2, ChatInvariant, PTL DEF Spec, ImplementsChatService, Room!SSpec
=============================================================================
