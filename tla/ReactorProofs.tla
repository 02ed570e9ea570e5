--------------------------- MODULE ReactorProofs ---------------------------
(***************************************************************************)
(* Theorems about Reactor, for any number of clients and any buffer sizes. *)
(* With either message callback: the loop never touches a freed channel,   *)
(* no byte is lost, duplicated or reordered on its way through the server, *)
(* and a connection is dropped only for a reason.  With the echo callback: *)
(* no wakeup of the edge-triggered poller is lost, and the server          *)
(* implements EchoService.                                                 *)
(***************************************************************************)
EXTENDS Reactor, SequenceTheorems, TLAPS

-----------------------------------------------------------------------------
(* Sequences of bytes that are passed from one queue to the next: what is  *)
(* passed on stays in order.                                               *)

\* The smaller of two lengths, where the second is the room left.
LEMMA FitsRoom ==
  ASSUME NEW have \in Nat, NEW used \in Nat, NEW max \in Nat, used <= max,
         NEW n, n = IF have <= max - used THEN have ELSE max - used
  PROVE  n \in 0..have /\ used + n <= max
OBVIOUS

\* A sequence is its first n elements followed by the others.
LEMMA Split ==
  ASSUME NEW S, NEW s \in Seq(S), NEW n \in 0..Len(s)
  PROVE  /\ SubSeq(s, 1, n) \in Seq(S)
         /\ Len(SubSeq(s, 1, n)) = n
         /\ SubSeq(s, n + 1, Len(s)) \in Seq(S)
         /\ SubSeq(s, 1, n) \o SubSeq(s, n + 1, Len(s)) = s
<1>1. Len(s) \in Nat /\ n \in Nat /\ n <= Len(s)
  OBVIOUS
<1>2. \A i \in 1..Len(s) : s[i] \in S
  OBVIOUS
<1>3. SubSeq(s, 1, n) \in Seq(S) /\ Len(SubSeq(s, 1, n)) = n
  BY <1>1, <1>2, SubSeqProperties
<1>4. SubSeq(s, n + 1, Len(s)) \in Seq(S)
  BY <1>1, <1>2, SubSeqProperties
<1>5. SubSeq(s, 1, n) \o SubSeq(s, n + 1, Len(s)) = SubSeq(s, 1, Len(s))
  <2>1. 1 \in 1..Len(s) + 1 /\ n \in (1 - 1)..Len(s) /\ Len(s) \in n..Len(s)
    BY <1>1
  <2> QED
    BY <2>1, ConcatAdjacentSubSeq, Zenon
<1>6. SubSeq(s, 1, Len(s)) = s
  BY SubSeqFull
<1> QED
  BY <1>3, <1>4, <1>5, <1>6

\* What is left after the first n elements.
LEMMA RestLength ==
  ASSUME NEW s \in Seq(Nat), NEW n \in 0..(Len(s) - 1)
  PROVE  SubSeq(s, n + 1, Len(s)) # << >> /\ Len(SubSeq(s, n + 1, Len(s))) = Len(s) - n
<1>1. Len(s) \in Nat /\ n \in Nat /\ n + 1 \in Int /\ n + 1 <= Len(s)
  OBVIOUS
<1>2. \A i \in (n + 1)..Len(s) : s[i] \in Nat
  BY <1>1, ElementOfSeq
<1>3. PICK r : r = SubSeq(s, n + 1, Len(s))
  OBVIOUS
<1>4. r \in Seq(Nat) /\ Len(r) = Len(s) - (n + 1) + 1
  BY <1>1, <1>2, <1>3, SubSeqProperties
<1>5. Len(r) # 0 /\ Len(r) = Len(s) - n
  BY <1>1, <1>4
<1>6. r # << >>
  BY <1>5, EmptySeq
<1> QED
  BY <1>3, <1>5, <1>6

\* Concatenation is associative.
Assoc(a, b, d) == (a \o b) \o d = a \o (b \o d)
LEMMA CatAssoc == \A a, b, d \in Seq(Nat) : Assoc(a, b, d)
  BY ConcatAssociative, Z3T(30) DEF Assoc

\* Bytes move from the kernel (r1) through the input buffer (i) to the end of
\* the output buffer (o).
Echoed(p, o, i, r1) == p \o (o \o (i \o r1)) = p \o o \o i \o r1
LEMMA MoveEcho ==
  ASSUME NEW p \in Seq(Nat), NEW o \in Seq(Nat), NEW i \in Seq(Nat), NEW r1 \in Seq(Nat)
  PROVE  Echoed(p, o, i, r1)
<1>1. PICK ir \in Seq(Nat) : ir = i \o r1
  BY ConcatProperties
<1>2. Assoc(p, o, ir)
  BY CatAssoc
<1>3. PICK po \in Seq(Nat) : po = p \o o
  BY ConcatProperties
<1>4. Assoc(po, i, r1)
  BY CatAssoc
<1> QED
  BY <1>1, <1>2, <1>3, <1>4, Zenon DEF Echoed, Assoc

\* The same with the input buffer emptied and the rest (r2) left in the kernel.
EchoedRest(p, o, i, r1, r2) ==
  p \o (o \o (i \o r1)) \o << >> \o r2 = p \o o \o i \o (r1 \o r2)
LEMMA MoveEchoRest ==
  ASSUME NEW p \in Seq(Nat), NEW o \in Seq(Nat), NEW i \in Seq(Nat),
         NEW r1 \in Seq(Nat), NEW r2 \in Seq(Nat)
  PROVE  EchoedRest(p, o, i, r1, r2)
<1>1. Echoed(p, o, i, r1)
  BY MoveEcho
<1>2. PICK po \in Seq(Nat) : po = p \o o
  BY ConcatProperties
<1>3. PICK poi \in Seq(Nat) : poi = po \o i
  BY ConcatProperties
<1>4. PICK all \in Seq(Nat) : all = poi \o r1
  BY ConcatProperties
<1>5. all \o << >> = all
  BY ConcatEmptySeq
<1>6. Assoc(poi, r1, r2)
  BY CatAssoc
<1> QED
  BY <1>1, <1>2, <1>3, <1>4, <1>5, <1>6, Zenon DEF Echoed, EchoedRest, Assoc

\* The middle of four sequences may be attached to either neighbour.
Regrouped(a, b, m, d) == (a \o (b \o m)) \o d = (a \o b) \o (m \o d)
LEMMA Regroup ==
  ASSUME NEW a \in Seq(Nat), NEW b \in Seq(Nat), NEW m \in Seq(Nat), NEW d \in Seq(Nat)
  PROVE  Regrouped(a, b, m, d)
<1>1. PICK ab \in Seq(Nat) : ab = a \o b
  BY ConcatProperties
<1>2. Assoc(a, b, m)
  BY CatAssoc
<1>3. Assoc(ab, m, d)
  BY CatAssoc
<1> QED
  BY <1>1, <1>2, <1>3, Zenon DEF Regrouped, Assoc

\* Appending to the last of two sequences appends to the whole.
LEMMA AppendLast ==
  ASSUME NEW q \in Seq(Nat), NEW r \in Seq(Nat), NEW x \in Nat
  PROVE  q \o Append(r, x) = Append(q \o r, x)
<1>1. Append(r, x) = r \o <<x>> /\ <<x>> \in Seq(Nat)
  BY AppendIsConcat
<1>2. q \o r \in Seq(Nat)
  BY ConcatProperties, Zenon
<1>3. Append(q \o r, x) = (q \o r) \o <<x>>
  BY <1>2, AppendIsConcat, Zenon
<1>4. Assoc(q, r, <<x>>)
  BY <1>1, CatAssoc
<1> QED
  BY <1>1, <1>3, <1>4, Zenon DEF Assoc

\* A client that reads moves the first byte on the wire behind what it has.
LEMMA MoveHead ==
  ASSUME NEW g \in Seq(Nat), NEW w \in Seq(Nat), w # << >>
  PROVE  Append(g, Head(w)) \o Tail(w) = g \o w
<1>1. Head(w) \in Nat /\ Tail(w) \in Seq(Nat) /\ Len(Tail(w)) = Len(w) - 1
  BY HeadTailProperties
<1>2. <<Head(w)>> \in Seq(Nat) /\ Append(g, Head(w)) = g \o <<Head(w)>>
  BY <1>1, AppendIsConcat
<1>3. <<Head(w)>> \o Tail(w) = w
  BY <1>1
<1>4. Assoc(g, <<Head(w)>>, Tail(w))
  BY <1>1, <1>2, CatAssoc
<1> QED
  BY <1>2, <1>3, <1>4, Zenon DEF Assoc

\* A buffer to which a part of a queue was added is not empty.
LEMMA NotEmptied ==
  ASSUME NEW o \in Seq(Nat), NEW i \in Seq(Nat), NEW q \in Seq(Nat), NEW n \in 1..Len(q)
  PROVE  o \o (i \o SubSeq(q, 1, n)) # << >>
<1>1. n \in 0..Len(q) /\ n > 0
  OBVIOUS
<1>2. SubSeq(q, 1, n) \in Seq(Nat) /\ Len(SubSeq(q, 1, n)) = n
  BY <1>1, Split
<1>3. PICK r : r = SubSeq(q, 1, n)
  OBVIOUS
<1>4. r \in Seq(Nat) /\ Len(r) = n
  BY <1>2, <1>3
<1>5. i \o r \in Seq(Nat) /\ Len(i \o r) = Len(i) + n
  BY <1>4, ConcatProperties
<1>6. PICK m : m = i \o r
  OBVIOUS
<1>7. m \in Seq(Nat) /\ Len(m) > 0
  BY <1>1, <1>5, <1>6, LenProperties
<1>8. o \o m \in Seq(Nat) /\ Len(o \o m) = Len(o) + Len(m) /\ Len(o) \in Nat
  BY <1>7, ConcatProperties, LenProperties
<1>9. o \o m # << >>
  BY <1>7, <1>8, EmptySeq
<1> QED
  BY <1>3, <1>6, <1>9

\* What is added to a stream does not change what it began with.
Begins(a, s) == Len(a) <= Len(s) /\ \A k \in 1..Len(a) : s[k] = a[k]
LEMMA CatBegins ==
  ASSUME NEW a \in Seq(Nat), NEW b \in Seq(Nat)
  PROVE  Begins(a, a \o b)
<1>1. Len(a) \in Nat /\ Len(b) \in Nat
  OBVIOUS
<1>2. PICK s : s = a \o b
  OBVIOUS
<1>3. Len(s) = Len(a) + Len(b) /\ \A k \in 1..Len(a) : s[k] = a[k]
  BY <1>1, <1>2, ConcatProperties
<1> QED
  BY <1>1, <1>2, <1>3 DEF Begins

LEMMA BeginsTransitive ==
  ASSUME NEW a \in Seq(Nat), NEW b \in Seq(Nat), NEW s \in Seq(Nat), Begins(a, b), Begins(b, s)
  PROVE  Begins(a, s)
<1>1. Len(a) \in Nat /\ Len(b) \in Nat /\ Len(s) \in Nat
  OBVIOUS
<1>2. \A k \in 1..Len(a) : k \in 1..Len(b)
  BY <1>1 DEF Begins
<1> QED
  BY <1>1, <1>2 DEF Begins

\* The stream 1, 2, ..., n, and the byte of it that follows the first ones.
Counted(s, n) == s = [k \in 1..n |-> k]
LEMMA FollowingByte ==
  ASSUME NEW g \in Seq(Nat), NEW w \in Seq(Nat), NEW gw \in Seq(Nat), NEW s \in Seq(Nat),
         NEW n \in Nat, w # << >>, gw = g \o w, Begins(gw, s), Counted(s, n)
  PROVE  Len(g) < n /\ Head(w) = Len(g) + 1
<1>1. Len(g) \in Nat /\ Len(w) \in Nat /\ Len(w) > 0 /\ Head(w) = w[1]
  BY EmptySeq
<1>2. /\ Len(gw) = Len(g) + Len(w)
      /\ \A k \in 1..(Len(g) + Len(w)) : gw[k] = IF k <= Len(g) THEN g[k] ELSE w[k - Len(g)]
  BY ConcatProperties
<1>3. PICK p \in Nat : p = Len(g) + 1
  BY <1>1
<1>4. p \in 1..Len(gw) /\ p \in 1..(Len(g) + Len(w)) /\ ~(p <= Len(g)) /\ p - Len(g) = 1
  BY <1>1, <1>2, <1>3
<1>5. gw[p] = w[1]
  BY <1>2, <1>4
<1>6. Len(s) = n /\ \A k \in 1..n : s[k] = k
  BY DEF Counted
<1>7. s[p] = gw[p] /\ Len(gw) <= n
  BY <1>4, <1>6 DEF Begins
<1>8. Len(g) < n
  BY <1>1, <1>2, <1>7
<1>9. p \in 1..n
  BY <1>1, <1>3, <1>8
<1> QED
  BY <1>1, <1>3, <1>5, <1>6, <1>7, <1>8, <1>9

\* The head of the wire is the byte that follows the ones the client has read,
\* when the whole stream is 1, 2, ..., n.
LEMMA NextByte ==
  ASSUME NEW g \in Seq(Nat), NEW w \in Seq(Nat), NEW o \in Seq(Nat), NEW i \in Seq(Nat),
         NEW r \in Seq(Nat), NEW n \in Nat, w # << >>, Counted(g \o w \o o \o i \o r, n)
  PROVE  Len(g) < n /\ Head(w) = Len(g) + 1
<1>1. PICK gw \in Seq(Nat) : gw = g \o w
  BY ConcatProperties
<1>2. PICK gwo \in Seq(Nat) : gwo = gw \o o
  BY ConcatProperties
<1>3. PICK gwoi \in Seq(Nat) : gwoi = gwo \o i
  BY ConcatProperties
<1>4. PICK s \in Seq(Nat) : s = gwoi \o r
  BY ConcatProperties
<1>5. Begins(gw, gwo) /\ Begins(gwo, gwoi) /\ Begins(gwoi, s)
  BY <1>2, <1>3, <1>4, CatBegins
<1>6. Begins(gw, s)
  BY <1>5, BeginsTransitive
<1>7. Counted(s, n)
  BY <1>1, <1>2, <1>3, <1>4, Zenon
<1> QED
  BY <1>1, <1>6, <1>7, FollowingByte
-----------------------------------------------------------------------------
(* Pointers and registrations.                                             *)

ReactorInv == TypeOK /\ Registration /\ LoopState

\* Registering c, or changing what it is registered for.
LEMMA UpdateSet ==
  ASSUME TypeOK, Registration, NEW c \in Client, NEW ev \in SUBSET {"IN", "OUT"},
         ev # {}, updateChannel(c, ev)
  PROVE  /\ channels_' = channels_ \cup {c}
         /\ epset' = epset \cup {c}
         /\ armed' \subseteq armed \cup {c}
         /\ interest' = [interest EXCEPT ![c] = ev]
         /\ events_' = [events_ EXCEPT ![c] = ev]
BY DEF updateChannel, EpollSet

\* Removing c, which handleClose does to a connection in connections_.
LEMMA UpdateDel ==
  ASSUME TypeOK, Registration, NEW c \in connections_, disableAll(c)
  PROVE  /\ channels_' = channels_ \ {c}
         /\ epset' = epset \ {c}
         /\ armed' = armed \ {c}
         /\ interest' = [interest EXCEPT ![c] = {}]
         /\ events_' = [events_ EXCEPT ![c] = {}]
BY DEF disableAll, updateChannel, EpollDel, Registration

\* A connection whose events change, and stays interested in reading, stays
\* registered as Registration says.
LEMMA Reregistered ==
  ASSUME Registration, NEW c \in connections_,
         UNCHANGED <<conn_state_, connections_, channels_, epset>>,
         armed' \subseteq armed \cup {c}, interest' = events_',
         \A d \in Client : d # c => events_'[d] = events_[d],
         connections_ \subseteq Client,
         "IN" \in events_'[c]
  PROVE  Registration'
BY DEF Registration

\* What a client does leaves the server alone and never arms a socket that is
\* not registered.
LEMMA ClientStep ==
  ASSUME ReactorInv, ClientNext, UNCHANGED serverVars
  PROVE  ReactorInv'
<1>1. PICK c \in Client :
        \/ ClientConnect(c) \/ ClientSend(c) \/ ClientSendUrgent(c)
        \/ ClientFinish(c) \/ ClientReset(c) \/ ClientRead(c)
  BY DEF ClientNext
<1> USE DEF ReactorInv, TypeOK, KernelTypeOK
<1>2. KernelTypeOK'
  <2>1. CASE ClientConnect(c)
    BY <2>1 DEF ClientConnect, epollVars
  <2>2. CASE ClientSend(c)
    BY <2>2 DEF ClientSend, Edge
  <2>3. CASE ClientSendUrgent(c)
    BY <2>3 DEF ClientSendUrgent, Edge
  <2>4. CASE ClientFinish(c)
    BY <2>4 DEF ClientFinish, Edge
  <2>5. CASE ClientReset(c)
    BY <2>5 DEF ClientReset, Edge
  <2>6. CASE ClientRead(c)
    <3>1. Tail(wire[c]) \in Seq(Nat) /\ Len(Tail(wire[c])) <= SndBuf /\ Head(wire[c]) \in Nat
      <4>1. wire[c] \in Seq(Nat) /\ wire[c] # << >> /\ Len(wire[c]) <= SndBuf
        BY <2>6 DEF ClientRead
      <4>2. SndBuf \in Nat
        BY SocketsAssumption
      <4>3. Tail(wire[c]) \in Seq(Nat) /\ Len(Tail(wire[c])) = Len(wire[c]) - 1 /\ Head(wire[c]) \in Nat
        BY <4>1, HeadTailProperties
      <4> HIDE DEF ReactorInv, TypeOK, KernelTypeOK
      <4> QED
        BY <4>1, <4>2, <4>3
    <3>2. Append(got[c], Head(wire[c])) \in Seq(Nat)
      BY <3>1
    <3>3. got' \in [Client -> Seq(Nat)] /\ wire' \in [Client -> Seq(Nat)]
      BY <2>6, <3>1, <3>2 DEF ClientRead
    <3>4. \A d \in Client : Len(wire'[d]) <= SndBuf
      BY <2>6, <3>1 DEF ClientRead
    <3>5. armed' \subseteq Client
      BY <2>6 DEF ClientRead, Edge
    <3> QED
      BY <2>6, <3>3, <3>4, <3>5 DEF ClientRead
  <2> QED
    BY <1>1, <2>1, <2>2, <2>3, <2>4, <2>5, <2>6
<1>3. epset' = epset /\ interest' = interest /\ armed' \subseteq armed \cup epset
  BY <1>1 DEF ClientConnect, ClientSend, ClientSendUrgent, ClientFinish, ClientReset,
              ClientRead, Edge, epollVars
<1>4. backlog # << >> => backlog' # << >>
  BY <1>1 DEF ClientConnect, ClientSend, ClientSendUrgent, ClientFinish, ClientReset, ClientRead
<1>5. TypeOK'
  BY <1>2 DEF serverVars
<1>6. Registration'
  BY <1>3 DEF serverVars, Registration
<1>7. LoopState'
  BY <1>4 DEF serverVars, LoopState
<1> QED
  BY <1>5, <1>6, <1>7

\* Poll takes sockets off the ready list and hands them to the loop.
LEMMA PollStep == ASSUME ReactorInv, Poll PROVE ReactorInv'
<1> USE DEF ReactorInv, TypeOK, KernelTypeOK
<1>1. PICK S \in SUBSET Pending :
        /\ Cardinality(S) <= evsize
        /\ active' = S
        /\ revents' = [c \in Client |-> IF c \in S THEN Reported(c) ELSE {}]
        /\ armed' = {c \in armed : Reported(c) # {}} \ S
        /\ ResizeEvents(Cardinality(S))
  BY DEF Poll
<1>2. \A c \in Client : Reported(c) \subseteq Event
  BY DEF Reported, Event
<1>3. revents' \in [Client -> SUBSET Event]
  BY <1>1, <1>2
<1>4. evsize' \in Nat \ {0}
  BY <1>1 DEF ResizeEvents
<1>5. S \ {Listener} \subseteq armed /\ (Listener \in S => backlog # << >>)
  BY <1>1, SocketsAssumption, ReactorAssumption DEF Pending
<1>6. armed' \subseteq armed /\ active' \subseteq Client \cup {Listener}
  BY <1>1, <1>5
<1>7. TypeOK'
  BY <1>3, <1>4, <1>6 DEF Poll, connVars
<1>8. Registration'
  BY <1>6 DEF Poll, connVars, Registration
<1>9. LoopState'
  BY <1>1, <1>5 DEF Poll, connVars, Registration, LoopState
<1> QED
  BY <1>7, <1>8, <1>9

\* A new connection is owned by connections_ and registered at once.
LEMMA AcceptStep ==
  ASSUME ReactorInv, NEW c \in Client, AcceptorHandleRead(c)
  PROVE  ReactorInv'
<1> USE DEF ReactorInv, TypeOK, KernelTypeOK
<1>1. /\ channels_' = channels_ \cup {c}
      /\ epset' = epset \cup {c}
      /\ armed' \subseteq armed \cup {c}
      /\ interest' = [interest EXCEPT ![c] = events_[c] \cup {"IN"}]
      /\ events_' = [events_ EXCEPT ![c] = events_[c] \cup {"IN"}]
  BY UpdateSet DEF AcceptorHandleRead, newConnection, connectEstablished, enableReading
<1>2. backlog # << >> /\ backlog' = Tail(backlog)
  BY DEF AcceptorHandleRead, newConnection, LoopState
<1>3. backlog' \in Seq(Client)
  BY <1>2
<1>4. stage = "dispatch" /\ stage' \in {"poll", "dispatch"} /\ active' = active \ {Listener}
      /\ (stage' = "poll" => active' = {})
  BY DEF AcceptorHandleRead, NextStage
<1>5. events_' \in [Client -> SUBSET {"IN", "OUT"}] /\ interest' \in [Client -> SUBSET {"IN", "OUT"}]
  BY <1>1
<1>6. TypeOK'
  <2>1. KernelTypeOK'
    <3>1. UNCHANGED <<peer, sent, urg, rcvq, wire, got, err>>
      BY DEF AcceptorHandleRead
    <3>2. epset' \subseteq Client /\ armed' \subseteq Client
      BY <1>1
    <3> QED
      BY <1>3, <1>5, <3>1, <3>2
  <2>2. channels_' \subseteq Client /\ connections_' \subseteq Client
        /\ conn_state_' \in [Client -> {"none", "kConnected", "kDisconnected"}]
    BY <1>1 DEF AcceptorHandleRead, newConnection, connectEstablished
  <2> QED
    BY <1>4, <1>5, <2>1, <2>2 DEF AcceptorHandleRead, newConnection, connectEstablished
<1>7. Registration'
  BY <1>1 DEF AcceptorHandleRead, newConnection, connectEstablished, Registration
<1>8. LoopState'
  BY <1>4 DEF AcceptorHandleRead, newConnection, LoopState
<1> QED
  BY <1>6, <1>7, <1>8

\* A failed accept changes nothing but the loop's list.
LEMMA AcceptFailsStep == ASSUME ReactorInv, AcceptorHandleReadFails PROVE ReactorInv'
<1> USE DEF ReactorInv, TypeOK, KernelTypeOK, AcceptorHandleReadFails, NextStage, kernelVars, connVars
<1>1. TypeOK'
  OBVIOUS
<1>2. Registration'
  BY DEF Registration
<1>3. LoopState'
  BY DEF LoopState
<1> QED
  BY <1>1, <1>2, <1>3
-----------------------------------------------------------------------------
\* readFd takes at most what the kernel holds and at most the room there is.
LEMMA ReadCountBounds ==
  ASSUME TypeOK, NEW c \in Client
  PROVE  /\ ReadCount(c) \in 0..Len(rcvq[c])
         /\ Len(input[c]) + ReadCount(c) <= InitialSize
<1>1. /\ Len(rcvq[c]) \in Nat /\ Len(input[c]) \in Nat
      /\ Len(input[c]) <= InitialSize /\ InitialSize \in Nat
  <2>1. rcvq[c] \in Seq(Nat) /\ input[c] \in Seq(Nat)
    BY DEF TypeOK, KernelTypeOK
  <2> QED
    BY <2>1, SocketsAssumption, ReactorAssumption DEF TypeOK
<1> QED
  BY <1>1, FitsRoom, Zenon DEF ReadCount, Room

\* send takes at most what there is and at most what fits.
LEMMA WriteCountBounds ==
  ASSUME TypeOK, NEW c \in Client
  PROVE  /\ WriteCount(c) \in 0..Len(output[c])
         /\ Len(wire[c]) + WriteCount(c) <= SndBuf
<1>1. /\ Len(wire[c]) \in Nat /\ Len(output[c]) \in Nat
      /\ Len(wire[c]) <= SndBuf /\ SndBuf \in Nat
  <2>1. wire[c] \in Seq(Nat) /\ output[c] \in Seq(Nat)
    BY DEF TypeOK, KernelTypeOK
  <2> QED
    BY <2>1, SocketsAssumption, ReactorAssumption DEF TypeOK, KernelTypeOK
<1> QED
  BY <1>1, FitsRoom, Zenon DEF WriteCount

\* Types of the two buffers after the message callback, and its effect on the
\* poller: at most c is asked to write.
LEMMA MessageEffect ==
  ASSUME ReactorInv, NEW c \in connections_, NEW msg \in Seq(Nat), Len(msg) <= InitialSize,
         \/ onMessage(c, msg)
         \/ defaultMessageCallback(c, msg)
  PROVE  /\ input' \in [Client -> Seq(Nat)]
         /\ \A d \in Client : Len(input'[d]) <= InitialSize
         /\ output' \in [Client -> Seq(Nat)]
         /\ channels_' = channels_ /\ epset' = epset
         /\ armed' \subseteq armed \cup {c}
         /\ events_' = interest'
         /\ events_' \in [Client -> SUBSET {"IN", "OUT"}]
         /\ \A d \in Client : d # c => events_'[d] = events_[d]
         /\ "IN" \in events_'[c]
<1> USE DEF ReactorInv, TypeOK, KernelTypeOK
<1>1. CASE onMessage(c, msg)
  <2>1. conn_state_[c] = "kConnected" /\ "IN" \in events_[c] /\ c \in channels_ /\ c \in Client
    BY DEF Registration
  <2>2. /\ output' = [output EXCEPT ![c] = @ \o msg]
        /\ input' = [input EXCEPT ![c] = << >>]
    BY <1>1, <2>1 DEF onMessage, sendInLoop
  <2>3. output[c] \o msg \in Seq(Nat) /\ << >> \in Seq(Nat) /\ Len(<< >>) = 0
    BY <2>1, ConcatProperties
  <2>4. \A d \in Client : Len(input'[d]) <= InitialSize
    BY <2>2, <2>3, SocketsAssumption, ReactorAssumption
  <2>5. CASE isWriting(c)
    BY <1>1, <2>1, <2>2, <2>3, <2>4, <2>5 DEF onMessage, sendInLoop, epollVars, Registration
  <2>6. CASE ~isWriting(c)
    <3>1. updateChannel(c, events_[c] \cup {"OUT"})
      BY <1>1, <2>1, <2>6 DEF onMessage, sendInLoop, enableWriting
    <3>2. events_[c] \cup {"OUT"} \in SUBSET {"IN", "OUT"} /\ events_[c] \cup {"OUT"} # {}
      BY <2>1
    <3>3. /\ channels_' = channels_ \cup {c}
          /\ epset' = epset \cup {c}
          /\ armed' \subseteq armed \cup {c}
          /\ interest' = [interest EXCEPT ![c] = events_[c] \cup {"OUT"}]
          /\ events_' = [events_ EXCEPT ![c] = events_[c] \cup {"OUT"}]
      BY <2>1, <3>1, <3>2, UpdateSet
    <3>4. output' \in [Client -> Seq(Nat)] /\ input' \in [Client -> Seq(Nat)]
      BY <2>2, <2>3
    <3>5. channels_' = channels_ /\ epset' = epset /\ events_' = interest'
      BY <2>1, <3>3 DEF Registration
    <3>6. /\ events_' \in [Client -> SUBSET {"IN", "OUT"}]
          /\ \A d \in Client : d # c => events_'[d] = events_[d]
          /\ "IN" \in events_'[c]
      BY <2>1, <3>2, <3>3
    <3> QED
      BY <2>4, <3>3, <3>4, <3>5, <3>6
  <2> QED
    BY <2>5, <2>6
<1>2. CASE defaultMessageCallback(c, msg)
  BY <1>2 DEF defaultMessageCallback, epollVars, Registration
<1> QED
  BY <1>1, <1>2

\* handleClose takes a connection out of every table.
LEMMA CloseEffect ==
  ASSUME ReactorInv, NEW c \in connections_, handleClose(c)
  PROVE  /\ Registration'
         /\ connections_' = connections_ \ {c}
         /\ conn_state_' \in [Client -> {"none", "kConnected", "kDisconnected"}]
         /\ events_' \in [Client -> SUBSET {"IN", "OUT"}]
         /\ interest' = events_'
         /\ channels_' = channels_ \ {c} /\ epset' = epset \ {c} /\ armed' = armed \ {c}
<1> USE DEF ReactorInv, TypeOK, KernelTypeOK
<1>1. /\ channels_' = channels_ \ {c}
      /\ epset' = epset \ {c}
      /\ armed' = armed \ {c}
      /\ interest' = [interest EXCEPT ![c] = {}]
      /\ events_' = [events_ EXCEPT ![c] = {}]
  BY UpdateDel DEF handleClose
<1> QED
  BY <1>1 DEF handleClose, removeConnection, Registration

\* The read half of handleEvent: the guard takes over before anything else.
LEMMA ReadStep ==
  ASSUME ReactorInv, NEW c \in Client, HandleEventRead(c)
  PROVE  ReactorInv'
<1> USE DEF ReactorInv, TypeOK, KernelTypeOK
<1>0. c \in connections_ /\ c # Listener /\ c \in active
  BY SocketsAssumption, ReactorAssumption DEF HandleEventRead, LoopState
<1>1. /\ active' = active \ {c} /\ cur' = {c} /\ guard' = {c} /\ stage' = "write"
      /\ sent' = sent /\ got' = got /\ backlog' = backlog /\ revents' = revents
      /\ evsize' = evsize /\ proc' = proc
  BY <1>0 DEF HandleEventRead, tieLock
<1>2. ASSUME handleClose(c),
             UNCHANGED <<peer, wire, input, output>>,
             rcvq' \in [Client -> Seq(Nat)],
             urg' \in [Client -> {"none", "queued", "taken"}],
             err' \in [Client -> {"none", "reset", "broken"}]
      PROVE  ReactorInv'
  <2>1. /\ Registration'
        /\ connections_' = connections_ \ {c}
        /\ conn_state_' \in [Client -> {"none", "kConnected", "kDisconnected"}]
        /\ events_' \in [Client -> SUBSET {"IN", "OUT"}]
        /\ interest' = events_'
        /\ channels_' = channels_ \ {c} /\ epset' = epset \ {c} /\ armed' = armed \ {c}
    BY <1>0, <1>2, CloseEffect
  <2>2. TypeOK'
    <3>1. KernelTypeOK'
      BY <1>1, <1>2, <2>1
    <3>2. connections_' \subseteq Client /\ channels_' \subseteq Client
          /\ active' \subseteq Client \cup {Listener} /\ cur' \subseteq Client /\ guard' \subseteq Client
      BY <1>1, <2>1
    <3>3. input' = input /\ output' = output
      BY <1>2
    <3> HIDE DEF KernelTypeOK
    <3> QED
      BY <1>1, <2>1, <3>1, <3>2, <3>3, SMTT(30)
  <2>3. LoopState'
    BY <1>0, <1>1, <2>1 DEF LoopState
  <2> QED
    BY <2>1, <2>2, <2>3
<1>3. CASE "HUP" \in revents[c] /\ "IN" \notin revents[c]
  BY <1>2, <1>3 DEF HandleEventRead
<1>4. CASE /\ ~("HUP" \in revents[c] /\ "IN" \notin revents[c])
           /\ revents[c] \cap {"IN", "PRI"} # {}
  <2>0. handleRead(c)
    BY <1>4 DEF HandleEventRead
  <2> DEFINE n == ReadCount(c)
             msg == input[c] \o SubSeq(rcvq[c], 1, n)
  <2>1. /\ n \in 0..Len(rcvq[c])
        /\ Len(input[c]) + n <= InitialSize
    BY ReadCountBounds
  <2>2. /\ SubSeq(rcvq[c], 1, n) \in Seq(Nat)
        /\ Len(SubSeq(rcvq[c], 1, n)) = n
        /\ SubSeq(rcvq[c], n + 1, Len(rcvq[c])) \in Seq(Nat)
    BY <2>1, Split
  <2>3. msg \in Seq(Nat) /\ Len(msg) <= InitialSize
    BY <2>1, <2>2, ConcatProperties
  <2>4. /\ rcvq' \in [Client -> Seq(Nat)]
        /\ urg' \in [Client -> {"none", "queued", "taken"}]
        /\ err' \in [Client -> {"none", "reset", "broken"}]
        /\ UNCHANGED <<peer, wire>>
    BY <2>0, <2>2 DEF handleRead
  <2>5. CASE n > 0
    <3>1. /\ onMessage(c, msg) \/ defaultMessageCallback(c, msg)
          /\ UNCHANGED <<conn_state_, connections_>>
      BY <2>0, <2>5 DEF handleRead
    <3>2. /\ input' \in [Client -> Seq(Nat)]
          /\ \A d \in Client : Len(input'[d]) <= InitialSize
          /\ output' \in [Client -> Seq(Nat)]
          /\ channels_' = channels_ /\ epset' = epset
          /\ armed' \subseteq armed \cup {c}
          /\ events_' = interest'
          /\ events_' \in [Client -> SUBSET {"IN", "OUT"}]
          /\ \A d \in Client : d # c => events_'[d] = events_[d]
          /\ "IN" \in events_'[c]
      <4> HIDE DEF ReactorInv, TypeOK, KernelTypeOK, msg, n
      <4> QED
        BY <1>0, <2>3, <3>1, MessageEffect, Zenon
    <3>3. TypeOK'
      <4>1. armed' \subseteq Client /\ epset' \subseteq Client
        BY <3>2
      <4>2. KernelTypeOK'
        BY <1>1, <2>4, <3>2, <4>1
      <4> QED
        BY <1>1, <3>1, <3>2, <4>2, SMTT(30)
    <3>4. Registration'
      <4> HIDE DEF msg, n
      <4>1. Registration /\ connections_ \subseteq Client
        OBVIOUS
      <4> HIDE DEF ReactorInv, TypeOK, KernelTypeOK
      <4> QED
        BY <1>0, <3>1, <3>2, <4>1, Reregistered
    <3>5. LoopState'
      BY <1>0, <1>1, <3>1 DEF LoopState
    <3> QED
      BY <3>3, <3>4, <3>5
  <2>6. CASE ~(n > 0)
    <3>1. handleClose(c) /\ UNCHANGED <<input, output>>
      BY <2>0, <2>6 DEF handleRead
    <3> QED
      BY <1>2, <2>4, <3>1
  <2> QED
    BY <2>5, <2>6
<1>5. CASE /\ ~("HUP" \in revents[c] /\ "IN" \notin revents[c])
           /\ revents[c] \cap {"IN", "PRI"} = {}
  <2>1. UNCHANGED <<peer, rcvq, urg, err, wire, channels_, events_, epset, interest, armed,
                    conn_state_, connections_, input, output>>
    BY <1>5 DEF HandleEventRead, epollVars, connVars
  <2>2. TypeOK'
    BY <1>1, <2>1
  <2>3. Registration'
    BY <2>1 DEF Registration
  <2>4. LoopState'
    BY <1>0, <1>1, <2>1 DEF LoopState
  <2> QED
    BY <2>2, <2>3, <2>4
<1> QED
  BY <1>3, <1>4, <1>5

\* What send and disableWriting leave behind: the connection stays registered
\* for reading, whether or not there is more to write.
LEMMA TransmitEffect ==
  ASSUME ReactorInv, NEW c \in connections_, Transmit(c),
         UNCHANGED <<conn_state_, connections_>>
  PROVE  /\ wire' \in [Client -> Seq(Nat)] /\ output' \in [Client -> Seq(Nat)]
         /\ \A d \in Client : Len(wire'[d]) <= SndBuf
         /\ channels_' \subseteq Client /\ epset' \subseteq Client /\ armed' \subseteq Client
         /\ events_' \in [Client -> SUBSET {"IN", "OUT"}]
         /\ interest' \in [Client -> SUBSET {"IN", "OUT"}]
         /\ Registration'
<1> USE DEF ReactorInv, TypeOK, KernelTypeOK
<1> DEFINE n == WriteCount(c)
<1>0. c \in Client
  OBVIOUS
<1>1. /\ wire' = [wire EXCEPT ![c] = @ \o SubSeq(output[c], 1, n)]
      /\ output' = [output EXCEPT ![c] = SubSeq(@, n + 1, Len(@))]
      /\ \/ disableWriting(c)
         \/ UNCHANGED <<channels_, events_, epset, interest, armed>>
  BY DEF Transmit, epollVars
<1>2. n \in 0..Len(output[c]) /\ Len(wire[c]) + n <= SndBuf
  BY <1>0, WriteCountBounds
<1>3. /\ SubSeq(output[c], 1, n) \in Seq(Nat)
      /\ Len(SubSeq(output[c], 1, n)) = n
      /\ SubSeq(output[c], n + 1, Len(output[c])) \in Seq(Nat)
  BY <1>0, <1>2, Split
<1>4. /\ wire[c] \o SubSeq(output[c], 1, n) \in Seq(Nat)
      /\ Len(wire[c] \o SubSeq(output[c], 1, n)) <= SndBuf
  BY <1>0, <1>2, <1>3, ConcatProperties
<1>5. /\ wire' \in [Client -> Seq(Nat)] /\ output' \in [Client -> Seq(Nat)]
      /\ \A d \in Client : Len(wire'[d]) <= SndBuf
  BY <1>1, <1>3, <1>4
<1>6. /\ channels_' = channels_ /\ epset' = epset /\ armed' \subseteq armed \cup {c}
      /\ interest' = events_' /\ events_' \in [Client -> SUBSET {"IN", "OUT"}]
      /\ \A d \in Client : d # c => events_'[d] = events_[d]
      /\ "IN" \in events_'[c]
  <2>1. CASE disableWriting(c)
    <3>1. /\ events_[c] \ {"OUT"} \in SUBSET {"IN", "OUT"} /\ events_[c] \ {"OUT"} # {}
          /\ "IN" \in events_[c] /\ c \in channels_ /\ c \in epset
      BY DEF Registration
    <3>2. /\ channels_' = channels_ \cup {c}
          /\ epset' = epset \cup {c}
          /\ armed' \subseteq armed \cup {c}
          /\ interest' = [interest EXCEPT ![c] = events_[c] \ {"OUT"}]
          /\ events_' = [events_ EXCEPT ![c] = events_[c] \ {"OUT"}]
      BY <2>1, <3>1, UpdateSet DEF disableWriting
    <3>3. events_ \in [Client -> SUBSET {"IN", "OUT"}] /\ interest = events_
      BY DEF Registration
    <3> HIDE DEF ReactorInv, TypeOK, KernelTypeOK
    <3> QED
      BY <1>0, <3>1, <3>2, <3>3
  <2>2. CASE UNCHANGED <<channels_, events_, epset, interest, armed>>
    BY <2>2 DEF Registration
  <2> QED
    BY <1>1, <2>1, <2>2
<1>7. Registration'
  <2>1. Registration /\ connections_ \subseteq Client
    OBVIOUS
  <2> HIDE DEF ReactorInv, TypeOK, KernelTypeOK
  <2> QED
    BY <1>6, <2>1, Reregistered
<1> QED
  BY <1>5, <1>6, <1>7

\* The write half of handleEvent: the connection stays in connections_, and
\* the poller keeps it registered for reading.  The guard is released unless
\* send blocks.
LEMMA WriteStep ==
  ASSUME ReactorInv, NEW c \in Client, HandleEventWrite(c)
  PROVE  ReactorInv'
<1> USE DEF ReactorInv, TypeOK, KernelTypeOK
<1>1. /\ active' = active
      /\ UNCHANGED <<peer, sent, urg, rcvq, got, backlog, revents, evsize,
                     conn_state_, connections_, input>>
  BY DEF HandleEventWrite
<1>2. /\ LoopState'
      /\ stage' \in {"poll", "dispatch", "send"} /\ cur' \subseteq Client /\ guard' \subseteq Client
  BY <1>1 DEF HandleEventWrite, Blocks, isWriting, EventEnds, NextStage, LoopState, Registration
<1>3. CASE UNCHANGED <<wire, output, channels_, events_, epset, interest, armed>>
           /\ err' \in [Client -> {"none", "reset", "broken"}] /\ proc' \in {"running", "killed"}
  <2>1. TypeOK'
    BY <1>1, <1>2, <1>3
  <2>2. Registration'
    BY <1>1, <1>3 DEF Registration
  <2> QED
    BY <1>2, <2>1, <2>2
<1>4. CASE "OUT" \in revents[c] /\ isWriting(c) /\ peer[c] # "rst"
  <2>1. c \in connections_
    BY <1>4 DEF isWriting, Registration
  <2>2. Transmit(c) /\ UNCHANGED <<err, proc>>
    BY <1>4 DEF HandleEventWrite, handleWrite
  <2>3. /\ wire' \in [Client -> Seq(Nat)] /\ output' \in [Client -> Seq(Nat)]
        /\ \A d \in Client : Len(wire'[d]) <= SndBuf
        /\ channels_' \subseteq Client /\ epset' \subseteq Client /\ armed' \subseteq Client
        /\ events_' \in [Client -> SUBSET {"IN", "OUT"}]
        /\ interest' \in [Client -> SUBSET {"IN", "OUT"}]
        /\ Registration'
    BY <1>1, <2>1, <2>2, TransmitEffect
  <2>4. TypeOK'
    BY <1>1, <1>2, <2>2, <2>3
  <2> QED
    BY <1>2, <2>3, <2>4
<1>5. CASE ~("OUT" \in revents[c] /\ isWriting(c) /\ peer[c] # "rst")
  BY <1>3, <1>5 DEF HandleEventWrite, handleWrite, epollVars
<1> QED
  BY <1>4, <1>5

\* A connection whose send is blocked is still in connections_: nothing but the
\* loop takes it out, and the loop is in send.
LEMMA ResumeStep ==
  ASSUME ReactorInv, NEW c \in Client, SendResumes(c)
  PROVE  ReactorInv'
<1> USE DEF ReactorInv, TypeOK, KernelTypeOK
<1>1. /\ active' = active /\ Transmit(c)
      /\ UNCHANGED <<peer, sent, urg, rcvq, got, err, backlog, revents, evsize,
                     conn_state_, connections_, input, proc>>
  BY DEF SendResumes
<1>2. /\ LoopState'
      /\ stage' \in {"poll", "dispatch", "send"} /\ cur' \subseteq Client /\ guard' \subseteq Client
  BY <1>1 DEF SendResumes, EventEnds, NextStage, LoopState
<1>3. c \in connections_
  BY DEF SendResumes, LoopState
<1>4. /\ wire' \in [Client -> Seq(Nat)] /\ output' \in [Client -> Seq(Nat)]
      /\ \A d \in Client : Len(wire'[d]) <= SndBuf
      /\ channels_' \subseteq Client /\ epset' \subseteq Client /\ armed' \subseteq Client
      /\ events_' \in [Client -> SUBSET {"IN", "OUT"}]
      /\ interest' \in [Client -> SUBSET {"IN", "OUT"}]
      /\ Registration'
  BY <1>1, <1>3, TransmitEffect
<1>5. TypeOK'
  BY <1>1, <1>2, <1>4
<1> QED
  BY <1>2, <1>4, <1>5

\* A send cut short ends the event and changes nothing else.
LEMMA CutStep ==
  ASSUME ReactorInv, NEW c \in Client, SendCut(c)
  PROVE  ReactorInv'
<1> USE DEF ReactorInv, TypeOK, KernelTypeOK, SendCut, EventEnds, NextStage, kernelVars, connVars
<1>1. TypeOK'
  OBVIOUS
<1>2. Registration'
  BY DEF Registration
<1>3. LoopState'
  BY DEF LoopState
<1> QED
  BY <1>1, <1>2, <1>3

\* Every step keeps the invariant.
LEMMA ReactorStep == ReactorInv /\ [Next]_vars => ReactorInv'
<1> SUFFICES ASSUME ReactorInv, [Next]_vars PROVE ReactorInv'
  OBVIOUS
<1>1. CASE Poll
  BY <1>1, PollStep
<1>2. ASSUME NEW c \in Client, AcceptorHandleRead(c) PROVE ReactorInv'
  BY <1>2, AcceptStep
<1>3. CASE AcceptorHandleReadFails
  BY <1>3, AcceptFailsStep
<1>4. ASSUME NEW c \in Client, HandleEventRead(c) PROVE ReactorInv'
  BY <1>4, ReadStep
<1>5. ASSUME NEW c \in Client, HandleEventWrite(c) PROVE ReactorInv'
  BY <1>5, WriteStep
<1>6. ASSUME NEW c \in Client, SendResumes(c) \/ SendCut(c) PROVE ReactorInv'
  BY <1>6, ResumeStep, CutStep
<1>7. CASE ClientNext /\ UNCHANGED serverVars
  BY <1>7, ClientStep
<1>8. CASE UNCHANGED vars
  BY <1>8 DEF vars, kernelVars, serverVars, ReactorInv, TypeOK, KernelTypeOK, Registration, LoopState
<1> QED
  BY <1>1, <1>2, <1>3, <1>4, <1>5, <1>6, <1>7, <1>8 DEF Next, ServerNext

\* The loop starts with no connection and nothing to handle.
LEMMA ReactorInit == Init => ReactorInv
BY SocketsAssumption, ReactorAssumption DEF Init, KernelInit, ReactorInv, TypeOK, KernelTypeOK, Registration, LoopState

\* No pointer the event loop keeps (the channel whose handleEvent runs, the
\* active channels, channels_, the epoll set) outlives its connection.
THEOREM ReactorSafe == Spec => [](TypeOK /\ NoDanglingChannel)
<1>1. ReactorInv => TypeOK /\ NoDanglingChannel
  BY DEF ReactorInv, TypeOK, Registration, LoopState, NoDanglingChannel
<1> QED
  BY <1>1, ReactorInit, ReactorStep, PTL DEF Spec
-----------------------------------------------------------------------------
(* No byte is lost, duplicated or reordered.                               *)

\* The five places a byte can be in are sequences of numbers.
LEMMA StreamType ==
  ASSUME TypeOK, NEW c \in Client
  PROVE  /\ got[c] \in Seq(Nat) /\ wire[c] \in Seq(Nat) /\ output[c] \in Seq(Nat)
         /\ input[c] \in Seq(Nat) /\ rcvq[c] \in Seq(Nat)
         /\ got[c] \o wire[c] \in Seq(Nat)
         /\ got[c] \o wire[c] \o output[c] \in Seq(Nat)
         /\ got[c] \o wire[c] \o output[c] \o input[c] \in Seq(Nat)
<1>1. /\ got[c] \in Seq(Nat) /\ wire[c] \in Seq(Nat) /\ output[c] \in Seq(Nat)
      /\ input[c] \in Seq(Nat) /\ rcvq[c] \in Seq(Nat)
  BY DEF TypeOK, KernelTypeOK
<1> QED
  BY <1>1, ConcatProperties, Zenon

\* A step that keeps every client's stream and count keeps StreamIntact.
LEMMA SameStreams ==
  ASSUME StreamIntact, \A c \in Client : Stream(c)' = Stream(c), sent' = sent
  PROVE  StreamIntact'
BY DEF StreamIntact

\* A client appends to its stream, or takes the head of the wire to itself.
LEMMA ClientStream ==
  ASSUME TypeOK, StreamIntact, ClientNext, UNCHANGED serverVars
  PROVE  StreamIntact'
<1>1. PICK c \in Client :
        \/ ClientConnect(c) \/ ClientSend(c) \/ ClientSendUrgent(c)
        \/ ClientFinish(c) \/ ClientReset(c) \/ ClientRead(c)
  BY DEF ClientNext
<1>2. output' = output /\ input' = input
  BY DEF serverVars
<1>3. CASE ClientConnect(c) \/ ClientSendUrgent(c) \/ ClientFinish(c) \/ ClientReset(c)
  <2>1. UNCHANGED <<got, wire, rcvq, sent>>
    BY <1>3 DEF ClientConnect, ClientSendUrgent, ClientFinish, ClientReset
  <2> QED
    BY <1>2, <2>1, SameStreams DEF Stream
<1>4. CASE ClientRead(c)
  <2>1. /\ got' = [got EXCEPT ![c] = Append(got[c], Head(wire[c]))]
        /\ wire' = [wire EXCEPT ![c] = Tail(wire[c])]
        /\ rcvq' = rcvq /\ sent' = sent /\ wire[c] # << >>
    BY <1>4 DEF ClientRead
  <2>2. got'[c] \o wire'[c] = got[c] \o wire[c]
    <3>1. got'[c] = Append(got[c], Head(wire[c])) /\ wire'[c] = Tail(wire[c])
      BY <2>1 DEF TypeOK, KernelTypeOK
    <3> QED
      BY <2>1, <3>1, StreamType, MoveHead
  <2>3. \A d \in Client : d # c => got'[d] = got[d] /\ wire'[d] = wire[d]
    BY <2>1 DEF TypeOK, KernelTypeOK
  <2>4. \A d \in Client : Stream(d)' = Stream(d)
    BY <1>2, <2>1, <2>2, <2>3, Zenon DEF Stream
  <2> QED
    BY <2>1, <2>4, SameStreams
<1>5. CASE ClientSend(c)
  <2>1. /\ sent' = [sent EXCEPT ![c] = sent[c] + 1]
        /\ rcvq' = [rcvq EXCEPT ![c] = Append(rcvq[c], sent[c] + 1)]
        /\ got' = got /\ wire' = wire
    BY <1>5 DEF ClientSend
  <2>2. sent[c] \in Nat /\ sent[c] + 1 \in Nat
    BY DEF TypeOK, KernelTypeOK
  <2>3. sent'[c] = sent[c] + 1 /\ rcvq'[c] = Append(rcvq[c], sent[c] + 1)
    BY <2>1 DEF TypeOK, KernelTypeOK
  <2>4. Stream(c)' = Append(Stream(c), sent[c] + 1)
    <3>1. got[c] \o wire[c] \o output[c] \o input[c] \o Append(rcvq[c], sent[c] + 1)
            = Append(got[c] \o wire[c] \o output[c] \o input[c] \o rcvq[c], sent[c] + 1)
      <4>1. PICK q \in Seq(Nat) : q = got[c] \o wire[c] \o output[c] \o input[c]
        BY StreamType
      <4>2. PICK r \in Seq(Nat) : r = rcvq[c]
        BY StreamType
      <4>3. q \o Append(r, sent[c] + 1) = Append(q \o r, sent[c] + 1)
        BY <2>2, AppendLast
      <4> QED
        BY <4>1, <4>2, <4>3, Zenon
    <3> QED
      BY <1>2, <2>1, <2>3, <3>1, Zenon DEF Stream
  <2>5. Stream(c)' = [i \in 1..(sent[c] + 1) |-> i]
    <3>1. Stream(c) = [i \in 1..sent[c] |-> i]
      BY DEF StreamIntact
    <3>2. Append([i \in 1..sent[c] |-> i], sent[c] + 1) = [i \in 1..(sent[c] + 1) |-> i]
      BY <2>2
    <3> QED
      BY <2>4, <3>1, <3>2
  <2>6. \A d \in Client : d # c => Stream(d)' = Stream(d) /\ sent'[d] = sent[d]
    <3>1. \A d \in Client : d # c => rcvq'[d] = rcvq[d] /\ sent'[d] = sent[d]
      BY <2>1 DEF TypeOK, KernelTypeOK
    <3> QED
      BY <1>2, <2>1, <3>1 DEF Stream
  <2> QED
    BY <2>3, <2>5, <2>6 DEF StreamIntact
<1> QED
  BY <1>1, <1>3, <1>4, <1>5

\* What readFd takes from the kernel the callback puts behind the output, or
\* leaves in the input buffer.
LEMMA ReadStream ==
  ASSUME ReactorInv, StreamIntact, NEW c \in Client, HandleEventRead(c)
  PROVE  StreamIntact'
<1>0. c \in connections_ /\ sent' = sent /\ got' = got /\ TypeOK /\ conn_state_[c] = "kConnected"
  BY SocketsAssumption, ReactorAssumption DEF HandleEventRead, LoopState, ReactorInv, Registration
<1>1. CASE UNCHANGED <<wire, rcvq, input, output>>
  BY <1>0, <1>1, SameStreams DEF Stream
<1>2. CASE handleRead(c)
  <2> DEFINE n == ReadCount(c)
             r1 == SubSeq(rcvq[c], 1, n)
             r2 == SubSeq(rcvq[c], n + 1, Len(rcvq[c]))
  <2>1. r1 \in Seq(Nat) /\ r2 \in Seq(Nat) /\ r1 \o r2 = rcvq[c]
    BY <1>0, ReadCountBounds, StreamType, Split
  <2>2. wire' = wire /\ rcvq' = [rcvq EXCEPT ![c] = r2]
    BY <1>2 DEF handleRead
  <2>3. rcvq'[c] = r2 /\ \A d \in Client : d # c => rcvq'[d] = rcvq[d]
    BY <1>0, <2>2 DEF TypeOK, KernelTypeOK
  <2>4. CASE n > 0 /\ MessageCallback = "echo"
    <3>1. onMessage(c, input[c] \o r1)
      BY <1>2, <2>4 DEF handleRead
    <3>2. /\ output' = [output EXCEPT ![c] = output[c] \o (input[c] \o r1)]
          /\ input' = [input EXCEPT ![c] = << >>]
      BY <1>0, <3>1 DEF onMessage, sendInLoop
    <3>3. /\ output'[c] = output[c] \o (input[c] \o r1) /\ input'[c] = << >>
          /\ \A d \in Client : d # c => output'[d] = output[d] /\ input'[d] = input[d]
      BY <1>0, <3>2 DEF TypeOK
    <3>4. got[c] \o wire[c] \o (output[c] \o (input[c] \o r1)) \o << >> \o r2
            = got[c] \o wire[c] \o output[c] \o input[c] \o (r1 \o r2)
      <4>1. EchoedRest(got[c] \o wire[c], output[c], input[c], r1, r2)
        BY <1>0, <2>1, StreamType, MoveEchoRest
      <4> QED
        BY <4>1 DEF EchoedRest
    <3>5. Stream(c)' = Stream(c)
      BY <1>0, <2>1, <2>2, <2>3, <3>3, <3>4, Zenon DEF Stream
    <3>6. \A d \in Client : d # c => Stream(d)' = Stream(d)
      BY <1>0, <2>2, <2>3, <3>3, Zenon DEF Stream
    <3> QED
      BY <1>0, <3>5, <3>6, SameStreams
  <2>5. CASE n > 0 /\ MessageCallback # "echo"
    <3>1. defaultMessageCallback(c, input[c] \o r1)
      BY <1>2, <2>5 DEF handleRead
    <3>2. output' = output /\ input' = [input EXCEPT ![c] = input[c] \o r1]
      BY <3>1 DEF defaultMessageCallback
    <3>3. /\ input'[c] = input[c] \o r1
          /\ \A d \in Client : d # c => input'[d] = input[d]
      BY <1>0, <3>2 DEF TypeOK
    <3>4. got[c] \o wire[c] \o output[c] \o (input[c] \o r1) \o r2
            = got[c] \o wire[c] \o output[c] \o input[c] \o (r1 \o r2)
      <4>1. Regrouped(got[c] \o wire[c] \o output[c], input[c], r1, r2)
        BY <1>0, <2>1, StreamType, Regroup
      <4> QED
        BY <4>1 DEF Regrouped
    <3>5. Stream(c)' = Stream(c)
      BY <1>0, <2>1, <2>2, <2>3, <3>2, <3>3, <3>4, Zenon DEF Stream
    <3>6. \A d \in Client : d # c => Stream(d)' = Stream(d)
      BY <1>0, <2>2, <2>3, <3>2, <3>3, Zenon DEF Stream
    <3> QED
      BY <1>0, <3>5, <3>6, SameStreams
  <2>6. CASE ~(n > 0)
    <3>1. input' = input /\ output' = output
      BY <1>2, <2>6 DEF handleRead
    <3>2. n = 0
      BY <1>0, <2>6, ReadCountBounds, StreamType
    <3>3. r2 = rcvq[c]
      BY <1>0, <3>2, StreamType, SubSeqFull
    <3> QED
      BY <1>0, <2>2, <2>3, <3>1, <3>3, SameStreams DEF Stream
  <2> QED
    BY <2>4, <2>5, <2>6
<1> QED
  BY <1>1, <1>2 DEF HandleEventRead, connVars

\* What send takes off the output buffer it puts on the wire.
LEMMA TransmitStream ==
  ASSUME TypeOK, StreamIntact, NEW c \in Client, Transmit(c),
         UNCHANGED <<sent, got, rcvq, input>>
  PROVE  StreamIntact'
<1> DEFINE n == WriteCount(c)
           o1 == SubSeq(output[c], 1, n)
           o2 == SubSeq(output[c], n + 1, Len(output[c]))
<1>1. o1 \in Seq(Nat) /\ o2 \in Seq(Nat) /\ o1 \o o2 = output[c]
  BY WriteCountBounds, StreamType, Split
<1>2. wire' = [wire EXCEPT ![c] = wire[c] \o o1] /\ output' = [output EXCEPT ![c] = o2]
  BY DEF Transmit
<1>3. /\ wire'[c] = wire[c] \o o1 /\ output'[c] = o2
      /\ \A d \in Client : d # c => wire'[d] = wire[d] /\ output'[d] = output[d]
  BY <1>2 DEF TypeOK, KernelTypeOK
<1>4. (got[c] \o (wire[c] \o o1)) \o o2 = (got[c] \o wire[c]) \o (o1 \o o2)
  <2>1. Regrouped(got[c], wire[c], o1, o2)
    BY <1>1, StreamType, Regroup
  <2> QED
    BY <2>1 DEF Regrouped
<1>5. Stream(c)' = Stream(c)
  BY <1>1, <1>3, <1>4, Zenon DEF Stream
<1>6. \A d \in Client : d # c => Stream(d)' = Stream(d)
  BY <1>3, Zenon DEF Stream
<1> QED
  BY <1>5, <1>6, SameStreams

\* handleWrite either transmits or leaves every byte where it is.
LEMMA WriteStream ==
  ASSUME ReactorInv, StreamIntact, NEW c \in Client, HandleEventWrite(c)
  PROVE  StreamIntact'
<1>0. sent' = sent /\ got' = got /\ rcvq' = rcvq /\ input' = input /\ TypeOK
  BY DEF HandleEventWrite, ReactorInv
<1>1. CASE UNCHANGED <<wire, output>>
  BY <1>0, <1>1, SameStreams DEF Stream
<1>2. CASE Transmit(c)
  BY <1>0, <1>2, TransmitStream
<1> QED
  BY <1>1, <1>2 DEF HandleEventWrite, handleWrite

\* Every step keeps the streams.
LEMMA StreamStep == ReactorInv /\ StreamIntact /\ [Next]_vars => StreamIntact'
<1> SUFFICES ASSUME ReactorInv, StreamIntact, [Next]_vars PROVE StreamIntact'
  OBVIOUS
<1>1. ASSUME UNCHANGED <<sent, got, wire, output, input, rcvq>> PROVE StreamIntact'
  BY <1>1 DEF StreamIntact, Stream
<1>2. CASE Poll
  BY <1>1, <1>2 DEF Poll, connVars
<1>3. ASSUME NEW c \in Client, AcceptorHandleRead(c) PROVE StreamIntact'
  BY <1>1, <1>3 DEF AcceptorHandleRead
<1>4. CASE AcceptorHandleReadFails
  BY <1>1, <1>4 DEF AcceptorHandleReadFails, kernelVars, connVars
<1>5. ASSUME NEW c \in Client, HandleEventRead(c) PROVE StreamIntact'
  BY <1>5, ReadStream
<1>6. ASSUME NEW c \in Client, HandleEventWrite(c) PROVE StreamIntact'
  BY <1>6, WriteStream
<1>7. ASSUME NEW c \in Client, SendResumes(c) PROVE StreamIntact'
  BY <1>7, TransmitStream DEF SendResumes, ReactorInv
<1>8. ASSUME NEW c \in Client, SendCut(c) PROVE StreamIntact'
  BY <1>1, <1>8 DEF SendCut, kernelVars, connVars
<1>9. CASE ClientNext /\ UNCHANGED serverVars
  BY <1>9, ClientStream DEF ReactorInv
<1>10. CASE UNCHANGED vars
  BY <1>1, <1>10 DEF vars, kernelVars, serverVars
<1> QED
  BY <1>2, <1>3, <1>4, <1>5, <1>6, <1>7, <1>8, <1>9, <1>10 DEF Next, ServerNext

\* At the start every stream is empty.
LEMMA StreamInit == Init => StreamIntact
<1> SUFFICES ASSUME Init, NEW c \in Client PROVE Stream(c) = [i \in 1..sent[c] |-> i]
  BY DEF StreamIntact
<1>1. /\ got[c] = << >> /\ wire[c] = << >> /\ output[c] = << >> /\ input[c] = << >>
      /\ rcvq[c] = << >> /\ sent[c] = 0
  BY DEF Init, KernelInit
<1>2. Stream(c) = << >>
  BY <1>1 DEF Stream
<1>3. [i \in 1..sent[c] |-> i] = << >>
  BY <1>1
<1> QED
  BY <1>2, <1>3

\* What reaches a client is a prefix of what it sent; the bytes missing are, in
\* order, on the wire, in the output buffer, the input buffer and the kernel.
THEOREM ReactorStreamIntact == Spec => []StreamIntact
  BY ReactorInit, ReactorStep, StreamInit, StreamStep, PTL DEF Spec
-----------------------------------------------------------------------------
(* A connection is dropped only for a reason.                              *)

\* What poll has reported of a channel still holds when its handler runs: only
\* the handler itself takes bytes from the socket.
EventsHold ==
  \A c \in Client : c \in active =>
    /\ "IN" \in revents[c] => Readable(c)
    /\ "PRI" \in revents[c] => urg[c] # "none"
    /\ "HUP" \in revents[c] => peer[c] = "rst"

\* A step that polls nothing, and takes nothing from the sockets whose handler
\* has yet to run.
LEMMA EventsKept ==
  ASSUME EventsHold, active' \subseteq active, revents' = revents,
         \A c \in Client : c \in active' =>
           /\ Readable(c) => Readable(c)'
           /\ urg[c] # "none" => urg'[c] # "none"
           /\ peer[c] = "rst" => peer'[c] = "rst"
  PROVE  EventsHold'
BY DEF EventsHold

\* What a client does leaves a socket readable that was, and takes nothing back.
LEMMA ClientKeeps ==
  ASSUME TypeOK, ClientNext, NEW d \in Client
  PROVE  /\ Readable(d) => Readable(d)'
         /\ urg[d] # "none" => urg'[d] # "none"
         /\ peer[d] = "rst" => peer'[d] = "rst"
<1>1. PICK c \in Client :
        \/ ClientConnect(c) \/ ClientSend(c) \/ ClientSendUrgent(c)
        \/ ClientFinish(c) \/ ClientReset(c) \/ ClientRead(c)
  BY DEF ClientNext
<1>2. /\ peer \in [Client -> {"new", "up", "fin", "rst"}]
      /\ urg \in [Client -> {"none", "queued", "taken"}]
      /\ rcvq \in [Client -> Seq(Nat)] /\ sent \in [Client -> Nat]
  BY DEF TypeOK, KernelTypeOK
<1>3. CASE ClientConnect(c)
  BY <1>2, <1>3 DEF ClientConnect, Readable
<1>4. CASE ClientSend(c)
  <2>1. rcvq' = [rcvq EXCEPT ![c] = Append(rcvq[c], sent[c] + 1)] /\ peer' = peer /\ urg' = urg
    BY <1>4 DEF ClientSend
  <2>2. Append(rcvq[c], sent[c] + 1) # << >>
    <3>1. rcvq[c] \in Seq(Nat) /\ sent[c] + 1 \in Nat
      BY <1>2
    <3> QED
      BY <3>1, AppendProperties
  <2> QED
    BY <1>2, <2>1, <2>2 DEF Readable
<1>5. CASE ClientSendUrgent(c)
  BY <1>2, <1>5 DEF ClientSendUrgent, Readable
<1>6. CASE ClientFinish(c)
  BY <1>2, <1>6 DEF ClientFinish, Readable
<1>7. CASE ClientReset(c)
  BY <1>2, <1>7 DEF ClientReset, Readable
<1>8. CASE ClientRead(c)
  BY <1>2, <1>8 DEF ClientRead, Readable
<1> QED
  BY <1>1, <1>3, <1>4, <1>5, <1>6, <1>7, <1>8

\* The read half of handleEvent touches no other connection's socket.
LEMMA ReadTouchesOne ==
  ASSUME TypeOK, NEW c \in Client, HandleEventRead(c)
  PROVE  /\ \A d \in Client : d # c => rcvq'[d] = rcvq[d] /\ urg'[d] = urg[d] /\ err'[d] = err[d]
         /\ peer' = peer /\ wire' = wire
         /\ \A d \in Client : urg'[d] = "none" <=> urg[d] = "none"
<1>1. /\ urg \in [Client -> {"none", "queued", "taken"}]
      /\ rcvq \in [Client -> Seq(Nat)]
      /\ err \in [Client -> {"none", "reset", "broken"}]
  BY DEF TypeOK, KernelTypeOK
<1>2. CASE UNCHANGED <<peer, rcvq, urg, err, wire>>
  BY <1>2
<1>3. CASE handleRead(c)
  <2>1. PICK q : rcvq' = [rcvq EXCEPT ![c] = q]
    BY <1>3 DEF handleRead
  <2>2. PICK e : err' = [err EXCEPT ![c] = e]
    BY <1>3 DEF handleRead
  <2>3. PICK u : urg' = [urg EXCEPT ![c] = u] /\ (u = urg[c] \/ (u = "taken" /\ urg[c] = "queued"))
    <3>1. PICK b \in BOOLEAN :
            urg' = [urg EXCEPT ![c] = IF urg[c] = "queued" /\ b THEN "taken" ELSE urg[c]]
      <4> DEFINE full == ReadCount(c) = Len(rcvq[c]) /\ ReadCount(c) < Room(c)
      <4>1. urg' = [urg EXCEPT ![c] = IF urg[c] = "queued" /\ full THEN "taken" ELSE urg[c]]
        BY <1>3, Zenon DEF handleRead
      <4> QED
        BY <4>1, Zenon
    <3> QED
      BY <3>1
  <2>4. peer' = peer /\ wire' = wire
    BY <1>3 DEF handleRead
  <2> QED
    BY <1>1, <2>1, <2>2, <2>3, <2>4
<1> QED
  BY <1>2, <1>3 DEF HandleEventRead

LEMMA EventsStep == ReactorInv /\ EventsHold /\ [Next]_vars => EventsHold'
<1> SUFFICES ASSUME ReactorInv, EventsHold, [Next]_vars PROVE EventsHold'
  OBVIOUS
<1>0. TypeOK
  BY DEF ReactorInv
<1>1. ASSUME active' \subseteq active, UNCHANGED <<revents, peer, urg, rcvq>> PROVE EventsHold'
  BY <1>1, EventsKept DEF Readable
<1>2. CASE Poll
  <2>1. PICK S : /\ active' = S
                 /\ revents' = [c \in Client |-> IF c \in S THEN Reported(c) ELSE {}]
    BY <1>2 DEF Poll
  <2>2. UNCHANGED <<peer, urg, rcvq>>
    BY <1>2 DEF Poll
  <2>3. ASSUME NEW c \in Client, c \in S
        PROVE  /\ "IN" \in Reported(c) => Readable(c)
               /\ "PRI" \in Reported(c) => urg[c] # "none"
               /\ "HUP" \in Reported(c) => peer[c] = "rst"
    BY DEF Reported
  <2> QED
    BY <2>1, <2>2, <2>3 DEF EventsHold, Readable
<1>3. ASSUME NEW c \in Client, AcceptorHandleRead(c) PROVE EventsHold'
  BY <1>1, <1>3 DEF AcceptorHandleRead
<1>4. CASE AcceptorHandleReadFails
  BY <1>1, <1>4 DEF AcceptorHandleReadFails, kernelVars
<1>5. ASSUME NEW c \in Client, HandleEventRead(c) PROVE EventsHold'
  <2>1. active' = active \ {c} /\ revents' = revents
    BY <1>5 DEF HandleEventRead
  <2>2. \A d \in Client : d # c => rcvq'[d] = rcvq[d] /\ urg'[d] = urg[d] /\ peer' = peer
    BY <1>0, <1>5, ReadTouchesOne
  <2> QED
    BY <2>1, <2>2, EventsKept DEF Readable
<1>6. ASSUME NEW c \in Client, HandleEventWrite(c) PROVE EventsHold'
  BY <1>1, <1>6 DEF HandleEventWrite
<1>7. ASSUME NEW c \in Client, SendResumes(c) PROVE EventsHold'
  BY <1>1, <1>7 DEF SendResumes
<1>8. ASSUME NEW c \in Client, SendCut(c) PROVE EventsHold'
  BY <1>1, <1>8 DEF SendCut, kernelVars
<1>9. CASE ClientNext /\ UNCHANGED serverVars
  <2>1. active' = active /\ revents' = revents
    BY <1>9 DEF serverVars
  <2> QED
    BY <1>0, <1>9, <2>1, ClientKeeps, EventsKept
<1>10. CASE UNCHANGED vars
  BY <1>1, <1>10 DEF vars, kernelVars, serverVars
<1> QED
  BY <1>2, <1>3, <1>4, <1>5, <1>6, <1>7, <1>8, <1>9, <1>10 DEF Next, ServerNext

LEMMA EventsInit == Init => EventsHold
BY DEF Init, EventsHold

\* readFd returns 0 only when the socket is empty or the buffer is full.
LEMMA ReadNothing ==
  ASSUME TypeOK, NEW c \in Client, ~(ReadCount(c) > 0)
  PROVE  rcvq[c] = << >> \/ Len(input[c]) = InitialSize
<1>1. rcvq[c] \in Seq(Nat) /\ Len(input[c]) \in Nat /\ Len(input[c]) <= InitialSize
  BY StreamType DEF TypeOK
<1>2. Len(rcvq[c]) \in Nat /\ (Len(rcvq[c]) = 0 => rcvq[c] = << >>)
  BY <1>1
<1>3. InitialSize \in Nat
  BY ReactorAssumption
<1> QED
  BY <1>1, <1>2, <1>3 DEF ReadCount, Room

\* The handler drops its connection for a reason.
LEMMA DropCause ==
  ASSUME ReactorInv, EventsHold, NEW c \in Client, HandleEventRead(c), connections_' # connections_
  PROVE  HasLeft(c) \/ Len(input[c]) = InitialSize
<1>0. TypeOK /\ c \in active
  BY DEF ReactorInv, HandleEventRead
<1>1. CASE "HUP" \in revents[c] /\ "IN" \notin revents[c]
  BY <1>0, <1>1 DEF EventsHold, HasLeft
<1>2. CASE ~("HUP" \in revents[c] /\ "IN" \notin revents[c]) /\ revents[c] \cap {"IN", "PRI"} # {}
  <2>1. handleRead(c)
    BY <1>2 DEF HandleEventRead
  <2>2. ~(ReadCount(c) > 0)
    BY <2>1 DEF handleRead
  <2>3. CASE "PRI" \in revents[c]
    BY <1>0, <2>3 DEF EventsHold, HasLeft
  <2>4. CASE "IN" \in revents[c]
    <3>1. Readable(c)
      BY <1>0, <2>4 DEF EventsHold
    <3> QED
      BY <1>0, <2>2, <3>1, ReadNothing DEF Readable, HasLeft
  <2> QED
    BY <1>2, <2>3, <2>4
<1>3. CASE ~("HUP" \in revents[c] /\ "IN" \notin revents[c]) /\ revents[c] \cap {"IN", "PRI"} = {}
  BY <1>3 DEF HandleEventRead, connVars
<1> QED
  BY <1>1, <1>2, <1>3

\* Whatever the callback, the number of clients and the sizes of the buffers:
\* handleClose is called only for a client that has left, or when the callback
\* has let the input buffer fill up.
THEOREM ReactorDropsForCause == Spec => DroppedForCause
<1> DEFINE Cause == \A c \in connections_ \ connections_' : HasLeft(c) \/ Len(input[c]) = InitialSize
<1>1. ReactorInv /\ EventsHold /\ [Next]_vars => [Cause]_vars
  <2> SUFFICES ASSUME ReactorInv, EventsHold, Next PROVE Cause
    OBVIOUS
  <2>1. ASSUME NEW c \in Client, HandleEventRead(c) PROVE Cause
    <3>1. c \in connections_
      BY <2>1, ReactorAssumption DEF HandleEventRead, ReactorInv, LoopState
    <3>2. connections_' = connections_ \/ connections_' = connections_ \ {c}
      BY <2>1 DEF HandleEventRead, handleRead, handleClose, removeConnection, connVars
    <3> QED
      BY <2>1, <3>1, <3>2, DropCause
  <2>2. ASSUME NEW c \in Client, AcceptorHandleRead(c) PROVE Cause
    BY <2>2 DEF AcceptorHandleRead, newConnection
  <2>3. ASSUME connections_' = connections_ PROVE Cause
    BY <2>3
  <2>4. CASE Poll \/ AcceptorHandleReadFails
    BY <2>3, <2>4 DEF Poll, AcceptorHandleReadFails, connVars
  <2>5. ASSUME NEW c \in Client, HandleEventWrite(c) \/ SendResumes(c) \/ SendCut(c) PROVE Cause
    BY <2>3, <2>5 DEF HandleEventWrite, SendResumes, SendCut, connVars
  <2>6. CASE UNCHANGED serverVars
    BY <2>3, <2>6 DEF serverVars
  <2> QED
    BY <2>1, <2>2, <2>4, <2>5, <2>6 DEF Next, ServerNext
<1> QED
  BY <1>1, ReactorInit, ReactorStep, EventsInit, EventsStep, PTL DEF Spec, DroppedForCause
-----------------------------------------------------------------------------
(* Connections that wait for accept, and those that were accepted.         *)

\* A client that waits in the backlog waits once and has not been accepted; for
\* one that has not been accepted the server holds nothing; and a reset leaves
\* an error behind.
Waiting ==
  /\ \A k \in 1..Len(backlog) : conn_state_[backlog[k]] = "none" /\ peer[backlog[k]] # "new"
  /\ \A k, m \in 1..Len(backlog) : backlog[k] = backlog[m] => k = m
  /\ \A c \in Client : peer[c] = "new" => conn_state_[c] = "none"
  /\ \A c \in Client : conn_state_[c] = "none" => wire[c] = << >> /\ output[c] = << >>
  /\ \A c \in Client : peer[c] = "rst" => err[c] # "none"

\* The three things the read half of handleEvent can do.
LEMMA ReadCases ==
  ASSUME ReactorInv, NEW c \in Client, HandleEventRead(c)
  PROVE  /\ c \in connections_ /\ c \in active /\ stage = "dispatch" /\ proc = "running"
         /\ active' = active \ {c} /\ cur' = {c} /\ stage' = "write" /\ backlog' = backlog
         /\ revents' = revents /\ proc' = proc /\ peer' = peer /\ wire' = wire
         /\ cur = {}
         /\ \/ /\ revents[c] \cap {"IN", "PRI"} = {}
               /\ UNCHANGED <<rcvq, urg, err, channels_, events_, epollVars, connVars>>
            \/ handleClose(c) /\ UNCHANGED <<input, output>>
            \/ /\ handleRead(c) /\ ReadCount(c) > 0
               /\ UNCHANGED <<conn_state_, connections_>>
<1>1. /\ c \in active /\ stage = "dispatch" /\ proc = "running"
      /\ active' = active \ {c} /\ cur' = {c} /\ stage' = "write" /\ backlog' = backlog
      /\ revents' = revents /\ proc' = proc
  BY DEF HandleEventRead
<1>2. c \in connections_ /\ cur = {}
  BY <1>1, ReactorAssumption DEF ReactorInv, LoopState
<1>3. peer' = peer /\ wire' = wire
  BY ReadTouchesOne DEF ReactorInv
<1>4. CASE handleRead(c)
  <2>1. CASE ReadCount(c) > 0
    BY <1>1, <1>2, <1>3, <1>4, <2>1 DEF handleRead
  <2>2. CASE ~(ReadCount(c) > 0)
    BY <1>1, <1>2, <1>3, <1>4, <2>2 DEF handleRead
  <2> QED
    BY <2>1, <2>2
<1>5. CASE handleClose(c) /\ UNCHANGED <<input, output>>
  BY <1>1, <1>2, <1>3, <1>5
<1>6. CASE /\ revents[c] \cap {"IN", "PRI"} = {}
           /\ UNCHANGED <<rcvq, urg, err, channels_, events_, epollVars, connVars>>
  BY <1>1, <1>2, <1>3, <1>6
<1>7. handleRead(c) \/ (handleClose(c) /\ UNCHANGED <<input, output>>)
      \/ (/\ revents[c] \cap {"IN", "PRI"} = {}
          /\ UNCHANGED <<rcvq, urg, err, channels_, events_, epollVars, connVars>>)
  BY DEF HandleEventRead
<1> QED
  BY <1>4, <1>5, <1>6, <1>7

\* The three things the write half can do.
LEMMA WriteCases ==
  ASSUME ReactorInv, NEW c \in Client, HandleEventWrite(c)
  PROVE  /\ proc = "running" /\ stage = "write" /\ cur = {c} /\ c \notin active
         /\ cur' \subseteq {c}
         /\ UNCHANGED <<peer, rcvq, backlog, active, revents, conn_state_, connections_, input>>
         /\ \/ /\ ~("OUT" \in revents[c] /\ isWriting(c)) /\ cur' = {}
               /\ UNCHANGED <<err, wire, output, events_, epollVars>>
            \/ /\ "OUT" \in revents[c] /\ isWriting(c) /\ peer[c] = "rst" /\ cur' = {}
               /\ err' = [err EXCEPT ![c] = "broken"]
               /\ proc' = IF err[c] = "reset" THEN "running" ELSE "killed"
               /\ UNCHANGED <<wire, output, events_, epollVars>>
            \/ /\ isWriting(c) /\ peer[c] # "rst" /\ Transmit(c) /\ UNCHANGED err
<1>1. /\ proc = "running" /\ stage = "write" /\ cur = {c}
      /\ UNCHANGED <<peer, rcvq, backlog, active, revents, conn_state_, connections_, input>>
      /\ (Blocks(c) /\ cur' = cur) \/ (~Blocks(c) /\ cur' = {})
  BY DEF HandleEventWrite, EventEnds
<1>2. c \notin active
  BY <1>1 DEF ReactorInv, LoopState
<1>3. CASE ~("OUT" \in revents[c] /\ isWriting(c))
  <2>1. UNCHANGED <<err, wire, output, events_, epollVars>>
    BY <1>3 DEF HandleEventWrite, handleWrite
  <2> QED
    BY <1>1, <1>2, <1>3, <2>1 DEF Blocks
<1>4. CASE "OUT" \in revents[c] /\ isWriting(c) /\ peer[c] = "rst"
  <2>1. /\ err' = [err EXCEPT ![c] = "broken"]
        /\ proc' = IF err[c] = "reset" THEN "running" ELSE "killed"
        /\ UNCHANGED <<wire, output, events_, epollVars>>
    BY <1>4 DEF HandleEventWrite, handleWrite
  <2> QED
    BY <1>1, <1>2, <1>4, <2>1 DEF Blocks
<1>5. CASE "OUT" \in revents[c] /\ isWriting(c) /\ peer[c] # "rst"
  <2>1. Transmit(c) /\ UNCHANGED err
    BY <1>5 DEF HandleEventWrite, handleWrite
  <2> QED
    BY <1>1, <1>2, <1>5, <2>1
<1> QED
  BY <1>3, <1>4, <1>5

\* handleRead with bytes to take changes the buffers of its connection only,
\* and leaves the kernel either empty or without the error of a reset.
LEMMA ReadOne ==
  ASSUME TypeOK, NEW c \in Client, handleRead(c), ReadCount(c) > 0
  PROVE  /\ \A d \in Client : d # c => input'[d] = input[d] /\ output'[d] = output[d]
         /\ rcvq'[c] # << >> \/ err'[c] # "reset"
         /\ err'[c] = err[c] \/ err'[c] = "broken"
         /\ MessageCallback = "echo" => input' = [input EXCEPT ![c] = << >>]
<1>1. /\ err \in [Client -> {"none", "reset", "broken"}] /\ rcvq \in [Client -> Seq(Nat)]
      /\ input \in [Client -> Seq(Nat)] /\ output \in [Client -> Seq(Nat)]
  BY DEF TypeOK, KernelTypeOK
<1>2. \A d \in Client : d # c => input'[d] = input[d] /\ output'[d] = output[d]
  BY <1>1 DEF handleRead, onMessage, sendInLoop, defaultMessageCallback
<1>3. MessageCallback = "echo" => input' = [input EXCEPT ![c] = << >>]
  BY DEF handleRead, onMessage
<1>4. ReadCount(c) \in 0..Len(rcvq[c]) /\ rcvq[c] \in Seq(Nat) /\ Len(rcvq[c]) \in Nat
  BY <1>1, ReadCountBounds
<1>5. CASE ReadCount(c) = Len(rcvq[c])
  <2>1. err' = [err EXCEPT ![c] = IF err[c] = "reset" THEN "broken" ELSE err[c]]
    BY <1>5 DEF handleRead
  <2> QED
    BY <1>1, <1>2, <1>3, <2>1
<1>6. CASE ReadCount(c) # Len(rcvq[c])
  <2>1. err' = [err EXCEPT ![c] = err[c]]
    BY <1>6 DEF handleRead
  <2>2. rcvq' = [rcvq EXCEPT ![c] = SubSeq(rcvq[c], ReadCount(c) + 1, Len(rcvq[c]))]
    BY DEF handleRead
  <2>3. SubSeq(rcvq[c], ReadCount(c) + 1, Len(rcvq[c])) # << >>
    <3>1. ReadCount(c) \in 0..(Len(rcvq[c]) - 1)
      BY <1>4, <1>6
    <3> QED
      BY <1>4, <3>1, RestLength
  <2> QED
    BY <1>1, <1>2, <1>3, <2>1, <2>2, <2>3
<1> QED
  BY <1>5, <1>6

\* send moves bytes of its connection only.
LEMMA TransmitOne ==
  ASSUME TypeOK, NEW c \in Client, Transmit(c)
  PROVE  /\ peer' = peer /\ rcvq' = rcvq /\ urg' = urg
         /\ \A d \in Client : d # c => wire'[d] = wire[d] /\ output'[d] = output[d]
<1>1. output \in [Client -> Seq(Nat)] /\ wire \in [Client -> Seq(Nat)]
  BY DEF TypeOK, KernelTypeOK
<1>2. PICK w, o : wire' = [wire EXCEPT ![c] = w] /\ output' = [output EXCEPT ![c] = o]
  BY DEF Transmit
<1> QED
  BY <1>1, <1>2 DEF Transmit

\* Only a client of connections_ has its state, its output or its wire changed
\* by a handler.
LEMMA WaitingKept ==
  ASSUME ReactorInv, Waiting, NEW c \in connections_, UNCHANGED <<peer, backlog>>,
         \A d \in Client : d # c => /\ conn_state_'[d] = conn_state_[d] /\ wire'[d] = wire[d]
                                    /\ output'[d] = output[d] /\ err'[d] = err[d],
         conn_state_'[c] # "none",
         err[c] # "none" => err'[c] # "none"
  PROVE  Waiting'
<1>1. c \in Client /\ conn_state_[c] # "none"
  BY DEF ReactorInv, TypeOK, Registration
<1>2. \A k \in 1..Len(backlog) : backlog[k] \in Client /\ backlog[k] # c
  <2>1. backlog \in Seq(Client)
    BY DEF ReactorInv, TypeOK, KernelTypeOK
  <2>2. \A k \in 1..Len(backlog) : backlog[k] \in Client
    BY <2>1, ElementOfSeq
  <2>3. \A k \in 1..Len(backlog) : conn_state_[backlog[k]] = "none"
    BY DEF Waiting
  <2> QED
    BY <1>1, <2>2, <2>3
<1>3. \A k \in 1..Len(backlog') : conn_state_'[backlog'[k]] = "none" /\ peer'[backlog'[k]] # "new"
  BY <1>2 DEF Waiting
<1>4. \A d \in Client : peer'[d] = "new" => conn_state_'[d] = "none"
  BY <1>1 DEF Waiting
<1>5. \A d \in Client : conn_state_'[d] = "none" => wire'[d] = << >> /\ output'[d] = << >>
  BY <1>1 DEF Waiting
<1>6. \A d \in Client : peer'[d] = "rst" => err'[d] # "none"
  BY <1>1 DEF Waiting
<1> QED
  BY <1>3, <1>4, <1>5, <1>6 DEF Waiting

LEMMA WaitingClient ==
  ASSUME ReactorInv, Waiting, ClientNext, UNCHANGED serverVars
  PROVE  Waiting'
<1>1. PICK c \in Client :
        \/ ClientConnect(c) \/ ClientSend(c) \/ ClientSendUrgent(c)
        \/ ClientFinish(c) \/ ClientReset(c) \/ ClientRead(c)
  BY DEF ClientNext
<1>2. /\ peer \in [Client -> {"new", "up", "fin", "rst"}] /\ wire \in [Client -> Seq(Nat)]
      /\ err \in [Client -> {"none", "reset", "broken"}] /\ backlog \in Seq(Client)
      /\ conn_state_' = conn_state_ /\ output' = output
  BY DEF ReactorInv, TypeOK, KernelTypeOK, serverVars
<1>3. CASE ClientConnect(c)
  <2>1. /\ peer[c] = "new" /\ peer' = [peer EXCEPT ![c] = "up"] /\ backlog' = Append(backlog, c)
        /\ UNCHANGED <<wire, err>>
    BY <1>3 DEF ClientConnect
  <2>2. /\ Len(backlog') = Len(backlog) + 1 /\ Len(backlog) \in Nat /\ backlog'[Len(backlog) + 1] = c
        /\ \A k \in 1..Len(backlog) : backlog'[k] = backlog[k] /\ backlog[k] \in Client
    BY <1>2, <2>1, AppendProperties, ElementOfSeq
  <2>3. \A k \in 1..Len(backlog) : backlog[k] # c
    BY <2>1 DEF Waiting
  <2>4. \A d \in Client : (peer'[d] = "new" => peer[d] = "new") /\ (peer'[d] = "rst" => peer[d] = "rst")
    BY <1>2, <2>1
  <2>5. \A k \in 1..Len(backlog') : k \in 1..Len(backlog) \/ k = Len(backlog) + 1
    BY <2>2
  <2>6. conn_state_[c] = "none" /\ peer'[c] # "new"
    BY <1>2, <2>1 DEF Waiting
  <2>7. \A k \in 1..Len(backlog') : conn_state_'[backlog'[k]] = "none" /\ peer'[backlog'[k]] # "new"
    <3> SUFFICES ASSUME NEW k \in 1..Len(backlog')
                 PROVE  conn_state_[backlog'[k]] = "none" /\ peer'[backlog'[k]] # "new"
      BY <1>2
    <3>1. CASE k \in 1..Len(backlog)
      <4>1. backlog'[k] = backlog[k] /\ backlog[k] \in Client
        BY <2>2, <3>1
      <4>2. conn_state_[backlog[k]] = "none" /\ peer[backlog[k]] # "new"
        BY <3>1 DEF Waiting
      <4> QED
        BY <2>4, <4>1, <4>2
    <3>2. CASE k = Len(backlog) + 1
      BY <2>2, <2>6, <3>2
    <3> QED
      BY <2>5, <3>1, <3>2
  <2>8. \A k, m \in 1..Len(backlog') : backlog'[k] = backlog'[m] => k = m
    BY <2>2, <2>3, <2>5 DEF Waiting
  <2> QED
    BY <1>2, <2>1, <2>4, <2>7, <2>8 DEF Waiting
<1>4. CASE ~ClientConnect(c)
  <2>1. backlog' = backlog
    BY <1>1, <1>4 DEF ClientSend, ClientSendUrgent, ClientFinish, ClientReset, ClientRead
  <2>2. \A d \in Client : peer'[d] = "new" <=> peer[d] = "new"
    <3>1. peer' = peer \/ (peer[c] # "new" /\ \E p \in {"fin", "rst"} : peer' = [peer EXCEPT ![c] = p])
      BY <1>1, <1>4 DEF ClientSend, ClientSendUrgent, ClientFinish, ClientReset, ClientRead
    <3> QED
      BY <1>2, <3>1
  <2>3. \A d \in Client : conn_state_[d] = "none" => wire'[d] = << >>
    <3>1. CASE ClientRead(c)
      <4>1. wire[c] # << >> /\ wire' = [wire EXCEPT ![c] = Tail(wire[c])]
        BY <3>1 DEF ClientRead
      <4> QED
        BY <1>2, <4>1 DEF Waiting
    <3>2. CASE ~ClientRead(c)
      <4>1. wire' = wire
        BY <1>1, <1>4, <3>2 DEF ClientSend, ClientSendUrgent, ClientFinish, ClientReset
      <4> QED
        BY <4>1 DEF Waiting
    <3> QED
      BY <3>1, <3>2
  <2>4. \A d \in Client : peer'[d] = "rst" => err'[d] # "none"
    <3>1. CASE ClientReset(c)
      <4>1. PICK e \in {"reset", "broken"} :
              err' = [err EXCEPT ![c] = e] /\ peer' = [peer EXCEPT ![c] = "rst"]
        BY <3>1 DEF ClientReset
      <4> QED
        BY <1>2, <4>1 DEF Waiting
    <3>2. CASE ~ClientReset(c)
      <4>1. err' = err /\ (peer' = peer \/ peer' = [peer EXCEPT ![c] = "fin"])
        BY <1>1, <1>4, <3>2 DEF ClientSend, ClientSendUrgent, ClientFinish, ClientRead
      <4> QED
        BY <1>2, <4>1 DEF Waiting
    <3> QED
      BY <3>1, <3>2
  <2>5. \A k \in 1..Len(backlog) : backlog[k] \in Client
    BY <1>2, ElementOfSeq
  <2>6. \A k \in 1..Len(backlog') : conn_state_'[backlog'[k]] = "none" /\ peer'[backlog'[k]] # "new"
    BY <1>2, <2>1, <2>2, <2>5 DEF Waiting
  <2> QED
    BY <1>2, <2>1, <2>2, <2>3, <2>4, <2>6 DEF Waiting
<1> QED
  BY <1>3, <1>4

LEMMA WaitingStep == ReactorInv /\ Waiting /\ [Next]_vars => Waiting'
<1> SUFFICES ASSUME ReactorInv, Waiting, [Next]_vars PROVE Waiting'
  OBVIOUS
<1>0. TypeOK /\ \A c \in connections_ : c \in Client /\ conn_state_[c] = "kConnected"
  BY DEF ReactorInv, TypeOK, Registration
<1>1. ASSUME UNCHANGED <<peer, backlog, conn_state_, wire, output, err>> PROVE Waiting'
  BY <1>1 DEF Waiting
<1>2. CASE Poll
  BY <1>1, <1>2 DEF Poll, connVars
<1>3. ASSUME NEW c \in Client, AcceptorHandleRead(c) PROVE Waiting'
  <2>1. /\ Listener \in active /\ c = Head(backlog) /\ backlog' = Tail(backlog)
        /\ conn_state_' = [conn_state_ EXCEPT ![c] = "kConnected"]
        /\ UNCHANGED <<peer, wire, err, output>>
    BY <1>3 DEF AcceptorHandleRead, newConnection, connectEstablished
  <2>2. backlog \in Seq(Client) /\ backlog # << >>
    BY <2>1 DEF ReactorInv, TypeOK, KernelTypeOK, LoopState
  <2>3. /\ Len(backlog') = Len(backlog) - 1 /\ Len(backlog) \in Nat \ {0} /\ c = backlog[1]
        /\ \A k \in 1..Len(backlog') : backlog'[k] = backlog[k + 1]
    BY <2>1, <2>2, HeadTailProperties, EmptySeq
  <2>4. \A k \in 1..Len(backlog') : k + 1 \in 1..Len(backlog) /\ backlog[k + 1] # c
    BY <2>3 DEF Waiting
  <2>5. conn_state_ \in [Client -> {"none", "kConnected", "kDisconnected"}]
    BY <1>0 DEF TypeOK
  <2>6. \A k \in 1..Len(backlog) : backlog[k] \in Client
    BY <2>2, ElementOfSeq
  <2>7. \A k \in 1..Len(backlog') : conn_state_'[backlog'[k]] = "none" /\ peer'[backlog'[k]] # "new"
    <3> SUFFICES ASSUME NEW k \in 1..Len(backlog')
                 PROVE  conn_state_'[backlog[k + 1]] = "none" /\ peer[backlog[k + 1]] # "new"
      BY <2>1, <2>3
    <3>1. k + 1 \in 1..Len(backlog) /\ backlog[k + 1] # c /\ backlog[k + 1] \in Client
      BY <2>4, <2>6
    <3>2. conn_state_[backlog[k + 1]] = "none" /\ peer[backlog[k + 1]] # "new"
      BY <3>1 DEF Waiting
    <3> QED
      BY <2>1, <2>5, <3>1, <3>2
  <2>8. \A k, m \in 1..Len(backlog') : backlog'[k] = backlog'[m] => k = m
    <3> SUFFICES ASSUME NEW k \in 1..Len(backlog'), NEW m \in 1..Len(backlog'),
                        backlog[k + 1] = backlog[m + 1]
                 PROVE  k = m
      BY <2>3
    <3>1. k + 1 = m + 1
      BY <2>4 DEF Waiting
    <3> QED
      BY <2>3, <3>1
  <2>9. peer[c] # "new"
    <3>1. 1 \in 1..Len(backlog)
      BY <2>3
    <3> QED
      BY <2>3, <3>1 DEF Waiting
  <2>10. /\ \A d \in Client : peer'[d] = "new" => conn_state_'[d] = "none"
         /\ \A d \in Client : conn_state_'[d] = "none" => wire'[d] = << >> /\ output'[d] = << >>
         /\ \A d \in Client : peer'[d] = "rst" => err'[d] # "none"
    BY <2>1, <2>5, <2>9 DEF Waiting
  <2> QED
    BY <2>7, <2>8, <2>10 DEF Waiting
<1>4. CASE AcceptorHandleReadFails
  BY <1>1, <1>4 DEF AcceptorHandleReadFails, kernelVars, connVars
<1>5. ASSUME NEW c \in Client, HandleEventRead(c) PROVE Waiting'
  <2>1. /\ c \in connections_ /\ UNCHANGED <<peer, backlog, wire>>
        /\ \A d \in Client : d # c => err'[d] = err[d]
    BY <1>0, <1>5, ReadCases, ReadTouchesOne
  <2>2. CASE UNCHANGED <<rcvq, urg, err, channels_, events_, epollVars, connVars>>
    BY <1>1, <2>1, <2>2 DEF connVars
  <2>3. CASE handleClose(c) /\ UNCHANGED <<input, output>>
    <3>1. conn_state_' = [conn_state_ EXCEPT ![c] = "kDisconnected"] /\ output' = output
      BY <2>3 DEF handleClose
    <3>2. conn_state_ \in [Client -> {"none", "kConnected", "kDisconnected"}]
      BY <1>0 DEF TypeOK
    <3>3. err[c] # "none" => err'[c] # "none"
      <4>1. err \in [Client -> {"none", "reset", "broken"}]
        BY <1>0 DEF TypeOK, KernelTypeOK
      <4>2. err' = err \/ \E e \in {err[c], "broken"} : err' = [err EXCEPT ![c] = e]
        BY <1>5 DEF HandleEventRead, handleRead
      <4> QED
        BY <4>1, <4>2
    <3> QED
      BY <2>1, <3>1, <3>2, <3>3, WaitingKept
  <2>4. CASE handleRead(c) /\ ReadCount(c) > 0 /\ UNCHANGED <<conn_state_, connections_>>
    <3>1. /\ \A d \in Client : d # c => output'[d] = output[d]
          /\ err'[c] = err[c] \/ err'[c] = "broken"
      BY <1>0, <2>4, ReadOne
    <3>2. conn_state_'[c] # "none"
      BY <1>0, <2>1, <2>4
    <3> QED
      BY <2>1, <2>4, <3>1, <3>2, WaitingKept
  <2> QED
    BY <1>5, <2>2, <2>3, <2>4, ReadCases
<1>6. ASSUME NEW c \in connections_, Transmit(c), UNCHANGED <<err, backlog, conn_state_>> PROVE Waiting'
  <2>1. peer' = peer /\ \A d \in Client : d # c => wire'[d] = wire[d] /\ output'[d] = output[d]
    BY <1>0, <1>6, TransmitOne
  <2> QED
    BY <1>0, <1>6, <2>1, WaitingKept
<1>7. ASSUME NEW c \in Client, HandleEventWrite(c) PROVE Waiting'
  <2>1. UNCHANGED <<peer, backlog, conn_state_>> /\ (isWriting(c) => c \in connections_)
    BY <1>7, WriteCases DEF ReactorInv, Registration, isWriting
  <2>2. CASE UNCHANGED <<err, wire, output, events_, epollVars>>
    BY <1>1, <2>1, <2>2
  <2>3. CASE isWriting(c) /\ err' = [err EXCEPT ![c] = "broken"] /\ UNCHANGED <<wire, output, events_, epollVars>>
    <3>1. err \in [Client -> {"none", "reset", "broken"}]
      BY <1>0 DEF TypeOK, KernelTypeOK
    <3> QED
      BY <1>0, <2>1, <2>3, <3>1, WaitingKept
  <2>4. CASE isWriting(c) /\ Transmit(c) /\ UNCHANGED err
    BY <1>6, <2>1, <2>4
  <2> QED
    BY <1>7, <2>2, <2>3, <2>4, WriteCases
<1>8. ASSUME NEW c \in Client, SendResumes(c) PROVE Waiting'
  <2>1. c \in connections_
    BY <1>8 DEF SendResumes, ReactorInv, LoopState
  <2> QED
    BY <1>6, <1>8, <2>1 DEF SendResumes
<1>9. ASSUME NEW c \in Client, SendCut(c) PROVE Waiting'
  BY <1>1, <1>9 DEF SendCut, kernelVars, connVars
<1>10. CASE ClientNext /\ UNCHANGED serverVars
  BY <1>10, WaitingClient
<1>11. CASE UNCHANGED vars
  BY <1>1, <1>11 DEF vars, kernelVars, serverVars
<1> QED
  BY <1>2, <1>3, <1>4, <1>5, <1>7, <1>8, <1>9, <1>10, <1>11 DEF Next, ServerNext

LEMMA WaitingInit == Init => Waiting
<1> SUFFICES ASSUME Init PROVE Waiting
  OBVIOUS
<1>1. Len(backlog) = 0
  BY DEF Init, KernelInit
<1> QED
  BY <1>1 DEF Init, KernelInit, Waiting
-----------------------------------------------------------------------------
(* No wakeup is lost by the echo server.                                   *)

\* The echo callback leaves nothing in an input buffer.
Emptied == \A c \in Client : input[c] = << >>

\* EPOLLOUT is asked for exactly while there is output.
Asked(c) == isWriting(c) <=> output[c] # << >>

\* Something to read is on the ready list or was reported, or the connection
\* waits to write, after which it will be registered anew.
ReadComes(c) ==
  Readable(c) => \/ c \in armed
                 \/ c \in active /\ "IN" \in revents[c]
                 \/ c \notin active /\ isWriting(c)

\* Room for output is on the ready list or was reported, but for a connection
\* that handleWrite has stranded.
WriteComes(c) ==
  isWriting(c) /\ Writable(c) =>
    \/ c \in armed
    \/ c \in active \cup cur /\ "OUT" \in revents[c]
    \/ c \notin active \cup cur /\ Stranded(c)

\* Of a reset the handler that is running has been told, or will be told again.
ResetComes(c) ==
  c \in cur /\ peer[c] = "rst" /\ c \notin armed =>
    stage = "write" /\ (err[c] = "broken" \/ rcvq[c] # << >>)

Awake(c) == Asked(c) /\ ReadComes(c) /\ WriteComes(c) /\ ResetComes(c)

AllAwake == proc = "running" => \A c \in connections_ : Awake(c)

\* A connection that a step does not touch; it may be put on the ready list.
LEMMA AwakeKept ==
  ASSUME NEW d \in Client, Awake(d),
         peer'[d] = peer[d], err'[d] = err[d], rcvq'[d] = rcvq[d], wire'[d] = wire[d],
         output'[d] = output[d], events_'[d] = events_[d], revents'[d] = revents[d],
         d \in armed => d \in armed', d \in active' <=> d \in active, d \notin cur, d \notin cur'
  PROVE  Awake(d)'
<1>1. /\ Readable(d)' = Readable(d) /\ Writable(d)' = Writable(d)
      /\ isWriting(d)' = isWriting(d) /\ Stranded(d)' = Stranded(d)
  BY DEF Readable, Writable, isWriting, Stranded
<1>2. Asked(d)'
  BY <1>1 DEF Awake, Asked
<1>3. ReadComes(d)'
  BY <1>1 DEF Awake, ReadComes
<1>4. WriteComes(d)'
  BY <1>1 DEF Awake, WriteComes
<1>5. ResetComes(d)'
  BY DEF ResetComes
<1> QED
  BY <1>2, <1>3, <1>4, <1>5 DEF Awake

\* A connection on the ready list is awake.
LEMMA ArmedIsAwake ==
  ASSUME NEW c \in Client, c \in armed', Asked(c)'
  PROVE  Awake(c)'
BY DEF Awake, ReadComes, WriteComes, ResetComes

\* Registering a connection puts it on the ready list if there is something.
LEMMA SetArms ==
  ASSUME TypeOK, NEW c \in Client, NEW ev, ev # {}, updateChannel(c, ev)
  PROVE  /\ events_'[c] = ev
         /\ \A d \in Client : d # c => events_'[d] = events_[d]
         /\ armed \subseteq armed'
         /\ "IN" \in ev /\ Readable(c)' => c \in armed'
         /\ "OUT" \in ev /\ Writable(c)' => c \in armed'
<1>1. events_ \in [Client -> SUBSET {"IN", "OUT"}] /\ interest \in [Client -> SUBSET {"IN", "OUT"}]
  BY DEF TypeOK, KernelTypeOK
<1>2. events_' = [events_ EXCEPT ![c] = ev] /\ EpollSet(c, ev)
  BY DEF updateChannel
<1>3. interest'[c] = ev
  BY <1>1, <1>2 DEF EpollSet
<1>4. armed' = IF Reported(c)' # {} THEN armed \cup {c} ELSE armed
  BY <1>2 DEF EpollSet
<1>5. "IN" \in ev /\ Readable(c)' => "IN" \in Reported(c)'
  BY <1>3 DEF Reported
<1>6. "OUT" \in ev /\ Writable(c)' => "OUT" \in Reported(c)'
  BY <1>3 DEF Reported
<1> QED
  BY <1>1, <1>2, <1>4, <1>5, <1>6

\* Only the echo callback and nothing else changes an input buffer.
LEMMA EmptiedStep ==
  ASSUME MessageCallback = "echo"
  PROVE  ReactorInv /\ Emptied /\ [Next]_vars => Emptied'
<1> SUFFICES ASSUME ReactorInv, Emptied, [Next]_vars PROVE Emptied'
  OBVIOUS
<1>1. ASSUME input' = input PROVE Emptied'
  BY <1>1 DEF Emptied
<1>2. CASE Poll \/ AcceptorHandleReadFails
  BY <1>1, <1>2 DEF Poll, AcceptorHandleReadFails, connVars
<1>3. ASSUME NEW c \in Client, AcceptorHandleRead(c) PROVE Emptied'
  BY <1>1, <1>3 DEF AcceptorHandleRead
<1>4. ASSUME NEW c \in Client, HandleEventRead(c) PROVE Emptied'
  <2>1. CASE handleRead(c) /\ ReadCount(c) > 0
    <3>1. input' = [input EXCEPT ![c] = << >>]
      BY <2>1, ReadOne DEF ReactorInv
    <3> QED
      BY <3>1 DEF Emptied, ReactorInv, TypeOK
  <2>2. CASE input' = input
    BY <1>1, <2>2
  <2> QED
    BY <1>4, <2>1, <2>2, ReadCases DEF connVars
<1>5. ASSUME NEW c \in Client, HandleEventWrite(c) \/ SendResumes(c) \/ SendCut(c) PROVE Emptied'
  BY <1>1, <1>5 DEF HandleEventWrite, SendResumes, SendCut, connVars
<1>6. CASE UNCHANGED serverVars
  BY <1>1, <1>6 DEF serverVars
<1> QED
  BY <1>2, <1>3, <1>4, <1>5, <1>6 DEF Next, ServerNext, vars

\* What a client does to its socket puts it on the ready list, but for reading
\* from a wire that was not full.
LEMMA AwakeClient ==
  ASSUME ReactorInv, Waiting, AllAwake, ClientNext, UNCHANGED serverVars
  PROVE  AllAwake'
<1> SUFFICES ASSUME proc = "running", NEW d \in connections_ PROVE Awake(d)'
  BY DEF AllAwake, serverVars
<1>0. /\ d \in Client /\ d \in epset /\ Awake(d) /\ interest = events_
      /\ peer \in [Client -> {"new", "up", "fin", "rst"}] /\ wire \in [Client -> Seq(Nat)]
      /\ err \in [Client -> {"none", "reset", "broken"}] /\ rcvq \in [Client -> Seq(Nat)]
      /\ UNCHANGED <<output, events_, revents, active, cur, stage>>
  BY DEF AllAwake, ReactorInv, TypeOK, KernelTypeOK, Registration, serverVars
<1>1. PICK c \in Client :
        \/ ClientConnect(c) \/ ClientSend(c) \/ ClientSendUrgent(c)
        \/ ClientFinish(c) \/ ClientReset(c) \/ ClientRead(c)
  BY DEF ClientNext
<1>2. armed \subseteq armed' /\ Asked(d)'
  <2>1. armed \subseteq armed'
    BY <1>1 DEF ClientConnect, ClientSend, ClientSendUrgent, ClientFinish, ClientReset,
                ClientRead, Edge, epollVars
  <2> QED
    BY <1>0, <2>1 DEF Awake, Asked, isWriting
<1>3. CASE d # c
  <2>1. /\ peer'[d] = peer[d] /\ err'[d] = err[d] /\ rcvq'[d] = rcvq[d] /\ wire'[d] = wire[d]
    BY <1>0, <1>1, <1>3 DEF ClientConnect, ClientSend, ClientSendUrgent, ClientFinish, ClientReset, ClientRead
  <2>2. Readable(d)' = Readable(d) /\ Writable(d)' = Writable(d)
        /\ isWriting(d)' = isWriting(d) /\ Stranded(d)' = Stranded(d)
    BY <1>0, <2>1 DEF Readable, Writable, isWriting, Stranded
  <2>3. ReadComes(d)' /\ WriteComes(d)' /\ ResetComes(d)'
    BY <1>0, <1>2, <2>1, <2>2 DEF Awake, ReadComes, WriteComes, ResetComes
  <2> QED
    BY <1>2, <2>3 DEF Awake
<1>4. CASE d = c /\ (ClientSend(c) \/ ClientSendUrgent(c) \/ ClientFinish(c) \/ ClientReset(c))
  <2>1. d \in armed'
    BY <1>0, <1>4 DEF ClientSend, ClientSendUrgent, ClientFinish, ClientReset, Edge
  <2> QED
    BY <1>0, <1>2, <2>1, ArmedIsAwake
<1>5. CASE d = c /\ ClientConnect(c)
  <2>1. peer[d] # "new"
    BY <1>0 DEF Waiting, ReactorInv, Registration
  <2> QED
    BY <1>5, <2>1 DEF ClientConnect
<1>6. CASE d = c /\ ClientRead(c)
  <2>1. /\ peer' = peer /\ peer[d] # "rst" /\ rcvq' = rcvq /\ err' = err /\ wire[d] # << >>
        /\ wire' = [wire EXCEPT ![d] = Tail(wire[d])]
        /\ armed' = IF Len(wire[d]) = SndBuf /\ "OUT" \in interest[d] THEN armed \cup {d} ELSE armed
    BY <1>0, <1>6 DEF ClientRead, Edge
  <2>2. isWriting(d)' = isWriting(d) /\ Readable(d)' = Readable(d) /\ ("OUT" \in interest[d] <=> isWriting(d))
    BY <1>0, <2>1 DEF isWriting, Readable
  <2>3. ReadComes(d)'
    BY <1>0, <1>2, <2>2 DEF Awake, ReadComes
  <2>4. WriteComes(d)'
    <3>1. CASE Len(wire[d]) = SndBuf
      BY <2>1, <2>2, <3>1 DEF WriteComes
    <3>2. CASE Len(wire[d]) # SndBuf
      <4>1. Writable(d)
        <5>1. Len(wire[d]) <= SndBuf /\ Len(wire[d]) \in Nat /\ SndBuf \in Nat
          BY <1>0, SocketsAssumption DEF ReactorInv, TypeOK, KernelTypeOK
        <5> QED
          BY <3>2, <5>1 DEF Writable
      <4>2. ~Stranded(d)
        BY <2>1 DEF Stranded
      <4> QED
        BY <1>0, <1>2, <2>2, <4>1, <4>2 DEF Awake, WriteComes
    <3> QED
      BY <3>1, <3>2
  <2>5. ResetComes(d)'
    BY <2>1 DEF ResetComes
  <2> QED
    BY <1>2, <2>3, <2>4, <2>5 DEF Awake
<1> QED
  BY <1>1, <1>3, <1>4, <1>5, <1>6

\* Poll reports a socket of the ready list or leaves it there.
LEMMA AwakePoll ==
  ASSUME ReactorInv, AllAwake, Poll
  PROVE  AllAwake'
<1>0. /\ proc = "running" /\ active = {} /\ cur = {} /\ cur' = cur
      /\ UNCHANGED <<peer, err, rcvq, wire, output, events_, connections_>>
  BY DEF Poll, connVars, ReactorInv, LoopState
<1>1. PICK S \in SUBSET Pending :
        /\ active' = S
        /\ revents' = [c \in Client |-> IF c \in S THEN Reported(c) ELSE {}]
        /\ armed' = {c \in armed : Reported(c) # {}} \ S
  BY DEF Poll
<1> SUFFICES ASSUME NEW d \in connections_ PROVE Awake(d)'
  BY <1>0 DEF AllAwake
<1>2. d \in Client /\ d # Listener /\ Awake(d) /\ "IN" \in events_[d] /\ interest = events_
  BY <1>0, ReactorAssumption DEF AllAwake, ReactorInv, TypeOK, Registration
<1>3. d \in S => d \in armed
  BY <1>2 DEF Pending
<1>4. d \in armed /\ Reported(d) # {} => d \in armed' \/ (d \in active' /\ revents'[d] = Reported(d))
  BY <1>1, <1>2
<1>5. /\ Readable(d)' = Readable(d) /\ Writable(d)' = Writable(d)
      /\ isWriting(d)' = isWriting(d) /\ Stranded(d)' = Stranded(d)
  BY <1>0 DEF Readable, Writable, isWriting, Stranded
<1>6. Asked(d)'
  BY <1>0, <1>2, <1>5 DEF Awake, Asked
<1>7. ReadComes(d)'
  <2>1. Readable(d) => "IN" \in Reported(d)
    BY <1>2 DEF Reported
  <2> QED
    BY <1>0, <1>1, <1>2, <1>3, <1>4, <1>5, <2>1 DEF Awake, ReadComes
<1>8. WriteComes(d)'
  <2>1. isWriting(d) /\ Writable(d) => "OUT" \in Reported(d)
    BY <1>2 DEF Reported, isWriting
  <2> QED
    BY <1>0, <1>1, <1>2, <1>3, <1>4, <1>5, <2>1 DEF Awake, WriteComes
<1>9. ResetComes(d)'
  BY <1>0 DEF ResetComes
<1> QED
  BY <1>6, <1>7, <1>8, <1>9 DEF Awake

\* accept registers a socket for the first time: what came before is reported.
LEMMA AwakeAccept ==
  ASSUME ReactorInv, Waiting, AllAwake, NEW c \in Client, AcceptorHandleRead(c)
  PROVE  AllAwake'
<1>0. /\ proc = "running" /\ stage = "dispatch" /\ Listener \in active /\ c = Head(backlog)
      /\ active' = active \ {Listener} /\ connections_' = connections_ \cup {c}
      /\ updateChannel(c, events_[c] \cup {"IN"})
      /\ UNCHANGED <<peer, err, rcvq, wire, output, revents, cur>>
  BY DEF AcceptorHandleRead, newConnection, connectEstablished, enableReading
<1>1. TypeOK /\ cur = {} /\ backlog \in Seq(Client) /\ backlog # << >>
  BY <1>0 DEF ReactorInv, TypeOK, KernelTypeOK, LoopState
<1>2. conn_state_[c] = "none"
  <2>1. 1 \in 1..Len(backlog) /\ c = backlog[1]
    BY <1>0, <1>1, EmptySeq
  <2> QED
    BY <2>1 DEF Waiting
<1>3. c \notin connections_ /\ events_[c] = {} /\ output[c] = << >>
  BY <1>2 DEF Waiting, ReactorInv, Registration
<1>4. /\ events_'[c] = {"IN"}
      /\ \A d \in Client : d # c => events_'[d] = events_[d]
      /\ armed \subseteq armed'
      /\ Readable(c)' => c \in armed'
  BY <1>0, <1>1, <1>3, SetArms
<1>5. Awake(c)'
  <2>1. ~isWriting(c)'
    BY <1>4 DEF isWriting
  <2>2. Asked(c)'
    BY <1>0, <1>3, <2>1 DEF Asked
  <2> QED
    BY <1>0, <1>1, <1>4, <2>1, <2>2 DEF Awake, ReadComes, WriteComes, ResetComes
<1>6. ASSUME NEW d \in connections_ PROVE Awake(d)'
  <2>1. d \in Client /\ d # c /\ d # Listener /\ Awake(d)
    BY <1>0, <1>3, ReactorAssumption DEF AllAwake, ReactorInv, TypeOK
  <2> QED
    BY <1>0, <1>1, <1>4, <2>1, AwakeKept
<1> QED
  BY <1>0, <1>5, <1>6 DEF AllAwake

\* The read half: what is not read for lack of room waits for the output.
LEMMA AwakeRead ==
  ASSUME MessageCallback = "echo", ReactorInv, Waiting, Emptied, AllAwake,
         NEW c \in Client, HandleEventRead(c)
  PROVE  AllAwake'
<1>0. /\ c \in connections_ /\ c \in active /\ proc = "running"
      /\ active' = active \ {c} /\ cur = {} /\ cur' = {c} /\ stage' = "write"
      /\ revents' = revents /\ peer' = peer /\ wire' = wire /\ TypeOK
      /\ connections_ \subseteq Client /\ Awake(c) /\ conn_state_[c] = "kConnected"
  BY ReadCases DEF ReactorInv, TypeOK, AllAwake, Registration
<1>1. \A d \in Client : d # c => rcvq'[d] = rcvq[d] /\ err'[d] = err[d]
  BY <1>0, ReadTouchesOne
<1>2. ASSUME connections_' \subseteq connections_,
             \A d \in Client : d # c => events_'[d] = events_[d] /\ output'[d] = output[d]
                                        /\ (d \in armed => d \in armed'),
             c \in connections_' => Awake(c)'
      PROVE  AllAwake'
  <2> SUFFICES ASSUME NEW d \in connections_', d # c PROVE Awake(d)'
    BY <1>2 DEF AllAwake
  <2>1. d \in Client /\ Awake(d)
    BY <1>0, <1>2 DEF AllAwake
  <2> QED
    BY <1>0, <1>1, <1>2, <2>1, AwakeKept
<1>3. CASE /\ revents[c] \cap {"IN", "PRI"} = {}
           /\ UNCHANGED <<rcvq, urg, err, channels_, events_, epollVars, connVars>>
  <2>1. UNCHANGED <<rcvq, err, events_, armed, output, connections_>>
    BY <1>3 DEF epollVars, connVars
  <2>2. /\ Readable(c)' = Readable(c) /\ Writable(c)' = Writable(c)
        /\ isWriting(c)' = isWriting(c)
    BY <1>0, <2>1 DEF Readable, Writable, isWriting
  <2>3. Readable(c) => c \in armed
    BY <1>0, <1>3 DEF Awake, ReadComes
  <2>4. Asked(c)'
    BY <1>0, <2>1, <2>2 DEF Awake, Asked
  <2>5. ReadComes(c)'
    BY <2>1, <2>2, <2>3 DEF ReadComes
  <2>6. WriteComes(c)'
    BY <1>0, <2>1, <2>2 DEF Awake, WriteComes
  <2>7. ResetComes(c)'
    BY <1>0, <2>1, <2>3 DEF ResetComes, Readable
  <2> QED
    BY <1>2, <2>1, <2>4, <2>5, <2>6, <2>7 DEF Awake
<1>4. CASE handleClose(c) /\ UNCHANGED <<input, output>>
  <2>1. connections_' = connections_ \ {c} /\ armed' = armed \ {c}
    BY <1>0, <1>4, CloseEffect
  <2>2. events_' = [events_ EXCEPT ![c] = {}]
    BY <1>0, <1>4, UpdateDel DEF handleClose, ReactorInv
  <2>3. \A d \in Client : d # c => events_'[d] = events_[d]
    BY <1>0, <2>2 DEF TypeOK
  <2> QED
    BY <1>2, <1>4, <2>1, <2>3
<1>5. CASE handleRead(c) /\ ReadCount(c) > 0 /\ UNCHANGED <<conn_state_, connections_>>
  <2> DEFINE msg == input[c] \o SubSeq(rcvq[c], 1, ReadCount(c))
  <2>1. onMessage(c, msg)
    BY <1>5 DEF handleRead
  <2>2. output' = [output EXCEPT ![c] = output[c] \o msg]
    BY <1>0, <2>1 DEF onMessage, sendInLoop
  <2>3. output[c] \o msg # << >>
    <3>1. ReadCount(c) \in 1..Len(rcvq[c])
      BY <1>0, <1>5, ReadCountBounds, StreamType
    <3>2. output[c] \in Seq(Nat) /\ input[c] \in Seq(Nat) /\ rcvq[c] \in Seq(Nat)
      BY <1>0, StreamType
    <3> QED
      BY <3>1, <3>2, NotEmptied, Zenon
  <2>4. /\ output'[c] # << >>
        /\ \A d \in Client : d # c => output'[d] = output[d]
    BY <1>0, <2>2, <2>3 DEF TypeOK
  <2>5. /\ rcvq'[c] # << >> \/ err'[c] # "reset"
        /\ err'[c] = err[c] \/ err'[c] = "broken"
    BY <1>0, <1>5, ReadOne
  <2>6. ResetComes(c)'
    <3>1. peer[c] = "rst" => err[c] # "none"
      BY DEF Waiting
    <3>2. err[c] \in {"none", "reset", "broken"}
      BY <1>0 DEF TypeOK, KernelTypeOK
    <3> QED
      BY <1>0, <2>5, <3>1, <3>2 DEF ResetComes
  <2>7. CASE isWriting(c)
    <3>1. UNCHANGED <<events_, armed>>
      BY <1>0, <2>1, <2>7 DEF onMessage, sendInLoop, epollVars
    <3>2. isWriting(c)' /\ Writable(c)' = Writable(c)
      BY <1>0, <2>7, <3>1 DEF isWriting, Writable
    <3>3. Asked(c)' /\ ReadComes(c)'
      BY <1>0, <2>4, <3>2 DEF Asked, ReadComes
    <3>4. WriteComes(c)'
      BY <1>0, <2>7, <3>1, <3>2 DEF Awake, WriteComes
    <3> QED
      BY <1>2, <1>5, <2>4, <2>6, <3>1, <3>3, <3>4 DEF Awake
  <2>8. CASE ~isWriting(c)
    <3>1. updateChannel(c, events_[c] \cup {"OUT"})
      BY <1>0, <2>1, <2>8 DEF onMessage, sendInLoop, enableWriting
    <3>2. /\ events_'[c] = events_[c] \cup {"OUT"}
          /\ \A d \in Client : d # c => events_'[d] = events_[d]
          /\ armed \subseteq armed'
          /\ Writable(c)' => c \in armed'
      BY <1>0, <3>1, SetArms
    <3>3. isWriting(c)'
      BY <3>2 DEF isWriting
    <3>4. Asked(c)' /\ ReadComes(c)'
      BY <1>0, <2>4, <3>3 DEF Asked, ReadComes
    <3>5. WriteComes(c)'
      BY <3>2 DEF WriteComes
    <3> QED
      BY <1>2, <1>5, <2>4, <2>6, <3>2, <3>4, <3>5 DEF Awake
  <2> QED
    BY <2>7, <2>8
<1> QED
  BY <1>3, <1>4, <1>5, ReadCases

\* send: either all has gone and the socket is registered anew, for reading
\* only, or the kernel's buffer is full until the client reads.
LEMMA AwakeTransmit ==
  ASSUME ReactorInv, NEW c \in connections_, c \notin active, Asked(c), isWriting(c),
         peer[c] # "rst", Transmit(c), active' = active
  PROVE  /\ Awake(c)'
         /\ \A d \in Client : d # c => events_'[d] = events_[d] /\ (d \in armed => d \in armed')
<1>0. /\ TypeOK /\ c \in Client /\ peer' = peer /\ rcvq' = rcvq
      /\ output \in [Client -> Seq(Nat)] /\ wire \in [Client -> Seq(Nat)]
      /\ "IN" \in events_[c] /\ "OUT" \in events_[c]
      /\ output' = [output EXCEPT ![c] = SubSeq(output[c], WriteCount(c) + 1, Len(output[c]))]
      /\ wire' = [wire EXCEPT ![c] = wire[c] \o SubSeq(output[c], 1, WriteCount(c))]
  BY DEF ReactorInv, TypeOK, KernelTypeOK, Registration, Transmit, isWriting
<1>1. PICK n \in Nat : n = WriteCount(c) /\ n \in 0..Len(output[c])
  BY <1>0, WriteCountBounds, StreamType
<1>2. output[c] \in Seq(Nat) /\ wire[c] \in Seq(Nat) /\ output[c] # << >>
  BY <1>0 DEF Asked
<1>3. Len(output[c]) \in Nat /\ Len(output[c]) > 0 /\ Len(wire[c]) \in Nat /\ SndBuf \in Nat
  BY <1>2, EmptySeq, LenProperties, SocketsAssumption
<1>4. CASE n = Len(output[c])
  <2>1. updateChannel(c, events_[c] \ {"OUT"})
    BY <1>1, <1>3, <1>4 DEF Transmit, disableWriting
  <2>2. events_[c] \ {"OUT"} # {} /\ "IN" \in events_[c] \ {"OUT"}
    BY <1>0
  <2>3. /\ events_'[c] = events_[c] \ {"OUT"}
        /\ \A d \in Client : d # c => events_'[d] = events_[d]
        /\ armed \subseteq armed'
        /\ Readable(c)' => c \in armed'
    BY <1>0, <2>1, <2>2, SetArms
  <2>4. output'[c] = << >>
    <3>1. SubSeq(output[c], n + 1, Len(output[c])) = << >>
      BY <1>2, <1>3, <1>4, SubSeqProperties
    <3> QED
      BY <1>0, <1>1, <3>1
  <2>5. ~isWriting(c)'
    BY <2>3 DEF isWriting
  <2> QED
    BY <1>0, <2>3, <2>4, <2>5 DEF Awake, Asked, ReadComes, WriteComes, ResetComes
<1>5. CASE n # Len(output[c])
  <2>1. UNCHANGED <<events_, armed>>
    BY <1>1, <1>5 DEF Transmit, epollVars
  <2>2. output'[c] # << >>
    <3>1. n \in 0..(Len(output[c]) - 1)
      BY <1>1, <1>3, <1>5
    <3>2. SubSeq(output[c], n + 1, Len(output[c])) # << >>
      BY <1>2, <3>1, RestLength
    <3> QED
      BY <1>0, <1>1, <3>2
  <2>3. Len(wire'[c]) = SndBuf
    <3>1. n = SndBuf - Len(wire[c])
      BY <1>1, <1>3, <1>5 DEF WriteCount
    <3>2. PICK r, w : r = SubSeq(output[c], 1, n) /\ w = wire[c]
      OBVIOUS
    <3>3. r \in Seq(Nat) /\ Len(r) = n /\ w \in Seq(Nat)
      BY <1>1, <1>2, <3>2, Split
    <3>4. Len(w \o r) = Len(w) + n
      BY <3>3, ConcatProperties
    <3>5. wire'[c] = wire[c] \o r
      BY <1>0, <1>1, <3>2
    <3>6. Len(wire'[c]) = Len(wire[c]) + n
      BY <3>2, <3>4, <3>5, Zenon
    <3> QED
      BY <1>3, <3>1, <3>6
  <2>4. ~Writable(c)'
    <3>1. peer'[c] # "rst"
      BY <1>0
    <3> QED
      BY <1>3, <2>3, <3>1 DEF Writable
  <2>5. isWriting(c)'
    BY <2>1 DEF isWriting
  <2> QED
    BY <1>0, <2>1, <2>2, <2>4, <2>5 DEF Awake, Asked, ReadComes, WriteComes, ResetComes
<1> QED
  BY <1>4, <1>5

\* The end of a handler, or a part of it, for the other connections.
LEMMA AwakeOthers ==
  ASSUME ReactorInv, AllAwake, proc = "running", NEW c \in Client, cur = {c}, cur' \subseteq {c},
         UNCHANGED <<peer, rcvq, active, revents, connections_>>,
         \A d \in Client : d # c => /\ err'[d] = err[d] /\ wire'[d] = wire[d] /\ output'[d] = output[d]
                                    /\ events_'[d] = events_[d] /\ (d \in armed => d \in armed'),
         c \in connections_ /\ proc' = "running" => Awake(c)'
  PROVE  AllAwake'
<1> SUFFICES ASSUME proc' = "running", NEW d \in connections_, d # c PROVE Awake(d)'
  BY DEF AllAwake
<1>1. d \in Client /\ Awake(d)
  BY DEF AllAwake, ReactorInv, TypeOK
<1> QED
  BY <1>1, AwakeKept

\* The write half: a send that reports a reset may strand the connection.
LEMMA AwakeWrite ==
  ASSUME ReactorInv, Waiting, AllAwake, NEW c \in Client, HandleEventWrite(c)
  PROVE  AllAwake'
<1>0. /\ proc = "running" /\ stage = "write" /\ cur = {c} /\ c \notin active /\ TypeOK
      /\ cur' \subseteq {c} /\ UNCHANGED <<peer, rcvq, active, revents, connections_>>
  BY WriteCases DEF ReactorInv
<1>1. c \in connections_ => Awake(c)
  BY <1>0 DEF AllAwake
<1>2. CASE /\ ~("OUT" \in revents[c] /\ isWriting(c)) /\ cur' = {}
           /\ UNCHANGED <<err, wire, output, events_, epollVars>>
  <2>1. UNCHANGED <<err, wire, output, events_, armed>>
    BY <1>2 DEF epollVars
  <2>2. ASSUME c \in connections_ PROVE Awake(c)'
    <3>1. Readable(c)' = Readable(c) /\ Writable(c)' = Writable(c) /\ isWriting(c)' = isWriting(c)
      BY <1>0, <2>1 DEF Readable, Writable, isWriting
    <3>2. isWriting(c) /\ Writable(c) => c \in armed
      BY <1>0, <1>1, <1>2, <2>2 DEF Awake, WriteComes
    <3>3. Asked(c)' /\ ReadComes(c)'
      BY <1>0, <1>1, <2>1, <2>2, <3>1 DEF Awake, Asked, ReadComes
    <3>4. WriteComes(c)' /\ ResetComes(c)'
      BY <1>2, <2>1, <3>1, <3>2 DEF WriteComes, ResetComes
    <3> QED
      BY <3>3, <3>4 DEF Awake
  <2> QED
    BY <1>0, <2>1, <2>2, AwakeOthers
<1>3. CASE /\ "OUT" \in revents[c] /\ isWriting(c) /\ peer[c] = "rst" /\ cur' = {}
           /\ err' = [err EXCEPT ![c] = "broken"]
           /\ proc' = IF err[c] = "reset" THEN "running" ELSE "killed"
           /\ UNCHANGED <<wire, output, events_, epollVars>>
  <2>1. UNCHANGED <<wire, output, events_, armed>>
    BY <1>3 DEF epollVars
  <2>2. err'[c] = "broken" /\ \A d \in Client : d # c => err'[d] = err[d]
    BY <1>0, <1>3 DEF TypeOK, KernelTypeOK
  <2>3. ASSUME c \in connections_, proc' = "running" PROVE Awake(c)'
    <3>1. err[c] = "reset"
      BY <1>3, <2>3
    <3>2. c \notin armed => rcvq[c] # << >>
      BY <1>0, <1>1, <1>3, <2>3, <3>1 DEF Awake, ResetComes
    <3>3. isWriting(c)' /\ peer'[c] = "rst"
      BY <1>0, <1>3, <2>1 DEF isWriting
    <3>4. Asked(c)'
      BY <1>1, <1>3, <2>1, <2>3, <3>3 DEF Awake, Asked
    <3>5. ReadComes(c)'
      BY <1>0, <3>3 DEF ReadComes
    <3>6. WriteComes(c)'
      BY <1>0, <1>3, <2>1, <2>2, <3>2, <3>3 DEF WriteComes, Stranded
    <3>7. ResetComes(c)'
      BY <1>3 DEF ResetComes
    <3> QED
      BY <3>4, <3>5, <3>6, <3>7 DEF Awake
  <2> QED
    BY <1>0, <2>1, <2>2, <2>3, AwakeOthers
<1>4. CASE isWriting(c) /\ peer[c] # "rst" /\ Transmit(c) /\ UNCHANGED err
  <2>1. c \in connections_
    BY <1>4 DEF isWriting, ReactorInv, Registration
  <2>2. Asked(c)
    BY <1>1, <2>1 DEF Awake
  <2>3. /\ Awake(c)'
        /\ \A d \in Client : d # c => events_'[d] = events_[d] /\ (d \in armed => d \in armed')
    BY <1>0, <1>4, <2>1, <2>2, AwakeTransmit
  <2>4. \A d \in Client : d # c => wire'[d] = wire[d] /\ output'[d] = output[d]
    BY <1>0, <1>4, TransmitOne
  <2> QED
    BY <1>0, <1>4, <2>3, <2>4, AwakeOthers
<1> QED
  BY <1>2, <1>3, <1>4, WriteCases

\* A blocked send that goes on, or that a reset cuts short.
LEMMA AwakeSend ==
  ASSUME ReactorInv, AllAwake, NEW c \in Client, SendResumes(c) \/ SendCut(c)
  PROVE  AllAwake'
<1>0. /\ proc = "running" /\ stage = "send" /\ cur = {c} /\ cur' \subseteq {c}
      /\ UNCHANGED <<peer, rcvq, err, active, revents, connections_>>
  BY DEF SendResumes, SendCut, EventEnds, kernelVars, connVars
<1>1. c \in connections_ /\ c \notin active /\ TypeOK
  BY <1>0 DEF ReactorInv, LoopState
<1>2. Awake(c)
  BY <1>0, <1>1 DEF AllAwake
<1>3. CASE SendResumes(c)
  <2>1. peer[c] # "rst" /\ WriteCount(c) > 0 /\ Transmit(c)
    BY <1>3 DEF SendResumes
  <2>2. output[c] # << >>
    <3>1. WriteCount(c) \in 0..Len(output[c]) /\ output[c] \in Seq(Nat)
      BY <1>1, WriteCountBounds, StreamType
    <3> QED
      BY <2>1, <3>1, EmptySeq
  <2>3. Asked(c) /\ isWriting(c)
    BY <1>2, <2>2 DEF Awake, Asked
  <2>4. /\ Awake(c)'
        /\ \A d \in Client : d # c => events_'[d] = events_[d] /\ (d \in armed => d \in armed')
    BY <1>0, <1>1, <2>1, <2>3, AwakeTransmit
  <2>5. \A d \in Client : d # c => wire'[d] = wire[d] /\ output'[d] = output[d]
    BY <1>1, <2>1, TransmitOne
  <2> QED
    BY <1>0, <2>4, <2>5, AwakeOthers
<1>4. CASE SendCut(c)
  <2>1. peer[c] = "rst" /\ UNCHANGED <<wire, output, events_, armed>>
    BY <1>4 DEF SendCut, kernelVars, connVars
  <2>2. c \in armed'
    BY <1>0, <1>2, <2>1 DEF Awake, ResetComes
  <2>3. Asked(c)'
    BY <1>2, <2>1 DEF Awake, Asked, isWriting
  <2>4. Awake(c)'
    BY <2>2, <2>3, ArmedIsAwake
  <2> QED
    BY <1>0, <2>1, <2>4, AwakeOthers
<1> QED
  BY <1>3, <1>4

\* A step that changes neither a socket nor a connection.
LEMMA AwakeSame ==
  ASSUME ReactorInv, AllAwake, cur = {}, cur' = {}, \A d \in connections_ : d \in active' <=> d \in active,
         UNCHANGED <<peer, err, rcvq, wire, output, events_, revents, armed, connections_, proc>>
  PROVE  AllAwake'
<1> SUFFICES ASSUME proc = "running", NEW d \in connections_ PROVE Awake(d)'
  BY DEF AllAwake
<1>1. d \in Client /\ Awake(d)
  BY DEF AllAwake, ReactorInv, TypeOK
<1> QED
  BY <1>1, AwakeKept

\* Every step of the echo server keeps every connection awake.
LEMMA AwakeStep ==
  ASSUME MessageCallback = "echo"
  PROVE  ReactorInv /\ Waiting /\ Emptied /\ AllAwake /\ [Next]_vars => AllAwake'
<1> SUFFICES ASSUME ReactorInv, Waiting, Emptied, AllAwake, [Next]_vars PROVE AllAwake'
  OBVIOUS
<1>1. CASE Poll
  BY <1>1, AwakePoll
<1>2. CASE AcceptorHandleReadFails
  <2>1. /\ cur = {} /\ cur' = {} /\ active' = active \ {Listener} /\ connections_ \subseteq Client
        /\ UNCHANGED <<peer, err, rcvq, wire, output, events_, revents, armed, connections_, proc>>
    BY <1>2 DEF AcceptorHandleReadFails, kernelVars, connVars, ReactorInv, LoopState, TypeOK
  <2> QED
    BY <2>1, AwakeSame, ReactorAssumption
<1>3. ASSUME NEW c \in Client, AcceptorHandleRead(c) PROVE AllAwake'
  BY <1>3, AwakeAccept
<1>4. ASSUME NEW c \in Client, HandleEventRead(c) PROVE AllAwake'
  BY <1>4, AwakeRead
<1>5. ASSUME NEW c \in Client, HandleEventWrite(c) PROVE AllAwake'
  BY <1>5, AwakeWrite
<1>6. ASSUME NEW c \in Client, SendResumes(c) \/ SendCut(c) PROVE AllAwake'
  BY <1>6, AwakeSend
<1>7. CASE ClientNext /\ UNCHANGED serverVars
  BY <1>7, AwakeClient
<1>8. CASE UNCHANGED vars
  <2>1. /\ UNCHANGED <<peer, err, rcvq, wire, output, events_, revents, armed, connections_, proc>>
        /\ UNCHANGED <<stage, cur, active>>
    BY <1>8 DEF vars, kernelVars, serverVars
  <2> QED
    BY <2>1 DEF AllAwake, Awake, Asked, ReadComes, WriteComes, ResetComes, Readable, Writable,
                isWriting, Stranded
<1> QED
  BY <1>1, <1>2, <1>3, <1>4, <1>5, <1>6, <1>7, <1>8 DEF Next, ServerNext

LEMMA AwakeInit == Init => Emptied /\ AllAwake
  BY DEF Init, Emptied, AllAwake

\* No wakeup is lost: with the echo callback, for any clients and buffer sizes,
\* every connection of the edge-triggered poller that has something to do will
\* be handled, but for the connections that handleWrite strands.
THEOREM ReactorNoLostWakeup ==
  ASSUME MessageCallback = "echo"
  PROVE  Spec => []NoLostWakeup
<1>1. ReactorInv /\ AllAwake => NoLostWakeup
  <2> SUFFICES ASSUME AllAwake, proc = "running", NEW c \in connections_, ~Stranded(c)
               PROVE  /\ isWriting(c) <=> output[c] # << >>
                      /\ isWriting(c) /\ Writable(c) => Coming(c)
                      /\ Readable(c) => Coming(c) \/ isWriting(c)
    BY DEF NoLostWakeup
  <2>1. Awake(c)
    BY DEF AllAwake
  <2> QED
    BY <2>1 DEF Awake, Asked, ReadComes, WriteComes, Coming
<1>2. Init => ReactorInv /\ Waiting /\ Emptied /\ AllAwake
  BY ReactorInit, WaitingInit, AwakeInit
<1>3. ReactorInv /\ Waiting /\ Emptied /\ AllAwake /\ [Next]_vars
        => (ReactorInv /\ Waiting /\ Emptied /\ AllAwake)'
  BY ReactorStep, WaitingStep, EmptiedStep, AwakeStep
<1> QED
  BY <1>1, <1>2, <1>3, PTL DEF Spec
-----------------------------------------------------------------------------
(* The echo server implements EchoService.                                 *)

\* A step of the mapped variables, said client by client: nothing changes but
\* what the service sees of c.
SameLines == \A d \in Client : LineOf(d)' = LineOf(d)
SameLeft == \A d \in Client : HasLeft(d)' <=> HasLeft(d)

LEMMA LeftSame ==
  ASSUME SameLeft
  PROVE  [d \in Client |-> HasLeft(d)]' = [d \in Client |-> HasLeft(d)]
<1>1. \A d \in Client : HasLeft(d)' = HasLeft(d)
  <2> SUFFICES ASSUME NEW d \in Client PROVE HasLeft(d)' = HasLeft(d)
    OBVIOUS
  <2>1. HasLeft(d) \in BOOLEAN /\ HasLeft(d)' \in BOOLEAN
    BY DEF HasLeft
  <2> QED
    BY <2>1 DEF SameLeft
<1> QED
  BY <1>1

LEMMA ServiceStutters ==
  ASSUME UNCHANGED <<sent, got>>, SameLines, SameLeft
  PROVE  UNCHANGED Service!echoVars
<1>1. [d \in Client |-> HasLeft(d)]' = [d \in Client |-> HasLeft(d)]
  BY LeftSame
<1> QED
  BY <1>1 DEF Service!echoVars, SameLines

LEMMA InitEcho == Init => Service!EInit
<1> SUFFICES ASSUME Init PROVE Service!EInit
  OBVIOUS
<1>1. \A d \in Client : HasLeft(d) = FALSE
  BY DEF Init, KernelInit, HasLeft
<1>2. \A d \in Client : LineOf(d) = "none"
  BY DEF Init, LineOf, Accepted
<1> QED
  BY <1>1, <1>2 DEF Init, KernelInit, Service!EInit

\* A client sends a byte, leaves, connects, or reads the next byte of its echo.
LEMMA ClientEcho ==
  ASSUME ReactorInv, Waiting, StreamIntact, ClientNext, UNCHANGED serverVars
  PROVE  [Service!ENext]_(Service!echoVars)
<1>0. /\ peer \in [Client -> {"new", "up", "fin", "rst"}] /\ sent \in [Client -> Nat]
      /\ urg \in [Client -> {"none", "queued", "taken"}] /\ got \in [Client -> Seq(Nat)]
      /\ TypeOK
  BY DEF ReactorInv, TypeOK, KernelTypeOK
<1>1. SameLines
  BY DEF SameLines, LineOf, Accepted, serverVars
<1>2. [d \in Client |-> LineOf(d)]' = [d \in Client |-> LineOf(d)]
  BY <1>1 DEF SameLines
<1>3. PICK c \in Client :
        \/ ClientConnect(c) \/ ClientSend(c) \/ ClientSendUrgent(c)
        \/ ClientFinish(c) \/ ClientReset(c) \/ ClientRead(c)
  BY DEF ClientNext
<1>4. CASE ClientConnect(c)
  <2>1. SameLeft /\ UNCHANGED <<sent, got>>
    BY <1>0, <1>4 DEF ClientConnect, SameLeft, HasLeft
  <2> QED
    BY <1>1, <2>1, ServiceStutters
<1>5. CASE ClientSend(c)
  <2>1. SameLeft /\ got' = got /\ sent' = [sent EXCEPT ![c] = sent[c] + 1]
    BY <1>0, <1>5 DEF ClientSend, SameLeft, HasLeft
  <2>2. ~HasLeft(c)
    BY <1>5 DEF ClientSend, HasLeft
  <2>3. [d \in Client |-> HasLeft(d)]' = [d \in Client |-> HasLeft(d)]
    BY <2>1, LeftSame
  <2>4. Service!Say(c)
    BY <1>2, <2>1, <2>2, <2>3 DEF Service!Say
  <2> QED
    BY <2>4 DEF Service!ENext
<1>6. CASE ClientSendUrgent(c) \/ ClientFinish(c) \/ ClientReset(c)
  <2>1. UNCHANGED <<sent, got>> /\ HasLeft(c)' = TRUE
        /\ \A d \in Client : d # c => peer'[d] = peer[d] /\ urg'[d] = urg[d]
    BY <1>0, <1>6 DEF ClientSendUrgent, ClientFinish, ClientReset, HasLeft
  <2>2. \A d \in Client : d # c => HasLeft(d)' = HasLeft(d)
    BY <2>1 DEF HasLeft
  <2>3. [d \in Client |-> HasLeft(d)]' = [[d \in Client |-> HasLeft(d)] EXCEPT ![c] = TRUE]
    BY <2>1, <2>2
  <2>4. Service!Leave(c)
    BY <1>2, <2>1, <2>3 DEF Service!Leave
  <2> QED
    BY <2>4 DEF Service!ENext
<1>7. CASE ClientRead(c)
  <2>1. /\ SameLeft /\ sent' = sent /\ wire[c] # << >>
        /\ got' = [got EXCEPT ![c] = Append(got[c], Head(wire[c]))]
    BY <1>7 DEF ClientRead, SameLeft, HasLeft
  <2>2. Len(got[c]) < sent[c] /\ Head(wire[c]) = Len(got[c]) + 1
    <3>1. Counted(got[c] \o wire[c] \o output[c] \o input[c] \o rcvq[c], sent[c])
      BY DEF StreamIntact, Stream, Counted
    <3> QED
      BY <1>0, <2>1, <3>1, StreamType, NextByte
  <2>3. LineOf(c) # "none"
    <3>1. conn_state_[c] # "none"
      BY <2>1 DEF Waiting
    <3> QED
      BY <3>1 DEF LineOf, Accepted
  <2>4. [d \in Client |-> HasLeft(d)]' = [d \in Client |-> HasLeft(d)]
    BY <2>1, LeftSame
  <2>5. Service!Echo(c)
    BY <1>2, <2>1, <2>2, <2>3, <2>4 DEF Service!Echo
  <2> QED
    BY <2>5 DEF Service!ENext
<1> QED
  BY <1>3, <1>4, <1>5, <1>6, <1>7

\* accept opens a line that was never opened before.
LEMMA AcceptEcho ==
  ASSUME ReactorInv, Waiting, NEW c \in Client, AcceptorHandleRead(c)
  PROVE  Service!ENext
<1>1. /\ Listener \in active /\ c = Head(backlog)
      /\ connections_' = connections_ \cup {c}
      /\ conn_state_' = [conn_state_ EXCEPT ![c] = "kConnected"]
      /\ UNCHANGED <<peer, urg, sent, got>>
  BY DEF AcceptorHandleRead, newConnection, connectEstablished
<1>2. /\ backlog \in Seq(Client) /\ backlog # << >>
      /\ conn_state_ \in [Client -> {"none", "kConnected", "kDisconnected"}]
  BY <1>1 DEF ReactorInv, TypeOK, KernelTypeOK, LoopState
<1>3. conn_state_[c] = "none"
  <2>1. 1 \in 1..Len(backlog) /\ c = backlog[1]
    BY <1>1, <1>2, EmptySeq
  <2> QED
    BY <2>1 DEF Waiting
<1>4. c \notin connections_
  BY <1>3 DEF ReactorInv, Registration
<1>5. LineOf(c) = "none" /\ LineOf(c)' = "open"
  BY <1>1, <1>3, <1>4 DEF LineOf, Accepted
<1>6. \A d \in Client : d # c => LineOf(d)' = LineOf(d)
  BY <1>1, <1>2 DEF LineOf, Accepted
<1>7. [d \in Client |-> LineOf(d)]' = [[d \in Client |-> LineOf(d)] EXCEPT ![c] = "open"]
  BY <1>5, <1>6
<1>8. [d \in Client |-> HasLeft(d)]' = [d \in Client |-> HasLeft(d)]
  BY <1>1, LeftSame DEF SameLeft, HasLeft
<1>9. Service!Open(c)
  BY <1>1, <1>5, <1>7, <1>8 DEF Service!Open
<1> QED
  BY <1>9 DEF Service!ENext

\* The read half closes a line whose client has left, or changes no line.
LEMMA ReadEcho ==
  ASSUME ReactorInv, EventsHold, Emptied, NEW c \in Client, HandleEventRead(c)
  PROVE  [Service!ENext]_(Service!echoVars)
<1>1. UNCHANGED <<sent, got>> /\ c \in connections_ /\ TypeOK
  BY ReadCases DEF HandleEventRead, ReactorInv
<1>2. SameLeft
  BY <1>1, ReadTouchesOne DEF SameLeft, HasLeft
<1>3. [d \in Client |-> HasLeft(d)]' = [d \in Client |-> HasLeft(d)]
  BY <1>2, LeftSame
<1>4. CASE UNCHANGED <<conn_state_, connections_>>
  <2>1. SameLines
    BY <1>4 DEF SameLines, LineOf, Accepted
  <2> QED
    BY <1>1, <1>2, <2>1, ServiceStutters
<1>5. CASE handleClose(c)
  <2>1. /\ connections_' = connections_ \ {c}
        /\ conn_state_' = [conn_state_ EXCEPT ![c] = "kDisconnected"]
        /\ conn_state_ \in [Client -> {"none", "kConnected", "kDisconnected"}]
    BY <1>1, <1>5 DEF handleClose, removeConnection, TypeOK
  <2>2. LineOf(c) = "open" /\ LineOf(c)' = "closed"
    BY <1>1, <2>1 DEF LineOf, Accepted
  <2>3. \A d \in Client : d # c => LineOf(d)' = LineOf(d)
    BY <2>1 DEF LineOf, Accepted
  <2>4. [d \in Client |-> LineOf(d)]' = [[d \in Client |-> LineOf(d)] EXCEPT ![c] = "closed"]
    BY <2>2, <2>3
  <2>5. HasLeft(c)
    <3>1. HasLeft(c) \/ Len(input[c]) = InitialSize
      BY <1>1, <2>1, DropCause
    <3>2. Len(input[c]) = 0
      BY DEF Emptied
    <3> QED
      BY <3>1, <3>2, ReactorAssumption
  <2>6. Service!Close(c)
    BY <1>1, <1>3, <2>2, <2>4, <2>5 DEF Service!Close
  <2> QED
    BY <2>6 DEF Service!ENext
<1> QED
  BY <1>4, <1>5, ReadCases DEF connVars

\* Every step of the echo server is a step of EchoService or a stutter.
LEMMA StepEcho ==
  ASSUME ReactorInv, Waiting, EventsHold, Emptied, StreamIntact, [Next]_vars
  PROVE  [Service!ENext]_(Service!echoVars)
<1>1. ASSUME UNCHANGED <<peer, urg, sent, got, conn_state_, connections_>>
      PROVE  UNCHANGED Service!echoVars
  BY <1>1, ServiceStutters DEF SameLines, SameLeft, LineOf, Accepted, HasLeft
<1>2. CASE Poll \/ AcceptorHandleReadFails
  BY <1>1, <1>2 DEF Poll, AcceptorHandleReadFails, kernelVars, connVars
<1>3. ASSUME NEW c \in Client, AcceptorHandleRead(c) PROVE Service!ENext
  BY <1>3, AcceptEcho
<1>4. ASSUME NEW c \in Client, HandleEventRead(c) PROVE [Service!ENext]_(Service!echoVars)
  BY <1>4, ReadEcho
<1>5. ASSUME NEW c \in Client, HandleEventWrite(c) \/ SendResumes(c) \/ SendCut(c)
      PROVE  UNCHANGED Service!echoVars
  BY <1>1, <1>5 DEF HandleEventWrite, SendResumes, SendCut, kernelVars, connVars
<1>6. CASE ClientNext /\ UNCHANGED serverVars
  BY <1>6, ClientEcho
<1>7. CASE UNCHANGED vars
  BY <1>1, <1>7 DEF vars, kernelVars, serverVars
<1> QED
  BY <1>2, <1>3, <1>4, <1>5, <1>6, <1>7 DEF Next, ServerNext

\* The reactor with the echo callback implements EchoService, for any clients
\* and buffer sizes: a client hears the bytes it said, each once and in order,
\* and its line is closed only after it has left.
THEOREM ReactorImplementsEchoService ==
  ASSUME MessageCallback = "echo"
  PROVE  Spec => ImplementsEchoService
<1> DEFINE EchoInv == ReactorInv /\ StreamIntact /\ EventsHold /\ Waiting /\ Emptied
<1>1. Init => EchoInv /\ Service!EInit
  BY ReactorInit, StreamInit, EventsInit, WaitingInit, AwakeInit, InitEcho
<1>2. EchoInv /\ [Next]_vars => EchoInv'
  BY ReactorStep, StreamStep, EventsStep, WaitingStep, EmptiedStep
<1>3. EchoInv /\ [Next]_vars => [Service!ENext]_(Service!echoVars)
  BY StepEcho
<1> QED
  BY <1>1, <1>2, <1>3, PTL DEF Spec, ImplementsEchoService, Service!ESpec
=============================================================================
