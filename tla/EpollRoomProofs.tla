-------------------------- MODULE EpollRoomProofs --------------------------
(***************************************************************************)
(* For any number of clients, descriptors and hellos: epoll.cc drops a     *)
(* client only when the client has gone.  recv, which takes "nothing yet"  *)
(* for the end, must find something whenever it is called: an event still  *)
(* to handle names a socket that is open and readable.  That holds because *)
(* a descriptor belongs to one client at a time, and because a client that *)
(* waits in the backlog has none.  The list the server sends to names      *)
(* every open descriptor once and nothing else, and the server goes down   *)
(* only for a cause.                                                       *)
(***************************************************************************)
EXTENDS EpollRoom, FiniteSetTheorems, TLAPS

RoomTypes ==
  /\ peer \in [Client -> {"new", "up", "fin", "rst"}]
  /\ inq \in [Client -> Nat]
  /\ backlog \in Seq(Client)
  /\ armed \subseteq Client \cup {Listener}
  /\ fd \in [Client -> 0..FdLimit]
  /\ events \subseteq 0..FdLimit

\* No two clients share a descriptor.
OneClientEach == \A c, d \in Client : fd[c] = fd[d] /\ fd[c] # 0 => c = d

\* A client that waits has no descriptor and waits once; one that has not
\* connected does neither.
Waiting ==
  /\ \A i \in 1..Len(backlog) : fd[backlog[i]] = 0 /\ peer[backlog[i]] # "new"
  /\ \A i, j \in 1..Len(backlog) : backlog[i] = backlog[j] => i = j
  /\ \A c \in Client : peer[c] = "new" => fd[c] = 0

EventsAreReal == \A n \in events \ {0} : \E c \in Client : fd[c] = n /\ Readable(c)

RoomInv == RoomTypes /\ OneClientEach /\ Waiting /\ EventsAreReal

LEMMA RoomInit == Init => RoomInv
BY EpollRoomAssumption
   DEF Init, RoomInv, RoomTypes, OneClientEach, Waiting, EventsAreReal

-----------------------------------------------------------------------------
(* What a client sends is a number of messages: so is what it is sent.     *)

Counts == buff \in [Client -> Nat] /\ wire \in [Client -> Nat]

LEMMA CountsInit == Init => Counts
BY DEF Init, Counts

LEMMA CountsStep == Counts /\ [Next]_vars => Counts'
<1> SUFFICES ASSUME Counts, [Next]_vars PROVE Counts'
  OBVIOUS
<1>0. buff \in [Client -> Nat] /\ wire \in [Client -> Nat] /\ BuffSize \in Nat
  BY EpollRoomAssumption DEF Counts
<1>1. ASSUME UNCHANGED <<buff, wire>> PROVE Counts'
  BY <1>0, <1>1 DEF Counts
<1>2. ASSUME NEW c \in Client, Connect(c) \/ Hello(c) PROVE Counts'
  BY <1>0, <1>2 DEF Connect, Hello, Counts
<1>3. ASSUME NEW c \in Client, Recv(c) PROVE Counts'
  <2>1. PICK n \in Nat : /\ n <= wire[c]
                         /\ buff' = [buff EXCEPT ![c] = n] /\ wire' = [wire EXCEPT ![c] = @ - n]
    <3> DEFINE m == IF wire[c] < BuffSize THEN wire[c] ELSE BuffSize
    <3>1. m \in Nat /\ m <= wire[c]
      BY <1>0
    <3>2. buff' = [buff EXCEPT ![c] = m] /\ wire' = [wire EXCEPT ![c] = @ - m]
      BY <1>3 DEF Recv
    <3> QED
      BY <3>1, <3>2
  <2>2. wire[c] - n \in Nat
    BY <1>0, <2>1
  <2> QED
    BY <1>0, <2>1, <2>2 DEF Counts
<1>4. ASSUME NEW c \in Client, Killed(c) \/ KernelReset(c) PROVE Counts'
  BY <1>0, <1>4 DEF Killed, KernelReset, ResetBy, Counts
<1>5. CASE Accept
  <2>1. buff' = buff /\ (wire' = wire \/ wire' = [wire EXCEPT ![Head(backlog)] = @ + 1])
    BY <1>5 DEF Accept, peerVars
  <2> QED
    BY <1>0, <2>1 DEF Counts
<1>6. ASSUME NEW n \in Fds, sendBroadcastmessage(n) PROVE Counts'
  <2>1. buff' = buff /\ (wire' = wire \/ Broadcast)
    BY <1>6 DEF sendBroadcastmessage, Drop, peerVars
  <2>2. CASE Broadcast
    BY <1>0, <2>1, <2>2 DEF Broadcast, Counts
  <2> QED
    BY <1>1, <2>1, <2>2
<1>7. CASE Wait \/ UNCHANGED vars
  BY <1>1, <1>7 DEF Wait, vars, peerVars
<1> QED
  BY <1>2, <1>3, <1>4, <1>5, <1>6, <1>7 DEF Next, Server

\* A client that sends takes nothing back.
LEMMA HelloAdds ==
  ASSUME Counts, NEW c \in Client, Hello(c)
  PROVE  peer' = peer /\ \E n \in Nat : inq' = [inq EXCEPT ![c] = inq[c] + n]
<1>1. \A n \in strlen(c) : n \in Nat
  BY DEF strlen, Counts
<1> QED
  BY <1>1 DEF Hello
-----------------------------------------------------------------------------
\* The steps of a client and of its kernel leave the server's state alone, and
\* what is readable stays so.
LEMMA ClientStep ==
  ASSUME NEW c \in Client, RoomInv, Counts,
         Connect(c) \/ Hello(c) \/ Recv(c) \/ Killed(c) \/ KernelReset(c)
  PROVE  RoomInv'
<1> USE EpollRoomAssumption DEF RoomInv
<1>1. fd' = fd /\ events' = events
  BY DEF Connect, Hello, Recv, Killed, KernelReset
<1>2. \A d \in Client : Readable(d) => Readable(d)'
  <2>1. CASE Connect(c) \/ Recv(c)
    BY <2>1 DEF Connect, Recv, Readable, RoomTypes
  <2>2. CASE Hello(c)
    <3>1. PICK n \in Nat : peer' = peer /\ inq' = [inq EXCEPT ![c] = inq[c] + n]
      BY <2>2, HelloAdds
    <3> QED BY <3>1 DEF Readable, RoomTypes
  <2>3. ASSUME peer'= [peer EXCEPT ![c] = "rst"], NEW n \in Nat, inq' = [inq EXCEPT ![c] = n]
        PROVE  \A d \in Client : Readable(d) => Readable(d)'
    BY <2>3 DEF Readable, RoomTypes
  <2>4. ASSUME peer' = [peer EXCEPT ![c] = "fin"], inq' = inq
        PROVE  \A d \in Client : Readable(d) => Readable(d)'
    BY <2>4 DEF Readable, RoomTypes
  <2>5. CASE Killed(c) \/ KernelReset(c)
    BY <2>3, <2>4, <2>5 DEF Killed, KernelReset, ResetBy, RoomTypes
  <2> QED BY <2>1, <2>2, <2>5
<1>3. (OneClientEach /\ EventsAreReal)'
  BY <1>1, <1>2 DEF OneClientEach, EventsAreReal
<1>4. CASE Connect(c)
  <2>1. RoomTypes'
    BY <1>1, <1>4 DEF Connect, RoomTypes
  <2>2. Waiting'
    <3>1. /\ Len(backlog) \in Nat /\ Len(backlog') = Len(backlog) + 1
          /\ backlog'[Len(backlog) + 1] = c
          /\ \A i \in 1..Len(backlog) : backlog'[i] = backlog[i] /\ backlog[i] \in Client
      BY <1>4 DEF Connect, RoomTypes
    <3>2. /\ peer[c] = "new" /\ peer'[c] = "up" /\ fd[c] = 0
          /\ \A d \in Client \ {c} : peer'[d] = peer[d]
      BY <1>4 DEF Connect, RoomTypes, Waiting
    <3>3. \A i \in 1..Len(backlog) : backlog[i] # c
      BY <3>2 DEF Waiting
    <3>4. \A i \in 1..Len(backlog') : fd'[backlog'[i]] = 0 /\ peer'[backlog'[i]] # "new"
      BY <1>1, <3>1, <3>2, <3>3 DEF Waiting
    <3>5. \A i, j \in 1..Len(backlog') : backlog'[i] = backlog'[j] => i = j
      BY <3>1, <3>3 DEF Waiting
    <3>6. \A d \in Client : peer'[d] = "new" => fd'[d] = 0
      BY <1>1, <3>2 DEF Waiting
    <3> QED BY <3>4, <3>5, <3>6 DEF Waiting
  <2> QED BY <1>3, <2>1, <2>2
<1>5. CASE Hello(c) \/ Recv(c) \/ Killed(c) \/ KernelReset(c)
  <2>1. /\ backlog' = backlog
        /\ \A d \in Client : peer'[d] = peer[d] \/ (peer[d] # "new" /\ peer'[d] # "new")
    BY <1>5 DEF Hello, Recv, Killed, KernelReset, ResetBy, RoomTypes
  <2>2. RoomTypes'
    <3>1. CASE Hello(c)
      <4>1. inq' \in [Client -> Nat]
        <5>1. PICK n \in Nat : inq' = [inq EXCEPT ![c] = inq[c] + n]
          BY <3>1, HelloAdds
        <5> QED BY <5>1 DEF RoomTypes
      <4>2. peer' = peer /\ armed' \subseteq Client \cup {Listener}
        BY <3>1 DEF Hello, Edge, RoomTypes
      <4> QED BY <1>1, <2>1, <4>1, <4>2 DEF RoomTypes
    <3>3. CASE Recv(c)
      BY <1>1, <3>3 DEF Recv, RoomTypes
    <3>2. CASE Killed(c) \/ KernelReset(c)
      <4>1. peer' \in [Client -> {"new", "up", "fin", "rst"}]
        BY <3>2 DEF Killed, KernelReset, ResetBy, RoomTypes
      <4>2. inq' = inq \/ \E n \in Nat : inq' = [inq EXCEPT ![c] = n]
        BY <3>2 DEF Killed, KernelReset, ResetBy, RoomTypes
      <4>3. armed' \subseteq Client \cup {Listener}
        BY <3>2 DEF Killed, KernelReset, Edge, RoomTypes
      <4> QED BY <1>1, <2>1, <4>1, <4>2, <4>3 DEF RoomTypes
    <3> QED BY <1>5, <3>1, <3>2, <3>3
  <2>3. Waiting'
    <3>1. \A i \in 1..Len(backlog) : backlog[i] \in Client
      BY DEF RoomTypes
    <3>2. \A d \in Client : peer'[d] = "new" <=> peer[d] = "new"
      BY <2>1
    <3>3. \A i \in 1..Len(backlog) : peer'[backlog[i]] # "new"
      BY <3>1, <3>2 DEF Waiting
    <3> QED BY <1>1, <2>1, <3>2, <3>3 DEF Waiting
  <2> QED BY <1>3, <2>2, <2>3
<1> QED BY <1>4, <1>5

LEMMA WaitStep == RoomInv /\ Wait => RoomInv'
<1> SUFFICES ASSUME RoomInv, Wait PROVE RoomInv'
  OBVIOUS
<1> USE EpollRoomAssumption DEF RoomInv, Wait, peerVars
<1>1. \A n \in Reported : n = 0 \/ \E c \in Client : fd[c] = n /\ Readable(c)
  BY DEF Reported, RoomTypes
<1>2. RoomTypes'
  <2>1. ASSUME NEW n \in Reported PROVE n \in 0..FdLimit
    <3>1. \A c \in Client : fd[c] \in 0..FdLimit
      BY DEF RoomTypes
    <3>2. 0 \in 0..FdLimit
      OBVIOUS
    <3> QED BY ONLY <1>1, <3>1, <3>2, <2>1
  <2>2. events' \subseteq 0..FdLimit
    BY <2>1
  <2> QED BY <2>2 DEF RoomTypes
<1>3. (OneClientEach /\ Waiting /\ EventsAreReal)'
  BY <1>1 DEF OneClientEach, Waiting, EventsAreReal, Readable
<1> QED BY <1>2, <1>3

\* The new client comes from the backlog, and its descriptor was free.
LEMMA AcceptStep == RoomInv /\ Accept => RoomInv'
<1> SUFFICES ASSUME RoomInv, Accept PROVE RoomInv'
  OBVIOUS
<1> USE EpollRoomAssumption DEF RoomInv
<1>1. UNCHANGED <<peer, inq>> /\ events' = events \ {0}
  BY DEF Accept, peerVars
<1>2. CASE AcceptFails
  <2>1. UNCHANGED <<backlog, fd, armed>>
    BY <1>2 DEF Accept
  <2> QED BY <1>1, <2>1 DEF RoomTypes, OneClientEach, Waiting, EventsAreReal, Readable
<1>3. CASE ~AcceptFails
  <2> DEFINE c == Head(backlog)
  <2>1. PICK n \in Fds : Lowest(n) /\ fd' = [fd EXCEPT ![c] = n]
    BY <1>3 DEF Accept
  <2>2. /\ backlog' = Tail(backlog) /\ backlog # << >> /\ c \in Client /\ c = backlog[1]
        /\ Len(backlog) \in Nat \ {0}
    BY <1>3 DEF Accept, AcceptFails, RoomTypes
  <2>3. /\ Len(backlog') = Len(backlog) - 1
        /\ \A i \in 1..Len(backlog') : backlog'[i] = backlog[i + 1] /\ backlog[i + 1] \in Client
    BY <2>2 DEF RoomTypes
  <2>4. n \in 1..FdLimit /\ \A d \in Client : fd[d] # n
    BY <2>1 DEF Lowest, FreeFds, Owners, Fds
  <2>5. fd[c] = 0 /\ fd'[c] = n /\ \A d \in Client \ {c} : fd'[d] = fd[d]
    BY <2>1, <2>2 DEF Waiting, RoomTypes
  <2>6. RoomTypes'
    BY <1>1, <1>3, <2>1, <2>2, <2>4 DEF RoomTypes, Accept
  <2>7. OneClientEach'
    BY <2>4, <2>5 DEF OneClientEach
  <2>8. Waiting'
    <3>1. ASSUME NEW i \in 1..Len(backlog') PROVE backlog'[i] # c
      BY <2>2, <2>3 DEF Waiting
    <3>2. \A i \in 1..Len(backlog') : fd'[backlog'[i]] = 0 /\ peer'[backlog'[i]] # "new"
      BY <1>1, <2>3, <2>5, <3>1, <2>2 DEF Waiting
    <3>3. \A i, j \in 1..Len(backlog') : backlog'[i] = backlog'[j] => i = j
      BY <2>2, <2>3 DEF Waiting
    <3>4. \A d \in Client : peer'[d] = "new" => fd'[d] = 0
      BY <1>1, <2>2, <2>5 DEF Waiting
    <3> QED BY <3>2, <3>3, <3>4 DEF Waiting
  <2>9. EventsAreReal'
    BY <1>1, <2>5 DEF EventsAreReal, Readable
  <2> QED BY <2>6, <2>7, <2>8, <2>9
<1> QED BY <1>2, <1>3

\* The event that is handled is gone, and the others are of other clients.
LEMMA BroadcastStep ==
  ASSUME NEW n \in Fds, RoomInv, sendBroadcastmessage(n)
  PROVE  RoomInv' /\ \A d \in Client : fd[d] # 0 /\ fd'[d] = 0 => peer[d] \in {"fin", "rst"}
<1> USE EpollRoomAssumption DEF RoomInv
<1>1. PICK c \in Client : /\ fd[c] = n
                          /\ IF Unread(c) = -1 THEN Drop(c)
                             ELSE /\ inq' = [inq EXCEPT ![c] = Unread(c)]
                                  /\ UNCHANGED <<fd, armed>>
  BY DEF sendBroadcastmessage, Owners
<1>2. /\ n \in events /\ n # 0 /\ events' = events \ {n}
      /\ UNCHANGED <<peer, backlog>>
  BY DEF sendBroadcastmessage, Rest, peerVars
<1>3. Readable(c)
  BY <1>1, <1>2 DEF EventsAreReal, OneClientEach
<1>4. \A m \in events' \ {0} : \E d \in Client \ {c} : fd[d] = m /\ Readable(d)
  BY <1>1, <1>2 DEF EventsAreReal
<1>5. CASE Unread(c) = -1
  <2>1. fd' = [fd EXCEPT ![c] = 0] /\ inq' = inq /\ armed' = armed \ {c}
    BY <1>1, <1>5 DEF Drop
  <2>2. inq[c] = 0
    BY <1>5 DEF Unread, RoomTypes
  <2>3. peer[c] \in {"fin", "rst"}
    BY <1>3, <2>2 DEF Readable
  <2>4. fd'[c] = 0 /\ \A d \in Client \ {c} : fd'[d] = fd[d]
    BY <2>1 DEF RoomTypes
  <2>5. (RoomTypes /\ OneClientEach)'
    BY <1>2, <2>1, <2>4 DEF RoomTypes, OneClientEach
  <2>6. Waiting'
    <3>1. \A i \in 1..Len(backlog) : backlog[i] \in Client
      BY DEF RoomTypes
    <3>2. \A i \in 1..Len(backlog) : fd[backlog[i]] # fd[c]
      BY <1>1, <1>2, Zenon DEF Waiting
    <3>3. \A i \in 1..Len(backlog) : backlog[i] \in Client /\ backlog[i] # c
      BY <3>1, <3>2, Zenon
    <3> QED BY <1>2, <2>4, <3>3 DEF Waiting
  <2>7. EventsAreReal'
    BY <1>2, <1>4, <2>1, <2>4 DEF EventsAreReal, Readable
  <2> QED BY <2>3, <2>4, <2>5, <2>6, <2>7
<1>6. CASE Unread(c) # -1
  <2>1. fd' = fd /\ armed' = armed /\ inq' = [inq EXCEPT ![c] = Unread(c)]
    BY <1>1, <1>6
  <2>2. Unread(c) \in Nat
    BY <1>6 DEF Unread, RoomTypes
  <2>3. RoomTypes'
    BY <1>2, <2>1, <2>2 DEF RoomTypes
  <2>4. (OneClientEach /\ Waiting)'
    BY <1>2, <2>1 DEF OneClientEach, Waiting
  <2>5. EventsAreReal'
    BY <1>2, <1>4, <2>1 DEF EventsAreReal, Readable, RoomTypes
  <2> QED BY <2>1, <2>3, <2>4, <2>5
<1> QED BY <1>5, <1>6

LEMMA RoomStep == RoomInv /\ Counts /\ [Next]_vars => RoomInv'
<1> SUFFICES ASSUME RoomInv, Counts, [Next]_vars PROVE RoomInv'
  OBVIOUS
<1>1. CASE UNCHANGED vars
  BY <1>1 DEF vars, peerVars, RoomInv, RoomTypes, OneClientEach, Waiting, EventsAreReal, Readable
<1> QED
  BY <1>1, ClientStep, WaitStep, AcceptStep, BroadcastStep DEF Next, Server

\* For any number of clients, descriptors and messages: sendBroadcastmessage
\* removes a client only when the client has closed or reset its connection.
THEOREM DropsForCause == Spec => DroppedForCause
<1> DEFINE Cause == \A c \in Client : fd[c] # 0 /\ fd'[c] = 0 => peer[c] \in {"fin", "rst"}
<1>1. RoomInv /\ [Next]_vars => [Cause]_vars
  <2> SUFFICES ASSUME RoomInv, Next PROVE Cause
    OBVIOUS
  <2>1. CASE Accept
    <3>1. CASE AcceptFails
      <4>1. fd' = fd
        BY <2>1, <3>1 DEF Accept
      <4> QED BY <4>1
    <3>2. CASE ~AcceptFails
      <4>1. PICK n \in Fds : fd' = [fd EXCEPT ![Head(backlog)] = n]
        BY <2>1, <3>2 DEF Accept
      <4>2. n # 0
        BY <4>1, EpollRoomAssumption DEF Fds
      <4>3. fd \in [Client -> 0..FdLimit]
        BY DEF RoomInv, RoomTypes
      <4>4. \A c \in Client : fd'[c] = n \/ fd'[c] = fd[c]
        BY <4>1, <4>3
      <4> QED BY <4>2, <4>4
    <3> QED BY <3>1, <3>2
  <2>2. CASE Wait \/ \E c \in Client : Connect(c) \/ Hello(c) \/ Recv(c) \/ Killed(c) \/ KernelReset(c)
    BY <2>2 DEF Wait, Connect, Hello, Recv, Killed, KernelReset
  <2> QED BY <2>1, <2>2, BroadcastStep DEF Next, Server
<1> QED BY <1>1, RoomInit, RoomStep, CountsInit, CountsStep, PTL DEF Spec, DroppedForCause
-----------------------------------------------------------------------------
(* The list of descriptors.                                                *)

\* The list names every open descriptor once and nothing else.
Listed ==
  /\ clients \in Seq(Fds)
  /\ \A c \in Client : fd[c] # 0 => \E k \in 1..Len(clients) : clients[k] = fd[c]
  /\ \A k \in 1..Len(clients) : \E c \in Client : fd[c] = clients[k]
  /\ \A k, m \in 1..Len(clients) : clients[k] = clients[m] => k = m

\* How many indices below k are left when p is taken from 1..n.
LEMMA LeftBelow ==
  ASSUME NEW n \in Nat, NEW p \in 1..n, NEW k \in 1..n, k # p
  PROVE  Cardinality(((1..n) \ {p}) \cap 1..k) = IF k < p THEN k ELSE k - 1
<1>1. IsFiniteSet(1..k) /\ Cardinality(1..k) = k
  BY FS_Interval
<1>2. ((1..n) \ {p}) \cap 1..k = (1..k) \ {p}
  OBVIOUS
<1>3. Cardinality((1..k) \ {p}) = IF p \in 1..k THEN k - 1 ELSE k
  BY <1>1, FS_RemoveElement
<1>4. p \in 1..k <=> ~(k < p)
  OBVIOUS
<1> QED
  BY <1>2, <1>3, <1>4

\* list::remove of the one element at p moves the later ones up by one.
LEMMA ForgetOne ==
  ASSUME NEW n, clients \in Seq(Fds), NEW p \in 1..Len(clients), clients[p] = n,
         \A k \in 1..Len(clients) : clients[k] = n => k = p, Forget(n)
  PROVE  clients' = [j \in 1..(Len(clients) - 1) |-> clients[IF j < p THEN j ELSE j + 1]]
<1> DEFINE len == Len(clients)
           kept == {k \in 1..len : clients[k] # n}
           nth(j) == CHOOSE k \in kept : Cardinality(kept \cap 1..k) = j
<1>1. len \in Nat /\ p \in 1..len
  OBVIOUS
<1>2. kept = (1..len) \ {p}
  OBVIOUS
<1>3. Cardinality(kept) = len - 1
  <2>1. IsFiniteSet(1..len) /\ Cardinality(1..len) = len
    BY <1>1, FS_Interval
  <2>2. Cardinality((1..len) \ {p}) = IF p \in 1..len THEN Cardinality(1..len) - 1
                                                       ELSE Cardinality(1..len)
    BY <2>1, FS_RemoveElement
  <2> QED
    BY <1>1, <1>2, <2>1, <2>2
<1>4. \A k \in kept : Cardinality(kept \cap 1..k) = IF k < p THEN k ELSE k - 1
  <2> HIDE DEF len
  <2> SUFFICES ASSUME NEW k \in (1..len) \ {p}
               PROVE  Cardinality(((1..len) \ {p}) \cap 1..k) = IF k < p THEN k ELSE k - 1
    BY <1>2
  <2> QED
    BY <1>1, LeftBelow
<1>5. ASSUME NEW j \in 1..(len - 1) PROVE nth(j) = IF j < p THEN j ELSE j + 1
  <2> HIDE DEF len
  <2> DEFINE q == IF j < p THEN j ELSE j + 1
  <2>1. q \in (1..len) \ {p}
    BY <1>1, <1>5
  <2>2. \A k \in (1..len) \ {p} : (IF k < p THEN k ELSE k - 1) = j <=> k = q
    BY <1>1, <1>5
  <2> HIDE DEF q, kept
  <2>3. \A k \in kept : Cardinality(kept \cap 1..k) = j <=> k = q
    BY <1>2, <1>4, <2>2
  <2>4. q \in kept
    BY <1>2, <2>1
  <2>5. nth(j) = q
    BY <2>3, <2>4
  <2> QED
    BY <2>5 DEF q
<1>6. clients' = [j \in 1..Cardinality(kept) |-> clients[nth(j)]]
  BY DEF Forget
<1> HIDE DEF nth, kept
<1>7. clients' = [j \in 1..(len - 1) |-> clients[nth(j)]]
  BY <1>3, <1>6
<1> QED
  BY <1>5, <1>7

\* close and list::remove go together.
LEMMA DropListed ==
  ASSUME RoomInv, Listed, NEW c \in Client, fd[c] # 0, Drop(c)
  PROVE  Listed'
<1>1. /\ fd' = [fd EXCEPT ![c] = 0] /\ Forget(fd[c])
      /\ fd \in [Client -> 0..FdLimit] /\ clients \in Seq(Fds)
  BY DEF Drop, RoomInv, RoomTypes, Listed
<1>2. PICK p \in 1..Len(clients) : clients[p] = fd[c]
  BY DEF Listed
<1>3. PICK len \in Nat : len = Len(clients) /\ p \in 1..len
  BY <1>1
<1>4. clients' = [j \in 1..(len - 1) |-> clients[IF j < p THEN j ELSE j + 1]]
  BY <1>1, <1>2, <1>3, ForgetOne DEF Listed
<1>5. \A k \in 1..len : clients[k] \in Fds
  BY <1>1, <1>3
<1>6. len - 1 \in Nat /\ \A j \in 1..(len - 1) : (IF j < p THEN j ELSE j + 1) \in (1..len) \ {p}
  BY <1>3
<1>7. /\ clients' \in Seq(Fds) /\ Len(clients') = len - 1
      /\ \A j \in 1..(len - 1) : clients'[j] = clients[IF j < p THEN j ELSE j + 1]
  <2>1. \A j \in 1..(len - 1) : clients[IF j < p THEN j ELSE j + 1] \in Fds
    BY <1>5, <1>6
  <2>2. clients' \in [1..(len - 1) -> Fds]
    BY <1>4, <2>1
  <2>3. clients' \in Seq(Fds)
    BY <1>6, <2>2
  <2>4. Len(clients') = len - 1
    BY <1>4, <1>6
  <2> QED
    BY <1>4, <2>3, <2>4
<1>8. fd'[c] = 0 /\ \A d \in Client \ {c} : fd'[d] = fd[d]
  BY <1>1
<1>9. \A k \in 1..len : k # p => clients[k] # fd[c]
  BY <1>2, <1>3 DEF Listed
<1>10. ASSUME NEW d \in Client, fd'[d] # 0
       PROVE  \E k \in 1..Len(clients') : clients'[k] = fd'[d]
  <2>1. d # c /\ fd'[d] = fd[d]
    BY <1>8, <1>10
  <2>2. PICK m \in 1..len : clients[m] = fd[d]
    BY <1>3, <1>10, <2>1 DEF Listed
  <2>3. m # p
    BY <1>2, <1>10, <2>1, <2>2 DEF RoomInv, OneClientEach
  <2>4. PICK k \in 1..(len - 1) : (IF k < p THEN k ELSE k + 1) = m
    <3>1. CASE m < p
      BY <1>3, <3>1
    <3>2. CASE m > p
      <4>1. m - 1 \in 1..(len - 1) /\ ~(m - 1 < p) /\ m - 1 + 1 = m
        BY <1>3, <3>2
      <4> QED
        BY <4>1
    <3> QED
      BY <1>3, <2>3, <3>1, <3>2
  <2> QED
    BY <1>7, <2>1, <2>2, <2>4
<1>11. ASSUME NEW k \in 1..Len(clients') PROVE \E d \in Client : fd'[d] = clients'[k]
  <2>1. PICK m \in (1..len) \ {p} : clients'[k] = clients[m]
    BY <1>6, <1>7
  <2>2. PICK d \in Client : fd[d] = clients[m]
    BY <1>3, <2>1 DEF Listed
  <2>3. d # c
    BY <1>9, <2>1, <2>2
  <2> QED
    BY <1>8, <2>1, <2>2, <2>3
<1>12. ASSUME NEW k \in 1..Len(clients'), NEW m \in 1..Len(clients'), clients'[k] = clients'[m]
       PROVE  k = m
  <2>1. clients[IF k < p THEN k ELSE k + 1] = clients[IF m < p THEN m ELSE m + 1]
    BY <1>7, <1>12
  <2>2. (IF k < p THEN k ELSE k + 1) = (IF m < p THEN m ELSE m + 1)
    BY <1>3, <1>6, <1>7, <2>1 DEF Listed
  <2>3. k \in Nat /\ m \in Nat /\ p \in Nat
    BY <1>3, <1>7
  <2> QED
    BY <2>2, <2>3
<1> QED
  BY <1>7, <1>10, <1>11, <1>12 DEF Listed

\* The descriptor of a new client was not in the list.
LEMMA AcceptListed ==
  ASSUME RoomInv, Listed, Accept
  PROVE  Listed'
<1>1. CASE AcceptFails
  <2>1. UNCHANGED <<clients, fd>>
    BY <1>1 DEF Accept
  <2> QED
    BY <2>1 DEF Listed, Fds
<1>2. CASE ~AcceptFails
  <2> DEFINE c == Head(backlog)
  <2>1. PICK n \in Fds : /\ Lowest(n) /\ fd' = [fd EXCEPT ![c] = n]
                         /\ clients' = Append(clients, n)
    BY <1>2 DEF Accept
  <2>2. c \in Client /\ fd[c] = 0
    <3>1. backlog # << >> /\ backlog \in Seq(Client)
      BY <1>2 DEF AcceptFails, RoomInv, RoomTypes
    <3>2. c = backlog[1] /\ 1 \in 1..Len(backlog) /\ backlog[1] \in Client
      BY <3>1
    <3> QED
      BY <3>2 DEF RoomInv, Waiting
  <2>3. n # 0 /\ \A d \in Client : fd[d] # n
    BY <2>1, EpollRoomAssumption DEF Lowest, FreeFds, Owners, Fds
  <2>4. fd'[c] = n /\ \A d \in Client \ {c} : fd'[d] = fd[d]
    BY <2>1, <2>2 DEF RoomInv, RoomTypes
  <2>5. PICK len \in Nat : len = Len(clients) /\ clients \in Seq(Fds)
    BY DEF Listed
  <2>6. /\ clients' \in Seq(Fds) /\ Len(clients') = len + 1 /\ clients'[len + 1] = n
        /\ \A k \in 1..len : clients'[k] = clients[k]
    BY <2>1, <2>5
  <2>7. \A k \in 1..len : clients[k] # n
    BY <2>3, <2>5 DEF Listed
  <2>8. \A k \in 1..(len + 1) : k \in 1..len \/ k = len + 1
    BY <2>5
  <2>9. 1..len \subseteq 1..(len + 1) /\ len + 1 \in 1..(len + 1)
    BY <2>5
  <2>10. ASSUME NEW d \in Client, fd'[d] # 0
         PROVE  \E k \in 1..Len(clients') : clients'[k] = fd'[d]
    <3>1. CASE d = c
      BY <2>4, <2>6, <2>9, <3>1
    <3>2. CASE d # c
      <4>1. PICK k \in 1..len : clients[k] = fd[d]
        BY <2>4, <2>5, <2>10, <3>2 DEF Listed
      <4> QED
        BY <2>4, <2>6, <2>9, <3>2, <4>1
    <3> QED
      BY <3>1, <3>2
  <2>11. ASSUME NEW k \in 1..Len(clients') PROVE \E d \in Client : fd'[d] = clients'[k]
    <3>1. CASE k = len + 1
      BY <2>2, <2>4, <2>6, <3>1
    <3>2. CASE k \in 1..len
      <4>1. PICK d \in Client : fd[d] = clients[k]
        BY <2>5, <3>2 DEF Listed
      <4>2. d # c
        <5>1. clients[k] \in Fds
          BY <2>5, <3>2
        <5>2. clients[k] # 0
          BY <5>1, EpollRoomAssumption DEF Fds
        <5> QED
          BY <2>2, <4>1, <5>2
      <4> QED
        BY <2>4, <2>6, <3>2, <4>1, <4>2
    <3> QED
      BY <2>6, <2>8, <3>1, <3>2
  <2>12. ASSUME NEW k \in 1..Len(clients'), NEW m \in 1..Len(clients'), clients'[k] = clients'[m]
         PROVE  k = m
    <3>1. (k \in 1..len \/ k = len + 1) /\ (m \in 1..len \/ m = len + 1)
      BY <2>6, <2>8
    <3>2. CASE k \in 1..len /\ m \in 1..len
      BY <2>5, <2>6, <2>12, <3>2 DEF Listed
    <3> QED
      BY <2>6, <2>7, <2>12, <3>1, <3>2
  <2> QED
    BY <2>6, <2>10, <2>11, <2>12 DEF Listed, Fds
<1> QED
  BY <1>1, <1>2

LEMMA ListedStep == RoomInv /\ Listed /\ [Next]_vars => Listed'
<1> SUFFICES ASSUME RoomInv, Listed, [Next]_vars PROVE Listed'
  OBVIOUS
<1>1. ASSUME UNCHANGED <<clients, fd>> PROVE Listed'
  BY <1>1 DEF Listed
<1>2. CASE Accept
  BY <1>2, AcceptListed
<1>3. ASSUME NEW n \in Fds, sendBroadcastmessage(n) PROVE Listed'
  <2>1. PICK c \in Client : fd[c] = n /\ (Drop(c) \/ UNCHANGED <<clients, fd>>)
    BY <1>3 DEF sendBroadcastmessage, Owners
  <2>2. n # 0
    BY EpollRoomAssumption DEF Fds
  <2> QED
    BY <1>1, <2>1, <2>2, DropListed
<1>4. CASE Wait \/ UNCHANGED vars
  BY <1>1, <1>4 DEF Wait, vars
<1>5. ASSUME NEW c \in Client, Connect(c) \/ Hello(c) \/ Recv(c) \/ Killed(c) \/ KernelReset(c)
      PROVE  Listed'
  BY <1>1, <1>5 DEF Connect, Hello, Recv, Killed, KernelReset
<1> QED
  BY <1>2, <1>3, <1>4, <1>5 DEF Next, Server

LEMMA ListedInit == Init => Listed
BY DEF Init, Listed

\* For any number of clients and descriptors: although descriptors are reused,
\* the list, epoll's events and the sockets always agree on who is who.
THEOREM RoomNoStaleDescriptor == Spec => []NoStaleDescriptor
<1>1. RoomInv /\ Listed => NoStaleDescriptor
  <2> SUFFICES ASSUME RoomInv, Listed PROVE NoStaleDescriptor
    OBVIOUS
  <2>1. clients \in Seq(Fds) /\ DOMAIN clients = 1..Len(clients)
    BY DEF Listed
  <2>2. ToSet(clients) \subseteq {fd[c] : c \in {d \in Client : fd[d] # 0}}
    <3> SUFFICES ASSUME NEW k \in 1..Len(clients)
                 PROVE  \E c \in Client : fd[c] # 0 /\ clients[k] = fd[c]
      BY <2>1 DEF ToSet
    <3>1. PICK c \in Client : fd[c] = clients[k]
      BY DEF Listed
    <3>2. clients[k] # 0
      <4>1. clients[k] \in Fds
        BY <2>1
      <4> QED
        BY <4>1, EpollRoomAssumption DEF Fds
    <3> QED
      BY <3>1, <3>2
  <2>3. {fd[c] : c \in {d \in Client : fd[d] # 0}} \subseteq ToSet(clients)
    BY <2>1 DEF Listed, ToSet
  <2>4. IsInjective(clients)
    BY <2>1 DEF Listed, IsInjective
  <2> QED
    BY <2>2, <2>3, <2>4 DEF NoStaleDescriptor, RoomInv, OneClientEach, EventsAreReal
<1> QED
  BY <1>1, RoomInit, RoomStep, CountsInit, CountsStep, ListedInit, ListedStep, PTL DEF Spec
-----------------------------------------------------------------------------
(* Why the server goes down.                                               *)

\* An error is left by a reset, and an event of the listener still to handle
\* has somebody waiting: what is on the ready list is the listener or open, so
\* that no other socket is reported as 0.
ErrorsAreResets == err \in [Client -> {"none", "reset", "broken"}]
                   /\ \A c \in Client : err[c] # "none" => peer[c] = "rst"
AcceptDue == (0 \in events => backlog # << >>) /\ \A c \in Client : c \in armed => fd[c] # 0

LEMMA ErrorsStep == RoomInv /\ ErrorsAreResets /\ [Next]_vars => ErrorsAreResets'
<1> SUFFICES ASSUME RoomInv, ErrorsAreResets, [Next]_vars PROVE ErrorsAreResets'
  OBVIOUS
<1>0. peer \in [Client -> {"new", "up", "fin", "rst"}] /\ err \in [Client -> {"none", "reset", "broken"}]
  BY DEF RoomInv, RoomTypes, ErrorsAreResets
<1>1. ASSUME UNCHANGED <<peer, err>> PROVE ErrorsAreResets'
  BY <1>1 DEF ErrorsAreResets
<1>2. CASE Server \/ UNCHANGED vars
  <2>1. UNCHANGED <<peer, err>>
    BY <1>2 DEF Server, Wait, Accept, sendBroadcastmessage, Drop, vars, peerVars
  <2> QED
    BY <1>1, <2>1
<1>3. ASSUME NEW c \in Client, Connect(c) \/ Hello(c) \/ Recv(c) PROVE ErrorsAreResets'
  <2>1. err' = err /\ (peer' = peer \/ (peer[c] = "new" /\ peer' = [peer EXCEPT ![c] = "up"]))
    BY <1>3 DEF Connect, Hello, Recv
  <2> QED
    BY <1>0, <2>1 DEF ErrorsAreResets
<1>4. ASSUME NEW c \in Client, Killed(c) \/ KernelReset(c) PROVE ErrorsAreResets'
  <2>1. CASE \E e \in {"reset", "broken"} : ResetBy(c, e)
    BY <1>0, <2>1 DEF ResetBy, ErrorsAreResets
  <2>2. CASE peer[c] = "up" /\ peer' = [peer EXCEPT ![c] = "fin"] /\ err' = err
    BY <1>0, <2>2 DEF ErrorsAreResets
  <2> QED
    BY <1>4, <2>1, <2>2 DEF Killed, KernelReset
<1> QED
  BY <1>2, <1>3, <1>4 DEF Next

LEMMA AcceptDueStep == RoomInv /\ AcceptDue /\ [Next]_vars => AcceptDue'
<1> SUFFICES ASSUME RoomInv, AcceptDue, [Next]_vars PROVE AcceptDue'
  OBVIOUS
<1>0. /\ fd \in [Client -> 0..FdLimit] /\ backlog \in Seq(Client)
      /\ \A c \in Client : c \in armed => fd[c] # 0
  BY DEF RoomInv, RoomTypes, AcceptDue
<1>1. CASE Wait
  <2>1. 0 \in Reported => backlog # << >>
    BY <1>0, EpollRoomAssumption DEF Reported, RoomInv, RoomTypes
  <2> QED
    BY <1>1, <2>1 DEF Wait, AcceptDue
<1>2. CASE Accept
  <2>1. 0 \notin events'
    BY <1>2 DEF Accept
  <2>2. CASE AcceptFails
    BY <1>2, <2>1, <2>2 DEF Accept, AcceptDue
  <2>3. CASE ~AcceptFails
    <3> DEFINE c == Head(backlog)
    <3>1. /\ \E n \in Fds : fd' = [fd EXCEPT ![c] = n]
          /\ armed' = IF Readable(c) THEN armed \cup {c} ELSE armed
      BY <1>2, <2>3 DEF Accept
    <3>2. PICK n \in Fds : fd' = [fd EXCEPT ![c] = n]
      BY <3>1
    <3>3. n # 0 /\ armed' \subseteq armed \cup {c}
      BY <3>1, EpollRoomAssumption DEF Fds
    <3>4. \A d \in Client : fd'[d] = IF d = c THEN n ELSE fd[d]
      BY <1>0, <3>2
    <3> QED
      BY <1>0, <2>1, <3>3, <3>4 DEF AcceptDue
  <2> QED
    BY <2>2, <2>3
<1>3. ASSUME NEW n \in Fds, sendBroadcastmessage(n) PROVE AcceptDue'
  <2>1. events' \subseteq events /\ backlog' = backlog
    BY <1>3 DEF sendBroadcastmessage, Rest
  <2>2. PICK c \in Client : \/ fd' = [fd EXCEPT ![c] = 0] /\ armed' = armed \ {c}
                            \/ UNCHANGED <<fd, armed>>
    BY <1>3 DEF sendBroadcastmessage, Drop, Owners
  <2> QED
    BY <1>0, <2>1, <2>2 DEF AcceptDue
<1>4. ASSUME NEW c \in Client, Connect(c) PROVE AcceptDue'
  <2>1. backlog' # << >>
    BY <1>0, <1>4 DEF Connect
  <2>2. fd' = fd /\ armed' = armed \cup {Listener}
    BY <1>4 DEF Connect
  <2> QED
    BY <1>0, <2>1, <2>2, EpollRoomAssumption DEF AcceptDue
<1>5. ASSUME NEW c \in Client, Hello(c) \/ Recv(c) \/ Killed(c) \/ KernelReset(c) PROVE AcceptDue'
  <2>1. UNCHANGED <<events, backlog, fd>> /\ (armed' = armed \/ (fd[c] # 0 /\ armed' = armed \cup {c}))
    BY <1>5 DEF Hello, Recv, Killed, KernelReset, Edge
  <2> QED
    BY <1>0, <2>1 DEF AcceptDue
<1>6. CASE UNCHANGED vars
  BY <1>6 DEF vars, AcceptDue
<1> QED
  BY <1>1, <1>2, <1>3, <1>4, <1>5, <1>6 DEF Next, Server

\* For any number of clients, descriptors and messages: the server goes down
\* only when a client has gone or does not read what it is sent, when there is
\* no descriptor for one more, or by the value sendBroadcastmessage does not
\* return.
THEOREM RoomDownForCause == Spec => DownForCause
<1> DEFINE Cause == down' # down =>
                      \/ \E c \in Client : peer[c] \in {"fin", "rst"} \/ wire[c] >= SndBuf
                      \/ FreeFds = {}
                      \/ down' = "exit" /\ inq' # inq
           RoomDown == RoomInv /\ Counts /\ Listed /\ ErrorsAreResets /\ AcceptDue
<1>1. RoomDown /\ [Next]_vars => [Cause]_vars
  <2> SUFFICES ASSUME RoomDown, Next PROVE Cause
    OBVIOUS
  <2>1. CASE Accept
    <3>1. backlog # << >> /\ backlog \in Seq(Client)
      BY <2>1 DEF Accept, AcceptDue, RoomInv, RoomTypes
    <3>2. CASE AcceptFails
      BY <3>1, <3>2 DEF AcceptFails
    <3>3. CASE ~AcceptFails /\ down' # down
      <4>1. Head(backlog) \in Client
        BY <3>1
      <4>2. err[Head(backlog)] # "none"
        BY <2>1, <3>3 DEF Accept
      <4> QED
        BY <4>1, <4>2 DEF ErrorsAreResets
    <3> QED
      BY <3>2, <3>3
  <2>2. ASSUME NEW n \in Fds, sendBroadcastmessage(n), down' # down PROVE Cause
    <3> DEFINE bad == {k \in 1..Len(clients) : Unsendable(clients[k])}
    <3>1. PICK c \in Client : /\ down = "no" /\ Unread(c) # -1 /\ Broadcast
                              /\ inq' = [inq EXCEPT ![c] = Unread(c)]
      BY <2>2 DEF sendBroadcastmessage, Drop, Owners
    <3>2. CASE bad = {}
      <4>1. down' = "exit"
        BY <2>2, <3>1, <3>2 DEF Broadcast
      <4>2. inq \in [Client -> Nat] /\ BufSize \in Nat \ {0}
        BY EpollRoomAssumption DEF RoomInv, RoomTypes
      <4>3. Unread(c) # inq[c]
        BY <3>1, <4>2 DEF Unread
      <4>4. inq' # inq
        BY <3>1, <4>2, <4>3
      <4> QED
        BY <4>1, <4>4
    <3>3. CASE bad # {}
      <4>1. PICK k \in 1..Len(clients) : Unsendable(clients[k])
        BY <3>3
      <4>2. PICK d \in Client : fd[d] = clients[k]
        BY DEF Listed
      <4>3. err[d] # "none" \/ wire[d] >= SndBuf
        BY <4>1, <4>2 DEF Unsendable, Owners
      <4> QED
        BY <4>3 DEF ErrorsAreResets
    <3> QED
      BY <3>2, <3>3
  <2>3. CASE Wait \/ \E c \in Client : Connect(c) \/ Hello(c) \/ Recv(c) \/ Killed(c) \/ KernelReset(c)
    BY <2>3 DEF Wait, Connect, Hello, Recv, Killed, KernelReset
  <2> QED
    BY <2>1, <2>2, <2>3 DEF Next, Server
<1>2. Init => RoomDown
  <2>1. Init => ErrorsAreResets /\ AcceptDue
    BY DEF Init, ErrorsAreResets, AcceptDue
  <2> QED
    BY <2>1, RoomInit, CountsInit, ListedInit
<1>3. RoomDown /\ [Next]_vars => RoomDown'
  BY RoomStep, CountsStep, ListedStep, ErrorsStep, AcceptDueStep
<1> QED
  BY <1>1, <1>2, <1>3, PTL DEF Spec, DownForCause
=============================================================================
