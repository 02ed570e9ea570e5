----------------------------- MODULE EpollRoom -----------------------------
(***************************************************************************)
(* linux_tcp/epoll.cc and its clients linux_tcp/client.cc.  The server     *)
(* takes what epoll_wait reports one event after the other: a connection   *)
(* is accepted and greeted, bytes of a client are answered by a message to *)
(* all clients, and what recv does not return as bytes ends the client.    *)
(* All sockets are edge-triggered and do not block.  A client says hello,  *)
(* waits for something to read and sends that back, again and again, until *)
(* it is killed.                                                           *)
(*                                                                         *)
(* The kernel is external.  Descriptors are numbers, the lowest free one   *)
(* first; a socket is on epoll's ready list (armed) when something has     *)
(* come in since it was last reported, and is reported if it is readable.  *)
(* After a reset one call reports the error, a later send raises SIGPIPE.  *)
(* Bytes are counted in messages, a hello being one.  What the clients do  *)
(* once the server is down is left out.                                    *)
(***************************************************************************)
EXTENDS Integers, Sequences, SequencesExt

CONSTANTS
  Client,
  Listener,
  FdLimit,   \* descriptors the process may have for clients
  BufSize,   \* BUF_SIZE, in messages
  BuffSize,  \* the size of a client's buff, in messages
  SndBuf,    \* messages a socket holds for a client that does not read
  Mortals,   \* bound: the clients that may be killed
  MaxHellos  \* bound: how often each client sends

ASSUME EpollRoomAssumption ==
  /\ Listener \notin Client
  /\ FdLimit \in Nat /\ BufSize \in Nat \ {0} /\ BuffSize \in Nat \ {0} /\ SndBuf \in Nat \ {0}
  /\ MaxHellos \in [Client -> Nat]

VARIABLES
  peer,     \* the client: "new", "up", "fin" (closed) or "rst"
  turn,     \* what it does next: "send" or "recv"
  hellos,   \* how often it has sent
  buff,     \* the messages in its buff: a hello, later what it has received
  inq,      \* messages received by the kernel, not by the server
  wire,     \* messages sent to the client and not read by it
  err,      \* "none"; "reset" until a call reports it; then "broken"
  backlog,  \* connections not yet accepted
  armed,    \* epoll's ready list
  fd,       \* the descriptor of the client's socket, 0 without one
  clients,  \* the list, of descriptors
  events,   \* what epoll_wait has reported and the loop has still to handle
  down      \* why the server is down, "no" while it is up

peerVars == <<peer, turn, hellos, buff>>
vars == <<peerVars, inq, wire, err, backlog, armed, fd, clients, events, down>>

Fds == 1..FdLimit
Owners(n) == {c \in Client : fd[c] = n}
FreeFds == {n \in Fds : Owners(n) = {}}
Readable(c) == inq[c] > 0 \/ peer[c] \in {"fin", "rst"}

Init ==
  /\ peer = [c \in Client |-> "new"] /\ turn = [c \in Client |-> "send"]
  /\ hellos = [c \in Client |-> 0] /\ buff = [c \in Client |-> 1]
  /\ inq = [c \in Client |-> 0] /\ wire = [c \in Client |-> 0] /\ err = [c \in Client |-> "none"]
  /\ backlog = << >> /\ armed = {} /\ fd = [c \in Client |-> 0]
  /\ clients = << >> /\ events = {} /\ down = "no"
-----------------------------------------------------------------------------
\* The clients.

\* Something has come in on c's socket, if the server has registered it.
Edge(c) == armed' = IF fd[c] # 0 THEN armed \cup {c} ELSE armed

Connect(c) ==
  /\ peer[c] = "new" /\ down = "no"
  /\ peer' = [peer EXCEPT ![c] = "up"]
  /\ backlog' = Append(backlog, c)
  /\ armed' = armed \cup {Listener}
  /\ UNCHANGED <<turn, hellos, buff, inq, wire, err, fd, clients, events, down>>

\* What strlen may find in buff: a full one has no '\0', and what follows it
\* counts too.
strlen(c) == IF buff[c] < BuffSize THEN {buff[c]} ELSE {buff[c], buff[c] + 1}

\* The client sends its buff and clears it.
Hello(c) ==
  /\ peer[c] = "up" /\ turn[c] = "send" /\ down = "no"
  /\ hellos[c] < MaxHellos[c]
  /\ hellos' = [hellos EXCEPT ![c] = @ + 1]
  /\ turn' = [turn EXCEPT ![c] = "recv"]
  /\ \E n \in strlen(c) : inq' = [inq EXCEPT ![c] = @ + n]
  /\ buff' = [buff EXCEPT ![c] = 0]
  /\ Edge(c)
  /\ UNCHANGED <<peer, wire, err, backlog, fd, clients, events, down>>

\* recv waits for something and returns what buff has room for.
Recv(c) ==
  /\ peer[c] = "up" /\ turn[c] = "recv" /\ wire[c] > 0 /\ down = "no"
  /\ turn' = [turn EXCEPT ![c] = "send"]
  /\ LET n == IF wire[c] < BuffSize THEN wire[c] ELSE BuffSize
     IN  buff' = [buff EXCEPT ![c] = n] /\ wire' = [wire EXCEPT ![c] = @ - n]
  /\ UNCHANGED <<peer, hellos, inq, err, backlog, armed, fd, clients, events, down>>

\* A reset, for which the server's calls will report e; messages not yet
\* received by the server may be lost.
ResetBy(c, e) ==
  /\ peer' = [peer EXCEPT ![c] = "rst"]
  /\ err' = [err EXCEPT ![c] = e]
  /\ \E n \in {0, inq[c]} : inq' = [inq EXCEPT ![c] = n]
  /\ wire' = [wire EXCEPT ![c] = 0]

\* The process is killed; messages it has not read make its close a reset.
Killed(c) ==
  /\ peer[c] = "up" /\ down = "no" /\ c \in Mortals
  /\ \/ wire[c] > 0 /\ ResetBy(c, "reset")
     \/ /\ wire[c] = 0 /\ peer' = [peer EXCEPT ![c] = "fin"]
        /\ UNCHANGED <<inq, wire, err>>
  /\ Edge(c)
  /\ UNCHANGED <<turn, hellos, buff, backlog, fd, clients, events, down>>

\* The answer of the kernel of a client that is gone to what it is sent.
KernelReset(c) ==
  /\ peer[c] = "fin" /\ wire[c] > 0 /\ down = "no"
  /\ ResetBy(c, "broken")
  /\ Edge(c)
  /\ UNCHANGED <<turn, hellos, buff, backlog, fd, clients, events, down>>
-----------------------------------------------------------------------------
\* The server.  The listener's descriptor is 0 in events.

Reported ==
  {fd[c] : c \in {d \in armed \ {Listener} : Readable(d)}}
    \cup {n \in {0} : Listener \in armed /\ backlog # << >>}

\* epoll_wait: every socket on the ready list is taken off it.
Wait ==
  /\ down = "no" /\ events = {} /\ Reported # {}
  /\ events' = Reported
  /\ armed' = {}
  /\ UNCHANGED <<peerVars, inq, wire, err, backlog, fd, clients, down>>

\* Mutant: accept is called until it fails, and its result not looked at.
AcceptFailsLoop == TRUE

AcceptFails == backlog = << >> \/ FreeFds = {}
Lowest(n) == n \in FreeFds /\ \A m \in FreeFds : n <= m

\* The event of the listener: one connection is accepted, registered, put
\* into the list and greeted.  accept's -1 is treated the same way until send
\* fails; whenever the greeting cannot be sent the program exits.
Accept ==
  /\ down = "no" /\ 0 \in events
  /\ events' = events \ {0}
  /\ IF AcceptFails
       THEN down' = "exit" /\ UNCHANGED <<wire, err, backlog, armed, fd, clients>>
       ELSE LET c == Head(backlog) IN
            /\ backlog' = Tail(backlog)
            /\ \E n \in Fds : /\ Lowest(n)
                              /\ fd' = [fd EXCEPT ![c] = n]
                              /\ clients' = Append(clients, n)
            /\ armed' = IF Readable(c) THEN armed \cup {c} ELSE armed
            /\ IF err[c] = "none"
                 THEN wire' = [wire EXCEPT ![c] = @ + 1] /\ UNCHANGED <<err, down>>
                 ELSE down' = "exit" /\ UNCHANGED <<wire, err>>
  /\ UNCHANGED <<peerVars, inq>>

\* Mutant: the list keeps the descriptor.
ForgetNot(n) == UNCHANGED clients

\* list::remove: the elements that stay keep their order.
Forget(n) ==
  LET kept == {k \in 1..Len(clients) : clients[k] # n}
      nth(j) == CHOOSE k \in kept : Cardinality(kept \cap 1..k) = j
  IN  clients' = [j \in 1..Cardinality(kept) |-> clients[nth(j)]]

\* recv returned no bytes: the socket is unregistered and closed.
Drop(c) ==
  /\ fd' = [fd EXCEPT ![c] = 0]
  /\ armed' = armed \ {c}
  /\ Forget(fd[c])
  /\ UNCHANGED <<inq, wire, err, down>>

Unsendable(n) == \A c \in Owners(n) : err[c] # "none" \/ wire[c] >= SndBuf

\* The message to all clients.  The first send that fails ends the program:
\* on a broken socket by SIGPIPE, else by the message about the error, which
\* prints the number errno as a string.  There is no return statement: after
\* the loop the result is what operator!= of the iterators has left, in which
\* the caller may see an error and exit.
Broadcast ==
  LET bad == {k \in 1..Len(clients) : Unsendable(clients[k])}
      told == {k \in 1..Len(clients) : \A b \in bad : k < b}
  IN  /\ wire' = [c \in Client |->
                    IF \E k \in told : clients[k] = fd[c] THEN wire[c] + 1 ELSE wire[c]]
      /\ IF bad = {} THEN down' \in {"no", "exit"}
         ELSE down' = IF \E c \in Owners(clients[Min(bad)]) : err[c] = "broken"
                        THEN "SIGPIPE" ELSE "SIGSEGV"

\* Mutant: an event that ends a client ends the loop over the events.
RestDropped(n) == IF \A c \in Owners(n) : inq[c] = 0 THEN {} ELSE events \ {n}

Rest(n) == events \ {n}

\* Mutant: recv is called until it returns no bytes.
UnreadAfterAll(c) == IF inq[c] > 0 THEN -1 ELSE 0

\* The messages left unread by one recv; -1: recv returns no bytes.
Unread(c) == IF inq[c] = 0 THEN -1 ELSE IF inq[c] > BufSize THEN inq[c] - BufSize ELSE 0

\* The event of a client: sendBroadcastmessage.
sendBroadcastmessage(n) ==
  /\ down = "no" /\ n \in events \ {0}
  /\ events' = Rest(n)
  /\ \E c \in Owners(n) :
       IF Unread(c) = -1
         THEN Drop(c)
         ELSE /\ inq' = [inq EXCEPT ![c] = Unread(c)]
              /\ Broadcast
              /\ UNCHANGED <<err, armed, fd, clients>>
  /\ UNCHANGED <<peerVars, backlog>>
-----------------------------------------------------------------------------
Server == Wait \/ Accept \/ \E n \in Fds : sendBroadcastmessage(n)

Next ==
  \/ Server
  \/ \E c \in Client : Connect(c) \/ Hello(c) \/ Recv(c) \/ Killed(c) \/ KernelReset(c)

Spec == Init /\ [][Next]_vars

\* The server runs, a client reads what has come, a kernel answers.
Fairness == WF_vars(Server) /\ \A c \in Client : WF_vars(Recv(c)) /\ WF_vars(KernelReset(c))

FairSpec == Spec /\ Fairness
-----------------------------------------------------------------------------
\* Descriptors are reused as soon as they are closed, and the list, epoll and
\* the events still to handle know clients by descriptor only: each of them
\* names open sockets, the list each one once, so nothing meant for a client
\* that has gone reaches its successor.
NoStaleDescriptor ==
  /\ \A c, d \in Client : fd[c] = fd[d] /\ fd[c] # 0 => c = d
  /\ down = "no" => ToSet(clients) = {fd[c] : c \in {d \in Client : fd[d] # 0}}
  /\ IsInjective(clients)
  /\ \A n \in events \ {0} : \E c \in Client : fd[c] = n /\ Readable(c)

\* A client is dropped only when it has gone: recv, which takes "nothing yet"
\* for the end as well, is never called with nothing there.
DroppedForCause == [][\A c \in Client : fd[c] # 0 /\ fd'[c] = 0 => peer[c] \in {"fin", "rst"}]_vars

\* The server goes down only when a client has gone, or does not read what it
\* is sent, when there is no descriptor for one more, or by the value that
\* sendBroadcastmessage does not return.
DownForCause ==
  [][down' # down =>
       \/ \E c \in Client : peer[c] \in {"fin", "rst"} \/ wire[c] >= SndBuf
       \/ FreeFds = {}
       \/ down' = "exit" /\ inq' # inq]_vars

\* A client that finds nobody waiting before it is accepted, and one that has
\* been accepted never waits in recv for ever, unless the server goes down.
\* (A client that finds somebody waiting may wait until another one connects:
\* the two are one event of the edge-triggered listener, for one accept.)
NobodyWaits ==
  \A c \in Client :
    /\ backlog # << >> /\ Head(backlog) = c /\ Listener \in armed ~> fd[c] # 0 \/ down # "no"
    /\ fd[c] # 0 /\ peer[c] = "up" /\ turn[c] = "recv" ~>
         turn[c] = "send" \/ peer[c] # "up" \/ down # "no"
=============================================================================
