------------------------------ MODULE Reactor ------------------------------
(***************************************************************************)
(* ccnet's event loop and everything that runs on it: EventLoop,           *)
(* EPollPoller, Channel, Acceptor, TcpServer and TcpConnection, with the   *)
(* message callback of the echo example or TcpServer's default one.  The   *)
(* loop is one thread (TcpServer::newConnection gives every connection to  *)
(* the base loop), so the interleavings that matter are those of its       *)
(* handlers with the clients and the kernel of module Sockets.             *)
(*                                                                         *)
(* One iteration of EventLoop::loop is a Poll followed by one handleEvent  *)
(* per active channel.  Channel::handleEvent runs the read callback and    *)
(* then the write callback; a client may act between poll and handler and  *)
(* between the two callbacks, so each is an action.  Buffers are queues of *)
(* bytes, which module Buffer is shown to implement.                       *)
(***************************************************************************)
EXTENDS Sockets

CONSTANTS
  Listener,         \* the acceptor's channel
  InitialSize,      \* kInitialSize, the input buffer's room; 1024 in the code
  MessageCallback,  \* "echo" (EchoServer::onMessage) or "default" (TcpServer.cc)
  InitialEvents,    \* initial size of EPollPoller::events_; 16 in the code
  MaxConns          \* descriptors left for connections: accept fails beyond

ASSUME ReactorAssumption ==
  /\ Listener \notin Client
  /\ InitialSize \in Nat \ {0}
  /\ MessageCallback \in {"echo", "default"}
  /\ InitialEvents \in Nat \ {0}
  /\ MaxConns \in Nat

VARIABLES
  stage,        \* where the loop is: "poll", "dispatch", "write" (between the
                \* read and the write callback of handleEvent), or "send"
                \* (blocked in the write callback's send)
  active,       \* active_channels_ not yet handled
  revents,      \* Channel::revents_, {} when not among the active channels
  evsize,       \* events_.size()
  cur,          \* {c} while handleEvent of c's channel runs
  guard,        \* {c} while handleEvent's guard owns connection c
  channels_,    \* EPollPoller::channels_
  events_,      \* Channel::events_
  conn_state_,  \* TcpConnection::conn_state_, "none" before the accept
  connections_, \* TcpServer::connections_
  input,        \* TcpConnection::input_buffer_
  output,       \* TcpConnection::output_buffer_
  proc          \* "running", or "killed" by SIGPIPE

loopVars == <<stage, active, revents, evsize, cur, guard>>
connVars == <<conn_state_, connections_, input, output>>
serverVars == <<stage, active, revents, evsize, cur, guard, channels_, events_,
                conn_state_, connections_, input, output, proc>>
vars == <<kernelVars, serverVars>>

Event == {"IN", "PRI", "OUT", "HUP", "ERR"}

TypeOK ==
  /\ KernelTypeOK
  /\ stage \in {"poll", "dispatch", "write", "send"}
  /\ active \subseteq Client \cup {Listener}
  /\ revents \in [Client -> SUBSET Event]
  /\ evsize \in Nat \ {0}
  /\ cur \subseteq Client
  /\ guard \subseteq Client
  /\ channels_ \subseteq Client
  /\ events_ \in [Client -> SUBSET {"IN", "OUT"}]
  /\ conn_state_ \in [Client -> {"none", "kConnected", "kDisconnected"}]
  /\ connections_ \subseteq Client
  /\ input \in [Client -> Seq(Nat)]
  /\ \A c \in Client : Len(input[c]) <= InitialSize
  /\ output \in [Client -> Seq(Nat)]
  /\ proc \in {"running", "killed"}

\* TcpServer::start has run: the loop polls and the listening socket is
\* registered, level-triggered.
Init ==
  /\ KernelInit
  /\ stage = "poll"
  /\ active = {}
  /\ revents = [c \in Client |-> {}]
  /\ evsize = InitialEvents
  /\ cur = {}
  /\ guard = {}
  /\ channels_ = {}
  /\ events_ = [c \in Client |-> {}]
  /\ conn_state_ = [c \in Client |-> "none"]
  /\ connections_ = {}
  /\ input = [c \in Client |-> << >>]
  /\ output = [c \in Client |-> << >>]
  /\ proc = "running"
-----------------------------------------------------------------------------
\* Channel::update with the events ev, down to EPollPoller::updateChannel.
updateChannel(c, ev) ==
  /\ events_' = [events_ EXCEPT ![c] = ev]
  /\ IF c \in channels_ /\ ev = {}
       THEN channels_' = channels_ \ {c} /\ EpollDel(c)
       ELSE channels_' = channels_ \cup {c} /\ EpollSet(c, ev)

enableReading(c) == updateChannel(c, events_[c] \cup {"IN"})

\* Mutant: the new bit is set but update() is not called.
enableWritingNoUpdate(c) ==
  /\ events_' = [events_ EXCEPT ![c] = @ \cup {"OUT"}]
  /\ UNCHANGED <<channels_, epollVars>>

enableWriting(c) == updateChannel(c, events_[c] \cup {"OUT"})
disableWriting(c) == updateChannel(c, events_[c] \ {"OUT"})
disableAll(c) == updateChannel(c, {})
isWriting(c) == "OUT" \in events_[c]

\* Mutant: the loop polls again after one handler.
NextStageOneHandler(left) == stage' = "poll"

\* The loop goes on with the channels left, or polls again.
NextStage(left) == stage' = IF left = {} THEN "poll" ELSE "dispatch"
-----------------------------------------------------------------------------
\* EPollPoller::poll.  epoll_wait fills at most evsize entries, in an order
\* the code does not control; a full vector is doubled for the next time.
Pending == {c \in armed : Reported(c) # {}} \cup {l \in {Listener} : backlog # << >>}

\* Mutant: a full vector keeps its size.
ResizeEventsNever(n) == evsize' = evsize

ResizeEvents(n) == evsize' = IF n = evsize THEN 2 * evsize ELSE evsize

Poll ==
  /\ proc = "running" /\ stage = "poll"
  /\ Pending # {}
  /\ \E S \in SUBSET Pending :
       /\ S # {}
       /\ Cardinality(S) <= evsize
       /\ S = Pending \/ Cardinality(S) = evsize
       /\ active' = S
       /\ revents' = [c \in Client |-> IF c \in S THEN Reported(c) ELSE {}]
       /\ armed' = {c \in armed : Reported(c) # {}} \ S
       /\ ResizeEvents(Cardinality(S))
  /\ stage' = "dispatch"
  /\ UNCHANGED <<peer, sent, urg, rcvq, wire, got, err, backlog, epset, interest,
                 cur, guard, channels_, events_, connVars, proc>>

Accepted == {c \in Client : conn_state_[c] # "none"}

connectEstablished(c) ==
  /\ conn_state_' = [conn_state_ EXCEPT ![c] = "kConnected"]
  /\ enableReading(c)

\* A connection's name is unique, since nextConnId_ is never used twice.
newConnection(c) ==
  /\ connections_' = connections_ \cup {c}
  /\ connectEstablished(c)

\* Acceptor::handleRead, one accept per event.  Connections are never closed,
\* so every accept takes a descriptor for good.
AcceptorHandleRead(c) ==
  /\ proc = "running" /\ stage = "dispatch" /\ Listener \in active
  /\ Cardinality(Accepted) < MaxConns
  /\ c = Head(backlog)
  /\ backlog' = Tail(backlog)
  /\ active' = active \ {Listener}
  /\ NextStage(active \ {Listener})
  /\ UNCHANGED <<peer, sent, urg, rcvq, wire, got, err>>
  /\ newConnection(c)
  /\ UNCHANGED <<revents, evsize, cur, guard, input, output, proc>>

AcceptorHandleReadFails ==
  /\ proc = "running" /\ stage = "dispatch" /\ Listener \in active
  /\ Cardinality(Accepted) >= MaxConns
  /\ active' = active \ {Listener}
  /\ NextStage(active \ {Listener})
  /\ UNCHANGED <<kernelVars, revents, evsize, cur, guard, channels_, events_, connVars, proc>>
-----------------------------------------------------------------------------
\* The connection as connectDestroyed leaves it: the last reference may now be
\* handleEvent's guard.  It disconnects a connection that still is connected,
\* which one that comes from handleClose is not.
removeConnection(c) == connections_' = connections_ \ {c}

handleClose(c) ==
  /\ conn_state_' = [conn_state_ EXCEPT ![c] = "kDisconnected"]
  /\ disableAll(c)
  /\ removeConnection(c)

\* EchoServer::onMessage: send() appends the input to the output and asks for
\* EPOLLOUT, retrieveAll() empties the input.  send() and sendInLoop() do
\* nothing unless the connection is kConnected.
sendInLoop(c, msg) ==
  IF conn_state_[c] = "kConnected"
    THEN /\ output' = [output EXCEPT ![c] = @ \o msg]
         /\ IF isWriting(c)
              THEN UNCHANGED <<channels_, events_, epollVars>>
              ELSE enableWriting(c)
    ELSE UNCHANGED <<output, channels_, events_, epollVars>>

\* Mutants: the callback keeps the input it has echoed; it echoes nothing
\* while earlier output is still being written.
onMessageNoRetrieve(c, msg) ==
  /\ sendInLoop(c, msg)
  /\ input' = [input EXCEPT ![c] = msg]
onMessageDropsWhenBusy(c, msg) ==
  /\ input' = [input EXCEPT ![c] = << >>]
  /\ IF isWriting(c) THEN UNCHANGED <<output, channels_, events_, epollVars>>
                     ELSE sendInLoop(c, msg)

onMessage(c, msg) ==
  /\ sendInLoop(c, msg)
  /\ input' = [input EXCEPT ![c] = << >>]

\* TcpServer.cc's defaultMessageCallback prints and leaves the input alone.
defaultMessageCallback(c, msg) ==
  /\ input' = [input EXCEPT ![c] = msg]
  /\ UNCHANGED <<output, channels_, events_, epollVars>>

\* Mutant: one cell of the buffer is never used.
RoomOffByOne(c) == InitialSize - Len(input[c]) - 1

Room(c) == InitialSize - Len(input[c])

\* Number of bytes Buffer::readFd takes; it returns 0, never less, also when
\* recv fails and when the buffer has no room.
ReadCount(c) == IF Len(rcvq[c]) <= Room(c) THEN Len(rcvq[c]) ELSE Room(c)

\* TcpConnection::handleRead.  The recv that ends readFd's loop on an empty
\* queue collects a pending reset, and steps over an urgent byte.
handleRead(c) ==
  LET n == ReadCount(c)
      drained == n = Len(rcvq[c])
      msg == input[c] \o SubSeq(rcvq[c], 1, n)
  IN /\ rcvq' = [rcvq EXCEPT ![c] = SubSeq(@, n + 1, Len(@))]
     /\ urg' = [urg EXCEPT ![c] = IF @ = "queued" /\ drained /\ n < Room(c) THEN "taken" ELSE @]
     /\ err' = [err EXCEPT ![c] = IF @ = "reset" /\ drained THEN "broken" ELSE @]
     /\ UNCHANGED <<peer, wire>>
     /\ IF n > 0
          THEN /\ IF MessageCallback = "echo" THEN onMessage(c, msg)
                                              ELSE defaultMessageCallback(c, msg)
               /\ UNCHANGED <<conn_state_, connections_>>
          ELSE handleClose(c) /\ UNCHANGED <<input, output>>

\* Mutant: handleEvent takes no guard.
tieLockNone(c) == {}

\* tie_.lock() owns the connection if anybody still does.
tieLock(c) == {c} \cap connections_

\* The first half of Channel::handleEvent.  The code's two tests are separate,
\* but a socket that reports HUP has both directions shut and reports IN with
\* it, so at most one of them holds.
HandleEventRead(c) ==
  /\ proc = "running" /\ stage = "dispatch" /\ c \in active
  /\ active' = active \ {c}
  /\ cur' = {c}
  /\ guard' = tieLock(c)
  /\ stage' = "write"
  /\ IF "HUP" \in revents[c] /\ "IN" \notin revents[c]
       THEN UNCHANGED <<peer, rcvq, urg, err, wire, input, output>> /\ handleClose(c)
     ELSE IF revents[c] \cap {"IN", "PRI"} # {}
       THEN handleRead(c)
       ELSE UNCHANGED <<peer, rcvq, urg, err, wire, channels_, events_, epollVars, connVars>>
  /\ UNCHANGED <<sent, got, backlog, revents, evsize, proc>>

\* The kernel takes what fits.
WriteCount(c) ==
  IF Len(output[c]) <= SndBuf - Len(wire[c]) THEN Len(output[c]) ELSE SndBuf - Len(wire[c])

\* send on a connection, and what handleWrite does when it has sent all.  The
\* bytes leave the output buffer as the kernel takes them: nobody else looks at
\* it before send returns and retrieve takes them off.
Transmit(c) ==
  LET n == WriteCount(c)
  IN /\ wire' = [wire EXCEPT ![c] = @ \o SubSeq(output[c], 1, n)]
     /\ output' = [output EXCEPT ![c] = SubSeq(@, n + 1, Len(@))]
     /\ UNCHANGED <<peer, rcvq, urg>>
     /\ IF n > 0 /\ n = Len(output[c])
          THEN disableWriting(c)
          ELSE UNCHANGED <<channels_, events_, epollVars>>

\* TcpConnection::handleWrite.  On a reset connection send fails: the first
\* call after the reset reports it, a later one raises SIGPIPE, which nobody
\* handles.
handleWrite(c) ==
  IF ~isWriting(c)
    THEN UNCHANGED <<err, wire, output, channels_, events_, epollVars, proc>>
  ELSE IF peer[c] = "rst"
    THEN /\ err' = [err EXCEPT ![c] = "broken"]
         /\ proc' = IF err[c] = "reset" THEN "running" ELSE "killed"
         /\ UNCHANGED <<wire, output, channels_, events_, epollVars>>
    ELSE Transmit(c) /\ UNCHANGED <<err, proc>>

\* A socket that accept returned is blocking, and send is called without
\* MSG_DONTWAIT: with more to send than fits, the loop's thread stays in send.
Blocks(c) ==
  /\ "OUT" \in revents[c] /\ isWriting(c) /\ peer[c] # "rst"
  /\ WriteCount(c) < Len(output[c])

\* The end of Channel::handleEvent releases the guard.
EventEnds ==
  /\ cur' = {}
  /\ guard' = {}
  /\ NextStage(active)

\* The second half of Channel::handleEvent.
HandleEventWrite(c) ==
  /\ proc = "running" /\ stage = "write" /\ cur = {c}
  /\ \/ Blocks(c) /\ stage' = "send" /\ UNCHANGED <<cur, guard>>
     \/ ~Blocks(c) /\ EventEnds
  /\ UNCHANGED <<peer, sent, urg, rcvq, got, backlog, active, revents, evsize,
                 conn_state_, connections_, input>>
  /\ IF "OUT" \in revents[c]
       THEN handleWrite(c)
       ELSE UNCHANGED <<err, wire, output, channels_, events_, epollVars, proc>>

\* The client has read: the blocked send goes on, and returns when all of the
\* output is with the kernel.
SendResumes(c) ==
  /\ proc = "running" /\ stage = "send" /\ cur = {c}
  /\ peer[c] # "rst" /\ WriteCount(c) > 0
  /\ \/ WriteCount(c) < Len(output[c]) /\ UNCHANGED <<stage, cur, guard>>
     \/ WriteCount(c) = Len(output[c]) /\ EventEnds
  /\ UNCHANGED <<peer, sent, urg, rcvq, got, err, backlog, active, revents, evsize,
                 conn_state_, connections_, input, proc>>
  /\ Transmit(c)

\* The client has reset the connection: the blocked send returns the number of
\* bytes the kernel took before, and leaves the error for the next call.
SendCut(c) ==
  /\ proc = "running" /\ stage = "send" /\ cur = {c}
  /\ peer[c] = "rst"
  /\ EventEnds
  /\ UNCHANGED <<kernelVars, active, revents, evsize, channels_, events_, connVars, proc>>

ServerNext ==
  \/ Poll
  \/ \E c \in Client : AcceptorHandleRead(c)
  \/ AcceptorHandleReadFails
  \/ \E c \in Client : \/ HandleEventRead(c) \/ HandleEventWrite(c)
                      \/ SendResumes(c) \/ SendCut(c)

Next ==
  \/ ServerNext
  \/ proc = "running" /\ ClientNext /\ UNCHANGED serverVars

Spec == Init /\ [][Next]_vars

\* The loop thread keeps running, and a client that has not reset its
\* connection keeps reading.
FairSpec ==
  Spec /\ WF_vars(ServerNext)
       /\ \A c \in Client : WF_vars(ClientRead(c) /\ UNCHANGED serverVars)
-----------------------------------------------------------------------------
\* The poller's two tables agree with each other and with connections_: a
\* connection is registered for reading exactly while it is in connections_.
Registration ==
  /\ channels_ = connections_
  /\ epset = connections_
  /\ armed \subseteq connections_
  /\ interest = events_
  /\ \A c \in connections_ : conn_state_[c] = "kConnected" /\ "IN" \in events_[c]
  /\ \A c \in Client \ connections_ : events_[c] = {}

\* Where the loop is: the channels it has yet to handle belong to connections
\* in connections_, and the one it is handling is owned by the guard; one whose
\* send is blocked is in connections_ too.
LoopState ==
  /\ active \ {Listener} \subseteq connections_
  /\ Listener \in active => backlog # << >>
  /\ stage = "poll" => active = {}
  /\ stage \in {"poll", "dispatch"} => cur = {} /\ guard = {}
  /\ stage \in {"write", "send"} => \E c \in Client : cur = {c} /\ guard = {c} /\ c \notin active
  /\ stage = "send" => cur \subseteq connections_

\* The raw pointers the loop keeps never outlive their object.  A connection,
\* and the channel it owns, is freed when neither connections_ nor the guard
\* owns it; the channel being handled, those still in active_channels_, in
\* channels_ and in the epoll set's data.ptr must not have been.
NoDanglingChannel ==
  cur \cup channels_ \cup epset \cup (active \ {Listener}) \subseteq connections_ \cup guard

\* Every byte a client sent is in exactly one place, and in order: read by
\* the client, on the wire, in the output buffer, in the input buffer, or
\* still in the kernel.  So the echo is what was sent.
Stream(c) == got[c] \o wire[c] \o output[c] \o input[c] \o rcvq[c]
StreamIntact == \A c \in Client : Stream(c) = [i \in 1..sent[c] |-> i]

\* The one state in which a connection is left behind: readFd filled the input
\* buffer with bytes still queued, so that it was send, not recv, that reported
\* the reset; handleWrite ignores that error, and no event will come again.
Stranded(c) ==
  peer[c] = "rst" /\ err[c] = "broken" /\ isWriting(c) /\ rcvq[c] # << >>

\* No lost wakeup: an edge-triggered channel with something to do will be
\* handled.  While a connection is open and the loop is not handling it,
\* bytes or an end of stream to read, or room for output to write, means the
\* socket is on epoll's ready list or among the active channels; input may
\* also wait for the output to drain, since disableWriting's EPOLL_CTL_MOD
\* then puts the socket back on the ready list.
Coming(c) == c \in armed \cup active \cup cur
NoLostWakeup ==
  proc = "running" => \A c \in connections_ :
    \/ Stranded(c)
    \/ /\ isWriting(c) <=> output[c] # << >>
       /\ isWriting(c) /\ Writable(c) => Coming(c)
       /\ Readable(c) => Coming(c) \/ isWriting(c)

\* The reactor with the echo callback implements EchoService: what a client
\* reads is what it sent, in order, and a connection leaves connections_ only
\* after its client ended the stream, reset it, or sent an urgent byte (which
\* EPOLLPRI reports, recv does not return, and handleRead takes for the end).
HasLeft(c) == peer[c] \in {"fin", "rst"} \/ urg[c] # "none"
LineOf(c) == CASE c \in connections_ -> "open"
               [] c \in Accepted \ connections_ -> "closed"
               [] OTHER -> "none"
Service == INSTANCE EchoService WITH
             said <- sent,
             heard <- got,
             line <- [c \in Client |-> LineOf(c)],
             left <- [c \in Client |-> HasLeft(c)]
ImplementsEchoService == Service!ESpec

\* A client that stays gets all of its bytes back, although the poller is
\* edge-triggered and readFd may leave bytes in the kernel when the input
\* buffer is full: every echo re-registers the socket.
EchoComes ==
  \A c \in Client :
    c \in connections_ ~>
      (Len(got[c]) = sent[c] \/ HasLeft(c) \/ proc = "killed")

\* A connection whose client is gone does not stay in connections_ for ever,
\* even when recv met the end of stream while returning bytes before it;
\* the stranded connections are the only exception.
GoneIsRemoved ==
  \A c \in Client :
    (c \in connections_ /\ peer[c] \in {"fin", "rst"}) ~>
      (c \notin connections_ \/ Stranded(c) \/ proc = "killed")

\* Bytes that have reached a connection are read, also while the listener is
\* ready for ever because accept finds no descriptor: unless the connection is
\* dropped or its input buffer is full.
BytesAreRead ==
  \A c \in Client :
    (c \in connections_ /\ rcvq[c] # << >>) ~>
      (rcvq[c] = << >> \/ c \notin connections_ \/ Len(input[c]) = InitialSize \/ proc = "killed")

\* Whatever the message callback, a connection leaves connections_ only when
\* its client has left, or when the callback has let the input buffer fill up:
\* readFd then returns 0, which handleRead takes for the end of the stream.
DroppedForCause ==
  [][\A c \in connections_ \ connections_' :
       HasLeft(c) \/ Len(input[c]) = InitialSize]_vars
=============================================================================
