------------------------------ MODULE Sockets ------------------------------
(***************************************************************************)
(* What lies outside ccnet: the clients and the Linux kernel between them  *)
(* and the server.  It is modelled from the calls ccnet makes (accept,     *)
(* recv, send, epoll_ctl, epoll_wait) and from what those calls do on a    *)
(* TCP socket:                                                             *)
(*  - a client connects once, sends the bytes 1, 2, 3, ..., may send one   *)
(*    urgent byte as its last, reads its echo, and leaves by ending its    *)
(*    stream (FIN) or by a reset (RST);                                    *)
(*  - epoll is edge-triggered for connections: a socket is put on epoll's  *)
(*    ready list (armed) by an event on it, and by EPOLL_CTL_ADD and       *)
(*    EPOLL_CTL_MOD when it is ready then; epoll_wait takes it off.        *)
(***************************************************************************)
EXTENDS Integers, Sequences, FiniteSets

CONSTANTS
  Client,    \* each makes one connection, so a client names its socket too
  MaxBytes,  \* bound: the number of bytes each client sends at most
  SndBuf,    \* bytes the kernel takes from send before the client reads
  Urgers,    \* clients that may send an urgent byte
  Resetters  \* clients that may reset their connection

ASSUME SocketsAssumption ==
  /\ IsFiniteSet(Client)
  /\ MaxBytes \in [Client -> Nat]
  /\ SndBuf \in Nat \ {0}
  /\ Urgers \subseteq Client
  /\ Resetters \subseteq Client

VARIABLES
  peer,      \* the client's side: "new", "up", "fin" (stream ended) or "rst"
  sent,      \* number of bytes the client has sent
  urg,       \* the urgent byte: "none", "queued" at the socket, "taken"
  rcvq,      \* bytes received by the kernel, not yet by the server
  wire,      \* bytes sent by the server, not yet read by the client
  got,       \* bytes the client has read
  err,       \* after a reset: "reset" until a call reports it, then "broken"
  backlog,   \* connections the kernel has completed and nobody accepted
  epset,     \* sockets in the epoll set
  interest,  \* the events each is registered for
  armed      \* epoll's ready list

clientVars == <<peer, sent, got>>
epollVars == <<epset, interest, armed>>
kernelVars == <<peer, sent, urg, rcvq, wire, got, err, backlog, epset, interest, armed>>

KernelTypeOK ==
  /\ peer \in [Client -> {"new", "up", "fin", "rst"}]
  /\ sent \in [Client -> Nat]
  /\ urg \in [Client -> {"none", "queued", "taken"}]
  /\ rcvq \in [Client -> Seq(Nat)]
  /\ wire \in [Client -> Seq(Nat)]
  /\ \A c \in Client : Len(wire[c]) <= SndBuf
  /\ got \in [Client -> Seq(Nat)]
  /\ err \in [Client -> {"none", "reset", "broken"}]
  /\ backlog \in Seq(Client)
  /\ epset \subseteq Client
  /\ interest \in [Client -> SUBSET {"IN", "OUT"}]
  /\ armed \subseteq Client

KernelInit ==
  /\ peer = [c \in Client |-> "new"]
  /\ sent = [c \in Client |-> 0]
  /\ urg = [c \in Client |-> "none"]
  /\ rcvq = [c \in Client |-> << >>]
  /\ wire = [c \in Client |-> << >>]
  /\ got = [c \in Client |-> << >>]
  /\ err = [c \in Client |-> "none"]
  /\ backlog = << >>
  /\ epset = {}
  /\ interest = [c \in Client |-> {}]
  /\ armed = {}
-----------------------------------------------------------------------------
\* What epoll would report for c now.  Interest in IN stands for the bits
\* EPOLLIN | EPOLLPRI, which enableReading sets together; HUP and ERR are
\* reported whether asked for or not.
Readable(c) == rcvq[c] # << >> \/ peer[c] \in {"fin", "rst"}
Writable(c) == Len(wire[c]) < SndBuf \/ peer[c] = "rst"

Reported(c) ==
       {e \in {"IN"}  : "IN" \in interest[c] /\ Readable(c)}
  \cup {e \in {"PRI"} : "IN" \in interest[c] /\ urg[c] = "queued"}
  \cup {e \in {"OUT"} : "OUT" \in interest[c] /\ Writable(c)}
  \cup {e \in {"HUP", "ERR"} : peer[c] = "rst"}

\* epoll_ctl on c with the events ev.  The last two conjuncts look at the
\* state after the call, so the caller fixes the sockets' next state first.
EpollSet(c, ev) ==
  /\ epset' = epset \cup {c}
  /\ interest' = [interest EXCEPT ![c] = ev]
  /\ armed' = IF Reported(c)' # {} THEN armed \cup {c} ELSE armed

EpollDel(c) ==
  /\ epset' = epset \ {c}
  /\ interest' = [interest EXCEPT ![c] = {}]
  /\ armed' = armed \ {c}

\* An event on c puts it on the ready list if it is registered.
Edge(c) == armed' = IF c \in epset THEN armed \cup {c} ELSE armed
-----------------------------------------------------------------------------
ClientConnect(c) ==
  /\ peer[c] = "new"
  /\ peer' = [peer EXCEPT ![c] = "up"]
  /\ backlog' = Append(backlog, c)
  /\ UNCHANGED <<sent, urg, rcvq, wire, got, err, epollVars>>

ClientSend(c) ==
  /\ peer[c] = "up" /\ urg[c] = "none" /\ sent[c] < MaxBytes[c]
  /\ sent' = [sent EXCEPT ![c] = @ + 1]
  /\ rcvq' = [rcvq EXCEPT ![c] = Append(@, sent[c] + 1)]
  /\ Edge(c)
  /\ UNCHANGED <<peer, urg, wire, got, err, backlog, epset, interest>>

ClientSendUrgent(c) ==
  /\ c \in Urgers /\ peer[c] = "up" /\ urg[c] = "none"
  /\ urg' = [urg EXCEPT ![c] = "queued"]
  /\ Edge(c)
  /\ UNCHANGED <<peer, sent, rcvq, wire, got, err, backlog, epset, interest>>

ClientFinish(c) ==
  /\ peer[c] = "up"
  /\ peer' = [peer EXCEPT ![c] = "fin"]
  /\ Edge(c)
  /\ UNCHANGED <<sent, urg, rcvq, wire, got, err, backlog, epset, interest>>

\* A reset after FIN leaves EPIPE as the pending error, which send treats like
\* a reset already reported.
ClientReset(c) ==
  /\ c \in Resetters /\ peer[c] \in {"up", "fin"}
  /\ peer' = [peer EXCEPT ![c] = "rst"]
  /\ err' = [err EXCEPT ![c] = IF peer[c] = "up" THEN "reset" ELSE "broken"]
  /\ Edge(c)
  /\ UNCHANGED <<sent, urg, rcvq, wire, got, backlog, epset, interest>>

\* Reading from a full pipe makes the socket writable again: an event, if
\* anybody asked for EPOLLOUT.
ClientRead(c) ==
  /\ peer[c] \in {"up", "fin"} /\ wire[c] # << >>
  /\ got' = [got EXCEPT ![c] = Append(@, Head(wire[c]))]
  /\ wire' = [wire EXCEPT ![c] = Tail(@)]
  /\ IF Len(wire[c]) = SndBuf /\ "OUT" \in interest[c] THEN Edge(c) ELSE UNCHANGED armed
  /\ UNCHANGED <<peer, sent, urg, rcvq, err, backlog, epset, interest>>

ClientNext ==
  \E c \in Client :
    \/ ClientConnect(c) \/ ClientSend(c) \/ ClientSendUrgent(c)
    \/ ClientFinish(c) \/ ClientReset(c) \/ ClientRead(c)
=============================================================================
