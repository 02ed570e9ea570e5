---------------------------- MODULE SelectServer ----------------------------
(***************************************************************************)
(* linux_tcp/select.cc: a server that waits in select for its standard     *)
(* input, its listening socket and its clients, sends each line of the     *)
(* input to all clients and each client's bytes back to it.  One thread    *)
(* runs the loop; clients, the operator at the input and the signal SIGINT *)
(* act between its system calls.                                           *)
(*                                                                         *)
(* The kernel is external: a client connects once, sends the bytes 1, 2,   *)
(* ..., reads what it is sent, and leaves by closing or by a reset; send   *)
(* waits while SndBuf units are unread; after a reset one call reports the *)
(* error, and a later send raises SIGPIPE, whose default is to kill.  An   *)
(* accepted socket is named after its client; the server closes sockets    *)
(* only when it ends, so they are numbered in the order of the accepts.    *)
(* What the clients do once the server is down is left out.                *)
(***************************************************************************)
EXTENDS Integers, Sequences, SequencesExt, FiniteSets

CONSTANTS
  Client,
  None,
  Slots,       \* CONCURRENT_MAX
  BufferSize,  \* BUFFER_SIZE, in bytes of this model
  FdLimit,     \* client sockets the process may have open
  FdSetSize,   \* client sockets an fd_set has bits for
  SndBuf,      \* units of data a socket holds for a client that does not read
  Leavers,     \* bound: the clients that may leave
  MaxBytes,    \* bound: bytes each client sends
  MaxLines     \* bound: lines the operator enters

ASSUME SelectAssumption ==
  /\ None \notin Client
  /\ (Client \cup {None}) \cap {"stdin", "listen"} = {}
  /\ Slots \in Nat \ {0} /\ BufferSize \in Nat \ {0} /\ SndBuf \in Nat \ {0}
  /\ FdLimit \in Nat /\ FdSetSize \in Nat /\ MaxBytes \in [Client -> Nat] /\ MaxLines \in Nat

\* What fgets returns for what the operator enters at the terminal: a line,
\* this one or any other, ends in '\n'; what is entered just before the end of
\* the input does not.
Lines == {".quit\n"}
LastLines == {".quit"}
\* Sent to clients: a line of the operator (0), or that the table is full (-1).
BROADCAST == 0
REFUSAL == -1
IsByte(x) == x > 0

VARIABLES
  peer,          \* the client: "new", "up", "fin" (closed), "rst", or "shut" by the server
  sent,          \* bytes it has sent
  inq,           \* bytes received by the kernel, not by the server
  wire,          \* units sent to the client and not read by it
  got,           \* bytes of its own it has read
  err,           \* "none"; "reset" until a call reports it; then "broken"
  backlog,       \* connections not yet accepted
  tty,           \* lines entered and not yet read
  entered,       \* number of lines entered
  eof,           \* whether the input has ended
  client_fds,    \* the table: a client or None
  fds,           \* the clients accepted so far, in their order
  address_len,   \* the sign of the length accept is given: -1 or 0
  ready,         \* what select has left in server_fd_set
  pc,            \* the part of the loop the server is in
  i,             \* the index of its for loops
  recv_msg,      \* bytes received and yet to be sent back
  keep_running,
  down           \* why the server is down, "no" while it is up

peerVars == <<peer, sent, got>>
netVars == <<inq, wire, err, backlog>>
ttyVars == <<tty, entered, eof>>
serverVars == <<client_fds, fds, address_len, ready, pc, i, recv_msg>>
vars == <<peerVars, netVars, ttyVars, serverVars, keep_running, down>>

\* socket, bind and listen have succeeded.  address_len is never set: it is
\* what its place on the stack holds.
Init ==
  /\ peer = [c \in Client |-> "new"] /\ sent = [c \in Client |-> 0]
  /\ inq = [c \in Client |-> << >>] /\ wire = [c \in Client |-> << >>]
  /\ got = [c \in Client |-> << >>] /\ err = [c \in Client |-> "none"]
  /\ backlog = << >> /\ tty = << >> /\ entered = 0 /\ eof = FALSE
  /\ client_fds = [s \in 1..Slots |-> None]
  /\ fds = << >> /\ address_len \in {-1, 0} /\ ready = {} /\ pc = "select" /\ i = 1 /\ recv_msg = << >>
  /\ keep_running = TRUE /\ down = "no"
-----------------------------------------------------------------------------
\* The clients, the operator and SIGINT.

Connect(c) ==
  /\ peer[c] = "new" /\ down = "no"
  /\ peer' = [peer EXCEPT ![c] = "up"]
  /\ backlog' = Append(backlog, c)
  /\ UNCHANGED <<sent, got, inq, wire, err, ttyVars, serverVars, keep_running, down>>

SendBytes(c) ==
  /\ peer[c] = "up" /\ down = "no"
  /\ sent[c] < MaxBytes[c]
  /\ sent' = [sent EXCEPT ![c] = @ + 1]
  /\ inq' = [inq EXCEPT ![c] = Append(@, sent[c] + 1)]
  /\ UNCHANGED <<peer, got, wire, err, backlog, ttyVars, serverVars, keep_running, down>>

Read(c) ==
  /\ peer[c] = "up" /\ wire[c] # << >> /\ down = "no"
  /\ got' = [got EXCEPT ![c] = IF IsByte(Head(wire[c])) THEN Append(@, Head(wire[c])) ELSE @]
  /\ wire' = [wire EXCEPT ![c] = Tail(@)]
  /\ UNCHANGED <<peer, sent, inq, err, backlog, ttyVars, serverVars, keep_running, down>>

\* A close; what the client has not read then makes it a reset.
Close(c) ==
  /\ peer[c] = "up" /\ wire[c] = << >> /\ down = "no" /\ c \in Leavers
  /\ peer' = [peer EXCEPT ![c] = "fin"]
  /\ UNCHANGED <<sent, got, netVars, ttyVars, serverVars, keep_running, down>>

\* A reset, for which the server's calls will report e; bytes not yet received
\* by the server may be lost.
ResetBy(c, e) ==
  /\ peer' = [peer EXCEPT ![c] = "rst"]
  /\ err' = [err EXCEPT ![c] = e]
  /\ \E q \in {<< >>, inq[c]} : inq' = [inq EXCEPT ![c] = q]
  /\ wire' = [wire EXCEPT ![c] = << >>]
  /\ UNCHANGED <<sent, got, backlog, ttyVars, serverVars, keep_running, down>>

Reset(c) == peer[c] = "up" /\ down = "no" /\ c \in Leavers /\ ResetBy(c, "reset")

\* The answer of the kernel of a client that has closed to what it is sent.
KernelReset(c) ==
  peer[c] = "fin" /\ wire[c] # << >> /\ down = "no" /\ ResetBy(c, "broken")

EnterLine(l) ==
  /\ down = "no" /\ ~eof
  /\ entered < MaxLines
  /\ entered' = entered + 1
  /\ tty' = Append(tty, l)
  /\ UNCHANGED <<peerVars, netVars, eof, serverVars, keep_running, down>>

\* The input ends, after last.
EndInput(last) ==
  /\ down = "no" /\ ~eof
  /\ eof' = TRUE
  /\ tty' = tty \o last
  /\ UNCHANGED <<peerVars, netVars, entered, serverVars, keep_running, down>>

\* sig_handle.
sig_handle ==
  /\ down = "no"
  /\ keep_running' = FALSE
  /\ UNCHANGED <<peerVars, netVars, ttyVars, serverVars, down>>
-----------------------------------------------------------------------------
Readable(c) == inq[c] # << >> \/ peer[c] \in {"fin", "rst"}

Watched == Range(client_fds) \ {None}

\* Mutant: FD_SET(server_sock_fd) before the loop, undone by FD_ZERO.
SelectedUnlistened == {c \in Watched : Readable(c)} \cup {x \in {"stdin"} : tty # << >> \/ eof}

\* What select finds readable of server_fd_set, which the loop has just filled.
Selected ==
  {c \in Watched : Readable(c)}
    \cup {x \in {"stdin"} : tty # << >> \/ eof}
    \cup {x \in {"listen"} : backlog # << >>}

\* Mutant: without the test of keep_running.
SelectForever ==
  /\ down = "no" /\ pc = "select"
  /\ Selected # {}
  /\ ready' = Selected
  /\ pc' = "stdin"
  /\ UNCHANGED <<peerVars, netVars, ttyVars, client_fds, fds, address_len, i, recv_msg, keep_running, down>>

\* The loop from its test of keep_running to the return of select.  An error
\* or the timeout starts the loop again: a step that changes nothing.
Select ==
  /\ down = "no" /\ pc = "select" /\ keep_running
  /\ Selected # {}
  /\ ready' = Selected
  /\ pc' = "stdin"
  /\ UNCHANGED <<peerVars, netVars, ttyVars, client_fds, fds, address_len, i, recv_msg, keep_running, down>>

\* FD_SET for a socket beyond FD_SETSIZE writes past server_fd_set.  What that
\* does is undefined: it goes unnoticed, or here, the model ends.
FdSetOverrun ==
  /\ down = "no" /\ pc = "select" /\ keep_running
  /\ \E k \in DOMAIN fds : k > FdSetSize /\ fds[k] \in Watched
  /\ down' = "overrun"
  /\ UNCHANGED <<peerVars, netVars, ttyVars, serverVars, keep_running>>

\* After the loop: the sockets in the table and the listening one are closed.
Finish ==
  /\ down = "no" /\ pc = "select" /\ ~keep_running
  /\ down' = "SIGINT"
  /\ UNCHANGED <<peerVars, netVars, ttyVars, serverVars, keep_running>>

\* A line is read; ".quit" ends the program; any other line is broadcast, and
\* so is the empty message when the input has ended and fgets reads nothing.
Stdin ==
  /\ down = "no" /\ pc = "stdin"
  /\ IF "stdin" \notin ready
       THEN pc' = "accept" /\ UNCHANGED <<tty, i, down>>
       ELSE /\ tty' = IF tty = << >> THEN tty ELSE Tail(tty)
            /\ IF tty # << >> /\ Head(tty) = ".quit"
                 THEN down' = "quit" /\ UNCHANGED <<pc, i>>
                 ELSE pc' = "broadcast" /\ i' = 1 /\ UNCHANGED down
  /\ UNCHANGED <<peerVars, netVars, entered, eof, client_fds, fds, address_len, ready, recv_msg, keep_running>>

\* send(c, data): on a broken socket SIGPIPE; on one just reset an error, which
\* no caller looks at; else data goes out as far as there is room, and next
\* says what follows when all of it has gone.
Send(c, data, next(_)) ==
  \/ err[c] = "broken" /\ down' = "SIGPIPE" /\ UNCHANGED <<wire, err, pc, i, recv_msg>>
  \/ /\ err[c] = "reset" /\ err' = [err EXCEPT ![c] = "broken"]
     /\ next(<< >>) /\ UNCHANGED <<wire, down>>
  \/ /\ err[c] = "none" /\ Len(wire[c]) < SndBuf
     /\ wire' = [wire EXCEPT ![c] = Append(@, Head(data))]
     /\ next(Tail(data)) /\ UNCHANGED <<err, down>>

\* One turn of the loop that sends the line to every client.
Broadcast ==
  /\ down = "no" /\ pc = "broadcast"
  /\ IF i > Slots
       THEN pc' = "accept" /\ UNCHANGED <<i, recv_msg, wire, err, down>>
       ELSE IF client_fds[i] = None
              THEN i' = i + 1 /\ UNCHANGED <<pc, recv_msg, wire, err, down>>
              ELSE Send(client_fds[i], <<BROADCAST>>,
                        LAMBDA rest : i' = i + 1 /\ UNCHANGED <<pc, recv_msg>>)
  /\ UNCHANGED <<peerVars, inq, backlog, ttyVars, client_fds, fds, address_len, ready, keep_running>>

Free == {s \in 1..Slots : client_fds[s] = None}

\* The first free entry of the table is c's.
Join(c) == client_fds' = [client_fds EXCEPT ![Min(Free)] = c]

\* accept fails for its length, which it has looked at too late: the
\* connection has been taken and is closed.
Shut(c) ==
  /\ peer' = [peer EXCEPT ![c] = "shut"]
  /\ inq' = [inq EXCEPT ![c] = << >>]
  /\ err' = [err EXCEPT ![c] = "broken"]
  /\ UNCHANGED <<fds, client_fds, wire>>

\* accept has returned c's socket: it is put into the table, or with the table
\* full the client is told, and its socket is left as it is.
Accepts(c) ==
  /\ fds' = Append(fds, c)
  /\ IF Free # {}
       THEN Join(c) /\ UNCHANGED wire
       ELSE /\ wire' = [wire EXCEPT ![c] = IF err[c] = "none" THEN <<REFUSAL>> ELSE @]
            /\ UNCHANGED client_fds
  /\ UNCHANGED <<peer, inq, err>>

\* The part of the listening socket.  With no descriptor left accept fails and
\* nothing happens.  With a negative address_len it fails every time, since it
\* leaves the value as it is; any other it replaces by the address's size.
Accept ==
  /\ down = "no" /\ pc = "accept"
  /\ pc' = "clients" /\ i' = 1
  /\ IF "listen" \notin ready \/ Len(fds) >= FdLimit
       THEN UNCHANGED <<peer, inq, err, backlog, fds, client_fds, wire>>
       ELSE /\ backlog' = Tail(backlog)
            /\ IF address_len < 0 THEN Shut(Head(backlog)) ELSE Accepts(Head(backlog))
  /\ UNCHANGED <<sent, got, ttyVars, address_len, ready, recv_msg, keep_running, down>>

\* Mutant: a client that has closed is taken for one in error.
LeaveIgnored(s) == UNCHANGED client_fds

\* recv returned 0: the entry is free again; the socket is not closed.
Leave(s) == client_fds' = [client_fds EXCEPT ![s] = None]

\* Mutant: recv leaves the bytes in the socket.
UnreadPeeked(c, n) == inq[c]

\* What recv leaves in the socket.
Unread(c, n) == SubSeq(inq[c], n + 1, Len(inq[c]))

\* recv_msg[byte_num] is past the end of recv_msg.
Overrun(n) == n >= BufferSize

\* recv on entry i: bytes to send back; or an error, which is printed; or the
\* end of the stream.  What a write past recv_msg does is undefined: here, it
\* kills the server or goes unnoticed.
Receive ==
  LET c == client_fds[i]
      n == Min({Len(inq[c]), BufferSize})
  IN  \/ /\ n > 0
         /\ inq' = [inq EXCEPT ![c] = Unread(c, n)]
         /\ recv_msg' = SubSeq(inq[c], 1, n)
         /\ pc' = "echo"
         /\ \/ UNCHANGED down
            \/ Overrun(n) /\ down' = "overrun"
         /\ UNCHANGED <<client_fds, err, i>>
      \/ /\ err[c] = "reset"
         /\ err' = [err EXCEPT ![c] = "broken"]
         /\ i' = i + 1
         /\ UNCHANGED <<client_fds, inq, recv_msg, pc, down>>
      \/ /\ n = 0 /\ err[c] # "reset"
         /\ Leave(i)
         /\ i' = i + 1
         /\ UNCHANGED <<inq, err, recv_msg, pc, down>>

\* One turn of the loop over the table.
Clients ==
  /\ down = "no" /\ pc = "clients"
  /\ IF i > Slots
       THEN pc' = "select" /\ i' = 1 /\ UNCHANGED <<client_fds, inq, err, recv_msg, down>>
       ELSE IF client_fds[i] \in ready
              THEN Receive
              ELSE i' = i + 1 /\ UNCHANGED <<client_fds, inq, err, recv_msg, pc, down>>
  /\ UNCHANGED <<peerVars, wire, backlog, ttyVars, fds, address_len, ready, keep_running>>

\* Sending back what was received.
Echo ==
  /\ down = "no" /\ pc = "echo"
  /\ Send(client_fds[i], recv_msg,
          LAMBDA rest : /\ recv_msg' = rest
                        /\ IF rest = << >> THEN pc' = "clients" /\ i' = i + 1
                           ELSE UNCHANGED <<pc, i>>)
  /\ UNCHANGED <<peerVars, inq, backlog, ttyVars, client_fds, fds, address_len, ready, keep_running>>
-----------------------------------------------------------------------------
Server == Select \/ Finish \/ Stdin \/ Broadcast \/ Accept \/ Clients \/ Echo

Next ==
  \/ Server \/ FdSetOverrun
  \/ \E c \in Client : Connect(c) \/ SendBytes(c) \/ Read(c)
  \/ \E c \in Client : Close(c) \/ Reset(c) \/ KernelReset(c)
  \/ \E l \in Lines : EnterLine(l)
  \/ \E last \in {<< >>} \cup {<<l>> : l \in LastLines} : EndInput(last)
  \/ sig_handle

Spec == Init /\ [][Next]_vars

\* The server runs when it can, a client that stays reads what it is sent, and
\* the kernel of one that has closed answers.
Fairness == WF_vars(Server) /\ \A c \in Client : WF_vars(Read(c) \/ KernelReset(c))

FairSpec == Spec /\ Fairness
-----------------------------------------------------------------------------
\* What a client is sent back is its own bytes, in order and each once,
\* whatever lines and bytes of other clients come between them: every byte
\* comes after exactly the bytes sent before it.
OwnBytesInOrder ==
  \A c \in Client :
    LET back == got[c] \o wire[c]
        bytes(n) == {back[k] : k \in {k \in 1..n : IsByte(back[k])}}
    IN  \A n \in DOMAIN back :
          IsByte(back[n]) => back[n] <= sent[c] /\ bytes(n - 1) = 1..back[n] - 1

\* A client that connects is accepted, unless the server goes down, has
\* accepted as many clients as it may have descriptors (it never closes one,
\* whether its client has left or was refused), or has found a negative
\* number in the address_len it does not set: then it shuts every client out.
Accepted ==
  \A c \in Client : peer[c] # "new" ~>
    \/ c \in Range(fds)
    \/ address_len < 0 /\ peer[c] = "shut"
    \/ down # "no"
    \/ Len(fds) = FdLimit

\* The entry of a client that has left becomes free, also when an error was
\* reported first, unless the server goes down.
EntryIsFreed ==
  \A c \in Client : peer[c] \in {"fin", "rst"} /\ c \in Watched ~> c \notin Watched \/ down # "no"

\* After SIGINT the server ends: no client that stays and reads, no queue of
\* lines and no connections keep it.
SigintEnds == ~keep_running ~> down # "no"
=============================================================================
