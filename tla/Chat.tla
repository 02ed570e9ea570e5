-------------------------------- MODULE Chat --------------------------------
(***************************************************************************)
(* The chat room of muduo/: chat_server.cc and any number of processes     *)
(* chat_client.cc.  The server is one loop; a client is a main thread,     *)
(* which types, and a loop thread, which owns the connection; connection_  *)
(* is shared by the two under a mutex.                                     *)
(*                                                                         *)
(* TCP and the muduo library are external.  A stream hands over any        *)
(* prefix of what is on its way; what a process has sent when it dies or   *)
(* closes arrives up to some point.  muduo calls onConnection when a       *)
(* connection comes up and when it is closed, sends from any thread in     *)
(* order, drops what is sent on a connection that is shutting down, and    *)
(* ends a stream by shutdown() after what was sent before.                 *)
(***************************************************************************)
EXTENDS Integers, Sequences

CONSTANTS
  Client,
  Script,       \* the lines typed at each client, a sequence of strings of bytes
  Base,         \* the number of byte values, 256
  HeaderSize,   \* bytes of the length before a message, 4
  MaxLen        \* the longest message, 65536

ASSUME ChatAssumption ==
  /\ Base \in Nat \ {0, 1} /\ HeaderSize \in Nat \ {0} /\ MaxLen \in Nat
  /\ Script \in [Client -> Seq(Seq(0..Base - 1))]

VARIABLES
  typed,         \* lines its main thread has read
  main,          \* "typing", "leaving" (after disconnect) or "exited"
  link,          \* the client's end: "syn", "est" (the loop thread not told), "up", "down"
  connection_,   \* the clients whose connection_ is set
  half,          \* the clients that have ended their stream
  up,            \* bytes on their way to the server
  down,          \* bytes on their way to the client
  cbuf,          \* the client's input buffer
  heard,         \* messages it has printed
  state_,        \* the server's end: "none", "kConnected", "kDisconnecting", "kDisconnected"
  connections_,  \* the server's set
  sbuf,          \* its input buffers
  log,           \* history: the messages the server has sent, with their authors
  joined,        \* history: the length of log at onConnection
  silent         \* history: lines typed before connection_ was set

mainVars == <<typed, main, silent>>
linkVars == <<link, connection_, half>>
serverVars == <<state_, connections_, sbuf, log, joined>>
vars == <<mainVars, linkVars, up, down, cbuf, heard, serverVars>>

\* Every client has called connect().
Init ==
  /\ typed = [c \in Client |-> 0] /\ silent = [c \in Client |-> 0]
  /\ main = [c \in Client |-> "typing"] /\ link = [c \in Client |-> "syn"]
  /\ connection_ = {} /\ half = {} /\ connections_ = {}
  /\ up = [c \in Client |-> << >>] /\ down = [c \in Client |-> << >>]
  /\ cbuf = [c \in Client |-> << >>] /\ sbuf = [c \in Client |-> << >>]
  /\ heard = [c \in Client |-> << >>] /\ state_ = [c \in Client |-> "none"]
  /\ log = << >> /\ joined = [c \in Client |-> -1]

Prefixes0(s) == {SubSeq(s, 1, n) : n \in 0..Len(s)}
-----------------------------------------------------------------------------
\* The codec, the same in both programs.

\* What is left of n when its last j digits are taken off, for each j.
Rest(n) ==
  LET rest[j \in 0..HeaderSize] == IF j = 0 THEN n ELSE rest[j - 1] \div Base
  IN  rest

\* n is less than Base ^ HeaderSize: it can be told from the bytes of the length.
Fits(n) == Rest(n)[HeaderSize] = 0

\* Nobody types a line of 4 GB: its length would be cut.
ASSUME LinesFit == \A c \in Client : \A k \in DOMAIN Script[c] : Fits(Len(Script[c][k]))

\* Mutant: without htonl.
EncodeHostOrder(text) == [k \in 1..HeaderSize |-> Rest(Len(text))[k - 1] % Base] \o text

\* The length, most significant byte first, and the text.
Encode(text) == [k \in 1..HeaderSize |-> Rest(Len(text))[HeaderSize - k] % Base] \o text

\* The messages of send, one after the other.
Frames(texts) ==
  LET frames[k \in 0..Len(texts)] == IF k = 0 THEN << >> ELSE frames[k - 1] \o Encode(texts[k])
  IN  frames[Len(texts)]

\* ntohl of the bytes at offset i.
PeekLength(buf, i) ==
  LET value[k \in 0..HeaderSize] == IF k = 0 THEN 0 ELSE value[k - 1] * Base + buf[i + k]
  IN  value[HeaderSize]

\* Mutant: one message for each call.
onMessageOnce(buf) ==
  LET n == PeekLength(buf, 0)
      none == [texts |-> << >>, used |-> 0, bad |-> FALSE]
  IN  CASE Len(buf) < HeaderSize -> none
        [] Len(buf) >= HeaderSize /\ n > MaxLen -> [none EXCEPT !.bad = TRUE]
        [] Len(buf) >= HeaderSize /\ n <= MaxLen /\ Len(buf) < HeaderSize + n -> none
        [] OTHER -> [texts |-> <<SubSeq(buf, HeaderSize + 1, HeaderSize + n)>>,
                     used |-> HeaderSize + n, bad |-> FALSE]

\* One turn of the loop over an input buffer, with the messages taken from it,
\* the number of bytes retrieved, and whether it has met an invalid length.
Turn(buf, m) ==
  LET n == PeekLength(buf, m.used)
      left == Len(buf) - m.used
  IN  IF m.bad \/ left < HeaderSize THEN m
      ELSE IF n > MaxLen THEN [m EXCEPT !.bad = TRUE]
      ELSE IF left < HeaderSize + n THEN m
      ELSE [texts |-> Append(m.texts, SubSeq(buf, m.used + HeaderSize + 1, m.used + HeaderSize + n)),
            used |-> m.used + HeaderSize + n, bad |-> FALSE]

\* The loop: no buffer has more messages than it has room for lengths.
onMessage(buf) ==
  LET turns == Len(buf) \div HeaderSize
      loop[k \in 0..turns] ==
        IF k = 0 THEN [texts |-> << >>, used |-> 0, bad |-> FALSE] ELSE Turn(buf, loop[k - 1])
  IN  loop[turns]
-----------------------------------------------------------------------------
\* The client's main thread.

\* getline and write: without a connection the line is dropped.
Write(c) ==
  /\ main[c] = "typing" /\ typed[c] < Len(Script[c])
  /\ typed' = [typed EXCEPT ![c] = @ + 1]
  /\ up' = IF c \in connection_ /\ c \notin half
             THEN [up EXCEPT ![c] = @ \o Encode(Script[c][typed[c] + 1])] ELSE up
  /\ silent' = IF link[c] \in {"syn", "est"} THEN [silent EXCEPT ![c] = @ + 1] ELSE silent
  /\ UNCHANGED <<main, linkVars, down, cbuf, heard, serverVars>>

\* End of the input: the stream ends after the lines written, if the
\* connection is up; a connection still to come is left as it is.
Disconnect(c) ==
  /\ main[c] = "typing"
  /\ main' = [main EXCEPT ![c] = "leaving"]
  /\ half' = IF link[c] = "up" THEN half \cup {c} ELSE half
  /\ UNCHANGED <<typed, silent, link, connection_, up, down, cbuf, heard, serverVars>>

\* main returns a second after disconnect.  The process is gone, with what it
\* had not read; its last bytes may be lost.  A process that is killed does
\* the two steps at once.
Exit(c) ==
  /\ main[c] = "leaving"
  /\ main' = [main EXCEPT ![c] = "exited"]
  /\ link' = [link EXCEPT ![c] = "down"]
  /\ connection_' = connection_ \ {c}
  /\ \E sent \in Prefixes0(up[c]) : up' = [up EXCEPT ![c] = sent]
  /\ down' = [down EXCEPT ![c] = << >>]
  /\ cbuf' = [cbuf EXCEPT ![c] = << >>]
  /\ UNCHANGED <<typed, silent, half, heard, serverVars>>
-----------------------------------------------------------------------------
\* The client's loop thread and the network.

Establish(c) ==
  /\ main[c] # "exited" /\ link[c] = "syn"
  /\ link' = [link EXCEPT ![c] = "est"]
  /\ UNCHANGED <<mainVars, connection_, half, up, down, cbuf, heard, serverVars>>

\* onConnection, connected.
ClientUp(c) ==
  /\ main[c] # "exited" /\ link[c] = "est"
  /\ link' = [link EXCEPT ![c] = "up"]
  /\ connection_' = connection_ \cup {c}
  /\ UNCHANGED <<mainVars, half, up, down, cbuf, heard, serverVars>>

\* onMessage: some of the bytes on their way arrive, messages are printed.
ClientRead(c) ==
  /\ link[c] = "up"
  /\ \E n \in 1..Len(down[c]) :
       LET buf == cbuf[c] \o SubSeq(down[c], 1, n)
           m == onMessage(buf)
       IN  /\ down' = [down EXCEPT ![c] = SubSeq(@, n + 1, Len(@))]
           /\ cbuf' = [cbuf EXCEPT ![c] = SubSeq(buf, m.used + 1, Len(buf))]
           /\ heard' = [heard EXCEPT ![c] = @ \o m.texts]
           /\ half' = IF m.bad THEN half \cup {c} ELSE half
  /\ UNCHANGED <<mainVars, link, connection_, up, serverVars>>

\* The server has ended its stream: onConnection, not connected, and the
\* socket is closed, with what was still to be sent.
ClientClose(c) ==
  /\ link[c] = "up" /\ down[c] = << >>
  /\ state_[c] \in {"kDisconnecting", "kDisconnected"}
  /\ link' = [link EXCEPT ![c] = "down"]
  /\ connection_' = connection_ \ {c}
  /\ \E sent \in Prefixes0(up[c]) : up' = [up EXCEPT ![c] = sent]
  /\ UNCHANGED <<mainVars, half, down, cbuf, heard, serverVars>>
-----------------------------------------------------------------------------
\* The server's loop.

\* onConnection, connected.
ServerUp(c) ==
  /\ link[c] # "syn" /\ state_[c] = "none"
  /\ state_' = [state_ EXCEPT ![c] = "kConnected"]
  /\ connections_' = connections_ \cup {c}
  /\ joined' = [joined EXCEPT ![c] = Len(log)]
  /\ UNCHANGED <<mainVars, linkVars, up, down, cbuf, heard, sbuf, log>>

\* The messages c has sent, to everybody in connections_; what is sent on a
\* connection that is shutting down is dropped, as is what a client that is
\* gone would have to read.
send(c, texts) ==
  down' = [d \in Client |->
    IF d \in connections_ /\ state_[d] = "kConnected" /\ link[d] # "down"
      THEN down[d] \o Frames(texts) ELSE down[d]]

\* onMessage: an invalid length is answered by shutdown, and stays in the
\* buffer: with every later byte it is found again.
Receive(c) ==
  /\ state_[c] \in {"kConnected", "kDisconnecting"}
  /\ \E n \in 1..Len(up[c]) :
       LET buf == sbuf[c] \o SubSeq(up[c], 1, n)
           m == onMessage(buf)
       IN  /\ up' = [up EXCEPT ![c] = SubSeq(@, n + 1, Len(@))]
           /\ sbuf' = [sbuf EXCEPT ![c] = SubSeq(buf, m.used + 1, Len(buf))]
           /\ send(c, m.texts)
           /\ log' = log \o [k \in 1..Len(m.texts) |-> [from |-> c, text |-> m.texts[k]]]
           /\ state_' = IF m.bad THEN [state_ EXCEPT ![c] = "kDisconnecting"] ELSE state_
  /\ UNCHANGED <<mainVars, linkVars, cbuf, heard, connections_, joined>>

\* Mutant: the connection stays in the set.
EraseNot(c) == UNCHANGED connections_

Erase(c) == connections_' = connections_ \ {c}

\* The end of the client's stream: onConnection, not connected.  What the
\* server had not yet put on the wire is lost with its connection.
ServerClose(c) ==
  /\ state_[c] \in {"kConnected", "kDisconnecting"}
  /\ up[c] = << >> /\ (c \in half \/ link[c] = "down")
  /\ state_' = [state_ EXCEPT ![c] = "kDisconnected"]
  /\ Erase(c)
  /\ sbuf' = [sbuf EXCEPT ![c] = << >>]
  /\ \E sent \in Prefixes0(down[c]) : down' = [down EXCEPT ![c] = sent]
  /\ UNCHANGED <<mainVars, linkVars, up, cbuf, heard, log, joined>>
-----------------------------------------------------------------------------
Server(c) == ServerUp(c) \/ Receive(c) \/ ServerClose(c)
ClientLoop(c) == ClientUp(c) \/ ClientRead(c) \/ ClientClose(c)

Next == \E c \in Client :
  \/ Write(c) \/ Disconnect(c) \/ Exit(c)
  \/ Establish(c) \/ ClientLoop(c) \/ Server(c)

Spec == Init /\ [][Next]_vars

\* Both loops handle what epoll reports, a connection under way comes up, and
\* main returns when its sleep is over.  Nobody has to type, or to leave.
Fairness == \A c \in Client :
  WF_vars(Server(c)) /\ WF_vars(ClientLoop(c)) /\ WF_vars(Establish(c)) /\ WF_vars(Exit(c))

FairSpec == Spec /\ Fairness
-----------------------------------------------------------------------------
\* The programs implement the chat room: however the streams are cut, whoever
\* joins, leaves, dies or is cut off for an invalid length, everybody prints
\* the same lines in the same order, with none missing from the moment the
\* server has it in connections_, and an author's lines are those it typed
\* from the moment its connection_ was set.
Room == INSTANCE ChatService
ImplementsChatService == Room!SSpec

\* Nothing stays on its way: what a client has sent gets into the log, unless
\* it leaves or is cut off for an invalid length, and what the server has sent
\* it is printed, unless it leaves, also when it has been cut off since.  No
\* complete message waits in a buffer for bytes that may never come.
EveryoneHears ==
  \A c \in Client :
    /\ up[c] \o sbuf[c] # << >> ~>
         up[c] \o sbuf[c] = << >> \/ main[c] # "typing" \/ state_[c] = "kDisconnecting"
    /\ down[c] \o cbuf[c] # << >> ~>
         down[c] \o cbuf[c] = << >> \/ main[c] # "typing"

\* A client that is gone, and one that sent an invalid length, does not stay
\* in connections_.
GoneIsErased ==
  \A c \in Client :
    (link[c] = "down" \/ state_[c] = "kDisconnecting") /\ c \in connections_ ~>
      c \notin connections_
=============================================================================
