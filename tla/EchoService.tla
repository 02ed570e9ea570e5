---------------------------- MODULE EchoService ----------------------------
(***************************************************************************)
(* What the echo server built on ccnet promises a client, said without     *)
(* sockets, buffers or events: the client hears the bytes it said, each    *)
(* once and in order, and its line is closed only after it has left.       *)
(***************************************************************************)
EXTENDS Integers, Sequences

CONSTANT Client

VARIABLES
  said,   \* number of bytes the client has said; byte k is the number k
  heard,  \* the bytes the client has heard
  line,   \* "none", "open" or "closed", the server's view
  left    \* the client has given the server a reason to close

echoVars == <<said, heard, line, left>>

EInit ==
  /\ said = [c \in Client |-> 0]
  /\ heard = [c \in Client |-> << >>]
  /\ line = [c \in Client |-> "none"]
  /\ left = [c \in Client |-> FALSE]

Say(c) ==
  /\ ~left[c]
  /\ said' = [said EXCEPT ![c] = @ + 1]
  /\ UNCHANGED <<heard, line, left>>

Leave(c) ==
  /\ left' = [left EXCEPT ![c] = TRUE]
  /\ UNCHANGED <<said, heard, line>>

Open(c) ==
  /\ line[c] = "none"
  /\ line' = [line EXCEPT ![c] = "open"]
  /\ UNCHANGED <<said, heard, left>>

\* The client may hear what was on its way when the line was closed.
Echo(c) ==
  /\ line[c] # "none"
  /\ Len(heard[c]) < said[c]
  /\ heard' = [heard EXCEPT ![c] = Append(@, Len(@) + 1)]
  /\ UNCHANGED <<said, line, left>>

Close(c) ==
  /\ line[c] = "open"
  /\ left[c]
  /\ line' = [line EXCEPT ![c] = "closed"]
  /\ UNCHANGED <<said, heard, left>>

ENext == \E c \in Client : Say(c) \/ Leave(c) \/ Open(c) \/ Echo(c) \/ Close(c)

ESpec == EInit /\ [][ENext]_echoVars
=============================================================================
