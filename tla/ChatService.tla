---------------------------- MODULE ChatService ----------------------------
(***************************************************************************)
(* What a chat room promises: one order of lines for everybody.  A line is *)
(* heard by each client in that order, without gaps from the moment it     *)
(* joined; the lines of one author are its script without gaps, from the   *)
(* first line it typed while connected to the last that reached the room.  *)
(***************************************************************************)
EXTENDS Integers, Sequences, FiniteSets

CONSTANTS
  Client,
  Script,   \* the lines each client types, in order
  MaxLen    \* the longest line the room accepts

VARIABLES
  log,      \* the lines of the room, with their authors
  joined,   \* the length of log when the client joined, -1 before
  heard,    \* the lines the client has printed
  silent    \* the lines it typed before it was connected

svars == <<log, joined, heard, silent>>

Texts(entries) == [k \in 1..Len(entries) |-> entries[k].text]

\* How many lines c has said.
Said(c) == Cardinality({i \in 1..Len(log) : log[i].from = c})

SInit ==
  /\ log = << >>
  /\ joined = [c \in Client |-> -1]
  /\ heard = [c \in Client |-> << >>]
  /\ silent = [c \in Client |-> 0]

Miss(c) ==
  /\ Said(c) = 0
  /\ silent' = [silent EXCEPT ![c] = @ + 1]
  /\ UNCHANGED <<log, joined, heard>>

Join(c) ==
  /\ joined[c] = -1
  /\ joined' = [joined EXCEPT ![c] = Len(log)]
  /\ UNCHANGED <<log, heard, silent>>

\* The next n lines of c's script come into the room.
Post(c, n) ==
  LET k == silent[c] + Said(c) IN
  /\ joined[c] # -1
  /\ k + n <= Len(Script[c])
  /\ \A m \in k + 1..k + n : Len(Script[c][m]) <= MaxLen
  /\ log' = log \o [m \in 1..n |-> [from |-> c, text |-> Script[c][k + m]]]
  /\ UNCHANGED <<joined, heard, silent>>

Hear(c, n) ==
  LET k == joined[c] + Len(heard[c]) IN
  /\ joined[c] # -1
  /\ k + n <= Len(log)
  /\ heard' = [heard EXCEPT ![c] = @ \o Texts(SubSeq(log, k + 1, k + n))]
  /\ UNCHANGED <<log, joined, silent>>

SNext == \E c \in Client :
  \/ Miss(c) \/ Join(c)
  \/ \E n \in 1..Len(Script[c]) : Post(c, n)
  \/ \E n \in 1..Len(log) : Hear(c, n)

SSpec == SInit /\ [][SNext]_svars
=============================================================================
