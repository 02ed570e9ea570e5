------------------------- MODULE SelectServerProofs -------------------------
(***************************************************************************)
(* For any number of clients, entries of the table, buffer sizes and lines *)
(* of the operator: select.cc sends each client its own bytes back, each   *)
(* once and in order.  The argument follows the bytes of a client through  *)
(* the places they can be in: read by the client (1..g), on the wire       *)
(* between other units (g+1..m), in recv_msg while the loop is in the echo *)
(* of that client (m+1..r), and in the kernel (r+1..sent).  After a reset  *)
(* only the first matters, since nothing is put on the wire any more.      *)
(***************************************************************************)
EXTENDS SelectServer, SequenceTheorems, TLAPS

-----------------------------------------------------------------------------
(* Runs of bytes, and units that carry a run.                              *)

\* The bytes a+1, ..., b.
Bytes(a, b) == [k \in 1..(b - a) |-> a + k]

LEMMA BytesType ==
  ASSUME NEW a \in Nat, NEW b \in Nat, a <= b
  PROVE  Bytes(a, b) \in Seq(Nat) /\ Len(Bytes(a, b)) = b - a
<1>1. b - a \in Nat /\ \A k \in 1..(b - a) : a + k \in Nat
  OBVIOUS
<1>2. Bytes(a, b) \in [1..(b - a) -> Nat]
  BY <1>1 DEF Bytes
<1> QED
  BY <1>1, <1>2 DEF Bytes

LEMMA BytesNone ==
  ASSUME NEW a \in Nat, NEW b \in Nat, a <= b
  PROVE  Bytes(a, b) = << >> <=> a = b
<1>1. Bytes(a, b) \in Seq(Nat) /\ Len(Bytes(a, b)) = b - a
  BY BytesType
<1> QED
  BY <1>1, EmptySeq

LEMMA BytesTake ==
  ASSUME NEW a \in Nat, NEW b \in Nat, a <= b, NEW n \in 0..(b - a)
  PROVE  /\ SubSeq(Bytes(a, b), 1, n) = Bytes(a, a + n)
         /\ SubSeq(Bytes(a, b), n + 1, Len(Bytes(a, b))) = Bytes(a + n, b)
<1>1. PICK s \in Seq(Nat) : s = Bytes(a, b) /\ Len(s) = b - a
  BY BytesType
<1>2. \A k \in 1..(b - a) : s[k] = a + k
  BY <1>1 DEF Bytes
<1>3. SubSeq(s, 1, n) = Bytes(a, a + n)
  <2>1. SubSeq(s, 1, n) = [k \in 1..n |-> s[k]]
    BY <1>1
  <2>2. \A k \in 1..n : s[k] = a + k
    BY <1>2
  <2>3. a + n - a = n
    OBVIOUS
  <2> QED
    BY <2>1, <2>2, <2>3 DEF Bytes
<1>4. SubSeq(s, n + 1, Len(s)) = Bytes(a + n, b)
  <2>1. SubSeq(s, n + 1, Len(s)) = [k \in 1..(Len(s) - n) |-> s[n + k]]
    BY <1>1
  <2>2. Len(s) - n = b - (a + n)
    BY <1>1
  <2>3. \A k \in 1..(b - (a + n)) : s[n + k] = (a + n) + k
    BY <1>2
  <2> QED
    BY <2>1, <2>2, <2>3 DEF Bytes
<1> QED
  BY <1>1, <1>3, <1>4

LEMMA BytesHead ==
  ASSUME NEW a \in Nat, NEW b \in Nat, a < b
  PROVE  Head(Bytes(a, b)) = a + 1 /\ Tail(Bytes(a, b)) = Bytes(a + 1, b)
<1>1. PICK s \in Seq(Nat) : s = Bytes(a, b) /\ Len(s) = b - a
  BY BytesType
<1>2. \A k \in 1..(b - a) : s[k] = a + k
  BY <1>1 DEF Bytes
<1>3. Head(s) = s[1] /\ 1 \in 1..(b - a) /\ s # << >>
  BY <1>1
<1>4. PICK t : /\ t = Tail(s) /\ t \in Seq(Nat) /\ Len(t) = Len(s) - 1
               /\ \A k \in 1..Len(t) : t[k] = s[k + 1]
  <2>1. PICK t : t = Tail(s)
    OBVIOUS
  <2>2. t \in Seq(Nat) /\ Len(t) = Len(s) - 1 /\ \A k \in 1..Len(t) : t[k] = s[k + 1]
    BY <1>3, <2>1, HeadTailProperties
  <2> QED
    BY <2>1, <2>2
<1>5. a + 1 \in Nat /\ a + 1 <= b
  OBVIOUS
<1>6. PICK u \in Seq(Nat) : u = Bytes(a + 1, b) /\ Len(u) = b - (a + 1)
  BY <1>5, BytesType
<1>7. \A k \in 1..(b - (a + 1)) : u[k] = (a + 1) + k
  BY <1>6 DEF Bytes
<1>8. Len(t) = Len(u) /\ \A k \in 1..Len(t) : t[k] = u[k]
  BY <1>1, <1>2, <1>4, <1>6, <1>7
<1>9. t = u
  BY <1>4, <1>6, <1>8, SeqEqual
<1> QED
  BY <1>1, <1>2, <1>3, <1>4, <1>6, <1>9

LEMMA BytesAppend ==
  ASSUME NEW a \in Nat, NEW b \in Nat, a <= b
  PROVE  Append(Bytes(a, b), b + 1) = Bytes(a, b + 1)
<1>1. PICK s \in Seq(Nat) : s = Bytes(a, b) /\ Len(s) = b - a
  BY BytesType
<1>2. \A k \in 1..(b - a) : s[k] = a + k
  BY <1>1 DEF Bytes
<1>3. PICK t : /\ t = Append(s, b + 1) /\ t \in Seq(Nat) /\ Len(t) = Len(s) + 1
               /\ t[Len(s) + 1] = b + 1 /\ \A k \in 1..Len(s) : t[k] = s[k]
  <2>0. PICK x \in Nat : x = b + 1
    OBVIOUS
  <2>1. PICK t : t = Append(s, x)
    OBVIOUS
  <2>2. /\ t \in Seq(Nat) /\ Len(t) = Len(s) + 1 /\ t[Len(s) + 1] = x
        /\ \A k \in 1..Len(s) : t[k] = s[k]
    BY <2>1, AppendProperties
  <2> QED
    BY <2>0, <2>1, <2>2
<1>4. PICK u : u = Bytes(a, b + 1) /\ u \in Seq(Nat) /\ Len(u) = b + 1 - a
  <2>1. PICK e \in Nat : e = b + 1 /\ a <= e
    OBVIOUS
  <2>2. Bytes(a, e) \in Seq(Nat) /\ Len(Bytes(a, e)) = e - a
    BY <2>1, BytesType
  <2> QED
    BY <2>1, <2>2
<1>5. \A k \in 1..(b + 1 - a) : u[k] = a + k
  BY <1>4 DEF Bytes
<1>6. Len(t) = Len(u) /\ \A k \in 1..Len(t) : t[k] = u[k]
  <2>1. Len(t) = b + 1 - a /\ Len(s) = b - a
    BY <1>1, <1>3
  <2>2. ASSUME NEW k \in 1..(b + 1 - a) PROVE t[k] = a + k
    <3>1. CASE k = b + 1 - a
      BY <1>3, <2>1, <3>1
    <3>2. CASE k # b + 1 - a
      <4>1. k \in 1..(b - a)
        BY <3>2
      <4> QED
        BY <1>2, <1>3, <2>1, <4>1
    <3> QED
      BY <3>1, <3>2
  <2> QED
    BY <1>4, <1>5, <2>1, <2>2
<1>7. t = u
  BY <1>3, <1>4, <1>6, SeqEqual
<1> QED
  BY <1>1, <1>3, <1>4, <1>7

\* The bytes among the units w are g+1, ..., m, in order.
Carries(w, g, m) ==
  /\ \A q \in 1..Len(w) : IsByte(w[q]) =>
       w[q] \in (g + 1)..m /\ \A p \in 1..(q - 1) : IsByte(w[p]) => w[p] < w[q]
  /\ \A k \in (g + 1)..m : \E q \in 1..Len(w) : w[q] = k

LEMMA CarriesNone ==
  ASSUME NEW g \in Nat, NEW m \in Nat, g <= m
  PROVE  Carries(<< >>, g, m) <=> g = m
<1>1. Len(<< >>) = 0 /\ 1..0 = {}
  OBVIOUS
<1>2. CASE g = m
  BY <1>1, <1>2 DEF Carries
<1>3. CASE g # m
  <2>1. g + 1 \in (g + 1)..m
    BY <1>3
  <2> QED
    BY <1>1, <1>3, <2>1 DEF Carries
<1> QED
  BY <1>2, <1>3

LEMMA AppendFacts ==
  ASSUME NEW w \in Seq(Int), NEW x \in Int
  PROVE  \E t : /\ t = Append(w, x) /\ t \in Seq(Int) /\ Len(t) = Len(w) + 1 /\ t[Len(w) + 1] = x
                /\ \A k \in 1..Len(w) : t[k] = w[k]
<1>1. PICK t : t = Append(w, x)
  OBVIOUS
<1>2. /\ t \in Seq(Int) /\ Len(t) = Len(w) + 1 /\ t[Len(w) + 1] = x
      /\ \A k \in 1..Len(w) : t[k] = w[k]
  BY <1>1, AppendProperties
<1> QED
  BY <1>1, <1>2

\* A unit is appended: one that is no byte, or the next byte.
LEMMA CarriesAppend ==
  ASSUME NEW w \in Seq(Int), NEW g \in Nat, NEW m \in Nat, g <= m, Carries(w, g, m)
  PROVE  /\ \A x \in Int : ~IsByte(x) => Carries(Append(w, x), g, m)
         /\ Carries(Append(w, m + 1), g, m + 1)
<1>0. PICK n \in Nat : n = Len(w)
  OBVIOUS
<1>1. ASSUME NEW x \in Int, ~IsByte(x) PROVE Carries(Append(w, x), g, m)
  <2>1. PICK t : /\ t = Append(w, x) /\ t \in Seq(Int) /\ Len(t) = n + 1 /\ t[n + 1] = x
                 /\ \A k \in 1..n : t[k] = w[k]
    <3>1. PICK t : /\ t = Append(w, x) /\ t \in Seq(Int) /\ Len(t) = Len(w) + 1 /\ t[Len(w) + 1] = x
                   /\ \A k \in 1..Len(w) : t[k] = w[k]
      BY AppendFacts
    <3> QED
      BY <1>0, <3>1
  <2>2. ASSUME NEW q \in 1..Len(t), IsByte(t[q])
        PROVE  t[q] \in (g + 1)..m /\ \A p \in 1..(q - 1) : IsByte(t[p]) => t[p] < t[q]
    <3>1. q # n + 1
      BY <1>1, <2>1, <2>2
    <3>2. q \in 1..n /\ \A p \in 1..(q - 1) : p \in 1..n
      BY <1>0, <2>1, <3>1
    <3> QED
      BY <1>0, <2>1, <2>2, <3>2 DEF Carries
  <2>3. ASSUME NEW k \in (g + 1)..m PROVE \E q \in 1..Len(t) : t[q] = k
    <3>1. PICK q \in 1..n : w[q] = k
      BY <1>0 DEF Carries
    <3> QED
      BY <2>1, <3>1
  <2>4. Carries(t, g, m)
    BY <2>2, <2>3 DEF Carries
  <2> QED
    BY <2>1, <2>4
<1>2. Carries(Append(w, m + 1), g, m + 1)
  <2>1. PICK t : /\ t = Append(w, m + 1) /\ t \in Seq(Int) /\ Len(t) = n + 1 /\ t[n + 1] = m + 1
                 /\ \A k \in 1..n : t[k] = w[k]
    <3>1. PICK x \in Int : x = m + 1
      OBVIOUS
    <3>2. PICK t : /\ t = Append(w, x) /\ t \in Seq(Int) /\ Len(t) = Len(w) + 1 /\ t[Len(w) + 1] = x
                   /\ \A k \in 1..Len(w) : t[k] = w[k]
      BY AppendFacts
    <3> QED
      BY <1>0, <3>1, <3>2
  <2>2. ASSUME NEW q \in 1..Len(t), IsByte(t[q])
        PROVE  t[q] \in (g + 1)..(m + 1) /\ \A p \in 1..(q - 1) : IsByte(t[p]) => t[p] < t[q]
    <3>1. CASE q = n + 1
      <4>1. \A p \in 1..(q - 1) : p \in 1..n /\ (IsByte(w[p]) => w[p] \in (g + 1)..m)
        BY <1>0, <3>1 DEF Carries
      <4>2. t[q] = m + 1 /\ \A p \in 1..(q - 1) : t[p] = w[p]
        BY <2>1, <3>1, <4>1
      <4> QED
        BY <4>1, <4>2
    <3>2. CASE q # n + 1
      <4>1. q \in 1..n /\ \A p \in 1..(q - 1) : p \in 1..n
        BY <1>0, <2>1, <3>2
      <4>2. t[q] \in (g + 1)..m /\ \A p \in 1..(q - 1) : IsByte(t[p]) => t[p] < t[q]
        BY <1>0, <2>1, <2>2, <4>1 DEF Carries
      <4> QED
        BY <4>2
    <3> QED
      BY <3>1, <3>2
  <2>3. ASSUME NEW k \in (g + 1)..(m + 1) PROVE \E q \in 1..Len(t) : t[q] = k
    <3>1. CASE k = m + 1
      BY <2>1, <3>1
    <3>2. CASE k # m + 1
      <4>1. k \in (g + 1)..m
        BY <3>2
      <4>2. PICK q \in 1..n : w[q] = k
        BY <1>0, <4>1 DEF Carries
      <4> QED
        BY <2>1, <4>2
    <3> QED
      BY <3>1, <3>2
  <2>4. Carries(t, g, m + 1)
    BY <2>2, <2>3 DEF Carries
  <2> QED
    BY <2>1, <2>4
<1> QED
  BY <1>1, <1>2

\* The first unit is taken: if it is a byte, it is the first of the run.
LEMMA CarriesTail ==
  ASSUME NEW w \in Seq(Int), NEW g \in Nat, NEW m \in Nat, g <= m, Carries(w, g, m), w # << >>
  PROVE  /\ ~IsByte(Head(w)) => Carries(Tail(w), g, m)
         /\ IsByte(Head(w)) => Head(w) = g + 1 /\ g + 1 <= m /\ Carries(Tail(w), g + 1, m)
<1>0. PICK n \in Nat : n = Len(w) /\ n > 0 /\ Head(w) = w[1]
  BY EmptySeq
<1>1. PICK t : /\ t = Tail(w) /\ t \in Seq(Int) /\ Len(t) = n - 1
               /\ \A k \in 1..(n - 1) : t[k] = w[k + 1]
  <2>1. PICK t : t = Tail(w)
    OBVIOUS
  <2>2. t \in Seq(Int) /\ Len(t) = Len(w) - 1 /\ \A k \in 1..Len(t) : t[k] = w[k + 1]
    BY <2>1, HeadTailProperties
  <2> QED
    BY <1>0, <2>1, <2>2
<1>2. \A q \in 1..n : w[q] \in Int
  BY <1>0
<1>3. \A q \in 1..Len(t) : IsByte(t[q]) =>
        /\ t[q] \in (g + 1)..m /\ \A p \in 1..(q - 1) : IsByte(t[p]) => t[p] < t[q]
        /\ IsByte(w[1]) => w[1] < t[q]
  <2> SUFFICES ASSUME NEW q \in 1..(n - 1), IsByte(t[q])
               PROVE  /\ t[q] \in (g + 1)..m /\ \A p \in 1..(q - 1) : IsByte(t[p]) => t[p] < t[q]
                      /\ IsByte(w[1]) => w[1] < t[q]
    BY <1>1
  <2>1. q + 1 \in 1..n /\ 1 \in 1..((q + 1) - 1) /\ t[q] = w[q + 1]
    BY <1>0, <1>1
  <2>2. w[q + 1] \in (g + 1)..m /\ \A p \in 1..((q + 1) - 1) : IsByte(w[p]) => w[p] < w[q + 1]
    BY <1>0, <2>1 DEF Carries
  <2>3. \A p \in 1..(q - 1) : p + 1 \in 1..((q + 1) - 1) /\ t[p] = w[p + 1]
    BY <1>0, <1>1
  <2> QED
    BY <2>1, <2>2, <2>3
<1>4. ASSUME ~IsByte(Head(w)) PROVE Carries(Tail(w), g, m)
  <2>1. ASSUME NEW k \in (g + 1)..m PROVE \E q \in 1..Len(t) : t[q] = k
    <3>1. PICK q \in 1..n : w[q] = k
      BY <1>0 DEF Carries
    <3>2. q # 1
      BY <1>0, <1>4, <3>1 DEF IsByte
    <3>3. q - 1 \in 1..Len(t) /\ t[q - 1] = w[q]
      BY <1>0, <1>1, <3>2
    <3> QED
      BY <3>1, <3>3
  <2> QED
    BY <1>1, <1>3, <2>1 DEF Carries
<1>5. ASSUME IsByte(Head(w)) PROVE Head(w) = g + 1 /\ g + 1 <= m /\ Carries(Tail(w), g + 1, m)
  <2>1. 1 \in 1..n /\ w[1] \in (g + 1)..m
    BY <1>0, <1>5 DEF Carries
  <2>2. w[1] = g + 1
    <3>1. g + 1 \in (g + 1)..m
      BY <2>1
    <3>2. PICK q \in 1..n : w[q] = g + 1
      BY <1>0, <3>1 DEF Carries
    <3>3. CASE q = 1
      BY <3>2, <3>3
    <3>4. CASE q # 1
      <4>1. q - 1 \in 1..Len(t) /\ t[q - 1] = w[q] /\ IsByte(t[q - 1])
        BY <1>0, <1>1, <3>2, <3>4 DEF IsByte
      <4>2. w[1] < g + 1
        BY <1>0, <1>3, <1>5, <3>2, <4>1
      <4> QED
        BY <2>1, <4>2
    <3> QED
      BY <3>3, <3>4
  <2>3. \A q \in 1..Len(t) : IsByte(t[q]) =>
          t[q] \in ((g + 1) + 1)..m /\ \A p \in 1..(q - 1) : IsByte(t[p]) => t[p] < t[q]
    <3> SUFFICES ASSUME NEW q \in 1..Len(t), IsByte(t[q]) PROVE t[q] \in ((g + 1) + 1)..m
      BY <1>3
    <3>1. t[q] \in (g + 1)..m /\ g + 1 < t[q]
      BY <1>0, <1>3, <1>5, <2>2
    <3> QED
      BY <3>1
  <2>4. ASSUME NEW k \in ((g + 1) + 1)..m PROVE \E q \in 1..Len(t) : t[q] = k
    <3>1. k \in (g + 1)..m /\ k # g + 1
      OBVIOUS
    <3>2. PICK q \in 1..n : w[q] = k
      BY <1>0, <3>1 DEF Carries
    <3>3. q # 1
      BY <2>2, <3>1, <3>2
    <3>4. q - 1 \in 1..Len(t) /\ t[q - 1] = w[q]
      BY <1>0, <1>1, <3>3
    <3> QED
      BY <3>2, <3>4
  <2>5. Carries(t, g + 1, m)
    BY <2>3, <2>4 DEF Carries
  <2> QED
    BY <1>0, <1>1, <2>1, <2>2, <2>5
<1> QED
  BY <1>4, <1>5
-----------------------------------------------------------------------------
(* The steps of the two senders, without the parameter of Send.            *)

LEMMA BroadcastCases ==
  ASSUME Broadcast
  PROVE  /\ pc = "broadcast" /\ UNCHANGED <<peerVars, inq, backlog, client_fds, ready, recv_msg>>
         /\ \/ i > Slots /\ pc' = "accept" /\ UNCHANGED <<i, wire, err>>
            \/ ~(i > Slots) /\ client_fds[i] = None /\ i' = i + 1 /\ UNCHANGED <<pc, wire, err>>
            \/ ~(i > Slots) /\ client_fds[i] # None /\ UNCHANGED <<pc, i, wire, err>>
            \/ /\ ~(i > Slots) /\ client_fds[i] # None /\ err[client_fds[i]] = "reset"
               /\ err' = [err EXCEPT ![client_fds[i]] = "broken"]
               /\ i' = i + 1 /\ UNCHANGED <<pc, wire>>
            \/ /\ ~(i > Slots) /\ client_fds[i] # None /\ err[client_fds[i]] = "none"
               /\ wire' = [wire EXCEPT ![client_fds[i]] = Append(@, BROADCAST)]
               /\ i' = i + 1 /\ UNCHANGED <<pc, err>>
<1>1. Head(<<BROADCAST>>) = BROADCAST
  BY DEF BROADCAST
<1> QED
  BY <1>1 DEF Broadcast, Send

LEMMA EchoCases ==
  ASSUME Echo
  PROVE  /\ pc = "echo" /\ UNCHANGED <<peerVars, inq, backlog, client_fds, ready>>
         /\ \/ UNCHANGED <<pc, i, recv_msg, wire, err>>
            \/ /\ err[client_fds[i]] = "reset"
               /\ err' = [err EXCEPT ![client_fds[i]] = "broken"]
               /\ recv_msg' = << >> /\ pc' = "clients" /\ i' = i + 1 /\ UNCHANGED wire
            \/ /\ err[client_fds[i]] = "none"
               /\ wire' = [wire EXCEPT ![client_fds[i]] = Append(@, Head(recv_msg))]
               /\ recv_msg' = Tail(recv_msg) /\ UNCHANGED err
               /\ IF Tail(recv_msg) = << >> THEN pc' = "clients" /\ i' = i + 1
                  ELSE UNCHANGED <<pc, i>>
  BY DEF Echo, Send
-----------------------------------------------------------------------------
(* Where the s bytes a client has sent are: gt read back by it, w on the   *)
(* wire, o in recv_msg, q in the kernel.                                   *)

Stream(gt, w, e, o, q, s) ==
  \E g, m, r \in Nat :
    /\ g <= m /\ m <= r /\ r <= s
    /\ gt = Bytes(0, g) /\ Carries(w, g, m)
    /\ e = "none" => o = Bytes(m, r) /\ q = Bytes(r, s)

LEMMA StreamStart == Stream(<< >>, << >>, "none", << >>, << >>, 0)
<1>1. Bytes(0, 0) = << >> /\ Carries(<< >>, 0, 0)
  BY BytesNone, CarriesNone
<1> QED
  BY <1>1 DEF Stream

\* The client sends one more byte.
LEMMA StreamSend ==
  ASSUME NEW gt, NEW w, NEW e, NEW o, NEW q, NEW s \in Nat, Stream(gt, w, e, o, q, s)
  PROVE  Stream(gt, w, e, o, Append(q, s + 1), s + 1)
<1>1. PICK g, m, r \in Nat :
        /\ g <= m /\ m <= r /\ r <= s /\ gt = Bytes(0, g) /\ Carries(w, g, m)
        /\ e = "none" => o = Bytes(m, r) /\ q = Bytes(r, s)
  BY DEF Stream
<1>2. Append(Bytes(r, s), s + 1) = Bytes(r, s + 1)
  BY <1>1, BytesAppend
<1>3. r <= s + 1
  BY <1>1
<1> QED
  BY <1>1, <1>2, <1>3 DEF Stream

\* The client reads a unit.
LEMMA StreamRead ==
  ASSUME NEW gt, NEW w \in Seq(Int), NEW e, NEW o, NEW q, NEW s \in Nat,
         Stream(gt, w, e, o, q, s), w # << >>
  PROVE  Stream(IF IsByte(Head(w)) THEN Append(gt, Head(w)) ELSE gt, Tail(w), e, o, q, s)
<1>1. PICK g, m, r \in Nat :
        /\ g <= m /\ m <= r /\ r <= s /\ gt = Bytes(0, g) /\ Carries(w, g, m)
        /\ e = "none" => o = Bytes(m, r) /\ q = Bytes(r, s)
  BY DEF Stream
<1>2. CASE ~IsByte(Head(w))
  <2>1. Carries(Tail(w), g, m)
    BY <1>1, <1>2, CarriesTail
  <2> QED
    BY <1>1, <1>2, <2>1 DEF Stream
<1>3. CASE IsByte(Head(w))
  <2>1. Head(w) = g + 1 /\ g + 1 <= m /\ Carries(Tail(w), g + 1, m)
    BY <1>1, <1>3, CarriesTail
  <2>2. Append(Bytes(0, g), g + 1) = Bytes(0, g + 1)
    <3>1. 0 \in Nat /\ 0 <= g
      OBVIOUS
    <3> QED
      BY <3>1, BytesAppend
  <2>3. g + 1 \in Nat
    OBVIOUS
  <2> QED
    BY <1>1, <1>3, <2>1, <2>2, <2>3 DEF Stream
<1> QED
  BY <1>2, <1>3

\* Once an error is set, only what the client has and what is on its way
\* matters; a reset drops that too.
LEMMA StreamBroken ==
  ASSUME NEW gt, NEW w, NEW e, NEW o, NEW q, NEW s \in Nat, Stream(gt, w, e, o, q, s),
         NEW f, f # "none", NEW v, NEW p
  PROVE  Stream(gt, w, f, v, p, s) /\ Stream(gt, << >>, f, v, p, s)
<1>1. PICK g, m, r \in Nat :
        g <= m /\ m <= r /\ r <= s /\ gt = Bytes(0, g) /\ Carries(w, g, m)
  BY DEF Stream
<1>2. Carries(<< >>, g, g) /\ g <= g /\ g <= s
  BY <1>1, CarriesNone
<1> QED
  BY <1>1, <1>2 DEF Stream

\* A line of the operator or a refusal is put on the wire.
LEMMA StreamUnit ==
  ASSUME NEW gt, NEW w \in Seq(Int), NEW e, NEW o, NEW q, NEW s \in Nat,
         Stream(gt, w, e, o, q, s), NEW x \in Int, ~IsByte(x)
  PROVE  Stream(gt, Append(w, x), e, o, q, s)
<1>1. PICK g, m, r \in Nat :
        /\ g <= m /\ m <= r /\ r <= s /\ gt = Bytes(0, g) /\ Carries(w, g, m)
        /\ e = "none" => o = Bytes(m, r) /\ q = Bytes(r, s)
  BY DEF Stream
<1>2. Carries(Append(w, x), g, m)
  BY <1>1, CarriesAppend
<1> QED
  BY <1>1, <1>2 DEF Stream

\* recv takes the first n bytes of the kernel's.
LEMMA StreamReceive ==
  ASSUME NEW gt, NEW w, NEW e, NEW q \in Seq(Nat), NEW s \in Nat,
         Stream(gt, w, e, << >>, q, s), NEW n \in 1..Len(q)
  PROVE  Stream(gt, w, e, SubSeq(q, 1, n), SubSeq(q, n + 1, Len(q)), s)
<1>1. PICK g, m, r \in Nat :
        /\ g <= m /\ m <= r /\ r <= s /\ gt = Bytes(0, g) /\ Carries(w, g, m)
        /\ e = "none" => << >> = Bytes(m, r) /\ q = Bytes(r, s)
  BY DEF Stream
<1>2. CASE e # "none"
  BY <1>1, <1>2 DEF Stream
<1>3. CASE e = "none"
  <2>1. m = r
    BY <1>1, <1>3, BytesNone
  <2>2. Len(Bytes(r, s)) = s - r
    BY <1>1, BytesType
  <2>3. n \in 0..(s - r)
    BY <1>1, <1>3, <2>2
  <2>4. SubSeq(q, 1, n) = Bytes(r, r + n) /\ SubSeq(q, n + 1, Len(q)) = Bytes(r + n, s)
    <3>1. /\ SubSeq(Bytes(r, s), 1, n) = Bytes(r, r + n)
          /\ SubSeq(Bytes(r, s), n + 1, Len(Bytes(r, s))) = Bytes(r + n, s)
      BY <1>1, <2>3, BytesTake
    <3> QED
      BY <1>1, <1>3, <3>1
  <2>5. r + n \in Nat /\ m <= r + n /\ r + n <= s
    BY <1>1, <2>3
  <2> QED
    BY <1>1, <2>1, <2>4, <2>5 DEF Stream
<1> QED
  BY <1>2, <1>3

\* The first byte of recv_msg is put on the wire.
LEMMA StreamEcho ==
  ASSUME NEW gt, NEW w \in Seq(Int), NEW o, NEW q, NEW s \in Nat,
         Stream(gt, w, "none", o, q, s), o # << >>
  PROVE  Stream(gt, Append(w, Head(o)), "none", Tail(o), q, s)
<1>1. PICK g, m, r \in Nat :
        /\ g <= m /\ m <= r /\ r <= s /\ gt = Bytes(0, g) /\ Carries(w, g, m)
        /\ o = Bytes(m, r) /\ q = Bytes(r, s)
  BY DEF Stream
<1>2. m < r
  BY <1>1, BytesNone
<1>3. Head(o) = m + 1 /\ Tail(o) = Bytes(m + 1, r)
  BY <1>1, <1>2, BytesHead
<1>4. Carries(Append(w, m + 1), g, m + 1)
  BY <1>1, CarriesAppend
<1>5. m + 1 \in Nat /\ g <= m + 1 /\ m + 1 <= r
  BY <1>1, <1>2
<1> QED
  BY <1>1, <1>3, <1>4, <1>5 DEF Stream

\* What the property asks of got and wire.
InOrder(gt, w, s) ==
  LET back == gt \o w
      bytes(n) == {back[k] : k \in {k \in 1..n : IsByte(back[k])}}
  IN  \A n \in DOMAIN back : IsByte(back[n]) => back[n] <= s /\ bytes(n - 1) = 1..back[n] - 1

LEMMA StreamInOrder ==
  ASSUME NEW gt \in Seq(Nat), NEW w \in Seq(Int), NEW e, NEW o, NEW q, NEW s \in Nat,
         Stream(gt, w, e, o, q, s)
  PROVE  InOrder(gt, w, s)
<1>1. PICK g, m, r \in Nat :
        g <= m /\ m <= r /\ r <= s /\ gt = Bytes(0, g) /\ Carries(w, g, m)
  BY DEF Stream
<1>2. Len(gt) = g /\ \A k \in 1..g : gt[k] = k
  <2>1. 0 \in Nat /\ 0 <= g /\ g - 0 = g
    OBVIOUS
  <2>2. Len(Bytes(0, g)) = g
    BY <2>1, BytesType
  <2>3. \A k \in 1..g : Bytes(0, g)[k] = k
    BY <2>1 DEF Bytes
  <2> QED
    BY <1>1, <2>2, <2>3
<1>3. PICK l \in Nat : l = Len(w)
  OBVIOUS
<1>4. PICK back : /\ back = gt \o w /\ DOMAIN back = 1..(g + l)
                  /\ \A k \in 1..g : back[k] = k
                  /\ \A k \in 1..l : back[g + k] = w[k]
  <2>1. PICK back : back = gt \o w
    OBVIOUS
  <2>2. gt \in Seq(Int)
    OBVIOUS
  <2>3. back \in Seq(Int) /\ Len(back) = Len(gt) + Len(w)
    BY <2>1, <2>2, ConcatProperties
  <2>4. \A k \in 1..Len(back) : back[k] = IF k <= Len(gt) THEN gt[k] ELSE w[k - Len(gt)]
    BY <2>1, <2>2, ConcatProperties
  <2>5. DOMAIN back = 1..(g + l)
    BY <1>2, <1>3, <2>3
  <2>6. \A k \in 1..g : back[k] = k
    BY <1>2, <1>3, <2>3, <2>4
  <2>7. \A k \in 1..l : back[g + k] = w[k]
    BY <1>2, <1>3, <2>3, <2>4
  <2> QED
    BY <2>1, <2>5, <2>6, <2>7
<1> DEFINE bytes(n) == {back[k] : k \in {k \in 1..n : IsByte(back[k])}}
<1>5. ASSUME NEW n \in DOMAIN back, IsByte(back[n])
      PROVE  back[n] <= s /\ bytes(n - 1) = 1..back[n] - 1
  <2>1. CASE n <= g
    <3>0. n \in 1..g
      BY <1>4, <2>1
    <3>1. n \in 1..g /\ back[n] = n /\ \A k \in 1..(n - 1) : k \in 1..g /\ back[k] = k
      <4>1. \A k \in 1..(n - 1) : k \in 1..g
        BY <3>0
      <4> QED
        BY <1>4, <3>0, <4>1
    <3>2. \A k \in 1..(n - 1) : IsByte(back[k])
      BY <3>1 DEF IsByte
    <3>3. bytes(n - 1) = 1..(n - 1)
      BY <3>1, <3>2
    <3> QED
      BY <1>1, <2>1, <3>1, <3>3
  <2>2. CASE ~(n <= g)
    <3>1. PICK x \in 1..l : n = g + x
      <4>1. n - g \in 1..l /\ n = g + (n - g)
        BY <1>4, <2>2
      <4> QED
        BY <4>1
    <3>2. PICK v : v = back[n] /\ v = w[x] /\ v \in (g + 1)..m /\ \A p \in 1..(x - 1) : IsByte(w[p]) => w[p] < v
      <4>1. back[n] = w[x]
        BY <1>4, <3>1
      <4>2. w[x] \in (g + 1)..m /\ \A p \in 1..(x - 1) : IsByte(w[p]) => w[p] < w[x]
        BY <1>1, <1>3, <1>5, <3>1, <4>1 DEF Carries
      <4> QED
        BY <4>1, <4>2
    <3>3. ASSUME NEW k \in 1..(n - 1), IsByte(back[k]) PROVE back[k] \in 1..(v - 1)
      <4>1. CASE k <= g
        <5>1. back[k] = k /\ k \in 1..g
          BY <1>4, <4>1
        <5> QED
          BY <3>2, <5>1
      <4>2. CASE ~(k <= g)
        <5>1. PICK p \in 1..(x - 1) : k = g + p
          <6>1. k - g \in 1..(x - 1) /\ k = g + (k - g)
            BY <3>1, <4>2
          <6> QED
            BY <6>1
        <5>2. p \in 1..l /\ back[k] = w[p]
          BY <1>4, <5>1
        <5>3. w[p] \in (g + 1)..m /\ w[p] < v
          BY <1>1, <1>3, <3>2, <3>3, <5>1, <5>2 DEF Carries
        <5> QED
          BY <3>2, <5>2, <5>3
      <4> QED
        BY <4>1, <4>2
    <3>4. ASSUME NEW y \in 1..(v - 1) PROVE \E k \in 1..(n - 1) : IsByte(back[k]) /\ back[k] = y
      <4>1. IsByte(y) /\ y < v
        BY <3>2 DEF IsByte
      <4>2. CASE y <= g
        <5>1. y \in 1..g /\ y \in 1..(n - 1) /\ back[y] = y
          BY <1>4, <2>2, <4>2
        <5> QED
          BY <4>1, <5>1
      <4>3. CASE ~(y <= g)
        <5>1. y \in (g + 1)..m
          BY <3>2, <4>3
        <5>2. PICK p \in 1..l : w[p] = y
          BY <1>1, <1>3, <5>1 DEF Carries
        <5>3. p < x
          <6>1. p # x
            BY <3>2, <4>1, <5>2
          <6>2. ASSUME x < p PROVE FALSE
            <7>1. x \in 1..(p - 1) /\ IsByte(w[x]) /\ IsByte(w[p])
              BY <1>5, <3>2, <4>1, <5>2, <6>2
            <7>2. w[x] < w[p]
              BY <1>1, <1>3, <7>1 DEF Carries
            <7> QED
              BY <3>2, <4>1, <5>2, <7>2
          <6> QED
            BY <6>1, <6>2
        <5>4. g + p \in 1..(n - 1) /\ back[g + p] = y
          <6>1. g + p \in 1..(n - 1)
            BY <3>1, <5>3
          <6>2. back[g + p] = w[p]
            BY <1>4
          <6> QED
            BY <5>2, <6>1, <6>2
        <5> QED
          BY <4>1, <5>4
      <4> QED
        BY <4>2, <4>3
    <3>5. bytes(n - 1) = 1..(v - 1)
      BY <3>3, <3>4
    <3>6. v <= s
      BY <1>1, <3>2
    <3> QED
      BY <3>2, <3>5, <3>6
  <2> QED
    BY <2>1, <2>2
<1> QED
  BY <1>4, <1>5 DEF InOrder
-----------------------------------------------------------------------------
(* The inductive invariant.                                                *)

SelectTypes ==
  /\ peer \in [Client -> {"new", "up", "fin", "rst", "shut"}]
  /\ sent \in [Client -> Nat] /\ got \in [Client -> Seq(Nat)]
  /\ inq \in [Client -> Seq(Nat)] /\ wire \in [Client -> Seq(Int)]
  /\ err \in [Client -> {"none", "reset", "broken"}]
  /\ backlog \in Seq(Client)
  /\ client_fds \in [1..Slots -> Client \cup {None}]
  /\ recv_msg \in Seq(Nat) /\ i \in 1..(Slots + 1)

InTable(c) == \E s \in 1..Slots : client_fds[s] = c

\* What is in the backlog waits there once, is in no entry of the table and
\* has been sent nothing; nor has a client that has not connected.
Waiting ==
  /\ \A k \in 1..Len(backlog) :
       peer[backlog[k]] # "new" /\ wire[backlog[k]] = << >> /\ ~InTable(backlog[k])
  /\ \A k, m \in 1..Len(backlog) : backlog[k] = backlog[m] => k = m
  /\ \A c \in Client : peer[c] = "new" => wire[c] = << >> /\ ~InTable(c)

\* What select found still holds when the loop comes to it, and the echo has
\* a client and bytes.
LoopState ==
  /\ None \notin ready
  /\ pc \in {"stdin", "broadcast", "accept"} /\ "listen" \in ready => backlog # << >>
  /\ pc = "echo" => i \in 1..Slots /\ client_fds[i] \in Client /\ recv_msg # << >>

Own(c) == IF pc = "echo" /\ client_fds[i] = c THEN recv_msg ELSE << >>

Flow(c) == Stream(got[c], wire[c], err[c], Own(c), inq[c], sent[c])

Flows == \A c \in Client : Flow(c)

SelectInv == SelectTypes /\ Waiting /\ LoopState /\ Flows

\* The steps that leave the streams, the table and the backlog alone.
Aside ==
  \/ Select \/ FdSetOverrun \/ Finish \/ Stdin \/ sig_handle
  \/ \E l \in Lines : EnterLine(l)
  \/ \E last \in {<< >>} \cup {<<l>> : l \in LastLines} : EndInput(last)

LEMMA AsideKeeps ==
  ASSUME Aside
  PROVE  /\ UNCHANGED <<peer, sent, got, inq, wire, err, backlog, client_fds, recv_msg>>
         /\ \/ UNCHANGED <<i, pc, ready>>
            \/ pc = "select" /\ pc' = "stdin" /\ ready' = Selected /\ i' = i
            \/ pc = "stdin" /\ pc' \in {"accept", "broadcast"} /\ i' \in {i, 1} /\ ready' = ready
<1>1. CASE Select
  BY <1>1 DEF Select, peerVars, netVars
<1>2. CASE Finish \/ FdSetOverrun
  BY <1>2 DEF Finish, FdSetOverrun, peerVars, netVars, serverVars
<1>3. CASE Stdin
  BY <1>3 DEF Stdin, peerVars, netVars
<1>4. CASE sig_handle
  BY <1>4 DEF sig_handle, peerVars, netVars, serverVars
<1>5. ASSUME NEW l \in Lines, EnterLine(l) PROVE UNCHANGED <<peerVars, netVars, serverVars>>
  BY <1>5 DEF EnterLine
<1>6. ASSUME NEW last, EndInput(last) PROVE UNCHANGED <<peerVars, netVars, serverVars>>
  BY <1>6 DEF EndInput
<1> QED
  BY <1>1, <1>2, <1>3, <1>4, <1>5, <1>6 DEF Aside, peerVars, netVars, serverVars

LEMMA NextSteps ==
  ASSUME [Next]_vars
  PROVE  \/ UNCHANGED vars \/ Aside \/ Broadcast \/ Accept \/ Clients \/ Echo
         \/ \E c \in Client :
              Connect(c) \/ SendBytes(c) \/ Read(c) \/ Close(c) \/ Reset(c) \/ KernelReset(c)
  BY DEF Next, Server, Aside

\* accept is not called or fails for want of a descriptor; or takes the first
\* of the backlog and fails for its length; or returns its socket.
LEMMA AcceptCases ==
  ASSUME Accept, NEW b, b = backlog
  PROVE  /\ UNCHANGED <<sent, got, recv_msg, ready>> /\ i' = 1 /\ pc = "accept" /\ pc' = "clients"
         /\ \/ UNCHANGED <<peer, inq, err, backlog, client_fds, wire>>
            \/ /\ "listen" \in ready /\ backlog' = Tail(b)
               /\ peer' = [peer EXCEPT ![Head(b)] = "shut"]
               /\ inq' = [inq EXCEPT ![Head(b)] = << >>]
               /\ err' = [err EXCEPT ![Head(b)] = "broken"]
               /\ UNCHANGED <<client_fds, wire>>
            \/ /\ "listen" \in ready /\ backlog' = Tail(b) /\ UNCHANGED <<peer, inq, err>>
               /\ \/ Join(Head(b)) /\ UNCHANGED wire
                  \/ /\ wire' = [wire EXCEPT ![Head(b)] = IF err[Head(b)] = "none" THEN <<REFUSAL>> ELSE @]
                     /\ UNCHANGED client_fds
<1>1. UNCHANGED <<sent, got, recv_msg, ready>> /\ i' = 1 /\ pc = "accept" /\ pc' = "clients"
  BY DEF Accept
<1>2. CASE "listen" \notin ready \/ Len(fds) >= FdLimit
  BY <1>1, <1>2 DEF Accept
<1>3. CASE ~("listen" \notin ready \/ Len(fds) >= FdLimit) /\ address_len < 0
  BY <1>1, <1>3 DEF Accept, Shut
<1>4. CASE ~("listen" \notin ready \/ Len(fds) >= FdLimit) /\ ~(address_len < 0)
  <2>1. Accepts(Head(b)) /\ "listen" \in ready /\ backlog' = Tail(b)
    BY <1>4 DEF Accept
  <2> QED
    BY <1>1, <2>1 DEF Accepts
<1> QED
  BY <1>2, <1>3, <1>4

\* A reset changes what the kernels know of one client.
LEMMA ResetCases ==
  ASSUME NEW c \in Client, Reset(c) \/ KernelReset(c)
  PROVE  /\ UNCHANGED <<sent, got, backlog, ready, pc, i, client_fds, recv_msg>>
         /\ peer' = [peer EXCEPT ![c] = "rst"]
         /\ err' \in {[err EXCEPT ![c] = "reset"], [err EXCEPT ![c] = "broken"]}
         /\ \E q \in {<< >>, inq[c]} : inq' = [inq EXCEPT ![c] = q]
         /\ wire' = [wire EXCEPT ![c] = << >>]
<1>1. ASSUME NEW e \in {"reset", "broken"}, ResetBy(c, e)
      PROVE  /\ UNCHANGED <<sent, got, backlog, ready, pc, i, client_fds, recv_msg>>
             /\ peer' = [peer EXCEPT ![c] = "rst"]
             /\ err' \in {[err EXCEPT ![c] = "reset"], [err EXCEPT ![c] = "broken"]}
             /\ \E q \in {<< >>, inq[c]} : inq' = [inq EXCEPT ![c] = q]
             /\ wire' = [wire EXCEPT ![c] = << >>]
  BY <1>1 DEF ResetBy, serverVars
<1>2. ResetBy(c, "reset") \/ ResetBy(c, "broken")
  BY DEF Reset, KernelReset
<1> QED
  BY <1>1, <1>2

\* recv returns some of the bytes, reports the reset, or returns 0.
LEMMA ReceiveCases ==
  ASSUME Receive, NEW c, c = client_fds[i], inq[c] \in Seq(Nat)
  PROVE  \/ \E n \in 1..Len(inq[c]) :
              /\ inq' = [inq EXCEPT ![c] = SubSeq(inq[c], n + 1, Len(inq[c]))]
              /\ recv_msg' = SubSeq(inq[c], 1, n)
              /\ pc' = "echo" /\ UNCHANGED <<client_fds, err, i>>
         \/ /\ err' = [err EXCEPT ![c] = "broken"]
            /\ i' = i + 1 /\ UNCHANGED <<client_fds, inq, recv_msg, pc>>
         \/ /\ client_fds' = [client_fds EXCEPT ![i] = None]
            /\ i' = i + 1 /\ UNCHANGED <<inq, err, recv_msg, pc>>
<1>1. PICK l \in Nat : l = Len(inq[c])
  OBVIOUS
<1>2. BufferSize \in Nat
  BY SelectAssumption
<1>3. Min({l, BufferSize}) \in Nat /\ Min({l, BufferSize}) <= l
  <2>1. \E x \in {l, BufferSize} : \A y \in {l, BufferSize} : x <= y
    BY <1>2
  <2>2. PICK n : n = Min({l, BufferSize}) /\ n \in {l, BufferSize} /\ \A y \in {l, BufferSize} : n <= y
    BY <2>1 DEF Min
  <2> QED
    BY <1>2, <2>2
<1>4. PICK n \in 0..l : n = Min({Len(inq[c]), BufferSize})
  BY <1>1, <1>3
<1>5. CASE n > 0
  <2>1. n \in 1..Len(inq[c]) /\ n # 0
    BY <1>1, <1>5
  <2>2. \/ /\ inq' = [inq EXCEPT ![c] = Unread(c, n)]
           /\ recv_msg' = SubSeq(inq[c], 1, n)
           /\ pc' = "echo" /\ UNCHANGED <<client_fds, err, i>>
        \/ /\ err' = [err EXCEPT ![c] = "broken"]
           /\ i' = i + 1 /\ UNCHANGED <<client_fds, inq, recv_msg, pc>>
    BY <1>4, <2>1 DEF Receive
  <2> QED
    BY <2>1, <2>2 DEF Unread
<1>6. CASE n = 0
  BY <1>1, <1>4, <1>6 DEF Receive, Leave
<1> QED
  BY <1>4, <1>5, <1>6
-----------------------------------------------------------------------------
(* A step preserves the types.                                             *)

LEMMA SenderTypes ==
  ASSUME SelectInv, Broadcast \/ Echo
  PROVE  SelectTypes'
<1> USE DEF SelectInv, SelectTypes
<1>1. CASE Broadcast
  <2>1. /\ UNCHANGED <<peer, sent, got, inq, backlog, client_fds, recv_msg>>
        /\ i' \in {i, i + 1} /\ (i' = i \/ ~(i > Slots))
    BY <1>1, BroadcastCases DEF peerVars
  <2>2. i' \in 1..(Slots + 1)
    BY <2>1, SelectAssumption
  <2>3. err' \in [Client -> {"none", "reset", "broken"}]
    BY <1>1, BroadcastCases
  <2>4. wire' \in [Client -> Seq(Int)]
    <3>1. CASE wire' = wire
      BY <3>1
    <3>2. CASE wire' = [wire EXCEPT ![client_fds[i]] = Append(@, BROADCAST)]
      <4>1. \A w \in Seq(Int) : Append(w, BROADCAST) \in Seq(Int)
        BY AppendProperties DEF BROADCAST
      <4> QED
        BY <3>2, <4>1
    <3> QED
      BY <1>1, <3>1, <3>2, BroadcastCases
  <2> QED
    BY <2>1, <2>2, <2>3, <2>4
<1>2. CASE Echo
  <2>0. pc = "echo" /\ recv_msg # << >> /\ i \in 1..Slots
    BY <1>2, EchoCases DEF LoopState
  <2>1. UNCHANGED <<peer, sent, got, inq, backlog, client_fds>> /\ i' \in {i, i + 1}
    BY <1>2, EchoCases DEF peerVars
  <2>2. i' \in 1..(Slots + 1)
    BY <2>0, <2>1, SelectAssumption
  <2>3. err' \in [Client -> {"none", "reset", "broken"}]
    <3>1. err' \in {err, [err EXCEPT ![client_fds[i]] = "broken"]}
      BY <1>2, EchoCases
    <3> QED
      BY <3>1
  <2>4. Head(recv_msg) \in Nat /\ Tail(recv_msg) \in Seq(Nat)
    BY <2>0, HeadTailProperties
  <2>5. recv_msg' \in {recv_msg, << >>, Tail(recv_msg)}
    BY <1>2, EchoCases
  <2>6. recv_msg' \in Seq(Nat)
    <3>1. << >> \in Seq(Nat)
      OBVIOUS
    <3> QED
      BY <2>4, <2>5, <3>1
  <2>7. wire' \in [Client -> Seq(Int)]
    <3>1. CASE wire' = wire
      BY <3>1
    <3>2. CASE wire' = [wire EXCEPT ![client_fds[i]] = Append(@, Head(recv_msg))]
      <4>1. PICK x \in Int : x = Head(recv_msg)
        BY <2>4
      <4>2. \A w \in Seq(Int) : Append(w, x) \in Seq(Int)
        BY AppendProperties
      <4> QED
        BY <3>2, <4>1, <4>2
    <3> QED
      BY <1>2, <3>1, <3>2, EchoCases
  <2> QED
    BY <2>1, <2>2, <2>3, <2>6, <2>7
<1> QED
  BY <1>1, <1>2

LEMMA TypesStep ==
  ASSUME SelectInv, [Next]_vars
  PROVE  SelectTypes'
<1> USE DEF SelectInv, SelectTypes
<1>1. CASE UNCHANGED vars
  BY <1>1 DEF vars, peerVars, netVars, serverVars
<1>2. CASE Aside
  <2>1. UNCHANGED <<peer, sent, got, inq, wire, err, backlog, client_fds, recv_msg>> /\ i' \in {i, 1}
    BY <1>2, AsideKeeps
  <2>2. i' \in 1..(Slots + 1)
    BY <2>1, SelectAssumption
  <2> QED
    BY <2>1, <2>2
<1>3. CASE Broadcast \/ Echo
  BY <1>3, SenderTypes
<1>4. CASE Accept
  <2>1. PICK b : b = backlog
    OBVIOUS
  <2>2. UNCHANGED <<sent, got, recv_msg, ready>> /\ i' = 1 /\ pc = "accept"
    BY <1>4, <2>1, AcceptCases
  <2>3. i' \in 1..(Slots + 1)
    BY <2>2, SelectAssumption
  <2>4. CASE UNCHANGED <<peer, inq, err, backlog, client_fds, wire>>
    BY <2>2, <2>3, <2>4
  <2>5. ASSUME "listen" \in ready PROVE Head(b) \in Client /\ Tail(b) \in Seq(Client)
    <3>1. b # << >>
      BY <2>1, <2>2, <2>5 DEF LoopState
    <3> QED
      BY <2>1, <3>1, HeadTailProperties
  <2>6. CASE /\ "listen" \in ready /\ backlog' = Tail(b)
             /\ peer' = [peer EXCEPT ![Head(b)] = "shut"]
             /\ inq' = [inq EXCEPT ![Head(b)] = << >>]
             /\ err' = [err EXCEPT ![Head(b)] = "broken"]
             /\ UNCHANGED <<client_fds, wire>>
    <3>1. << >> \in Seq(Nat)
      OBVIOUS
    <3>2. inq' \in [Client -> Seq(Nat)]
      BY <2>6, <3>1
    <3>3. /\ peer' \in [Client -> {"new", "up", "fin", "rst", "shut"}]
          /\ err' \in [Client -> {"none", "reset", "broken"}]
      BY <2>6
    <3> QED
      BY <2>2, <2>3, <2>5, <2>6, <3>2, <3>3
  <2>7. CASE /\ "listen" \in ready /\ backlog' = Tail(b) /\ UNCHANGED <<peer, inq, err>>
             /\ \/ Join(Head(b)) /\ UNCHANGED wire
                \/ /\ wire' = [wire EXCEPT ![Head(b)] = IF err[Head(b)] = "none" THEN <<REFUSAL>> ELSE @]
                   /\ UNCHANGED client_fds
    <3>1. <<REFUSAL>> \in Seq(Int)
      BY DEF REFUSAL
    <3>2. wire' \in [Client -> Seq(Int)]
      BY <2>7, <3>1
    <3>3. client_fds' \in [1..Slots -> Client \cup {None}]
      BY <2>5, <2>7 DEF Join
    <3> QED
      BY <2>2, <2>3, <2>5, <2>7, <3>2, <3>3
  <2> QED
    BY <1>4, <2>1, <2>4, <2>6, <2>7, AcceptCases
<1>5. CASE Clients
  <2>1. UNCHANGED <<peer, sent, got, wire, backlog>>
    BY <1>5 DEF Clients, peerVars
  <2>2. CASE ~(client_fds[i] \in ready /\ ~(i > Slots))
    <3>1. UNCHANGED <<client_fds, inq, err, recv_msg>> /\ (i' = 1 \/ (i' = i + 1 /\ ~(i > Slots)))
      <4>1. CASE i > Slots
        BY <1>5, <4>1 DEF Clients
      <4>2. CASE ~(i > Slots)
        BY <1>5, <2>2, <4>2 DEF Clients
      <4> QED
        BY <4>1, <4>2
    <3>2. i' \in 1..(Slots + 1)
      BY <3>1, SelectAssumption
    <3> QED
      BY <2>1, <3>1, <3>2
  <2>3. CASE client_fds[i] \in ready /\ ~(i > Slots)
    <3>1. Receive /\ i \in 1..Slots
      BY <1>5, <2>3, SelectAssumption DEF Clients
    <3>2. PICK c \in Client : c = client_fds[i]
      BY <2>3, <3>1 DEF LoopState
    <3>3. PICK q \in Seq(Nat) : q = inq[c]
      OBVIOUS
    <3>4. /\ i' \in {i, i + 1}
          /\ client_fds' \in {client_fds, [client_fds EXCEPT ![i] = None]}
          /\ err' \in {err, [err EXCEPT ![c] = "broken"]}
          /\ \/ UNCHANGED <<inq, recv_msg>>
             \/ \E n \in 1..Len(q) : /\ inq' = [inq EXCEPT ![c] = SubSeq(q, n + 1, Len(q))]
                                     /\ recv_msg' = SubSeq(q, 1, n)
      BY <3>1, <3>2, <3>3, ReceiveCases
    <3>5. i' \in 1..(Slots + 1) /\ client_fds' \in [1..Slots -> Client \cup {None}]
      <4>1. i' \in 1..(Slots + 1)
        BY <3>1, <3>4, SelectAssumption
      <4>2. [client_fds EXCEPT ![i] = None] \in [1..Slots -> Client \cup {None}]
        OBVIOUS
      <4> QED
        BY <3>4, <4>1, <4>2
    <3>6. err' \in [Client -> {"none", "reset", "broken"}]
      BY <3>4
    <3>7. ASSUME NEW n \in 1..Len(q) PROVE SubSeq(q, n + 1, Len(q)) \in Seq(Nat) /\ SubSeq(q, 1, n) \in Seq(Nat)
      <4>1. PICK l \in Nat : l = Len(q)
        OBVIOUS
      <4>2. n \in Int /\ n + 1 \in Int /\ l \in Int /\ 1 \in Int /\ n \in 1..l
        BY <4>1
      <4>3. (\A k \in (n + 1)..l : q[k] \in Nat) /\ \A k \in 1..n : q[k] \in Nat
        <5>1. \A k \in 1..l : q[k] \in Nat
          BY <4>1, ElementOfSeq
        <5>2. (\A k \in (n + 1)..l : k \in 1..l) /\ \A k \in 1..n : k \in 1..l
          BY <4>1, <4>2
        <5> QED
          BY <5>1, <5>2
      <4>4. SubSeq(q, n + 1, l) \in Seq(Nat)
        BY <4>2, <4>3, SubSeqProperties
      <4>5. SubSeq(q, 1, n) \in Seq(Nat)
        BY <4>2, <4>3, SubSeqProperties
      <4> QED
        BY <4>1, <4>4, <4>5
    <3>8. inq' \in [Client -> Seq(Nat)] /\ recv_msg' \in Seq(Nat)
      <4>1. CASE UNCHANGED <<inq, recv_msg>>
        BY <4>1
      <4>2. ASSUME NEW u \in Seq(Nat), NEW v \in Seq(Nat), inq' = [inq EXCEPT ![c] = u], recv_msg' = v
            PROVE  inq' \in [Client -> Seq(Nat)] /\ recv_msg' \in Seq(Nat)
        BY <4>2
      <4> QED
        BY <3>4, <3>7, <4>1, <4>2
    <3> QED
      BY <2>1, <3>5, <3>6, <3>8
  <2> QED
    BY <2>2, <2>3
<1>6. ASSUME NEW c \in Client, Connect(c) PROVE SelectTypes'
  <2>1. Append(backlog, c) \in Seq(Client)
    BY AppendProperties
  <2> QED
    BY <1>6, <2>1 DEF Connect, serverVars
<1>7. ASSUME NEW c \in Client, SendBytes(c) PROVE SelectTypes'
  <2>1. PICK x \in Nat : x = sent[c] + 1
    OBVIOUS
  <2>2. Append(inq[c], x) \in Seq(Nat)
    BY AppendProperties
  <2> QED
    BY <1>7, <2>1, <2>2 DEF SendBytes, serverVars
<1>8. ASSUME NEW c \in Client, Read(c) PROVE SelectTypes'
  <2>1. PICK w \in Seq(Int) : w = wire[c] /\ w # << >>
    BY <1>8 DEF Read
  <2>2. Tail(w) \in Seq(Int) /\ Head(w) \in Int
    BY <2>1, HeadTailProperties
  <2>3. ASSUME IsByte(Head(w)) PROVE Append(got[c], Head(w)) \in Seq(Nat)
    <3>1. PICK x \in Nat : x = Head(w)
      BY <2>2, <2>3 DEF IsByte
    <3> QED
      BY <3>1, AppendProperties
  <2>4. PICK h \in Seq(Nat) : h = IF IsByte(Head(w)) THEN Append(got[c], Head(w)) ELSE got[c]
    BY <2>3
  <2>5. got' = [got EXCEPT ![c] = h] /\ wire' = [wire EXCEPT ![c] = Tail(w)]
    BY <1>8, <2>1, <2>4 DEF Read
  <2>6. got' \in [Client -> Seq(Nat)] /\ wire' \in [Client -> Seq(Int)]
    BY <2>2, <2>5
  <2> QED
    BY <1>8, <2>6 DEF Read, serverVars
<1>9. ASSUME NEW c \in Client, Close(c) \/ Reset(c) \/ KernelReset(c) PROVE SelectTypes'
  <2>1. << >> \in Seq(Nat) /\ << >> \in Seq(Int)
    OBVIOUS
  <2>2. CASE Close(c)
    BY <2>2 DEF Close, netVars, serverVars
  <2>3. CASE Reset(c) \/ KernelReset(c)
    <3>1. /\ UNCHANGED <<sent, got, backlog, client_fds, recv_msg, i>>
          /\ peer' = [peer EXCEPT ![c] = "rst"]
          /\ err' \in {[err EXCEPT ![c] = "reset"], [err EXCEPT ![c] = "broken"]}
          /\ \E q \in {<< >>, inq[c]} : inq' = [inq EXCEPT ![c] = q]
          /\ wire' = [wire EXCEPT ![c] = << >>]
      BY <2>3, ResetCases
    <3>2. PICK q \in Seq(Nat) : inq' = [inq EXCEPT ![c] = q]
      BY <2>1, <3>1
    <3>3. wire' \in [Client -> Seq(Int)]
      BY <2>1, <3>1
    <3>4. inq' \in [Client -> Seq(Nat)]
      BY <3>2
    <3>5. /\ peer' \in [Client -> {"new", "up", "fin", "rst", "shut"}]
          /\ err' \in [Client -> {"none", "reset", "broken"}]
      BY <3>1
    <3> QED
      BY <3>1, <3>3, <3>4, <3>5
  <2> QED
    BY <1>9, <2>2, <2>3
<1> QED
  BY <1>1, <1>2, <1>3, <1>4, <1>5, <1>6, <1>7, <1>8, <1>9, NextSteps
-----------------------------------------------------------------------------
(* A step preserves what the loop knows of its place.                      *)

LEMMA LoopStep ==
  ASSUME SelectInv, [Next]_vars
  PROVE  LoopState'
<1>0. SelectTypes /\ LoopState
  BY DEF SelectInv
<1>1. CASE UNCHANGED vars
  BY <1>0, <1>1 DEF vars, netVars, serverVars, LoopState
<1>2. CASE Aside
  <2>1. CASE UNCHANGED <<i, pc, ready>>
    BY <1>0, <1>2, <2>1, AsideKeeps DEF LoopState
  <2>2. CASE pc' = "stdin" /\ ready' = Selected
    <3>1. Watched \subseteq Client
      BY <1>0, SelectAssumption DEF SelectTypes, Watched, Range
    <3>2. None \notin Selected /\ ("listen" \in Selected => backlog # << >>)
      BY <3>1, SelectAssumption DEF Selected
    <3>3. backlog' = backlog
      BY <1>2, AsideKeeps
    <3> QED
      BY <2>2, <3>2, <3>3 DEF LoopState
  <2>3. CASE pc = "stdin" /\ pc' \in {"accept", "broadcast"} /\ ready' = ready
    <3>1. backlog' = backlog
      BY <1>2, AsideKeeps
    <3> QED
      BY <1>0, <2>3, <3>1 DEF LoopState
  <2> QED
    BY <1>2, <2>1, <2>2, <2>3, AsideKeeps
<1>3. CASE Broadcast
  <2>1. pc = "broadcast" /\ pc' \in {"broadcast", "accept"} /\ UNCHANGED <<ready, backlog>>
    BY <1>3, BroadcastCases
  <2> QED
    BY <1>0, <2>1 DEF LoopState
<1>4. CASE Accept
  BY <1>0, <1>4 DEF LoopState, Accept
<1>5. CASE Clients
  <2>1. ready' = ready /\ pc = "clients"
    BY <1>5 DEF Clients
  <2>2. CASE i > Slots
    <3>1. pc' = "select"
      BY <1>5, <2>2 DEF Clients
    <3> QED
      BY <1>0, <2>1, <3>1 DEF LoopState
  <2>3. CASE ~(i > Slots) /\ client_fds[i] \notin ready
    <3>1. pc' = pc
      BY <1>5, <2>3 DEF Clients
    <3> QED
      BY <1>0, <2>1, <3>1 DEF LoopState
  <2>4. CASE ~(i > Slots) /\ client_fds[i] \in ready
    <3>1. Receive /\ i \in 1..Slots
      BY <1>0, <1>5, <2>4, SelectAssumption DEF Clients, SelectTypes
    <3>2. PICK c \in Client : c = client_fds[i]
      BY <1>0, <2>4, <3>1 DEF LoopState, SelectTypes
    <3>3. PICK q \in Seq(Nat) : q = inq[c]
      BY <1>0 DEF SelectTypes
    <3>4. \/ pc' = pc
          \/ /\ pc' = "echo" /\ UNCHANGED <<client_fds, i>>
             /\ \E n \in 1..Len(q) : recv_msg' = SubSeq(q, 1, n)
      BY <3>1, <3>2, <3>3, ReceiveCases
    <3>5. \A n \in 1..Len(q) : SubSeq(q, 1, n) # << >>
      <4> TAKE n \in 1..Len(q)
      <4>1. Len(SubSeq(q, 1, n)) = n
        OBVIOUS
      <4> QED
        BY <4>1
    <3> QED
      BY <1>0, <2>1, <3>1, <3>2, <3>4, <3>5 DEF LoopState
  <2> QED
    BY <2>2, <2>3, <2>4
<1>6. CASE Echo
  <2>1. /\ pc = "echo" /\ UNCHANGED <<ready, client_fds>>
        /\ \/ UNCHANGED <<pc, i, recv_msg>>
           \/ pc' = "clients"
           \/ recv_msg' # << >> /\ UNCHANGED <<pc, i>>
    BY <1>6, EchoCases
  <2> QED
    BY <1>0, <2>1 DEF LoopState
<1>7. ASSUME NEW c \in Client, Connect(c) PROVE LoopState'
  <2>0. backlog \in Seq(Client)
    BY <1>0 DEF SelectTypes
  <2>1. PICK b : b = Append(backlog, c)
    OBVIOUS
  <2>2. b # << >>
    <3>1. Len(backlog) \in Nat /\ Len(b) = Len(backlog) + 1
      BY <2>0, <2>1, AppendProperties, LenProperties
    <3> QED
      BY <3>1
  <2>3. backlog' = b /\ UNCHANGED <<ready, pc, i, client_fds, recv_msg>>
    BY <1>7, <2>1 DEF Connect, serverVars
  <2> QED
    BY <1>0, <2>2, <2>3 DEF LoopState
<1>8. ASSUME NEW c \in Client, SendBytes(c) \/ Read(c) \/ Close(c) \/ Reset(c) \/ KernelReset(c)
      PROVE  LoopState'
  <2>1. UNCHANGED <<backlog, ready, pc, i, client_fds, recv_msg>>
    BY <1>8, ResetCases DEF SendBytes, Read, Close, netVars, serverVars
  <2> QED
    BY <1>0, <2>1 DEF LoopState
<1> QED
  BY <1>1, <1>2, <1>3, <1>4, <1>5, <1>6, <1>7, <1>8, NextSteps
-----------------------------------------------------------------------------
(* A step preserves what is known of the clients that wait.                *)

\* A client that is sent a unit, or has one to read, waits in no backlog.
LEMMA WaitingKept ==
  ASSUME SelectTypes, Waiting, UNCHANGED backlog,
         \A c \in Client : peer[c] # "new" => peer'[c] # "new",
         \A c \in Client : peer'[c] = "new" => peer[c] = "new",
         \A c \in Client : InTable(c)' => InTable(c),
         \A c \in Client : wire'[c] = wire[c] \/ wire'[c] = << >> \/ wire[c] # << >> \/ InTable(c)
  PROVE  Waiting'
<1>1. \A k \in 1..Len(backlog) : backlog[k] \in Client
  BY DEF SelectTypes
<1>2. \A k \in 1..Len(backlog) :
        peer'[backlog[k]] # "new" /\ wire'[backlog[k]] = << >> /\ ~InTable(backlog[k])'
  <2> TAKE k \in 1..Len(backlog)
  <2>1. PICK c \in Client : c = backlog[k]
    BY <1>1
  <2>2. peer[c] # "new" /\ wire[c] = << >> /\ ~InTable(c)
    BY <2>1 DEF Waiting
  <2>3. peer'[c] # "new" /\ wire'[c] = << >> /\ ~InTable(c)'
    BY <2>2
  <2> QED
    BY <2>1, <2>3 DEF InTable
<1>3. ASSUME NEW c \in Client, peer'[c] = "new" PROVE wire'[c] = << >> /\ ~InTable(c)'
  <2>1. wire[c] = << >> /\ ~InTable(c)
    BY <1>3 DEF Waiting
  <2> QED
    BY <2>1
<1> QED
  BY <1>2, <1>3 DEF Waiting, InTable

\* The first of the backlog leaves it: shut out, in an entry of the table, or
\* refused.
LEMMA AcceptWaiting ==
  ASSUME SelectInv, Accept
  PROVE  Waiting'
<1>0. SelectTypes /\ Waiting /\ LoopState
  BY DEF SelectInv
<1>1. \A x \in Client : peer[x] # "new" => peer'[x] # "new"
  BY <1>0, AcceptCases DEF SelectTypes
<1>2. \A x \in Client : peer'[x] = "new" => peer[x] = "new"
  BY <1>0, AcceptCases DEF SelectTypes
<1>3. CASE UNCHANGED <<peer, backlog, client_fds, wire>>
  BY <1>0, <1>3 DEF Waiting, InTable
<1>4. CASE ~UNCHANGED <<peer, backlog, client_fds, wire>>
  <2>1. PICK b : b = backlog
    OBVIOUS
  <2>2. /\ "listen" \in ready /\ pc = "accept" /\ backlog' = Tail(b)
        /\ \/ UNCHANGED <<client_fds, wire>>
           \/ Join(Head(b)) /\ UNCHANGED wire
           \/ /\ wire' = [wire EXCEPT ![Head(b)] = IF err[Head(b)] = "none" THEN <<REFUSAL>> ELSE @]
              /\ UNCHANGED client_fds
    BY <1>4, <2>1, AcceptCases
  <2>3. b \in Seq(Client) /\ b # << >>
    BY <1>0, <2>1, <2>2 DEF LoopState, SelectTypes
  <2>4. PICK n \in Nat : n = Len(b) /\ n > 0 /\ Head(b) = b[1]
    BY <2>3, EmptySeq
  <2>5. PICK t : t = Tail(b) /\ Len(t) = n - 1 /\ \A k \in 1..(n - 1) : t[k] = b[k + 1]
    <3>1. PICK t : t = Tail(b)
      OBVIOUS
    <3>2. Len(t) = Len(b) - 1 /\ \A k \in 1..Len(t) : t[k] = b[k + 1]
      BY <2>3, <3>1, HeadTailProperties
    <3> QED
      BY <2>4, <3>1, <3>2
  <2>6. PICK c \in Client : c = b[1] /\ peer[c] # "new"
    BY <1>0, <2>1, <2>3, <2>4 DEF Waiting
  <2>7. \A x \in Client : x # c => wire'[x] = wire[x] /\ (InTable(x)' => InTable(x))
    <3>0. CASE UNCHANGED <<client_fds, wire>>
      BY <3>0 DEF InTable
    <3>1. CASE Join(c) /\ UNCHANGED wire
      BY <1>0, <3>1 DEF Join, InTable, SelectTypes
    <3>2. CASE wire' = [wire EXCEPT ![c] = IF err[c] = "none" THEN <<REFUSAL>> ELSE @] /\ UNCHANGED client_fds
      BY <1>0, <3>2 DEF InTable, SelectTypes
    <3> QED
      BY <2>2, <2>4, <2>6, <3>0, <3>1, <3>2
  <2>8. ASSUME NEW k \in 1..(n - 1)
        PROVE  peer'[t[k]] # "new" /\ wire'[t[k]] = << >> /\ ~InTable(t[k])'
    <3>1. PICK x \in Client : x = b[k + 1] /\ x = t[k]
      BY <2>3, <2>4, <2>5
    <3>2. 1 \in 1..n /\ k + 1 \in 1..n /\ k + 1 # 1
      BY <2>4
    <3>3. peer[x] # "new" /\ wire[x] = << >> /\ ~InTable(x) /\ x # c
      BY <1>0, <2>1, <2>4, <2>6, <3>1, <3>2 DEF Waiting
    <3>4. wire'[x] = << >> /\ ~InTable(x)' /\ peer'[x] # "new"
      BY <1>1, <2>7, <3>3
    <3> QED
      BY <3>1, <3>4 DEF InTable
  <2>9. ASSUME NEW k \in 1..(n - 1), NEW m \in 1..(n - 1), t[k] = t[m] PROVE k = m
    <3>1. k + 1 \in 1..n /\ m + 1 \in 1..n /\ b[k + 1] = b[m + 1]
      BY <2>4, <2>5, <2>9
    <3>2. k + 1 = m + 1
      BY <1>0, <2>1, <2>4, <3>1 DEF Waiting
    <3> QED
      BY <3>2
  <2>10. ASSUME NEW x \in Client, peer'[x] = "new" PROVE wire'[x] = << >> /\ ~InTable(x)'
    <3>1. x # c /\ wire[x] = << >> /\ ~InTable(x)
      BY <1>0, <1>2, <2>6, <2>10 DEF Waiting
    <3> QED
      BY <2>7, <3>1
  <2>11. backlog' = t /\ Len(t) = n - 1
    BY <2>2, <2>5
  <2> QED
    BY <2>8, <2>9, <2>10, <2>11 DEF Waiting, InTable
<1> QED
  BY <1>3, <1>4

LEMMA WaitingStep ==
  ASSUME SelectInv, [Next]_vars
  PROVE  Waiting'
<1>0. SelectTypes /\ Waiting /\ LoopState
  BY DEF SelectInv
<1>1. CASE UNCHANGED <<peer, wire, backlog, client_fds>>
  BY <1>0, <1>1 DEF Waiting, InTable
<1>2. CASE Broadcast
  <2>1. UNCHANGED <<peer, backlog, client_fds>>
    BY <1>2, BroadcastCases DEF peerVars
  <2>2. ASSUME NEW c \in Client PROVE wire'[c] = wire[c] \/ InTable(c)
    <3>1. CASE wire' = wire
      BY <3>1
    <3>2. CASE ~(i > Slots) /\ wire' = [wire EXCEPT ![client_fds[i]] = Append(@, BROADCAST)]
      <4>1. i \in 1..Slots
        BY <1>0, <3>2, SelectAssumption DEF SelectTypes
      <4> QED
        BY <1>0, <3>2, <4>1 DEF SelectTypes, InTable
    <3> QED
      BY <1>2, <3>1, <3>2, BroadcastCases
  <2>3. \A c \in Client : InTable(c)' => InTable(c)
    BY <2>1 DEF InTable
  <2> QED
    BY <1>0, <2>1, <2>2, <2>3, WaitingKept
<1>3. CASE Echo
  <2>1. pc = "echo" /\ UNCHANGED <<peer, backlog, client_fds>>
    BY <1>3, EchoCases DEF peerVars
  <2>2. ASSUME NEW c \in Client PROVE wire'[c] = wire[c] \/ InTable(c)
    <3>1. CASE wire' = wire
      BY <3>1
    <3>2. CASE wire' = [wire EXCEPT ![client_fds[i]] = Append(@, Head(recv_msg))]
      BY <1>0, <2>1, <3>2 DEF SelectTypes, InTable, LoopState
    <3> QED
      BY <1>3, <3>1, <3>2, EchoCases
  <2>3. \A c \in Client : InTable(c)' => InTable(c)
    BY <2>1 DEF InTable
  <2> QED
    BY <1>0, <2>1, <2>2, <2>3, WaitingKept
<1>4. CASE Accept
  BY <1>4, AcceptWaiting
<1>5. CASE Clients
  <2>1. UNCHANGED <<peer, wire, backlog>>
    BY <1>5 DEF Clients, peerVars
  <2>2. client_fds' \in {client_fds, [client_fds EXCEPT ![i] = None]}
    BY <1>5 DEF Clients, Receive, Leave
  <2>3. \A c \in Client : InTable(c)' => InTable(c)
    BY <1>0, <2>2, SelectAssumption DEF InTable, SelectTypes
  <2> QED
    BY <1>0, <2>1, <2>3, WaitingKept
<1>6. ASSUME NEW c \in Client, Connect(c) PROVE Waiting'
  <2>1. UNCHANGED <<wire, client_fds>> /\ peer[c] = "new" /\ peer' = [peer EXCEPT ![c] = "up"]
    BY <1>6 DEF Connect, serverVars
  <2>2. PICK n \in Nat : n = Len(backlog)
    BY <1>0 DEF SelectTypes
  <2>3. PICK t : t = Append(backlog, c) /\ Len(t) = n + 1 /\ t[n + 1] = c /\ \A k \in 1..n : t[k] = backlog[k]
    <3>1. PICK t : t = Append(backlog, c)
      OBVIOUS
    <3>2. /\ Len(t) = Len(backlog) + 1 /\ t[Len(backlog) + 1] = c
          /\ \A k \in 1..Len(backlog) : t[k] = backlog[k]
      BY <1>0, <3>1, AppendProperties DEF SelectTypes
    <3> QED
      BY <2>2, <3>1, <3>2
  <2>4. \A k \in 1..n : backlog[k] \in Client /\ backlog[k] # c
    BY <1>0, <2>1, <2>2 DEF SelectTypes, Waiting
  <2>5. ASSUME NEW k \in 1..(n + 1)
        PROVE  peer'[t[k]] # "new" /\ wire'[t[k]] = << >> /\ ~InTable(t[k])'
    <3>1. CASE k = n + 1
      BY <1>0, <2>1, <2>3, <3>1 DEF SelectTypes, Waiting, InTable
    <3>2. CASE k # n + 1
      <4>1. k \in 1..n
        BY <3>2
      <4>2. PICK x \in Client : x = backlog[k] /\ x = t[k] /\ x # c
        BY <2>3, <2>4, <4>1
      <4>3. peer[x] # "new" /\ wire[x] = << >> /\ ~InTable(x)
        BY <1>0, <2>2, <4>1, <4>2 DEF Waiting
      <4>4. peer'[x] = peer[x]
        BY <1>0, <2>1, <4>2 DEF SelectTypes
      <4> QED
        BY <2>1, <4>2, <4>3, <4>4 DEF InTable
    <3> QED
      BY <3>1, <3>2
  <2>6. ASSUME NEW k \in 1..(n + 1), NEW m \in 1..(n + 1), t[k] = t[m] PROVE k = m
    <3>1. (k = n + 1 \/ k \in 1..n) /\ (m = n + 1 \/ m \in 1..n)
      OBVIOUS
    <3> QED
      BY <1>0, <2>2, <2>3, <2>4, <2>6, <3>1 DEF Waiting
  <2>7. \A x \in Client : peer'[x] = "new" => wire'[x] = << >> /\ ~InTable(x)'
    BY <1>0, <2>1 DEF Waiting, SelectTypes, InTable
  <2>8. backlog' = t
    BY <1>6, <2>3 DEF Connect
  <2> QED
    BY <2>3, <2>5, <2>6, <2>7, <2>8 DEF Waiting, InTable
<1>7. ASSUME NEW c \in Client, Read(c) PROVE Waiting'
  <2>1. /\ UNCHANGED <<peer, backlog, client_fds>> /\ wire[c] # << >>
        /\ \A x \in Client : x # c => wire'[x] = wire[x]
    BY <1>0, <1>7 DEF Read, serverVars, SelectTypes
  <2>2. \A x \in Client : InTable(x)' => InTable(x)
    BY <2>1 DEF InTable
  <2> QED
    BY <1>0, <2>1, <2>2, WaitingKept
<1>8. ASSUME NEW c \in Client, Close(c) \/ Reset(c) \/ KernelReset(c) PROVE Waiting'
  <2>1. UNCHANGED <<backlog, client_fds>>
    BY <1>8, ResetCases DEF Close, netVars, serverVars
  <2>2. /\ \A x \in Client : peer[x] # "new" => peer'[x] # "new"
        /\ \A x \in Client : peer'[x] = "new" => peer[x] = "new"
    BY <1>0, <1>8, ResetCases DEF Close, SelectTypes
  <2>3. \A x \in Client : wire'[x] = wire[x] \/ wire'[x] = << >>
    BY <1>0, <1>8, ResetCases DEF Close, SelectTypes, netVars
  <2>4. \A x \in Client : InTable(x)' => InTable(x)
    BY <2>1 DEF InTable
  <2> QED
    BY <1>0, <2>1, <2>2, <2>3, <2>4, WaitingKept
<1>9. CASE UNCHANGED vars \/ Aside
  <2>1. UNCHANGED <<peer, wire, backlog, client_fds>>
    BY <1>9, AsideKeeps DEF vars, peerVars, netVars, serverVars
  <2> QED
    BY <1>1, <2>1
<1>10. ASSUME NEW c \in Client, SendBytes(c) PROVE Waiting'
  <2>1. UNCHANGED <<peer, wire, backlog, client_fds>>
    BY <1>10 DEF SendBytes, serverVars
  <2> QED
    BY <1>1, <2>1
<1> QED
  BY <1>2, <1>3, <1>4, <1>5, <1>6, <1>7, <1>8, <1>9, <1>10, NextSteps
-----------------------------------------------------------------------------
(* A step preserves the streams.                                           *)

\* The stream of a client whose bytes and units stay where they are.
LEMMA FlowKept ==
  ASSUME Flows, NEW c \in Client, Own(c)' = Own(c), got'[c] = got[c], wire'[c] = wire[c],
         err'[c] = err[c], inq'[c] = inq[c], sent'[c] = sent[c]
  PROVE  Flow(c)'
<1>1. Flow(c)
  BY DEF Flows
<1> QED
  BY <1>1 DEF Flow

LEMMA BroadcastFlow ==
  ASSUME SelectInv, Broadcast, NEW d \in Client
  PROVE  Flow(d)'
<1>0. SelectTypes /\ Flows /\ Flow(d)
  BY DEF SelectInv, Flows
<1>1. UNCHANGED <<got, sent, inq>> /\ pc = "broadcast" /\ pc' \in {"broadcast", "accept"}
  BY BroadcastCases DEF peerVars
<1>2. Own(d) = << >> /\ Own(d)' = << >>
  BY <1>1 DEF Own
<1>3. CASE wire'[d] = wire[d] /\ err'[d] = err[d]
  BY <1>0, <1>1, <1>2, <1>3, FlowKept
<1>4. CASE wire' = wire /\ err' = [err EXCEPT ![client_fds[i]] = "broken"]
  <2>1. CASE client_fds[i] = d
    <3>1. err'[d] = "broken" /\ wire'[d] = wire[d]
      BY <1>0, <1>4, <2>1 DEF SelectTypes
    <3>2. Stream(got[d], wire[d], "broken", << >>, inq[d], sent[d])
      BY <1>0, StreamBroken DEF Flow, SelectTypes
    <3> QED
      BY <1>1, <1>2, <3>1, <3>2 DEF Flow
  <2>2. CASE client_fds[i] # d
    BY <1>0, <1>3, <1>4, <2>2 DEF SelectTypes
  <2> QED
    BY <2>1, <2>2
<1>5. CASE err' = err /\ wire' = [wire EXCEPT ![client_fds[i]] = Append(@, BROADCAST)]
  <2>1. CASE client_fds[i] = d
    <3>1. err'[d] = err[d] /\ wire'[d] = Append(wire[d], BROADCAST)
      BY <1>0, <1>5, <2>1 DEF SelectTypes
    <3>2. BROADCAST \in Int /\ ~IsByte(BROADCAST)
      BY DEF BROADCAST, IsByte
    <3>3. Stream(got[d], Append(wire[d], BROADCAST), err[d], << >>, inq[d], sent[d])
      BY <1>0, <1>2, <3>2, StreamUnit DEF Flow, SelectTypes
    <3> QED
      BY <1>1, <1>2, <3>1, <3>3 DEF Flow
  <2>2. CASE client_fds[i] # d
    BY <1>0, <1>3, <1>5, <2>2 DEF SelectTypes
  <2> QED
    BY <2>1, <2>2
<1> QED
  BY <1>3, <1>4, <1>5, BroadcastCases

LEMMA EchoFlow ==
  ASSUME SelectInv, Echo, NEW d \in Client
  PROVE  Flow(d)'
<1>0. SelectTypes /\ LoopState /\ Flows /\ Flow(d)
  BY DEF SelectInv, Flows
<1>1. UNCHANGED <<got, sent, inq, client_fds>> /\ pc = "echo"
  BY EchoCases DEF peerVars
<1>2. CASE UNCHANGED <<pc, i, recv_msg, wire, err>>
  <2>1. Own(d)' = Own(d)
    BY <1>1, <1>2 DEF Own
  <2> QED
    BY <1>0, <1>1, <1>2, <2>1, FlowKept
<1>3. CASE client_fds[i] # d
  <2>1. wire'[d] = wire[d] /\ err'[d] = err[d]
    BY <1>0, <1>3, EchoCases DEF SelectTypes
  <2>2. pc' = "clients" \/ UNCHANGED <<pc, i>>
    BY EchoCases
  <2>3. Own(d) = << >> /\ Own(d)' = << >>
    BY <1>1, <1>3, <2>2 DEF Own
  <2> QED
    BY <1>0, <1>1, <2>1, <2>3, FlowKept
<1>4. CASE client_fds[i] = d /\ err' = [err EXCEPT ![d] = "broken"] /\ wire' = wire
  <2>1. err'[d] = "broken"
    BY <1>0, <1>4 DEF SelectTypes
  <2>2. Stream(got[d], wire[d], "broken", Own(d)', inq[d], sent[d])
    BY <1>0, StreamBroken DEF Flow, SelectTypes
  <2> QED
    BY <1>1, <1>4, <2>1, <2>2 DEF Flow
<1>5. CASE /\ client_fds[i] = d /\ err[d] = "none" /\ err' = err
           /\ wire' = [wire EXCEPT ![d] = Append(@, Head(recv_msg))]
           /\ recv_msg' = Tail(recv_msg)
           /\ IF Tail(recv_msg) = << >> THEN pc' = "clients" /\ i' = i + 1 ELSE UNCHANGED <<pc, i>>
  <2>1. Own(d) = recv_msg /\ recv_msg # << >>
    BY <1>0, <1>1, <1>5 DEF Own, LoopState
  <2>2. Own(d)' = Tail(recv_msg)
    BY <1>1, <1>5 DEF Own
  <2>3. wire'[d] = Append(wire[d], Head(recv_msg)) /\ err'[d] = "none"
    BY <1>0, <1>5 DEF SelectTypes
  <2>4. Stream(got[d], Append(wire[d], Head(recv_msg)), "none", Tail(recv_msg), inq[d], sent[d])
    BY <1>0, <1>5, <2>1, StreamEcho DEF Flow, SelectTypes
  <2> QED
    BY <1>1, <2>2, <2>3, <2>4 DEF Flow
<1> QED
  BY <1>2, <1>3, <1>4, <1>5, EchoCases

LEMMA AcceptFlow ==
  ASSUME SelectInv, Accept, NEW d \in Client
  PROVE  Flow(d)'
<1>0. SelectTypes /\ Waiting /\ LoopState /\ Flows /\ Flow(d)
  BY DEF SelectInv, Flows
<1>1. PICK b : b = backlog
  OBVIOUS
<1>2. UNCHANGED <<got, sent>> /\ pc = "accept" /\ pc' = "clients"
  BY <1>1, AcceptCases
<1>3. Own(d) = << >> /\ Own(d)' = << >>
  BY <1>2 DEF Own
<1>4. CASE wire'[d] = wire[d] /\ inq'[d] = inq[d] /\ err'[d] = err[d]
  BY <1>0, <1>2, <1>3, <1>4, FlowKept
<1>5. CASE wire' = wire /\ err'[d] = "broken"
  <2>1. Stream(got[d], wire[d], "broken", << >>, inq'[d], sent[d])
    BY <1>0, StreamBroken DEF Flow, SelectTypes
  <2> QED
    BY <1>2, <1>3, <1>5, <2>1 DEF Flow
<1>6. CASE /\ wire'[d] # wire[d] /\ "listen" \in ready /\ UNCHANGED <<inq, err>>
           /\ wire' = [wire EXCEPT ![Head(b)] = IF err[Head(b)] = "none" THEN <<REFUSAL>> ELSE @]
  <2>1. b \in Seq(Client) /\ b # << >>
    BY <1>0, <1>1, <1>2, <1>6 DEF LoopState, SelectTypes
  <2>2. Head(b) = b[1] /\ 1 \in 1..Len(b)
    BY <2>1, EmptySeq
  <2>3. Head(b) = d /\ wire'[d] = <<REFUSAL>>
    BY <1>0, <1>6 DEF SelectTypes
  <2>4. wire[d] = << >>
    BY <1>0, <1>1, <2>2, <2>3 DEF Waiting
  <2>5. Append(<< >>, REFUSAL) = <<REFUSAL>>
    BY DEF REFUSAL
  <2>6. REFUSAL \in Int /\ ~IsByte(REFUSAL)
    BY DEF REFUSAL, IsByte
  <2>7. Stream(got[d], Append(wire[d], REFUSAL), err[d], << >>, inq[d], sent[d])
    BY <1>0, <1>3, <2>6, StreamUnit DEF Flow, SelectTypes
  <2> QED
    BY <1>2, <1>3, <1>6, <2>3, <2>4, <2>5, <2>7 DEF Flow
<1>7. \/ wire'[d] = wire[d] /\ inq'[d] = inq[d] /\ err'[d] = err[d]
      \/ wire' = wire /\ err'[d] = "broken"
      \/ /\ wire'[d] # wire[d] /\ "listen" \in ready /\ UNCHANGED <<inq, err>>
         /\ wire' = [wire EXCEPT ![Head(b)] = IF err[Head(b)] = "none" THEN <<REFUSAL>> ELSE @]
  <2>1. inq \in [Client -> Seq(Nat)] /\ err \in [Client -> {"none", "reset", "broken"}]
    BY <1>0 DEF SelectTypes
  <2> QED
    BY <1>1, <2>1, AcceptCases
<1> QED
  BY <1>4, <1>5, <1>6, <1>7

LEMMA ClientsFlow ==
  ASSUME SelectInv, Clients, NEW d \in Client
  PROVE  Flow(d)'
<1>0. SelectTypes /\ LoopState /\ Flows /\ Flow(d)
  BY DEF SelectInv, Flows
<1>1. UNCHANGED <<got, sent, wire>> /\ pc = "clients"
  BY DEF Clients, peerVars
<1>2. Own(d) = << >>
  BY <1>1 DEF Own
<1>3. CASE UNCHANGED <<inq, err>> /\ pc' # "echo"
  <2>1. Own(d)' = << >>
    BY <1>3 DEF Own
  <2> QED
    BY <1>0, <1>1, <1>2, <1>3, <2>1, FlowKept
<1>4. CASE ~(UNCHANGED <<inq, err>> /\ pc' # "echo")
  <2>1. CASE i > Slots
    BY <1>4, <2>1 DEF Clients
  <2>2. CASE ~(i > Slots) /\ client_fds[i] \notin ready
    BY <1>1, <1>4, <2>2 DEF Clients
  <2>3. CASE ~(i > Slots) /\ client_fds[i] \in ready
    <3>1. Receive /\ i \in 1..Slots
      BY <1>0, <2>3, SelectAssumption DEF Clients, SelectTypes
    <3>2. PICK c \in Client : c = client_fds[i]
      BY <1>0, <2>3, <3>1 DEF LoopState, SelectTypes
    <3>3. PICK q \in Seq(Nat) : q = inq[c]
      BY <1>0 DEF SelectTypes
    <3>4. ASSUME NEW n \in 1..Len(q), inq' = [inq EXCEPT ![c] = SubSeq(q, n + 1, Len(q))],
                 recv_msg' = SubSeq(q, 1, n), pc' = "echo", UNCHANGED <<client_fds, err, i>>
          PROVE  Flow(d)'
      <4>1. CASE d = c
        <5>1. Own(d)' = recv_msg'
          BY <3>2, <3>4, <4>1 DEF Own
        <5>2. inq'[d] = SubSeq(q, n + 1, Len(q))
          BY <1>0, <3>4, <4>1 DEF SelectTypes
        <5>3. Stream(got[d], wire[d], err[d], SubSeq(q, 1, n), SubSeq(q, n + 1, Len(q)), sent[d])
          BY <1>0, <1>2, <3>3, <4>1, StreamReceive DEF Flow, SelectTypes
        <5> QED
          BY <1>1, <3>4, <5>1, <5>2, <5>3 DEF Flow
      <4>2. CASE d # c
        <5>1. Own(d)' = << >>
          BY <3>2, <3>4, <4>2 DEF Own
        <5>2. inq'[d] = inq[d]
          BY <1>0, <3>4, <4>2 DEF SelectTypes
        <5> QED
          BY <1>0, <1>1, <1>2, <3>4, <5>1, <5>2, FlowKept
      <4> QED
        BY <4>1, <4>2
    <3>5. CASE err' = [err EXCEPT ![c] = "broken"] /\ UNCHANGED <<inq, pc>>
      <4>1. Own(d)' = << >>
        BY <1>1, <3>5 DEF Own
      <4>2. CASE d = c
        <5>1. err'[d] = "broken"
          BY <1>0, <3>5, <4>2 DEF SelectTypes
        <5>2. Stream(got[d], wire[d], "broken", << >>, inq[d], sent[d])
          BY <1>0, StreamBroken DEF Flow, SelectTypes
        <5> QED
          BY <1>1, <3>5, <4>1, <5>1, <5>2 DEF Flow
      <4>3. CASE d # c
        <5>1. err'[d] = err[d]
          BY <1>0, <3>5, <4>3 DEF SelectTypes
        <5> QED
          BY <1>0, <1>1, <1>2, <3>5, <4>1, <5>1, FlowKept
      <4> QED
        BY <4>2, <4>3
    <3> QED
      BY <1>1, <1>4, <3>1, <3>2, <3>3, <3>4, <3>5, ReceiveCases
  <2> QED
    BY <2>1, <2>2, <2>3
<1> QED
  BY <1>3, <1>4

\* The steps of a client's own; a reset empties the wire and sets the error.
LEMMA PeerFlow ==
  ASSUME SelectInv, NEW d \in Client, NEW c \in Client,
         Connect(c) \/ SendBytes(c) \/ Read(c) \/ Close(c) \/ Reset(c) \/ KernelReset(c)
  PROVE  Flow(d)'
<1>0. SelectTypes /\ Flows /\ Flow(d)
  BY DEF SelectInv, Flows
<1>1. UNCHANGED <<pc, i, client_fds, recv_msg>>
  BY ResetCases DEF Connect, SendBytes, Read, Close, serverVars
<1>2. Own(d)' = Own(d)
  BY <1>1 DEF Own
<1>3. CASE d # c \/ UNCHANGED <<sent, got, inq, wire, err>>
  <2>1. /\ got'[d] = got[d] /\ wire'[d] = wire[d] /\ err'[d] = err[d]
        /\ inq'[d] = inq[d] /\ sent'[d] = sent[d]
    <3>1. CASE UNCHANGED <<sent, got, inq, wire, err>>
      BY <3>1
    <3>2. CASE d # c /\ (Connect(c) \/ SendBytes(c) \/ Read(c))
      BY <1>0, <3>2 DEF SelectTypes, Connect, SendBytes, Read
    <3>3. CASE Close(c)
      BY <3>3 DEF Close, netVars
    <3>4. CASE d # c /\ (Reset(c) \/ KernelReset(c))
      <4>1. PICK q, e : /\ UNCHANGED <<sent, got>>
                        /\ inq' = [inq EXCEPT ![c] = q] /\ err' = [err EXCEPT ![c] = e]
                        /\ wire' = [wire EXCEPT ![c] = << >>]
        BY <3>4, ResetCases
      <4> QED
        BY <1>0, <3>4, <4>1 DEF SelectTypes
    <3> QED
      BY <1>3, <3>1, <3>2, <3>3, <3>4
  <2> QED
    BY <1>0, <1>2, <2>1, FlowKept
<1>4. CASE Connect(c) \/ Close(c)
  <2>1. UNCHANGED <<sent, got, inq, wire, err>>
    BY <1>4 DEF Connect, Close, netVars
  <2> QED
    BY <1>3, <2>1
<1>5. CASE d = c /\ SendBytes(c)
  <2>1. /\ sent'[d] = sent[d] + 1 /\ inq'[d] = Append(inq[d], sent[d] + 1)
        /\ UNCHANGED <<got, wire, err>>
    BY <1>0, <1>5 DEF SendBytes, SelectTypes
  <2>2. Stream(got[d], wire[d], err[d], Own(d), Append(inq[d], sent[d] + 1), sent[d] + 1)
    BY <1>0, StreamSend DEF Flow, SelectTypes
  <2> QED
    BY <1>2, <2>1, <2>2 DEF Flow
<1>6. CASE d = c /\ Read(c)
  <2>1. PICK w \in Seq(Int) : w = wire[d] /\ w # << >>
    BY <1>0, <1>6 DEF Read, SelectTypes
  <2>2. /\ got'[d] = IF IsByte(Head(w)) THEN Append(got[d], Head(w)) ELSE got[d]
        /\ wire'[d] = Tail(w) /\ UNCHANGED <<sent, inq, err>>
    BY <1>0, <1>6, <2>1 DEF Read, SelectTypes
  <2>3. Stream(IF IsByte(Head(w)) THEN Append(got[d], Head(w)) ELSE got[d], Tail(w),
               err[d], Own(d), inq[d], sent[d])
    BY <1>0, <2>1, StreamRead DEF Flow, SelectTypes
  <2> QED
    BY <1>2, <2>2, <2>3 DEF Flow
<1>7. CASE d = c /\ (Reset(c) \/ KernelReset(c))
  <2>1. wire'[d] = << >> /\ UNCHANGED <<sent, got>> /\ err'[d] # "none"
    <3>1. PICK e \in {"reset", "broken"} : err' = [err EXCEPT ![c] = e]
      BY <1>7, ResetCases
    <3>2. wire' = [wire EXCEPT ![c] = << >>] /\ UNCHANGED <<sent, got>>
      BY <1>7, ResetCases
    <3> QED
      BY <1>0, <1>7, <3>1, <3>2 DEF SelectTypes
  <2>2. Stream(got[d], << >>, err'[d], Own(d), inq'[d], sent[d])
    BY <1>0, <2>1, StreamBroken DEF Flow, SelectTypes
  <2> QED
    BY <1>2, <2>1, <2>2 DEF Flow
<1> QED
  BY <1>3, <1>4, <1>5, <1>6, <1>7

LEMMA FlowsStep ==
  ASSUME SelectInv, [Next]_vars
  PROVE  Flows'
<1> SUFFICES ASSUME NEW d \in Client PROVE Flow(d)'
  BY DEF Flows
<1>1. CASE UNCHANGED vars
  <2>1. UNCHANGED <<sent, got, inq, wire, err, pc, i, client_fds, recv_msg>>
    BY <1>1 DEF vars, peerVars, netVars, serverVars
  <2>2. Own(d)' = Own(d)
    BY <2>1 DEF Own
  <2> QED
    BY <2>1, <2>2, FlowKept DEF SelectInv
<1>2. CASE Aside
  <2>1. UNCHANGED <<sent, got, inq, wire, err, client_fds, recv_msg>>
    BY <1>2, AsideKeeps
  <2>2. UNCHANGED <<pc, i>> \/ (pc # "echo" /\ pc' # "echo")
    BY <1>2, AsideKeeps
  <2>3. Own(d)' = Own(d)
    BY <2>1, <2>2 DEF Own
  <2> QED
    BY <2>1, <2>3, FlowKept DEF SelectInv
<1> QED
  BY <1>1, <1>2, BroadcastFlow, EchoFlow, AcceptFlow, ClientsFlow, PeerFlow, NextSteps

LEMMA SelectInit ==
  ASSUME Init
  PROVE  SelectInv
<1>1. << >> \in Seq(Nat) /\ << >> \in Seq(Int) /\ << >> \in Seq(Client) /\ Len(<< >>) = 0
  OBVIOUS
<1>2. SelectTypes
  BY <1>1, SelectAssumption DEF Init, SelectTypes
<1>3. \A c \in Client : ~InTable(c)
  BY SelectAssumption DEF Init, InTable
<1>4. Waiting
  BY <1>1, <1>3 DEF Init, Waiting
<1>5. LoopState
  BY DEF Init, LoopState
<1>6. Flows
  BY StreamStart DEF Init, Flows, Flow, Own
<1> QED
  BY <1>2, <1>4, <1>5, <1>6 DEF SelectInv

LEMMA SelectInvariant == Spec => []SelectInv
<1>1. Init => SelectInv
  BY SelectInit
<1>2. SelectInv /\ [Next]_vars => SelectInv'
  BY TypesStep, LoopStep, WaitingStep, FlowsStep DEF SelectInv
<1> QED
  BY <1>1, <1>2, PTL DEF Spec
-----------------------------------------------------------------------------
\* select.cc sends every client its own bytes back, each once and in order:
\* whatever lines are broadcast to it between them, however the bytes arrive
\* and recv cuts them, and whoever else is served, refused, reset or leaves.
THEOREM SelectOwnBytesInOrder == Spec => []OwnBytesInOrder
<1>1. SelectInv => OwnBytesInOrder
  <2>1. SUFFICES ASSUME SelectInv, NEW c \in Client PROVE InOrder(got[c], wire[c], sent[c])
    BY DEF OwnBytesInOrder, InOrder
  <2>2. /\ got[c] \in Seq(Nat) /\ wire[c] \in Seq(Int) /\ sent[c] \in Nat
        /\ Stream(got[c], wire[c], err[c], Own(c), inq[c], sent[c])
    BY <2>1 DEF SelectInv, SelectTypes, Flows, Flow
  <2> QED
    BY <2>2, StreamInOrder
<1> QED
  BY <1>1, SelectInvariant, PTL
=============================================================================
