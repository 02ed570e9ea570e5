---------------------------- MODULE TaskService ----------------------------
(***************************************************************************)
(* What mong-c-test's ThreadPool promises, said without threads, mutex or  *)
(* condition variable: the tasks it accepts, numbered as they come, are    *)
(* begun in that order and each is run once; none is accepted after the    *)
(* destructor has begun, and when it ends all that were accepted are done. *)
(***************************************************************************)
EXTENDS Integers

VARIABLES
  accepted,  \* number of tasks accepted
  begun,     \* number of them begun
  doing,     \* the tasks being run
  finished,  \* the tasks done
  phase      \* "open", "closing" or "closed"

serviceVars == <<accepted, begun, doing, finished, phase>>

SInit ==
  /\ accepted = 0
  /\ begun = 0
  /\ doing = {}
  /\ finished = {}
  /\ phase = "open"

Accept ==
  /\ phase = "open"
  /\ accepted' = accepted + 1
  /\ UNCHANGED <<begun, doing, finished, phase>>

Begin ==
  /\ begun < accepted
  /\ begun' = begun + 1
  /\ doing' = doing \cup {begun + 1}
  /\ UNCHANGED <<accepted, finished, phase>>

Finish(k) ==
  /\ doing' = doing \ {k}
  /\ finished' = finished \cup {k}
  /\ UNCHANGED <<accepted, begun, phase>>

Close ==
  /\ phase = "open"
  /\ phase' = "closing"
  /\ UNCHANGED <<accepted, begun, doing, finished>>

Closed ==
  /\ phase = "closing"
  /\ finished = 1..accepted
  /\ phase' = "closed"
  /\ UNCHANGED <<accepted, begun, doing, finished>>

SNext ==
  \/ Accept \/ Begin \/ Close \/ Closed
  \/ \E k \in doing : Finish(k)

SSpec == SInit /\ [][SNext]_serviceVars
=============================================================================
