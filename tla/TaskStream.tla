---------------------------- MODULE TaskStream ----------------------------
(***************************************************************************)
(* What one thread's stream of posted tasks promises to the threads that   *)
(* dequeue from it: first in first out, each task to one attempt.  An      *)
(* attempt may come back without a task only if it overlaps with at least  *)
(* as many other attempts as it found tasks at its start; with one         *)
(* dequeuer, only if there were none (src/src/concurrentqueue.h:1121:      *)
(* "Returns false if all producer streams appeared empty").                *)
(***************************************************************************)
EXTENDS Naturals, Sequences, FiniteSets

CONSTANTS
  Consumers,
  Tasks,
  None, Attempt    \* what a consumer has outside and inside of an attempt

VARIABLES
  queue,
  hand,      \* None, Attempt or the task
  spare      \* the tasks an attempt found, less the other attempts it overlaps with

streamVars == <<queue, hand, spare>>

StreamInit ==
  /\ queue = <<>>
  /\ hand = [c \in Consumers |-> None]
  /\ spare = [c \in Consumers |-> 0]

Attempting(c) == hand[c] = Attempt

Less(m, n) == IF m > n THEN m - n ELSE 0

Put(v) == queue' = Append(queue, v) /\ UNCHANGED <<hand, spare>>

Begin(c) ==
  /\ hand[c] = None
  /\ hand' = [hand EXCEPT ![c] = Attempt]
  /\ spare' = [d \in Consumers |->
       IF d = c THEN Less(Len(queue), Cardinality({e \in Consumers : Attempting(e)}))
       ELSE IF Attempting(d) THEN Less(spare[d], 1) ELSE 0]
  /\ UNCHANGED queue

Ends(c) == spare' = [spare EXCEPT ![c] = 0]

Get(c) ==
  /\ Attempting(c)
  /\ queue # <<>>
  /\ hand' = [hand EXCEPT ![c] = Head(queue)]
  /\ queue' = Tail(queue)
  /\ Ends(c)

Miss(c) ==
  /\ Attempting(c)
  /\ spare[c] = 0
  /\ hand' = [hand EXCEPT ![c] = None]
  /\ UNCHANGED <<queue, spare>>

Return(c) ==
  /\ hand[c] \in Tasks
  /\ hand' = [hand EXCEPT ![c] = None]
  /\ UNCHANGED <<queue, spare>>

StreamNext ==
  \/ \E v \in Tasks : Put(v)
  \/ \E c \in Consumers : Begin(c) \/ Get(c) \/ Miss(c) \/ Return(c)

StreamSpec == StreamInit /\ [][StreamNext]_streamVars
=============================================================================
