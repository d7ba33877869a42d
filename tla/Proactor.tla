----------------------------- MODULE Proactor -----------------------------
(***************************************************************************)
(* What a socket of the library promises, as README.md puts it: the        *)
(* Proactor style.  An operation that was started is answered by one       *)
(* callback on its object, in some thread that runs the loop; nothing is   *)
(* answered that was not started; and an object is not destroyed while an  *)
(* operation on it is outstanding or a callback on it is running.          *)
(***************************************************************************)
CONSTANTS
  Threads, Socks, NoSock,
  Kinds      \* the operations: of CONNECT, READ, WRITE

VARIABLES
  living,        \* the objects that exist
  outstanding,   \* outstanding[s]: the operations started on s and not answered
  calling        \* calling[t]: the object thread t runs a callback of

proactorVars == <<living, outstanding, calling>>

ProactorInit ==
  /\ living = {}
  /\ outstanding = [s \in Socks |-> {}]
  /\ calling = [t \in Threads |-> NoSock]

Create(s) ==
  /\ s \notin living
  /\ living' = living \cup {s}
  /\ UNCHANGED <<outstanding, calling>>

\* Several threads may run callbacks of one object, and each of them keeps it.
Destroyed(s) ==
  /\ outstanding[s] = {}
  /\ \A t \in Threads : calling'[t] # s
  /\ living' = living \ {s}

Destroy(s) ==
  /\ Destroyed(s)
  /\ UNCHANGED <<outstanding, calling>>

Start(s, k) ==
  /\ s \in living
  /\ k \notin outstanding[s]
  /\ outstanding' = [outstanding EXCEPT ![s] = @ \cup {k}]
  /\ UNCHANGED <<living, calling>>

Answer(t, s, k) ==
  /\ calling[t] = NoSock
  /\ k \in outstanding[s]
  /\ outstanding' = [outstanding EXCEPT ![s] = @ \ {k}]
  /\ calling' = [calling EXCEPT ![t] = s]
  /\ UNCHANGED living

\* onAccept announces a connection on an object that is new to the network.
Announce(t, s) ==
  /\ calling[t] = NoSock
  /\ s \in living
  /\ outstanding[s] = {}
  /\ calling' = [calling EXCEPT ![t] = s]
  /\ UNCHANGED <<living, outstanding>>

Return(t) ==
  /\ calling[t] # NoSock
  /\ calling' = [calling EXCEPT ![t] = NoSock]
  /\ UNCHANGED living \/ Destroyed(calling[t])
  /\ UNCHANGED outstanding

ProactorNext ==
  \/ \E s \in Socks : Create(s) \/ Destroy(s)
  \/ \E s \in Socks, k \in Kinds : Start(s, k)
  \/ \E t \in Threads, s \in Socks : (\E k \in Kinds : Answer(t, s, k)) \/ Announce(t, s)
  \/ \E t \in Threads : Return(t)

ProactorSpec == ProactorInit /\ [][ProactorNext]_proactorVars
=============================================================================
