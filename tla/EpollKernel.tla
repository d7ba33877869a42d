---------------------------- MODULE EpollKernel ----------------------------
(***************************************************************************)
(* The part of the operating system that src/epoll relies on: TCP          *)
(* descriptors and one epoll instance in edge-triggered mode.  None of     *)
(* this is code of the repository.  It is modelled from how src/epoll uses *)
(* it: which calls are made, which flags are registered, which event bits  *)
(* and return values are told apart.                                       *)
(*                                                                         *)
(* Edge triggering.  Every epoll_ctl of the library sets EPOLLET.  A       *)
(* descriptor enters the ready list when something happens to it that its  *)
(* interest set asks for, or when EPOLL_CTL_ADD / EPOLL_CTL_MOD finds it   *)
(* ready; epoll_wait takes it off the list and reports what is ready AT    *)
(* THAT MOMENT.  It is not reported again until the next edge, so an event *)
(* bit the program does not act on is gone.                                *)
(*                                                                         *)
(* "HUP" stands for EPOLLHUP or EPOLLERR, which the code never tells apart *)
(* and which the kernel reports without being asked.                       *)
(***************************************************************************)
EXTENDS Integers, FiniteSets

CONSTANTS
  Fds,      \* descriptor numbers the process may have open
  Socks,    \* IoSocket objects
  NoSock,   \* the null pointer
  MaxRx     \* bound: chunks of input queued in one descriptor

ASSUME KernelAssumption ==
  /\ Fds \subseteq Nat \ {0}
  /\ NoSock \notin Socks
  /\ MaxRx \in Nat

VARIABLES
  desc,     \* kernel state of each descriptor, with its epoll registration
  ready     \* the epoll instance's ready list (as a set)

kernelVars == <<desc, ready>>

Interest == {"IN", "OUT"}
Event    == {"IN", "OUT", "HUP"}

(***************************************************************************)
(* conn: "syn" is a connect in progress, "est" both directions open, "fin" *)
(* the peer has closed its direction, "down" a reset, refused or locally   *)
(* shut down connection.  ptr is epoll_event.data.ptr of the registration, *)
(* NoSock when the descriptor is not registered.                           *)
(***************************************************************************)
Conn == {"closed", "syn", "est", "fin", "down"}
Descriptor == [conn : Conn, rx : 0 .. MaxRx, full : BOOLEAN,
               ptr : Socks \cup {NoSock}, mask : SUBSET Interest]

Closed == [conn |-> "closed", rx |-> 0, full |-> FALSE, ptr |-> NoSock, mask |-> {}]

\* Left open by an error path that forgets it: nothing but its number matters.
Abandoned == [Closed EXCEPT !.conn = "down"]

Registered(k) == k.ptr # NoSock

\* What tcp_poll finds true of a descriptor.
Poll(k) ==
  {b \in Event :
     \/ b = "IN"  /\ (k.rx > 0 \/ k.conn \in {"fin", "down"})
     \/ b = "OUT" /\ (k.conn = "down" \/ (k.conn \in {"est", "fin"} /\ ~k.full))
     \/ b = "HUP" /\ k.conn = "down"}

\* What epoll_wait would report of it now.
Reported(k) == IF Registered(k) THEN Poll(k) \cap (k.mask \cup {"HUP"}) ELSE {}

\* EPOLL_CTL_ADD and EPOLL_CTL_MOD: install k for d; an already ready
\* descriptor is put on the ready list again.
Arm(d, k) ==
  /\ desc' = [desc EXCEPT ![d] = k]
  /\ ready' = IF Reported(k) # {} THEN ready \cup {d} ELSE ready

\* ::close, after EPOLL_CTL_DEL.
CloseFd(d) ==
  /\ desc' = [desc EXCEPT ![d] = Closed]
  /\ ready' = ready \ {d}

\* socket() and accept() return the lowest free descriptor.
LowestFree(d) ==
  /\ desc[d].conn = "closed"
  /\ \A e \in Fds : desc[e].conn = "closed" => d <= e

KernelInit ==
  /\ desc = [d \in Fds |-> Closed]
  /\ ready = {}

-----------------------------------------------------------------------------
(***************************************************************************)
(* What the network and the peer do.  A state change of the connection     *)
(* wakes every registration; arriving data wakes those that ask for IN and *)
(* freed send space those that ask for OUT.                                *)
(***************************************************************************)
Changes(d, k, wakes) ==
  /\ Registered(desc[d])
  /\ desc' = [desc EXCEPT ![d] = k]
  /\ ready' = IF wakes THEN ready \cup {d} ELSE ready

Establish(d) ==
  /\ desc[d].conn = "syn"
  /\ Changes(d, [desc[d] EXCEPT !.conn = "est"], TRUE)

Refuse(d) ==
  /\ desc[d].conn = "syn"
  /\ Changes(d, [desc[d] EXCEPT !.conn = "down"], TRUE)

PeerSends(d) ==
  /\ desc[d].conn = "est"
  /\ desc[d].rx < MaxRx
  /\ Changes(d, [desc[d] EXCEPT !.rx = @ + 1], "IN" \in desc[d].mask)

PeerCloses(d) ==
  /\ desc[d].conn = "est"
  /\ Changes(d, [desc[d] EXCEPT !.conn = "fin"], TRUE)

PeerResets(d) ==
  /\ desc[d].conn \in {"est", "fin"}
  /\ Changes(d, [desc[d] EXCEPT !.conn = "down"], TRUE)

PeerDrains(d) ==
  /\ desc[d].conn \in {"est", "fin"}
  /\ desc[d].full
  /\ Changes(d, [desc[d] EXCEPT !.full = FALSE], "OUT" \in desc[d].mask)

Network(d) ==
  \/ Establish(d) \/ Refuse(d)
  \/ PeerSends(d) \/ PeerDrains(d)
  \/ PeerCloses(d) \/ PeerResets(d)
=============================================================================
