---------------------------- MODULE EpollAccept ----------------------------
(***************************************************************************)
(* src/src/epoll/Accept.cpp: the listener, on the loop of EpollLoop.  The  *)
(* action Accepted of that module becomes the handling of the listener's   *)
(* event; everything else the loop, the sockets and the network do stays.  *)
(*                                                                         *)
(* held of an offered socket stands for _sioptr.  The application does     *)
(* not touch a socket while it is offered, offers one that was never       *)
(* connected, and calls listen() on a listener that is not open.           *)
(*                                                                         *)
(* A listening descriptor is never reported with EPOLLHUP or EPOLLERR and, *)
(* being registered for IN or for nothing, never without IN: the branches  *)
(* of onEpollAccept for those events are not taken.                        *)
(***************************************************************************)
EXTENDS EpollLoop

CONSTANTS
  MaxBacklog,   \* bound: connections that wait to be accepted
  AcceptFails   \* accept() may fail with a free descriptor at hand

ASSUME ListenAssumption == MaxBacklog \in Nat /\ AcceptFails \in BOOLEAN

VARIABLES
  lsn,   \* open: _listenfd is valid; sioptr: the socket offered
  lk,    \* the listening descriptor: backlog, registered for IN, on the ready list
  lev    \* the batch holds an undispatched event of the listener

listenVars == <<lsn, lk, lev>>
serverVars == <<vars, listenVars>>

Listener   == [open : BOOLEAN, sioptr : Socks \cup {NoSock}]
ListenItem == [backlog : 0 .. MaxBacklog, in : BOOLEAN, ready : BOOLEAN]

Unregistered == [backlog |-> 0, in |-> FALSE, ready |-> FALSE]

ServerInit ==
  /\ Init
  /\ lsn = [open |-> FALSE, sioptr |-> NoSock]
  /\ lk = Unregistered
  /\ lev = FALSE

-----------------------------------------------------------------------------
(***************************************************************************)
(* The calls of the application, made wherever it may call at all.         *)
(***************************************************************************)

\* listen() that succeeds registers for nothing.  An offer made before an
\* earlier close() is still there and is not armed again.
Listen ==
  /\ ~lsn.open
  /\ lsn' = [lsn EXCEPT !.open = TRUE]
  /\ lk' = Unregistered
  /\ UNCHANGED <<vars, lev>>

\* accept(): EPOLL_CTL_MOD puts a listener with a backlog on the ready list.
Offer(s) ==
  /\ lsn.open
  /\ lsn' = [lsn EXCEPT !.sioptr = s]
  /\ lk' = [lk EXCEPT !.in = TRUE, !.ready = @ \/ lk.backlog > 0]

OfferIsBorrowed(s) ==
  /\ lsn.sioptr = NoSock \/ usr[s].held
  /\ UNCHANGED <<desc, ready, obj, usr>>

\* The offer it replaces, if there is one, is released.
ReplaceOffer(s) ==
  IF lsn.sioptr = NoSock
  THEN /\ usr' = [usr EXCEPT ![s].held = TRUE]
       /\ UNCHANGED <<desc, ready, obj>>
  ELSE usr[s].held /\ DropHandle(lsn.sioptr)

OfferSocket(s) ==
  /\ Reaches(s)
  /\ usr[s].st = "none"
  /\ s # lsn.sioptr
  /\ Offer(s)
  /\ ReplaceOffer(s)
  /\ UNCHANGED <<pc, ptr, batch, lev>>

\* close() forgets neither the offer nor the event in the batch.
CloseListener ==
  /\ lsn.open
  /\ lsn' = [lsn EXCEPT !.open = FALSE]
  /\ lk' = Unregistered
  /\ UNCHANGED <<vars, lev>>

ServerApplication ==
  /\ pc \in {"main", "user"}
  /\ \/ Listen
     \/ CloseListener
     \/ \E s \in Socks : OfferSocket(s)
     \/ /\ \E s \in Socks :
             \/ MakeShared(s)
             \/ s # lsn.sioptr /\ (Call(s) \/ KeepHandle(s) \/ DropHandle(s))
        /\ UNCHANGED <<pc, ptr, batch, listenVars>>

-----------------------------------------------------------------------------
(***************************************************************************)
(* onEpollAccept().  The listener is disarmed first; then one accept().    *)
(***************************************************************************)
StaysArmed(left) == [lk EXCEPT !.backlog = left]

Disarmed(left) == [lk EXCEPT !.backlog = left, !.in = FALSE]

AcceptLeavesOffer(s) ==
  /\ lsn.open
  /\ lk.backlog > 0
  /\ lk' = Disarmed(lk.backlog - 1)
  /\ \E d \in Fds : LowestFree(d) /\ AddEpoll(s, d)
  /\ UNCHANGED lsn

AcceptIgnoresError(s) ==
  /\ lk' = Disarmed(lk.backlog - 1)
  /\ \E d \in Fds : LowestFree(d) /\ AddEpoll(s, d)
  /\ lsn' = [lsn EXCEPT !.sioptr = NoSock]

AcceptSucceeds(s) ==
  /\ lsn.open
  /\ lk.backlog > 0
  /\ lk' = Disarmed(lk.backlog - 1)
  /\ \E d \in Fds : LowestFree(d) /\ AddEpoll(s, d)
  /\ lsn' = [lsn EXCEPT !.sioptr = NoSock]

AcceptErrorReturnsFirst(s) ==
  /\ \/ ~lsn.open
     \/ lk.backlog = 0
     \/ \A d \in Fds : desc[d].conn # "closed"
     \/ AcceptFails
  /\ lk' = StaysArmed(lk.backlog)
  /\ UNCHANGED <<desc, ready, obj, usr, lsn>>

AcceptErrorKeepsOffer(s) ==
  /\ \/ ~lsn.open
     \/ lk.backlog = 0
     \/ \A d \in Fds : desc[d].conn # "closed"
     \/ AcceptFails
  /\ lk' = Disarmed(lk.backlog)
  /\ UNCHANGED <<desc, ready, obj, usr, lsn>>

\* A closed listener, an empty backlog, no descriptor left, or any other error.
AcceptRefused(s) ==
  /\ \/ ~lsn.open
     \/ lk.backlog = 0
     \/ \A d \in Fds : desc[d].conn # "closed"
     \/ AcceptFails
  /\ lk' = Disarmed(lk.backlog)
  /\ usr' = [usr EXCEPT ![s].held = FALSE]
  /\ lsn' = [lsn EXCEPT !.sioptr = NoSock]
  /\ UNCHANGED <<desc, ready, obj>>

OnEpollAccept ==
  /\ pc = "dispatch"
  /\ lev
  /\ lev' = FALSE
  /\ AcceptSucceeds(lsn.sioptr) \/ AcceptRefused(lsn.sioptr)
  /\ pc' = "user"
  /\ ptr' = lsn.sioptr
  /\ UNCHANGED batch

-----------------------------------------------------------------------------
(***************************************************************************)
(* NetLoop::run with the listener's event among the others.                *)
(***************************************************************************)
ServerWait ==
  /\ Wait
  /\ \/ /\ lev' = (lk.ready /\ lk.in /\ lk.backlog > 0)
        /\ lk' = [lk EXCEPT !.ready = FALSE]
     \/ /\ lev' = FALSE
        /\ UNCHANGED lk
  /\ LET places == Cardinality(batch') + IF lev' THEN 1 ELSE 0
     IN  /\ places <= EPOLL_WAIT_MAX
         /\ places = EPOLL_WAIT_MAX \/ (ready' = {} /\ ~lk'.ready)
  /\ UNCHANGED lsn

ServerEndRun ==
  /\ EndRun
  /\ ~lev
  /\ UNCHANGED listenVars

ServerRun ==
  \/ ServerWait
  \/ OnEpollAccept
  \/ (Dispatch \/ Return) /\ UNCHANGED listenVars
  \/ ServerEndRun

\* A client's connection is complete and waits to be accepted.
Arrives ==
  /\ lsn.open
  /\ lk.backlog < MaxBacklog
  /\ lk' = [lk EXCEPT !.backlog = @ + 1, !.ready = @ \/ lk.in]
  /\ UNCHANGED <<vars, lsn, lev>>

ServerEnvironment ==
  \/ Arrives
  \/ Environment /\ UNCHANGED listenVars

ServerNext == ServerRun \/ ServerApplication \/ ServerEnvironment

ServerSpec == ServerInit /\ [][ServerNext]_serverVars

\* The host calls run() for ever, callbacks return, and a connection attempt is
\* decided.
FairServer ==
  /\ ServerSpec
  /\ WF_serverVars(ServerWait)
  /\ WF_serverVars(OnEpollAccept)
  /\ WF_serverVars((Dispatch \/ Return) /\ UNCHANGED listenVars)
  /\ WF_serverVars(ServerEndRun)
  /\ \A d \in Fds : WF_serverVars(/\ Establish(d) \/ Refuse(d)
                                  /\ UNCHANGED <<obj, usr, pc, ptr, batch, listenVars>>)

-----------------------------------------------------------------------------
ListenTypeOK ==
  /\ lsn \in Listener
  /\ lk \in ListenItem
  /\ lev \in BOOLEAN

(***************************************************************************)
(* onEpollAccept uses tmp without asking whether there is an offer: a      *)
(* listener that may be reported, or is about to be dispatched, has one.   *)
(***************************************************************************)
EventHasOffer == lk.in \/ lev => lsn.sioptr # NoSock

(***************************************************************************)
(* No connection is overlooked under EPOLLET: with an offer armed and a    *)
(* client waiting, the listener's event is still to come.                  *)
(***************************************************************************)
WaitingClientWakes == lk.in /\ lk.backlog > 0 => lk.ready \/ lev

(***************************************************************************)
(* The socket that will take the next connection is alive and is not in    *)
(* use: no two connections share an object.                                *)
(***************************************************************************)
OfferIsUnused ==
  lsn.sioptr # NoSock =>
     /\ obj[lsn.sioptr].life = "alive"
     /\ obj[lsn.sioptr].fd = INVALID
     /\ usr[lsn.sioptr].st = "none"
     /\ usr[lsn.sioptr].held

(***************************************************************************)
(* With the listener in it, the loop is still the one of EpollLoop, where  *)
(* Accepted may happen at any time to any socket the application has: all  *)
(* that holds there holds here.                                            *)
(***************************************************************************)
RefinesLoop == Spec

\* An offer that is armed while a client waits comes back by onAccept, with the
\* client's connection or with the error of accept(), unless the application
\* closes the listener.  After an error the client waits for the next offer.
OfferAnswered ==
  (lk.in /\ lk.backlog > 0) ~> (lsn.sioptr = NoSock \/ ~lsn.open)
=============================================================================
