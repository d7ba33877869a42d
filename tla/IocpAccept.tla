----------------------------- MODULE IocpAccept -----------------------------
(***************************************************************************)
(* src/src/iocp/Accept.cpp: a listener on the loop of IocpLoop, where its  *)
(* completion becomes the action Accepted.                                 *)
(*                                                                         *)
(* accept() calls AcceptEx, then assigns _sioptr, then _socket; a thread   *)
(* that takes the completion waits in onIocpAccept until _socket is valid. *)
(* Each of these is a step.  (Neither member is atomic or volatile; the    *)
(* model has the stores and the loads in the order of the code.)           *)
(*                                                                         *)
(* held of an offered socket stands for _sioptr, or for the argument of    *)
(* accept().  The application leaves a socket alone while it is offered,   *)
(* offers one that was never connected, and calls accept() when no offer   *)
(* is out, as in onAccept.                                                 *)
(***************************************************************************)
EXTENDS IocpLoop

VARIABLES
  lsn,        \* open: _listenfd is valid; sioptr: _sioptr; socket: _socket is valid
  lio,        \* the OVERLAPPED of AcceptEx as the system has it
  offering,   \* <<t, s, m>>: t is in accept(s), about to assign member m
  spinning    \* <<t, result>>: t is in onIocpAccept, before the end of the wait

listenVars == <<lsn, lio, offering, spinning>>
serverVars == <<vars, listenVars>>

\* _socket is valid only with a _sioptr to go with it.
Listener == {l \in [open : BOOLEAN, sioptr : Socks \cup {NoSock}, socket : BOOLEAN] :
               l.socket => l.sioptr # NoSock}

Members == {"_sioptr", "_socket"}
Results == {"done", "failed"}

ServerInit ==
  /\ Init
  /\ lsn = [open |-> FALSE, sioptr |-> NoSock, socket |-> FALSE]
  /\ lio = "idle"
  /\ offering = {}
  /\ spinning = {}

\* Thread t is inside a function of the listener.
Occupied(t) ==
  \/ \E s \in Socks, m \in Members : <<t, s, m>> \in offering
  \/ \E result \in Results : <<t, result>> \in spinning

Offered(s) == s = lsn.sioptr \/ \E t \in Threads, m \in Members : <<t, s, m>> \in offering

OfferIsOut == lio # "idle" \/ offering # {} \/ spinning # {}

-----------------------------------------------------------------------------
Listen ==
  /\ ~lsn.open
  /\ lsn' = [lsn EXCEPT !.open = TRUE]
  /\ UNCHANGED <<vars, lio, offering, spinning>>

StartAcceptBorrows(t, s) ==
  /\ lsn.open
  /\ ~OfferIsOut
  /\ Reaches(t, s)
  /\ usr[s].st = "none"
  /\ lio' = "pending"
  /\ offering' = {<<t, s, "_sioptr">>}
  /\ UNCHANGED <<vars, lsn, spinning>>

\* accept() up to AcceptEx, which fails at once if the listener is not open.
StartAccept(t, s) ==
  /\ lsn.open
  /\ ~OfferIsOut
  /\ Reaches(t, s)
  /\ usr[s].st = "none"
  /\ lio' = "pending"
  /\ offering' = {<<t, s, "_sioptr">>}
  /\ usr' = [usr EXCEPT ![s].held = TRUE]
  /\ UNCHANGED <<obj, io, starting, tmpptr, lsn, spinning>>

AssignsSocketFirst(t, s) ==
  \/ /\ <<t, s, "_sioptr">> \in offering
     /\ lsn' = [lsn EXCEPT !.socket = TRUE]
     /\ offering' = {<<t, s, "_socket">>}
  \/ /\ <<t, s, "_socket">> \in offering
     /\ lsn' = [lsn EXCEPT !.sioptr = s]
     /\ offering' = {}

AssignsSioptrOnly(t, s) ==
  /\ <<t, s, "_sioptr">> \in offering
  /\ lsn' = [lsn EXCEPT !.sioptr = s]
  /\ offering' = {}

\* The two assignments that end accept().
Assigns(t, s) ==
  \/ /\ <<t, s, "_sioptr">> \in offering
     /\ lsn' = [lsn EXCEPT !.sioptr = s]
     /\ offering' = {<<t, s, "_socket">>}
  \/ /\ <<t, s, "_socket">> \in offering
     /\ lsn' = [lsn EXCEPT !.socket = TRUE]
     /\ offering' = {}

AcceptReturns(t) ==
  /\ \E s \in Socks : Assigns(t, s)
  /\ UNCHANGED <<vars, lio, spinning>>

\* close(): the system fails the AcceptEx that is pending.
CloseListener ==
  /\ lsn.open
  /\ lsn' = [lsn EXCEPT !.open = FALSE]
  /\ lio' = IF lio = "pending" THEN "failed" ELSE lio
  /\ UNCHANGED <<vars, offering, spinning>>

ServerApplication ==
  \E t \in Threads :
    /\ ~Busy(t)
    /\ ~Occupied(t)
    /\ \/ Listen
       \/ CloseListener
       \/ \E s \in Socks : StartAccept(t, s)
       \/ /\ \E s \in Socks :
               \/ MakeShared(s)
               \/ ~Offered(s) /\ (Call(t, s) \/ KeepHandle(t, s) \/ DropHandle(s))
          /\ UNCHANGED listenVars

-----------------------------------------------------------------------------
\* The completion of AcceptEx is taken from the port.
TakeAccept(t) ==
  /\ tmpptr[t] = NoSock
  /\ ~Busy(t)
  /\ ~Occupied(t)
  /\ lio \in Results
  /\ lio' = "idle"
  /\ spinning' = spinning \cup {<<t, lio>>}
  /\ UNCHANGED <<vars, lsn, offering>>

\* _socket is reset and _sioptr moved out before onAccept is called.
MovedOut == [lsn EXCEPT !.sioptr = NoSock, !.socket = FALSE]

AcceptSucceeds(s) ==
  /\ usr' = [usr EXCEPT ![s].held = FALSE, ![s].st = "open"]
  /\ \/ obj' = [obj EXCEPT ![s].open = TRUE]
     \/ PortFails /\ UNCHANGED obj

AcceptFails(s) ==
  /\ usr' = [usr EXCEPT ![s].held = FALSE]
  /\ UNCHANGED obj

OnIocpAccept(t, result) ==
  /\ <<t, result>> \in spinning
  /\ lsn.socket
  /\ lsn' = MovedOut
  /\ spinning' = spinning \ {<<t, result>>}
  /\ IF result = "done" THEN AcceptSucceeds(lsn.sioptr) ELSE AcceptFails(lsn.sioptr)
  /\ tmpptr' = [tmpptr EXCEPT ![t] = lsn.sioptr]
  /\ UNCHANGED <<io, starting, lio, offering>>

WaitEnds(t) == \E result \in Results : OnIocpAccept(t, result)

\* What IocpLoop has of run(), in a thread that is not in the listener.
Runs(t) ==
  /\ ~Occupied(t)
  /\ \/ \E s \in Socks, k \in Kinds : Take(t, s, k)
     \/ Return(t)
     \/ TimesOut(t) /\ lio \notin Results
  /\ UNCHANGED listenVars

ServerRun ==
  \E t \in Threads : Runs(t) \/ TakeAccept(t) \/ WaitEnds(t)

\* A client connects, or AcceptEx fails for a reason of its own.
CompleteAccept ==
  /\ lio = "pending"
  /\ lio' \in Results
  /\ UNCHANGED <<vars, lsn, offering, spinning>>

ServerSystem == CompleteAccept \/ (System /\ UNCHANGED listenVars)

Finishes(t) == AcceptReturns(t) \/ (CallReturns(t) /\ UNCHANGED listenVars)

ServerNext ==
  \/ ServerRun
  \/ \E t \in Threads : Finishes(t)
  \/ ServerApplication
  \/ ServerSystem

ServerSpec == ServerInit /\ [][ServerNext]_serverVars

(***************************************************************************)
(* Calls return, callbacks return, a wait whose condition holds ends, and  *)
(* threads keep calling run().                                             *)
(***************************************************************************)
FairServer ==
  /\ ServerSpec
  /\ \A t \in Threads :
       /\ WF_serverVars(Finishes(t))
       /\ WF_serverVars(WaitEnds(t))
       /\ WF_serverVars(Runs(t) /\ Return(t))
  /\ SF_serverVars(\E t \in Threads : TakeAccept(t))

-----------------------------------------------------------------------------
ListenTypeOK ==
  /\ lsn \in Listener
  /\ lio \in IoState
  /\ offering \in SUBSET (Threads \X Socks \X Members)
  /\ spinning \in SUBSET (Threads \X Results)

(***************************************************************************)
(* The wait in onIocpAccept does what its comment says: the thread that    *)
(* leaves it finds accept() complete, _sioptr assigned, and to a socket    *)
(* that is alive and in no other use.                                      *)
(***************************************************************************)
WaitsForAccept ==
  spinning # {} /\ lsn.socket =>
    /\ offering = {}
    /\ lsn.sioptr # NoSock
    /\ obj[lsn.sioptr].life = "alive"
    /\ ~obj[lsn.sioptr].open
    /\ usr[lsn.sioptr].held
    /\ usr[lsn.sioptr].st = "none"

\* With the listener in it the loop does what IocpLoop allows, and no more.
RefinesLoop == Spec

(***************************************************************************)
(* An AcceptEx that completed, or failed because the listener was closed,  *)
(* ends in onAccept, whichever threads accept() and run() are in: the wait *)
(* for accept() is no deadlock.                                            *)
(***************************************************************************)
OfferComesBack == (OfferIsOut /\ lio # "pending") ~> ~OfferIsOut
=============================================================================
