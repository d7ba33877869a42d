----------------------------- MODULE EpollLoop -----------------------------
(***************************************************************************)
(* src/src/epoll/Epoll.cpp: NetLoop::run over any number of IoSockets,     *)
(* with the application and the network as its environment.                *)
(*                                                                         *)
(* One thread runs the loop and makes every call (other threads reach it   *)
(* through post(), whose tasks run at the top of run(), where pc is        *)
(* "main").  The network acts between any two steps.  The order of events  *)
(* within one batch is left open.                                          *)
(***************************************************************************)
EXTENDS EpollIoSocket

CONSTANT EPOLL_WAIT_MAX    \* events one epoll_wait may return

ASSUME LoopAssumption == EPOLL_WAIT_MAX \in Nat \ {0}

VARIABLES
  pc,      \* "main": outside a batch; "dispatch": in the for loop; "user": in a callback of it
  ptr,     \* the IoSockptr run() (or onEpollAccept) holds during the callback
  batch    \* the entries of _events not yet dispatched; fd is the kernel's, ptr and ev the program's

vars == <<desc, ready, obj, usr, pc, ptr, batch>>

Entry == [fd : Fds, ptr : Socks, ev : SUBSET Event]

Init ==
  /\ KernelInit
  /\ SocketInit
  /\ pc = "main"
  /\ ptr = NoSock
  /\ batch = {}

-----------------------------------------------------------------------------
(***************************************************************************)
(* The application: any call on an object it can reach, between two runs   *)
(* or inside a callback.  Nested callbacks belong to the same turn.        *)
(***************************************************************************)
Reaches(s) == obj[s].life = "alive" /\ (usr[s].held \/ ptr = s)

Call(s) ==
  /\ Reaches(s)
  /\ Connect(s) \/ Reconnect(s) \/ Read(s) \/ Write(s) \/ Close(s)

\* An object without a descriptor may always be kept (accept(sptr) does).
KeepHandle(s) ==
  /\ KeepsHandles \/ obj[s].fd = INVALID
  /\ ptr = s
  /\ ~usr[s].held
  /\ usr' = [usr EXCEPT ![s].held = TRUE]
  /\ UNCHANGED <<desc, ready, obj>>

DropHandle(s) ==
  /\ usr[s].held
  /\ usr' = [usr EXCEPT ![s].held = FALSE]
  /\ Release(s, ptr = s \/ obj[s].sockptr)

Application ==
  /\ pc \in {"main", "user"}
  /\ \E s \in Socks : MakeShared(s) \/ Call(s) \/ KeepHandle(s) \/ DropHandle(s)
  /\ UNCHANGED <<pc, ptr, batch>>

-----------------------------------------------------------------------------
(***************************************************************************)
(* NetLoop::run.                                                           *)
(***************************************************************************)
\* One of the EPOLL_WAIT_MAX places may go to the listener's event.
Wait ==
  /\ pc = "main"
  /\ \E W \in SUBSET ready :
       /\ batch' = {[fd |-> d, ptr |-> desc[d].ptr, ev |-> Reported(desc[d])] :
                     d \in {e \in W : Reported(desc[e]) # {}}}
       /\ ready' = ready \ W
  /\ Cardinality(batch') <= EPOLL_WAIT_MAX
  /\ ready' = {} \/ Cardinality(batch') >= EPOLL_WAIT_MAX - 1
  /\ pc' = "dispatch"
  /\ UNCHANGED <<desc, obj, usr, ptr>>

\* The self reference is empty: the event is dropped.
SkipEvent(s) ==
  /\ ~obj[s].sockptr
  /\ UNCHANGED <<desc, ready, obj, usr, pc, ptr>>

RunHandler(s, ev) ==
  /\ obj[s].sockptr
  /\ \/ /\ EventCalls(s, ev)
        /\ pc' = "user"
        /\ ptr' = s
     \/ /\ EventSilent(s, ev)
        /\ UNCHANGED <<pc, ptr>>

Dispatch ==
  /\ pc = "dispatch"
  /\ \E e \in batch :
       /\ batch' = batch \ {e}
       /\ SkipEvent(e.ptr) \/ RunHandler(e.ptr, e.ev)

\* Accept::onEpollAccept, run for the listener's event: s is the socket the
\* application offered.  On failure it is only handed back.
Accepted(s) ==
  /\ pc = "dispatch"
  /\ obj[s].life = "alive"
  /\ usr[s].st = "none"
  /\ usr[s].held
  /\ \/ \E d \in Fds : LowestFree(d) /\ AddEpoll(s, d)
     \/ /\ usr' = [usr EXCEPT ![s].held = FALSE]
        /\ UNCHANGED <<desc, ready, obj>>
  /\ pc' = "user"
  /\ ptr' = s
  /\ UNCHANGED batch

\* The callback returns and ptr goes out of scope.
Return ==
  /\ pc = "user"
  /\ pc' = "dispatch"
  /\ ptr' = NoSock
  /\ Release(ptr, usr[ptr].held \/ obj[ptr].sockptr)
  /\ UNCHANGED <<usr, batch>>

EndRun ==
  /\ pc = "dispatch"
  /\ batch = {}
  /\ pc' = "main"
  /\ UNCHANGED <<desc, ready, obj, usr, ptr, batch>>

Run ==
  \/ Wait
  \/ Dispatch
  \/ \E s \in Socks : Accepted(s)
  \/ Return
  \/ EndRun

Environment ==
  /\ \E d \in Fds : Network(d)
  /\ UNCHANGED <<obj, usr, pc, ptr, batch>>

Next == Run \/ Application \/ Environment

Spec == Init /\ [][Next]_vars

(***************************************************************************)
(* Fairness: the host calls run() for ever (while (1) loop.run(5)), the    *)
(* loop's own steps follow one another, callbacks return, a connection     *)
(* attempt is decided and a peer reads what it is sent.  The application   *)
(* owes nothing, and the peer need never send, close or reset.             *)
(***************************************************************************)
FairSpec ==
  /\ Spec
  /\ WF_vars(Wait)
  /\ WF_vars(Dispatch)
  /\ WF_vars(Return)
  /\ WF_vars(EndRun)
  /\ \A d \in Fds : WF_vars((Establish(d) \/ Refuse(d)) /\ UNCHANGED <<obj, usr, pc, ptr, batch>>)
  /\ \A d \in Fds : WF_vars(PeerDrains(d) /\ UNCHANGED <<obj, usr, pc, ptr, batch>>)

-----------------------------------------------------------------------------
TypeOK ==
  /\ desc \in [Fds -> Descriptor]
  /\ ready \in SUBSET Fds
  /\ obj \in [Socks -> Object]
  /\ usr \in [Socks -> User]
  /\ pc \in {"main", "dispatch", "user"}
  /\ ptr \in Socks \cup {NoSock}
  /\ batch \in SUBSET Entry

(***************************************************************************)
(* data.ptr is dereferenced by run() without any check: whatever the epoll *)
(* instance still watches belongs to a live object, is that object's       *)
(* current descriptor, and is watched for what _event._ev.events says.     *)
(***************************************************************************)
RegistrationOwned ==
  \A d \in Fds : Registered(desc[d]) =>
     /\ desc[d].conn # "closed"
     /\ obj[desc[d].ptr].life = "alive"
     /\ obj[desc[d].ptr].fd = d
     /\ obj[desc[d].ptr].events = desc[d].mask

(***************************************************************************)
(* The self reference of _event.sockptr (a cycle) never outlives the       *)
(* registration whose event can break it, and an object lives exactly as   *)
(* long as one of the three kinds of reference to it does.                 *)
(***************************************************************************)
ReferencesKeepAlive ==
  \A s \in Socks :
     /\ obj[s].sockptr => obj[s].fd \in Fds /\ D(s).ptr = s
     /\ obj[s].life = "alive" <=> (usr[s].held \/ obj[s].sockptr \/ ptr = s)

(***************************************************************************)
(* run() collected _events before the callbacks it makes: no entry still   *)
(* to be dispatched points at an object that an earlier callback of the    *)
(* same batch destroyed or moved to another descriptor.                    *)
(***************************************************************************)
BatchOwned ==
  \A e \in batch : obj[e.ptr].life = "alive" /\ obj[e.ptr].fd = e.fd

\* onEpollEv's assert(0) is not reached: the event of a connecting socket,
\* taken when the batch was, says OUT, HUP or ERR.
ConnectEventDecides ==
  \A e \in batch : obj[e.ptr].isconnect => e.ev \cap {"OUT", "HUP"} # {}

\* An event of s with bit b is still to come: from the ready list or the batch.
Coming(s, b) ==
  \/ obj[s].fd \in ready
  \/ \E e \in batch : e.ptr = s /\ b \in e.ev

(***************************************************************************)
(* No wake-up is lost under EPOLLET: when a read is pending and recv()     *)
(* would have something to say, an event that makes onEpollEv call onRead  *)
(* is still to come (_hasData remembers an edge that came between reads).  *)
(***************************************************************************)
PendingReadWakes ==
  \A s \in Socks :
     usr[s].rd /\ obj[s].fd \in Fds /\ "IN" \in Poll(D(s)) =>
       Coming(s, "IN") \/ Coming(s, "HUP")

(***************************************************************************)
(* The hang-up edge, which comes once and is all that makes run() give up  *)
(* the self reference, is not lost while that reference is in place.       *)
(***************************************************************************)
HangUpReleases ==
  \A s \in Socks :
     obj[s].sockptr /\ obj[s].fd \in Fds /\ D(s).conn = "down" => Coming(s, "HUP")

(***************************************************************************)
(* An application that keeps no handle relies on the library to keep the   *)
(* object: one with a read outstanding or a connect under way holds itself *)
(* and is not destroyed before the callback.                               *)
(***************************************************************************)
PendingKeepsAlive ==
  \A s \in Socks :
     usr[s].rd \/ usr[s].st = "connecting" => obj[s].life = "alive" /\ obj[s].sockptr

-----------------------------------------------------------------------------
\* A pending read is answered once there is input, an end of input or an error.
ReadAnswered ==
  \A s \in Socks :
     (usr[s].rd /\ obj[s].fd \in Fds /\ "IN" \in Poll(D(s))) ~> ~usr[s].rd

\* connect() and reconnect() that returned true are followed by onConnect.
ConnectAnswered ==
  \A s \in Socks : usr[s].st = "connecting" ~> usr[s].st # "connecting"

\* close() on an open connection gives its descriptor back in the end.
CloseReleases ==
  \A s \in Socks : usr[s].st = "closed" ~> obj[s].fd = INVALID

\* A registered descriptor whose connection broke is closed in the end.
BrokenIsClosed ==
  \A d \in Fds :
     (Registered(desc[d]) /\ desc[d].conn = "down") ~> desc[d].conn = "closed"

-----------------------------------------------------------------------------
(***************************************************************************)
(* What the documents say and the code does not do.  The README promises   *)
(* the Proactor style of ASIO: every operation started is completed by one *)
(* callback, and every callback completes an operation.                    *)
(***************************************************************************)

\* A pending write on a connection that stays up is answered once the peer
\* has read enough for the descriptor to take more.
WriteAnswered ==
  \A s \in Socks :
     usr[s].wr ~> (~usr[s].wr \/ obj[s].fd = INVALID \/ D(s).conn = "down")

\* A socket whose onRead reported the end of input is released without
\* further calls of the application.
EndReleases ==
  \A s \in Socks : usr[s].st = "eof" ~> obj[s].fd = INVALID
=============================================================================
