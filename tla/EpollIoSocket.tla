--------------------------- MODULE EpollIoSocket ---------------------------
(***************************************************************************)
(* src/src/epoll/IoSocket.cpp: the calls an application makes on an        *)
(* IoSocket and the handler NetLoop::run calls for its events.  Each       *)
(* operator is one whole call, with the epoll_ctl and socket calls it      *)
(* makes; EpollLoop says when each may happen.                             *)
(*                                                                         *)
(* Every user callback of this file is the last thing its function does,   *)
(* so a call made from inside a callback finds the state the calling       *)
(* function leaves behind.  The loops around recv() and around the send()  *)
(* of an event retry EINTR, which is left out.  EPOLL_CTL_MOD is made on a *)
(* descriptor that is registered and so does not fail: the error returns   *)
(* of read() and write() after it are not taken (an accepted socket whose  *)
(* addEpoll() failed has no _loop to register with, and is not used).      *)
(***************************************************************************)
EXTENDS EpollKernel

CONSTANTS
  KeepsHandles,   \* the application keeps shared_ptrs of its own
  ClosesDialing,  \* the application may close() a socket that is connecting
  AcceptAddFails  \* epoll_ctl(ADD) may fail for an accepted descriptor

ASSUME UserAssumption == {KeepsHandles, ClosesDialing, AcceptAddFails} \subseteq BOOLEAN

INVALID == 0      \* INVALID_SOCKET

VARIABLES
  obj,    \* the members of each IoSocket
  usr     \* what the application knows of each IoSocket, and its own reference

socketVars == <<obj, usr>>

(***************************************************************************)
(* events is _event._ev.events without EPOLLET, sockptr says that          *)
(* _event.sockptr holds the object itself, recvBuf is _recv.isValid() and  *)
(* hasData is _recv._hasData.                                              *)
(***************************************************************************)
Object == [life : {"none", "alive", "freed"}, fd : Fds \cup {INVALID},
           events : SUBSET Interest, isconnect : BOOLEAN, close : BOOLEAN,
           sockptr : BOOLEAN, recvBuf : BOOLEAN, hasData : BOOLEAN]

NewObject == [life |-> "none", fd |-> INVALID, events |-> {}, isconnect |-> FALSE,
              close |-> FALSE, sockptr |-> FALSE, recvBuf |-> FALSE, hasData |-> FALSE]

(***************************************************************************)
(* st is the last thing the application was told or asked for: "eof" after *)
(* onRead(<= 0) from a recv, "closed" after its own close(), "hup" after   *)
(* the onRead of an EPOLLHUP or EPOLLERR.  rd and wr: a read() or write()  *)
(* was accepted and its callback has not come.                             *)
(***************************************************************************)
UserState == {"none", "connecting", "failed", "open", "eof", "closed", "hup"}
User == [held : BOOLEAN, st : UserState, rd : BOOLEAN, wr : BOOLEAN]

NewUser == [held |-> FALSE, st |-> "none", rd |-> FALSE, wr |-> FALSE]

SocketInit ==
  /\ obj = [s \in Socks |-> NewObject]
  /\ usr = [s \in Socks |-> NewUser]

D(s) == desc[obj[s].fd]

-----------------------------------------------------------------------------
(***************************************************************************)
(* Object lifetime.  finalClose() is what the destructor does.             *)
(***************************************************************************)
MakeShared(s) ==
  /\ obj[s].life = "none"
  /\ obj' = [obj EXCEPT ![s].life = "alive"]
  /\ usr' = [usr EXCEPT ![s].held = TRUE]
  /\ UNCHANGED kernelVars

\* (The operators named for a mistake are what the code would be with it.)
FinalCloseForgetsFd(s) == UNCHANGED kernelVars

FinalClose(s) ==
  IF obj[s].fd # INVALID THEN CloseFd(obj[s].fd) ELSE UNCHANGED kernelVars

Destroy(s) ==
  /\ FinalClose(s)
  /\ obj' = [obj EXCEPT ![s].life = "freed", ![s].fd = INVALID]

\* A shared_ptr of s goes away while the holders in others remain.
Release(s, others) ==
  IF others THEN UNCHANGED <<desc, ready, obj>> ELSE Destroy(s)

-----------------------------------------------------------------------------
(***************************************************************************)
(* connect() and reconnect().  The two error returns after socket() forget *)
(* the descriptor; with no descriptor left the call changes nothing.       *)
(***************************************************************************)
DialFails(s, d) ==
  /\ desc' = [desc EXCEPT ![d] = Abandoned]
  /\ \E ev \in {obj[s].events, {"OUT"}} : obj' = [obj EXCEPT ![s].events = ev]
  /\ UNCHANGED <<ready, usr>>

DialAsksForInput(s, d) ==
  /\ Arm(d, [Closed EXCEPT !.conn = "syn", !.ptr = s, !.mask = {"IN"}])
  /\ obj' = [obj EXCEPT ![s].events = {"IN"}, ![s].fd = d,
                        ![s].isconnect = TRUE, ![s].sockptr = TRUE]
  /\ usr' = [usr EXCEPT ![s].st = "connecting", ![s].held = @ /\ KeepsHandles]

DialStarts(s, d) ==
  /\ \E c \in {"syn", "est"} :
       Arm(d, [Closed EXCEPT !.conn = c, !.ptr = s, !.mask = {"OUT"}])
  /\ obj' = [obj EXCEPT ![s].events = {"OUT"}, ![s].fd = d,
                        ![s].isconnect = TRUE, ![s].sockptr = TRUE]
  /\ usr' = [usr EXCEPT ![s].st = "connecting", ![s].held = @ /\ KeepsHandles]

DialUnchecked(s) ==
  \/ \E d \in Fds : LowestFree(d) /\ (DialFails(s, d) \/ DialStarts(s, d))
  \/ /\ \A d \in Fds : desc[d].conn # "closed"
     /\ obj' = [obj EXCEPT ![s].fd = -1, ![s].isconnect = TRUE, ![s].sockptr = TRUE]
     /\ usr' = [usr EXCEPT ![s].st = "connecting"]
     /\ UNCHANGED kernelVars

Dial(s) == \E d \in Fds : LowestFree(d) /\ (DialFails(s, d) \/ DialStarts(s, d))

Connect(s) ==
  /\ usr[s].st = "none"
  /\ Dial(s)

Reconnect(s) ==
  /\ usr[s].st = "failed"
  /\ Dial(s)

(***************************************************************************)
(* addEpoll(), called by Accept with the descriptor accept() returned; its *)
(* failure leaves the descriptor open and the object without one, and the  *)
(* application is told of success all the same.                            *)
(***************************************************************************)
AddEpollLeavesOffer(s, d) ==
  /\ Arm(d, [Closed EXCEPT !.conn = "est", !.ptr = s])
  /\ obj' = [obj EXCEPT ![s].events = {}, ![s].fd = d]
  /\ usr' = [usr EXCEPT ![s].st = "open"]

AddEpoll(s, d) ==
  /\ \/ /\ Arm(d, [Closed EXCEPT !.conn = "est", !.ptr = s])
        /\ obj' = [obj EXCEPT ![s].events = {}, ![s].fd = d]
     \/ /\ AcceptAddFails
        /\ desc' = [desc EXCEPT ![d] = Abandoned]
        /\ obj' = [obj EXCEPT ![s].events = {}]
        /\ UNCHANGED ready
  /\ usr' = [usr EXCEPT ![s].st = "open", ![s].held = FALSE]

-----------------------------------------------------------------------------
(***************************************************************************)
(* handleRead(): one recv().  The three outcomes are those of the loop     *)
(* body; the first two end in onRead.                                      *)
(***************************************************************************)
RecvData(s) ==
  /\ D(s).rx > 0
  /\ \E left \in 0 .. D(s).rx - 1 : desc' = [desc EXCEPT ![obj[s].fd].rx = left]
  /\ obj' = [obj EXCEPT ![s].hasData = TRUE, ![s].recvBuf = FALSE]
  /\ usr' = [usr EXCEPT ![s].rd = FALSE]
  /\ UNCHANGED ready

RecvEnd(s) ==
  /\ D(s).rx = 0
  /\ D(s).conn \in {"fin", "down"}
  /\ obj' = [obj EXCEPT ![s].hasData = FALSE, ![s].recvBuf = FALSE]
  /\ usr' = [usr EXCEPT ![s].rd = FALSE,
                        ![s].st = IF @ = "open" THEN "eof" ELSE @]
  /\ UNCHANGED kernelVars

RecvAgain(s) ==
  /\ D(s).rx = 0
  /\ D(s).conn = "est"
  /\ obj' = [obj EXCEPT ![s].hasData = TRUE, ![s].recvBuf = TRUE]
  /\ usr' = [usr EXCEPT ![s].rd = TRUE]
  /\ UNCHANGED kernelVars

(***************************************************************************)
(* read().  hasData implies that IN is already asked for, so the call      *)
(* either registers or tries to receive, never both.                       *)
(***************************************************************************)
ReadForgetsReference(s) ==
  /\ "IN" \notin obj[s].events
  /\ Arm(obj[s].fd, [D(s) EXCEPT !.mask = obj[s].events \cup {"IN"}])
  /\ obj' = [obj EXCEPT ![s].events = @ \cup {"IN"}, ![s].recvBuf = TRUE]
  /\ usr' = [usr EXCEPT ![s].rd = TRUE]

ReadRegisters(s) ==
  /\ "IN" \notin obj[s].events
  /\ Arm(obj[s].fd, [D(s) EXCEPT !.mask = obj[s].events \cup {"IN"}])
  /\ obj' = [obj EXCEPT ![s].events = @ \cup {"IN"}, ![s].sockptr = TRUE,
                        ![s].recvBuf = TRUE]
  /\ usr' = [usr EXCEPT ![s].rd = TRUE]

ReadWaits(s) ==
  /\ "IN" \in obj[s].events
  /\ ~obj[s].hasData
  /\ obj' = [obj EXCEPT ![s].recvBuf = TRUE]
  /\ usr' = [usr EXCEPT ![s].rd = TRUE]
  /\ UNCHANGED kernelVars

ReadTries(s) ==
  /\ "IN" \in obj[s].events
  /\ obj[s].hasData
  /\ RecvData(s) \/ RecvEnd(s) \/ RecvAgain(s)

ReadIgnoresHasData(s) ==
  /\ usr[s].st = "open"
  /\ obj[s].fd # INVALID
  /\ ~usr[s].rd
  /\ \/ ReadRegisters(s)
     \/ /\ "IN" \in obj[s].events
        /\ obj' = [obj EXCEPT ![s].recvBuf = TRUE]
        /\ usr' = [usr EXCEPT ![s].rd = TRUE]
        /\ UNCHANGED kernelVars

Read(s) ==
  /\ usr[s].st = "open"
  /\ obj[s].fd # INVALID
  /\ ~usr[s].rd
  /\ ReadRegisters(s) \/ ReadWaits(s) \/ ReadTries(s)

(***************************************************************************)
(* write().  A send() that takes bytes ends in onWrite inside the call;    *)
(* every other return waits for OUT: a full buffer, a broken connection, a *)
(* send() that a signal interrupted, and one of no bytes.                  *)
(***************************************************************************)
SendTakesBytes(s) == D(s).conn \in {"est", "fin"} /\ ~D(s).full

WriteSends(s) ==
  /\ SendTakesBytes(s)
  /\ \E f \in BOOLEAN : desc' = [desc EXCEPT ![obj[s].fd].full = f]
  /\ UNCHANGED <<ready, obj, usr>>

WriteWaits(s) ==
  /\ Arm(obj[s].fd, [D(s) EXCEPT !.mask = obj[s].events \cup {"OUT"}])
  /\ obj' = [obj EXCEPT ![s].events = @ \cup {"OUT"}, ![s].sockptr = TRUE]
  /\ usr' = [usr EXCEPT ![s].wr = TRUE]

Write(s) ==
  /\ usr[s].st = "open"
  /\ obj[s].fd # INVALID
  /\ ~usr[s].wr
  /\ WriteSends(s) \/ WriteWaits(s)

(***************************************************************************)
(* close().  shutdown() changes the state of the connection and so wakes   *)
(* its registration.  _close is never reset: on an object that was closed  *)
(* while connecting and then reconnected the call does nothing.            *)
(***************************************************************************)
Close(s) ==
  /\ usr[s].st = "connecting" => ClosesDialing /\ ~obj[s].close
  /\ usr[s].st \in {"connecting", "open", "eof"}
       \/ (usr[s].st = "hup" /\ ~obj[s].close)
  /\ IF obj[s].close \/ obj[s].fd = INVALID
     THEN UNCHANGED kernelVars
     ELSE Changes(obj[s].fd, [D(s) EXCEPT !.conn = "down"], TRUE)
  /\ obj' = [obj EXCEPT ![s].close = TRUE]
  /\ usr' = [usr EXCEPT ![s].st = IF @ \in {"open", "eof"} THEN "closed" ELSE @]

-----------------------------------------------------------------------------
(***************************************************************************)
(* onEpollEv(), by the branch it takes; unref says that NetLoop::run moved *)
(* the self reference out of the object before the call.                   *)
(***************************************************************************)
ConnectFailsKeepsReference(s, ev) ==
  /\ obj[s].isconnect
  /\ "HUP" \in ev
  /\ FinalClose(s)
  /\ obj' = [obj EXCEPT ![s].isconnect = FALSE, ![s].fd = INVALID]
  /\ usr' = [usr EXCEPT ![s].st = "failed"]

ConnectFails(s, ev) ==
  /\ obj[s].isconnect
  /\ "HUP" \in ev
  /\ FinalClose(s)
  /\ obj' = [obj EXCEPT ![s].isconnect = FALSE, ![s].fd = INVALID, ![s].sockptr = FALSE]
  /\ usr' = [usr EXCEPT ![s].st = "failed"]

ConnectSucceeds(s, ev) ==
  /\ obj[s].isconnect
  /\ "HUP" \notin ev
  /\ "OUT" \in ev
  /\ Arm(obj[s].fd, [D(s) EXCEPT !.mask = obj[s].events \ {"OUT"}])
  /\ obj' = [obj EXCEPT ![s].isconnect = FALSE, ![s].events = @ \ {"OUT"}]
  /\ usr' = [usr EXCEPT ![s].st = "open"]

HangsUpKeepsReference(s, ev) ==
  /\ ~obj[s].isconnect
  /\ "HUP" \in ev
  /\ usr' = [usr EXCEPT ![s].rd = FALSE, ![s].st = "hup"]
  /\ UNCHANGED <<desc, ready, obj>>

HangsUp(s, ev) ==
  /\ ~obj[s].isconnect
  /\ "HUP" \in ev
  /\ obj' = [obj EXCEPT ![s].sockptr = FALSE]
  /\ usr' = [usr EXCEPT ![s].rd = FALSE, ![s].st = "hup"]
  /\ UNCHANGED kernelVars

Readable(s, ev) == ~obj[s].isconnect /\ "HUP" \notin ev /\ "IN" \in ev

DataNoted(s, ev) ==
  /\ Readable(s, ev)
  /\ ~obj[s].recvBuf
  /\ obj' = [obj EXCEPT ![s].hasData = TRUE]
  /\ UNCHANGED <<desc, ready, usr>>

Writable(s, ev) == ~obj[s].isconnect /\ ev = {"OUT"}

\* send() on a broken connection fails and is reported as onWrite(-1, errno).
SendDone(s, ev) ==
  /\ Writable(s, ev)
  /\ SendTakesBytes(s) \/ D(s).conn = "down"
  /\ \E f \in IF SendTakesBytes(s) THEN BOOLEAN ELSE {D(s).full} :
       Arm(obj[s].fd, [D(s) EXCEPT !.full = f, !.mask = obj[s].events \ {"OUT"}])
  /\ obj' = [obj EXCEPT ![s].events = @ \ {"OUT"}]
  /\ usr' = [usr EXCEPT ![s].wr = FALSE]

SendAgain(s, ev) ==
  /\ Writable(s, ev)
  /\ D(s).conn # "down"
  /\ D(s).full
  /\ UNCHANGED <<desc, ready, obj, usr>>

\* The branches that end in a callback, and those that return without one.
EventCalls(s, ev) ==
  \/ ConnectFails(s, ev)
  \/ ConnectSucceeds(s, ev)
  \/ HangsUp(s, ev)
  \/ Readable(s, ev) /\ obj[s].recvBuf /\ (RecvData(s) \/ RecvEnd(s))
  \/ SendDone(s, ev)

EventSilent(s, ev) ==
  \/ DataNoted(s, ev)
  \/ Readable(s, ev) /\ obj[s].recvBuf /\ RecvAgain(s)
  \/ SendAgain(s, ev)
=============================================================================
