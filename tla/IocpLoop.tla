------------------------------ MODULE IocpLoop ------------------------------
(***************************************************************************)
(* src/src/iocp: NetLoop::run in any number of threads over any number of  *)
(* IoSockets, on a completion port.                                        *)
(*                                                                         *)
(* connect, read and write make an overlapped call and only then assign    *)
(* the sockptr of the operation, which keeps the object for the callback.  *)
(* The two are separate steps: the system may complete the operation, and  *)
(* another thread may take the completion, in between.  (Two threads that  *)
(* meet on a sockptr race; of the outcomes the model has those in which    *)
(* each sees the other's access whole or not at all.)                      *)
(*                                                                         *)
(* A call that fails at once changes nothing and is left out, but for      *)
(* reconnect(), which closes.                                              *)
(***************************************************************************)
CONSTANTS
  Threads,    \* the threads that call run(), and make the other calls
  Socks,      \* IoSocket objects
  NoSock,     \* the null IoSockptr
  Kinds,      \* the operations the application uses
  PortFails   \* CreateIoCompletionPort may fail for an accepted descriptor

ASSUME IocpAssumption ==
  /\ NoSock \notin Socks
  /\ Kinds \subseteq {"CONNECT", "READ", "WRITE"}
  /\ PortFails \in BOOLEAN

VARIABLES
  obj,        \* the members of each IoSocket; open: _fd is valid; sockptr: the handles whose sockptr is set
  usr,        \* what the application knows of it: held, st, and due, the operations to be answered
  io,         \* io[s][k], the OVERLAPPED as the system has it: idle, pending, or on the port as done or failed
  starting,   \* <<t, s, k>>: t has made the overlapped call and not yet assigned sockptr
  tmpptr      \* the IoSockptr that run() holds in thread t during the callback

vars == <<obj, usr, io, starting, tmpptr>>

\* Only a live object has a descriptor or refers to itself.
Object == {o \in [life : {"none", "alive", "freed"}, open : BOOLEAN, sockptr : SUBSET Kinds] :
             o.life = "alive" \/ (~o.open /\ o.sockptr = {})}
User   == [held : BOOLEAN, st : {"none", "dialing", "failed", "open"}, due : SUBSET Kinds]
IoState == {"idle", "pending", "done", "failed"}

Init ==
  /\ obj = [s \in Socks |-> [life |-> "none", open |-> FALSE, sockptr |-> {}]]
  /\ usr = [s \in Socks |-> [held |-> FALSE, st |-> "none", due |-> {}]]
  /\ io = [s \in Socks |-> [k \in Kinds |-> "idle"]]
  /\ starting = {}
  /\ tmpptr = [t \in Threads |-> NoSock]

-----------------------------------------------------------------------------
ReleaseLeaksFd(s, kept) ==
  obj' = IF kept THEN obj
         ELSE [obj EXCEPT ![s].life = "freed"]

\* The destructor runs when the last reference goes; it calls close().
Release(s, kept) ==
  obj' = IF kept THEN obj
         ELSE [obj EXCEPT ![s].life = "freed", ![s].open = FALSE]

\* An overlapped call of thread t that returned success or IO_PENDING.
Overlapped(t, s, k) ==
  /\ io' = [io EXCEPT ![s][k] = "pending"]
  /\ starting' = starting \cup {<<t, s, k>>}
  /\ UNCHANGED tmpptr

InCall(s, k) == \E t \in Threads : <<t, s, k>> \in starting

\* One operation of a kind at a time.
Unstarted(s, k) == k \in Kinds \ usr[s].due /\ ~InCall(s, k)

Dials(t, s) ==
  /\ Unstarted(s, "CONNECT")
  /\ Overlapped(t, s, "CONNECT")
  /\ usr' = [usr EXCEPT ![s].st = "dialing"]

\* On an object without a descriptor and with nothing outstanding.
Connect(t, s) ==
  /\ ~obj[s].open
  /\ \A k \in Kinds : Unstarted(s, k)
  /\ obj' = [obj EXCEPT ![s].open = TRUE]
  /\ Dials(t, s)

ReconnectFailsReferenced(s) ==
  /\ obj' = [obj EXCEPT ![s].open = FALSE, ![s].sockptr = @ \cup {"CONNECT"}]
  /\ UNCHANGED <<usr, io, starting, tmpptr>>

ReconnectFails(s) ==
  /\ obj' = [obj EXCEPT ![s].open = FALSE]
  /\ UNCHANGED <<usr, io, starting, tmpptr>>

\* After a failed connect, as Test.cpp does.
Reconnect(t, s) ==
  /\ obj[s].open
  /\ usr[s].st = "failed"
  /\ \/ Dials(t, s) /\ UNCHANGED obj
     \/ ReconnectFails(s)

\* read() and write(), on a connection, one of a kind at a time.
Transfer(t, s, k) ==
  /\ obj[s].open
  /\ usr[s].st = "open"
  /\ Unstarted(s, k)
  /\ Overlapped(t, s, k)
  /\ UNCHANGED <<obj, usr>>

Read(t, s)  == Transfer(t, s, "READ")
Write(t, s) == Transfer(t, s, "WRITE")

SetSockptrUnlessWriting(t, s, k) ==
  /\ <<t, s, k>> \in starting
  /\ starting' = starting \ {<<t, s, k>>}
  /\ obj' = [obj EXCEPT ![s].sockptr = @ \cup ({k} \ {"WRITE"})]
  /\ usr' = [usr EXCEPT ![s].due = @ \cup {k}]
  /\ UNCHANGED <<io, tmpptr>>

\* The last statement of reconnect(), read() and write(): it returns true.
SetSockptr(t, s, k) ==
  /\ <<t, s, k>> \in starting
  /\ starting' = starting \ {<<t, s, k>>}
  /\ obj' = [obj EXCEPT ![s].sockptr = @ \cup {k}]
  /\ usr' = [usr EXCEPT ![s].due = @ \cup {k}]
  /\ UNCHANGED <<io, tmpptr>>

Close(s) ==
  /\ obj[s].open
  /\ obj' = [obj EXCEPT ![s].open = FALSE]
  /\ UNCHANGED <<usr, io, starting, tmpptr>>

-----------------------------------------------------------------------------
(***************************************************************************)
(* The application: any call, by any thread not inside another, on an      *)
(* object that is held or whose callback the thread is in.                 *)
(***************************************************************************)
Busy(t) == \E s \in Socks, k \in Kinds : <<t, s, k>> \in starting

Reaches(t, s) == obj[s].life = "alive" /\ (usr[s].held \/ tmpptr[t] = s)

Call(t, s) ==
  /\ Reaches(t, s)
  /\ Connect(t, s) \/ Reconnect(t, s) \/ Read(t, s) \/ Write(t, s) \/ Close(s)

MakeShared(s) ==
  /\ obj[s].life = "none"
  /\ obj' = [obj EXCEPT ![s].life = "alive"]
  /\ usr' = [usr EXCEPT ![s].held = TRUE]
  /\ UNCHANGED <<io, starting, tmpptr>>

KeepHandle(t, s) ==
  /\ tmpptr[t] = s
  /\ ~usr[s].held
  /\ usr' = [usr EXCEPT ![s].held = TRUE]
  /\ UNCHANGED <<obj, io, starting, tmpptr>>

InCallback(s) == \E t \in Threads : tmpptr[t] = s

\* Not while another thread is inside a call on the object.
DropHandle(s) ==
  /\ usr[s].held
  /\ \A k \in Kinds : ~InCall(s, k)
  /\ usr' = [usr EXCEPT ![s].held = FALSE]
  /\ Release(s, obj[s].sockptr # {} \/ InCallback(s))
  /\ UNCHANGED <<io, starting, tmpptr>>

Application ==
  \E t \in Threads :
    /\ ~Busy(t)
    /\ \E s \in Socks : Call(t, s) \/ MakeShared(s) \/ KeepHandle(t, s) \/ DropHandle(s)

CallReturns(t) == \E s \in Socks, k \in Kinds : SetSockptr(t, s, k)

-----------------------------------------------------------------------------
(***************************************************************************)
(* NetLoop::run: GetQueuedCompletionStatus, then onIocpMsg.                *)
(***************************************************************************)

MovesReference(s, k) == obj' = [obj EXCEPT ![s].sockptr = @ \ {k}]

\* onConnect, onRead or onWrite of s is called, with what became of it.
OnIocpMsg(t, s, k) ==
  /\ k \in obj[s].sockptr
  /\ MovesReference(s, k)
  /\ tmpptr' = [tmpptr EXCEPT ![t] = s]
  /\ usr' = [usr EXCEPT
       ![s].due = @ \ {k},
       ![s].st = IF k # "CONNECT" THEN @ ELSE IF io[s][k] = "done" THEN "open" ELSE "failed"]

\* The sockptr is empty: the completion is dropped.
Dropped(s, k) ==
  /\ k \notin obj[s].sockptr
  /\ UNCHANGED <<obj, usr, tmpptr>>

Take(t, s, k) ==
  /\ tmpptr[t] = NoSock
  /\ ~Busy(t)
  /\ io[s][k] \in {"done", "failed"}
  /\ io' = [io EXCEPT ![s][k] = "idle"]
  /\ OnIocpMsg(t, s, k) \/ Dropped(s, k)
  /\ UNCHANGED starting

\* The wait ends with nothing on the port.
TimesOut(t) ==
  /\ tmpptr[t] = NoSock
  /\ ~Busy(t)
  /\ \A s \in Socks, k \in Kinds : io[s][k] \notin {"done", "failed"}
  /\ UNCHANGED vars

\* Accept::onIocpAccept for the offered socket s.  An AcceptEx that failed
\* and a createIoPort that fails look the same to the object.
Accepted(t, s) ==
  /\ tmpptr[t] = NoSock
  /\ ~Busy(t)
  /\ obj[s].life = "alive"
  /\ ~obj[s].open
  /\ usr[s].held
  /\ usr[s].st = "none"
  /\ tmpptr' = [tmpptr EXCEPT ![t] = s]
  /\ \/ /\ obj' = [obj EXCEPT ![s].open = TRUE]
        /\ usr' = [usr EXCEPT ![s].held = FALSE, ![s].st = "open"]
     \/ /\ PortFails
        /\ usr' = [usr EXCEPT ![s].held = FALSE, ![s].st = "open"]
        /\ UNCHANGED obj
     \/ /\ usr' = [usr EXCEPT ![s].held = FALSE]
        /\ UNCHANGED obj
  /\ UNCHANGED <<io, starting>>

ReturnResets(t) ==
  /\ tmpptr[t] # NoSock
  /\ ~Busy(t)
  /\ tmpptr' = [tmpptr EXCEPT ![t] = NoSock]
  /\ obj' = [obj EXCEPT ![tmpptr[t]].sockptr = {}]
  /\ UNCHANGED <<usr, io, starting>>

\* The callback returns and tmpptr goes out of scope.
Return(t) ==
  /\ tmpptr[t] # NoSock
  /\ ~Busy(t)
  /\ tmpptr' = [tmpptr EXCEPT ![t] = NoSock]
  /\ LET s == tmpptr[t]
     IN  Release(s, \/ usr[s].held
                    \/ obj[s].sockptr # {}
                    \/ \E u \in Threads \ {t} : tmpptr[u] = s)
  /\ UNCHANGED <<usr, io, starting>>

Run ==
  \E t \in Threads :
    \/ \E s \in Socks, k \in Kinds : Take(t, s, k)
    \/ TimesOut(t)
    \/ \E s \in Socks : Accepted(t, s)
    \/ Return(t)

(***************************************************************************)
(* The system completes an operation and queues it on the port, also one   *)
(* that returned success at once.  Closing the descriptor fails them.      *)
(***************************************************************************)
Complete(s, k) ==
  /\ io[s][k] = "pending"
  /\ \E result \in {"done", "failed"} :
       /\ result = "done" => obj[s].open
       /\ io' = [io EXCEPT ![s][k] = result]
  /\ UNCHANGED <<obj, usr, starting, tmpptr>>

System == \E s \in Socks, k \in Kinds : Complete(s, k)

Next ==
  \/ Run
  \/ \E t \in Threads : CallReturns(t)
  \/ Application
  \/ System

Spec == Init /\ [][Next]_vars

(***************************************************************************)
(* Fairness.  The threads call run() for ever and callbacks return; calls  *)
(* return; the operations of a closed descriptor fail.  The port is first  *)
(* in, first out: a completion on it is taken if threads keep taking,      *)
(* though others may be taken before (strong fairness).                    *)
(***************************************************************************)
FairSpec ==
  /\ Spec
  /\ \A t \in Threads : WF_vars(Return(t)) /\ WF_vars(CallReturns(t))
  /\ \A s \in Socks, k \in Kinds :
       /\ WF_vars(~obj[s].open /\ Complete(s, k))
       /\ SF_vars(\E t \in Threads : Take(t, s, k))

-----------------------------------------------------------------------------
TypeOK ==
  /\ obj \in [Socks -> Object]
  /\ usr \in [Socks -> User]
  /\ io \in [Socks -> [Kinds -> IoState]]
  /\ starting \in SUBSET (Threads \X Socks \X Kinds)
  /\ tmpptr \in [Threads -> Socks \cup {NoSock}]

(***************************************************************************)
(* The OVERLAPPED, the buffer's WSABUF and the sockptr that run() looks at *)
(* are inside the object: while the system has the operation the object is *)
(* alive and its own reference is in place, or the call is being finished. *)
(***************************************************************************)
OutstandingKept ==
  \A s \in Socks, k \in Kinds :
     io[s][k] # "idle" =>
        /\ obj[s].life = "alive"
        /\ k \in obj[s].sockptr \/ InCall(s, k)

(***************************************************************************)
(* An operation the application waits for is still with the system or on   *)
(* the port: its completion was not dropped.                               *)
(***************************************************************************)
DueIsOutstanding ==
  \A s \in Socks, k \in Kinds : k \in usr[s].due => io[s][k] # "idle"

(***************************************************************************)
(* The contract of Proactor, met when one thread runs the loop and makes   *)
(* the calls.                                                              *)
(***************************************************************************)
Contract == INSTANCE Proactor WITH
  living <- {s \in Socks : obj[s].life = "alive"},
  outstanding <- [s \in Socks |-> {k \in Kinds : io[s][k] # "idle"}],
  calling <- tmpptr

ImplementsProactor == Contract!ProactorSpec

\* After close() every operation is answered, with an error.
ClosedIsAnswered ==
  \A s \in Socks, k \in Kinds :
     (~obj[s].open /\ k \in usr[s].due) ~> (k \notin usr[s].due)

\* An object that is closed and that the application gave up is destroyed.
GivenUpIsFreed ==
  \A s \in Socks :
     (obj[s].life = "alive" /\ ~obj[s].open /\ ~usr[s].held)
       ~> (obj[s].life = "freed" \/ obj[s].open \/ usr[s].held)
=============================================================================
