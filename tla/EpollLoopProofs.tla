-------------------------- MODULE EpollLoopProofs --------------------------
(***************************************************************************)
(* Who owns which descriptor and who keeps which object alive, proved of   *)
(* EpollLoop for any number of sockets, descriptors and events.            *)
(*                                                                         *)
(* RegistrationOwned and ReferencesKeepAlive are not inductive: closing a  *)
(* descriptor keeps the registrations of the others in order only because  *)
(* no two objects share a descriptor, and dropping a shared_ptr only       *)
(* because an object without self reference is either held or being called *)
(* back.  IInv adds what is missing: every open object is the one its      *)
(* descriptor is registered for (Linked), an object that is not dialling   *)
(* has no descriptor, and run() holds a reference exactly in a callback.   *)
(***************************************************************************)
EXTENDS EpollLoop, TLAPS

USE KernelAssumption, UserAssumption DEF KernelAssumption, UserAssumption

-----------------------------------------------------------------------------
(***************************************************************************)
(* Type correctness of the operations of EpollKernel and EpollIoSocket,    *)
(* one lemma per operation.  That the descriptor an operation uses is a    *)
(* valid one is a hypothesis here; it follows from the links below.        *)
(***************************************************************************)

\* The two halves of TypeOK that the operations change.
Kernel  == desc \in [Fds -> Descriptor] /\ ready \in SUBSET Fds
Members == obj \in [Socks -> Object] /\ usr \in [Socks -> User]

\* A free descriptor number, and one an error path abandoned, are descriptors.
LEMMA ClosedType == Closed \in Descriptor /\ Abandoned \in Descriptor
<1>1. Closed \in Descriptor
  BY DEF Closed, Descriptor, Conn
<1>2. [Closed EXCEPT !.conn = "down"] \in Descriptor
  BY <1>1 DEF Descriptor, Conn
<1> QED BY <1>1, <1>2 DEF Abandoned

\* EPOLL_CTL_ADD and EPOLL_CTL_MOD keep the kernel state typed.
LEMMA ArmType ==
  ASSUME Kernel, NEW d \in Fds, NEW k \in Descriptor, Arm(d, k)
  PROVE  Kernel'
  BY DEF Arm, Kernel

\* So does ::close.
LEMMA CloseFdType ==
  ASSUME Kernel, NEW d \in Fds, CloseFd(d)
  PROVE  Kernel'
  BY ClosedType DEF CloseFd, Kernel

\* So does everything the network and the peer do.
LEMMA NetworkType ==
  ASSUME Kernel, NEW d \in Fds, Network(d)
  PROVE  Kernel'
<1> DEFINE With(c) == [desc[d] EXCEPT !.conn = c]
<1>1. desc[d] \in Descriptor
  BY DEF Kernel
<1>2. With("est") \in Descriptor /\ With("down") \in Descriptor /\ With("fin") \in Descriptor
  BY <1>1 DEF Descriptor, Conn
<1>3. ASSUME NEW k \in Descriptor, NEW w, Changes(d, k, w)
      PROVE  Kernel'
  BY <1>3 DEF Changes, Kernel
<1>4. CASE Establish(d)
  BY <1>2, <1>3, <1>4 DEF Establish
<1>5. CASE Refuse(d)
  BY <1>2, <1>3, <1>5 DEF Refuse
<1>6. CASE PeerSends(d)
  <2>1. [desc[d] EXCEPT !.rx = @ + 1] \in Descriptor
    BY <1>1, <1>6 DEF PeerSends, Descriptor
  <2> QED BY <2>1, <1>3, <1>6 DEF PeerSends
<1>7. CASE PeerDrains(d)
  <2>1. [desc[d] EXCEPT !.full = FALSE] \in Descriptor
    BY <1>1 DEF Descriptor
  <2> QED BY <2>1, <1>3, <1>7 DEF PeerDrains
<1>8. CASE PeerCloses(d)
  BY <1>2, <1>3, <1>8 DEF PeerCloses
<1>9. CASE PeerResets(d)
  BY <1>2, <1>3, <1>9 DEF PeerResets
<1> QED BY <1>4, <1>5, <1>6, <1>7, <1>8, <1>9 DEF Network

-----------------------------------------------------------------------------
\* Replacing one IoSocket's members by well-typed ones keeps obj typed.
LEMMA ObjectStep ==
  ASSUME Members, NEW s \in Socks, NEW o \in Object, obj' = [obj EXCEPT ![s] = o]
  PROVE  obj' \in [Socks -> Object]
  BY DEF Members

\* The same of the application's side.
LEMMA UserStep ==
  ASSUME Members, NEW s \in Socks, NEW u \in User, usr' = [usr EXCEPT ![s] = u]
  PROVE  usr' \in [Socks -> User]
  BY DEF Members

\* A shared_ptr going away, ~IoSocket included, keeps the state typed.
LEMMA ReleaseType ==
  ASSUME Kernel, Members, NEW s \in Socks, NEW others, Release(s, others)
  PROVE  Kernel' /\ obj' \in [Socks -> Object]
<1>0. obj[s] \in Object
  BY DEF Members
<1>1. CASE others
  BY <1>1 DEF Release, Kernel, Members
<1>2. CASE ~others
  <2> DEFINE o == [obj[s] EXCEPT !.life = "freed", !.fd = INVALID]
  <2>1. Destroy(s)
    BY <1>2 DEF Release
  <2>2. o \in Object
    BY <1>0 DEF Object, INVALID
  <2>3. obj' = [obj EXCEPT ![s] = o]
    BY <2>1 DEF Destroy
  <2>4. obj' \in [Socks -> Object]
    <3> HIDE DEF o
    <3> QED BY <2>2, <2>3, ObjectStep
  <2>5. Kernel'
    <3>1. CASE obj[s].fd # INVALID
      <4>1. obj[s].fd \in Fds
        BY <1>0, <3>1 DEF Object
      <4> QED BY <2>1, <3>1, <4>1, CloseFdType DEF Destroy, FinalClose
    <3>2. CASE obj[s].fd = INVALID
      BY <2>1, <3>2 DEF Destroy, FinalClose, Kernel, kernelVars
    <3> QED BY <3>1, <3>2
  <2> QED BY <2>4, <2>5
<1> QED BY <1>1, <1>2

\* connect() and reconnect(), failing or not.
LEMMA DialType ==
  ASSUME Kernel, Members, NEW s \in Socks, Dial(s)
  PROVE  Kernel' /\ Members'
<1>0. PICK d \in Fds : LowestFree(d) /\ (DialFails(s, d) \/ DialStarts(s, d))
  BY DEF Dial
<1>1. CASE DialFails(s, d)
  <2>1. Kernel'
    BY <1>1, ClosedType DEF DialFails, Kernel
  <2>2. PICK ev \in {obj[s].events, {"OUT"}} : obj' = [obj EXCEPT ![s].events = ev]
    BY <1>1 DEF DialFails
  <2>3. ev \in SUBSET Interest
    BY DEF Members, Object, Interest
  <2> QED BY <1>1, <2>1, <2>2, <2>3 DEF DialFails, Members, Object
<1>2. CASE DialStarts(s, d)
  <2>0. obj[s] \in Object /\ usr[s] \in User
    BY DEF Members
  <2> DEFINE k(c) == [Closed EXCEPT !.conn = c, !.ptr = s, !.mask = {"OUT"}]
             o == [obj[s] EXCEPT !.events = {"OUT"}, !.fd = d,
                                 !.isconnect = TRUE, !.sockptr = TRUE]
             u == [usr[s] EXCEPT !.st = "connecting", !.held = @ /\ KeepsHandles]
  <2>1. PICK c \in {"syn", "est"} : Arm(d, k(c))
    BY <1>2 DEF DialStarts
  <2>2. k(c) \in Descriptor
    BY ClosedType DEF Descriptor, Conn, Interest
  <2>3. o \in Object
    BY <2>0 DEF Object, Interest
  <2>4. u \in User
    BY <2>0 DEF User, UserState
  <2>5. obj' = [obj EXCEPT ![s] = o] /\ usr' = [usr EXCEPT ![s] = u]
    BY <1>2 DEF DialStarts
  <2> HIDE DEF k, o, u
  <2> QED BY <2>1, <2>2, <2>3, <2>4, <2>5, ArmType, ObjectStep, UserStep DEF Members
<1> QED BY <1>0, <1>1, <1>2

\* IoSocket::addEpoll.
LEMMA AddEpollType ==
  ASSUME Kernel, Members, NEW s \in Socks, NEW d \in Fds, AddEpoll(s, d)
  PROVE  Kernel' /\ Members'
<1> DEFINE k == [Closed EXCEPT !.conn = "est", !.ptr = s]
           o == [obj[s] EXCEPT !.events = {}, !.fd = d]
           p == [obj[s] EXCEPT !.events = {}]
           u == [usr[s] EXCEPT !.st = "open", !.held = FALSE]
<1>0. obj[s] \in Object /\ usr[s] \in User
  BY DEF Members
<1>1. k \in Descriptor
  BY ClosedType DEF Descriptor, Conn
<1>2. o \in Object /\ p \in Object
  BY <1>0 DEF Object
<1>3. u \in User
  BY <1>0 DEF User, UserState
<1>4. \/ Arm(d, k) /\ obj' = [obj EXCEPT ![s] = o]
      \/ /\ desc' = [desc EXCEPT ![d] = Abandoned] /\ ready' = ready
         /\ obj' = [obj EXCEPT ![s] = p]
  BY DEF AddEpoll
<1>5. usr' = [usr EXCEPT ![s] = u]
  BY DEF AddEpoll
<1> HIDE DEF k, o, p, u
<1>6. Kernel'
  <2>1. CASE Arm(d, k)
    BY <1>1, <2>1, ArmType
  <2>2. CASE desc' = [desc EXCEPT ![d] = Abandoned] /\ ready' = ready
    BY <2>2, ClosedType DEF Kernel
  <2> QED BY <1>4, <2>1, <2>2
<1>7. obj' \in [Socks -> Object]
  BY <1>2, <1>4, ObjectStep
<1> QED BY <1>3, <1>5, <1>6, <1>7, UserStep DEF Members

\* IoSocket::handleRead on an open descriptor, by the outcome of recv().
LEMMA RecvType ==
  ASSUME Kernel, Members, NEW s \in Socks, obj[s].fd \in Fds,
         RecvData(s) \/ RecvEnd(s) \/ RecvAgain(s)
  PROVE  Kernel' /\ Members'
<1> DEFINE o(h, r) == [obj[s] EXCEPT !.hasData = h, !.recvBuf = r]
           u(r) == [usr[s] EXCEPT !.rd = r]
           end == [usr[s] EXCEPT !.rd = FALSE, !.st = IF @ = "open" THEN "eof" ELSE @]
<1>0. obj[s] \in Object /\ usr[s] \in User /\ D(s) \in Descriptor
  BY DEF Members, Kernel, D
<1>1. \A h, r \in BOOLEAN : o(h, r) \in Object /\ u(r) \in User
  BY <1>0 DEF Object, User
<1>2. end \in User
  BY <1>0 DEF User, UserState
<1>3. CASE RecvData(s)
  <2>1. PICK left \in 0 .. D(s).rx - 1 : desc' = [desc EXCEPT ![obj[s].fd].rx = left]
    BY <1>3 DEF RecvData
  <2>2. [D(s) EXCEPT !.rx = left] \in Descriptor
    BY <1>0, <2>1 DEF Descriptor
  <2>3. desc' = [desc EXCEPT ![obj[s].fd] = [D(s) EXCEPT !.rx = left]]
    BY <2>1 DEF D
  <2>4. Kernel'
    BY <1>3, <2>2, <2>3 DEF RecvData, Kernel
  <2>5. obj' = [obj EXCEPT ![s] = o(TRUE, FALSE)] /\ usr' = [usr EXCEPT ![s] = u(FALSE)]
    BY <1>3 DEF RecvData
  <2> HIDE DEF o, u
  <2> QED BY <1>1, <2>4, <2>5, ObjectStep, UserStep DEF Members
<1>4. CASE RecvEnd(s)
  <2>1. obj' = [obj EXCEPT ![s] = o(FALSE, FALSE)] /\ usr' = [usr EXCEPT ![s] = end]
    BY <1>4 DEF RecvEnd
  <2> HIDE DEF o, end
  <2> QED BY <1>1, <1>2, <1>4, <2>1, ObjectStep, UserStep DEF RecvEnd, Kernel, kernelVars, Members
<1>5. CASE RecvAgain(s)
  <2>1. obj' = [obj EXCEPT ![s] = o(TRUE, TRUE)] /\ usr' = [usr EXCEPT ![s] = u(TRUE)]
    BY <1>5 DEF RecvAgain
  <2> HIDE DEF o, u
  <2> QED BY <1>1, <1>5, <2>1, ObjectStep, UserStep DEF RecvAgain, Kernel, kernelVars, Members
<1> QED BY <1>3, <1>4, <1>5

\* IoSocket::read.
LEMMA ReadType ==
  ASSUME Kernel, Members, NEW s \in Socks, Read(s)
  PROVE  Kernel' /\ Members'
<1> DEFINE k == [D(s) EXCEPT !.mask = obj[s].events \cup {"IN"}]
           o == [obj[s] EXCEPT !.events = @ \cup {"IN"}, !.sockptr = TRUE, !.recvBuf = TRUE]
           w == [obj[s] EXCEPT !.recvBuf = TRUE]
           u == [usr[s] EXCEPT !.rd = TRUE]
<1>0. obj[s] \in Object /\ usr[s] \in User /\ obj[s].fd \in Fds
  BY DEF Members, Read, Object
<1>1. D(s) \in Descriptor
  BY <1>0 DEF Kernel, D
<1>2. k \in Descriptor
  BY <1>0, <1>1 DEF Descriptor, Object, Interest
<1>3. o \in Object /\ w \in Object
  BY <1>0 DEF Object, Interest
<1>4. u \in User
  BY <1>0 DEF User
<1>5. CASE ReadRegisters(s)
  <2>1. Arm(obj[s].fd, k) /\ obj' = [obj EXCEPT ![s] = o] /\ usr' = [usr EXCEPT ![s] = u]
    BY <1>5 DEF ReadRegisters
  <2> HIDE DEF k, o, u
  <2> QED BY <1>0, <1>2, <1>3, <1>4, <2>1, ArmType, ObjectStep, UserStep DEF Members
<1>6. CASE ReadWaits(s)
  <2>1. obj' = [obj EXCEPT ![s] = w] /\ usr' = [usr EXCEPT ![s] = u]
    BY <1>6 DEF ReadWaits
  <2> HIDE DEF w, u
  <2> QED BY <1>3, <1>4, <1>6, <2>1, ObjectStep, UserStep DEF ReadWaits, Kernel, kernelVars, Members
<1>7. CASE ReadTries(s)
  BY <1>0, <1>7, RecvType DEF ReadTries
<1> QED BY <1>5, <1>6, <1>7 DEF Read

\* IoSocket::write.
LEMMA WriteType ==
  ASSUME Kernel, Members, NEW s \in Socks, Write(s)
  PROVE  Kernel' /\ Members'
<1> DEFINE k == [D(s) EXCEPT !.mask = obj[s].events \cup {"OUT"}]
           o == [obj[s] EXCEPT !.events = @ \cup {"OUT"}, !.sockptr = TRUE]
           u == [usr[s] EXCEPT !.wr = TRUE]
<1>0. obj[s] \in Object /\ usr[s] \in User /\ obj[s].fd \in Fds
  BY DEF Members, Write, Object
<1>1. D(s) \in Descriptor
  BY <1>0 DEF Kernel, D
<1>2. k \in Descriptor
  BY <1>0, <1>1 DEF Descriptor, Object, Interest
<1>3. o \in Object
  BY <1>0 DEF Object, Interest
<1>4. u \in User
  BY <1>0 DEF User
<1>5. CASE WriteSends(s)
  <2>1. PICK f \in BOOLEAN : desc' = [desc EXCEPT ![obj[s].fd].full = f]
    BY <1>5 DEF WriteSends
  <2>2. [D(s) EXCEPT !.full = f] \in Descriptor
    BY <1>1 DEF Descriptor
  <2>3. desc' = [desc EXCEPT ![obj[s].fd] = [D(s) EXCEPT !.full = f]]
    BY <2>1 DEF D
  <2> QED BY <1>5, <2>2, <2>3 DEF WriteSends, Kernel, Members
<1>6. CASE WriteWaits(s)
  <2>1. Arm(obj[s].fd, k) /\ obj' = [obj EXCEPT ![s] = o] /\ usr' = [usr EXCEPT ![s] = u]
    BY <1>6 DEF WriteWaits
  <2> HIDE DEF k, o, u
  <2> QED BY <1>0, <1>2, <1>3, <1>4, <2>1, ArmType, ObjectStep, UserStep DEF Members
<1> QED BY <1>5, <1>6 DEF Write

\* IoSocket::close.
LEMMA CloseType ==
  ASSUME Kernel, Members, NEW s \in Socks, Close(s)
  PROVE  Kernel' /\ Members'
<1> DEFINE k == [D(s) EXCEPT !.conn = "down"]
           o == [obj[s] EXCEPT !.close = TRUE]
           u == [usr[s] EXCEPT !.st = IF @ \in {"open", "eof"} THEN "closed" ELSE @]
<1>0. obj[s] \in Object /\ usr[s] \in User
  BY DEF Members
<1>1. o \in Object /\ u \in User
  BY <1>0 DEF Object, User, UserState
<1>2. obj' = [obj EXCEPT ![s] = o] /\ usr' = [usr EXCEPT ![s] = u]
  BY DEF Close
<1>3. Kernel'
  <2>1. CASE obj[s].close \/ obj[s].fd = INVALID
    BY <2>1 DEF Close, Kernel, kernelVars
  <2>2. CASE ~(obj[s].close \/ obj[s].fd = INVALID)
    <3>1. obj[s].fd \in Fds
      BY <1>0, <2>2 DEF Object
    <3>2. k \in Descriptor
      BY <3>1 DEF Kernel, D, Descriptor, Conn
    <3>3. Changes(obj[s].fd, k, TRUE)
      BY <2>2 DEF Close
    <3> HIDE DEF k
    <3> QED BY <3>1, <3>2, <3>3 DEF Changes, Kernel
  <2> QED BY <2>1, <2>2
<1> HIDE DEF o, u
<1> QED BY <1>1, <1>2, <1>3, ObjectStep, UserStep DEF Members

\* onEpollEv, the send() that ends in onWrite.
LEMMA SendDoneType ==
  ASSUME Kernel, Members, NEW s \in Socks, NEW ev, obj[s].fd \in Fds, SendDone(s, ev)
  PROVE  Kernel' /\ Members'
<1> DEFINE k(f) == [D(s) EXCEPT !.full = f, !.mask = obj[s].events \ {"OUT"}]
           o == [obj[s] EXCEPT !.events = @ \ {"OUT"}]
           u == [usr[s] EXCEPT !.wr = FALSE]
<1>0. obj[s] \in Object /\ usr[s] \in User /\ D(s) \in Descriptor
  BY DEF Members, Kernel, D
<1>1. PICK f \in IF SendTakesBytes(s) THEN BOOLEAN ELSE {D(s).full} : Arm(obj[s].fd, k(f))
  BY DEF SendDone
<1>2. f \in BOOLEAN
  BY <1>0 DEF Descriptor
<1>3. k(f) \in Descriptor
  BY <1>0, <1>2 DEF Descriptor, Object, Interest
<1>4. o \in Object /\ u \in User
  BY <1>0 DEF Object, Interest, User
<1>5. obj' = [obj EXCEPT ![s] = o] /\ usr' = [usr EXCEPT ![s] = u]
  BY DEF SendDone
<1> HIDE DEF k, o, u
<1> QED BY <1>1, <1>3, <1>4, <1>5, ArmType, ObjectStep, UserStep DEF Members

\* onEpollEv on a connecting socket.
LEMMA ConnectEventType ==
  ASSUME Kernel, Members, NEW s \in Socks, NEW ev, obj[s].fd \in Fds,
         ConnectFails(s, ev) \/ ConnectSucceeds(s, ev)
  PROVE  Kernel' /\ Members'
<1>0. obj[s] \in Object /\ usr[s] \in User /\ D(s) \in Descriptor
  BY DEF Members, Kernel, D
<1>1. CASE ConnectFails(s, ev)
  <2> DEFINE o == [obj[s] EXCEPT !.isconnect = FALSE, !.fd = INVALID, !.sockptr = FALSE]
             u == [usr[s] EXCEPT !.st = "failed"]
  <2>1. o \in Object /\ u \in User
    BY <1>0 DEF Object, INVALID, User, UserState
  <2>2. obj' = [obj EXCEPT ![s] = o] /\ usr' = [usr EXCEPT ![s] = u]
    BY <1>1 DEF ConnectFails
  <2>3. CloseFd(obj[s].fd)
    BY <1>1 DEF ConnectFails, FinalClose, INVALID
  <2> HIDE DEF o, u
  <2> QED BY <2>1, <2>2, <2>3, CloseFdType, ObjectStep, UserStep DEF Members
<1>2. CASE ConnectSucceeds(s, ev)
  <2> DEFINE k == [D(s) EXCEPT !.mask = obj[s].events \ {"OUT"}]
             o == [obj[s] EXCEPT !.isconnect = FALSE, !.events = @ \ {"OUT"}]
             u == [usr[s] EXCEPT !.st = "open"]
  <2>1. k \in Descriptor
    BY <1>0 DEF Descriptor, Object, Interest
  <2>2. o \in Object /\ u \in User
    BY <1>0 DEF Object, Interest, User, UserState
  <2>3. /\ Arm(obj[s].fd, k)
        /\ obj' = [obj EXCEPT ![s] = o] /\ usr' = [usr EXCEPT ![s] = u]
    BY <1>2 DEF ConnectSucceeds
  <2> HIDE DEF k, o, u
  <2> QED BY <2>1, <2>2, <2>3, ArmType, ObjectStep, UserStep DEF Members
<1> QED BY <1>1, <1>2

\* onEpollEv, EPOLLHUP or EPOLLERR.
LEMMA HangsUpType ==
  ASSUME Kernel, Members, NEW s \in Socks, NEW ev, HangsUp(s, ev)
  PROVE  Kernel' /\ Members'
<1> DEFINE o == [obj[s] EXCEPT !.sockptr = FALSE]
           u == [usr[s] EXCEPT !.rd = FALSE, !.st = "hup"]
<1>0. obj[s] \in Object /\ usr[s] \in User
  BY DEF Members
<1>1. o \in Object /\ u \in User
  BY <1>0 DEF Object, User, UserState
<1>2. obj' = [obj EXCEPT ![s] = o] /\ usr' = [usr EXCEPT ![s] = u]
  BY DEF HangsUp
<1> HIDE DEF o, u
<1> QED BY <1>1, <1>2, ObjectStep, UserStep DEF HangsUp, Kernel, kernelVars, Members

\* onEpollEv as a whole, on an open descriptor.
LEMMA HandlerType ==
  ASSUME Kernel, Members, NEW s \in Socks, NEW ev, obj[s].fd \in Fds,
         EventCalls(s, ev) \/ EventSilent(s, ev)
  PROVE  Kernel' /\ Members'
<1>1. CASE ConnectFails(s, ev) \/ ConnectSucceeds(s, ev)
  BY <1>1, ConnectEventType
<1>2. CASE HangsUp(s, ev)
  BY <1>2, HangsUpType
<1>3. CASE RecvData(s) \/ RecvEnd(s) \/ RecvAgain(s)
  BY <1>3, RecvType
<1>4. CASE SendDone(s, ev)
  BY <1>4, SendDoneType
<1>5. CASE DataNoted(s, ev)
  <2> DEFINE o == [obj[s] EXCEPT !.hasData = TRUE]
  <2>1. o \in Object
    BY DEF Members, Object
  <2>2. obj' = [obj EXCEPT ![s] = o]
    BY <1>5 DEF DataNoted
  <2> HIDE DEF o
  <2> QED BY <1>5, <2>1, <2>2, ObjectStep DEF DataNoted, Kernel, Members
<1>6. CASE SendAgain(s, ev)
  BY <1>6 DEF SendAgain, Kernel, Members
<1> QED BY <1>1, <1>2, <1>3, <1>4, <1>5, <1>6 DEF EventCalls, EventSilent

-----------------------------------------------------------------------------
(***************************************************************************)
(* The inductive invariant.                                                *)
(***************************************************************************)

\* An object, its descriptor, the registration of it and the references.
Linked(s) ==
  /\ obj[s].fd # INVALID => /\ obj[s].life = "alive"
                            /\ D(s).conn # "closed"
                            /\ D(s).ptr = s
                            /\ D(s).mask = obj[s].events
  /\ obj[s].sockptr => obj[s].fd # INVALID
  /\ obj[s].life = "alive" <=> (usr[s].held \/ obj[s].sockptr \/ ptr = s)
  /\ usr[s].st \in {"none", "failed"} => obj[s].fd = INVALID

\* A registration belongs to the object whose descriptor it watches.
Registry == \A d \in Fds : Registered(desc[d]) => obj[desc[d].ptr].fd = d

\* run() holds an IoSockptr exactly while it makes a callback.
CallbackPtr == pc = "user" <=> ptr \in Socks

\* The inductive invariant.
IInv == TypeOK /\ (\A s \in Socks : Linked(s)) /\ Registry /\ CallbackPtr

\* What a step that concerns s alone leaves as it was.
OnlyOf(s) ==
  /\ \A t \in Socks \ {s} : /\ obj'[t] = obj[t]
                            /\ usr'[t] = usr[t]
                            /\ ptr' = t <=> ptr = t
  /\ \A d \in Fds \ {obj[s].fd, obj'[s].fd} :
       desc'[d] = desc[d] \/ (desc[d].conn = "closed" /\ ~Registered(desc'[d]))

\* A descriptor s gives up is no longer watched, one it takes was free.
Moves(s) ==
  obj'[s].fd # obj[s].fd =>
    /\ obj[s].fd # INVALID => ~Registered(desc'[obj[s].fd])
    /\ obj'[s].fd # INVALID => desc[obj'[s].fd].conn = "closed"

\* The part of TypeOK that belongs to the loop.
Shape ==
  /\ pc \in {"main", "dispatch", "user"}
  /\ ptr \in Socks \cup {NoSock}
  /\ batch \in SUBSET Entry

\* The initial states satisfy the invariant.
LEMMA InitInv == Init => IInv
<1> SUFFICES ASSUME Init PROVE IInv
  OBVIOUS
<1>1. TypeOK
  <2>1. desc \in [Fds -> Descriptor] /\ ready \in SUBSET Fds
    BY ClosedType DEF Init, KernelInit
  <2>2. NewObject \in Object /\ NewUser \in User
    BY DEF NewObject, Object, NewUser, User, UserState
  <2> QED BY <2>1, <2>2 DEF Init, SocketInit, TypeOK
<1>2. \A s \in Socks : Linked(s)
  BY DEF Init, SocketInit, NewObject, NewUser, Linked
<1>3. Registry /\ CallbackPtr
  BY DEF Init, KernelInit, Closed, Registered, Registry, CallbackPtr
<1> QED BY <1>1, <1>2, <1>3 DEF IInv

\* A step that concerns s alone, moves it between descriptors only as Moves
\* says and leaves s linked leaves every object linked and every
\* registration owned: no two objects ever share a descriptor.
LEMMA LocalStep ==
  ASSUME IInv, Kernel', Members', NEW s \in Socks, OnlyOf(s), Moves(s), Linked(s)'
  PROVE  (\A t \in Socks : Linked(t)') /\ Registry'
<1> USE DEF INVALID
<1>0. Kernel /\ Members
  BY DEF IInv, TypeOK, Kernel, Members
<1>1. \A t \in Socks : /\ obj[t].fd \in Fds \cup {INVALID}
                       /\ obj'[t].fd \in Fds \cup {INVALID}
  BY <1>0 DEF Members, Object
<1>2. \A d \in Fds : desc[d].ptr \in Socks \cup {NoSock} /\ desc'[d].ptr \in Socks \cup {NoSock}
  BY <1>0 DEF Kernel, Descriptor
<1>3. ASSUME NEW t \in Socks \ {s}
      PROVE  Linked(t)'
  <2>1. obj'[t] = obj[t] /\ usr'[t] = usr[t] /\ (ptr' = t <=> ptr = t) /\ Linked(t)
    BY DEF OnlyOf, IInv
  <2>2. CASE obj[t].fd = INVALID
    BY <2>1, <2>2 DEF Linked
  <2>3. CASE obj[t].fd # INVALID
    <3>1. obj[t].fd # obj[s].fd
      BY <2>1, <2>3 DEF Linked, IInv, D
    <3>2. obj[t].fd # obj'[s].fd
      BY <2>1, <2>3, <3>1 DEF Linked, Moves, D
    <3>3. desc'[obj[t].fd] = desc[obj[t].fd]
      BY <1>1, <2>1, <2>3, <3>1, <3>2 DEF OnlyOf, Linked, D
    <3> QED BY <2>1, <2>3, <3>3 DEF Linked, D
  <2> QED BY <2>2, <2>3
<1>4. ASSUME NEW d \in Fds, Registered(desc'[d])
      PROVE  obj'[desc'[d].ptr].fd = d
  <2>1. CASE d = obj'[s].fd
    BY <2>1, <1>1 DEF Linked, D
  <2>2. CASE d # obj'[s].fd /\ d = obj[s].fd
    BY <2>2, <1>4 DEF Moves
  <2>3. CASE d # obj'[s].fd /\ d # obj[s].fd
    <3>1. desc'[d] = desc[d]
      BY <1>4, <2>3 DEF OnlyOf
    <3>2. obj[desc[d].ptr].fd = d /\ desc[d].ptr \in Socks \ {s}
      BY <1>2, <1>4, <2>3, <3>1 DEF Registered, IInv, Registry
    <3> QED BY <3>1, <3>2 DEF OnlyOf
  <2> QED BY <2>1, <2>2, <2>3
<1> QED BY <1>3, <1>4 DEF Registry

\* The network changes no link.
LEMMA NetworkLinks ==
  ASSUME IInv, NEW d \in Fds, Network(d), UNCHANGED <<obj, usr, pc, ptr, batch>>
  PROVE  (\A t \in Socks : Linked(t)') /\ Registry'
<1>0. Kernel /\ Members
  BY DEF IInv, TypeOK, Kernel, Members
<1> DEFINE Keeps(e) == /\ desc'[e].ptr = desc[e].ptr
                       /\ desc'[e].mask = desc[e].mask
                       /\ desc[e].conn # "closed" => desc'[e].conn # "closed"
<1>1. \A e \in Fds : Keeps(e)
  <2>1. ASSUME NEW c \in {"est", "fin", "down"}, NEW w,
               Changes(d, [desc[d] EXCEPT !.conn = c], w)
        PROVE  \A e \in Fds : Keeps(e)
    BY <1>0, <2>1 DEF Changes, Kernel, Descriptor
  <2>2. CASE PeerSends(d)
    BY <1>0, <2>2 DEF PeerSends, Changes, Kernel, Descriptor
  <2>3. CASE PeerDrains(d)
    BY <1>0, <2>3 DEF PeerDrains, Changes, Kernel, Descriptor
  <2>4. CASE Establish(d)
    BY <2>1, <2>4 DEF Establish
  <2>5. CASE Refuse(d)
    BY <2>1, <2>5 DEF Refuse
  <2>6. CASE PeerCloses(d)
    BY <2>1, <2>6 DEF PeerCloses
  <2>7. CASE PeerResets(d)
    BY <2>1, <2>7 DEF PeerResets
  <2> QED BY <2>2, <2>3, <2>4, <2>5, <2>6, <2>7 DEF Network
<1>2. ASSUME NEW t \in Socks
      PROVE  Linked(t)'
  <2>1. obj[t].fd \in Fds \cup {INVALID}
    BY <1>0 DEF Members, Object
  <2> QED BY <1>1, <2>1 DEF IInv, Linked, D
<1> QED BY <1>1, <1>2 DEF Registry, Registered, IInv

\* Nor does handleRead().
LEMMA RecvLinks ==
  ASSUME IInv, Kernel', Members', NEW s \in Socks, obj[s].fd \in Fds,
         \/ ptr' = ptr
         \/ obj[s].sockptr /\ \A t \in Socks \ {s} : ptr' = t <=> ptr = t,
         RecvData(s) \/ RecvEnd(s) \/ RecvAgain(s)
  PROVE  OnlyOf(s) /\ Moves(s) /\ Linked(s)'
<1>0. Kernel /\ Members /\ Linked(s) /\ D(s) \in Descriptor
  BY DEF IInv, TypeOK, Kernel, Members, D
<1>1. /\ \A d \in Fds \ {obj[s].fd} : desc'[d] = desc[d]
      /\ desc'[obj[s].fd].conn = D(s).conn
      /\ desc'[obj[s].fd].ptr = D(s).ptr
      /\ desc'[obj[s].fd].mask = D(s).mask
  <2>1. CASE RecvData(s)
    <3>1. PICK left \in 0 .. D(s).rx - 1 : desc' = [desc EXCEPT ![obj[s].fd].rx = left]
      BY <2>1 DEF RecvData
    <3> QED BY <1>0, <3>1 DEF Kernel, Descriptor, D
  <2>2. CASE RecvEnd(s) \/ RecvAgain(s)
    BY <2>2 DEF RecvEnd, RecvAgain, kernelVars, D
  <2> QED BY <2>1, <2>2
<1>2. /\ \A t \in Socks \ {s} : obj'[t] = obj[t] /\ usr'[t] = usr[t]
      /\ obj'[s].fd = obj[s].fd /\ obj'[s].life = obj[s].life
      /\ obj'[s].sockptr = obj[s].sockptr /\ obj'[s].events = obj[s].events
      /\ usr'[s].held = usr[s].held
      /\ usr'[s].st \in {usr[s].st, "eof"}
  BY <1>0 DEF RecvData, RecvEnd, RecvAgain, Members, Object, User
<1>3. OnlyOf(s) /\ Moves(s)
  BY <1>1, <1>2 DEF OnlyOf, Moves
<1>4. Linked(s)'
  BY <1>0, <1>1, <1>2 DEF Linked, D
<1> QED BY <1>3, <1>4

\* read() sets mask and self reference together with the registration.
LEMMA ReadLinks ==
  ASSUME IInv, Kernel', Members', ptr' = ptr, NEW s \in Socks, Read(s)
  PROVE  OnlyOf(s) /\ Moves(s) /\ Linked(s)'
<1>0. Kernel /\ Members /\ Linked(s)
  BY DEF IInv, TypeOK, Kernel, Members
<1>1. obj[s].fd \in Fds
  BY <1>0 DEF Read, Members, Object
<1>2. CASE ReadRegisters(s)
  <2>1. /\ \A d \in Fds \ {obj[s].fd} : desc'[d] = desc[d]
        /\ desc'[obj[s].fd].conn = D(s).conn
        /\ desc'[obj[s].fd].ptr = D(s).ptr
        /\ desc'[obj[s].fd].mask = obj[s].events \cup {"IN"}
    BY <1>0, <1>1, <1>2 DEF ReadRegisters, Arm, Kernel, Descriptor, D
  <2>2. /\ \A t \in Socks \ {s} : obj'[t] = obj[t] /\ usr'[t] = usr[t]
        /\ obj'[s].fd = obj[s].fd /\ obj'[s].life = obj[s].life
        /\ obj'[s].sockptr = TRUE /\ obj'[s].events = obj[s].events \cup {"IN"}
        /\ usr'[s].st = usr[s].st
    BY <1>0, <1>2 DEF ReadRegisters, Members, Object, User
  <2>3. OnlyOf(s) /\ Moves(s)
    BY <2>1, <2>2 DEF OnlyOf, Moves
  <2> QED BY <1>0, <1>1, <2>1, <2>2, <2>3 DEF Linked, D, INVALID, Read
<1>3. CASE ReadWaits(s)
  <2>1. /\ \A t \in Socks \ {s} : obj'[t] = obj[t] /\ usr'[t] = usr[t]
        /\ obj'[s].fd = obj[s].fd /\ obj'[s].life = obj[s].life
        /\ obj'[s].sockptr = obj[s].sockptr /\ obj'[s].events = obj[s].events
        /\ usr'[s].held = usr[s].held /\ usr'[s].st = usr[s].st
        /\ desc' = desc
    BY <1>0, <1>3 DEF ReadWaits, kernelVars, Members, Object, User
  <2> QED BY <1>0, <2>1 DEF OnlyOf, Moves, Linked, D
<1>4. CASE ReadTries(s)
  BY <1>1, <1>4, RecvLinks DEF ReadTries
<1> QED BY <1>2, <1>3, <1>4 DEF Read

\* write() does the same for OUT.
LEMMA WriteLinks ==
  ASSUME IInv, Kernel', Members', ptr' = ptr, NEW s \in Socks, Write(s)
  PROVE  OnlyOf(s) /\ Moves(s) /\ Linked(s)'
<1>0. Kernel /\ Members /\ Linked(s)
  BY DEF IInv, TypeOK, Kernel, Members
<1>1. obj[s].fd \in Fds /\ usr[s].st = "open"
  BY <1>0 DEF Write, Members, Object
<1>2. CASE WriteSends(s)
  <2>1. PICK f \in BOOLEAN : desc' = [desc EXCEPT ![obj[s].fd].full = f]
    BY <1>2 DEF WriteSends
  <2>2. /\ \A d \in Fds \ {obj[s].fd} : desc'[d] = desc[d]
        /\ desc'[obj[s].fd].conn = D(s).conn
        /\ desc'[obj[s].fd].ptr = D(s).ptr
        /\ desc'[obj[s].fd].mask = D(s).mask
    BY <1>0, <1>1, <2>1 DEF Kernel, Descriptor, D
  <2>3. obj' = obj /\ usr' = usr
    BY <1>2 DEF WriteSends
  <2> QED BY <1>0, <2>2, <2>3 DEF OnlyOf, Moves, Linked, D
<1>3. CASE WriteWaits(s)
  <2>1. /\ \A d \in Fds \ {obj[s].fd} : desc'[d] = desc[d]
        /\ desc'[obj[s].fd].conn = D(s).conn
        /\ desc'[obj[s].fd].ptr = D(s).ptr
        /\ desc'[obj[s].fd].mask = obj[s].events \cup {"OUT"}
    BY <1>0, <1>1, <1>3 DEF WriteWaits, Arm, Kernel, Descriptor, D
  <2>2. /\ \A t \in Socks \ {s} : obj'[t] = obj[t] /\ usr'[t] = usr[t]
        /\ obj'[s].fd = obj[s].fd /\ obj'[s].life = obj[s].life
        /\ obj'[s].sockptr = TRUE /\ obj'[s].events = obj[s].events \cup {"OUT"}
        /\ usr'[s].st = usr[s].st
    BY <1>0, <1>3 DEF WriteWaits, Members, Object, User
  <2>3. OnlyOf(s) /\ Moves(s)
    BY <2>1, <2>2 DEF OnlyOf, Moves
  <2> QED BY <1>0, <1>1, <2>1, <2>2, <2>3 DEF Linked, D, INVALID
<1> QED BY <1>2, <1>3 DEF Write

\* close() only shuts the connection down: descriptor and registration stay.
LEMMA CloseLinks ==
  ASSUME IInv, Kernel', Members', ptr' = ptr, NEW s \in Socks, Close(s)
  PROVE  OnlyOf(s) /\ Moves(s) /\ Linked(s)'
<1>0. Kernel /\ Members /\ Linked(s)
  BY DEF IInv, TypeOK, Kernel, Members
<1>1. /\ \A t \in Socks \ {s} : obj'[t] = obj[t] /\ usr'[t] = usr[t]
      /\ obj'[s].fd = obj[s].fd /\ obj'[s].life = obj[s].life
      /\ obj'[s].sockptr = obj[s].sockptr /\ obj'[s].events = obj[s].events
      /\ usr'[s].held = usr[s].held
      /\ usr'[s].st \in {usr[s].st, "closed"}
  BY <1>0 DEF Close, Members, Object, User
<1>2. CASE obj[s].close \/ obj[s].fd = INVALID
  <2>1. desc' = desc
    BY <1>2 DEF Close, kernelVars
  <2> QED BY <1>0, <1>1, <2>1 DEF OnlyOf, Moves, Linked, D
<1>3. CASE ~(obj[s].close \/ obj[s].fd = INVALID)
  <2>1. obj[s].fd \in Fds
    BY <1>0, <1>3 DEF Members, Object
  <2>2. /\ \A d \in Fds \ {obj[s].fd} : desc'[d] = desc[d]
        /\ desc'[obj[s].fd].conn = "down"
        /\ desc'[obj[s].fd].ptr = D(s).ptr
        /\ desc'[obj[s].fd].mask = D(s).mask
    BY <1>0, <1>3, <2>1 DEF Close, Changes, Kernel, Descriptor, D
  <2> QED BY <1>0, <1>1, <2>1, <2>2 DEF OnlyOf, Moves, Linked, D
<1> QED BY <1>2, <1>3

\* connect() and reconnect() take a descriptor nobody has.
LEMMA DialLinks ==
  ASSUME IInv, Kernel', Members', ptr' = ptr, NEW s \in Socks, Dial(s),
         usr[s].st \in {"none", "failed"}, obj[s].life = "alive"
  PROVE  OnlyOf(s) /\ Moves(s) /\ Linked(s)'
<1>0. Kernel /\ Members /\ Linked(s) /\ obj[s].fd = INVALID
  BY DEF IInv, TypeOK, Kernel, Members, Linked
<1>1. PICK d \in Fds : LowestFree(d) /\ (DialFails(s, d) \/ DialStarts(s, d))
  BY DEF Dial
<1>2. d # INVALID /\ desc[d].conn = "closed" /\ \A e \in Fds \ {d} : desc'[e] = desc[e]
  BY <1>0, <1>1 DEF INVALID, LowestFree, DialFails, DialStarts, Arm, Kernel
<1>3. CASE DialFails(s, d)
  <2>1. PICK ev : obj' = [obj EXCEPT ![s].events = ev]
    BY <1>3 DEF DialFails
  <2>2. /\ \A t \in Socks \ {s} : obj'[t] = obj[t]
        /\ obj'[s].fd = INVALID /\ obj'[s].life = obj[s].life
        /\ obj'[s].sockptr = obj[s].sockptr
        /\ usr' = usr
    BY <1>0, <1>3, <2>1 DEF DialFails, Members, Object
  <2>3. ~Registered(desc'[d])
    BY <1>0, <1>3 DEF DialFails, Abandoned, Closed, Registered, Kernel
  <2> QED BY <1>0, <1>2, <2>2, <2>3 DEF OnlyOf, Moves, Linked
<1>4. CASE DialStarts(s, d)
  <2>1. /\ desc'[d].conn # "closed"
        /\ desc'[d].ptr = s
        /\ desc'[d].mask = {"OUT"}
    BY <1>0, <1>4 DEF DialStarts, Arm, Closed, Kernel
  <2>2. /\ \A t \in Socks \ {s} : obj'[t] = obj[t] /\ usr'[t] = usr[t]
        /\ obj'[s].fd = d /\ obj'[s].life = obj[s].life
        /\ obj'[s].sockptr = TRUE /\ obj'[s].events = {"OUT"}
        /\ usr'[s].st = "connecting"
    BY <1>0, <1>4 DEF DialStarts, Members, Object, User
  <2>3. OnlyOf(s) /\ Moves(s)
    BY <1>0, <1>2, <2>2 DEF OnlyOf, Moves
  <2> QED BY <1>2, <2>1, <2>2, <2>3 DEF Linked, D
<1> QED BY <1>1, <1>3, <1>4

\* addEpoll() too; when it fails the object stays without one.
LEMMA AddEpollLinks ==
  ASSUME IInv, Kernel', Members', NEW s \in Socks, NEW d \in Fds,
         LowestFree(d), AddEpoll(s, d), usr[s].st = "none", obj[s].life = "alive",
         ptr \notin Socks, ptr' = s
  PROVE  OnlyOf(s) /\ Moves(s) /\ Linked(s)'
<1>0. Kernel /\ Members /\ Linked(s) /\ obj[s].fd = INVALID
  BY DEF IInv, TypeOK, Kernel, Members, Linked
<1>1. d # INVALID /\ desc[d].conn = "closed" /\ \A e \in Fds \ {d} : desc'[e] = desc[e]
  BY <1>0 DEF INVALID, LowestFree, AddEpoll, Arm, Kernel
<1>2. /\ \A t \in Socks \ {s} : usr'[t] = usr[t] /\ (ptr' = t <=> ptr = t)
      /\ usr'[s].st = "open"
  BY <1>0 DEF AddEpoll, Members, User
<1>3. CASE /\ Arm(d, [Closed EXCEPT !.conn = "est", !.ptr = s])
           /\ obj' = [obj EXCEPT ![s].events = {}, ![s].fd = d]
  <2>1. /\ desc'[d].conn # "closed"
        /\ desc'[d].ptr = s
        /\ desc'[d].mask = {}
    BY <1>0, <1>3 DEF Arm, Closed, Kernel
  <2>2. /\ \A t \in Socks \ {s} : obj'[t] = obj[t]
        /\ obj'[s].fd = d /\ obj'[s].life = obj[s].life /\ obj'[s].events = {}
    BY <1>0, <1>3 DEF Members, Object
  <2>3. OnlyOf(s) /\ Moves(s)
    BY <1>0, <1>1, <1>2, <2>2 DEF OnlyOf, Moves
  <2> QED BY <1>1, <1>2, <2>1, <2>2, <2>3 DEF Linked, D
<1>4. CASE /\ desc' = [desc EXCEPT ![d] = Abandoned]
           /\ obj' = [obj EXCEPT ![s].events = {}]
  <2>1. ~Registered(desc'[d])
    BY <1>0, <1>4 DEF Abandoned, Closed, Registered, Kernel
  <2>2. /\ \A t \in Socks \ {s} : obj'[t] = obj[t]
        /\ obj'[s].fd = INVALID /\ obj'[s].life = obj[s].life
        /\ obj'[s].sockptr = obj[s].sockptr
    BY <1>0, <1>4 DEF Members, Object
  <2> QED BY <1>0, <1>1, <1>2, <2>1, <2>2 DEF OnlyOf, Moves, Linked
<1> QED BY <1>3, <1>4 DEF AddEpoll

\* The last shared_ptr to go takes the registration with it (finalClose).
LEMMA ReleaseLinks ==
  ASSUME IInv, Kernel', Members', NEW s \in Socks, NEW others, Release(s, others),
         obj[s].life = "alive", obj[s].sockptr => others,
         others <=> (usr'[s].held \/ obj[s].sockptr \/ ptr' = s),
         usr'[s].st = usr[s].st,
         \A t \in Socks \ {s} : usr'[t] = usr[t] /\ (ptr' = t <=> ptr = t)
  PROVE  OnlyOf(s) /\ Moves(s) /\ Linked(s)'
<1>0. Kernel /\ Members /\ Linked(s)
  BY DEF IInv, TypeOK, Kernel, Members
<1>1. CASE others
  BY <1>0, <1>1 DEF Release, OnlyOf, Moves, Linked, D
<1>2. CASE ~others
  <2>1. /\ \A t \in Socks \ {s} : obj'[t] = obj[t]
        /\ obj'[s].life = "freed" /\ obj'[s].fd = INVALID
        /\ obj'[s].sockptr = obj[s].sockptr
    BY <1>0, <1>2 DEF Release, Destroy, Members, Object
  <2>2. CASE obj[s].fd = INVALID
    <3>1. desc' = desc
      BY <1>2, <2>2 DEF Release, Destroy, FinalClose, kernelVars
    <3> QED BY <1>0, <1>2, <2>1, <2>2, <3>1 DEF OnlyOf, Moves, Linked
  <2>3. CASE obj[s].fd # INVALID
    <3>1. obj[s].fd \in Fds
      BY <1>0, <2>3 DEF Members, Object
    <3>2. /\ \A d \in Fds \ {obj[s].fd} : desc'[d] = desc[d]
          /\ ~Registered(desc'[obj[s].fd])
      BY <1>0, <1>2, <2>3, <3>1 DEF Release, Destroy, FinalClose, CloseFd, Closed, Registered, Kernel
    <3> QED BY <1>0, <1>2, <2>1, <3>2 DEF OnlyOf, Moves, Linked
  <2> QED BY <2>2, <2>3
<1> QED BY <1>1, <1>2

\* onEpollEv runs only while the self reference is there; ptr' is the
\* reference run() took from it when it makes a callback.
LEMMA HandlerLinks ==
  ASSUME IInv, Kernel', Members', NEW s \in Socks, NEW ev, obj[s].sockptr, ptr \notin Socks,
         \/ EventCalls(s, ev) /\ ptr' = s
         \/ EventSilent(s, ev) /\ ptr' = ptr
  PROVE  OnlyOf(s) /\ Moves(s) /\ Linked(s)'
<1>0. Kernel /\ Members /\ Linked(s) /\ obj[s].fd \in Fds /\ obj[s].fd # INVALID
  BY DEF IInv, TypeOK, Kernel, Members, Linked, Object
<1>1. \A t \in Socks \ {s} : ptr' = t <=> ptr = t
  OBVIOUS
<1>2. CASE RecvData(s) \/ RecvEnd(s) \/ RecvAgain(s)
  BY <1>0, <1>1, <1>2, RecvLinks
<1>3. CASE ConnectFails(s, ev) /\ ptr' = s
  <2>1. /\ \A t \in Socks \ {s} : obj'[t] = obj[t] /\ usr'[t] = usr[t]
        /\ obj'[s].fd = INVALID /\ obj'[s].life = obj[s].life
        /\ obj'[s].sockptr = FALSE
    BY <1>0, <1>3 DEF ConnectFails, Members, Object
  <2>2. /\ \A d \in Fds \ {obj[s].fd} : desc'[d] = desc[d]
        /\ ~Registered(desc'[obj[s].fd])
    BY <1>0, <1>3 DEF ConnectFails, FinalClose, CloseFd, Closed, Registered, Kernel
  <2> QED BY <1>0, <1>1, <1>3, <2>1, <2>2 DEF OnlyOf, Moves, Linked
<1>4. CASE ConnectSucceeds(s, ev) /\ ptr' = s
  <2>1. /\ \A d \in Fds \ {obj[s].fd} : desc'[d] = desc[d]
        /\ desc'[obj[s].fd].conn = D(s).conn
        /\ desc'[obj[s].fd].ptr = D(s).ptr
        /\ desc'[obj[s].fd].mask = obj[s].events \ {"OUT"}
    BY <1>0, <1>4 DEF ConnectSucceeds, Arm, Kernel, Descriptor, D
  <2>2. /\ \A t \in Socks \ {s} : obj'[t] = obj[t] /\ usr'[t] = usr[t]
        /\ obj'[s].fd = obj[s].fd /\ obj'[s].life = obj[s].life
        /\ obj'[s].sockptr = obj[s].sockptr
        /\ obj'[s].events = obj[s].events \ {"OUT"}
        /\ usr'[s].st = "open"
    <3>1. /\ \A t \in Socks \ {s} : obj'[t] = obj[t] /\ usr'[t] = usr[t]
          /\ obj'[s] = [obj[s] EXCEPT !.isconnect = FALSE, !.events = @ \ {"OUT"}]
          /\ usr'[s] = [usr[s] EXCEPT !.st = "open"]
      BY <1>0, <1>4 DEF ConnectSucceeds, Members
    <3>2. obj[s] \in Object /\ usr[s] \in User
      BY <1>0 DEF Members
    <3> QED BY <3>1, <3>2 DEF Object, User
  <2> QED BY <1>0, <1>1, <1>4, <2>1, <2>2 DEF OnlyOf, Moves, Linked, D
<1>5. CASE HangsUp(s, ev) /\ ptr' = s
  <2>1. /\ \A t \in Socks \ {s} : obj'[t] = obj[t] /\ usr'[t] = usr[t]
        /\ obj'[s].fd = obj[s].fd /\ obj'[s].life = obj[s].life
        /\ obj'[s].sockptr = FALSE /\ obj'[s].events = obj[s].events
        /\ usr'[s].st = "hup" /\ desc' = desc
    BY <1>0, <1>5 DEF HangsUp, Members, Object, User, kernelVars
  <2> QED BY <1>0, <1>1, <1>5, <2>1 DEF OnlyOf, Moves, Linked, D
<1>6. CASE SendDone(s, ev) /\ ptr' = s
  <2>1. PICK f : Arm(obj[s].fd, [D(s) EXCEPT !.full = f, !.mask = obj[s].events \ {"OUT"}])
    BY <1>6 DEF SendDone
  <2>2. /\ \A d \in Fds \ {obj[s].fd} : desc'[d] = desc[d]
        /\ desc'[obj[s].fd].conn = D(s).conn
        /\ desc'[obj[s].fd].ptr = D(s).ptr
        /\ desc'[obj[s].fd].mask = obj[s].events \ {"OUT"}
    BY <1>0, <2>1 DEF Arm, Kernel, Descriptor, D
  <2>3. /\ \A t \in Socks \ {s} : obj'[t] = obj[t] /\ usr'[t] = usr[t]
        /\ obj'[s].fd = obj[s].fd /\ obj'[s].life = obj[s].life
        /\ obj'[s].sockptr = obj[s].sockptr
        /\ obj'[s].events = obj[s].events \ {"OUT"}
        /\ usr'[s].st = usr[s].st
    <3>1. /\ \A t \in Socks \ {s} : obj'[t] = obj[t] /\ usr'[t] = usr[t]
          /\ obj'[s] = [obj[s] EXCEPT !.events = @ \ {"OUT"}]
          /\ usr'[s] = [usr[s] EXCEPT !.wr = FALSE]
      BY <1>0, <1>6 DEF SendDone, Members
    <3>2. obj[s] \in Object /\ usr[s] \in User
      BY <1>0 DEF Members
    <3> QED BY <3>1, <3>2 DEF Object, User
  <2> QED BY <1>0, <1>1, <1>6, <2>2, <2>3 DEF OnlyOf, Moves, Linked, D
<1>7. CASE (DataNoted(s, ev) \/ SendAgain(s, ev)) /\ ptr' = ptr
  <2>1. /\ \A t \in Socks \ {s} : obj'[t] = obj[t]
        /\ obj'[s].fd = obj[s].fd /\ obj'[s].life = obj[s].life
        /\ obj'[s].sockptr = obj[s].sockptr /\ obj'[s].events = obj[s].events
        /\ usr' = usr /\ desc' = desc
    <3>1. CASE DataNoted(s, ev)
      <4>1. /\ \A t \in Socks \ {s} : obj'[t] = obj[t]
            /\ obj'[s] = [obj[s] EXCEPT !.hasData = TRUE]
            /\ usr' = usr /\ desc' = desc
        BY <1>0, <3>1 DEF DataNoted, Members
      <4>2. obj[s] \in Object
        BY <1>0 DEF Members
      <4> QED BY <4>1, <4>2 DEF Object
    <3>2. CASE SendAgain(s, ev)
      BY <3>2 DEF SendAgain
    <3> QED BY <1>7, <3>1, <3>2
  <2> QED BY <1>0, <1>7, <2>1 DEF OnlyOf, Moves, Linked, D
<1> QED BY <1>2, <1>3, <1>4, <1>5, <1>6, <1>7 DEF EventCalls, EventSilent

-----------------------------------------------------------------------------
(***************************************************************************)
(* Every step preserves the invariant: first the steps that concern one    *)
(* socket, then those of the loop, then all of Next.                       *)
(***************************************************************************)
\* What the lemmas above establish of one socket is the whole invariant.
LEMMA FromLocal ==
  ASSUME IInv, Kernel', Members', Shape', CallbackPtr', NEW s \in Socks,
         OnlyOf(s) /\ Moves(s) /\ Linked(s)'
  PROVE  IInv'
<1>1. (\A t \in Socks : Linked(t)') /\ Registry'
  BY LocalStep
<1> QED BY <1>1 DEF IInv, TypeOK, Kernel, Members, Shape

\* connect(), reconnect(), read(), write(), close().
LEMMA CallInv ==
  ASSUME IInv, NEW s \in Socks, Call(s), UNCHANGED <<pc, ptr, batch>>
  PROVE  IInv' /\ OnlyOf(s)
<1>0. Kernel /\ Members /\ Shape' /\ CallbackPtr' /\ obj[s].life = "alive" /\ ptr' = ptr
  BY DEF IInv, TypeOK, Kernel, Members, Shape, CallbackPtr, Call, Reaches
<1>1. CASE Connect(s) \/ Reconnect(s)
  <2>1. Dial(s) /\ usr[s].st \in {"none", "failed"}
    BY <1>1 DEF Connect, Reconnect
  <2> QED BY <1>0, <2>1, DialType, DialLinks, FromLocal
<1>2. CASE Read(s)
  BY <1>0, <1>2, ReadType, ReadLinks, FromLocal
<1>3. CASE Write(s)
  BY <1>0, <1>3, WriteType, WriteLinks, FromLocal
<1>4. CASE Close(s)
  BY <1>0, <1>4, CloseType, CloseLinks, FromLocal
<1> QED BY <1>1, <1>2, <1>3, <1>4 DEF Call

\* make_shared, and the application keeping or dropping a shared_ptr.
LEMMA HandleInv ==
  ASSUME IInv, NEW s \in Socks, MakeShared(s) \/ KeepHandle(s) \/ DropHandle(s),
         UNCHANGED <<pc, ptr, batch>>
  PROVE  IInv' /\ OnlyOf(s)
<1>0. Kernel /\ Members /\ Shape' /\ CallbackPtr' /\ Linked(s)
  BY DEF IInv, TypeOK, Kernel, Members, Shape, CallbackPtr
<1>1. CASE MakeShared(s)
  <2>1. /\ \A t \in Socks \ {s} : obj'[t] = obj[t] /\ usr'[t] = usr[t]
        /\ obj'[s] = [obj[s] EXCEPT !.life = "alive"]
        /\ usr'[s] = [usr[s] EXCEPT !.held = TRUE]
        /\ desc' = desc /\ Kernel'
    BY <1>0, <1>1 DEF MakeShared, Members, kernelVars, Kernel
  <2>2. Members'
    <3>1. obj[s] \in Object /\ usr[s] \in User
      BY <1>0 DEF Members
    <3>2. [obj[s] EXCEPT !.life = "alive"] \in Object /\ [usr[s] EXCEPT !.held = TRUE] \in User
      BY <3>1 DEF Object, User
    <3> QED BY <1>0, <1>1, <3>2 DEF MakeShared, Members
  <2>3. obj'[s].fd = obj[s].fd /\ obj'[s].life = "alive" /\ obj'[s].sockptr = obj[s].sockptr
        /\ obj'[s].events = obj[s].events /\ usr'[s].held = TRUE /\ usr'[s].st = usr[s].st
    BY <1>0, <2>1 DEF Members, Object, User
  <2>4. OnlyOf(s) /\ Moves(s) /\ Linked(s)'
    BY <1>0, <2>1, <2>3 DEF OnlyOf, Moves, Linked, D
  <2> QED BY <1>0, <2>1, <2>2, <2>4, FromLocal
<1>2. CASE KeepHandle(s)
  <2>1. /\ obj' = obj /\ desc' = desc /\ Kernel'
        /\ \A t \in Socks \ {s} : usr'[t] = usr[t]
        /\ usr'[s].held = TRUE /\ usr'[s].st = usr[s].st
    BY <1>0, <1>2 DEF KeepHandle, Members, User, Kernel
  <2>2. Members'
    BY <1>0, <1>2 DEF KeepHandle, Members, User
  <2>3. OnlyOf(s) /\ Moves(s) /\ Linked(s)'
    BY <1>0, <1>2, <2>1 DEF KeepHandle, OnlyOf, Moves, Linked, D
  <2> QED BY <1>0, <2>1, <2>2, <2>3, FromLocal
<1>3. CASE DropHandle(s)
  <2> DEFINE others == ptr = s \/ obj[s].sockptr
  <2>1. /\ Release(s, others) /\ usr' \in [Socks -> User]
        /\ \A t \in Socks \ {s} : usr'[t] = usr[t]
        /\ usr'[s].held = FALSE /\ usr'[s].st = usr[s].st
    BY <1>0, <1>3 DEF DropHandle, Members, User
  <2>2. Kernel' /\ Members'
    BY <1>0, <2>1, ReleaseType DEF Members
  <2>3. obj[s].life = "alive"
    BY <1>0, <1>3 DEF DropHandle, Linked
  <2>4. OnlyOf(s) /\ Moves(s) /\ Linked(s)'
    <3> HIDE DEF others
    <3>1. /\ obj[s].sockptr => others
          /\ others <=> (usr'[s].held \/ obj[s].sockptr \/ ptr' = s)
      BY <2>1 DEF others
    <3> QED BY <2>1, <2>2, <2>3, <3>1, ReleaseLinks
  <2> QED BY <1>0, <2>2, <2>4, FromLocal
<1> QED BY <1>1, <1>2, <1>3

\* epoll_wait: each entry of _events names a descriptor and an object.
LEMMA WaitInv == IInv /\ Wait => IInv'
<1> SUFFICES ASSUME IInv, Wait PROVE IInv'
  OBVIOUS
<1>0. Kernel /\ Members /\ Shape
  BY DEF IInv, TypeOK, Kernel, Members, Shape
<1>1. PICK W \in SUBSET ready :
        /\ batch' = {[fd |-> d, ptr |-> desc[d].ptr, ev |-> Reported(desc[d])] :
                       d \in {e \in W : Reported(desc[e]) # {}}}
        /\ ready' = ready \ W
  BY DEF Wait
<1>2. batch' \in SUBSET Entry
  <2>1. ASSUME NEW d \in ready, Reported(desc[d]) # {}
        PROVE  [fd |-> d, ptr |-> desc[d].ptr, ev |-> Reported(desc[d])] \in Entry
    <3>1. desc[d] \in Descriptor /\ d \in Fds
      BY <1>0 DEF Kernel
    <3>2. desc[d].ptr \in Socks
      BY <2>1, <3>1 DEF Reported, Registered, Descriptor
    <3>3. Reported(desc[d]) \in SUBSET Event
      BY DEF Reported, Poll
    <3> QED BY <3>1, <3>2, <3>3 DEF Entry
  <2> QED BY <1>1, <2>1
<1>3. TypeOK'
  BY <1>0, <1>1, <1>2 DEF Wait, Kernel, Members, Shape, TypeOK
<1>4. \A s \in Socks : Linked(s)'
  BY DEF IInv, Wait, Linked, D
<1> QED BY <1>3, <1>4 DEF IInv, Wait, Registry, CallbackPtr

\* An event found without self reference changes nothing.
LEMMA SkipInv ==
  ASSUME IInv, NEW s \in Socks, SkipEvent(s), batch' \subseteq batch
  PROVE  IInv'
<1>1. UNCHANGED <<desc, ready, obj, usr, pc, ptr>>
  BY DEF SkipEvent
<1>2. \A t \in Socks : Linked(t)'
  BY <1>1 DEF IInv, Linked, D
<1> QED BY <1>1, <1>2 DEF IInv, TypeOK, Registry, CallbackPtr

\* onEpollEv, called by run() through the self reference.
LEMMA RunHandlerInv ==
  ASSUME IInv, pc = "dispatch", NEW s \in Socks, NEW ev, RunHandler(s, ev), batch' \subseteq batch
  PROVE  IInv' /\ OnlyOf(s)
<1>0. Kernel /\ Members /\ Shape /\ ptr \notin Socks
  BY DEF IInv, TypeOK, Kernel, Members, Shape, CallbackPtr
<1>1. /\ obj[s].sockptr
      /\ EventCalls(s, ev) \/ EventSilent(s, ev)
      /\ \/ EventCalls(s, ev) /\ ptr' = s /\ pc' = "user"
         \/ EventSilent(s, ev) /\ ptr' = ptr /\ pc' = pc
  BY DEF RunHandler
<1>2. obj[s].fd \in Fds
  BY <1>0, <1>1 DEF IInv, Linked, Members, Object
<1>3. Kernel' /\ Members'
  BY <1>0, <1>1, <1>2, HandlerType
<1>4. OnlyOf(s) /\ Moves(s) /\ Linked(s)'
  BY <1>0, <1>1, <1>3, HandlerLinks
<1>5. Shape' /\ CallbackPtr'
  BY <1>0, <1>1 DEF Shape, CallbackPtr, IInv
<1> QED BY <1>3, <1>4, <1>5, FromLocal

\* One turn of the for loop of NetLoop::run.
LEMMA DispatchInv == IInv /\ Dispatch => IInv'
<1> SUFFICES ASSUME IInv, Dispatch PROVE IInv'
  OBVIOUS
<1>1. PICK e \in batch : /\ batch' = batch \ {e}
                         /\ SkipEvent(e.ptr) \/ RunHandler(e.ptr, e.ev)
  BY DEF Dispatch
<1>2. e.ptr \in Socks /\ batch' \subseteq batch /\ pc = "dispatch"
  BY <1>1 DEF IInv, TypeOK, Entry, Dispatch
<1> QED BY <1>1, <1>2, SkipInv, RunHandlerInv

\* onEpollAccept: the socket gets a descriptor, or is handed back without.
LEMMA AcceptedInv ==
  ASSUME IInv, NEW s \in Socks, Accepted(s)
  PROVE  IInv' /\ OnlyOf(s)
<1>0. /\ Kernel /\ Members /\ Linked(s) /\ ptr \notin Socks
      /\ Shape' /\ CallbackPtr' /\ ptr' = s /\ obj[s].life = "alive"
  BY DEF IInv, TypeOK, Kernel, Members, Shape, CallbackPtr, Accepted
<1>1. ASSUME NEW d \in Fds, LowestFree(d), AddEpoll(s, d)
      PROVE  IInv' /\ OnlyOf(s)
  <2>1. Kernel' /\ Members'
    BY <1>0, <1>1, AddEpollType
  <2> QED BY <1>0, <1>1, <2>1, AddEpollLinks, FromLocal DEF Accepted
<1>2. CASE usr' = [usr EXCEPT ![s].held = FALSE] /\ UNCHANGED <<desc, ready, obj>>
  <2>1. /\ usr' \in [Socks -> User]
        /\ \A t \in Socks \ {s} : usr'[t] = usr[t]
        /\ usr'[s].held = FALSE /\ usr'[s].st = usr[s].st
    BY <1>0, <1>2 DEF Members, User
  <2>2. Kernel' /\ Members'
    BY <1>0, <1>2, <2>1 DEF Kernel, Members
  <2>3. OnlyOf(s) /\ Moves(s) /\ Linked(s)'
    BY <1>0, <1>2, <2>1 DEF OnlyOf, Moves, Linked, D
  <2> QED BY <1>0, <2>2, <2>3, FromLocal
<1> QED BY <1>1, <1>2 DEF Accepted

\* The callback returns and the IoSockptr of run() goes out of scope.
LEMMA ReturnInv ==
  ASSUME IInv, Return, NEW s \in Socks, s = ptr
  PROVE  IInv' /\ OnlyOf(s)
<1>0. Kernel /\ Members /\ Shape' /\ CallbackPtr' /\ ptr' \notin Socks
  BY DEF IInv, TypeOK, Kernel, Members, Shape, CallbackPtr, Return
<1>2. obj[s].life = "alive"
  BY DEF IInv, Linked
<1> DEFINE others == usr[s].held \/ obj[s].sockptr
<1>3. Release(s, others) /\ usr' = usr
  BY DEF Return
<1>4. /\ obj[s].sockptr => others
      /\ others <=> (usr'[s].held \/ obj[s].sockptr \/ ptr' = s)
      /\ usr'[s].st = usr[s].st
      /\ \A t \in Socks \ {s} : usr'[t] = usr[t] /\ (ptr' = t <=> ptr = t)
  BY <1>0, <1>3
<1> HIDE DEF others
<1>5. Kernel' /\ Members'
  BY <1>0, <1>3, ReleaseType DEF Members
<1>6. OnlyOf(s) /\ Moves(s) /\ Linked(s)'
  BY <1>2, <1>3, <1>4, <1>5, ReleaseLinks
<1> QED BY <1>0, <1>5, <1>6, FromLocal

\* The network.
LEMMA EnvironmentInv == IInv /\ Environment => IInv'
<1> SUFFICES ASSUME IInv, Environment PROVE IInv'
  OBVIOUS
<1>1. PICK d \in Fds : Network(d)
  BY DEF Environment
<1>2. Kernel'
  BY <1>1, NetworkType DEF IInv, TypeOK, Kernel
<1>3. (\A t \in Socks : Linked(t)') /\ Registry'
  BY <1>1, NetworkLinks DEF Environment
<1> QED BY <1>2, <1>3 DEF Environment, IInv, TypeOK, Kernel, CallbackPtr

\* The end of run(), and stuttering.
LEMMA QuietInv == IInv /\ (EndRun \/ UNCHANGED vars) => IInv'
<1> SUFFICES ASSUME IInv, EndRun \/ UNCHANGED vars PROVE IInv'
  OBVIOUS
<1>1. UNCHANGED <<desc, ready, obj, usr, ptr, batch>> /\ CallbackPtr' /\ TypeOK'
  BY DEF EndRun, vars, IInv, TypeOK, CallbackPtr
<1>2. \A s \in Socks : Linked(s)'
  BY <1>1 DEF IInv, Linked, D
<1> QED BY <1>1, <1>2 DEF IInv, Registry

\* Every step preserves the invariant.
LEMMA Step == IInv /\ [Next]_vars => IInv'
<1> SUFFICES ASSUME IInv, [Next]_vars PROVE IInv'
  OBVIOUS
<1>1. CASE Wait
  BY <1>1, WaitInv
<1>2. CASE Dispatch
  BY <1>2, DispatchInv
<1>3. ASSUME NEW s \in Socks, Accepted(s) PROVE IInv'
  BY <1>3, AcceptedInv
<1>4. CASE Return
  BY <1>4, ReturnInv DEF Return, IInv, CallbackPtr
<1>5. CASE EndRun \/ UNCHANGED vars
  BY <1>5, QuietInv
<1>6. CASE Application
  <2>1. PICK s \in Socks : MakeShared(s) \/ Call(s) \/ KeepHandle(s) \/ DropHandle(s)
    BY <1>6 DEF Application
  <2> QED BY <1>6, <2>1, CallInv, HandleInv DEF Application
<1>7. CASE Environment
  BY <1>7, EnvironmentInv
<1> QED BY <1>1, <1>2, <1>3, <1>4, <1>5, <1>6, <1>7 DEF Next, Run

\* IInv holds in every reachable state.
THEOREM Invariance == Spec => []IInv
  BY InitInv, Step, PTL DEF Spec

-----------------------------------------------------------------------------
(***************************************************************************)
(* Every variable keeps its type: in particular each entry epoll_wait      *)
(* returns names an IoSocket, and no object has a descriptor number the    *)
(* process does not.                                                       *)
(***************************************************************************)
THEOREM TypeCorrect == Spec => []TypeOK
<1>1. IInv => TypeOK
  BY DEF IInv
<1> QED BY <1>1, Invariance, PTL

(***************************************************************************)
(* The data.ptr of every registration in the epoll instance points at a    *)
(* live IoSocket, which has that descriptor and asked for those events:    *)
(* NetLoop::run may dereference what a fresh epoll_wait returns.           *)
(***************************************************************************)
THEOREM RegistrationsAreOwned == Spec => []RegistrationOwned
<1>1. IInv => RegistrationOwned
  <2> SUFFICES ASSUME IInv, NEW d \in Fds, Registered(desc[d])
               PROVE  /\ desc[d].conn # "closed"
                      /\ obj[desc[d].ptr].life = "alive"
                      /\ obj[desc[d].ptr].fd = d
                      /\ obj[desc[d].ptr].events = desc[d].mask
    BY DEF RegistrationOwned
  <2>1. desc[d].ptr \in Socks
    BY DEF IInv, TypeOK, Descriptor, Registered
  <2>2. obj[desc[d].ptr].fd = d /\ d # INVALID
    BY DEF IInv, Registry, INVALID
  <2> QED BY <2>1, <2>2 DEF IInv, Linked, D
<1> QED BY <1>1, Invariance, PTL

(***************************************************************************)
(* An IoSocket lives exactly as long as the application, its own           *)
(* _event.sockptr or the callback in progress refers to it, and the self   *)
(* reference exists only while the epoll instance watches its descriptor.  *)
(***************************************************************************)
THEOREM ReferencesDecideLife == Spec => []ReferencesKeepAlive
<1>1. IInv => ReferencesKeepAlive
  <2> SUFFICES ASSUME IInv, NEW s \in Socks
               PROVE  /\ obj[s].sockptr => obj[s].fd \in Fds /\ D(s).ptr = s
                      /\ obj[s].life = "alive" <=> (usr[s].held \/ obj[s].sockptr \/ ptr = s)
    BY DEF ReferencesKeepAlive
  <2>1. Linked(s) /\ obj[s].fd \in Fds \cup {INVALID}
    BY DEF IInv, TypeOK, Object
  <2> QED BY <2>1 DEF Linked
<1> QED BY <1>1, Invariance, PTL

-----------------------------------------------------------------------------
(***************************************************************************)
(* Entries of _events that outlive their object.  When the application     *)
(* keeps no shared_ptr of its own it reaches, inside a callback, only the  *)
(* object being called back and objects without a descriptor, and neither  *)
(* has an entry left in the batch.                                         *)
(***************************************************************************)
\* An object the application holds has no descriptor.
Idle(s) == usr[s].held => obj[s].fd = INVALID

BInv ==
  /\ BatchOwned
  /\ \A s \in Socks : Idle(s)
  /\ \A e \in batch : e.ptr # ptr
  /\ \A e, f \in batch : e.ptr = f.ptr => e = f
  /\ pc = "main" => batch = {}

\* A step of an object without an entry left disturbs no entry.
LEMMA BatchLocal ==
  ASSUME IInv, BInv, IInv', NEW s \in Socks, OnlyOf(s), Idle(s)',
         batch' \subseteq batch, \A e \in batch' : e.ptr # s,
         ptr' \in {s, ptr, NoSock}, pc' = "main" => batch' = {}
  PROVE  BInv'
<1>1. \A e \in batch' : e \in batch /\ e.ptr \in Socks \ {s}
  BY DEF IInv, TypeOK, Entry
<1>2. BatchOwned'
  BY <1>1 DEF BInv, BatchOwned, OnlyOf
<1>3. \A t \in Socks : Idle(t)'
  BY DEF BInv, Idle, OnlyOf
<1>4. \A e \in batch' : e.ptr # ptr'
  BY <1>1 DEF BInv
<1> QED BY <1>1, <1>2, <1>3, <1>4 DEF BInv

\* An object without a descriptor has no entry.
LEMMA ClosedHasNoEntry ==
  ASSUME IInv, BInv, NEW s \in Socks, obj[s].fd = INVALID
  PROVE  \A e \in batch : e.ptr # s
<1>1. \A e \in batch : e.fd \in Fds
  BY DEF IInv, TypeOK, Entry
<1> QED BY <1>1 DEF BInv, BatchOwned, INVALID

\* The calls an application makes.
LEMMA CallBatch ==
  ASSUME KeepsHandles = FALSE, IInv, BInv, NEW s \in Socks, Call(s), UNCHANGED <<pc, ptr, batch>>
  PROVE  BInv'
<1>0. IInv' /\ OnlyOf(s) /\ Members /\ Linked(s)
  BY CallInv DEF IInv, TypeOK, Members
<1>1. \A e \in batch' : e.ptr # s
  BY ClosedHasNoEntry DEF Call, Reaches, BInv, Idle
<1>2. Idle(s)'
  <2>1. CASE Dial(s)
    <3>1. PICK d \in Fds : DialFails(s, d) \/ DialStarts(s, d)
      BY <2>1 DEF Dial
    <3>2. CASE DialFails(s, d)
      <4>1. PICK ev : obj' = [obj EXCEPT ![s].events = ev]
        BY <3>2 DEF DialFails
      <4>2. obj'[s].fd = obj[s].fd
        BY <1>0, <4>1 DEF Members, Object
      <4> QED BY <3>2, <4>2 DEF DialFails, BInv, Idle
    <3>3. CASE DialStarts(s, d)
      BY <1>0, <3>3 DEF DialStarts, Members, User, Idle
    <3> QED BY <3>1, <3>2, <3>3
  <2>2. CASE Read(s)
    <3>1. usr'[s].held = usr[s].held /\ obj'[s].fd = obj[s].fd
      <4>1. CASE ReadRegisters(s)
        BY <1>0, <4>1 DEF ReadRegisters, Members, User, Object
      <4>2. CASE ReadWaits(s)
        BY <1>0, <4>2 DEF ReadWaits, Members, User, Object
      <4>3. CASE RecvData(s)
        BY <1>0, <4>3 DEF RecvData, Members, User, Object
      <4>4. CASE RecvEnd(s)
        BY <1>0, <4>4 DEF RecvEnd, Members, User, Object
      <4>5. CASE RecvAgain(s)
        BY <1>0, <4>5 DEF RecvAgain, Members, User, Object
      <4> QED BY <2>2, <4>1, <4>2, <4>3, <4>4, <4>5 DEF Read, ReadTries
    <3> QED BY <3>1 DEF BInv, Idle
  <2>3. CASE Write(s)
    <3>1. usr'[s].held = usr[s].held /\ obj'[s].fd = obj[s].fd
      BY <1>0, <2>3 DEF Write, WriteSends, WriteWaits, Members, User, Object
    <3> QED BY <3>1 DEF BInv, Idle
  <2>4. CASE Close(s)
    <3>1. usr'[s].held = usr[s].held /\ obj'[s].fd = obj[s].fd
      BY <1>0, <2>4 DEF Close, Members, User, Object
    <3> QED BY <3>1 DEF BInv, Idle
  <2> QED BY <2>1, <2>2, <2>3, <2>4 DEF Call, Connect, Reconnect
<1> QED BY <1>0, <1>1, <1>2, BatchLocal DEF BInv

\* Making, keeping and dropping a shared_ptr.
LEMMA HandleBatch ==
  ASSUME KeepsHandles = FALSE, IInv, BInv, NEW s \in Socks,
         MakeShared(s) \/ KeepHandle(s) \/ DropHandle(s), UNCHANGED <<pc, ptr, batch>>
  PROVE  BInv'
<1>0. IInv' /\ OnlyOf(s) /\ Members /\ Linked(s)
  BY HandleInv DEF IInv, TypeOK, Members
<1>1. CASE MakeShared(s)
  <2>1. obj[s].fd = INVALID /\ obj'[s].fd = INVALID
    BY <1>0, <1>1 DEF MakeShared, Linked, Members, Object
  <2> QED BY <1>0, <2>1, ClosedHasNoEntry, BatchLocal DEF Idle, BInv
<1>2. CASE KeepHandle(s)
  <2>1. obj[s].fd = INVALID /\ obj'[s].fd = INVALID
    BY <1>2 DEF KeepHandle
  <2> QED BY <1>0, <2>1, ClosedHasNoEntry, BatchLocal DEF Idle, BInv
<1>3. CASE DropHandle(s)
  <2>1. obj[s].fd = INVALID
    BY <1>3 DEF DropHandle, BInv, Idle
  <2>2. usr'[s].held = FALSE
    BY <1>0, <1>3 DEF DropHandle, Members, User
  <2> QED BY <1>0, <2>1, <2>2, ClosedHasNoEntry, BatchLocal DEF Idle, BInv
<1> QED BY <1>1, <1>2, <1>3

\* A fresh batch has one entry for each of the objects it names.
LEMMA WaitBatch == IInv /\ BInv /\ Wait => BInv'
<1> SUFFICES ASSUME IInv, BInv, Wait PROVE BInv'
  OBVIOUS
<1>1. PICK W \in SUBSET ready :
        batch' = {[fd |-> d, ptr |-> desc[d].ptr, ev |-> Reported(desc[d])] :
                   d \in {e \in W : Reported(desc[e]) # {}}}
  BY DEF Wait
<1>2. ptr = NoSock /\ ptr' = ptr /\ obj' = obj /\ usr' = usr /\ pc' = "dispatch"
  BY DEF Wait, IInv, CallbackPtr, TypeOK
<1>3. ASSUME NEW e \in batch'
      PROVE  e.ptr \in Socks /\ obj[e.ptr].life = "alive" /\ obj[e.ptr].fd = e.fd
  <2>1. PICK d \in ready : /\ Reported(desc[d]) # {}
                           /\ e = [fd |-> d, ptr |-> desc[d].ptr, ev |-> Reported(desc[d])]
    BY <1>1
  <2>2. d \in Fds /\ desc[d] \in Descriptor /\ Registered(desc[d])
    BY <2>1 DEF Reported, IInv, TypeOK
  <2>3. desc[d].ptr \in Socks
    BY <2>2 DEF Registered, Descriptor
  <2>4. obj[desc[d].ptr].fd = d /\ d # INVALID
    BY <2>2 DEF IInv, Registry, INVALID
  <2> QED BY <2>1, <2>3, <2>4 DEF IInv, Linked
<1>4. \A e, f \in batch' : e.ptr = f.ptr => e = f
  <2> SUFFICES ASSUME NEW e \in batch', NEW f \in batch', e.ptr = f.ptr
               PROVE  e = f
    OBVIOUS
  <2>1. e.fd = f.fd
    BY <1>3
  <2>2. /\ e = [fd |-> e.fd, ptr |-> desc[e.fd].ptr, ev |-> Reported(desc[e.fd])]
        /\ f = [fd |-> f.fd, ptr |-> desc[f.fd].ptr, ev |-> Reported(desc[f.fd])]
    BY <1>1
  <2> QED BY <2>1, <2>2
<1> QED BY <1>2, <1>3, <1>4 DEF BInv, BatchOwned, Idle

\* A turn of the for loop: the entry taken was the only one of its object.
LEMMA DispatchBatch == IInv /\ BInv /\ Dispatch => BInv'
<1> SUFFICES ASSUME IInv, BInv, Dispatch PROVE BInv'
  OBVIOUS
<1>1. PICK e \in batch : /\ batch' = batch \ {e}
                         /\ SkipEvent(e.ptr) \/ RunHandler(e.ptr, e.ev)
  BY DEF Dispatch
<1>2. PICK s \in Socks : s = e.ptr
  BY DEF IInv, TypeOK, Entry
<1>3. batch' \subseteq batch /\ \A f \in batch' : f.ptr # s
  BY <1>1, <1>2 DEF BInv
<1>4. CASE SkipEvent(s)
  BY <1>3, <1>4 DEF SkipEvent, BInv, BatchOwned, Idle
<1>5. CASE RunHandler(s, e.ev)
  <2>0. Members /\ Linked(s)
    BY DEF IInv, TypeOK, Members
  <2>1. IInv' /\ OnlyOf(s)
    BY <1>3, <1>5, RunHandlerInv DEF Dispatch
  <2>2. ptr' \in {s, ptr} /\ (pc' = "main" => batch' = {})
    BY <1>5 DEF RunHandler, Dispatch
  <2>3. usr'[s].held = usr[s].held /\ obj'[s].fd \in {obj[s].fd, INVALID}
    <3>1. CASE RecvData(s)
      BY <2>0, <3>1 DEF RecvData, Members, User, Object
    <3>2. CASE RecvEnd(s)
      BY <2>0, <3>2 DEF RecvEnd, Members, User, Object
    <3>3. CASE RecvAgain(s)
      BY <2>0, <3>3 DEF RecvAgain, Members, User, Object
    <3>4. CASE ConnectFails(s, e.ev)
      BY <2>0, <3>4 DEF ConnectFails, Members, User, Object
    <3>5. CASE ConnectSucceeds(s, e.ev)
      BY <2>0, <3>5 DEF ConnectSucceeds, Members, User, Object
    <3>6. CASE HangsUp(s, e.ev)
      BY <2>0, <3>6 DEF HangsUp, Members, User, Object
    <3>7. CASE SendDone(s, e.ev)
      BY <2>0, <3>7 DEF SendDone, Members, User, Object
    <3>8. CASE DataNoted(s, e.ev)
      BY <2>0, <3>8 DEF DataNoted, Members, Object
    <3>9. CASE SendAgain(s, e.ev)
      BY <3>9 DEF SendAgain
    <3> QED BY <1>5, <3>1, <3>2, <3>3, <3>4, <3>5, <3>6, <3>7, <3>8, <3>9
            DEF RunHandler, EventCalls, EventSilent
  <2> QED BY <1>3, <2>1, <2>2, <2>3, BatchLocal DEF Idle, BInv
<1> QED BY <1>1, <1>2, <1>4, <1>5

\* onEpollAccept gives a descriptor to an object that had none.
LEMMA AcceptedBatch ==
  ASSUME IInv, BInv, NEW s \in Socks, Accepted(s)
  PROVE  BInv'
<1>0. IInv' /\ OnlyOf(s) /\ Members /\ obj[s].fd = INVALID
  BY AcceptedInv DEF Accepted, IInv, TypeOK, Members, Linked
<1>1. usr'[s].held = FALSE
  BY <1>0 DEF Accepted, AddEpoll, Members, User
<1> QED BY <1>0, <1>1, ClosedHasNoEntry, BatchLocal DEF Accepted, Idle

\* The object called back has no entry left, so it may be destroyed.
LEMMA ReturnBatch == IInv /\ BInv /\ Return => BInv'
<1> SUFFICES ASSUME IInv, BInv, Return PROVE BInv'
  OBVIOUS
<1>1. PICK s \in Socks : s = ptr
  BY DEF IInv, CallbackPtr, Return
<1>2. IInv' /\ OnlyOf(s)
  BY <1>1, ReturnInv
<1>3. usr' = usr /\ obj'[s].fd \in {obj[s].fd, INVALID}
  BY <1>1 DEF Return, Release, Destroy, IInv, TypeOK, Object
<1> QED BY <1>1, <1>2, <1>3, BatchLocal DEF Return, Idle, BInv

(***************************************************************************)
(* When the application keeps no shared_ptr to an open socket, no entry of *)
(* the batch NetLoop::run is working through ever points at an IoSocket    *)
(* that an earlier callback destroyed or moved: the data.ptr it reads in   *)
(* the for loop is valid.                                                  *)
(***************************************************************************)
THEOREM BatchIsOwned ==
  ASSUME KeepsHandles = FALSE
  PROVE  Spec => []BatchOwned
<1>1. Init => BInv
  BY DEF Init, SocketInit, NewUser, BInv, BatchOwned, Idle
<1>2. IInv /\ BInv /\ [Next]_vars => BInv'
  <2> SUFFICES ASSUME IInv, BInv, [Next]_vars PROVE BInv'
    OBVIOUS
  <2>1. CASE Wait
    BY <2>1, WaitBatch
  <2>2. CASE Dispatch
    BY <2>2, DispatchBatch
  <2>3. ASSUME NEW s \in Socks, Accepted(s) PROVE BInv'
    BY <2>3, AcceptedBatch
  <2>4. CASE Return
    BY <2>4, ReturnBatch
  <2>5. CASE EndRun \/ UNCHANGED vars
    BY <2>5 DEF EndRun, vars, BInv, BatchOwned, Idle
  <2>6. CASE Application
    <3>1. PICK s \in Socks : MakeShared(s) \/ Call(s) \/ KeepHandle(s) \/ DropHandle(s)
      BY <2>6 DEF Application
    <3> QED BY <2>6, <3>1, CallBatch, HandleBatch DEF Application
  <2>7. CASE Environment
    BY <2>7 DEF Environment, BInv, BatchOwned, Idle
  <2> QED BY <2>1, <2>2, <2>3, <2>4, <2>5, <2>6, <2>7 DEF Next, Run
<1>3. BInv => BatchOwned
  BY DEF BInv
<1> QED BY <1>1, <1>2, <1>3, Invariance, PTL DEF Spec
=============================================================================
