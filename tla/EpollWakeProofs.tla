-------------------------- MODULE EpollWakeProofs --------------------------
(***************************************************************************)
(* No wake-up is lost: what EPOLLET reports once is still on the ready     *)
(* list or in the batch as long as the program has not acted on it.        *)
(* Proved of EpollLoop for any number of sockets, descriptors and events,  *)
(* whatever references the application keeps.                              *)
(*                                                                         *)
(* PendingReadWakes is not inductive: a read() that finds its interest     *)
(* registered and _hasData unset makes no system call, so the edge it will *)
(* need must already be on its way when no read is pending.  Wakes says so *)
(* of every open socket that has ever asked for input.                     *)
(*                                                                         *)
(* The second part is the listener: the loop with a listener implements    *)
(* the loop of EpollLoop, and no client waits for an event that has been.  *)
(***************************************************************************)
EXTENDS EpollAccept, EpollLoopProofs

USE KernelAssumption, UserAssumption DEF KernelAssumption, UserAssumption

\* The application has not yet been told that s is connected.
Early(s) == usr[s].st \in {"none", "connecting", "failed"}

\* A pending operation, what it asked the kernel for and the self reference.
Waiting(s) ==
  /\ obj[s].isconnect => usr[s].st = "connecting"
  /\ usr[s].st = "connecting" => obj[s].isconnect /\ obj[s].sockptr /\ obj[s].events = {"OUT"}
  /\ Early(s) => ~usr[s].rd
  /\ usr[s].rd => obj[s].sockptr /\ "IN" \in obj[s].events
  /\ usr[s].st = "open" /\ "IN" \in obj[s].events => obj[s].sockptr
  /\ usr[s].st = "hup" => ~obj[s].sockptr
  /\ usr[s].st # "hup" => (obj[s].recvBuf <=> usr[s].rd)

\* s would act on input: a read is pending, or the next one will wait for an event.
Listens(s) ==
  usr[s].rd \/ (usr[s].st = "open" /\ "IN" \in obj[s].events /\ ~obj[s].hasData)

Wakes(s) ==
  obj[s].fd # INVALID =>
    /\ obj[s].sockptr /\ D(s).conn = "down" => Coming(s, "HUP")
    /\ Listens(s) /\ "IN" \in Poll(D(s)) => Coming(s, "IN") \/ Coming(s, "HUP")

\* The batch is empty outside the for loop; a socket that is dialling was
\* reported for OUT, HUP or ERR.
Batched ==
  /\ pc = "main" => batch = {}
  /\ \A e \in batch : Early(e.ptr) => e.ev \cap {"OUT", "HUP"} # {}

WInv == Batched /\ \A s \in Socks : Waiting(s) /\ Wakes(s)

\* Nothing of another object's is taken off the ready list or the batch.
TakesOnly(s) ==
  /\ ready \ {obj[s].fd} \subseteq ready'
  /\ \A e \in batch : e.ptr # s => e \in batch'

\* What a step must establish of the one object it concerns.
Alert(s) == Waiting(s)' /\ Wakes(s)' /\ (Early(s)' => Early(s))

\* A step of s that takes only what is its own keeps everybody awake.
LEMMA WakeLocal ==
  ASSUME IInv, IInv', WInv, NEW s \in Socks, OnlyOf(s), TakesOnly(s), Alert(s),
         batch' \subseteq batch, pc' = "main" => batch' = {}
  PROVE  WInv'
<1>1. ASSUME NEW t \in Socks \ {s}
      PROVE  Waiting(t)' /\ Wakes(t)' /\ (Early(t)' => Early(t))
  <2>1. obj'[t] = obj[t] /\ usr'[t] = usr[t] /\ Waiting(t) /\ Wakes(t)
    BY DEF OnlyOf, WInv
  <2>2. Waiting(t)' /\ (Early(t)' => Early(t))
    BY <2>1 DEF Waiting, Early
  <2>3. CASE obj[t].fd # INVALID
    <3>1. obj[t].fd # obj[s].fd /\ obj[t].fd # obj'[s].fd
      BY <2>1, <2>3 DEF IInv, Linked, D
    <3>2. obj[t].fd \in Fds /\ D(t).conn # "closed"
      BY <2>3 DEF IInv, TypeOK, Object, Linked
    <3>3. desc'[obj[t].fd] = desc[obj[t].fd]
      BY <3>1, <3>2 DEF OnlyOf, D
    <3>4. /\ Coming(t, "IN") => Coming(t, "IN")'
          /\ Coming(t, "HUP") => Coming(t, "HUP")'
      BY <2>1, <3>1 DEF Coming, TakesOnly
    <3>5. Wakes(t)'
      BY <2>1, <3>3, <3>4 DEF Wakes, D, Listens
    <3> QED BY <2>2, <3>5
  <2>4. CASE obj[t].fd = INVALID
    BY <2>1, <2>2, <2>4 DEF Wakes
  <2> QED BY <2>2, <2>3, <2>4
<1>2. Batched'
  <2>1. \A e \in batch' : e \in batch /\ e.ptr \in Socks
    BY DEF IInv, TypeOK, Entry
  <2>2. \A t \in Socks : Early(t)' => Early(t)
    BY <1>1 DEF Alert
  <2> QED BY <2>1, <2>2 DEF Batched, WInv, Early
<1> QED BY <1>1, <1>2 DEF WInv, Alert

\* EPOLL_CTL_ADD and EPOLL_CTL_MOD put a descriptor that is ready on the list.
LEMMA ArmWakes ==
  ASSUME NEW d \in Fds, NEW k \in Descriptor, Arm(d, k), Registered(k)
  PROVE  /\ ready \subseteq ready'
         /\ k.conn = "down" => d \in ready'
         /\ "IN" \in k.mask /\ "IN" \in Poll(k) => d \in ready'
<1>1. k.conn = "down" => "HUP" \in Reported(k)
  BY DEF Reported, Poll, Event
<1>2. "IN" \in k.mask /\ "IN" \in Poll(k) => "IN" \in Reported(k)
  BY DEF Reported
<1> QED BY <1>1, <1>2 DEF Arm

-----------------------------------------------------------------------------
(***************************************************************************)
(* The calls an application makes.                                         *)
(***************************************************************************)
\* connect() and reconnect(): the new registration is that of a fresh socket.
LEMMA DialWakes ==
  ASSUME IInv, IInv', WInv, NEW s \in Socks, Dial(s), usr[s].st \in {"none", "failed"},
         UNCHANGED <<pc, ptr, batch>>
  PROVE  TakesOnly(s) /\ Alert(s)
<1>0. /\ Waiting(s) /\ obj[s] \in Object /\ usr[s] \in User /\ Early(s)
      /\ obj[s].fd = INVALID /\ ~obj[s].sockptr /\ ~usr[s].rd
  BY DEF WInv, IInv, TypeOK, Linked, Waiting, Early
<1>1. PICK d \in Fds : DialFails(s, d) \/ DialStarts(s, d)
  BY DEF Dial
<1>2. CASE DialFails(s, d)
  <2>1. PICK ev : obj' = [obj EXCEPT ![s].events = ev]
    BY <1>2 DEF DialFails
  <2>2. obj'[s] = [obj[s] EXCEPT !.events = ev]
    BY <2>1 DEF IInv, TypeOK
  <2>3. /\ obj'[s].fd = INVALID /\ obj'[s].sockptr = obj[s].sockptr
        /\ obj'[s].isconnect = obj[s].isconnect /\ obj'[s].recvBuf = obj[s].recvBuf
    BY <1>0, <2>2 DEF Object
  <2>4. usr' = usr /\ ready' = ready
    BY <1>2 DEF DialFails
  <2>5. Alert(s)
    BY <1>0, <2>3, <2>4 DEF Alert, Waiting, Wakes, Early
  <2> QED BY <2>4, <2>5 DEF TakesOnly
<1>3. CASE DialStarts(s, d)
  <2> DEFINE k(c) == [Closed EXCEPT !.conn = c, !.ptr = s, !.mask = {"OUT"}]
  <2>1. PICK c \in {"syn", "est"} : Arm(d, k(c))
    BY <1>3 DEF DialStarts
  <2>2. desc'[d] = k(c) /\ ready \subseteq ready'
    BY <2>1 DEF Arm, IInv, TypeOK
  <2>3. desc'[d].conn # "down" /\ "IN" \notin Poll(desc'[d])
    BY <2>2 DEF Closed, Poll
  <2>4. /\ obj'[s] = [obj[s] EXCEPT !.events = {"OUT"}, !.fd = d, !.isconnect = TRUE, !.sockptr = TRUE]
        /\ usr'[s] = [usr[s] EXCEPT !.st = "connecting", !.held = @ /\ KeepsHandles]
    BY <1>3 DEF DialStarts, IInv, TypeOK
  <2>5. /\ obj'[s].fd = d /\ obj'[s].sockptr = TRUE /\ obj'[s].isconnect = TRUE
        /\ obj'[s].events = {"OUT"} /\ obj'[s].recvBuf = obj[s].recvBuf
        /\ usr'[s].st = "connecting" /\ usr'[s].rd = usr[s].rd
    BY <1>0, <2>4 DEF Object, User
  <2>6. Alert(s)
    BY <1>0, <2>3, <2>5 DEF Alert, Waiting, Wakes, Early, D
  <2> QED BY <2>2, <2>6 DEF TakesOnly
<1> QED BY <1>1, <1>2, <1>3

\* recv(): bytes and the end of input clear the read, EAGAIN means that there
\* is nothing.  gone is the entry being dispatched, if any; it has no HUP.
LEMMA RecvWakes ==
  ASSUME IInv, IInv', WInv, NEW s \in Socks, obj[s].fd # INVALID, usr[s].st # "hup", ~Early(s),
         obj[s].sockptr \/ usr[s].st = "open", "IN" \in obj[s].events,
         RecvData(s) \/ RecvEnd(s) \/ RecvAgain(s),
         \A e \in batch : e \notin batch' => e.ptr = s /\ "HUP" \notin e.ev
  PROVE  TakesOnly(s) /\ Alert(s)
<1>0. /\ Waiting(s) /\ Wakes(s) /\ obj[s] \in Object /\ usr[s] \in User
      /\ D(s) \in Descriptor /\ obj[s].fd \in Fds
  BY DEF WInv, IInv, TypeOK, D, Object
<1>1. Coming(s, "HUP") /\ obj'[s].fd = obj[s].fd /\ ready' = ready => Coming(s, "HUP")'
  BY DEF Coming
<1>2. CASE RecvData(s)
  <2>1. /\ obj'[s] = [obj[s] EXCEPT !.hasData = TRUE, !.recvBuf = FALSE]
        /\ usr'[s] = [usr[s] EXCEPT !.rd = FALSE] /\ ready' = ready
    BY <1>2 DEF RecvData, IInv, TypeOK
  <2>2. /\ obj'[s].fd = obj[s].fd /\ obj'[s].sockptr = obj[s].sockptr
        /\ obj'[s].isconnect = obj[s].isconnect /\ obj'[s].events = obj[s].events
        /\ obj'[s].recvBuf = FALSE /\ obj'[s].hasData = TRUE
        /\ usr'[s].st = usr[s].st /\ usr'[s].rd = FALSE
    BY <1>0, <2>1 DEF Object, User
  <2>3. PICK left \in 0 .. D(s).rx - 1 : desc' = [desc EXCEPT ![obj[s].fd].rx = left]
    BY <1>2 DEF RecvData
  <2>4. D(s)'.conn = D(s).conn
    BY <1>0, <2>2, <2>3 DEF D, IInv, TypeOK, Descriptor
  <2>5. Alert(s)
    BY <1>0, <1>1, <2>1, <2>2, <2>4 DEF Alert, Waiting, Wakes, Listens, Early
  <2> QED BY <2>1, <2>5 DEF TakesOnly
<1>3. CASE RecvEnd(s)
  <2>1. /\ obj'[s] = [obj[s] EXCEPT !.hasData = FALSE, !.recvBuf = FALSE]
        /\ usr'[s] = [usr[s] EXCEPT !.rd = FALSE, !.st = IF @ = "open" THEN "eof" ELSE @]
        /\ ready' = ready /\ desc' = desc
    BY <1>3 DEF RecvEnd, kernelVars, IInv, TypeOK
  <2>2. /\ obj'[s].fd = obj[s].fd /\ obj'[s].sockptr = obj[s].sockptr
        /\ obj'[s].isconnect = obj[s].isconnect /\ obj'[s].events = obj[s].events
        /\ obj'[s].recvBuf = FALSE
        /\ usr'[s].st = (IF usr[s].st = "open" THEN "eof" ELSE usr[s].st) /\ usr'[s].rd = FALSE
    BY <1>0, <2>1 DEF Object, User
  <2>3. Alert(s)
    BY <1>0, <1>1, <2>1, <2>2 DEF Alert, Waiting, Wakes, Listens, Early, D
  <2> QED BY <2>1, <2>3 DEF TakesOnly
<1>4. CASE RecvAgain(s)
  <2>1. /\ obj'[s] = [obj[s] EXCEPT !.hasData = TRUE, !.recvBuf = TRUE]
        /\ usr'[s] = [usr[s] EXCEPT !.rd = TRUE]
        /\ ready' = ready /\ desc' = desc
    BY <1>4 DEF RecvAgain, kernelVars, IInv, TypeOK
  <2>2. /\ obj'[s].fd = obj[s].fd /\ obj'[s].sockptr = obj[s].sockptr
        /\ obj'[s].isconnect = obj[s].isconnect /\ obj'[s].events = obj[s].events
        /\ obj'[s].recvBuf = TRUE /\ obj'[s].hasData = TRUE
        /\ usr'[s].st = usr[s].st /\ usr'[s].rd = TRUE
    BY <1>0, <2>1 DEF Object, User
  <2>3. "IN" \notin Poll(D(s)) /\ D(s)'.conn # "down"
    BY <1>4, <2>1, <2>2 DEF RecvAgain, Poll, D
  <2>4. Alert(s)
    BY <1>0, <2>1, <2>2, <2>3 DEF Alert, Waiting, Wakes, Listens, Early, D
  <2> QED BY <2>1, <2>4 DEF TakesOnly
<1> QED BY <1>2, <1>3, <1>4

\* read(): a first read registers, and is told at once what is there already;
\* one that waits relies on the edge Wakes promises it.
LEMMA ReadWakes ==
  ASSUME IInv, IInv', WInv, NEW s \in Socks, Read(s), UNCHANGED <<pc, ptr, batch>>
  PROVE  TakesOnly(s) /\ Alert(s)
<1>0. /\ Waiting(s) /\ Wakes(s) /\ Linked(s) /\ obj[s] \in Object /\ usr[s] \in User
      /\ obj[s].fd \in Fds /\ obj[s].fd # INVALID /\ D(s) \in Descriptor
      /\ usr[s].st = "open" /\ ~Early(s)
  BY DEF WInv, IInv, TypeOK, Object, Read, D, Early
<1>1. CASE ReadRegisters(s)
  <2> DEFINE k == [D(s) EXCEPT !.mask = obj[s].events \cup {"IN"}]
  <2>1. Arm(obj[s].fd, k)
    BY <1>1 DEF ReadRegisters
  <2>2. k \in Descriptor /\ k.ptr = s /\ "IN" \in k.mask
    BY <1>0 DEF Descriptor, Object, Interest, Linked
  <2>3. desc'[obj[s].fd] = k
    BY <1>0, <2>1 DEF Arm, IInv, TypeOK
  <2>4. Registered(k)
    BY <2>2 DEF Registered
  <2> HIDE DEF k
  <2>5. /\ ready \subseteq ready'
        /\ k.conn = "down" => obj[s].fd \in ready'
        /\ "IN" \in Poll(k) => obj[s].fd \in ready'
    BY <1>0, <2>1, <2>2, <2>4, ArmWakes
  <2>6. /\ obj'[s] = [obj[s] EXCEPT !.events = @ \cup {"IN"}, !.sockptr = TRUE, !.recvBuf = TRUE]
        /\ usr'[s] = [usr[s] EXCEPT !.rd = TRUE]
    BY <1>1 DEF ReadRegisters, IInv, TypeOK
  <2>7. /\ obj'[s].fd = obj[s].fd /\ obj'[s].sockptr = TRUE
        /\ obj'[s].isconnect = obj[s].isconnect /\ obj'[s].events = obj[s].events \cup {"IN"}
        /\ obj'[s].recvBuf = TRUE /\ usr'[s].st = "open" /\ usr'[s].rd = TRUE
    BY <1>0, <2>6 DEF Object, User
  <2>8. Alert(s)
    BY <1>0, <2>3, <2>5, <2>7 DEF Alert, Waiting, Wakes, Coming, Early, D
  <2> QED BY <2>5, <2>8 DEF TakesOnly
<1>2. CASE ReadWaits(s)
  <2>1. /\ obj'[s] = [obj[s] EXCEPT !.recvBuf = TRUE]
        /\ usr'[s] = [usr[s] EXCEPT !.rd = TRUE]
        /\ ready' = ready /\ desc' = desc
    BY <1>2 DEF ReadWaits, kernelVars, IInv, TypeOK
  <2>2. /\ obj'[s].fd = obj[s].fd /\ obj'[s].sockptr = obj[s].sockptr
        /\ obj'[s].isconnect = obj[s].isconnect /\ obj'[s].events = obj[s].events
        /\ obj'[s].recvBuf = TRUE /\ usr'[s].st = "open" /\ usr'[s].rd = TRUE
    BY <1>0, <2>1 DEF Object, User
  <2>3. \A b \in Event : Coming(s, b) => Coming(s, b)'
    BY <2>1, <2>2 DEF Coming
  <2>4. Alert(s)
    BY <1>0, <1>2, <2>1, <2>2, <2>3 DEF ReadWaits, Alert, Waiting, Wakes, Listens, Early, D, Event
  <2> QED BY <2>1, <2>4 DEF TakesOnly
<1>3. CASE ReadTries(s)
  BY <1>0, <1>3, RecvWakes DEF ReadTries
<1> QED BY <1>1, <1>2, <1>3 DEF Read

\* write(): registering for OUT re-arms the descriptor as a whole.
LEMMA WriteWakes ==
  ASSUME IInv, IInv', WInv, NEW s \in Socks, Write(s), UNCHANGED <<pc, ptr, batch>>
  PROVE  TakesOnly(s) /\ Alert(s)
<1>0. /\ Waiting(s) /\ Wakes(s) /\ Linked(s) /\ obj[s] \in Object /\ usr[s] \in User
      /\ obj[s].fd \in Fds /\ obj[s].fd # INVALID /\ D(s) \in Descriptor
      /\ usr[s].st = "open" /\ ~Early(s)
  BY DEF WInv, IInv, TypeOK, Object, Write, D, Early
<1>1. CASE WriteSends(s)
  <2>1. PICK f \in BOOLEAN : desc' = [desc EXCEPT ![obj[s].fd].full = f]
    BY <1>1 DEF WriteSends
  <2>2. ready' = ready /\ obj' = obj /\ usr' = usr
    BY <1>1 DEF WriteSends
  <2>3. D(s)'.conn = D(s).conn /\ D(s)'.rx = D(s).rx
    BY <1>0, <2>1, <2>2 DEF D, IInv, TypeOK, Descriptor
  <2>4. "IN" \in Poll(D(s))' => "IN" \in Poll(D(s))
    BY <2>3 DEF Poll, Event
  <2>5. \A b \in Event : Coming(s, b) => Coming(s, b)'
    BY <2>2 DEF Coming
  <2>6. Alert(s)
    BY <1>0, <2>2, <2>3, <2>4, <2>5 DEF Alert, Waiting, Wakes, Listens, Early, Event
  <2> QED BY <2>2, <2>6 DEF TakesOnly
<1>2. CASE WriteWaits(s)
  <2> DEFINE k == [D(s) EXCEPT !.mask = obj[s].events \cup {"OUT"}]
  <2>1. Arm(obj[s].fd, k)
    BY <1>2 DEF WriteWaits
  <2>2. k \in Descriptor /\ k.ptr = s /\ k.mask = obj[s].events \cup {"OUT"}
    BY <1>0 DEF Descriptor, Object, Interest, Linked
  <2>3. desc'[obj[s].fd] = k
    BY <1>0, <2>1 DEF Arm, IInv, TypeOK
  <2>4. Registered(k)
    BY <2>2 DEF Registered
  <2> HIDE DEF k
  <2>5. /\ ready \subseteq ready'
        /\ k.conn = "down" => obj[s].fd \in ready'
        /\ "IN" \in k.mask /\ "IN" \in Poll(k) => obj[s].fd \in ready'
    BY <1>0, <2>1, <2>2, <2>4, ArmWakes
  <2>6. /\ obj'[s] = [obj[s] EXCEPT !.events = @ \cup {"OUT"}, !.sockptr = TRUE]
        /\ usr'[s] = [usr[s] EXCEPT !.wr = TRUE]
    BY <1>2 DEF WriteWaits, IInv, TypeOK
  <2>7. /\ obj'[s].fd = obj[s].fd /\ obj'[s].sockptr = TRUE
        /\ obj'[s].isconnect = obj[s].isconnect /\ obj'[s].events = obj[s].events \cup {"OUT"}
        /\ obj'[s].recvBuf = obj[s].recvBuf /\ usr'[s].st = "open" /\ usr'[s].rd = usr[s].rd
    BY <1>0, <2>6 DEF Object, User
  <2>8. Waiting(s)' /\ (Listens(s)' => "IN" \in k.mask)
    BY <1>0, <2>2, <2>7 DEF Waiting, Listens, Early
  <2>9. Alert(s)
    BY <1>0, <2>3, <2>5, <2>7, <2>8 DEF Alert, Wakes, Coming, Early, D
  <2> QED BY <2>5, <2>9 DEF TakesOnly
<1> QED BY <1>1, <1>2 DEF Write

\* close(): shutdown() wakes the registration.
LEMMA CloseWakes ==
  ASSUME IInv, IInv', WInv, NEW s \in Socks, Close(s), UNCHANGED <<pc, ptr, batch>>
  PROVE  TakesOnly(s) /\ Alert(s)
<1>0. /\ Waiting(s) /\ Wakes(s) /\ obj[s] \in Object /\ usr[s] \in User
  BY DEF WInv, IInv, TypeOK
<1>1. /\ obj'[s] = [obj[s] EXCEPT !.close = TRUE]
      /\ usr'[s] = [usr[s] EXCEPT !.st = IF @ \in {"open", "eof"} THEN "closed" ELSE @]
  BY DEF Close, IInv, TypeOK
<1>2. /\ obj'[s].fd = obj[s].fd /\ obj'[s].sockptr = obj[s].sockptr
      /\ obj'[s].isconnect = obj[s].isconnect /\ obj'[s].events = obj[s].events
      /\ obj'[s].recvBuf = obj[s].recvBuf /\ obj'[s].hasData = obj[s].hasData
      /\ usr'[s].st = (IF usr[s].st \in {"open", "eof"} THEN "closed" ELSE usr[s].st)
      /\ usr'[s].rd = usr[s].rd
  BY <1>0, <1>1 DEF Object, User
<1>3. Waiting(s)' /\ (Early(s)' => Early(s)) /\ (Listens(s)' => Listens(s))
  BY <1>0, <1>2 DEF Waiting, Listens, Early
<1>4. CASE obj[s].close \/ obj[s].fd = INVALID
  <2>1. ready' = ready /\ desc' = desc
    BY <1>4 DEF Close, kernelVars
  <2>2. \A b \in Event : Coming(s, b) => Coming(s, b)'
    BY <1>2, <2>1 DEF Coming
  <2> QED BY <1>0, <1>2, <1>3, <2>1, <2>2 DEF TakesOnly, Alert, Wakes, D, Event
<1>5. CASE ~(obj[s].close \/ obj[s].fd = INVALID)
  <2>1. ready' = ready \cup {obj[s].fd}
    BY <1>5 DEF Close, Changes
  <2> QED BY <1>2, <1>3, <2>1 DEF TakesOnly, Alert, Wakes, Coming
<1> QED BY <1>4, <1>5

-----------------------------------------------------------------------------
(***************************************************************************)
(* Objects and shared_ptrs.                                                *)
(***************************************************************************)
\* A shared_ptr goes away: the object stays as it is, or loses its descriptor.
LEMMA ReleaseWakes ==
  ASSUME IInv, IInv', WInv, NEW s \in Socks, NEW others, Release(s, others),
         obj[s].sockptr => others, usr'[s].st = usr[s].st, usr'[s].rd = usr[s].rd, batch' = batch
  PROVE  TakesOnly(s) /\ Alert(s)
<1>0. /\ Waiting(s) /\ Wakes(s) /\ obj[s] \in Object
  BY DEF WInv, IInv, TypeOK
<1>1. CASE others
  <2>1. UNCHANGED <<desc, ready, obj>>
    BY <1>1 DEF Release
  <2>2. \A b \in Event : Coming(s, b) => Coming(s, b)'
    BY <2>1 DEF Coming
  <2> QED BY <1>0, <2>1, <2>2 DEF TakesOnly, Alert, Waiting, Wakes, Listens, Early, D, Event
<1>2. CASE ~others
  <2>1. obj'[s] = [obj[s] EXCEPT !.life = "freed", !.fd = INVALID]
    BY <1>2 DEF Release, Destroy, IInv, TypeOK
  <2>2. /\ obj'[s].fd = INVALID /\ obj'[s].sockptr = obj[s].sockptr
        /\ obj'[s].isconnect = obj[s].isconnect /\ obj'[s].events = obj[s].events
        /\ obj'[s].recvBuf = obj[s].recvBuf
    BY <1>0, <2>1 DEF Object
  <2>3. ready \ {obj[s].fd} \subseteq ready'
    BY <1>2 DEF Release, Destroy, FinalClose, CloseFd, kernelVars
  <2> QED BY <1>0, <2>2, <2>3 DEF TakesOnly, Alert, Waiting, Wakes, Early
<1> QED BY <1>1, <1>2

\* make_shared, and the application keeping or dropping a shared_ptr.
LEMMA HandleWakes ==
  ASSUME IInv, IInv', WInv, NEW s \in Socks,
         MakeShared(s) \/ KeepHandle(s) \/ DropHandle(s), UNCHANGED <<pc, ptr, batch>>
  PROVE  TakesOnly(s) /\ Alert(s)
<1>0. /\ Waiting(s) /\ Wakes(s) /\ obj[s] \in Object /\ usr[s] \in User
  BY DEF WInv, IInv, TypeOK
<1>1. \E h \in BOOLEAN : usr'[s] = [usr[s] EXCEPT !.held = h]
  BY DEF MakeShared, KeepHandle, DropHandle, IInv, TypeOK
<1>2. usr'[s].st = usr[s].st /\ usr'[s].rd = usr[s].rd
  BY <1>0, <1>1 DEF User
<1>3. CASE MakeShared(s)
  <2>1. obj'[s] = [obj[s] EXCEPT !.life = "alive"] /\ desc' = desc /\ ready' = ready
    BY <1>3 DEF MakeShared, kernelVars, IInv, TypeOK
  <2>2. /\ obj'[s].fd = obj[s].fd /\ obj'[s].sockptr = obj[s].sockptr
        /\ obj'[s].isconnect = obj[s].isconnect /\ obj'[s].events = obj[s].events
        /\ obj'[s].recvBuf = obj[s].recvBuf /\ obj'[s].hasData = obj[s].hasData
    BY <1>0, <2>1 DEF Object
  <2>3. \A b \in Event : Coming(s, b) => Coming(s, b)'
    BY <2>1, <2>2 DEF Coming
  <2> QED BY <1>0, <1>2, <2>1, <2>2, <2>3 DEF TakesOnly, Alert, Waiting, Wakes, Listens, Early, D, Event
<1>4. CASE KeepHandle(s)
  <2>1. UNCHANGED <<desc, ready, obj>>
    BY <1>4 DEF KeepHandle
  <2>2. \A b \in Event : Coming(s, b) => Coming(s, b)'
    BY <2>1 DEF Coming
  <2> QED BY <1>0, <1>2, <2>1, <2>2 DEF TakesOnly, Alert, Waiting, Wakes, Listens, Early, D, Event
<1>5. CASE DropHandle(s)
  BY <1>2, <1>5, ReleaseWakes DEF DropHandle
<1> QED BY <1>3, <1>4, <1>5

-----------------------------------------------------------------------------
(***************************************************************************)
(* NetLoop::run.                                                           *)
(***************************************************************************)
\* An event without a self reference is dropped: nobody is waiting for it.
LEMMA SkipWakes ==
  ASSUME IInv, WInv, NEW e \in batch, batch' = batch \ {e}, pc = "dispatch", SkipEvent(e.ptr)
  PROVE  WInv'
<1>0. UNCHANGED <<desc, ready, obj, usr, pc, ptr>>
  BY DEF SkipEvent
<1>1. \A s \in Socks : Waiting(s)'
  BY <1>0 DEF WInv, Waiting, Early
<1>2. ASSUME NEW s \in Socks
      PROVE  Wakes(s)'
  <2>1. CASE s = e.ptr
    BY <1>0, <2>1 DEF SkipEvent, WInv, Wakes, Waiting, Listens
  <2>2. CASE s # e.ptr
    <3>1. \A b \in Event : Coming(s, b) => Coming(s, b)'
      BY <1>0, <2>2 DEF Coming
    <3> QED BY <1>0, <3>1 DEF WInv, Wakes, Listens, D, Event
  <2> QED BY <2>1, <2>2
<1>3. Batched'
  BY <1>0 DEF WInv, Batched, Early
<1> QED BY <1>1, <1>2, <1>3 DEF WInv

\* The event of a connecting socket: failure closes the descriptor, success
\* re-arms it.
LEMMA ConnectEventWakes ==
  ASSUME IInv, IInv', WInv, NEW s \in Socks, NEW ev, obj[s].sockptr,
         ConnectFails(s, ev) \/ ConnectSucceeds(s, ev),
         \A e \in batch : e \notin batch' => e.ptr = s
  PROVE  TakesOnly(s) /\ Alert(s)
<1>0. /\ Waiting(s) /\ Wakes(s) /\ Linked(s) /\ obj[s] \in Object /\ usr[s] \in User
      /\ obj[s].fd \in Fds /\ obj[s].fd # INVALID /\ D(s) \in Descriptor
      /\ obj[s].isconnect /\ usr[s].st = "connecting" /\ Early(s)
      /\ ~usr[s].rd /\ obj[s].events = {"OUT"}
  BY DEF WInv, IInv, TypeOK, Object, D, Linked, Waiting, Early, ConnectFails, ConnectSucceeds
<1>1. CASE ConnectFails(s, ev)
  <2>1. /\ obj'[s] = [obj[s] EXCEPT !.isconnect = FALSE, !.fd = INVALID, !.sockptr = FALSE]
        /\ usr'[s] = [usr[s] EXCEPT !.st = "failed"]
    BY <1>1 DEF ConnectFails, IInv, TypeOK
  <2>2. /\ obj'[s].fd = INVALID /\ obj'[s].sockptr = FALSE /\ obj'[s].isconnect = FALSE
        /\ obj'[s].recvBuf = obj[s].recvBuf
        /\ usr'[s].st = "failed" /\ usr'[s].rd = usr[s].rd
    BY <1>0, <2>1 DEF Object, User
  <2>3. ready \ {obj[s].fd} \subseteq ready'
    BY <1>1 DEF ConnectFails, FinalClose, CloseFd, kernelVars
  <2> QED BY <1>0, <2>2, <2>3 DEF TakesOnly, Alert, Waiting, Wakes, Early
<1>2. CASE ConnectSucceeds(s, ev)
  <2> DEFINE k == [D(s) EXCEPT !.mask = obj[s].events \ {"OUT"}]
  <2>1. Arm(obj[s].fd, k)
    BY <1>2 DEF ConnectSucceeds
  <2>2. k \in Descriptor /\ k.ptr = s
    BY <1>0 DEF Descriptor, Object, Interest, Linked
  <2>3. desc'[obj[s].fd] = k
    BY <1>0, <2>1 DEF Arm, IInv, TypeOK
  <2>4. Registered(k)
    BY <2>2 DEF Registered
  <2> HIDE DEF k
  <2>5. ready \subseteq ready' /\ (k.conn = "down" => obj[s].fd \in ready')
    BY <1>0, <2>1, <2>2, <2>4, ArmWakes
  <2>6. /\ obj'[s] = [obj[s] EXCEPT !.isconnect = FALSE, !.events = @ \ {"OUT"}]
        /\ usr'[s] = [usr[s] EXCEPT !.st = "open"]
    BY <1>2 DEF ConnectSucceeds, IInv, TypeOK
  <2>7. /\ obj'[s].fd = obj[s].fd /\ obj'[s].sockptr = obj[s].sockptr
        /\ obj'[s].isconnect = FALSE /\ obj'[s].events = {}
        /\ obj'[s].recvBuf = obj[s].recvBuf /\ usr'[s].st = "open" /\ usr'[s].rd = usr[s].rd
    BY <1>0, <2>6 DEF Object, User
  <2>8. Alert(s)
    BY <1>0, <2>3, <2>5, <2>7 DEF Alert, Waiting, Wakes, Listens, Coming, Early, D
  <2> QED BY <2>5, <2>8 DEF TakesOnly
<1> QED BY <1>1, <1>2

\* The hang-up: the object is no longer kept and no read is pending.
LEMMA HangsUpWakes ==
  ASSUME IInv, IInv', WInv, NEW s \in Socks, NEW ev, obj[s].sockptr, HangsUp(s, ev),
         \A e \in batch : e \notin batch' => e.ptr = s
  PROVE  TakesOnly(s) /\ Alert(s)
<1>0. Waiting(s) /\ obj[s] \in Object /\ usr[s] \in User /\ ~obj[s].isconnect
  BY DEF WInv, IInv, TypeOK, HangsUp
<1>1. /\ obj'[s] = [obj[s] EXCEPT !.sockptr = FALSE]
      /\ usr'[s] = [usr[s] EXCEPT !.rd = FALSE, !.st = "hup"]
      /\ ready' = ready
  BY DEF HangsUp, kernelVars, IInv, TypeOK
<1>2. /\ obj'[s].sockptr = FALSE /\ obj'[s].isconnect = FALSE
      /\ usr'[s].st = "hup" /\ usr'[s].rd = FALSE
  BY <1>0, <1>1 DEF Object, User
<1> QED BY <1>1, <1>2 DEF TakesOnly, Alert, Waiting, Wakes, Listens, Early

\* IN without a read: the edge is remembered in _hasData.
LEMMA DataNotedWakes ==
  ASSUME IInv, IInv', WInv, NEW s \in Socks, NEW ev, obj[s].sockptr, DataNoted(s, ev),
         \A e \in batch : e \notin batch' => e.ptr = s /\ "HUP" \notin e.ev
  PROVE  TakesOnly(s) /\ Alert(s)
<1>0. Waiting(s) /\ Wakes(s) /\ obj[s] \in Object /\ ~obj[s].recvBuf /\ ~usr[s].rd
  BY DEF WInv, IInv, TypeOK, DataNoted, Waiting
<1>1. obj'[s] = [obj[s] EXCEPT !.hasData = TRUE] /\ UNCHANGED <<desc, ready, usr>>
  BY DEF DataNoted, IInv, TypeOK
<1>2. /\ obj'[s].fd = obj[s].fd /\ obj'[s].sockptr = obj[s].sockptr
      /\ obj'[s].isconnect = obj[s].isconnect /\ obj'[s].events = obj[s].events
      /\ obj'[s].recvBuf = obj[s].recvBuf /\ obj'[s].hasData = TRUE
  BY <1>0, <1>1 DEF Object
<1>3. Coming(s, "HUP") => Coming(s, "HUP")'
  BY <1>1, <1>2 DEF Coming
<1> QED BY <1>0, <1>1, <1>2, <1>3 DEF TakesOnly, Alert, Waiting, Wakes, Listens, Early, D

\* OUT: onWrite re-arms the descriptor, EAGAIN changes nothing.
LEMMA SendWakes ==
  ASSUME IInv, IInv', WInv, NEW s \in Socks, NEW ev, obj[s].sockptr,
         SendDone(s, ev) \/ SendAgain(s, ev),
         \A e \in batch : e \notin batch' => e.ptr = s /\ e.ev = {"OUT"}
  PROVE  TakesOnly(s) /\ Alert(s)
<1>0. /\ Waiting(s) /\ Wakes(s) /\ Linked(s) /\ obj[s] \in Object /\ usr[s] \in User
      /\ obj[s].fd \in Fds /\ obj[s].fd # INVALID /\ D(s) \in Descriptor
      /\ ~obj[s].isconnect /\ ~Early(s)
  <2>1. /\ Waiting(s) /\ Wakes(s) /\ Linked(s) /\ obj[s] \in Object /\ usr[s] \in User
    BY DEF WInv, IInv, TypeOK
  <2>2. obj[s].fd # INVALID /\ obj[s].fd \in Fds
    BY <2>1 DEF Linked, Object
  <2>3. D(s) \in Descriptor
    BY <2>2 DEF IInv, TypeOK, D
  <2>4. ~obj[s].isconnect
    BY DEF SendDone, SendAgain, Writable
  <2> QED BY <2>1, <2>2, <2>3, <2>4 DEF Linked, Waiting, Early
<1>1. CASE SendDone(s, ev)
  <2> DEFINE k(f) == [D(s) EXCEPT !.full = f, !.mask = obj[s].events \ {"OUT"}]
  <2>1. PICK f \in IF SendTakesBytes(s) THEN BOOLEAN ELSE {D(s).full} : Arm(obj[s].fd, k(f))
    BY <1>1 DEF SendDone
  <2>2. f \in BOOLEAN
    BY <1>0 DEF Descriptor
  <2>3. k(f) \in Descriptor /\ k(f).ptr = s /\ k(f).mask = obj[s].events \ {"OUT"}
    BY <1>0, <2>2 DEF Descriptor, Object, Interest, Linked
  <2>4. desc'[obj[s].fd] = k(f)
    BY <1>0, <2>1 DEF Arm, IInv, TypeOK
  <2>5. Registered(k(f))
    BY <2>3 DEF Registered
  <2> HIDE DEF k
  <2>6. /\ ready \subseteq ready'
        /\ k(f).conn = "down" => obj[s].fd \in ready'
        /\ "IN" \in k(f).mask /\ "IN" \in Poll(k(f)) => obj[s].fd \in ready'
    BY <1>0, <2>1, <2>3, <2>5, ArmWakes
  <2>7. /\ obj'[s] = [obj[s] EXCEPT !.events = @ \ {"OUT"}]
        /\ usr'[s] = [usr[s] EXCEPT !.wr = FALSE]
    BY <1>1 DEF SendDone, IInv, TypeOK
  <2>8. /\ obj'[s].fd = obj[s].fd /\ obj'[s].sockptr = obj[s].sockptr
        /\ obj'[s].isconnect = obj[s].isconnect /\ obj'[s].events = obj[s].events \ {"OUT"}
        /\ obj'[s].recvBuf = obj[s].recvBuf
        /\ usr'[s].st = usr[s].st /\ usr'[s].rd = usr[s].rd
    BY <1>0, <2>7 DEF Object, User
  <2>9. /\ Waiting(s)' /\ (Early(s)' => Early(s))
        /\ Listens(s)' => "IN" \in k(f).mask
    BY <1>0, <2>3, <2>8 DEF Waiting, Listens, Early
  <2>10. Alert(s)
    BY <1>0, <2>4, <2>6, <2>8, <2>9 DEF Alert, Wakes, Coming, D
  <2> QED BY <2>6, <2>10 DEF TakesOnly
<1>2. CASE SendAgain(s, ev)
  <2>1. UNCHANGED <<desc, ready, obj, usr>>
    BY <1>2 DEF SendAgain
  <2>2. \A b \in {"IN", "HUP"} : Coming(s, b) => Coming(s, b)'
    BY <2>1 DEF Coming
  <2> QED BY <1>0, <2>1, <2>2 DEF TakesOnly, Alert, Waiting, Wakes, Listens, Early, D
<1> QED BY <1>1, <1>2

\* onEpollEv as a whole.
LEMMA HandlerWakes ==
  ASSUME IInv, IInv', WInv, pc = "dispatch", NEW e \in batch, batch' = batch \ {e},
         NEW s \in Socks, s = e.ptr, RunHandler(s, e.ev)
  PROVE  TakesOnly(s) /\ Alert(s)
<1>0. /\ Waiting(s) /\ Linked(s) /\ obj[s].sockptr /\ obj[s].fd # INVALID
      /\ \A f \in batch : f \notin batch' => f = e
  BY DEF WInv, IInv, Linked, RunHandler
<1>1. CASE ConnectFails(s, e.ev) \/ ConnectSucceeds(s, e.ev)
  BY <1>0, <1>1, ConnectEventWakes
<1>2. CASE HangsUp(s, e.ev)
  BY <1>0, <1>2, HangsUpWakes
<1>3. CASE Readable(s, e.ev) /\ obj[s].recvBuf /\ (RecvData(s) \/ RecvEnd(s) \/ RecvAgain(s))
  <2>1. "HUP" \notin e.ev /\ ~obj[s].isconnect
    BY <1>3 DEF Readable
  <2>2. usr[s].st # "hup" /\ usr[s].rd /\ "IN" \in obj[s].events /\ ~Early(s)
    BY <1>0, <1>3, <2>1 DEF Waiting, Early, Linked
  <2> QED BY <1>0, <1>3, <2>1, <2>2, RecvWakes
<1>4. CASE DataNoted(s, e.ev)
  BY <1>0, <1>4, DataNotedWakes DEF DataNoted, Readable
<1>5. CASE SendDone(s, e.ev) \/ SendAgain(s, e.ev)
  BY <1>0, <1>5, SendWakes DEF SendDone, SendAgain, Writable
<1> QED BY <1>1, <1>2, <1>3, <1>4, <1>5 DEF RunHandler, EventCalls, EventSilent

\* onEpollAccept: a fresh connection asks for nothing yet.
LEMMA AcceptedWakes ==
  ASSUME IInv, IInv', WInv, NEW s \in Socks, Accepted(s)
  PROVE  TakesOnly(s) /\ Alert(s)
<1>0. /\ Waiting(s) /\ obj[s] \in Object /\ usr[s] \in User /\ obj[s].fd = INVALID
      /\ ~obj[s].sockptr /\ ~usr[s].rd /\ ~obj[s].isconnect /\ ~obj[s].recvBuf /\ Early(s)
      /\ batch' = batch
  BY DEF WInv, IInv, TypeOK, Linked, Waiting, Early, Accepted
<1>1. ASSUME NEW d \in Fds, AddEpoll(s, d)
      PROVE  TakesOnly(s) /\ Alert(s)
  <2>1. usr'[s] = [usr[s] EXCEPT !.st = "open", !.held = FALSE]
    BY <1>1 DEF AddEpoll, IInv, TypeOK
  <2>2. usr'[s].st = "open" /\ usr'[s].rd = FALSE
    BY <1>0, <2>1 DEF User
  <2>3. \/ obj'[s] = [obj[s] EXCEPT !.events = {}, !.fd = d]
        \/ obj'[s] = [obj[s] EXCEPT !.events = {}]
    BY <1>1 DEF AddEpoll, IInv, TypeOK
  <2>4. /\ obj'[s].events = {} /\ obj'[s].sockptr = FALSE /\ obj'[s].isconnect = FALSE
        /\ obj'[s].recvBuf = FALSE
    BY <1>0, <2>3 DEF Object
  <2>5. ready \subseteq ready'
    BY <1>1 DEF AddEpoll, Arm
  <2> QED BY <1>0, <2>2, <2>4, <2>5 DEF TakesOnly, Alert, Waiting, Wakes, Listens, Early
<1>2. CASE usr' = [usr EXCEPT ![s].held = FALSE] /\ UNCHANGED <<desc, ready, obj>>
  <2>1. usr'[s].st = usr[s].st /\ usr'[s].rd = usr[s].rd
    BY <1>0, <1>2 DEF IInv, TypeOK, User
  <2> QED BY <1>0, <1>2, <2>1 DEF TakesOnly, Alert, Waiting, Wakes, Early
<1> QED BY <1>1, <1>2 DEF Accepted

\* epoll_wait: what leaves the ready list is in the batch, with the bits that
\* are true of it now.
LEMMA WaitWakes == IInv /\ WInv /\ Wait => WInv'
<1> SUFFICES ASSUME IInv, WInv, Wait PROVE WInv'
  OBVIOUS
<1>0. batch = {} /\ UNCHANGED <<desc, obj, usr>>
  BY DEF Wait, WInv, Batched
<1>1. PICK W \in SUBSET ready :
        /\ batch' = {[fd |-> d, ptr |-> desc[d].ptr, ev |-> Reported(desc[d])] :
                       d \in {e \in W : Reported(desc[e]) # {}}}
        /\ ready' = ready \ W
  BY DEF Wait
<1>2. ASSUME NEW s \in Socks, obj[s].fd # INVALID, NEW b \in Reported(D(s)), obj[s].fd \in ready
      PROVE  Coming(s, b)'
  <2>1. CASE obj[s].fd \in W
    <3> DEFINE e == [fd |-> obj[s].fd, ptr |-> D(s).ptr, ev |-> Reported(D(s))]
    <3>1. e \in batch'
      BY <1>1, <1>2, <2>1 DEF D
    <3>2. e.ptr = s /\ b \in e.ev
      BY <1>2 DEF IInv, Linked
    <3> QED BY <3>1, <3>2 DEF Coming
  <2>2. CASE obj[s].fd \notin W
    BY <1>0, <1>1, <1>2, <2>2 DEF Coming
  <2> QED BY <2>1, <2>2
<1>3. ASSUME NEW s \in Socks
      PROVE  Waiting(s)' /\ Wakes(s)'
  <2>0. Waiting(s) /\ Wakes(s) /\ Linked(s)
    BY DEF WInv, IInv
  <2>1. Waiting(s)'
    BY <1>0, <2>0 DEF Waiting, Early
  <2>2. CASE obj[s].fd # INVALID
    <3>1. obj[s].fd \in Fds /\ D(s).ptr = s /\ D(s).mask = obj[s].events
      BY <2>0, <2>2 DEF Linked, IInv, TypeOK, Object
    <3>2. Registered(D(s))
      BY <3>1 DEF Registered
    <3>3. D(s).conn = "down" => "HUP" \in Reported(D(s))
      BY <3>2 DEF Reported, Poll, Event
    <3>4. "IN" \in obj[s].events /\ "IN" \in Poll(D(s)) => "IN" \in Reported(D(s))
      BY <3>1, <3>2 DEF Reported
    <3>5. Listens(s) => "IN" \in obj[s].events
      BY <2>0 DEF Listens, Waiting
    <3>6. \A b \in {"IN", "HUP"} : Coming(s, b) => obj[s].fd \in ready
      BY <1>0 DEF Coming
    <3>7. obj[s].sockptr /\ D(s).conn = "down" => Coming(s, "HUP")'
      BY <1>2, <2>0, <2>2, <3>3, <3>6 DEF Wakes
    <3>8. Listens(s) /\ "IN" \in Poll(D(s)) => Coming(s, "IN")'
      BY <1>2, <2>0, <2>2, <3>4, <3>5, <3>6 DEF Wakes
    <3>9. Wakes(s)'
      BY <1>0, <3>7, <3>8 DEF Wakes, Listens, D
    <3> QED BY <2>1, <3>9
  <2>3. CASE obj[s].fd = INVALID
    BY <1>0, <2>1, <2>3 DEF Wakes
  <2> QED BY <2>2, <2>3
<1>4. ASSUME NEW e \in batch', Early(e.ptr)'
      PROVE  e.ev \cap {"OUT", "HUP"} # {}
  <2>1. PICK d \in ready : /\ Reported(desc[d]) # {}
                           /\ e = [fd |-> d, ptr |-> desc[d].ptr, ev |-> Reported(desc[d])]
    BY <1>1
  <2>2. d \in Fds /\ desc[d] \in Descriptor /\ Registered(desc[d])
    BY <2>1 DEF Reported, IInv, TypeOK
  <2>3. PICK s \in Socks : s = e.ptr
    BY <2>1, <2>2 DEF Registered, Descriptor
  <2>4. obj[s].fd = d /\ d # INVALID
    BY <2>1, <2>2, <2>3 DEF IInv, Registry, INVALID
  <2>5. usr[s].st = "connecting"
    BY <1>0, <1>4, <2>3, <2>4 DEF IInv, Linked, Early
  <2>6. desc[d].mask = {"OUT"}
    BY <2>4, <2>5 DEF IInv, Linked, WInv, Waiting, D
  <2> QED BY <2>1, <2>6 DEF Reported
<1> QED BY <1>3, <1>4 DEF WInv, Batched, Wait

\* The network: input and a broken connection wake who asked for them.
LEMMA NetworkWakes == IInv /\ WInv /\ Environment => WInv'
<1> SUFFICES ASSUME IInv, WInv, Environment PROVE WInv'
  OBVIOUS
<1>0. UNCHANGED <<obj, usr, pc, ptr, batch>> /\ desc \in [Fds -> Descriptor]
  BY DEF Environment, IInv, TypeOK
<1>1. PICK d \in Fds : Network(d)
  BY DEF Environment
<1>2. ready \subseteq ready' /\ \A e \in Fds \ {d} : desc'[e] = desc[e]
  BY <1>0, <1>1 DEF Network, Establish, Refuse, PeerSends, PeerDrains, PeerCloses, PeerResets, Changes
<1>3. \/ d \in ready'
      \/ /\ desc'[d].conn = desc[d].conn
         /\ desc'[d].rx = desc[d].rx
      \/ "IN" \notin desc[d].mask /\ desc'[d].conn = desc[d].conn
  <2>1. CASE PeerSends(d)
    BY <1>0, <2>1 DEF PeerSends, Changes, Descriptor
  <2>2. CASE PeerDrains(d)
    BY <1>0, <2>2 DEF PeerDrains, Changes, Descriptor
  <2> QED BY <1>1, <2>1, <2>2 DEF Network, Establish, Refuse, PeerCloses, PeerResets, Changes
<1>4. ASSUME NEW s \in Socks
      PROVE  Waiting(s)' /\ Wakes(s)'
  <2>0. Waiting(s) /\ Wakes(s) /\ Linked(s)
    BY DEF WInv, IInv
  <2>1. Waiting(s)' /\ (Listens(s)' <=> Listens(s))
    BY <1>0, <2>0 DEF Waiting, Early, Listens
  <2>2. Listens(s) => "IN" \in obj[s].events
    BY <2>0 DEF Listens, Waiting
  <2>3. \A b \in {"IN", "HUP"} : Coming(s, b) => Coming(s, b)'
    BY <1>0, <1>2 DEF Coming
  <2>4. CASE obj[s].fd = d /\ d \in ready'
    BY <1>0, <2>1, <2>4 DEF Wakes, Coming
  <2>5. CASE obj[s].fd = d /\ desc'[d].conn = desc[d].conn /\ desc'[d].rx = desc[d].rx
    <3>1. "IN" \in Poll(desc'[d]) => "IN" \in Poll(desc[d])
      BY <2>5 DEF Poll, Event
    <3> QED BY <1>0, <2>0, <2>1, <2>3, <2>5, <3>1 DEF Wakes, D
  <2>6. CASE obj[s].fd = d /\ "IN" \notin desc[d].mask /\ desc'[d].conn = desc[d].conn
    <3>1. d # INVALID => ~Listens(s)
      BY <2>0, <2>2, <2>6 DEF Linked, D
    <3> QED BY <1>0, <2>0, <2>1, <2>3, <2>6, <3>1 DEF Wakes, D
  <2>7. CASE obj[s].fd # d
    <3>1. obj[s].fd # INVALID => D(s)' = D(s)
      BY <1>0, <1>2, <2>7 DEF D, IInv, TypeOK, Object
    <3> QED BY <1>0, <2>0, <2>1, <2>3, <3>1 DEF Wakes
  <2> QED BY <1>3, <2>4, <2>5, <2>6, <2>7
<1> QED BY <1>0, <1>4 DEF WInv, Batched, Early

\* Initially nothing is pending.
LEMMA InitWakes == Init => WInv
  BY DEF Init, SocketInit, NewObject, NewUser, WInv, Batched, Waiting, Wakes, Early

\* Every step preserves the invariant.
LEMMA StepWakes == IInv /\ IInv' /\ WInv /\ [Next]_vars => WInv'
<1> SUFFICES ASSUME IInv, IInv', WInv, [Next]_vars PROVE WInv'
  OBVIOUS
<1>1. CASE Wait
  BY <1>1, WaitWakes
<1>2. CASE Dispatch
  <2>1. PICK e \in batch : /\ batch' = batch \ {e}
                           /\ SkipEvent(e.ptr) \/ RunHandler(e.ptr, e.ev)
    BY <1>2 DEF Dispatch
  <2>2. PICK s \in Socks : s = e.ptr
    BY DEF IInv, TypeOK, Entry
  <2>3. CASE SkipEvent(e.ptr)
    BY <1>2, <2>1, <2>3, SkipWakes DEF Dispatch
  <2>4. CASE RunHandler(s, e.ev)
    <3>1. OnlyOf(s)
      BY <1>2, <2>1, <2>4, RunHandlerInv DEF Dispatch
    <3>2. TakesOnly(s) /\ Alert(s)
      BY <1>2, <2>1, <2>2, <2>4, HandlerWakes DEF Dispatch
    <3>3. pc' # "main" /\ batch' \subseteq batch
      BY <1>2, <2>1, <2>4 DEF RunHandler, Dispatch
    <3> QED BY <3>1, <3>2, <3>3, WakeLocal
  <2> QED BY <2>1, <2>2, <2>3, <2>4
<1>3. ASSUME NEW s \in Socks, Accepted(s) PROVE WInv'
  BY <1>3, AcceptedInv, AcceptedWakes, WakeLocal DEF Accepted
<1>4. CASE Return
  <2>1. PICK s \in Socks : s = ptr
    BY <1>4 DEF Return, IInv, CallbackPtr
  <2> DEFINE others == usr[s].held \/ obj[s].sockptr
  <2>2. /\ Release(s, others) /\ usr' = usr /\ batch' = batch /\ pc' # "main"
        /\ obj[s].sockptr => others
    BY <1>4, <2>1 DEF Return
  <2> HIDE DEF others
  <2>3. OnlyOf(s) /\ TakesOnly(s) /\ Alert(s)
    BY <1>4, <2>1, <2>2, ReturnInv, ReleaseWakes
  <2> QED BY <2>2, <2>3, WakeLocal
<1>5. CASE EndRun \/ UNCHANGED vars
  <2>1. UNCHANGED <<desc, ready, obj, usr, batch>> /\ (pc' = "main" => batch = {})
    BY <1>5 DEF EndRun, vars, WInv, Batched
  <2>2. \A s \in Socks : \A b \in {"IN", "HUP"} : Coming(s, b) => Coming(s, b)'
    BY <2>1 DEF Coming
  <2> QED BY <2>1, <2>2 DEF WInv, Batched, Waiting, Wakes, Listens, Early, D
<1>6. CASE Application
  <2>1. PICK s \in Socks : MakeShared(s) \/ Call(s) \/ KeepHandle(s) \/ DropHandle(s)
    BY <1>6 DEF Application
  <2>2. UNCHANGED <<pc, ptr, batch>> /\ (pc' = "main" => batch' = {})
    BY <1>6 DEF Application, WInv, Batched
  <2>3. CASE Call(s)
    <3>1. TakesOnly(s) /\ Alert(s)
      BY <2>2, <2>3, DialWakes, ReadWakes, WriteWakes, CloseWakes DEF Call, Connect, Reconnect
    <3> QED BY <2>2, <2>3, <3>1, CallInv, WakeLocal
  <2>4. CASE MakeShared(s) \/ KeepHandle(s) \/ DropHandle(s)
    BY <2>2, <2>4, HandleInv, HandleWakes, WakeLocal
  <2> QED BY <2>1, <2>3, <2>4
<1>7. CASE Environment
  BY <1>7, NetworkWakes
<1> QED BY <1>1, <1>2, <1>3, <1>4, <1>5, <1>6, <1>7 DEF Next, Run

\* WInv holds in every reachable state.
THEOREM WakeInvariance == Spec => []WInv
  BY Invariance, InitWakes, StepWakes, PTL DEF Spec

-----------------------------------------------------------------------------
(***************************************************************************)
(* Under EPOLLET a pending read() never misses its wake-up: when recv()    *)
(* would return something, an event that makes onEpollEv call onRead is on *)
(* the ready list or in _events.                                           *)
(***************************************************************************)
THEOREM ReadsAreWoken == Spec => []PendingReadWakes
<1>1. WInv => PendingReadWakes
  BY DEF WInv, Wakes, Listens, PendingReadWakes, INVALID
<1> QED BY <1>1, WakeInvariance, PTL

(***************************************************************************)
(* The one EPOLLHUP that makes NetLoop::run move _event.sockptr out of the *)
(* object, and so break the cycle, is never lost while it is needed.       *)
(***************************************************************************)
THEOREM HangUpsRelease == Spec => []HangUpReleases
<1>1. WInv => HangUpReleases
  BY DEF WInv, Wakes, HangUpReleases, INVALID
<1> QED BY <1>1, WakeInvariance, PTL

(***************************************************************************)
(* An IoSocket with a read() or a connect() outstanding holds a reference  *)
(* to itself, so it lives until the callback even when the application     *)
(* has dropped every shared_ptr.                                           *)
(***************************************************************************)
THEOREM PendingIsAlive == Spec => []PendingKeepsAlive
<1>1. IInv /\ WInv => PendingKeepsAlive
  BY DEF IInv, Linked, WInv, Waiting, PendingKeepsAlive
<1> QED BY <1>1, Invariance, WakeInvariance, PTL

(***************************************************************************)
(* The assert(0) of onEpollEv's connect branch is unreachable: every event *)
(* dispatched to a connecting socket says OUT, HUP or ERR.                 *)
(***************************************************************************)
THEOREM ConnectEventsDecide == Spec => []ConnectEventDecides
<1>1. IInv /\ WInv => ConnectEventDecides
  <2> SUFFICES ASSUME IInv, WInv, NEW e \in batch, obj[e.ptr].isconnect
               PROVE  e.ev \cap {"OUT", "HUP"} # {}
    BY DEF ConnectEventDecides
  <2>1. e.ptr \in Socks
    BY DEF IInv, TypeOK, Entry
  <2> QED BY <2>1 DEF WInv, Waiting, Batched, Early
<1> QED BY <1>1, Invariance, WakeInvariance, PTL

-----------------------------------------------------------------------------
(***************************************************************************)
(* The listener, for any number of waiting clients.  That its step is a    *)
(* step of the loop needs the offer to be unused; that the offer stays     *)
(* unused while the loop works on other sockets needs the loop's invariant *)
(* IInv.  SInv is the listener's part and is proved together with IInv,    *)
(* one step at a time.                                                     *)
(***************************************************************************)
USE ListenAssumption DEF ListenAssumption

\* The offered socket: alive, kept by the listener, never connected.
Unused(s) == obj[s].life = "alive" /\ usr[s].held /\ usr[s].st = "none"

SInv ==
  /\ ListenTypeOK
  /\ EventHasOffer
  /\ WaitingClientWakes
  /\ lsn.sioptr # NoSock => Unused(lsn.sioptr)
  /\ pc = "main" => ~lev

\* The initial states.
LEMMA ServerInitInv == ServerInit => IInv /\ SInv
<1> SUFFICES ASSUME ServerInit PROVE IInv /\ SInv
  OBVIOUS
<1>1. IInv
  BY InitInv DEF ServerInit
<1>2. ListenTypeOK
  <2>1. lsn \in Listener
    BY DEF ServerInit, Listener
  <2>2. Unregistered \in ListenItem
    BY DEF ListenItem, Unregistered
  <2> QED BY <2>1, <2>2 DEF ServerInit, ListenTypeOK
<1>3. lsn.sioptr = NoSock /\ lk.in = FALSE /\ lev = FALSE
  BY DEF ServerInit, Unregistered
<1> QED BY <1>1, <1>2, <1>3 DEF SInv, EventHasOffer, WaitingClientWakes

-----------------------------------------------------------------------------
(***************************************************************************)
(* Every step of the server is a step of the loop.                         *)
(***************************************************************************)

\* accept() of an offer takes a shared_ptr, or drops the one it replaces.
LEMMA OfferIsHandle ==
  ASSUME IInv, SInv, NEW s \in Socks, OfferSocket(s), pc \in {"main", "user"}
  PROVE  [Next]_vars
<1>1. obj[s].fd = INVALID /\ usr[s] \in User
  BY DEF OfferSocket, IInv, TypeOK, Linked
<1>2. CASE lsn.sioptr = NoSock /\ usr[s].held
  <2>1. usr' = usr
    <3>1. usr' = [usr EXCEPT ![s] = [usr[s] EXCEPT !.held = TRUE]]
      BY <1>2 DEF OfferSocket, ReplaceOffer
    <3>2. [usr[s] EXCEPT !.held = TRUE] = usr[s]
      BY <1>1, <1>2 DEF User
    <3> HIDE <1>1, <1>2
    <3> QED BY <3>1, <3>2 DEF IInv, TypeOK
  <2> QED BY <1>2, <2>1 DEF OfferSocket, ReplaceOffer, vars
<1>3. CASE lsn.sioptr = NoSock /\ ~usr[s].held
  <2>1. KeepHandle(s)
    BY <1>1, <1>3 DEF OfferSocket, ReplaceOffer, Reaches, KeepHandle
  <2> QED BY <2>1 DEF OfferSocket, Application, Next
<1>4. CASE lsn.sioptr # NoSock
  <2>1. lsn.sioptr \in Socks /\ DropHandle(lsn.sioptr)
    BY <1>4 DEF OfferSocket, ReplaceOffer, SInv, ListenTypeOK, Listener
  <2> QED BY <2>1 DEF OfferSocket, Application, Next
<1> QED BY <1>2, <1>3, <1>4

\* The listener's event is an Accepted of the socket that was offered.
LEMMA AcceptIsAccepted ==
  ASSUME IInv, SInv, OnEpollAccept
  PROVE  lsn.sioptr \in Socks /\ Accepted(lsn.sioptr)
<1>1. lsn.sioptr \in Socks /\ Unused(lsn.sioptr)
  BY DEF OnEpollAccept, SInv, EventHasOffer, ListenTypeOK, Listener
<1>2. CASE AcceptSucceeds(lsn.sioptr)
  BY <1>1, <1>2 DEF OnEpollAccept, AcceptSucceeds, Accepted, Unused
<1>3. CASE AcceptRefused(lsn.sioptr)
  BY <1>1, <1>3 DEF OnEpollAccept, AcceptRefused, Accepted, Unused
<1> QED BY <1>1, <1>2, <1>3 DEF OnEpollAccept

\* So each step of the server is one of the loop, or none.
LEMMA ServerStepIsLoopStep ==
  ASSUME IInv, SInv, [ServerNext]_serverVars
  PROVE  [Next]_vars
<1>1. CASE ServerRun
  <2>1. CASE OnEpollAccept
    BY <2>1, AcceptIsAccepted DEF Next, Run
  <2> QED BY <1>1, <2>1 DEF ServerRun, ServerWait, ServerEndRun, Next, Run
<1>2. CASE ServerApplication
  <2>1. CASE Listen \/ CloseListener
    BY <2>1 DEF Listen, CloseListener
  <2>2. ASSUME NEW s \in Socks, OfferSocket(s) PROVE [Next]_vars
    BY <1>2, <2>2, OfferIsHandle DEF ServerApplication
  <2>3. ASSUME NEW s \in Socks, MakeShared(s) \/ Call(s) \/ KeepHandle(s) \/ DropHandle(s),
               UNCHANGED <<pc, ptr, batch>>
        PROVE  [Next]_vars
    BY <1>2, <2>3 DEF ServerApplication, Application, Next
  <2> QED BY <1>2, <2>1, <2>2, <2>3 DEF ServerApplication
<1>3. CASE ServerEnvironment
  BY <1>3 DEF ServerEnvironment, Arrives, Next
<1>4. CASE UNCHANGED serverVars
  BY <1>4 DEF serverVars
<1> QED BY <1>1, <1>2, <1>3, <1>4 DEF ServerNext

-----------------------------------------------------------------------------
(***************************************************************************)
(* Every step preserves the listener's invariant.                          *)
(***************************************************************************)

\* A step that leaves the listener alone and the offered object as it was.
LEMMA ListenerUntouched ==
  ASSUME IInv, SInv, UNCHANGED listenVars, pc' = "main" => pc = "main" \/ ~lev,
         lsn.sioptr # NoSock => Unused(lsn.sioptr)'
  PROVE  SInv'
<1>1. UNCHANGED <<lsn, lk, lev>>
  BY DEF listenVars
<1>2. lsn.sioptr # NoSock => /\ obj'[lsn'.sioptr].life = "alive"
                             /\ usr'[lsn'.sioptr].held /\ usr'[lsn'.sioptr].st = "none"
  BY <1>1 DEF Unused
<1> QED BY <1>1, <1>2 DEF SInv, ListenTypeOK, EventHasOffer, WaitingClientWakes, Unused

\* What concerns another socket does not disturb the offer.
LEMMA OfferUntouched ==
  ASSUME IInv, SInv, NEW s \in Socks, OnlyOf(s), s # lsn.sioptr, lsn' = lsn
  PROVE  lsn.sioptr # NoSock => Unused(lsn.sioptr)'
<1>1. ASSUME NEW t \in Socks \ {s}, t = lsn.sioptr, t # NoSock
      PROVE  obj'[t] = obj[t] /\ usr'[t] = usr[t] /\ Unused(t)
  BY <1>1 DEF OnlyOf, SInv
<1>2. lsn.sioptr \in Socks \cup {NoSock}
  BY DEF SInv, ListenTypeOK, Listener
<1> QED BY <1>1, <1>2 DEF Unused

\* listen() and close() of the listener, and the arrival of a client.
LEMMA ListenerAlone ==
  ASSUME SInv, Listen \/ CloseListener \/ Arrives
  PROVE  SInv'
<1>1. UNCHANGED <<vars, lev>> /\ lsn'.sioptr = lsn.sioptr /\ lsn' \in Listener
  BY DEF Listen, CloseListener, Arrives, SInv, ListenTypeOK, Listener
<1>2. UNCHANGED <<obj, usr, pc>>
  BY <1>1 DEF vars
<1>3. Unused(lsn.sioptr)' <=> Unused(lsn.sioptr)
  BY <1>1, <1>2 DEF Unused
<1>4. CASE lk' = Unregistered
  <2>1. lk' \in ListenItem /\ lk'.in = FALSE
    BY <1>4 DEF ListenItem, Unregistered
  <2> QED BY <1>1, <1>2, <1>3, <2>1
          DEF SInv, ListenTypeOK, EventHasOffer, WaitingClientWakes
<1>5. CASE Arrives
  <2>0. lk \in ListenItem /\ lk.backlog + 1 \in 0 .. MaxBacklog
    BY <1>5 DEF Arrives, SInv, ListenTypeOK, ListenItem
  <2>1. lk' \in ListenItem /\ lk'.in = lk.in /\ lk'.ready = (lk.ready \/ lk.in)
    BY <1>5, <2>0 DEF Arrives, ListenItem
  <2> QED BY <1>1, <1>2, <1>3, <2>1
          DEF SInv, ListenTypeOK, EventHasOffer, WaitingClientWakes
<1> QED BY <1>4, <1>5 DEF Listen, CloseListener

\* accept(): the new offer is the object the call was made with.
LEMMA OfferInv ==
  ASSUME IInv, SInv, NEW s \in Socks, OfferSocket(s)
  PROVE  SInv'
<1>0. /\ obj[s].life = "alive" /\ usr[s].st = "none" /\ obj[s] \in Object /\ usr[s] \in User
      /\ pc' = pc /\ lev' = lev /\ s # NoSock
  BY DEF OfferSocket, Reaches, IInv, TypeOK
<1>1. lsn' \in Listener /\ lsn'.sioptr = s
  BY DEF OfferSocket, Offer, SInv, ListenTypeOK, Listener
<1>2. /\ lk' \in ListenItem
      /\ lk'.in = TRUE
      /\ lk'.backlog > 0 => lk'.ready
  BY DEF OfferSocket, Offer, SInv, ListenTypeOK, ListenItem
<1>3. Unused(s)'
  <2>1. CASE lsn.sioptr = NoSock
    BY <1>0, <2>1 DEF OfferSocket, ReplaceOffer, Unused, IInv, TypeOK, User
  <2>2. CASE lsn.sioptr # NoSock
    <3>1. lsn.sioptr \in Socks \ {s} /\ DropHandle(lsn.sioptr) /\ usr[s].held
      BY <2>2 DEF OfferSocket, ReplaceOffer, SInv, ListenTypeOK, Listener
    <3>2. OnlyOf(lsn.sioptr)
      BY <3>1, HandleInv DEF OfferSocket
    <3> QED BY <1>0, <3>1, <3>2 DEF OnlyOf, Unused
  <2> QED BY <2>1, <2>2
<1>4. (lsn.sioptr # NoSock => Unused(lsn.sioptr))'
  BY <1>1, <1>3 DEF Unused
<1> QED BY <1>0, <1>1, <1>2, <1>4 DEF SInv, ListenTypeOK, EventHasOffer, WaitingClientWakes

\* onEpollAccept: disarmed, and the offer gone.
LEMMA OnEpollAcceptInv ==
  ASSUME SInv, OnEpollAccept
  PROVE  SInv'
<1>1. lsn' \in Listener /\ lsn'.sioptr = NoSock
  BY DEF OnEpollAccept, AcceptSucceeds, AcceptRefused, SInv, ListenTypeOK, Listener
<1>2. lk' \in ListenItem /\ lk'.in = FALSE
  <2>1. lk \in ListenItem
    BY DEF SInv, ListenTypeOK
  <2>2. PICK left \in 0 .. MaxBacklog : lk' = Disarmed(left)
    BY <2>1 DEF OnEpollAccept, AcceptSucceeds, AcceptRefused, ListenItem
  <2> QED BY <2>1, <2>2 DEF Disarmed, ListenItem
<1>3. lev' = FALSE
  BY DEF OnEpollAccept
<1> QED BY <1>1, <1>2, <1>3 DEF SInv, ListenTypeOK, EventHasOffer, WaitingClientWakes

\* epoll_wait: the event leaves the ready list for the batch, or stays.
LEMMA ServerWaitInv ==
  ASSUME SInv, ServerWait
  PROVE  SInv'
<1>1. /\ UNCHANGED <<lsn, obj, usr>>
      /\ lk' \in ListenItem /\ lk'.in = lk.in /\ lk'.backlog = lk.backlog
      /\ lev' \in BOOLEAN /\ pc = "main" /\ pc' = "dispatch"
  BY DEF ServerWait, Wait, SInv, ListenTypeOK, ListenItem
<1>2. lev' => lk.in
  BY DEF ServerWait
<1>3. lk.in /\ lk.backlog > 0 => lk'.ready \/ lev'
  BY <1>1 DEF ServerWait, SInv, WaitingClientWakes, ListenTypeOK, ListenItem
<1>4. Unused(lsn.sioptr)' <=> Unused(lsn.sioptr)
  BY <1>1 DEF Unused
<1> QED BY <1>1, <1>2, <1>3, <1>4 DEF SInv, ListenTypeOK, EventHasOffer, WaitingClientWakes

\* A turn of the for loop for an IoSocket: it has a descriptor, the offer none.
LEMMA ServerDispatchInv ==
  ASSUME IInv, SInv, Dispatch, UNCHANGED listenVars
  PROVE  SInv'
<1>1. PICK e \in batch : /\ batch' = batch \ {e}
                         /\ SkipEvent(e.ptr) \/ RunHandler(e.ptr, e.ev)
  BY DEF Dispatch
<1>2. PICK s \in Socks : s = e.ptr
  BY DEF IInv, TypeOK, Entry
<1>3. lsn' = lsn /\ pc = "dispatch"
  BY DEF listenVars, Dispatch
<1>4. CASE SkipEvent(s)
  <2>1. UNCHANGED <<obj, usr, pc>>
    BY <1>4 DEF SkipEvent
  <2>2. lsn.sioptr # NoSock => Unused(lsn.sioptr)'
    BY <1>3, <2>1 DEF SInv, Unused
  <2> QED BY <1>3, <2>1, <2>2, ListenerUntouched
<1>5. CASE RunHandler(s, e.ev)
  <2>1. OnlyOf(s)
    BY <1>1, <1>3, <1>5, RunHandlerInv
  <2>2. s # lsn.sioptr
    <3>1. obj[s].sockptr /\ s # NoSock
      BY <1>5 DEF RunHandler
    <3>2. usr[s].st # "none"
      BY <3>1 DEF IInv, Linked
    <3> QED BY <3>1, <3>2 DEF SInv, Unused
  <2>3. pc' # "main"
    BY <1>3, <1>5 DEF RunHandler
  <2> QED BY <1>3, <2>1, <2>2, <2>3, OfferUntouched, ListenerUntouched
<1> QED BY <1>1, <1>2, <1>4, <1>5

\* A callback returns: an offer made during it is held by the listener.
LEMMA ServerReturnInv ==
  ASSUME IInv, SInv, Return, UNCHANGED listenVars
  PROVE  SInv'
<1>1. PICK s \in Socks : s = ptr
  BY DEF IInv, CallbackPtr, Return
<1>2. lsn' = lsn /\ pc' = "dispatch" /\ usr' = usr
  BY DEF listenVars, Return
<1>3. CASE s # lsn.sioptr
  <2>1. OnlyOf(s)
    BY <1>1, ReturnInv
  <2> QED BY <1>2, <1>3, <2>1, OfferUntouched, ListenerUntouched
<1>4. CASE s = lsn.sioptr
  <2>1. usr[s].held
    BY <1>4 DEF SInv, Unused
  <2>2. obj' = obj
    BY <1>1, <2>1 DEF Return, Release
  <2>3. lsn.sioptr # NoSock => Unused(lsn.sioptr)'
    BY <1>2, <2>2 DEF SInv, Unused
  <2> QED BY <1>2, <2>3, ListenerUntouched
<1> QED BY <1>3, <1>4

\* The calls on sockets are made on others than the one offered.
LEMMA ServerApplicationInv ==
  ASSUME IInv, SInv, ServerApplication
  PROVE  SInv'
<1>1. CASE Listen \/ CloseListener
  BY <1>1, ListenerAlone
<1>2. ASSUME NEW s \in Socks, OfferSocket(s) PROVE SInv'
  BY <1>2, OfferInv
<1>3. ASSUME NEW s \in Socks, UNCHANGED <<pc, ptr, batch, listenVars>>,
             \/ MakeShared(s)
             \/ s # lsn.sioptr /\ (Call(s) \/ KeepHandle(s) \/ DropHandle(s))
      PROVE  SInv'
  <2>1. UNCHANGED <<pc, ptr, batch>> /\ UNCHANGED listenVars /\ lsn' = lsn
    BY <1>3 DEF listenVars
  <2>2. OnlyOf(s)
    BY <1>3, <2>1, CallInv, HandleInv
  <2>3. s # lsn.sioptr
    <3>1. MakeShared(s) => obj[s].life # "alive" /\ s # NoSock
      BY DEF MakeShared
    <3> QED BY <1>3, <3>1 DEF SInv, Unused
  <2> QED BY <2>1, <2>2, <2>3, OfferUntouched, ListenerUntouched
<1> QED BY <1>1, <1>2, <1>3 DEF ServerApplication

\* Every step of the server preserves both invariants.
LEMMA ServerStep == IInv /\ SInv /\ [ServerNext]_serverVars => IInv' /\ SInv'
<1> SUFFICES ASSUME IInv, SInv, [ServerNext]_serverVars PROVE IInv' /\ SInv'
  OBVIOUS
<1>1. IInv'
  BY ServerStepIsLoopStep, Step
<1>2. CASE ServerRun
  <2>1. CASE ServerEndRun
    <3>1. UNCHANGED <<obj, usr, listenVars>> /\ ~lev
      BY <2>1 DEF ServerEndRun, EndRun
    <3>2. lsn.sioptr # NoSock => Unused(lsn.sioptr)'
      BY <3>1 DEF SInv, Unused, listenVars
    <3> QED BY <1>1, <3>1, <3>2, ListenerUntouched
  <2> QED BY <1>1, <1>2, <2>1, ServerWaitInv, OnEpollAcceptInv, ServerDispatchInv, ServerReturnInv
          DEF ServerRun
<1>3. CASE ServerApplication
  BY <1>1, <1>3, ServerApplicationInv
<1>4. CASE UNCHANGED <<obj, usr, pc>> /\ UNCHANGED listenVars
  <2>1. lsn.sioptr # NoSock => Unused(lsn.sioptr)'
    BY <1>4 DEF SInv, Unused, listenVars
  <2> QED BY <1>1, <1>4, <2>1, ListenerUntouched
<1>5. CASE ServerEnvironment
  BY <1>1, <1>4, <1>5, ListenerAlone DEF ServerEnvironment, Environment
<1>6. CASE UNCHANGED serverVars
  BY <1>4, <1>6 DEF serverVars, vars
<1> QED BY <1>2, <1>3, <1>5, <1>6 DEF ServerNext

-----------------------------------------------------------------------------
\* Both invariants hold in every reachable state of the server.
THEOREM ServerInvariance == ServerSpec => [](IInv /\ SInv)
  BY ServerInitInv, ServerStep, PTL DEF ServerSpec

(***************************************************************************)
(* Every behaviour of the loop with a listener is one of the loop without: *)
(* Accept.cpp gives run() and the sockets nothing but what Accepted allows *)
(* and every theorem about EpollLoop is one about the server.              *)
(***************************************************************************)
THEOREM ServerImplementsLoop == ServerSpec => RefinesLoop
<1>1. ServerInit => Init
  BY DEF ServerInit
<1>2. IInv /\ SInv /\ [ServerNext]_serverVars => [Next]_vars
  BY ServerStepIsLoopStep
<1> QED BY <1>1, <1>2, ServerInvariance, PTL DEF ServerSpec, RefinesLoop, Spec

(***************************************************************************)
(* The listener's members and its descriptor have their types whatever     *)
(* listen, accept, close and the callbacks do, and the backlog its bound.  *)
(***************************************************************************)
THEOREM ListenerTypeCorrect == ServerSpec => []ListenTypeOK
<1>1. SInv => ListenTypeOK
  BY DEF SInv
<1> QED BY <1>1, ServerInvariance, PTL

(***************************************************************************)
(* onEpollAccept never finds _sioptr empty when the listener is reported.  *)
(***************************************************************************)
THEOREM EventsHaveOffers == ServerSpec => []EventHasOffer
<1>1. SInv => EventHasOffer
  BY DEF SInv
<1> QED BY <1>1, ServerInvariance, PTL

(***************************************************************************)
(* With EPOLLET and the listener armed only by accept(), no client that    *)
(* waits is overlooked while an offer is out.                              *)
(***************************************************************************)
THEOREM ClientsWake == ServerSpec => []WaitingClientWakes
<1>1. SInv => WaitingClientWakes
  BY DEF SInv
<1> QED BY <1>1, ServerInvariance, PTL

(***************************************************************************)
(* The socket onEpollAccept will hand the next connection to is alive and  *)
(* has never had a descriptor, whatever the callbacks before it did.       *)
(***************************************************************************)
THEOREM OffersAreUnused == ServerSpec => []OfferIsUnused
<1>1. IInv /\ SInv => OfferIsUnused
  BY DEF IInv, Linked, SInv, Unused, OfferIsUnused, ListenTypeOK, Listener
<1> QED BY <1>1, ServerInvariance, PTL

(***************************************************************************)
(* What the refinement gives at once: with a listener in the loop, too,    *)
(* whatever epoll watches is a live socket's current descriptor.           *)
(***************************************************************************)
THEOREM ServerRegistrationsAreOwned == ServerSpec => []RegistrationOwned
  BY ServerImplementsLoop, RegistrationsAreOwned DEF RefinesLoop
=============================================================================
