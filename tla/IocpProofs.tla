----------------------------- MODULE IocpProofs -----------------------------
(***************************************************************************)
(* The completion port, proved for any number of threads, sockets and      *)
(* kinds of operation: what the system works on is kept alive.  For one    *)
(* thread: the loop implements the contract of Proactor.  And the          *)
(* listener, for any number of threads: the wait in onIocpAccept ends with *)
(* accept() complete, and the listener does to the loop only what IocpLoop *)
(* allows.                                                                 *)
(***************************************************************************)
EXTENDS IocpAccept, TLAPS

USE IocpAssumption DEF IocpAssumption

\* An operation the system has is referenced, or the call that started it runs.
Kept == \A s \in Socks, k \in Kinds : io[s][k] # "idle" => k \in obj[s].sockptr \/ InCall(s, k)

\* Each kind of reference is to a live object.
Lives(s) == usr[s].held \/ obj[s].sockptr # {} \/ InCallback(s) => obj[s].life = "alive"

\* A thread inside a call reached the object, and still does.
Callers ==
  \A t \in Threads, s \in Socks, k \in Kinds :
     <<t, s, k>> \in starting => usr[s].held \/ tmpptr[t] = s

\* Nothing was started on a socket that is new to the network.
Fresh ==
  \A s \in Socks, k \in Kinds :
     usr[s].st = "none" => io[s][k] = "idle" /\ ~InCall(s, k)

KInv == TypeOK /\ Kept /\ (\A s \in Socks : Lives(s)) /\ Callers /\ Fresh

\* The initial states.
LEMMA InitKInv == Init => KInv
<1> SUFFICES ASSUME Init PROVE KInv
  OBVIOUS
<1>1. TypeOK
  BY DEF Init, TypeOK, Object, User, IoState
<1>2. Kept /\ Callers /\ Fresh
  BY DEF Init, Kept, Callers, Fresh, InCall
<1>3. ASSUME NEW s \in Socks PROVE Lives(s)
  BY <1>3 DEF Init, Lives, InCallback
<1> QED BY <1>1, <1>2, <1>3 DEF KInv

\* An object a thread reaches inside a call is alive.
LEMMA CallerIsAlive ==
  ASSUME KInv, NEW t \in Threads, NEW s \in Socks, NEW k \in Kinds, <<t, s, k>> \in starting
  PROVE  obj[s].life = "alive"
  BY DEF KInv, Callers, Lives, InCallback

\* What the properties of the runs need of KInv.
LEMMA KInvKeeps == KInv => OutstandingKept
<1> SUFFICES ASSUME KInv, NEW s \in Socks, NEW k \in Kinds, io[s][k] # "idle"
             PROVE  obj[s].life = "alive" /\ (k \in obj[s].sockptr \/ InCall(s, k))
  BY DEF OutstandingKept
<1>1. k \in obj[s].sockptr \/ InCall(s, k)
  BY DEF KInv, Kept
<1>2. CASE k \in obj[s].sockptr
  BY <1>1, <1>2 DEF KInv, Lives
<1>3. CASE InCall(s, k)
  BY <1>1, <1>3, CallerIsAlive DEF InCall
<1> QED BY <1>1, <1>2, <1>3

-----------------------------------------------------------------------------
(***************************************************************************)
(* The steps.                                                              *)
(***************************************************************************)

\* An overlapped call, on an object the thread reaches.
LEMMA OverlappedInv ==
  ASSUME KInv, NEW t \in Threads, NEW s \in Socks, NEW k \in Kinds,
         Reaches(t, s), Overlapped(t, s, k),
         obj' \in [Socks -> Object], usr' \in [Socks -> User],
         \A r \in Socks : /\ obj'[r].sockptr = obj[r].sockptr /\ obj'[r].life = obj[r].life
                          /\ usr'[r].held = usr[r].held
                          /\ usr'[r].st = "none" => usr[r].st = "none" /\ r # s
  PROVE  KInv'
<1>1. TypeOK'
  <2>1. io' \in [Socks -> [Kinds -> IoState]]
    BY DEF KInv, TypeOK, Overlapped, IoState
  <2>2. starting' \in SUBSET (Threads \X Socks \X Kinds) /\ tmpptr' = tmpptr
    BY DEF KInv, TypeOK, Overlapped
  <2> QED BY <2>1, <2>2 DEF KInv, TypeOK
<1>2. Kept'
  <2> SUFFICES ASSUME NEW r \in Socks, NEW j \in Kinds, io'[r][j] # "idle"
               PROVE  j \in obj'[r].sockptr \/ \E u \in Threads : <<u, r, j>> \in starting'
    BY DEF Kept, InCall
  <2>1. CASE r = s /\ j = k
    BY <2>1 DEF Overlapped
  <2>2. CASE ~(r = s /\ j = k)
    <3>1. io'[r][j] = io[r][j]
      BY <2>2 DEF Overlapped, KInv, TypeOK
    <3> QED BY <3>1 DEF KInv, Kept, InCall, Overlapped
  <2> QED BY <2>1, <2>2
<1>3. ASSUME NEW r \in Socks PROVE Lives(r)'
  BY <1>3 DEF KInv, Lives, InCallback, Overlapped
<1>4. Callers'
  BY DEF KInv, Callers, Overlapped, Reaches
<1>5. Fresh'
  BY DEF KInv, Fresh, InCall, Overlapped, TypeOK
<1> QED BY <1>1, <1>2, <1>3, <1>4, <1>5 DEF KInv

\* Any call of the application, made on an object the thread reaches.
LEMMA CallInv ==
  ASSUME KInv, NEW t \in Threads, NEW s \in Socks, Call(t, s)
  PROVE  KInv'
<1>0. obj[s] \in Object /\ usr[s] \in User /\ Reaches(t, s) /\ obj[s].life = "alive"
  BY DEF KInv, TypeOK, Call, Reaches
<1>1. CASE Connect(t, s)
  <2>1. "CONNECT" \in Kinds
    BY <1>1 DEF Connect, Dials, Unstarted
  <2>2. [obj[s] EXCEPT !.open = TRUE] \in Object
    BY <1>0 DEF Object
  <2>3. [usr[s] EXCEPT !.st = "dialing"] \in User
    BY <1>0 DEF User
  <2>4. obj' \in [Socks -> Object] /\ usr' \in [Socks -> User]
    BY <1>1, <2>2, <2>3 DEF Connect, Dials, KInv, TypeOK
  <2>5. ASSUME NEW r \in Socks
        PROVE  /\ obj'[r].sockptr = obj[r].sockptr /\ obj'[r].life = obj[r].life
               /\ usr'[r].held = usr[r].held
               /\ usr'[r].st = "none" => usr[r].st = "none" /\ r # s
    BY <1>1, <2>5 DEF Connect, Dials, KInv, TypeOK, Object, User
  <2> QED BY <1>0, <1>1, <2>1, <2>4, <2>5, OverlappedInv DEF Connect, Dials
<1>2. CASE Dials(t, s) /\ UNCHANGED obj
  <2>1. "CONNECT" \in Kinds
    BY <1>2 DEF Dials, Unstarted
  <2>2. [usr[s] EXCEPT !.st = "dialing"] \in User
    BY <1>0 DEF User
  <2>3. obj' \in [Socks -> Object] /\ usr' \in [Socks -> User]
    BY <1>2, <2>2 DEF Dials, KInv, TypeOK
  <2>4. ASSUME NEW r \in Socks
        PROVE  /\ obj'[r].sockptr = obj[r].sockptr /\ obj'[r].life = obj[r].life
               /\ usr'[r].held = usr[r].held
               /\ usr'[r].st = "none" => usr[r].st = "none" /\ r # s
    BY <1>2, <2>4 DEF Dials, KInv, TypeOK, User
  <2> QED BY <1>0, <1>2, <2>1, <2>3, <2>4, OverlappedInv DEF Dials
<1>3. CASE Read(t, s) \/ Write(t, s)
  <2>1. PICK k \in Kinds : Overlapped(t, s, k) /\ UNCHANGED <<obj, usr>>
    BY <1>3 DEF Read, Write, Transfer, Unstarted
  <2>2. usr[s].st # "none"
    BY <1>3 DEF Read, Write, Transfer
  <2> QED BY <1>0, <2>1, <2>2, OverlappedInv DEF KInv, TypeOK
<1>4. CASE ReconnectFails(s) \/ Close(s)
  <2>1. obj' = [obj EXCEPT ![s].open = FALSE] /\ UNCHANGED <<usr, io, starting, tmpptr>>
    BY <1>4 DEF ReconnectFails, Close
  <2>2. [obj[s] EXCEPT !.open = FALSE] \in Object
    BY <1>0 DEF Object
  <2>3. TypeOK'
    BY <2>1, <2>2 DEF KInv, TypeOK
  <2>4. ASSUME NEW r \in Socks PROVE obj'[r].sockptr = obj[r].sockptr /\ obj'[r].life = obj[r].life
    BY <2>1, <2>4 DEF KInv, TypeOK, Object
  <2>5. Kept' /\ Callers' /\ Fresh'
    BY <2>1, <2>4 DEF KInv, Kept, InCall, Callers, Fresh
  <2>6. ASSUME NEW r \in Socks PROVE Lives(r)'
    BY <2>1, <2>4, <2>6 DEF KInv, Lives, InCallback
  <2> QED BY <2>3, <2>5, <2>6 DEF KInv
<1> QED BY <1>1, <1>2, <1>3, <1>4 DEF Call, Reconnect

\* The assignment of sockptr: the caller's reference has kept the object.
LEMMA SetSockptrInv ==
  ASSUME KInv, NEW t \in Threads, NEW s \in Socks, NEW k \in Kinds, SetSockptr(t, s, k)
  PROVE  KInv'
<1>0. obj[s] \in Object /\ usr[s] \in User /\ obj[s].life = "alive"
  BY CallerIsAlive DEF SetSockptr, KInv, TypeOK
<1>1. TypeOK'
  <2>1. [obj[s] EXCEPT !.sockptr = @ \cup {k}] \in Object
    BY <1>0 DEF Object
  <2>2. [usr[s] EXCEPT !.due = @ \cup {k}] \in User
    BY <1>0 DEF User
  <2> QED BY <2>1, <2>2 DEF SetSockptr, KInv, TypeOK
<1>2. ASSUME NEW r \in Socks
      PROVE  /\ obj'[r].life = obj[r].life /\ usr'[r].held = usr[r].held
             /\ obj'[r].sockptr = IF r = s THEN obj[s].sockptr \cup {k} ELSE obj[r].sockptr
             /\ usr'[r].st = usr[r].st
  BY <1>2 DEF SetSockptr, KInv, TypeOK, Object, User
<1>3. Kept'
  <2> SUFFICES ASSUME NEW r \in Socks, NEW j \in Kinds, io[r][j] # "idle"
               PROVE  j \in obj'[r].sockptr \/ \E u \in Threads : <<u, r, j>> \in starting'
    BY DEF Kept, InCall, SetSockptr
  <2>1. j \in obj[r].sockptr \/ \E u \in Threads : <<u, r, j>> \in starting
    BY DEF KInv, Kept, InCall
  <2> QED BY <1>2, <2>1 DEF SetSockptr
<1>4. ASSUME NEW r \in Socks PROVE Lives(r)'
  BY <1>0, <1>2, <1>4 DEF SetSockptr, KInv, Lives, InCallback
<1>5. Callers'
  BY <1>2 DEF SetSockptr, KInv, Callers
<1>6. Fresh'
  BY <1>2 DEF SetSockptr, KInv, Fresh, InCall
<1> QED BY <1>1, <1>3, <1>4, <1>5, <1>6 DEF KInv

\* A reference goes; the object with it if it was the last.
LEMMA ReleaseKeeps ==
  ASSUME KInv, NEW s \in Socks, NEW kept \in BOOLEAN, Release(s, kept),
         ~kept => obj[s].sockptr = {}
  PROVE  /\ obj' \in [Socks -> Object]
         /\ \A r \in Socks : obj'[r].sockptr = obj[r].sockptr
         /\ \A r \in Socks : obj'[r].life # obj[r].life => r = s /\ ~kept
<1>1. obj[s] \in Object /\ obj \in [Socks -> Object]
  BY DEF KInv, TypeOK
<1>2. CASE ~kept
  <2>1. [obj[s] EXCEPT !.life = "freed", !.open = FALSE] \in Object
    BY <1>1, <1>2 DEF Object
  <2>2. obj' = [obj EXCEPT ![s] = [obj[s] EXCEPT !.life = "freed", !.open = FALSE]]
    BY <1>1, <1>2 DEF Release, Object
  <2> QED BY <1>1, <1>2, <2>1, <2>2 DEF Object
<1> QED BY <1>1, <1>2 DEF Release

\* make_shared and what the application does with its handles.
LEMMA HandleInv ==
  ASSUME KInv, NEW t \in Threads, NEW s \in Socks,
         MakeShared(s) \/ KeepHandle(t, s) \/ DropHandle(s)
  PROVE  KInv'
<1>0. obj[s] \in Object /\ usr[s] \in User
  BY DEF KInv, TypeOK
<1>1. ASSUME NEW h \in BOOLEAN PROVE [usr[s] EXCEPT !.held = h] \in User
  BY <1>0, <1>1 DEF User
<1>2. UNCHANGED <<io, starting, tmpptr>>
  BY DEF MakeShared, KeepHandle, DropHandle
<1>3. CASE MakeShared(s)
  <2>1. [obj[s] EXCEPT !.life = "alive"] \in Object
    BY <1>0, <1>3 DEF MakeShared, Object
  <2>2. TypeOK'
    BY <1>1, <1>2, <1>3, <2>1 DEF MakeShared, KInv, TypeOK
  <2>3. ASSUME NEW r \in Socks
        PROVE  /\ obj'[r].sockptr = obj[r].sockptr
               /\ usr[r].held => usr'[r].held
               /\ usr'[r].st = usr[r].st
               /\ r # s => obj'[r] = obj[r] /\ usr'[r] = usr[r]
               /\ r = s => obj'[r].life = "alive"
    BY <1>0, <1>3, <2>3 DEF MakeShared, KInv, TypeOK, Object, User
  <2>4. Kept' /\ Callers' /\ Fresh'
    BY <1>2, <2>3 DEF KInv, Kept, InCall, Callers, Fresh
  <2>5. ASSUME NEW r \in Socks PROVE Lives(r)'
    BY <1>2, <2>3, <2>5 DEF KInv, Lives, InCallback
  <2> QED BY <2>2, <2>4, <2>5 DEF KInv
<1>4. CASE KeepHandle(t, s)
  <2>1. TypeOK' /\ obj' = obj
    BY <1>1, <1>2, <1>4 DEF KeepHandle, KInv, TypeOK
  <2>2. ASSUME NEW r \in Socks
        PROVE  /\ usr[r].held => usr'[r].held
               /\ usr'[r].held => usr[r].held \/ r = s
               /\ usr'[r].st = usr[r].st
    BY <1>0, <1>4, <2>2 DEF KeepHandle, KInv, TypeOK, User
  <2>3. Kept' /\ Callers' /\ Fresh'
    BY <1>2, <2>1, <2>2 DEF KInv, Kept, InCall, Callers, Fresh
  <2>4. obj[s].life = "alive"
    BY <1>4 DEF KeepHandle, KInv, Lives, InCallback
  <2>5. ASSUME NEW r \in Socks PROVE Lives(r)'
    BY <1>2, <2>1, <2>2, <2>4, <2>5 DEF KInv, Lives, InCallback
  <2> QED BY <2>1, <2>3, <2>5 DEF KInv
<1>5. CASE DropHandle(s)
  <2> DEFINE kept == obj[s].sockptr # {} \/ InCallback(s)
  <2>0. kept \in BOOLEAN /\ Release(s, kept) /\ (~kept => obj[s].sockptr = {})
    BY <1>5 DEF DropHandle
  <2>1. /\ obj' \in [Socks -> Object]
        /\ \A r \in Socks : obj'[r].sockptr = obj[r].sockptr
        /\ \A r \in Socks : obj'[r].life # obj[r].life => r = s /\ ~kept
    BY <2>0, ReleaseKeeps
  <2>2. TypeOK'
    BY <1>1, <1>2, <1>5, <2>1 DEF DropHandle, KInv, TypeOK
  <2>3. ASSUME NEW r \in Socks
        PROVE  (usr'[r].held <=> usr[r].held /\ r # s) /\ usr'[r].st = usr[r].st
    BY <1>0, <1>5, <2>3 DEF DropHandle, KInv, TypeOK, User
  <2>4. Kept' /\ Fresh'
    BY <1>2, <2>1, <2>3 DEF KInv, Kept, InCall, Fresh
  <2>5. Callers'
    BY <1>2, <1>5, <2>3 DEF KInv, Callers, DropHandle, InCall
  <2>6. ASSUME NEW r \in Socks PROVE Lives(r)'
    BY <1>2, <2>1, <2>3, <2>6 DEF KInv, Lives, InCallback
  <2> QED BY <2>2, <2>4, <2>5, <2>6 DEF KInv
<1> QED BY <1>3, <1>4, <1>5

\* onIocpMsg: sockptr is moved to tmpptr, or the completion is dropped.
LEMMA TakeInv ==
  ASSUME KInv, NEW t \in Threads, NEW s \in Socks, NEW k \in Kinds, Take(t, s, k)
  PROVE  KInv'
<1>0. obj[s] \in Object /\ usr[s] \in User /\ starting' = starting
  BY DEF KInv, TypeOK, Take
<1>1. /\ io' \in [Socks -> [Kinds -> IoState]]
      /\ io'[s][k] = "idle"
      /\ \A r \in Socks, j \in Kinds : r # s \/ j # k => io'[r][j] = io[r][j]
  BY DEF KInv, TypeOK, Take, IoState
<1>2. CASE Dropped(s, k)
  <2>1. UNCHANGED <<obj, usr, tmpptr, starting>>
    BY <1>0, <1>2 DEF Dropped
  <2>2. TypeOK' /\ Callers' /\ \A r \in Socks : Lives(r)'
    BY <1>1, <2>1 DEF KInv, TypeOK, Callers, Lives, InCallback
  <2>3. \A r \in Socks, j \in Kinds : InCall(r, j)' <=> InCall(r, j)
    BY <2>1 DEF InCall
  <2>4. \A r \in Socks, j \in Kinds : io'[r][j] \in {"idle", io[r][j]}
    BY <1>1
  <2>5. Kept'
    BY <2>1, <2>3, <2>4 DEF KInv, Kept
  <2>6. Fresh'
    BY <2>1, <2>3, <2>4 DEF KInv, Fresh
  <2> QED BY <2>2, <2>5, <2>6 DEF KInv
<1>3. CASE OnIocpMsg(t, s, k)
  <2>1. [obj[s] EXCEPT !.sockptr = @ \ {k}] \in Object
    BY <1>0 DEF Object
  <2>2. \A st \in {usr[s].st, "open", "failed"} :
           [usr[s] EXCEPT !.due = @ \ {k}, !.st = st] \in User
    BY <1>0 DEF User
  <2>3. obj' \in [Socks -> Object]
    BY <1>3, <2>1 DEF OnIocpMsg, MovesReference, KInv, TypeOK
  <2>4. usr' \in [Socks -> User]
    <3> DEFINE st == IF k # "CONNECT" THEN usr[s].st
                     ELSE IF io[s][k] = "done" THEN "open" ELSE "failed"
    <3>1. usr' = [usr EXCEPT ![s] = [usr[s] EXCEPT !.due = @ \ {k}, !.st = st]]
      BY <1>3 DEF OnIocpMsg
    <3>2. st \in {usr[s].st, "open", "failed"}
      OBVIOUS
    <3> HIDE DEF st
    <3> QED BY <2>2, <3>1, <3>2 DEF KInv, TypeOK
  <2>5. tmpptr' = [tmpptr EXCEPT ![t] = s] /\ tmpptr' \in [Threads -> Socks \cup {NoSock}]
    BY <1>3 DEF OnIocpMsg, KInv, TypeOK
  <2>6. TypeOK'
    BY <1>0, <1>1, <2>3, <2>4, <2>5 DEF KInv, TypeOK
  <2>7. ASSUME NEW r \in Socks
        PROVE  /\ obj'[r].life = obj[r].life
               /\ obj'[r].sockptr = IF r = s THEN obj[s].sockptr \ {k} ELSE obj[r].sockptr
    BY <1>3, <2>7 DEF OnIocpMsg, MovesReference, KInv, TypeOK, Object
  <2>8. ASSUME NEW r \in Socks
        PROVE  usr'[r].held = usr[r].held /\ (usr'[r].st = "none" => usr[r].st = "none")
    BY <1>3, <2>8 DEF OnIocpMsg, KInv, TypeOK, User
  <2>9. obj[s].life = "alive"
    BY <1>3 DEF OnIocpMsg, KInv, Lives
  <2>10. Kept' /\ Fresh'
    BY <1>0, <1>1, <2>7, <2>8 DEF KInv, Kept, InCall, Fresh
  <2>11. Callers'
    <3> SUFFICES ASSUME NEW u \in Threads, NEW r \in Socks, NEW j \in Kinds,
                        <<u, r, j>> \in starting
                 PROVE  usr'[r].held \/ tmpptr'[u] = r
      BY <1>0 DEF Callers
    <3>1. u # t
      BY DEF Take, Busy
    <3> QED BY <2>5, <2>8, <3>1 DEF KInv, Callers, TypeOK
  <2>12. ASSUME NEW r \in Socks PROVE Lives(r)'
    <3>1. InCallback(r)' => InCallback(r) \/ r = s
      BY <2>5 DEF InCallback, KInv, TypeOK
    <3> QED BY <2>7, <2>8, <2>9, <3>1 DEF KInv, Lives
  <2> QED BY <2>6, <2>10, <2>11, <2>12 DEF KInv
<1> QED BY <1>2, <1>3 DEF Take

\* onIocpAccept hands over an offered socket.
LEMMA AcceptedInv ==
  ASSUME KInv, NEW t \in Threads, NEW s \in Socks, Accepted(t, s)
  PROVE  KInv'
<1>0. obj[s] \in Object /\ usr[s] \in User /\ obj[s].life = "alive"
  BY DEF KInv, TypeOK, Accepted
<1>1. /\ UNCHANGED <<io, starting>>
      /\ tmpptr' = [tmpptr EXCEPT ![t] = s] /\ tmpptr' \in [Threads -> Socks \cup {NoSock}]
  BY DEF Accepted, KInv, TypeOK
<1>2. [obj[s] EXCEPT !.open = TRUE] \in Object
  BY <1>0 DEF Object
<1>3. /\ [usr[s] EXCEPT !.held = FALSE] \in User
      /\ [usr[s] EXCEPT !.held = FALSE, !.st = "open"] \in User
  BY <1>0 DEF User
<1>4. obj' \in [Socks -> Object] /\ usr' \in [Socks -> User]
  <2>1. PICK o \in Object : obj' = [obj EXCEPT ![s] = o]
    <3>1. obj' = obj \/ obj' = [obj EXCEPT ![s] = [obj[s] EXCEPT !.open = TRUE]]
      BY DEF Accepted
    <3> QED BY <1>0, <1>2, <3>1 DEF KInv, TypeOK
  <2>2. PICK u \in User : usr' = [usr EXCEPT ![s] = u]
    <3>1. \/ usr' = [usr EXCEPT ![s] = [usr[s] EXCEPT !.held = FALSE]]
          \/ usr' = [usr EXCEPT ![s] = [usr[s] EXCEPT !.held = FALSE, !.st = "open"]]
      BY DEF Accepted
    <3> QED BY <1>3, <3>1
  <2> QED BY <2>1, <2>2 DEF KInv, TypeOK
<1>5. ASSUME NEW r \in Socks
      PROVE  /\ obj'[r].life = obj[r].life /\ obj'[r].sockptr = obj[r].sockptr
             /\ usr'[r].held => usr[r].held
             /\ r # s => usr'[r] = usr[r]
  BY <1>5 DEF Accepted, KInv, TypeOK, Object, User
<1>6. TypeOK'
  BY <1>1, <1>4 DEF KInv, TypeOK
<1>7. Kept' /\ Fresh'
  <2>1. ASSUME NEW r \in Socks PROVE usr'[r].st = "none" => usr[r].st = "none"
    BY <1>5, <2>1 DEF Accepted
  <2> QED BY <1>1, <1>5, <2>1 DEF KInv, Kept, Fresh, InCall
<1>8. ASSUME NEW r \in Socks PROVE Lives(r)'
  <2>1. InCallback(r)' => InCallback(r) \/ r = s
    BY <1>1 DEF InCallback, KInv, TypeOK
  <2> QED BY <1>0, <1>5, <2>1 DEF KInv, Lives
<1>9. Callers'
  <2> SUFFICES ASSUME NEW u \in Threads, NEW r \in Socks, NEW j \in Kinds,
                      <<u, r, j>> \in starting
               PROVE  usr'[r].held \/ tmpptr'[u] = r
    BY <1>1 DEF Callers
  <2>1. u # t
    BY DEF Accepted, Busy
  <2>2. r # s
    BY DEF Accepted, KInv, Fresh, InCall
  <2> QED BY <1>1, <1>5, <2>1, <2>2 DEF KInv, Callers, TypeOK
<1> QED BY <1>6, <1>7, <1>8, <1>9 DEF KInv

\* A callback returns; the object goes if nothing else refers to it.
LEMMA ReturnInv ==
  ASSUME KInv, NEW t \in Threads, Return(t)
  PROVE  KInv'
<1> DEFINE s == tmpptr[t]
           kept == \/ usr[s].held
                   \/ obj[s].sockptr # {}
                   \/ \E u \in Threads \ {t} : tmpptr[u] = s
<1>0. s \in Socks /\ kept \in BOOLEAN /\ Release(s, kept) /\ (~kept => obj[s].sockptr = {})
  BY DEF Return, KInv, TypeOK
<1>1. /\ UNCHANGED <<usr, io, starting>>
      /\ tmpptr' = [tmpptr EXCEPT ![t] = NoSock] /\ tmpptr' \in [Threads -> Socks \cup {NoSock}]
  BY DEF Return, KInv, TypeOK
<1> HIDE DEF kept
<1>2. /\ obj' \in [Socks -> Object]
      /\ \A r \in Socks : obj'[r].sockptr = obj[r].sockptr
      /\ \A r \in Socks : obj'[r].life # obj[r].life => r = s /\ ~kept
  BY <1>0, ReleaseKeeps
<1>3. TypeOK'
  BY <1>1, <1>2 DEF KInv, TypeOK
<1>4. Kept' /\ Fresh'
  BY <1>1, <1>2 DEF KInv, Kept, Fresh, InCall
<1>5. Callers'
  <2> SUFFICES ASSUME NEW u \in Threads, NEW r \in Socks, NEW j \in Kinds,
                      <<u, r, j>> \in starting
               PROVE  usr[r].held \/ tmpptr'[u] = r
    BY <1>1 DEF Callers
  <2>1. u # t
    BY DEF Return, Busy
  <2> QED BY <1>1, <2>1 DEF KInv, Callers, TypeOK
<1>6. ASSUME NEW r \in Socks PROVE Lives(r)'
  <2>1. InCallback(r)' => InCallback(r) /\ (r = s => kept)
    BY <1>0, <1>1 DEF InCallback, KInv, TypeOK, kept
  <2> QED BY <1>0, <1>1, <1>2, <2>1 DEF KInv, Lives, kept
<1> QED BY <1>3, <1>4, <1>5, <1>6 DEF KInv

\* The system completes an operation.
LEMMA CompleteInv ==
  ASSUME KInv, NEW s \in Socks, NEW k \in Kinds, Complete(s, k)
  PROVE  KInv'
<1>1. UNCHANGED <<obj, usr, starting, tmpptr>>
  BY DEF Complete
<1>2. /\ io' \in [Socks -> [Kinds -> IoState]]
      /\ \A r \in Socks, j \in Kinds : io'[r][j] # "idle" => io[r][j] # "idle"
  BY DEF Complete, KInv, TypeOK, IoState
<1>3. TypeOK'
  BY <1>1, <1>2 DEF KInv, TypeOK
<1>4. Kept' /\ Fresh'
  BY <1>1, <1>2 DEF KInv, Kept, Fresh, InCall, TypeOK
<1>5. Callers' /\ \A r \in Socks : Lives(r)'
  BY <1>1 DEF KInv, Callers, Lives, InCallback
<1> QED BY <1>3, <1>4, <1>5 DEF KInv

LEMMA KStep == KInv /\ [Next]_vars => KInv'
<1> SUFFICES ASSUME KInv, [Next]_vars PROVE KInv'
  OBVIOUS
<1>1. CASE UNCHANGED vars
  BY <1>1 DEF vars, KInv, TypeOK, Kept, Fresh, InCall, Callers, Lives, InCallback
<1>2. CASE Run
  BY <1>1, <1>2, TakeInv, AcceptedInv, ReturnInv DEF Run, TimesOut
<1>3. ASSUME NEW t \in Threads, CallReturns(t) PROVE KInv'
  BY <1>3, SetSockptrInv DEF CallReturns
<1>4. CASE Application
  BY <1>4, CallInv, HandleInv DEF Application
<1>5. CASE System
  BY <1>5, CompleteInv DEF System
<1> QED BY <1>1, <1>2, <1>3, <1>4, <1>5 DEF Next

-----------------------------------------------------------------------------
\* KInv holds in every reachable state, whatever the number of threads.
THEOREM KInvariance == Spec => []KInv
  BY InitKInv, KStep, PTL DEF Spec

\* Type correctness of the completion port, its sockets and its threads.
THEOREM IocpTypeCorrect == Spec => []TypeOK
<1>1. KInv => TypeOK
  BY DEF KInv
<1> QED BY <1>1, KInvariance, PTL

(***************************************************************************)
(* The system never works on a destroyed object, and the completion finds  *)
(* the object's own reference or the call that is about to set it: for any *)
(* number of threads in run().                                             *)
(***************************************************************************)
THEOREM OutstandingAreKept == Spec => []OutstandingKept
  BY KInvariance, KInvKeeps, PTL

-----------------------------------------------------------------------------
(***************************************************************************)
(* One thread in run() and in the calls: every completion finds its        *)
(* sockptr, and the loop implements the contract of Proactor.              *)
(*                                                                         *)
(* The argument is that a thread which takes a completion is in no call,   *)
(* so with one thread no call is between its overlapped operation and the  *)
(* assignment of sockptr.                                                  *)
(***************************************************************************)

HIDE IocpAssumption DEF IocpAssumption

OneThread == \A t, u \in Threads : t = u

\* The references, the application's view and the system's agree.
Agreed ==
  \A s \in Socks, k \in Kinds :
     /\ k \in obj[s].sockptr <=> k \in usr[s].due
     /\ k \in usr[s].due \/ InCall(s, k) => io[s][k] # "idle"

OInv == KInv /\ Agreed

\* The initial states.
LEMMA InitOInv == Init => OInv
<1>1. Init => Agreed
  BY DEF Init, Agreed, InCall
<1> QED BY <1>1, InitKInv DEF OInv

\* What is outstanding is due or about to be: an unstarted operation is idle.
LEMMA UnstartedIsIdle ==
  ASSUME OInv, NEW s \in Socks, NEW k \in Kinds, Unstarted(s, k)
  PROVE  io[s][k] = "idle"
  BY DEF OInv, Agreed, KInv, Kept, Unstarted

\* The thread that may run is in no call, and it is the only one.
LEMMA IdleThread ==
  ASSUME OneThread, NEW t \in Threads, ~Busy(t)
  PROVE  \A s \in Socks, k \in Kinds : ~InCall(s, k)
  BY DEF OneThread, Busy, InCall

\* So no completion is dropped.
LEMMA NoneDropped ==
  ASSUME OneThread, OInv, NEW t \in Threads, NEW s \in Socks, NEW k \in Kinds, Take(t, s, k)
  PROVE  OnIocpMsg(t, s, k)
<1>1. ~InCall(s, k) /\ io[s][k] # "idle"
  BY IdleThread DEF Take
<1> QED BY <1>1 DEF OInv, KInv, Kept, Take, Dropped

\* An object that lost its last reference has nothing outstanding.
LEMMA UnreferencedIsIdle ==
  ASSUME OInv, NEW s \in Socks, obj[s].sockptr = {}, \A k \in Kinds : ~InCall(s, k)
  PROVE  \A k \in Kinds : io[s][k] = "idle"
  BY DEF OInv, KInv, Kept

-----------------------------------------------------------------------------
\* The steps that touch neither the references to oneself nor what is due.
LEMMA AcceptedSame ==
  ASSUME TypeOK, NEW t \in Threads, NEW s \in Socks, Accepted(t, s)
  PROVE  \A r \in Socks : usr'[r].due = usr[r].due /\ obj'[r].sockptr = obj[r].sockptr
<1>0. obj[s] \in Object /\ usr[s] \in User /\ obj \in [Socks -> Object] /\ usr \in [Socks -> User]
  BY DEF TypeOK
<1>1. ASSUME NEW r \in Socks, r # s PROVE usr'[r] = usr[r] /\ obj'[r] = obj[r]
  BY <1>0, <1>1 DEF Accepted
<1>2. \/ usr'[s] = [usr[s] EXCEPT !.held = FALSE]
      \/ usr'[s] = [usr[s] EXCEPT !.held = FALSE, !.st = "open"]
  BY <1>0 DEF Accepted
<1>3. obj'[s] = obj[s] \/ obj'[s] = [obj[s] EXCEPT !.open = TRUE]
  BY <1>0 DEF Accepted
<1>4. usr'[s].due = usr[s].due
  BY <1>0, <1>2 DEF User
<1>5. obj'[s].sockptr = obj[s].sockptr
  BY <1>0, <1>3 DEF Object
<1> QED BY <1>1, <1>4, <1>5

LEMMA HandleSame ==
  ASSUME TypeOK, NEW t \in Threads, NEW s \in Socks,
         MakeShared(s) \/ KeepHandle(t, s) \/ DropHandle(s)
  PROVE  \A r \in Socks : usr'[r].due = usr[r].due /\ obj'[r].sockptr = obj[r].sockptr
<1>0. obj[s] \in Object /\ usr[s] \in User /\ obj \in [Socks -> Object] /\ usr \in [Socks -> User]
  BY DEF TypeOK
<1>1. ASSUME NEW r \in Socks, r # s PROVE usr'[r] = usr[r] /\ obj'[r] = obj[r]
  BY <1>0, <1>1 DEF MakeShared, KeepHandle, DropHandle, Release
<1>2. usr'[s] = [usr[s] EXCEPT !.held = FALSE] \/ usr'[s] = [usr[s] EXCEPT !.held = TRUE]
  BY <1>0 DEF MakeShared, KeepHandle, DropHandle
<1>3. \/ obj'[s] = obj[s]
      \/ obj'[s] = [obj[s] EXCEPT !.life = "alive"]
      \/ obj'[s] = [obj[s] EXCEPT !.life = "freed", !.open = FALSE]
  BY <1>0 DEF MakeShared, KeepHandle, DropHandle, Release
<1>4. usr'[s].due = usr[s].due
  BY <1>0, <1>2 DEF User
<1>5. obj'[s].sockptr = obj[s].sockptr
  BY <1>0, <1>3 DEF Object
<1> QED BY <1>1, <1>4, <1>5

LEMMA CallSame ==
  ASSUME TypeOK, NEW t \in Threads, NEW s \in Socks, Call(t, s)
  PROVE  \A r \in Socks : usr'[r].due = usr[r].due /\ obj'[r].sockptr = obj[r].sockptr
<1>0. obj[s] \in Object /\ usr[s] \in User /\ obj \in [Socks -> Object] /\ usr \in [Socks -> User]
  BY DEF TypeOK
<1>1. usr' = usr \/ usr' = [usr EXCEPT ![s].st = "dialing"]
  BY DEF Call, Connect, Reconnect, Dials, ReconnectFails, Read, Write, Transfer, Close
<1>2. obj' = obj \/ obj' = [obj EXCEPT ![s].open = TRUE] \/ obj' = [obj EXCEPT ![s].open = FALSE]
  BY DEF Call, Connect, Reconnect, Dials, ReconnectFails, Read, Write, Transfer, Close
<1>3. ASSUME NEW r \in Socks, r # s PROVE usr'[r] = usr[r] /\ obj'[r] = obj[r]
  BY <1>0, <1>1, <1>2, <1>3
<1>4. usr'[s].due = usr[s].due
  BY <1>0, <1>1 DEF User
<1>5. obj'[s].sockptr = obj[s].sockptr
  BY <1>0, <1>2 DEF Object
<1> QED BY <1>3, <1>4, <1>5

\* A callback returns: its object is destroyed only with nothing outstanding.
LEMMA ReturnReleases ==
  ASSUME KInv, NEW t \in Threads, Return(t)
  PROVE  /\ tmpptr[t] \in Socks
         /\ \A r \in Socks : obj'[r].sockptr = obj[r].sockptr
         /\ \A r \in Socks : obj'[r].life # obj[r].life =>
              /\ r = tmpptr[t] /\ obj[r].sockptr = {} /\ obj'[r].life = "freed"
              /\ \A u \in Threads \ {t} : tmpptr[u] # r
<1> DEFINE s == tmpptr[t]
           kept == \/ usr[s].held
                   \/ obj[s].sockptr # {}
                   \/ \E u \in Threads \ {t} : tmpptr[u] = s
<1>1. s \in Socks /\ kept \in BOOLEAN /\ Release(s, kept) /\ (~kept => obj[s].sockptr = {})
  BY DEF Return, KInv, TypeOK
<1>2. ~kept => \A u \in Threads \ {t} : tmpptr[u] # s
  OBVIOUS
<1> HIDE DEF kept
<1>3. /\ \A r \in Socks : obj'[r].sockptr = obj[r].sockptr
      /\ \A r \in Socks : obj'[r].life # obj[r].life => r = s /\ ~kept
  BY <1>1, ReleaseKeeps
<1>4. obj[s] \in Object /\ obj \in [Socks -> Object]
  BY <1>1 DEF KInv, TypeOK
<1>5. ~kept => obj'[s].life = "freed"
  BY <1>1, <1>4 DEF Release, Object
<1> QED BY <1>1, <1>2, <1>3, <1>5

-----------------------------------------------------------------------------
(***************************************************************************)
(* The steps preserve Agreed.                                              *)
(***************************************************************************)

\* The calls of the application, but for their return.
LEMMA CallAgrees ==
  ASSUME OInv, NEW t \in Threads, NEW s \in Socks, Call(t, s)
  PROVE  Agreed'
<1>0. TypeOK
  BY DEF OInv, KInv
<1>1. \A r \in Socks : usr'[r].due = usr[r].due /\ obj'[r].sockptr = obj[r].sockptr
  BY <1>0, CallSame
<1>2. CASE UNCHANGED <<io, starting>>
  BY <1>1, <1>2 DEF OInv, Agreed, InCall
<1>3. ASSUME NEW k \in Kinds, Overlapped(t, s, k) PROVE Agreed'
  <2>1. ASSUME NEW r \in Socks, NEW j \in Kinds, r # s \/ j # k
        PROVE  io'[r][j] = io[r][j] /\ (InCall(r, j)' => InCall(r, j))
    BY <1>0, <1>3, <2>1 DEF Overlapped, TypeOK, InCall
  <2>2. io'[s][k] = "pending"
    BY <1>0, <1>3 DEF Overlapped, TypeOK
  <2>3. ASSUME NEW r \in Socks, NEW j \in Kinds
        PROVE  /\ j \in obj'[r].sockptr <=> j \in usr'[r].due
               /\ j \in usr'[r].due \/ InCall(r, j)' => io'[r][j] # "idle"
    <3>1. CASE r = s /\ j = k
      BY <1>1, <2>2, <3>1 DEF OInv, Agreed
    <3>2. CASE r # s \/ j # k
      BY <1>1, <2>1, <3>2 DEF OInv, Agreed
    <3> QED BY <3>1, <3>2
  <2> QED BY <2>3 DEF Agreed
<1> QED BY <1>2, <1>3 DEF Call, Connect, Reconnect, Dials, ReconnectFails, Read, Write, Transfer,
                          Close, Unstarted

\* A call returns true: the reference and what is due grow together.
LEMMA SetSockptrAgrees ==
  ASSUME OInv, NEW t \in Threads, NEW s \in Socks, NEW k \in Kinds, SetSockptr(t, s, k)
  PROVE  Agreed'
<1>0. TypeOK
  BY DEF OInv, KInv
<1>1. ASSUME NEW r \in Socks
      PROVE  /\ obj'[r].sockptr = IF r = s THEN obj[s].sockptr \cup {k} ELSE obj[r].sockptr
             /\ usr'[r].due = IF r = s THEN usr[s].due \cup {k} ELSE usr[r].due
  BY <1>0, <1>1 DEF SetSockptr, TypeOK, Object, User
<1>2. InCall(s, k) /\ io' = io
  BY DEF SetSockptr, InCall
<1>3. ASSUME NEW r \in Socks, NEW j \in Kinds PROVE InCall(r, j)' => InCall(r, j)
  BY <1>3 DEF SetSockptr, InCall
<1> QED BY <1>1, <1>2, <1>3 DEF OInv, Agreed

\* A callback is called: the reference and what is due shrink together.
LEMMA TakeAgrees ==
  ASSUME OneThread, OInv, NEW t \in Threads, NEW s \in Socks, NEW k \in Kinds, Take(t, s, k)
  PROVE  Agreed'
<1>0. TypeOK /\ OnIocpMsg(t, s, k)
  BY NoneDropped DEF OInv, KInv
<1>1. ASSUME NEW r \in Socks
      PROVE  /\ obj'[r].sockptr = IF r = s THEN obj[s].sockptr \ {k} ELSE obj[r].sockptr
             /\ usr'[r].due = IF r = s THEN usr[s].due \ {k} ELSE usr[r].due
  BY <1>0, <1>1 DEF OnIocpMsg, MovesReference, TypeOK, Object, User
<1>2. ASSUME NEW r \in Socks, NEW j \in Kinds, r # s \/ j # k PROVE io'[r][j] = io[r][j]
  BY <1>0, <1>2 DEF Take, TypeOK
<1>3. starting' = starting /\ ~InCall(s, k)
  BY IdleThread DEF Take
<1> QED BY <1>1, <1>2, <1>3 DEF OInv, Agreed, InCall

\* What else happens leaves all three views alone.
LEMMA OthersAgree ==
  ASSUME OInv, UNCHANGED starting,
         \A s \in Socks : obj'[s].sockptr = obj[s].sockptr /\ usr'[s].due = usr[s].due,
         \A s \in Socks, k \in Kinds : io'[s][k] = "idle" <=> io[s][k] = "idle"
  PROVE  Agreed'
  BY DEF OInv, Agreed, InCall

LEMMA OStep ==
  ASSUME OneThread, OInv, [Next]_vars
  PROVE  OInv'
<1>0. KInv' /\ TypeOK
  BY KStep DEF OInv, KInv
<1>1. CASE UNCHANGED vars
  BY <1>0, <1>1, OthersAgree DEF vars, OInv
<1>2. ASSUME NEW t \in Threads, NEW s \in Socks, Accepted(t, s) PROVE OInv'
  <2>1. UNCHANGED <<io, starting>>
    BY <1>2 DEF Accepted
  <2> QED BY <1>0, <1>2, <2>1, AcceptedSame, OthersAgree DEF OInv
<1>3. ASSUME NEW t \in Threads, Return(t) PROVE OInv'
  <2>1. UNCHANGED <<usr, io, starting>>
    BY <1>3 DEF Return
  <2>2. \A r \in Socks : obj'[r].sockptr = obj[r].sockptr
    BY <1>0, <1>3, ReturnReleases DEF OInv
  <2> QED BY <1>0, <2>1, <2>2, OthersAgree DEF OInv
<1>4. ASSUME NEW t \in Threads, NEW s \in Socks, NEW k \in Kinds, Take(t, s, k) PROVE OInv'
  BY <1>0, <1>4, TakeAgrees DEF OInv
<1>5. ASSUME NEW t \in Threads, CallReturns(t) PROVE OInv'
  BY <1>0, <1>5, SetSockptrAgrees DEF CallReturns, OInv
<1>6. ASSUME NEW t \in Threads, NEW s \in Socks,
             MakeShared(s) \/ KeepHandle(t, s) \/ DropHandle(s)
      PROVE  OInv'
  <2>1. UNCHANGED <<io, starting>>
    BY <1>6 DEF MakeShared, KeepHandle, DropHandle
  <2> QED BY <1>0, <1>6, <2>1, HandleSame, OthersAgree DEF OInv
<1>7. ASSUME NEW s \in Socks, NEW k \in Kinds, Complete(s, k) PROVE OInv'
  <2>1. ASSUME NEW r \in Socks, NEW j \in Kinds PROVE io'[r][j] = "idle" <=> io[r][j] = "idle"
    BY <1>0, <1>7, <2>1 DEF Complete, TypeOK
  <2> QED BY <1>0, <1>7, <2>1, OthersAgree DEF Complete, OInv
<1>8. ASSUME NEW t \in Threads, NEW s \in Socks, Call(t, s) PROVE OInv'
  BY <1>0, <1>8, CallAgrees DEF OInv
<1> QED BY <1>1, <1>2, <1>3, <1>4, <1>5, <1>6, <1>7, <1>8
        DEF Next, Run, TimesOut, Application, System

-----------------------------------------------------------------------------
(***************************************************************************)
(* The refinement.                                                         *)
(***************************************************************************)
Living == {s \in Socks : obj[s].life = "alive"}
Outstanding == [s \in Socks |-> {k \in Kinds : io[s][k] # "idle"}]

\* A step changes what the contract sees of an operation as io changes.
LEMMA StartSeen ==
  ASSUME TypeOK, NEW s \in Socks, NEW k \in Kinds, NEW v \in IoState \ {"idle"},
         io' = [io EXCEPT ![s][k] = v]
  PROVE  Outstanding' = [Outstanding EXCEPT ![s] = @ \cup {k}]
<1>1. ASSUME NEW r \in Socks
      PROVE  Outstanding'[r] = [Outstanding EXCEPT ![s] = @ \cup {k}][r]
  BY <1>1 DEF Outstanding, TypeOK, IoState
<1>2. Outstanding' = [r \in Socks |-> Outstanding'[r]]
  BY DEF Outstanding
<1>3. [Outstanding EXCEPT ![s] = @ \cup {k}]
        = [r \in Socks |-> [Outstanding EXCEPT ![s] = @ \cup {k}][r]]
  BY DEF Outstanding
<1> HIDE DEF Outstanding
<1> QED BY <1>1, <1>2, <1>3

LEMMA AnswerSeen ==
  ASSUME TypeOK, NEW s \in Socks, NEW k \in Kinds, io' = [io EXCEPT ![s][k] = "idle"]
  PROVE  Outstanding' = [Outstanding EXCEPT ![s] = @ \ {k}]
<1>1. ASSUME NEW r \in Socks
      PROVE  Outstanding'[r] = [Outstanding EXCEPT ![s] = @ \ {k}][r]
  BY <1>1 DEF Outstanding, TypeOK, IoState
<1>2. Outstanding' = [r \in Socks |-> Outstanding'[r]]
  BY DEF Outstanding
<1>3. [Outstanding EXCEPT ![s] = @ \ {k}]
        = [r \in Socks |-> [Outstanding EXCEPT ![s] = @ \ {k}][r]]
  BY DEF Outstanding
<1> HIDE DEF Outstanding
<1> QED BY <1>1, <1>2, <1>3

\* Objects that keep their life are the same objects to the contract.
LEMMA LivingSeen ==
  ASSUME \A s \in Socks : obj'[s].life = obj[s].life
  PROVE  Living' = Living
  BY DEF Living

\* The initial states of the loop are those of the contract.
LEMMA InitIsContracts == Init => Contract!ProactorInit
<1> SUFFICES ASSUME Init PROVE Contract!ProactorInit
  OBVIOUS
<1>1. Living = {}
  BY DEF Init, Living
<1>2. Outstanding = [s \in Socks |-> {}]
  BY DEF Init, Outstanding
<1> QED BY <1>1, <1>2 DEF Init, Contract!ProactorInit, Living, Outstanding

\* A step that neither starts, answers, creates, destroys nor calls.
LEMMA UnseenStep ==
  ASSUME TypeOK, UNCHANGED tmpptr,
         \A s \in Socks : obj'[s].life = obj[s].life,
         \A s \in Socks, k \in Kinds : io'[s][k] = "idle" <=> io[s][k] = "idle"
  PROVE  UNCHANGED Contract!proactorVars
<1>1. Living' = Living
  BY DEF Living
<1>2. Outstanding' = Outstanding
  BY DEF Outstanding
<1> QED BY <1>1, <1>2 DEF Contract!proactorVars, Living, Outstanding

\* The calls of the application start an operation, or close.
LEMMA CallIsContracts ==
  ASSUME OInv, NEW t \in Threads, NEW s \in Socks, Call(t, s)
  PROVE  [Contract!ProactorNext]_(Contract!proactorVars)
<1>0. TypeOK /\ obj[s].life = "alive"
  BY DEF OInv, KInv, Call, Reaches
<1>1. \A r \in Socks : obj'[r].life = obj[r].life
  <2>0. obj[s] \in Object /\ obj \in [Socks -> Object]
    BY <1>0 DEF TypeOK
  <2>1. obj' = obj \/ obj' = [obj EXCEPT ![s].open = TRUE] \/ obj' = [obj EXCEPT ![s].open = FALSE]
    BY DEF Call, Connect, Reconnect, Dials, ReconnectFails, Read, Write, Transfer, Close
  <2>2. ASSUME NEW r \in Socks, r # s PROVE obj'[r] = obj[r]
    BY <2>0, <2>1, <2>2
  <2>3. obj'[s].life = obj[s].life
    BY <2>0, <2>1 DEF Object
  <2> QED BY <2>2, <2>3
<1>2. CASE Close(s) \/ ReconnectFails(s)
  <2>1. UNCHANGED <<io, tmpptr>>
    BY <1>2 DEF Close, ReconnectFails
  <2> QED BY <1>0, <1>1, <2>1, UnseenStep
<1>3. ASSUME NEW k \in Kinds, Unstarted(s, k), Overlapped(t, s, k)
      PROVE  Contract!ProactorNext
  <2>1. io[s][k] = "idle"
    BY <1>3, UnstartedIsIdle
  <2>2. Outstanding' = [Outstanding EXCEPT ![s] = @ \cup {k}]
    BY <1>0, <1>3, StartSeen DEF Overlapped, IoState
  <2>3. Living' = Living /\ tmpptr' = tmpptr
    BY <1>1, <1>3, LivingSeen DEF Overlapped
  <2>4. s \in Living /\ k \notin Outstanding[s]
    BY <1>0, <2>1 DEF Living, Outstanding
  <2>5. Contract!Start(s, k)
    BY <2>2, <2>3, <2>4 DEF Contract!Start, Living, Outstanding
  <2> QED BY <2>5 DEF Contract!ProactorNext
<1> QED BY <1>2, <1>3
        DEF Call, Connect, Reconnect, Dials, Read, Write, Transfer, Unstarted

\* A completion taken is an answer.
LEMMA TakeIsContracts ==
  ASSUME OneThread, OInv, NEW t \in Threads, NEW s \in Socks, NEW k \in Kinds, Take(t, s, k)
  PROVE  Contract!ProactorNext
<1>0. TypeOK /\ OnIocpMsg(t, s, k)
  BY NoneDropped DEF OInv, KInv
<1>1. Outstanding' = [Outstanding EXCEPT ![s] = @ \ {k}]
  BY <1>0, AnswerSeen DEF Take
<1>2. Living' = Living
  <2>0. obj[s] \in Object /\ obj \in [Socks -> Object]
    BY <1>0 DEF TypeOK
  <2>1. ASSUME NEW r \in Socks, r # s PROVE obj'[r] = obj[r]
    BY <1>0, <2>0, <2>1 DEF OnIocpMsg, MovesReference
  <2>2. obj'[s].life = obj[s].life
    BY <1>0, <2>0 DEF OnIocpMsg, MovesReference, Object
  <2> QED BY <2>1, <2>2, LivingSeen
<1>3. tmpptr[t] = NoSock /\ tmpptr' = [tmpptr EXCEPT ![t] = s] /\ k \in Outstanding[s]
  BY <1>0 DEF Take, OnIocpMsg, Outstanding
<1>4. Contract!Answer(t, s, k)
  BY <1>1, <1>2, <1>3 DEF Contract!Answer, Living, Outstanding
<1> QED BY <1>4 DEF Contract!ProactorNext

\* onAccept is an announcement.
LEMMA AcceptedIsContracts ==
  ASSUME OInv, NEW t \in Threads, NEW s \in Socks, Accepted(t, s)
  PROVE  Contract!ProactorNext
<1>0. TypeOK /\ UNCHANGED io /\ s \in Living
  BY DEF OInv, KInv, Accepted, Living
<1>1. Outstanding' = Outstanding /\ Outstanding[s] = {}
  BY <1>0 DEF OInv, KInv, Fresh, Accepted, Outstanding
<1>2. Living' = Living
  <2>0. obj[s] \in Object /\ obj \in [Socks -> Object]
    BY <1>0 DEF TypeOK
  <2>1. ASSUME NEW r \in Socks, r # s PROVE obj'[r] = obj[r]
    BY <2>0, <2>1 DEF Accepted
  <2>2. obj'[s] = obj[s] \/ obj'[s] = [obj[s] EXCEPT !.open = TRUE]
    BY <2>0 DEF Accepted
  <2>3. obj'[s].life = obj[s].life
    BY <2>0, <2>2 DEF Object
  <2> QED BY <2>1, <2>3, LivingSeen
<1>3. tmpptr[t] = NoSock /\ tmpptr' = [tmpptr EXCEPT ![t] = s]
  BY DEF Accepted
<1>4. Contract!Announce(t, s)
  BY <1>0, <1>1, <1>2, <1>3 DEF Contract!Announce, Living, Outstanding
<1> QED BY <1>4 DEF Contract!ProactorNext

\* The end of a callback, with or without the end of its object.
LEMMA ReturnIsContracts ==
  ASSUME OneThread, OInv, NEW t \in Threads, Return(t)
  PROVE  Contract!ProactorNext
<1> DEFINE s == tmpptr[t]
<1>0. TypeOK /\ KInv /\ UNCHANGED io /\ tmpptr' = [tmpptr EXCEPT ![t] = NoSock] /\ s # NoSock
  BY DEF OInv, KInv, Return
<1>1. /\ s \in Socks
      /\ \A r \in Socks : obj'[r].life # obj[r].life =>
              /\ r = s /\ obj[r].sockptr = {} /\ obj'[r].life = "freed"
              /\ \A u \in Threads \ {t} : tmpptr[u] # r
  BY <1>0, ReturnReleases
<1>2. Outstanding' = Outstanding
  BY <1>0 DEF Outstanding
<1>3. CASE \A r \in Socks : obj'[r].life = obj[r].life
  <2>1. Living' = Living
    BY <1>3, LivingSeen
  <2>2. Contract!Return(t)
    BY <1>0, <1>2, <2>1 DEF Contract!Return, Living, Outstanding
  <2> QED BY <2>2 DEF Contract!ProactorNext
<1>4. CASE obj'[s].life # obj[s].life
  <2>1. Living' = Living \ {s}
    BY <1>1, <1>4 DEF Living
  <2>2. Outstanding[s] = {}
    BY <1>1, <1>4, IdleThread, UnreferencedIsIdle DEF Return, Outstanding
  <2>3. \A u \in Threads : tmpptr'[u] # s
    BY <1>0, <1>1, <1>4 DEF TypeOK
  <2>4. Contract!Return(t)
    BY <1>0, <1>2, <2>1, <2>2, <2>3
       DEF Contract!Return, Contract!Destroyed, Living, Outstanding
  <2> QED BY <2>4 DEF Contract!ProactorNext
<1> QED BY <1>1, <1>3, <1>4

\* What the application does with its handles creates or destroys an object.
LEMMA HandleIsContracts ==
  ASSUME OInv, NEW t \in Threads, NEW s \in Socks,
         MakeShared(s) \/ KeepHandle(t, s) \/ DropHandle(s)
  PROVE  [Contract!ProactorNext]_(Contract!proactorVars)
<1>0. TypeOK /\ UNCHANGED <<io, tmpptr>> /\ obj[s] \in Object /\ obj \in [Socks -> Object]
  BY DEF OInv, KInv, TypeOK, MakeShared, KeepHandle, DropHandle
<1>1. Outstanding' = Outstanding
  BY <1>0 DEF Outstanding
<1>2. ASSUME NEW r \in Socks, r # s PROVE obj'[r] = obj[r]
  BY <1>0, <1>2 DEF MakeShared, KeepHandle, DropHandle, Release
<1>3. CASE obj'[s].life = obj[s].life
  BY <1>0, <1>2, <1>3, UnseenStep
<1>4. CASE MakeShared(s)
  <2>1. obj'[s].life = "alive" /\ obj[s].life = "none"
    BY <1>0, <1>4 DEF MakeShared, Object
  <2>2. Living' = Living \cup {s} /\ s \notin Living
    BY <1>2, <2>1 DEF Living
  <2>3. Contract!Create(s)
    BY <1>0, <1>1, <2>2 DEF Contract!Create, Living, Outstanding
  <2> QED BY <2>3 DEF Contract!ProactorNext
<1>5. CASE DropHandle(s) /\ obj'[s].life # obj[s].life
  <2>1. obj[s].sockptr = {} /\ ~InCallback(s) /\ \A k \in Kinds : ~InCall(s, k)
    BY <1>5 DEF DropHandle, Release
  <2>2. obj'[s].life = "freed"
    BY <1>0, <1>5 DEF DropHandle, Release, Object
  <2>3. Living' = Living \ {s}
    BY <1>2, <2>2 DEF Living
  <2>4. Outstanding[s] = {}
    BY <2>1, UnreferencedIsIdle DEF Outstanding
  <2>5. Contract!Destroy(s)
    BY <1>0, <1>1, <2>1, <2>3, <2>4
       DEF Contract!Destroy, Contract!Destroyed, InCallback, Living, Outstanding
  <2> QED BY <2>5 DEF Contract!ProactorNext
<1> QED BY <1>3, <1>4, <1>5 DEF KeepHandle

\* Every step of the loop is one of the contract, or none.
LEMMA StepIsContracts ==
  ASSUME OneThread, OInv, [Next]_vars
  PROVE  [Contract!ProactorNext]_(Contract!proactorVars)
<1>0. TypeOK
  BY DEF OInv, KInv
<1>1. CASE UNCHANGED vars
  BY <1>0, <1>1, UnseenStep DEF vars
<1>2. CASE Run
  BY <1>1, <1>2, TakeIsContracts, AcceptedIsContracts, ReturnIsContracts DEF Run, TimesOut
<1>3. ASSUME NEW t \in Threads, CallReturns(t)
      PROVE  UNCHANGED Contract!proactorVars
  <2>1. PICK s \in Socks, k \in Kinds : SetSockptr(t, s, k)
    BY <1>3 DEF CallReturns
  <2>2. UNCHANGED <<io, tmpptr>> /\ obj[s] \in Object /\ obj \in [Socks -> Object]
    BY <1>0, <2>1 DEF SetSockptr, TypeOK
  <2>3. ASSUME NEW r \in Socks, r # s PROVE obj'[r] = obj[r]
    BY <2>1, <2>2, <2>3 DEF SetSockptr
  <2>4. obj'[s].life = obj[s].life
    BY <2>1, <2>2 DEF SetSockptr, Object
  <2> QED BY <1>0, <2>2, <2>3, <2>4, UnseenStep
<1>4. CASE Application
  BY <1>4, CallIsContracts, HandleIsContracts DEF Application
<1>5. CASE System
  <2>1. PICK s \in Socks, k \in Kinds : Complete(s, k)
    BY <1>5 DEF System
  <2>2. ASSUME NEW r \in Socks, NEW j \in Kinds PROVE io'[r][j] = "idle" <=> io[r][j] = "idle"
    BY <1>0, <2>1, <2>2 DEF Complete, TypeOK
  <2> QED BY <1>0, <2>1, <2>2, UnseenStep DEF Complete
<1> QED BY <1>1, <1>2, <1>3, <1>4, <1>5 DEF Next

-----------------------------------------------------------------------------
\* The references, the application's view and the system's always agree.
THEOREM OInvariance == ASSUME OneThread PROVE Spec => []OInv
<1>1. OInv /\ [Next]_vars => OInv'
  BY OStep
<1> QED BY <1>1, InitOInv, PTL DEF Spec

(***************************************************************************)
(* With one thread in run() no completion is dropped: an operation for     *)
(* which the application waits is with the system or on the port.          *)
(***************************************************************************)
THEOREM DueAreOutstanding == ASSUME OneThread PROVE Spec => []DueIsOutstanding
<1>1. OInv => DueIsOutstanding
  BY DEF OInv, Agreed, DueIsOutstanding
<1> QED BY <1>1, OInvariance, PTL

(***************************************************************************)
(* With one thread in run() the sockets keep the promise of the README:    *)
(* one callback for each operation, and the object alive until then.       *)
(***************************************************************************)
THEOREM LoopImplementsProactor == ASSUME OneThread PROVE Spec => ImplementsProactor
<1>1. OInv /\ [Next]_vars => [Contract!ProactorNext]_(Contract!proactorVars)
  BY StepIsContracts
<1> QED BY <1>1, InitIsContracts, OInvariance, PTL
        DEF Spec, ImplementsProactor, Contract!ProactorSpec

-----------------------------------------------------------------------------
(***************************************************************************)
(* The listener.  That it does to the loop only what IocpLoop allows is    *)
(* what carries KInv over, and KInv is needed for the other facts; so all  *)
(* are proved together, step by step.                                      *)
(***************************************************************************)

USE IocpAssumption DEF IocpAssumption

\* A call of accept(), where it stands, and the only one there is.
InAccept ==
  \A t \in Threads, s \in Socks, m \in Members :
     <<t, s, m>> \in offering =>
       /\ offering = {<<t, s, m>>}
       /\ ~lsn.socket
       /\ lsn.sioptr = IF m = "_socket" THEN s ELSE NoSock
       /\ lio # "idle" \/ spinning # {}

\* Outside accept() both members are set while an offer is out, or neither is.
Returned ==
  offering = {} =>
    IF lio # "idle" \/ spinning # {} THEN lsn.socket ELSE lsn.sioptr = NoSock

\* One thread waits in onIocpAccept, having taken the completion.
Waiting ==
  \A t \in Threads, r \in Results :
     <<t, r>> \in spinning =>
       spinning = {<<t, r>>} /\ lio = "idle" /\ tmpptr[t] = NoSock /\ ~Busy(t)

\* The offered socket is kept, and in no other use.
OfferUnused ==
  \A s \in Socks : Offered(s) =>
    obj[s].life = "alive" /\ ~obj[s].open /\ usr[s].held /\ usr[s].st = "none"

\* A socket that is new to the network has no descriptor.
NewIsClosed == \A s \in Socks : usr[s].st = "none" => ~obj[s].open

SInv == ListenTypeOK /\ NewIsClosed /\ InAccept /\ Returned /\ Waiting /\ OfferUnused

\* The initial states.
LEMMA InitSInv == ServerInit => KInv /\ SInv
<1> SUFFICES ASSUME ServerInit PROVE SInv
  BY InitKInv DEF ServerInit
<1>1. ListenTypeOK
  BY DEF ServerInit, ListenTypeOK, Listener, IoState
<1>2. InAccept /\ Returned /\ Waiting
  BY DEF ServerInit, InAccept, Returned, Waiting
<1>3. OfferUnused
  BY DEF ServerInit, OfferUnused, Offered
<1>4. NewIsClosed
  BY DEF ServerInit, Init, NewIsClosed
<1> QED BY <1>1, <1>2, <1>3, <1>4 DEF SInv

-----------------------------------------------------------------------------
(***************************************************************************)
(* The steps of the listener.                                              *)
(***************************************************************************)

\* While <<t, s, m>> is in offering, s is the only socket on offer.
LEMMA OfferedIs ==
  ASSUME SInv, NEW t \in Threads, NEW s \in Socks, NEW m \in Members,
         <<t, s, m>> \in offering
  PROVE  \A r \in Socks : Offered(r) <=> r = s
<1>1. offering = {<<t, s, m>>} /\ lsn.sioptr \in {s, NoSock}
  BY DEF SInv, InAccept
<1> QED BY <1>1 DEF Offered

\* A wait that ends hands the loop a socket as Accepted wants it.
LEMMA WaitGivesOffer ==
  ASSUME SInv, NEW t \in Threads, NEW r \in Results, <<t, r>> \in spinning, lsn.socket
  PROVE  /\ offering = {} /\ spinning = {<<t, r>>} /\ lio = "idle"
         /\ tmpptr[t] = NoSock /\ ~Busy(t)
         /\ lsn.sioptr \in Socks
         /\ obj[lsn.sioptr].life = "alive" /\ ~obj[lsn.sioptr].open
         /\ usr[lsn.sioptr].held /\ usr[lsn.sioptr].st = "none"
<1>1. spinning = {<<t, r>>} /\ lio = "idle" /\ tmpptr[t] = NoSock /\ ~Busy(t)
  BY DEF SInv, Waiting
<1>2. offering = {}
  BY DEF SInv, InAccept, ListenTypeOK
<1>3. lsn.sioptr \in Socks
  BY DEF SInv, ListenTypeOK, Listener
<1>4. Offered(lsn.sioptr)
  BY DEF Offered
<1> QED BY <1>1, <1>2, <1>3, <1>4 DEF SInv, OfferUnused

\* listen() and close() change neither the loop nor the offer.
LEMMA OpenInv ==
  ASSUME SInv, Listen \/ CloseListener
  PROVE  SInv' /\ UNCHANGED vars
<1>1. UNCHANGED <<vars, offering, spinning>> /\ UNCHANGED <<obj, usr, io, starting, tmpptr>>
  BY DEF Listen, CloseListener, vars
<1>2. /\ lsn' \in Listener /\ lsn'.sioptr = lsn.sioptr /\ lsn'.socket = lsn.socket
      /\ lio' \in IoState /\ (lio' = "idle" <=> lio = "idle")
  BY DEF Listen, CloseListener, SInv, ListenTypeOK, Listener, IoState
<1>3. ListenTypeOK'
  BY <1>1, <1>2 DEF SInv, ListenTypeOK
<1>4. InAccept' /\ Returned'
  BY <1>1, <1>2 DEF SInv, InAccept, Returned
<1>5. Waiting'
  BY <1>1, <1>2 DEF SInv, Waiting, Busy
<1>6. OfferUnused' /\ NewIsClosed'
  BY <1>1, <1>2 DEF SInv, OfferUnused, Offered, NewIsClosed
<1> QED BY <1>1, <1>3, <1>4, <1>5, <1>6 DEF SInv

\* accept() makes the call, keeping the socket for the application.
LEMMA StartAcceptInv ==
  ASSUME KInv, SInv, NEW t \in Threads, NEW s \in Socks, StartAccept(t, s), ~Busy(t)
  PROVE  SInv' /\ [Next]_vars
<1>0. usr \in [Socks -> User] /\ usr[s] \in User
  BY DEF KInv, TypeOK
<1>1. /\ UNCHANGED <<obj, io, starting, tmpptr, lsn, spinning>>
      /\ lio = "idle" /\ offering = {} /\ spinning = {}
      /\ lio' = "pending" /\ offering' = {<<t, s, "_sioptr">>}
  BY DEF StartAccept, OfferIsOut
<1>2. lsn.sioptr = NoSock /\ ~lsn.socket
  BY <1>1 DEF SInv, Returned, ListenTypeOK, Listener
<1>3. ListenTypeOK'
  BY <1>1 DEF SInv, ListenTypeOK, IoState, Members
<1>4. InAccept' /\ Returned' /\ Waiting'
  BY <1>1, <1>2 DEF InAccept, Returned, Waiting
<1>5. OfferUnused'
  <2> SUFFICES ASSUME NEW r \in Socks, Offered(r)'
               PROVE  /\ obj'[r].life = "alive" /\ ~obj'[r].open
                      /\ usr'[r].held /\ usr'[r].st = "none"
    BY DEF OfferUnused
  <2>1. r = s
    BY <1>1, <1>2 DEF Offered
  <2>2. usr'[s].held /\ usr'[s].st = "none"
    BY <1>0 DEF StartAccept, User
  <2>3. obj[s].life = "alive" /\ ~obj[s].open
    BY DEF StartAccept, Reaches, SInv, NewIsClosed
  <2> QED BY <1>1, <2>1, <2>2, <2>3
<1>6. [Next]_vars
  <2>1. CASE usr[s].held
    BY <1>0, <1>1, <2>1 DEF StartAccept, vars, User
  <2>2. CASE ~usr[s].held
    <3>1. KeepHandle(t, s)
      BY <2>2 DEF StartAccept, KeepHandle, Reaches
    <3> QED BY <3>1 DEF Next, Application
  <2> QED BY <2>1, <2>2
<1>7. NewIsClosed'
  BY <1>0, <1>1 DEF StartAccept, SInv, NewIsClosed, User
<1> QED BY <1>3, <1>4, <1>5, <1>6, <1>7 DEF SInv

\* The two assignments that end accept().
LEMMA AssignsInv ==
  ASSUME SInv, NEW t \in Threads, NEW s \in Socks, Assigns(t, s), UNCHANGED <<vars, lio, spinning>>
  PROVE  SInv'
<1>1. UNCHANGED <<obj, usr, io, starting, tmpptr, lio, spinning>>
  BY DEF vars
<1>2. PICK m \in Members : <<t, s, m>> \in offering
  BY DEF Assigns, Members
<1>3. /\ offering = {<<t, s, m>>} /\ ~lsn.socket
      /\ lsn.sioptr = IF m = "_socket" THEN s ELSE NoSock
      /\ lio # "idle" \/ spinning # {}
  BY <1>2 DEF SInv, InAccept
<1>4. lsn \in Listener /\ lsn \in [open : BOOLEAN, sioptr : Socks \cup {NoSock}, socket : BOOLEAN]
  BY DEF SInv, ListenTypeOK, Listener
<1>5. \/ /\ m = "_sioptr" /\ lsn'.sioptr = s /\ ~lsn'.socket /\ lsn' \in Listener
         /\ offering' = {<<t, s, "_socket">>}
      \/ /\ m = "_socket" /\ lsn'.sioptr = s /\ lsn'.socket /\ lsn' \in Listener
         /\ offering' = {}
  <2>1. CASE m = "_sioptr"
    BY <1>3, <1>4, <2>1 DEF Assigns, Listener
  <2>2. CASE m = "_socket"
    BY <1>3, <1>4, <2>2 DEF Assigns, Listener
  <2> QED BY <2>1, <2>2 DEF Members
<1>6. ListenTypeOK'
  BY <1>1, <1>5 DEF SInv, ListenTypeOK, Members
<1>7. InAccept' /\ Returned'
  BY <1>1, <1>3, <1>5 DEF InAccept, Returned
<1>8. Waiting' /\ NewIsClosed'
  BY <1>1 DEF SInv, Waiting, Busy, NewIsClosed
<1>9. OfferUnused'
  <2>1. Offered(s)
    BY <1>2 DEF Offered
  <2>2. ASSUME NEW r \in Socks, Offered(r)' PROVE r = s
    BY <1>5, <2>2 DEF Offered
  <2> QED BY <1>1, <2>1, <2>2 DEF SInv, OfferUnused
<1> QED BY <1>6, <1>7, <1>8, <1>9 DEF SInv

\* The completion leaves the port and a thread begins to wait.
LEMMA TakeAcceptInv ==
  ASSUME SInv, NEW t \in Threads, TakeAccept(t)
  PROVE  SInv' /\ UNCHANGED vars
<1>1. UNCHANGED <<obj, usr, io, starting, tmpptr, lsn, offering>> /\ UNCHANGED vars
  BY DEF TakeAccept, vars
<1>2. spinning = {}
  <2> SUFFICES ASSUME NEW w \in spinning PROVE FALSE
    OBVIOUS
  <2>1. PICK u \in Threads, r \in Results : w = <<u, r>>
    BY DEF SInv, ListenTypeOK
  <2>2. lio = "idle"
    BY <2>1 DEF SInv, Waiting
  <2> QED BY <2>2 DEF TakeAccept, Results
<1>3. lio' = "idle" /\ spinning' = {<<t, lio>>} /\ lio \in Results
  BY <1>2 DEF TakeAccept
<1>4. ListenTypeOK'
  BY <1>1, <1>3 DEF SInv, ListenTypeOK, IoState
<1>5. InAccept' /\ Returned'
  BY <1>1, <1>3 DEF SInv, InAccept, Returned, Results
<1>6. Waiting'
  BY <1>1, <1>3 DEF TakeAccept, Waiting, Busy
<1>7. OfferUnused' /\ NewIsClosed'
  BY <1>1 DEF SInv, OfferUnused, Offered, NewIsClosed
<1> QED BY <1>1, <1>4, <1>5, <1>6, <1>7 DEF SInv

\* AcceptEx completes.
LEMMA CompleteAcceptInv ==
  ASSUME SInv, CompleteAccept
  PROVE  SInv' /\ UNCHANGED vars
<1>1. UNCHANGED <<obj, usr, io, starting, tmpptr, lsn, offering, spinning>> /\ UNCHANGED vars
  BY DEF CompleteAccept, vars
<1>2. lio # "idle" /\ lio' # "idle" /\ lio' \in IoState
  BY DEF CompleteAccept, IoState, Results
<1>3. ListenTypeOK' /\ InAccept' /\ Returned'
  BY <1>1, <1>2 DEF SInv, ListenTypeOK, InAccept, Returned
<1>4. Waiting'
  BY <1>1, <1>2 DEF SInv, Waiting
<1>5. OfferUnused' /\ NewIsClosed'
  BY <1>1 DEF SInv, OfferUnused, Offered, NewIsClosed
<1> QED BY <1>1, <1>3, <1>4, <1>5 DEF SInv

\* The wait ends: the loop's Accepted, for the socket that was offered.
LEMMA WaitEndsInv ==
  ASSUME KInv, SInv, NEW t \in Threads, WaitEnds(t)
  PROVE  SInv' /\ Accepted(t, lsn.sioptr) /\ lsn.sioptr \in Socks
<1> DEFINE s == lsn.sioptr
<1>1. PICK r \in Results : OnIocpAccept(t, r)
  BY DEF WaitEnds
<1>2. /\ offering = {} /\ spinning = {<<t, r>>} /\ lio = "idle"
      /\ tmpptr[t] = NoSock /\ ~Busy(t)
      /\ s \in Socks
      /\ obj[s].life = "alive" /\ ~obj[s].open
      /\ usr[s].held /\ usr[s].st = "none"
  BY <1>1, WaitGivesOffer DEF OnIocpAccept
<1>3. /\ lsn' = MovedOut /\ spinning' = {} /\ lio' = "idle" /\ offering' = {}
      /\ UNCHANGED <<io, starting>>
      /\ AcceptSucceeds(s) \/ AcceptFails(s)
  BY <1>1, <1>2 DEF OnIocpAccept
<1>4. Accepted(t, s)
  BY <1>1, <1>2, <1>3 DEF OnIocpAccept, Accepted, AcceptSucceeds, AcceptFails
<1>5. lsn' \in Listener /\ lsn'.sioptr = NoSock /\ ~lsn'.socket
  BY <1>3 DEF MovedOut, SInv, ListenTypeOK, Listener
<1>6. ListenTypeOK' /\ InAccept' /\ Returned' /\ Waiting'
  BY <1>3, <1>5 DEF ListenTypeOK, InAccept, Returned, Waiting, IoState
<1>7. OfferUnused'
  BY <1>3, <1>5 DEF OfferUnused, Offered
<1>8. NewIsClosed'
  <2>1. obj \in [Socks -> Object] /\ usr \in [Socks -> User] /\ obj[s] \in Object /\ usr[s] \in User
    BY <1>2 DEF KInv, TypeOK
  <2>2. ASSUME NEW x \in Socks, usr'[x].st = "none" PROVE ~obj'[x].open
    <3>1. CASE x # s
      BY <1>2, <1>3, <2>1, <2>2, <3>1 DEF AcceptSucceeds, AcceptFails, SInv, NewIsClosed
    <3>2. CASE x = s
      BY <1>2, <1>3, <2>1, <2>2, <3>2 DEF AcceptSucceeds, AcceptFails, User
    <3> QED BY <3>1, <3>2
  <2> QED BY <2>2 DEF NewIsClosed
<1> QED BY <1>2, <1>4, <1>6, <1>7, <1>8 DEF SInv

-----------------------------------------------------------------------------
(***************************************************************************)
(* The steps of the loop.                                                  *)
(***************************************************************************)

\* A step that leaves the listener alone keeps SInv if it does not touch the
\* offered socket, nor the thread that waits.
LEMMA ApartInv ==
  ASSUME SInv, UNCHANGED listenVars, NewIsClosed',
         \A s \in Socks : Offered(s) =>
            /\ obj'[s].life = obj[s].life /\ obj'[s].open = obj[s].open
            /\ usr'[s].held = usr[s].held /\ usr'[s].st = usr[s].st,
         \A t \in Threads : ~Busy(t) /\ tmpptr[t] = NoSock /\ Occupied(t) =>
            ~Busy(t)' /\ tmpptr'[t] = NoSock
  PROVE  SInv'
<1>1. UNCHANGED <<lsn, lio, offering, spinning>>
  BY DEF listenVars
<1>2. ListenTypeOK' /\ InAccept' /\ Returned'
  BY <1>1 DEF SInv, ListenTypeOK, InAccept, Returned
<1>3. Waiting'
  <2> SUFFICES ASSUME NEW t \in Threads, NEW r \in Results, <<t, r>> \in spinning
               PROVE  /\ spinning = {<<t, r>>} /\ lio = "idle"
                      /\ tmpptr'[t] = NoSock /\ ~Busy(t)'
    BY <1>1 DEF Waiting
  <2>1. spinning = {<<t, r>>} /\ lio = "idle" /\ tmpptr[t] = NoSock /\ ~Busy(t)
    BY DEF SInv, Waiting
  <2>2. Occupied(t)
    BY DEF Occupied
  <2> QED BY <2>1, <2>2
<1>4. OfferUnused'
  <2>1. \A s \in Socks : Offered(s)' <=> Offered(s)
    BY <1>1 DEF Offered
  <2> QED BY <2>1 DEF SInv, OfferUnused
<1> QED BY <1>2, <1>3, <1>4 DEF SInv

\* A new socket gets its descriptor with its connect() or its onAccept.
LEMMA NewStep ==
  ASSUME KInv, NewIsClosed, Next
  PROVE  NewIsClosed'
<1> SUFFICES ASSUME NEW r \in Socks, usr'[r].st = "none", obj'[r].open PROVE FALSE
  BY DEF NewIsClosed
<1>0. obj \in [Socks -> Object] /\ usr \in [Socks -> User] /\ obj[r] \in Object /\ usr[r] \in User
  BY DEF KInv, TypeOK
<1>1. ASSUME NEW t \in Threads, NEW s \in Socks, Accepted(t, s) PROVE FALSE
  <2>1. CASE r # s
    BY <1>0, <1>1, <2>1 DEF Accepted, NewIsClosed
  <2>2. CASE r = s
    BY <1>0, <1>1, <2>2 DEF Accepted, User
  <2> QED BY <2>1, <2>2
<1>2. ASSUME NEW t \in Threads, NEW s \in Socks, Call(t, s) PROVE FALSE
  <2>1. CASE r # s
    BY <1>0, <1>2, <2>1 DEF Call, Connect, Reconnect, Dials, ReconnectFails, Read, Write, Transfer,
          Close, NewIsClosed
  <2>2. CASE r = s
    <3>1. CASE Connect(t, s) \/ (Dials(t, s) /\ UNCHANGED obj)
      BY <1>0, <2>2, <3>1 DEF Connect, Dials, User
    <3>2. CASE ReconnectFails(s) \/ Close(s)
      BY <1>0, <2>2, <3>2 DEF ReconnectFails, Close, Object
    <3>3. CASE Read(t, s) \/ Write(t, s)
      BY <2>2, <3>3 DEF Read, Write, Transfer, NewIsClosed
    <3> QED BY <1>2, <3>1, <3>2, <3>3 DEF Call, Reconnect
  <2> QED BY <2>1, <2>2
<1>3. ASSUME NEW s \in Socks, NEW kept, Release(s, kept), usr'[r].st = usr[r].st PROVE FALSE
  <2>1. CASE r # s
    BY <1>0, <1>3, <2>1 DEF Release, NewIsClosed
  <2>2. CASE r = s
    BY <1>0, <1>3, <2>2 DEF Release, NewIsClosed, Object
  <2> QED BY <2>1, <2>2
<1>4. ASSUME NEW t \in Threads, NEW s \in Socks,
             MakeShared(s) \/ KeepHandle(t, s) \/ DropHandle(s)
      PROVE  FALSE
  <2>1. usr'[r].st = usr[r].st
    BY <1>0, <1>4 DEF MakeShared, KeepHandle, DropHandle, User
  <2>2. CASE MakeShared(s)
    BY <1>0, <2>1, <2>2 DEF MakeShared, NewIsClosed, Object
  <2>3. CASE KeepHandle(t, s)
    BY <2>1, <2>3 DEF KeepHandle, NewIsClosed
  <2>4. CASE DropHandle(s)
    BY <1>3, <2>1, <2>4 DEF DropHandle
  <2> QED BY <1>4, <2>2, <2>3, <2>4
<1>5. ASSUME NEW t \in Threads, NEW s \in Socks, NEW k \in Kinds, SetSockptr(t, s, k) PROVE FALSE
  BY <1>0, <1>5 DEF SetSockptr, NewIsClosed, Object, User
<1>6. ASSUME NEW t \in Threads, NEW s \in Socks, NEW k \in Kinds, Take(t, s, k) PROVE FALSE
  <2>1. CASE Dropped(s, k)
    BY <2>1 DEF Dropped, NewIsClosed
  <2>2. CASE OnIocpMsg(t, s, k)
    <3>1. obj'[r].open = obj[r].open
      BY <1>0, <2>2 DEF OnIocpMsg, MovesReference, Object
    <3>2. usr[r].st = "none"
      BY <1>0, <2>2 DEF OnIocpMsg, User
    <3> QED BY <3>1, <3>2 DEF NewIsClosed
  <2> QED BY <1>6, <2>1, <2>2 DEF Take
<1>7. ASSUME NEW t \in Threads, Return(t) PROVE FALSE
  <2>1. tmpptr[t] \in Socks /\ UNCHANGED usr
    BY <1>7 DEF Return, KInv, TypeOK
  <2> QED BY <1>3, <1>7, <2>1 DEF Return
<1>8. ASSUME UNCHANGED <<obj, usr>> PROVE FALSE
  BY <1>8 DEF NewIsClosed
<1> QED BY <1>1, <1>2, <1>4, <1>5, <1>6, <1>7, <1>8
        DEF Next, Run, TimesOut, Application, CallReturns, System, Complete, vars

\* A thread in a function of the listener is in no call and no callback, and
\* a step of another thread leaves it so.
LEMMA OfferedIsFresh ==
  ASSUME KInv, SInv, NEW s \in Socks, Offered(s)
  PROVE  /\ obj \in [Socks -> Object] /\ usr \in [Socks -> User]
         /\ obj[s] \in Object /\ usr[s] \in User
         /\ obj[s].life = "alive" /\ ~obj[s].open /\ usr[s].held /\ usr[s].st = "none"
         /\ \A k \in Kinds : io[s][k] = "idle" /\ ~InCall(s, k)
<1>1. usr[s].st = "none"
  BY DEF SInv, OfferUnused
<1> QED BY <1>1 DEF SInv, OfferUnused, KInv, TypeOK, Fresh

\* Calls on other sockets, by a thread outside the listener.
LEMMA OtherCallInv ==
  ASSUME KInv, SInv, NEW t \in Threads, NEW s \in Socks, ~Offered(s), ~Occupied(t),
         Call(t, s) \/ KeepHandle(t, s) \/ DropHandle(s), UNCHANGED listenVars, NewIsClosed'
  PROVE  SInv'
<1>1. ASSUME NEW r \in Socks, Offered(r)
      PROVE  obj'[r] = obj[r] /\ usr'[r] = usr[r]
  <2>1. r # s
    BY <1>1
  <2> QED BY <2>1, OfferedIsFresh, <1>1 DEF Call, Connect, Reconnect, Dials, ReconnectFails, Read,
        Write, Transfer,
          Close, KeepHandle, DropHandle, Release
<1>2. UNCHANGED tmpptr
  BY DEF Call, Connect, Reconnect, Dials, Overlapped, ReconnectFails, Read, Write, Transfer,
          Close, KeepHandle, DropHandle
<1>3. ASSUME NEW u \in Threads, ~Busy(u), Occupied(u) PROVE ~Busy(u)'
  BY <1>3 DEF Busy, Call, Connect, Reconnect, Dials, Overlapped, ReconnectFails, Read, Write, Transfer,
          Close, KeepHandle, DropHandle
<1> QED BY <1>1, <1>2, <1>3, ApartInv

\* make_shared<IoSocket> of another object.
LEMMA MakeSharedInv ==
  ASSUME KInv, SInv, NEW s \in Socks, MakeShared(s), UNCHANGED listenVars, NewIsClosed'
  PROVE  SInv'
<1>1. ASSUME NEW r \in Socks, Offered(r) PROVE obj'[r] = obj[r] /\ usr'[r] = usr[r]
  <2>1. r # s
    BY <1>1, OfferedIsFresh DEF MakeShared
  <2> QED BY <1>1, <2>1, OfferedIsFresh DEF MakeShared
<1>2. UNCHANGED <<starting, tmpptr>>
  BY DEF MakeShared
<1> QED BY <1>1, <1>2, ApartInv DEF Busy

\* run() of a thread outside the listener, a call that returns, the system.
LEMMA LoopStepInv ==
  ASSUME KInv, SInv, NEW t \in Threads,
         Runs(t) \/ CallReturns(t) \/ System, UNCHANGED listenVars, NewIsClosed'
  PROVE  SInv'
<1>1. ASSUME NEW s \in Socks, NEW k \in Kinds, Take(t, s, k), ~Occupied(t) PROVE SInv'
  <2>1. ASSUME NEW r \in Socks, Offered(r)
        PROVE  obj'[r] = obj[r] /\ usr'[r] = usr[r]
    <3>1. r # s
      BY <1>1, <2>1, OfferedIsFresh DEF Take
    <3> QED BY <1>1, <2>1, <3>1, OfferedIsFresh DEF Take, OnIocpMsg, MovesReference, Dropped
  <2>2. starting' = starting /\ \A u \in Threads : u # t => tmpptr'[u] = tmpptr[u]
    BY <1>1 DEF Take, OnIocpMsg, Dropped, KInv, TypeOK
  <2>3. \A u \in Threads : Occupied(u) => u # t
    BY <1>1
  <2> QED BY <2>1, <2>2, <2>3, ApartInv DEF Busy
<1>2. ASSUME Return(t), ~Occupied(t) PROVE SInv'
  <2>1. ASSUME NEW r \in Socks, Offered(r)
        PROVE  obj'[r] = obj[r] /\ usr'[r] = usr[r]
    <3>1. UNCHANGED usr /\ usr[r].held /\ obj \in [Socks -> Object]
      BY <1>2, <2>1, OfferedIsFresh DEF Return
    <3>2. CASE tmpptr[t] = r
      BY <1>2, <3>1, <3>2 DEF Return, Release
    <3>3. CASE tmpptr[t] # r
      BY <1>2, <3>1, <3>3 DEF Return, Release
    <3> QED BY <3>2, <3>3
  <2>2. starting' = starting /\ \A u \in Threads : u # t => tmpptr'[u] = tmpptr[u]
    BY <1>2 DEF Return, KInv, TypeOK
  <2>3. \A u \in Threads : Occupied(u) => u # t
    BY <1>2
  <2> QED BY <2>1, <2>2, <2>3, ApartInv DEF Busy
<1>3. ASSUME NEW s \in Socks, NEW k \in Kinds, SetSockptr(t, s, k) PROVE SInv'
  <2>1. ASSUME NEW r \in Socks, Offered(r)
        PROVE  obj'[r] = obj[r] /\ usr'[r] = usr[r]
    <3>1. r # s
      BY <1>3, <2>1, OfferedIsFresh DEF SetSockptr, InCall
    <3> QED BY <1>3, <2>1, <3>1, OfferedIsFresh DEF SetSockptr
  <2>2. starting' \subseteq starting /\ tmpptr' = tmpptr
    BY <1>3 DEF SetSockptr
  <2> QED BY <2>1, <2>2, ApartInv DEF Busy
<1>4. ASSUME UNCHANGED <<obj, usr, starting, tmpptr>> PROVE SInv'
  BY <1>4, ApartInv DEF Busy
<1> QED BY <1>1, <1>2, <1>3, <1>4 DEF Runs, TimesOut, CallReturns, System, Complete, vars

-----------------------------------------------------------------------------
\* One step of the server: SInv is kept, and the loop takes a step or none.
LEMMA ServerStep ==
  ASSUME KInv, SInv, ServerNext
  PROVE  SInv' /\ [Next]_vars
<1>1. ASSUME NEW t \in Threads, Runs(t) PROVE SInv' /\ [Next]_vars
  <2>1. Next
    BY <1>1 DEF Runs, Next, Run
  <2>2. NewIsClosed'
    BY <2>1, NewStep DEF SInv
  <2>3. UNCHANGED listenVars
    BY <1>1 DEF Runs
  <2>4. SInv'
    BY <1>1, <2>2, <2>3, LoopStepInv
  <2> QED BY <2>1, <2>4
<1>2. ASSUME NEW t \in Threads, TakeAccept(t) PROVE SInv' /\ [Next]_vars
  BY <1>2, TakeAcceptInv
<1>3. ASSUME NEW t \in Threads, WaitEnds(t) PROVE SInv' /\ [Next]_vars
  BY <1>3, WaitEndsInv DEF Next, Run
<1>4. ASSUME NEW t \in Threads, AcceptReturns(t) PROVE SInv' /\ [Next]_vars
  BY <1>4, AssignsInv DEF AcceptReturns
<1>5. ASSUME NEW t \in Threads, CallReturns(t), UNCHANGED listenVars PROVE SInv' /\ [Next]_vars
  <2>1. Next
    BY <1>5 DEF Next
  <2> QED BY <1>5, <2>1, NewStep, LoopStepInv DEF SInv
<1>6. CASE CompleteAccept
  BY <1>6, CompleteAcceptInv
<1>7. CASE System /\ UNCHANGED listenVars
  <2>1. Next
    BY <1>7 DEF Next
  <2>2. CASE \E t \in Threads : TRUE
    BY <1>7, <2>1, <2>2, NewStep, LoopStepInv DEF SInv
  <2>3. CASE ~\E t \in Threads : TRUE
    BY <1>7, <2>3, <2>1, NewStep, ApartInv DEF SInv, System, Complete, Busy
  <2> QED BY <2>2, <2>3
<1>8. CASE ServerApplication
  <2> SUFFICES ASSUME NEW t \in Threads, ~Busy(t), ~Occupied(t),
                      \/ Listen \/ CloseListener
                      \/ \E s \in Socks : StartAccept(t, s)
                      \/ /\ \E s \in Socks :
                               \/ MakeShared(s)
                               \/ ~Offered(s) /\ (Call(t, s) \/ KeepHandle(t, s) \/ DropHandle(s))
                         /\ UNCHANGED listenVars
               PROVE  SInv' /\ [Next]_vars
    BY <1>8 DEF ServerApplication
  <2>1. CASE Listen \/ CloseListener
    BY <2>1, OpenInv
  <2>2. CASE \E s \in Socks : StartAccept(t, s)
    BY <2>2, StartAcceptInv
  <2>3. ASSUME NEW s \in Socks, MakeShared(s), UNCHANGED listenVars PROVE SInv' /\ [Next]_vars
    <3>1. Next
      BY <2>3 DEF Next, Application
    <3> QED BY <2>3, <3>1, NewStep, MakeSharedInv DEF SInv
  <2>4. ASSUME NEW s \in Socks, ~Offered(s), UNCHANGED listenVars,
               Call(t, s) \/ KeepHandle(t, s) \/ DropHandle(s)
        PROVE  SInv' /\ [Next]_vars
    <3>1. Next
      BY <2>4 DEF Next, Application
    <3> QED BY <2>4, <3>1, NewStep, OtherCallInv DEF SInv
  <2> QED BY <2>1, <2>2, <2>3, <2>4
<1> QED BY <1>1, <1>2, <1>3, <1>4, <1>5, <1>6, <1>7, <1>8
        DEF ServerNext, ServerRun, Finishes, ServerSystem

\* A stuttering step.
LEMMA ServerStutter ==
  ASSUME SInv, UNCHANGED serverVars
  PROVE  SInv' /\ UNCHANGED vars
<1>1. UNCHANGED <<obj, usr, io, starting, tmpptr, lsn, lio, offering, spinning>> /\ UNCHANGED vars
  BY DEF serverVars, listenVars, vars
<1>2. (ListenTypeOK /\ NewIsClosed /\ InAccept /\ Returned)'
  BY <1>1 DEF SInv, ListenTypeOK, NewIsClosed, InAccept, Returned
<1>3. Waiting'
  BY <1>1 DEF SInv, Waiting, Busy
<1>4. OfferUnused'
  BY <1>1 DEF SInv, OfferUnused, Offered
<1> QED BY <1>1, <1>2, <1>3, <1>4 DEF SInv

(***************************************************************************)
(* KInv and SInv, for any number of threads that call accept() and run().  *)
(***************************************************************************)
THEOREM ServerInvariance == ServerSpec => [](KInv /\ SInv)
<1>1. KInv /\ SInv /\ [ServerNext]_serverVars => (KInv /\ SInv)'
  BY ServerStep, ServerStutter, KStep
<1> QED BY <1>1, InitSInv, PTL DEF ServerSpec

(***************************************************************************)
(* The server's loop is the loop of IocpLoop: what is proved of that holds *)
(* with the listener in it (Accept.cpp, onIocpAccept against Accepted).    *)
(***************************************************************************)
THEOREM ServerRefinesLoop == ServerSpec => RefinesLoop
<1>1. KInv /\ SInv /\ [ServerNext]_serverVars => [Next]_vars
  BY ServerStep, ServerStutter
<1>2. ServerInit => Init
  BY DEF ServerInit
<1> QED BY <1>1, <1>2, ServerInvariance, PTL DEF ServerSpec, RefinesLoop, Spec

(***************************************************************************)
(* What the refinement gives at once: with a listener, too, the system     *)
(* works only on live objects (Iocp.cpp, run).                             *)
(***************************************************************************)
THEOREM ServerOutstandingAreKept == ServerSpec => []OutstandingKept
  BY ServerRefinesLoop, OutstandingAreKept DEF RefinesLoop

(***************************************************************************)
(* The wait in onIocpAccept ends with accept() complete, its socket kept   *)
(* and unused: the comment "wait accept() complete" holds.                 *)
(***************************************************************************)
THEOREM AcceptIsComplete == ServerSpec => []WaitsForAccept
<1>1. SInv => WaitsForAccept
  <2> SUFFICES ASSUME SInv, spinning # {}, lsn.socket
               PROVE  /\ offering = {} /\ lsn.sioptr # NoSock
                      /\ obj[lsn.sioptr].life = "alive" /\ ~obj[lsn.sioptr].open
                      /\ usr[lsn.sioptr].held /\ usr[lsn.sioptr].st = "none"
    BY DEF WaitsForAccept
  <2>1. PICK t \in Threads, r \in Results : <<t, r>> \in spinning
    BY DEF SInv, ListenTypeOK
  <2> QED BY <2>1, WaitGivesOffer
<1> QED BY <1>1, ServerInvariance, PTL
=============================================================================
