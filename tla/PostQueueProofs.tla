-------------------------- MODULE PostQueueProofs --------------------------
(***************************************************************************)
(* The loop never waits over a task, and no thread that ends calls into a  *)
(* queue that is gone: for any number of threads, posts and tables.        *)
(*                                                                         *)
(* Neither needs to know what the tables of ids hold.  Drains is the       *)
(* invariant of try_dequeue: a stream that had a task when it was called   *)
(* has one until the scan gets there, as nobody else dequeues.  Owns says  *)
(* whose a producer is: a thread owns the one that hears of its end, and   *)
(* the one it is about to subscribe; owned ones are active and no two      *)
(* threads own the same.  So a producer that the destructor finds inactive *)
(* is nobody's.  Ends says what is left of the threads once the queue is   *)
(* being destroyed.                                                        *)
(***************************************************************************)
EXTENDS PostQueue, TLAPS

USE TableAssumption, PostAssumption DEF TableAssumption, PostAssumption

Steps == {"idle", "move", "count", "full", "wait", "resize", "unlock", "fail", "list", "scan",
          "subscribe", "insert", "uncount", "enqueue", "spin", "exit", "next"}

\* A record of locals; what a table gives for a producer is not looked at here.
IsLocals(l) == l = [hash |-> l.hash, count |-> l.count, at |-> l.at, producer |-> l.producer]

Scan == [at : Nat, nonEmptyCount : Nat, best : Nat, bestSize : Nat]

Types ==
  /\ producers \in Seq([inactive : BOOLEAN])
  /\ listener \in [Threads -> Nat]
  /\ pc \in [Threads -> Steps]
  /\ loc = [t \in Threads |-> loc[t]] /\ \A t \in Threads : IsLocals(loc[t])
  /\ life \in [Threads -> Nat]
  /\ posts \in [Threads -> Nat]
  /\ queue \in Seq(Seq(Threads \X Nat \X Nat)) /\ Len(queue) = Len(producers)
  /\ scan \in Scan
  /\ seen \in BOOLEAN

HasTask(p) == p \in 1 .. Len(queue) /\ queue[p] # <<>>

Drains ==
  /\ loop = "score" =>
       /\ scan.at \in 1 .. Len(queue)
       /\ scan.nonEmptyCount > 0 => HasTask(scan.best)
       /\ scan.nonEmptyCount = 0 => scan.bestSize = 0
       /\ seen /\ scan.nonEmptyCount = 0 => \E p \in 1 .. scan.at : HasTask(p)
  /\ loop = "best" => HasTask(scan.best)
  /\ loop = "wait" => ~seen

Owned(t) ==
  ({listener[t]} \ {NoProducer}) \cup (IF pc[t] = "subscribe" THEN {loc[t].producer} ELSE {})

Active == {p \in 1 .. Len(producers) : ~producers[p].inactive}

Owns ==
  /\ \A t \in Threads : Owned(t) \subseteq Active
  /\ \A t, u \in Threads : t # u => Owned(t) \cap Owned(u) = {}
  /\ \A t \in Threads : pc[t] = "scan" => loc[t].at \in 0 .. Len(producers)
  /\ \A t \in Threads : pc[t] = "exit" => loc[t].producer = listener[t] /\ listener[t] # NoProducer

Ends ==
  /\ loop \in {"dying", "gone"} => \A t \in Threads : pc[t] \in {"idle", "exit", "next"}
  /\ loop = "dying" => /\ scan.at \in 1 .. Len(producers)
                       /\ \A t \in Threads : listener[t] <= scan.at
  /\ loop = "gone" => \A t \in Threads : listener[t] = NoProducer

IInv == Types /\ Drains /\ Owns /\ Ends

\* The initial states.
LEMMA InitInv == Init => IInv
<1> SUFFICES ASSUME Init PROVE IInv
  OBVIOUS
<1>1. /\ producers = <<>> /\ queue = <<>> /\ listener = [t \in Threads |-> NoProducer]
      /\ pc = [t \in Threads |-> "idle"] /\ loc = [t \in Threads |-> NoLocals]
      /\ life = [t \in Threads |-> 0] /\ posts = [t \in Threads |-> 0]
      /\ loop = "away" /\ scan = NoScan /\ seen = FALSE
  BY DEF Init, TableInit
<1>2. Types
  <2>1. IsLocals(NoLocals)
    BY DEF IsLocals, NoLocals
  <2>2. scan \in Scan
    BY <1>1 DEF Scan, NoScan, NoProducer
  <2>3. /\ producers \in Seq([inactive : BOOLEAN]) /\ queue \in Seq(Seq(Threads \X Nat \X Nat))
        /\ Len(queue) = Len(producers)
    BY <1>1
  <2>4. /\ listener \in [Threads -> Nat] /\ pc \in [Threads -> Steps]
        /\ life \in [Threads -> Nat] /\ posts \in [Threads -> Nat]
    BY <1>1 DEF Steps, NoProducer
  <2>5. loc = [t \in Threads |-> loc[t]] /\ \A t \in Threads : IsLocals(loc[t])
    BY <1>1, <2>1
  <2>6. seen \in BOOLEAN
    BY <1>1
  <2> QED BY <2>2, <2>3, <2>4, <2>5, <2>6 DEF Types
<1>3. Owns
  BY <1>1 DEF Owns, Owned
<1>4. Drains /\ Ends
  BY <1>1 DEF Drains, Ends
<1> QED BY <1>2, <1>3, <1>4 DEF IInv

-----------------------------------------------------------------------------
(***************************************************************************)
(* The steps of a thread that touch no producer.                           *)
(***************************************************************************)

\* Streams may grow.
LEMMA Grows ==
  ASSUME IInv, NEW t \in Threads, NEW step \in Steps \ {"subscribe"}, NEW l, IsLocals(l),
         Goto(t, step), Local(t, l),
         UNCHANGED <<prodVars, loopVars>>,
         queue' \in Seq(Seq(Threads \X Nat \X Nat)), Len(queue') = Len(queue),
         \A p \in 1 .. Len(queue) : queue[p] # <<>> => queue'[p] # <<>>,
         life' \in [Threads -> Nat], posts' \in [Threads -> Nat],
         step = "scan" => l.at \in 0 .. Len(producers),
         step = "exit" => l.producer = listener[t] /\ listener[t] # NoProducer,
         step \in {"idle", "exit", "next"} \/ loop \notin {"dying", "gone"}
  PROVE  IInv'
<1>1. /\ pc' = [pc EXCEPT ![t] = step] /\ loc' = [loc EXCEPT ![t] = l]
      /\ UNCHANGED <<producers, listener, loop, scan, seen>>
  BY DEF Goto, Local, prodVars, loopVars
<1>2. /\ pc'[t] = step /\ loc'[t] = l
      /\ \A u \in Threads \ {t} : pc'[u] = pc[u] /\ loc'[u] = loc[u]
  BY <1>1 DEF IInv, Types
<1>3. Types'
  <2>1. pc' \in [Threads -> Steps] /\ loc' = [u \in Threads |-> loc'[u]]
    BY <1>1 DEF IInv, Types
  <2>2. \A u \in Threads : IsLocals(loc'[u])
    BY <1>2 DEF IInv, Types
  <2> QED BY <1>1, <2>1, <2>2 DEF IInv, Types
<1>4. Drains'
  <2>1. \A p : HasTask(p) => HasTask(p)'
    BY DEF HasTask
  <2> QED BY <1>1, <2>1 DEF IInv, Drains
<1>5. Owns'
  <2>1. \A u \in Threads : Owned(u)' \subseteq Owned(u)
    BY <1>1, <1>2 DEF Owned
  <2>2. Active' = Active
    BY <1>1 DEF Active
  <2>3. \A u \in Threads : Owned(u)' \subseteq Active'
    BY <2>1, <2>2 DEF IInv, Owns
  <2>4. \A u, v \in Threads : u # v => Owned(u)' \cap Owned(v)' = {}
    BY <2>1 DEF IInv, Owns
  <2>5. \A u \in Threads : pc'[u] = "scan" => loc'[u].at \in 0 .. Len(producers')
    BY <1>1, <1>2 DEF IInv, Owns
  <2>6. \A u \in Threads : pc'[u] = "exit" =>
          loc'[u].producer = listener'[u] /\ listener'[u] # NoProducer
    BY <1>1, <1>2 DEF IInv, Owns
  <2> QED BY <2>3, <2>4, <2>5, <2>6 DEF Owns
<1>6. Ends'
  BY <1>1, <1>2 DEF IInv, Ends
<1> QED BY <1>3, <1>4, <1>5, <1>6 DEF IInv

\* They stay as they are.
LEMMA Quiet ==
  ASSUME IInv, NEW t \in Threads, NEW step \in Steps \ {"subscribe"}, NEW l, IsLocals(l),
         Goto(t, step), Local(t, l),
         UNCHANGED <<prodVars, queue, loopVars>>,
         life' \in [Threads -> Nat], posts' \in [Threads -> Nat],
         step = "scan" => l.at \in 0 .. Len(producers),
         step = "exit" => l.producer = listener[t] /\ listener[t] # NoProducer,
         step \in {"idle", "exit", "next"} \/ loop \notin {"dying", "gone"}
  PROVE  IInv'
<1>1. queue' \in Seq(Seq(Threads \X Nat \X Nat)) /\ Len(queue') = Len(queue)
  BY DEF IInv, Types
<1>2. \A p \in 1 .. Len(queue) : queue[p] # <<>> => queue'[p] # <<>>
  OBVIOUS
<1> QED BY <1>1, <1>2, Grows

\* Records of locals stay records of locals.
LEMMA Shapes ==
  ASSUME NEW l, IsLocals(l), NEW x
  PROVE  /\ IsLocals([l EXCEPT !.hash = x]) /\ IsLocals([l EXCEPT !.count = x])
         /\ IsLocals([l EXCEPT !.at = x])   /\ IsLocals([l EXCEPT !.producer = x])
         /\ [l EXCEPT !.at = x].at = x /\ [l EXCEPT !.hash = x].producer = l.producer
         /\ [l EXCEPT !.producer = x].producer = x
<1> DEFINE r == [hash |-> l.hash, count |-> l.count, at |-> l.at, producer |-> l.producer]
<1>1. l = r
  BY DEF IsLocals
<1>2. /\ [r EXCEPT !.hash = x]  = [r EXCEPT !.hash = x] /\ IsLocals([r EXCEPT !.hash = x])
      /\ IsLocals([r EXCEPT !.count = x]) /\ IsLocals([r EXCEPT !.at = x])
      /\ IsLocals([r EXCEPT !.producer = x])
      /\ [r EXCEPT !.at = x].at = x /\ [r EXCEPT !.hash = x].producer = l.producer
      /\ [r EXCEPT !.producer = x].producer = x
  BY DEF IsLocals
<1> HIDE DEF r
<1> QED BY <1>1, <1>2

\* One element of a sequence is replaced.
LEMMA Replace ==
  ASSUME NEW S, NEW s \in Seq(S), NEW p \in 1 .. Len(s), NEW x \in S, NEW u,
         u = [s EXCEPT ![p] = x]
  PROVE  /\ u \in Seq(S) /\ Len(u) = Len(s) /\ u[p] = x
         /\ \A q \in 1 .. Len(s) : q # p => u[q] = s[q]
  OBVIOUS

\* The ends of a sequence.
LEMMA SeqFacts ==
  ASSUME NEW S, NEW s \in Seq(S)
  PROVE  /\ \A x \in S : Append(s, x) \in Seq(S) /\ Append(s, x) # <<>>
         /\ s # <<>> => Len(s) \in Nat \ {0} /\ Tail(s) \in Seq(S)
         /\ \A p \in 1 .. Len(s) : s[p] \in S
<1>1. ASSUME NEW x \in S PROVE Append(s, x) \in Seq(S) /\ Len(Append(s, x)) = Len(s) + 1
  OBVIOUS
<1>2. ASSUME NEW x \in S PROVE Append(s, x) # <<>>
  <2>1. Len(s) + 1 # 0
    OBVIOUS
  <2> QED BY <1>1, <2>1
<1>3. ASSUME s # <<>> PROVE Len(s) \in Nat \ {0} /\ Tail(s) \in Seq(S)
  BY <1>3
<1>4. \A p \in 1 .. Len(s) : s[p] \in S
  OBVIOUS
<1> QED BY <1>1, <1>2, <1>3, <1>4

\* The locals a call begins with.
LEMMA FreshShapes ==
  /\ IsLocals(NoLocals)
  /\ \A h, p : IsLocals([NoLocals EXCEPT !.hash = h, !.producer = p])
               /\ [NoLocals EXCEPT !.hash = h, !.producer = p].producer = p
  /\ \A h : IsLocals([NoLocals EXCEPT !.hash = h])
<1>1. IsLocals(NoLocals)
  BY DEF IsLocals, NoLocals
<1>2. \A h : IsLocals([NoLocals EXCEPT !.hash = h])
  BY <1>1, Shapes
<1>3. ASSUME NEW h, NEW p, NEW m, m = [NoLocals EXCEPT !.hash = h, !.producer = p]
      PROVE  IsLocals(m) /\ m.producer = p
  <2>1. m = [hash |-> h, count |-> 0, at |-> 0, producer |-> p]
    BY <1>3 DEF NoLocals
  <2> QED BY <2>1 DEF IsLocals
<1>4. \A h, p : IsLocals([NoLocals EXCEPT !.hash = h, !.producer = p])
                /\ [NoLocals EXCEPT !.hash = h, !.producer = p].producer = p
  BY <1>3, Zenon
<1> QED BY <1>1, <1>2, <1>4

\* A thread inside a call: the queue is not being destroyed.
LEMMA InCall ==
  ASSUME IInv, NEW t \in Threads, pc[t] \notin {"idle", "exit", "next"}
  PROVE  loop \notin {"dying", "gone"}
  BY DEF IInv, Ends

\* It stays where it is, with the locals it has.
LEMMA Stays ==
  ASSUME IInv, NEW t \in Threads
  PROVE  /\ IsLocals(loc[t]) /\ pc[t] \in Steps
         /\ pc' = pc => Goto(t, pc[t])
         /\ loc' = loc => Local(t, loc[t])
  BY DEF IInv, Types, Goto, Local

\* The call begins.
LEMMA PostStep ==
  ASSUME IInv, NEW t \in Threads, Post(t)
  PROVE  IInv'
<1>1. /\ UNCHANGED <<prodVars, queue, loopVars>> /\ life' = life /\ loop \notin {"dying", "gone"}
      /\ posts' = [posts EXCEPT ![t] = @ + 1] /\ LookUp(t)
  BY DEF Post, LookUp, MayPost
<1>2. posts' \in [Threads -> Nat] /\ life' \in [Threads -> Nat]
  BY <1>1 DEF IInv, Types
<1>0. CASE ~LookUpEnds(t)
  <2>1. Goto(t, "spin") /\ Local(t, NoLocals)
    BY <1>1, <1>0 DEF LookUp
  <2>2. "spin" \in Steps \ {"subscribe"}
    BY DEF Steps
  <2> QED BY <1>1, <1>2, <2>1, <2>2, FreshShapes, Quiet
<1>3. CASE LookUpEnds(t) /\ FoundIn(t) = {}
  <2>1. Goto(t, "count") /\ Local(t, [NoLocals EXCEPT !.hash = Main])
    BY <1>1, <1>3 DEF LookUp
  <2>2. "count" \in Steps \ {"subscribe"}
    BY DEF Steps
  <2> QED BY <1>1, <1>2, <2>1, <2>2, FreshShapes, Quiet
<1>4. CASE LookUpEnds(t) /\ FoundIn(t) # {}
  <2> DEFINE step == IF Newest(FoundIn(t)) = Main THEN "enqueue" ELSE "move"
             p == hashes[Newest(FoundIn(t))].values[CHOOSE i \in FoundAt(Newest(FoundIn(t)), t) : TRUE]
             l == [NoLocals EXCEPT !.hash = Main, !.producer = p]
  <2>1. Goto(t, step) /\ Local(t, l)
    BY <1>1, <1>4 DEF LookUp
  <2>2. step \in Steps \ {"subscribe"} /\ step # "scan" /\ step # "exit"
    BY DEF Steps
  <2>3. IsLocals(l)
    BY FreshShapes
  <2> HIDE DEF step, p, l
  <2> QED BY <1>1, <1>2, <2>1, <2>2, <2>3, Quiet
<1> QED BY <1>0, <1>3, <1>4

\* A step of ProducerTable that adds no producer.
LEMMA QuietInTable ==
  ASSUME IInv, NEW t \in Threads, InTable(t), UNCHANGED prodVars, life' = life,
         NEW step \in Steps \ {"subscribe", "exit"}, NEW l, IsLocals(l),
         Goto(t, step), Local(t, l),
         step = "scan" => l.at \in 0 .. Len(producers),
         pc[t] \notin {"idle", "exit", "next"}
  PROVE  IInv'
<1>1. queue' = queue
  BY DEF IInv, Types, InTable, prodVars
<1>2. posts' \in [Threads -> Nat] /\ life' \in [Threads -> Nat] /\ UNCHANGED loopVars
  BY DEF IInv, Types, InTable
<1>3. loop \notin {"dying", "gone"}
  BY InCall
<1> QED BY <1>1, <1>2, <1>3, Quiet

LEMMA StepNames ==
  {"idle", "move", "count", "full", "wait", "resize", "unlock", "fail", "list", "scan",
   "insert", "uncount", "enqueue", "spin"} \subseteq Steps \ {"subscribe", "exit"}
  BY DEF Steps

LEMMA MoveStep ==
  ASSUME IInv, NEW t \in Threads, InTable(t), Move(t)
  PROVE  IInv'
<1>1. pc[t] = "move" /\ UNCHANGED prodVars /\ life' = life
  BY DEF Move
<1>2. CASE KeyThere(t) \in Available
  <2>1. Goto(t, "enqueue") /\ Local(t, loc[t]) /\ IsLocals(loc[t])
    BY <1>2, Stays DEF Move
  <2> QED BY <1>1, <2>1, StepNames, QuietInTable
<1>3. CASE KeyThere(t) \notin Available
  <2>1. Goto(t, "move") /\ Local(t, [loc[t] EXCEPT !.at = loc[t].at + 1])
    BY <1>1, <1>3, Stays DEF Move, NextSlot
  <2>2. IsLocals([loc[t] EXCEPT !.at = loc[t].at + 1])
    BY Stays, Shapes
  <2> QED BY <1>1, <2>1, <2>2, StepNames, QuietInTable
<1> QED BY <1>2, <1>3

LEMMA CountInStep ==
  ASSUME IInv, NEW t \in Threads, InTable(t), CountIn(t)
  PROVE  IInv'
<1> DEFINE l == [loc[t] EXCEPT !.count = implicitProducerHashCount + 1]
<1>1. /\ pc[t] = "count" /\ UNCHANGED prodVars /\ life' = life
      /\ Goto(t, "full") /\ Local(t, l)
  BY DEF CountIn
<1>2. IsLocals(l)
  BY Stays, Shapes
<1> HIDE DEF l
<1> QED BY <1>1, <1>2, StepNames, QuietInTable

LEMMA TestAndSetStep ==
  ASSUME IInv, NEW t \in Threads, InTable(t), TestAndSet(t)
  PROVE  IInv'
<1>1. /\ pc[t] = "full" /\ UNCHANGED prodVars /\ life' = life /\ loc' = loc
      /\ \E step \in {"resize", "wait", "list"} : Goto(t, step)
  BY DEF TestAndSet
<1>2. PICK step \in {"resize", "wait", "list"} : Goto(t, step)
  BY <1>1
<1>3. step \in Steps \ {"subscribe", "exit"} /\ step # "scan"
  BY StepNames
<1>4. Local(t, loc[t]) /\ IsLocals(loc[t])
  BY <1>1, Stays
<1> QED BY <1>1, <1>2, <1>3, <1>4, QuietInTable

LEMMA WaitStep ==
  ASSUME IInv, NEW t \in Threads, InTable(t), Wait(t)
  PROVE  IInv'
<1> DEFINE l == [loc[t] EXCEPT !.hash = Main]
<1>1. /\ pc[t] = "wait" /\ UNCHANGED prodVars /\ life' = life
      /\ Goto(t, "full") /\ Local(t, l)
  BY DEF Wait
<1>2. IsLocals(l)
  BY Stays, Shapes
<1> HIDE DEF l
<1> QED BY <1>1, <1>2, StepNames, QuietInTable

LEMMA ResizeStep ==
  ASSUME IInv, NEW t \in Threads, InTable(t), Resize(t)
  PROVE  IInv'
<1>1. /\ pc[t] = "resize" /\ UNCHANGED prodVars /\ life' = life
      /\ Goto(t, "unlock") /\ \E n : n = Len(hashes') /\ Local(t, [loc[t] EXCEPT !.hash = n])
  BY DEF Resize
<1>2. PICK n : Local(t, [loc[t] EXCEPT !.hash = n])
  BY <1>1
<1>3. IsLocals([loc[t] EXCEPT !.hash = n])
  BY Stays, Shapes
<1> QED BY <1>1, <1>2, <1>3, StepNames, QuietInTable

LEMMA UnlockStep ==
  ASSUME IInv, NEW t \in Threads, InTable(t), Unlock(t)
  PROVE  IInv'
<1>1. /\ pc[t] = "unlock" /\ UNCHANGED prodVars /\ life' = life /\ loc' = loc
      /\ \E step \in {"wait", "list"} : Goto(t, step)
  BY DEF Unlock
<1>2. PICK step \in {"wait", "list"} : Goto(t, step)
  BY <1>1
<1>3. step \in Steps \ {"subscribe", "exit"} /\ step # "scan"
  BY StepNames
<1>4. Local(t, loc[t]) /\ IsLocals(loc[t])
  BY <1>1, Stays
<1> QED BY <1>1, <1>2, <1>3, <1>4, QuietInTable

LEMMA FailSteps ==
  ASSUME IInv, NEW t \in Threads, InTable(t), ResizeFails(t) \/ UnlockFailed(t) \/ CreateFails(t)
  PROVE  IInv'
<1>1. CASE ResizeFails(t)
  <2>1. pc[t] = "resize" /\ UNCHANGED prodVars /\ life' = life /\ Goto(t, "fail") /\ loc' = loc
    BY <1>1 DEF ResizeFails
  <2>2. Local(t, loc[t]) /\ IsLocals(loc[t])
    BY <2>1, Stays
  <2> QED BY <2>1, <2>2, StepNames, QuietInTable
<1>2. CASE UnlockFailed(t) \/ CreateFails(t)
  <2>1. /\ pc[t] \in {"fail", "scan"} /\ UNCHANGED prodVars /\ life' = life
        /\ Goto(t, "idle") /\ Local(t, NoLocals)
    BY <1>2 DEF UnlockFailed, CreateFails, GivesUp
  <2> QED BY <2>1, FreshShapes, StepNames, QuietInTable
<1> QED BY <1>1, <1>2

LEMMA LoadListStep ==
  ASSUME IInv, NEW t \in Threads, InTable(t), LoadList(t)
  PROVE  IInv'
<1> DEFINE l == [loc[t] EXCEPT !.at = Len(producers)]
<1>1. /\ pc[t] = "list" /\ UNCHANGED prodVars /\ life' = life
      /\ Goto(t, "scan") /\ Local(t, l)
  BY DEF LoadList
<1>2. IsLocals(l) /\ l.at = Len(producers)
  BY Stays, Shapes
<1>3. l.at \in 0 .. Len(producers)
  BY <1>2 DEF IInv, Types
<1> HIDE DEF l
<1> QED BY <1>1, <1>2, <1>3, StepNames, QuietInTable

LEMMA InsertStep ==
  ASSUME IInv, NEW t \in Threads, InTable(t), Insert(t)
  PROVE  IInv'
<1>1. pc[t] = "insert" /\ UNCHANGED prodVars /\ life' = life
  BY DEF Insert
<1>2. CASE KeyThere(t) \in Available
  <2>1. PICK step \in {"uncount", "enqueue"} : Goto(t, step)
    BY <1>2 DEF Insert
  <2>2. Local(t, loc[t]) /\ IsLocals(loc[t])
    BY <1>2, Stays DEF Insert
  <2>3. step \in Steps \ {"subscribe", "exit"} /\ step # "scan"
    BY StepNames
  <2> QED BY <1>1, <2>1, <2>2, <2>3, QuietInTable
<1>3. CASE KeyThere(t) \notin Available
  <2>1. Goto(t, "insert") /\ Local(t, [loc[t] EXCEPT !.at = loc[t].at + 1])
    BY <1>1, <1>3, Stays DEF Insert, NextSlot
  <2>2. IsLocals([loc[t] EXCEPT !.at = loc[t].at + 1])
    BY Stays, Shapes
  <2> QED BY <1>1, <2>1, <2>2, StepNames, QuietInTable
<1> QED BY <1>2, <1>3

LEMMA UncountStep ==
  ASSUME IInv, NEW t \in Threads, InTable(t), Uncount(t)
  PROVE  IInv'
<1>1. /\ pc[t] = "uncount" /\ UNCHANGED prodVars /\ life' = life
      /\ Goto(t, "enqueue") /\ Local(t, loc[t]) /\ IsLocals(loc[t])
  BY Stays DEF Uncount
<1> QED BY <1>1, StepNames, QuietInTable

-----------------------------------------------------------------------------
(***************************************************************************)
(* The steps that give or take a producer.                                 *)
(***************************************************************************)

\* A thread gets a producer that nobody owns, and is about to subscribe it.
LEMMA Gets ==
  ASSUME IInv, NEW t \in Threads, InTable(t), pc[t] = "scan", NEW p, NEW l, IsLocals(l),
         l.producer = p, Goto(t, "subscribe"), Local(t, l),
         UNCHANGED <<listener, life>>,
         producers' \in Seq([inactive : BOOLEAN]),
         Len(producers') \in {Len(producers), Len(producers) + 1},
         p \in Active', p \notin Active, Active \subseteq Active'
  PROVE  IInv'
<1>1. /\ pc' = [pc EXCEPT ![t] = "subscribe"] /\ loc' = [loc EXCEPT ![t] = l]
      /\ UNCHANGED <<loop, scan, seen, posts>>
      /\ queue' = IF Len(producers') > Len(queue) THEN Append(queue, <<>>) ELSE queue
  BY DEF Goto, Local, InTable, loopVars
<1>2. /\ pc'[t] = "subscribe" /\ loc'[t] = l
      /\ \A u \in Threads \ {t} : pc'[u] = pc[u] /\ loc'[u] = loc[u]
  BY <1>1 DEF IInv, Types
<1>3. loop \notin {"dying", "gone"}
  BY InCall
<1>4. /\ Len(queue) \in Nat /\ Len(queue) = Len(producers) /\ Len(queue') = Len(producers')
      /\ queue' \in Seq(Seq(Threads \X Nat \X Nat))
      /\ Len(queue') >= Len(queue) /\ \A q \in 1 .. Len(queue) : queue'[q] = queue[q]
  <2>1. Len(queue) \in Nat /\ Len(queue) = Len(producers) /\ queue \in Seq(Seq(Threads \X Nat \X Nat))
    BY DEF IInv, Types
  <2>2. CASE Len(producers') = Len(producers)
    BY <1>1, <2>1, <2>2
  <2>3. CASE Len(producers') = Len(producers) + 1
    BY <1>1, <2>1, <2>3
  <2> QED BY <2>2, <2>3
<1>5. Types'
  <2>1. pc' \in [Threads -> Steps] /\ loc' = [u \in Threads |-> loc'[u]]
    BY <1>1 DEF IInv, Types, Steps
  <2>2. \A u \in Threads : IsLocals(loc'[u])
    BY <1>2 DEF IInv, Types
  <2> QED BY <1>1, <1>4, <2>1, <2>2 DEF IInv, Types
<1>6. Drains'
  <2>1. \A q : HasTask(q) => HasTask(q)'
    BY <1>4 DEF HasTask
  <2>2. scan.at \in 1 .. Len(queue) => scan.at \in 1 .. Len(queue')
    BY <1>4
  <2> QED BY <1>1, <2>1, <2>2 DEF IInv, Drains
<1>7. Owns'
  <2>1. \A u \in Threads \ {t} : Owned(u)' = Owned(u)
    BY <1>2 DEF Owned
  <2>2. Owned(t)' \subseteq Owned(t) \cup {p}
    BY <1>2 DEF Owned
  <2>3. \A u \in Threads : Owned(u) \subseteq Active
    BY DEF IInv, Owns
  <2>4. \A u \in Threads : Owned(u)' \subseteq Active'
    BY <2>1, <2>2, <2>3
  <2>5. \A u, v \in Threads : u # v => Owned(u)' \cap Owned(v)' = {}
    <3>1. \A u, v \in Threads : u # v => Owned(u) \cap Owned(v) = {}
      BY DEF IInv, Owns
    <3> QED BY <2>1, <2>2, <2>3, <3>1
  <2>6. \A u \in Threads : pc'[u] = "scan" => loc'[u].at \in 0 .. Len(producers')
    <3>1. Len(producers) \in Nat /\ Len(producers') \in Nat /\ Len(producers) <= Len(producers')
      BY <1>4
    <3>2. \A u \in Threads : pc[u] = "scan" => loc[u].at \in 0 .. Len(producers)
      BY DEF IInv, Owns
    <3>3. \A u \in Threads : pc'[u] = "scan" => pc[u] = "scan" /\ loc'[u].at = loc[u].at
      BY <1>2
    <3>4. 0 .. Len(producers) \subseteq 0 .. Len(producers')
      BY <3>1
    <3> QED BY <3>2, <3>3, <3>4
  <2>7. \A u \in Threads : pc'[u] = "exit" =>
          loc'[u].producer = listener'[u] /\ listener'[u] # NoProducer
    BY <1>2 DEF IInv, Owns
  <2> QED BY <2>4, <2>5, <2>6, <2>7 DEF Owns
<1>8. Ends'
  BY <1>1, <1>3 DEF Ends
<1> QED BY <1>5, <1>6, <1>7, <1>8 DEF IInv

\* Its locals keep their shape.
LEMMA Takes ==
  ASSUME NEW l, IsLocals(l), NEW at
  PROVE  /\ IsLocals([l EXCEPT !.producer = at, !.at = 0])
         /\ [l EXCEPT !.producer = at, !.at = 0].producer = at
<1>1. ASSUME NEW m, m = [l EXCEPT !.producer = at, !.at = 0]
      PROVE  IsLocals(m) /\ m.producer = at
  <2>1. PICK h, c, a, p : l = [hash |-> h, count |-> c, at |-> a, producer |-> p]
    BY DEF IsLocals
  <2>2. m = [hash |-> h, count |-> c, at |-> 0, producer |-> at]
    BY <1>1, <2>1
  <2> QED BY <2>2 DEF IsLocals
<1> QED BY <1>1, Zenon

\* The producer is taken over, or the scan goes on.
LEMMA RecycleStep ==
  ASSUME IInv, NEW t \in Threads, InTable(t), Recycle(t)
  PROVE  IInv'
<1>1. /\ pc[t] = "scan" /\ UNCHANGED <<listener, life>>
      /\ loc[t].at \in 1 .. Len(producers) /\ IsLocals(loc[t])
      /\ producers \in Seq([inactive : BOOLEAN])
  BY Stays DEF Recycle, IInv, Owns, Types
<1>2. PICK at \in 1 .. Len(producers) : at = loc[t].at
  BY <1>1
<1>3. CASE producers[at].inactive
  <2> DEFINE l == [loc[t] EXCEPT !.producer = at, !.at = 0]
  <2>1. /\ producers' = [producers EXCEPT ![at] = [inactive |-> FALSE]]
        /\ Goto(t, "subscribe") /\ Local(t, l)
    BY <1>2, <1>3 DEF Recycle
  <2>2. IsLocals(l) /\ l.producer = at
    BY <1>1, Takes, Zenon
  <2> HIDE DEF l
  <2>3. /\ producers' \in Seq([inactive : BOOLEAN]) /\ Len(producers') = Len(producers)
        /\ producers'[at] = [inactive |-> FALSE]
        /\ \A q \in 1 .. Len(producers) : q # at => producers'[q] = producers[q]
    <3>1. [inactive |-> FALSE] \in [inactive : BOOLEAN]
      OBVIOUS
    <3> QED BY <1>1, <2>1, <3>1, Replace
  <2>4. at \in Active' /\ at \notin Active /\ Active \subseteq Active'
    BY <1>3, <2>3 DEF Active
  <2> QED BY <1>1, <2>1, <2>2, <2>3, <2>4, Gets
<1>4. CASE ~producers[at].inactive
  <2> DEFINE l == [loc[t] EXCEPT !.at = at - 1]
  <2>1. UNCHANGED <<producers, pc>> /\ Local(t, l)
    BY <1>2, <1>4 DEF Recycle
  <2>2. IsLocals(l) /\ l.at = at - 1
    BY <1>1, Shapes
  <2>3. l.at \in 0 .. Len(producers)
    BY <1>1, <2>2
  <2> HIDE DEF l
  <2>4. Goto(t, "scan")
    BY <1>1, <2>1, Stays
  <2> QED BY <1>1, <2>1, <2>2, <2>3, <2>4, StepNames, QuietInTable DEF prodVars
<1> QED BY <1>3, <1>4

LEMMA AddProducerStep ==
  ASSUME IInv, NEW t \in Threads, InTable(t), AddProducer(t)
  PROVE  IInv'
<1> DEFINE p == Len(producers) + 1
           l == [loc[t] EXCEPT !.producer = p]
<1>1. /\ pc[t] = "scan" /\ UNCHANGED <<listener, life>> /\ Goto(t, "subscribe") /\ Local(t, l)
      /\ producers' = Append(producers, [inactive |-> FALSE])
      /\ producers \in Seq([inactive : BOOLEAN]) /\ IsLocals(loc[t])
  BY Stays DEF AddProducer, IInv, Types
<1>2. IsLocals(l) /\ l.producer = p
  <2> HIDE DEF p
  <2> QED BY <1>1, Shapes
<1>3. /\ producers' \in Seq([inactive : BOOLEAN]) /\ Len(producers') = Len(producers) + 1
      /\ Len(producers) \in Nat
      /\ \A q \in 1 .. Len(producers) : producers'[q] = producers[q]
      /\ producers'[p] = [inactive |-> FALSE]
  BY <1>1
<1>4. p \in Active' /\ p \notin Active /\ Active \subseteq Active'
  <2>1. ~producers'[Len(producers) + 1].inactive
    BY <1>3
  <2> QED BY <1>3, <2>1 DEF Active
<1> HIDE DEF p, l
<1> QED BY <1>1, <1>2, <1>3, <1>4, Gets

\* The steps that change listener, or end the ownership of one.
LEMMA Hears ==
  ASSUME IInv, NEW t \in Threads, InTable(t), NEW step \in {"insert", "next"}, NEW p \in Nat,
         Goto(t, step), loc' = loc, life' = life,
         listener' = [listener EXCEPT ![t] = p],
         producers' \in Seq([inactive : BOOLEAN]), Len(producers') = Len(producers),
         Owned(t)' \subseteq Owned(t),
         \A u \in Threads \ {t} : Owned(u) \subseteq Active',
         Owned(t)' \subseteq Active',
         step = "insert" => pc[t] = "subscribe", step = "next" => p = NoProducer
  PROVE  IInv'
<1>1. /\ pc' = [pc EXCEPT ![t] = step]
      /\ UNCHANGED <<loop, scan, seen, posts, loc, life>>
      /\ queue' = queue
  BY DEF Goto, InTable, loopVars, IInv, Types
<1>2. /\ pc'[t] = step /\ listener'[t] = p
      /\ \A u \in Threads \ {t} : pc'[u] = pc[u] /\ listener'[u] = listener[u]
      /\ \A u \in Threads : loc'[u] = loc[u]
  BY <1>1 DEF IInv, Types
<1>3. Types'
  BY <1>1 DEF IInv, Types, Steps
<1>4. Drains'
  BY <1>1 DEF IInv, Drains, HasTask
<1>5. Owns'
  <2>1. \A u \in Threads \ {t} : Owned(u)' = Owned(u)
    BY <1>2 DEF Owned
  <2>2. \A u \in Threads : Owned(u)' \subseteq Active'
    BY <2>1
  <2>3. \A u, v \in Threads : u # v => Owned(u)' \cap Owned(v)' = {}
    <3>1. \A u, v \in Threads : u # v => Owned(u) \cap Owned(v) = {}
      BY DEF IInv, Owns
    <3> QED BY <2>1, <3>1
  <2>4. \A u \in Threads : pc'[u] = "scan" => loc'[u].at \in 0 .. Len(producers')
    BY <1>2 DEF IInv, Owns
  <2>5. \A u \in Threads : pc'[u] = "exit" =>
          loc'[u].producer = listener'[u] /\ listener'[u] # NoProducer
    BY <1>2 DEF IInv, Owns
  <2> QED BY <2>2, <2>3, <2>4, <2>5 DEF Owns
<1>6. Ends'
  <2>1. CASE step = "insert"
    <3>1. loop \notin {"dying", "gone"}
      BY <2>1, InCall
    <3> QED BY <1>1, <3>1 DEF Ends
  <2>2. CASE step = "next"
    BY <1>1, <1>2, <2>2 DEF IInv, Ends, NoProducer
  <2> QED BY <2>1, <2>2
<1> QED BY <1>3, <1>4, <1>5, <1>6 DEF IInv

LEMMA SubscribeStep ==
  ASSUME IInv, NEW t \in Threads, InTable(t), Subscribe(t)
  PROVE  IInv'
<1>1. /\ pc[t] = "subscribe" /\ Goto(t, "insert") /\ UNCHANGED <<producers, loc, life>>
      /\ listener' = [listener EXCEPT ![t] = loc[t].producer]
  BY DEF Subscribe
<1>2. PICK p : p = loc[t].producer
  OBVIOUS
<1>3. p \in Active /\ p \in Nat /\ Active' = Active
  <2>1. p \in Active
    BY <1>1, <1>2 DEF IInv, Owns, Owned
  <2> QED BY <1>1, <2>1 DEF Active, IInv, Types
<1>4. Owned(t)' \subseteq {p} /\ {p} \subseteq Owned(t)
  BY <1>1, <1>2 DEF Owned, Goto, IInv, Types
<1>5. \A u \in Threads : Owned(u) \subseteq Active'
  BY <1>3 DEF IInv, Owns
<1>6. producers' \in Seq([inactive : BOOLEAN]) /\ Len(producers') = Len(producers)
  BY <1>1 DEF IInv, Types
<1> QED BY <1>1, <1>2, <1>3, <1>4, <1>5, <1>6, Hears

LEMMA DeactivateStep ==
  ASSUME IInv, NEW t \in Threads, InTable(t), Deactivate(t)
  PROVE  IInv'
<1>1. /\ pc[t] = "exit" /\ Goto(t, "next") /\ UNCHANGED <<loc, life>>
      /\ listener' = [listener EXCEPT ![t] = NoProducer]
      /\ producers' = [producers EXCEPT ![loc[t].producer] = [inactive |-> TRUE]]
      /\ producers \in Seq([inactive : BOOLEAN])
  BY DEF Deactivate, IInv, Types
<1>2. PICK p \in 1 .. Len(producers) : p = loc[t].producer /\ p \in Owned(t)
  <2>1. loc[t].producer = listener[t] /\ listener[t] # NoProducer
    BY <1>1 DEF IInv, Owns
  <2>2. listener[t] \in Owned(t)
    BY <2>1 DEF Owned
  <2>3. listener[t] \in 1 .. Len(producers)
    BY <2>2 DEF IInv, Owns, Active
  <2> QED BY <2>1, <2>2, <2>3
<1>3. /\ producers' \in Seq([inactive : BOOLEAN]) /\ Len(producers') = Len(producers)
      /\ \A q \in 1 .. Len(producers) : q # p => producers'[q] = producers[q]
  <2>1. [inactive |-> TRUE] \in [inactive : BOOLEAN]
    OBVIOUS
  <2> QED BY <1>1, <1>2, <2>1, Replace
<1>4. Active \ {p} \subseteq Active'
  BY <1>3 DEF Active
<1>5. \A u \in Threads \ {t} : Owned(u) \subseteq Active \ {p}
  BY <1>2 DEF IInv, Owns
<1>6. Owned(t)' = {}
  BY <1>1 DEF Owned, Goto, IInv, Types
<1>7. \A u \in Threads \ {t} : Owned(u) \subseteq Active'
  BY <1>4, <1>5
<1> QED BY <1>1, <1>3, <1>6, <1>7, Hears DEF NoProducer

-----------------------------------------------------------------------------
(***************************************************************************)
(* A thread that ends, and the end of a call.                              *)
(***************************************************************************)

\* The id leaves one table.
LEMMA UnhashStep ==
  ASSUME IInv, NEW t \in Threads, InTable(t), Unhash(t)
  PROVE  IInv'
<1> DEFINE l == [loc[t] EXCEPT !.hash = loc[t].hash - 1]
<1>1. /\ pc[t] = "exit" /\ pc' = pc /\ UNCHANGED prodVars /\ life' = life /\ Local(t, l)
  BY DEF Unhash
<1>2. IsLocals(l) /\ l.producer = loc[t].producer
  BY Stays, Shapes
<1>3. l.producer = listener[t] /\ listener[t] # NoProducer
  BY <1>1, <1>2 DEF IInv, Owns
<1> HIDE DEF l
<1>4. /\ UNCHANGED <<queue, loopVars>> /\ life' \in [Threads -> Nat] /\ posts' \in [Threads -> Nat]
  BY <1>1 DEF InTable, IInv, Types, prodVars
<1>5. Goto(t, "exit") /\ "exit" \in Steps \ {"subscribe"}
  BY <1>1, Stays DEF Steps
<1> QED BY <1>1, <1>2, <1>3, <1>4, <1>5, Quiet

\* The thread is gone; another may get its id.
LEMMA NextListenerStep ==
  ASSUME IInv, NEW t \in Threads, InTable(t), NextListener(t)
  PROVE  IInv'
<1>1. /\ UNCHANGED prodVars /\ Goto(t, "idle") /\ Local(t, NoLocals)
      /\ life' = [life EXCEPT ![t] = @ + 1]
  BY DEF NextListener, GivesUp
<1>2. /\ UNCHANGED <<queue, loopVars>> /\ life' \in [Threads -> Nat] /\ posts' \in [Threads -> Nat]
  BY <1>1 DEF InTable, IInv, Types, prodVars
<1>3. "idle" \in Steps \ {"subscribe"}
  BY DEF Steps
<1> QED BY <1>1, <1>2, <1>3, FreshShapes, Quiet

\* The thread begins to end, with the producer that hears of it.
LEMMA EndsStep ==
  ASSUME IInv, NEW t \in Threads, ThreadEnds(t)
  PROVE  IInv'
<1> DEFINE l == [NoLocals EXCEPT !.hash = Main, !.producer = listener[t]]
<1>1. /\ UNCHANGED <<prodVars, queue, loopVars>> /\ life' = life /\ posts' = posts
      /\ listener[t] # NoProducer /\ Goto(t, "exit") /\ Local(t, l)
  BY DEF ThreadEnds, Exit
<1>2. IsLocals(l) /\ l.producer = listener[t]
  BY FreshShapes, Zenon
<1> HIDE DEF l
<1>3. life' \in [Threads -> Nat] /\ posts' \in [Threads -> Nat]
  BY <1>1 DEF IInv, Types
<1>4. "exit" \in Steps \ {"subscribe"}
  BY DEF Steps
<1> QED BY <1>1, <1>2, <1>3, <1>4, Quiet

\* Every step inside the table.
LEMMA InTableStep ==
  ASSUME IInv, NEW t \in Threads, InTable(t)
  PROVE  IInv'
<1>1. TableStep(t)
  BY DEF InTable
<1> QED BY <1>1, MoveStep, CountInStep, TestAndSetStep, WaitStep, ResizeStep, UnlockStep, FailSteps,
           LoadListStep, RecycleStep, AddProducerStep, SubscribeStep, InsertStep, UncountStep, UnhashStep,
           DeactivateStep, NextListenerStep
        DEF TableStep

\* The task is appended to the stream.
LEMMA EnqueueStep ==
  ASSUME IInv, NEW t \in Threads, Enqueue(t)
  PROVE  IInv'
<1> DEFINE T == Threads \X Nat \X Nat
<1>1. /\ UNCHANGED <<prodVars, loopVars>> /\ life' = life /\ posts' = posts
      /\ Goto(t, "idle") /\ Local(t, NoLocals) /\ pc[t] = "enqueue"
      /\ queue' = [queue EXCEPT ![loc[t].producer] = Append(@, Task(t))]
  BY DEF Enqueue, GivesUp
<1>2. PICK p : p = loc[t].producer
  OBVIOUS
<1>3. PICK x : x = Task(t)
  OBVIOUS
<1>4. x \in T
  BY <1>3 DEF Task, IInv, Types
<1>5. queue' = [queue EXCEPT ![p] = Append(queue[p], x)]
  BY <1>1, <1>2, <1>3
<1>6. queue \in Seq(Seq(T))
  BY DEF IInv, Types
<1> HIDE DEF T
<1>7. /\ queue' \in Seq(Seq(T)) /\ Len(queue') = Len(queue)
      /\ \A q \in 1 .. Len(queue) : queue[q] # <<>> => queue'[q] # <<>>
  <2>1. CASE p \in 1 .. Len(queue)
    <3>1. queue[p] \in Seq(T)
      BY <1>6, <2>1
    <3>2. PICK y \in Seq(T) : y = Append(queue[p], x) /\ y # <<>>
      BY <1>4, <3>1, SeqFacts
    <3>3. queue' = [queue EXCEPT ![p] = y]
      BY <1>5, <3>2
    <3> QED BY <1>6, <2>1, <3>2, <3>3, Replace
  <2>2. CASE p \notin 1 .. Len(queue)
    <3>1. queue' = queue
      BY <1>5, <1>6, <2>2
    <3> QED BY <1>6, <3>1
  <2> QED BY <2>1, <2>2
<1>8. life' \in [Threads -> Nat] /\ posts' \in [Threads -> Nat]
  BY <1>1 DEF IInv, Types
<1>9. "idle" \in Steps \ {"subscribe"}
  BY DEF Steps
<1> QED BY <1>1, <1>7, <1>8, <1>9, FreshShapes, Grows DEF T

\* Or it is not, for want of memory.
LEMMA EnqueueFailsStep ==
  ASSUME IInv, NEW t \in Threads, EnqueueFails(t)
  PROVE  IInv'
<1>1. /\ UNCHANGED <<prodVars, queue, loopVars>> /\ life' = life /\ posts' = posts
      /\ Goto(t, "idle") /\ Local(t, NoLocals)
  BY DEF EnqueueFails, GivesUp
<1>2. life' \in [Threads -> Nat] /\ posts' \in [Threads -> Nat]
  BY <1>1 DEF IInv, Types
<1>3. "idle" \in Steps \ {"subscribe"}
  BY DEF Steps
<1> QED BY <1>1, <1>2, <1>3, FreshShapes, Quiet

-----------------------------------------------------------------------------
(***************************************************************************)
(* The thread of the loop.                                                 *)
(***************************************************************************)

\* What it does to the streams and its own variables leaves the threads alone.
LEMMA LoopMoves ==
  ASSUME IInv, UNCHANGED <<threadVars, posts>>,
         queue' \in Seq(Seq(Threads \X Nat \X Nat)), Len(queue') = Len(queue),
         scan' \in Scan, seen' \in BOOLEAN, Drains', Ends'
  PROVE  IInv'
<1>1. UNCHANGED <<producers, listener, pc, loc, life, posts>>
  BY DEF threadVars, prodVars
<1>2. Types'
  BY <1>1 DEF IInv, Types
<1>3. Owns'
  BY <1>1 DEF IInv, Owns, Owned, Active
<1> QED BY <1>2, <1>3 DEF IInv

\* What the scan knows when it goes on from s.
LEMMA ScanOn ==
  ASSUME NEW s \in Scan, s.at <= Len(queue), Len(queue) \in Nat, queue' = queue, ScanFrom(s),
         s.nonEmptyCount > 0 => HasTask(s.best),
         s.nonEmptyCount = 0 => s.bestSize = 0,
         seen' /\ s.nonEmptyCount = 0 => \E p \in 1 .. s.at : HasTask(p)
  PROVE  Drains' /\ scan' \in Scan /\ loop' \in {"score", "best", "wait"}
<1>1. s.at \in Nat /\ s.nonEmptyCount \in Nat /\ s.best \in Nat
  BY DEF Scan
<1>2. \A p : HasTask(p)' = HasTask(p)
  BY DEF HasTask
<1>3. CASE s.at > 0 /\ s.nonEmptyCount < 3
  <2>1. loop' = "score" /\ scan' = s
    BY <1>3 DEF ScanFrom
  <2> QED BY <1>1, <1>2, <1>3, <2>1 DEF Drains
<1>4. CASE ~(s.at > 0 /\ s.nonEmptyCount < 3) /\ s.nonEmptyCount > 0
  <2>1. loop' = "best" /\ scan' = [NoScan EXCEPT !.best = s.best]
    BY <1>4 DEF ScanFrom
  <2>2. scan' = [at |-> 0, nonEmptyCount |-> 0, best |-> s.best, bestSize |-> 0]
    BY <2>1 DEF NoScan
  <2>3. scan' \in Scan /\ scan'.best = s.best
    BY <1>1, <2>2 DEF Scan
  <2> QED BY <1>2, <1>4, <2>1, <2>3 DEF Drains
<1>5. CASE ~(s.at > 0 /\ s.nonEmptyCount < 3) /\ ~(s.nonEmptyCount > 0)
  <2>1. loop' = "wait" /\ scan' = NoScan
    BY <1>5 DEF ScanFrom
  <2>2. scan' \in Scan
    BY <2>1 DEF Scan, NoScan, NoProducer
  <2>3. s.at = 0 /\ s.nonEmptyCount = 0
    BY <1>1, <1>5
  <2>4. ~seen'
    BY <2>3
  <2> QED BY <2>1, <2>2, <2>4 DEF Drains
<1> QED BY <1>3, <1>4, <1>5

\* try_dequeue is called.
LEMMA TryDequeueStep ==
  ASSUME IInv, TryDequeue
  PROVE  IInv'
<1>1. PICK n \in Nat : n = Len(producers) /\ n = Len(queue) /\ queue \in Seq(Seq(Threads \X Nat \X Nat))
  BY DEF IInv, Types
<1>2. PICK s : s = [NoScan EXCEPT !.at = n]
  OBVIOUS
<1>3. s = [at |-> n, nonEmptyCount |-> 0, best |-> 0, bestSize |-> 0]
  BY <1>2 DEF NoScan, NoProducer
<1>4. /\ ScanFrom(s) /\ UNCHANGED <<threadVars, posts, queue>>
      /\ seen' = \E p \in DOMAIN queue : queue[p] # <<>>
  BY <1>1, <1>2 DEF TryDequeue
<1>5. /\ s \in Scan /\ s.at = n /\ s.nonEmptyCount = 0 /\ s.bestSize = 0
  BY <1>3 DEF Scan
<1>6. seen' \in BOOLEAN /\ (seen' => \E p \in 1 .. n : HasTask(p))
  BY <1>1, <1>4 DEF HasTask
<1>7. Drains' /\ scan' \in Scan /\ loop' \in {"score", "best", "wait"}
  BY <1>1, <1>4, <1>5, <1>6, ScanOn
<1>8. Ends'
  BY <1>7 DEF Ends
<1> QED BY <1>1, <1>4, <1>6, <1>7, <1>8, LoopMoves

\* One producer is scored.
LEMMA ScoreStep ==
  ASSUME IInv, Score
  PROVE  IInv'
<1>1. /\ loop = "score" /\ UNCHANGED <<threadVars, posts, queue, seen>>
      /\ scan \in Scan /\ scan.at \in 1 .. Len(queue) /\ Len(queue) \in Nat /\ seen \in BOOLEAN
      /\ queue \in Seq(Seq(Threads \X Nat \X Nat))
      /\ scan.nonEmptyCount > 0 => HasTask(scan.best)
      /\ scan.nonEmptyCount = 0 => scan.bestSize = 0
      /\ seen /\ scan.nonEmptyCount = 0 => \E p \in 1 .. scan.at : HasTask(p)
  BY DEF Score, IInv, Types, Drains
<1>2. PICK a \in Nat, n \in Nat, b \in Nat, z \in Nat :
        scan = [at |-> a, nonEmptyCount |-> n, best |-> b, bestSize |-> z]
  BY <1>1 DEF Scan
<1>3. PICK size \in Nat : size = Len(queue[a]) /\ (size = 0 <=> queue[a] = <<>>)
  <2>1. queue[a] \in Seq(Threads \X Nat \X Nat)
    BY <1>1, <1>2
  <2> QED BY <2>1
<1>4. a \in 1 .. Len(queue) /\ (n > 0 => HasTask(b)) /\ (n = 0 => z = 0)
      /\ (seen /\ n = 0 => \E p \in 1 .. a : HasTask(p))
  BY <1>1, <1>2
<1>5. PICK s : /\ ScanFrom(s)
               /\ s = IF Len(queue[scan.at]) = 0 THEN [scan EXCEPT !.at = @ - 1] ELSE
                        [[scan EXCEPT !.at = @ - 1] EXCEPT
                          !.nonEmptyCount = @ + 1,
                          !.best     = IF Len(queue[scan.at]) > scan.bestSize THEN scan.at ELSE @,
                          !.bestSize = IF Len(queue[scan.at]) > scan.bestSize
                                         THEN Len(queue[scan.at]) ELSE @]
  BY DEF Score
<1>6. s.at \in Nat /\ s.at <= Len(queue) /\ s \in Scan
      /\ (s.nonEmptyCount > 0 => HasTask(s.best))
      /\ (s.nonEmptyCount = 0 => s.bestSize = 0)
      /\ (seen' /\ s.nonEmptyCount = 0 => \E p \in 1 .. s.at : HasTask(p))
  <2>1. CASE size = 0
    <3>1. s = [scan EXCEPT !.at = @ - 1]
      BY <1>2, <1>3, <1>5, <2>1
    <3>2. s = [at |-> a - 1, nonEmptyCount |-> n, best |-> b, bestSize |-> z]
      BY <1>2, <3>1
    <3>3. a - 1 \in Nat /\ a - 1 <= Len(queue)
      BY <1>1, <1>4
    <3>4. s \in Scan /\ s.at = a - 1 /\ s.nonEmptyCount = n /\ s.best = b /\ s.bestSize = z
      BY <3>2, <3>3 DEF Scan
    <3>5. ~HasTask(a)
      BY <1>3, <2>1 DEF HasTask
    <3>6. seen' /\ n = 0 => \E p \in 1 .. (a - 1) : HasTask(p)
      BY <1>1, <1>4, <3>5
    <3> QED BY <1>4, <3>3, <3>4, <3>6
  <2>2. CASE size > 0
    <3> DEFINE best == IF size > z THEN a ELSE b
               bestSize == IF size > z THEN size ELSE z
    <3>1. s = [[scan EXCEPT !.at = @ - 1] EXCEPT
                !.nonEmptyCount = @ + 1,
                !.best     = IF size > scan.bestSize THEN scan.at ELSE @,
                !.bestSize = IF size > scan.bestSize THEN size ELSE @]
      <4>1. Len(queue[scan.at]) = size /\ size # 0
        BY <1>2, <1>3, <2>2
      <4> QED BY <1>5, <4>1
    <3>2. s = [at |-> a - 1, nonEmptyCount |-> n + 1, best |-> best, bestSize |-> bestSize]
      BY <1>2, <3>1
    <3>3. a - 1 \in Nat /\ a - 1 <= Len(queue) /\ n + 1 \in Nat /\ n + 1 > 0
          /\ best \in Nat /\ bestSize \in Nat
      BY <1>1, <1>4
    <3>4. HasTask(best)
      <4>1. HasTask(a)
        BY <1>3, <1>4, <2>2 DEF HasTask
      <4> QED BY <1>4, <2>2, <4>1
    <3> HIDE DEF best, bestSize
    <3>5. s \in Scan /\ s.at = a - 1 /\ s.nonEmptyCount = n + 1 /\ s.best = best
      BY <3>2, <3>3 DEF Scan
    <3> QED BY <3>3, <3>4, <3>5
  <2> QED BY <2>1, <2>2
<1>7. Drains' /\ scan' \in Scan /\ loop' \in {"score", "best", "wait"}
  BY <1>1, <1>5, <1>6, ScanOn
<1>8. Ends'
  BY <1>7 DEF Ends
<1> QED BY <1>1, <1>7, <1>8, LoopMoves

\* A task is dequeued and called.
LEMMA DequeueStep ==
  ASSUME IInv, Dequeue
  PROVE  IInv'
<1> DEFINE T == Threads \X Nat \X Nat
<1>1. /\ loop = "best" /\ loop' = "task" /\ scan' = NoScan /\ UNCHANGED <<threadVars, posts, seen>>
      /\ queue' = [queue EXCEPT ![scan.best] = Tail(@)]
      /\ seen \in BOOLEAN /\ queue \in Seq(Seq(T)) /\ HasTask(scan.best)
  BY DEF Dequeue, IInv, Types, Drains
<1>2. PICK p \in 1 .. Len(queue) : p = scan.best /\ queue[p] # <<>>
  BY <1>1 DEF HasTask
<1> HIDE DEF T
<1>3. queue' \in Seq(Seq(T)) /\ Len(queue') = Len(queue)
  <2>1. queue[p] \in Seq(T)
    BY <1>1, <1>2
  <2>2. PICK y \in Seq(T) : y = Tail(queue[p])
    BY <1>2, <2>1, SeqFacts
  <2>3. queue' = [queue EXCEPT ![p] = y]
    BY <1>1, <1>2, <2>2
  <2> QED BY <1>1, <1>2, <2>2, <2>3, Replace
<1>4. scan' \in Scan
  BY <1>1 DEF Scan, NoScan, NoProducer
<1>5. Drains' /\ Ends'
  BY <1>1 DEF Drains, Ends
<1> QED BY <1>1, <1>3, <1>4, <1>5, LoopMoves DEF T

\* epoll_wait returns.
LEMMA WakesStep ==
  ASSUME IInv, Wakes
  PROVE  IInv'
<1>1. /\ loop' = "away" /\ UNCHANGED <<threadVars, posts, queue, scan, seen>>
      /\ seen \in BOOLEAN /\ queue \in Seq(Seq(Threads \X Nat \X Nat)) /\ scan \in Scan
  BY DEF Wakes, IInv, Types
<1>2. Drains' /\ Ends'
  BY <1>1 DEF Drains, Ends
<1> QED BY <1>1, <1>2, LoopMoves

-----------------------------------------------------------------------------
(***************************************************************************)
(* The loop is destroyed.                                                  *)
(***************************************************************************)

\* The producer that hears of a thread's end is in the list, and active.
LEMMA HeardIn ==
  ASSUME IInv, NEW t \in Threads
  PROVE  listener[t] # 0 => listener[t] \in 1 .. Len(producers) /\ ~producers[listener[t]].inactive
  BY DEF IInv, Owns, Owned, Active, NoProducer

\* The destructor begins.
LEMMA DestroyStep ==
  ASSUME IInv, Destroy
  PROVE  IInv'
<1>1. /\ loop' = "dying" /\ UNCHANGED <<threadVars, posts, queue, seen>>
      /\ scan' = [NoScan EXCEPT !.at = Len(producers)]
      /\ \A t \in Threads : pc[t] \in {"idle", "exit", "next"}
      /\ producers # <<>> /\ producers \in Seq([inactive : BOOLEAN])
      /\ listener \in [Threads -> Nat]
      /\ seen \in BOOLEAN /\ queue \in Seq(Seq(Threads \X Nat \X Nat))
  BY DEF Destroy, IInv, Types
<1>2. PICK n \in Nat \ {0} : n = Len(producers)
  BY <1>1, SeqFacts
<1>3. scan' = [at |-> n, nonEmptyCount |-> 0, best |-> 0, bestSize |-> 0]
  BY <1>1, <1>2 DEF NoScan, NoProducer
<1>4. scan' \in Scan /\ scan'.at = n
  BY <1>3 DEF Scan
<1>5. UNCHANGED <<producers, listener, pc>>
  BY <1>1 DEF threadVars, prodVars
<1>6. \A t \in Threads : listener[t] <= n
  BY <1>1, <1>2, HeardIn
<1>7. Drains' /\ Ends'
  BY <1>1, <1>2, <1>4, <1>5, <1>6 DEF Drains, Ends
<1> QED BY <1>1, <1>4, <1>7, LoopMoves

\* One producer is destroyed that no thread reports to any more.
LEMMA DestroyedOne ==
  ASSUME IInv, loop = "dying", Destroyed,
         UNCHANGED <<producers, pc>>,
         listener' \in [Threads -> Nat],
         \A t \in Threads : listener'[t] <= listener[t] /\ listener'[t] # scan.at
  PROVE  scan' \in Scan /\ Drains' /\ Ends'
<1>1. /\ scan \in Scan /\ scan.at \in 1 .. Len(producers) /\ Len(producers) \in Nat
      /\ \A t \in Threads : listener[t] <= scan.at /\ listener[t] \in Nat
      /\ \A t \in Threads : pc[t] \in {"idle", "exit", "next"}
  BY DEF IInv, Types, Ends
<1>2. PICK a \in Nat : a = scan.at - 1
  BY <1>1
<1>3. loop' = IF a = 0 THEN "gone" ELSE "dying"
  BY <1>2 DEF Destroyed
<1>4. scan' = [at |-> a, nonEmptyCount |-> 0, best |-> 0, bestSize |-> 0]
  BY <1>2 DEF Destroyed, NoScan, NoProducer
<1>5. scan' \in Scan /\ scan'.at = a
  BY <1>4 DEF Scan
<1>6. \A t \in Threads : listener'[t] \in Nat /\ listener'[t] <= a
  BY <1>1, <1>2
<1>7. Drains'
  BY <1>3 DEF Drains
<1>8. Ends'
  <2>1. CASE a = 0
    <3>1. \A t \in Threads : listener'[t] = NoProducer
      BY <1>6, <2>1 DEF NoProducer
    <3> QED BY <1>1, <1>3, <2>1, <3>1 DEF Ends
  <2>2. CASE a # 0
    BY <1>1, <1>2, <1>3, <1>5, <1>6, <2>2 DEF Ends
  <2> QED BY <2>1, <2>2
<1> QED BY <1>5, <1>7, <1>8

\* The next producer is inactive, or is to be unsubscribed.
LEMMA DestroyInactiveStep ==
  ASSUME IInv, DestroyInactive
  PROVE  IInv'
<1>1. /\ loop = "dying" /\ UNCHANGED <<threadVars, posts, queue, seen>>
      /\ seen \in BOOLEAN /\ queue \in Seq(Seq(Threads \X Nat \X Nat)) /\ scan \in Scan
      /\ listener \in [Threads -> Nat]
      /\ UNCHANGED <<producers, listener, pc>>
  BY DEF DestroyInactive, IInv, Types, threadVars, prodVars
<1>2. CASE producers[scan.at].inactive
  <2>1. Destroyed
    BY <1>2 DEF DestroyInactive
  <2>2. \A t \in Threads : listener[t] # scan.at
    <3>1. scan.at \in Nat \ {0}
      BY <1>1 DEF IInv, Ends
    <3> QED BY <1>2, <3>1, HeardIn
  <2>3. \A t \in Threads : listener'[t] <= listener[t] /\ listener'[t] # scan.at
    BY <1>1, <2>2
  <2>4. scan' \in Scan /\ Drains' /\ Ends'
    BY <1>1, <2>1, <2>3, DestroyedOne
  <2> QED BY <1>1, <2>4, LoopMoves
<1>3. CASE ~producers[scan.at].inactive
  <2>1. scan' = [scan EXCEPT !.best = scan.at] /\ loop' = loop
    BY <1>3 DEF DestroyInactive
  <2>2. PICK a \in Nat, n \in Nat, b \in Nat, z \in Nat :
          scan = [at |-> a, nonEmptyCount |-> n, best |-> b, bestSize |-> z]
    BY <1>1 DEF Scan
  <2>3. scan' = [at |-> a, nonEmptyCount |-> n, best |-> a, bestSize |-> z]
    BY <2>1, <2>2
  <2>4. scan' \in Scan /\ scan'.at = scan.at
    BY <2>2, <2>3 DEF Scan
  <2>5. Drains' /\ Ends'
    BY <1>1, <2>1, <2>4 DEF IInv, Drains, Ends
  <2> QED BY <1>1, <2>4, <2>5, LoopMoves
<1> QED BY <1>2, <1>3

\* It is unsubscribed, under the mutex, and destroyed.
LEMMA DestroyActiveStep ==
  ASSUME IInv, DestroyActive
  PROVE  IInv'
<1>1. /\ loop = "dying" /\ UNCHANGED <<producers, pc, loc, life, posts, queue, seen>>
      /\ listener' = [t \in Threads |-> IF listener[t] = scan.at THEN NoProducer ELSE listener[t]]
      /\ Destroyed /\ \A t \in Threads : pc[t] = "idle"
      /\ scan.at \in Nat \ {0} /\ listener \in [Threads -> Nat]
  <2>1. /\ loop = "dying" /\ UNCHANGED <<producers, pc, loc, life, posts, queue, seen>>
        /\ listener' = [t \in Threads |-> IF listener[t] = scan.at THEN NoProducer ELSE listener[t]]
        /\ Destroyed /\ \A t \in Threads : pc[t] \notin {"exit", "next"}
    BY DEF DestroyActive, MutexFree
  <2>2. (\A t \in Threads : pc[t] \in {"idle", "exit", "next"}) /\ scan.at \in Nat \ {0}
    BY <2>1 DEF IInv, Ends
  <2> QED BY <2>1, <2>2 DEF IInv, Types
<1>2. /\ listener' \in [Threads -> Nat]
      /\ \A t \in Threads : /\ listener'[t] \in {listener[t], NoProducer}
                            /\ listener'[t] <= listener[t] /\ listener'[t] # scan.at
  BY <1>1 DEF NoProducer
<1>3. scan' \in Scan /\ Drains' /\ Ends'
  BY <1>1, <1>2, DestroyedOne
<1>4. Types'
  BY <1>1, <1>2, <1>3 DEF IInv, Types
<1>5. Owns'
  <2>1. \A u \in Threads : Owned(u)' \subseteq Owned(u)
    BY <1>1, <1>2 DEF Owned
  <2>2. \A u \in Threads : Owned(u)' \subseteq Active'
    BY <1>1, <2>1 DEF IInv, Owns, Active
  <2>3. \A u, v \in Threads : u # v => Owned(u)' \cap Owned(v)' = {}
    BY <2>1 DEF IInv, Owns
  <2>4. \A u \in Threads : pc'[u] # "scan" /\ pc'[u] # "exit"
    BY <1>1
  <2> QED BY <2>2, <2>3, <2>4 DEF Owns
<1> QED BY <1>3, <1>4, <1>5 DEF IInv

-----------------------------------------------------------------------------
\* Every step keeps the invariant.
LEMMA NextInv == IInv /\ [Next]_vars => IInv'
<1> SUFFICES ASSUME IInv, [Next]_vars PROVE IInv'
  OBVIOUS
<1>1. CASE Next
  <2>1. ASSUME NEW t \in Threads, Post(t) \/ CallStep(t) \/ ThreadEnds(t) PROVE IInv'
    BY <2>1, PostStep, InTableStep, EnqueueStep, EnqueueFailsStep, EndsStep DEF CallStep
  <2>2. CASE LoopStep
    BY <2>2, TryDequeueStep, ScoreStep, DequeueStep, WakesStep DEF LoopStep
  <2>3. CASE Destroy \/ DestroyInactive \/ DestroyActive
    BY <2>3, DestroyStep, DestroyInactiveStep, DestroyActiveStep
  <2> QED BY <1>1, <2>1, <2>2, <2>3 DEF Next
<1>2. CASE UNCHANGED vars
  <2>1. UNCHANGED <<producers, listener, pc, loc, life, posts, queue, loop, scan, seen>>
    BY <1>2 DEF vars, threadVars, prodVars, loopVars
  <2>2. Types' /\ Owns'
    BY <2>1 DEF IInv, Types, Owns, Owned, Active
  <2>3. Drains' /\ Ends'
    BY <2>1 DEF IInv, Drains, HasTask, Ends
  <2> QED BY <2>2, <2>3 DEF IInv
<1> QED BY <1>1, <1>2

\* The inductive invariant holds in every reachable state.
THEOREM Invariance == Spec => []IInv
  BY InitInv, NextInv, PTL DEF Spec

\* try_dequeue takes from a stream that has a task, and finds none only if there
\* was none when it was called: run does not go on to epoll_wait over a task that
\* was posted before its last look, whatever the streams and whoever posts
\* meanwhile (ConcurrentQueue::try_dequeue, NetLoop::run).
THEOREM TheLoopDrainsBeforeItWaits == Spec => []DrainedBeforeWait
<1>1. IInv => DrainedBeforeWait
  <2> SUFFICES ASSUME IInv PROVE DrainedBeforeWait
    OBVIOUS
  <2>1. (loop = "best" => HasTask(scan.best)) /\ (loop = "wait" => ~seen)
    BY DEF IInv, Drains
  <2>2. HasTask(scan.best) => scan.best # 0
    BY DEF HasTask
  <2> QED BY <2>1, <2>2 DEF HasTask, DrainedBeforeWait, NoProducer
<1> QED BY <1>1, Invariance, PTL

\* While the queue is destroyed a thread can only have a producer that is still
\* to be destroyed, and none when it is gone: no thread that ends calls into it
\* (~ConcurrentQueue, ~ImplicitProducer, ThreadExitNotifier).
THEOREM NoThreadCallsADestroyedQueue == Spec => []NoCallbackAfterDestroy
<1>1. IInv => NoCallbackAfterDestroy
  BY DEF IInv, Ends, NoCallbackAfterDestroy
<1> QED BY <1>1, Invariance, PTL
=============================================================================
