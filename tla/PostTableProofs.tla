--------------------------- MODULE PostTableProofs ---------------------------
(***************************************************************************)
(* The table of ids and the order of the tasks, proved of PostQueue for    *)
(* any number of threads, ids that collide, tables, posts and threads that *)
(* end: a post finds its own stream and no other, and the tasks of a       *)
(* thread run in the order it posted them.                                 *)
(*                                                                         *)
(* OwnStream is not inductive.  TableInv adds what the search relies on:   *)
(* every slot that has an id is one the search for that id reaches, as no  *)
(* slot on the way to it is ever empty again, and leads to the producer    *)
(* that hears of the end of the thread (Leads); and where the id of a      *)
(* thread is at each of its steps (Place): in no table before it is        *)
(* inserted and once all of them are searched, in one while it has a       *)
(* producer and does not end.                                              *)
(*                                                                         *)
(* OrderKept then needs to know of the tasks that wait: those of a thread  *)
(* are in one queue, in the order posted, and later than those that ran;   *)
(* as long as the thread lives that queue is the one it enqueues to.       *)
(*                                                                         *)
(* A table may hold any number of old ids, and two searches may go round   *)
(* it: neither fact needs the table to have room.                          *)
(***************************************************************************)
EXTENDS PostQueueProofs, FiniteSetTheorems, WellFoundedInduction

USE TableAssumption, PostAssumption DEF TableAssumption, PostAssumption

Keys == Threads \cup Available
HashOf(c) == [keys : [0 .. (c - 1) -> Keys], values : [0 .. (c - 1) -> Nat]]
Hash == UNION {HashOf(c) : c \in Nat \ {0}}

Locals == [hash : Nat, count : Int, at : Nat, producer : Nat]

Tables ==
  /\ hashes \in Seq(Hash) /\ hashes # <<>>
  /\ implicitProducerHashCount \in Int
  /\ loc \in [Threads -> Locals]

\* A number that is too large for the table goes round it.
LEMMA GoesRound ==
  ASSUME NEW x \in Nat, NEW n \in Nat, NEW c \in Nat \ {0}
  PROVE  /\ (x + n) % c \in 0 .. (c - 1)
         /\ n % c \in 0 .. (c - 1) /\ n % c <= n
         /\ (x + (n % c)) % c = (x + n) % c
<1>1. \A y \in Nat : /\ y % c \in 0 .. (c - 1) /\ y \div c \in Nat
                     /\ y = c * (y \div c) + (y % c)
  OBVIOUS
<1>2. \A q \in Int, r \in 0 .. (c - 1) : (c * q + r) % c = r
  OBVIOUS
<1>3. PICK q \in Nat, r \in 0 .. (c - 1) : q = n \div c /\ r = n % c /\ n = c * q + r
  BY <1>1
<1>4. r <= n
  <2>1. c * q \in Nat
    OBVIOUS
  <2> QED BY <1>3, <2>1
<1>5. PICK p \in Nat, s \in 0 .. (c - 1) : s = (x + r) % c /\ x + r = c * p + s
  <2>1. x + r \in Nat
    OBVIOUS
  <2> QED BY <1>1, <2>1
<1>6. x + n = c * (p + q) + s
  <2>1. c * (p + q) = c * p + c * q
    OBVIOUS
  <2>2. PICK d \in Nat, e \in Nat : d = c * p /\ e = c * q
    OBVIOUS
  <2>3. n = e + r /\ x + r = d + s /\ c * (p + q) = d + e
    BY <1>3, <1>5, <2>1, <2>2
  <2> QED BY <2>3
<1>7. (x + n) % c = s
  BY <1>2, <1>6
<1> QED BY <1>1, <1>3, <1>4, <1>5, <1>7

\* A table has the slots 0 .. capacity - 1.
LEMMA TableFacts ==
  ASSUME Tables, NEW h \in 1 .. Main
  PROVE  /\ capacity(h) \in Nat \ {0} /\ DOMAIN hashes[h].keys = 0 .. (capacity(h) - 1)
         /\ hashes[h] \in HashOf(capacity(h))
<1>1. PICK H : H = hashes[h] /\ H \in Hash
  BY DEF Tables, Main
<1>2. PICK c \in Nat \ {0} : H \in HashOf(c)
  BY <1>1 DEF Hash
<1>3. DOMAIN H.keys = 0 .. (c - 1)
  BY <1>2 DEF HashOf
<1>4. Cardinality(0 .. (c - 1)) = c
  BY FS_Interval
<1>5. capacity(h) = c
  BY <1>1, <1>3, <1>4 DEF capacity
<1> QED BY <1>1, <1>2, <1>3, <1>5

\* A probe is a slot, and every slot it reaches it reaches in one round.
LEMMA ProbeFacts ==
  ASSUME Tables, NEW h \in 1 .. Main, NEW t \in Threads, NEW n \in Nat
  PROVE  /\ Probe(h, t, n) \in DOMAIN hashes[h].keys
         /\ \E m \in 0 .. (capacity(h) - 1) : m <= n /\ Probe(h, t, m) = Probe(h, t, n)
<1>1. PICK c \in Nat \ {0} : c = capacity(h) /\ DOMAIN hashes[h].keys = 0 .. (c - 1)
  BY TableFacts
<1>2. PICK x \in Nat : x = hash_thread_id[t]
  OBVIOUS
<1>3. /\ (x + n) % c \in 0 .. (c - 1)
      /\ n % c \in 0 .. (c - 1) /\ n % c <= n
      /\ (x + (n % c)) % c = (x + n) % c
  BY GoesRound
<1>4. \A m : Probe(h, t, m) = (x + m) % c
  BY <1>1, <1>2 DEF Probe
<1> QED BY <1>1, <1>3, <1>4

-----------------------------------------------------------------------------
CallSteps == {"move", "count", "full", "wait", "resize", "unlock", "fail", "list", "scan",
              "subscribe", "insert", "uncount", "enqueue"}

\* The steps at which no table has the thread's id.
Unfound == {"count", "full", "wait", "resize", "unlock", "fail", "list", "scan", "subscribe",
            "insert", "next"}

InHash(t, h) == \E i \in DOMAIN hashes[h].keys : hashes[h].keys[i] = t

\* A slot with the id is found, and leads to the producer that hears of the end.
Leads(t) == \A h \in 1 .. Main : \A i \in DOMAIN hashes[h].keys :
  hashes[h].keys[i] = t =>
    /\ i \in FoundAt(h, t)
    /\ hashes[h].values[i] = listener[t] /\ listener[t] # NoProducer

\* Where the id is, for a thread at a step with these locals.
Place(t, step, l) ==
  /\ step \in {"idle", "move", "uncount", "enqueue"} /\ listener[t] # NoProducer =>
       \E h \in 1 .. Main : InHash(t, h)
  /\ step \in Unfound => \A h \in 1 .. Main : ~InHash(t, h)
  /\ step = "exit" => \A h \in 1 .. Main : h > l.hash => ~InHash(t, h)
  /\ step \in Unfound \ {"insert"} => listener[t] = NoProducer
  /\ step \in {"move", "insert", "uncount", "enqueue"} => l.producer = listener[t] /\ listener[t] # NoProducer
  /\ step \in CallSteps => l.hash \in 1 .. Main
  /\ step \in {"move", "insert"} =>
       \A m \in 0 .. (l.at - 1) : hashes[l.hash].keys[Probe(l.hash, t, m)] # InvalidId
  /\ step = "subscribe" => l.at = 0

Kept(t) == Leads(t) /\ Place(t, pc[t], loc[t])

AllKept == Tables /\ \A t \in Threads : Kept(t)

\* Until the queue is destroyed.
TableInv == loop \notin {"dying", "gone"} => AllKept

\* A slot that is found stays found, as no slot on the way becomes empty again.
LEMMA FoundStays ==
  ASSUME Tables, NEW u \in Threads, NEW h \in 1 .. Main,
         DOMAIN hashes'[h].keys = DOMAIN hashes[h].keys,
         \A j \in DOMAIN hashes[h].keys : hashes[h].keys[j] # InvalidId => hashes'[h].keys[j] # InvalidId,
         NEW i \in FoundAt(h, u), hashes'[h].keys[i] = u
  PROVE  i \in FoundAt(h, u)'
<1>1. PICK n \in 0 .. (capacity(h) - 1) :
             /\ i \in DOMAIN hashes[h].keys
             /\ i = Probe(h, u, n) /\ hashes[h].keys[i] = u
             /\ \A m \in 0 .. (n - 1) : hashes[h].keys[Probe(h, u, m)] # InvalidId
  BY DEF FoundAt
<1>2. n \in Nat /\ \A m \in 0 .. (n - 1) : m \in Nat
  BY TableFacts
<1>3. capacity(h)' = capacity(h) /\ \A m : Probe(h, u, m)' = Probe(h, u, m)
  BY DEF capacity, Probe
<1>4. \A m \in Nat : Probe(h, u, m) \in DOMAIN hashes[h].keys
  BY ProbeFacts
<1>5. \A m \in 0 .. (n - 1) : hashes'[h].keys[Probe(h, u, m)] # InvalidId
  BY <1>1, <1>2, <1>4
<1>6. \A m \in 0 .. (n - 1) : hashes'[h].keys[Probe(h, u, m)'] # InvalidId
  BY <1>3, <1>5
<1>7. i = Probe(h, u, n)' /\ n \in 0 .. (capacity(h)' - 1)
  BY <1>1, <1>3
<1> QED BY <1>1, <1>6, <1>7 DEF FoundAt

\* The tables grow: other threads find what they found.
LEMMA OthersKept ==
  ASSUME Tables, NEW t \in Threads, NEW u \in Threads \ {t}, Kept(u), Tables',
         Main <= Main',
         \A h \in 1 .. Main : DOMAIN hashes'[h].keys = DOMAIN hashes[h].keys,
         \A h \in 1 .. Main : \A i \in DOMAIN hashes[h].keys :
            /\ hashes[h].keys[i] # InvalidId => hashes'[h].keys[i] # InvalidId
            /\ hashes'[h].keys[i] = u <=> hashes[h].keys[i] = u
            /\ hashes'[h].keys[i] = u => hashes'[h].values[i] = hashes[h].values[i],
         \A h \in 1 .. Main' : h \notin 1 .. Main =>
            \A i \in DOMAIN hashes'[h].keys : hashes'[h].keys[i] # u,
         listener'[u] = listener[u], pc'[u] = pc[u], loc'[u] = loc[u]
  PROVE  Kept(u)'
<1>0. Main \in Nat /\ Main' \in Nat /\ loc[u] \in Locals
  BY DEF Tables, Main
<1>1. \A h \in 1 .. Main : InHash(u, h)' <=> InHash(u, h)
  BY DEF InHash
<1>2. \A h \in 1 .. Main' : h \notin 1 .. Main => ~InHash(u, h)'
  BY DEF InHash
<1>3. \A h \in 1 .. Main : h \in 1 .. Main'
  BY <1>0
<1>5. \A h \in 1 .. Main, n \in Nat : Probe(h, u, n)' = Probe(h, u, n)
  BY DEF Probe, capacity
<1>6. ASSUME NEW h \in 1 .. Main, NEW n \in Nat, hashes[h].keys[Probe(h, u, n)] # InvalidId
      PROVE  hashes'[h].keys[Probe(h, u, n)'] # InvalidId
  <2>1. PICK i : i = Probe(h, u, n)
    OBVIOUS
  <2>2. i \in DOMAIN hashes[h].keys /\ hashes[h].keys[i] # InvalidId
    BY <1>6, <2>1, ProbeFacts
  <2>3. hashes'[h].keys[i] # InvalidId
    BY <2>2
  <2> QED BY <1>5, <2>1, <2>3
<1>8. Leads(u)'
  <2> SUFFICES ASSUME NEW h \in 1 .. Main', NEW i \in DOMAIN hashes'[h].keys, hashes'[h].keys[i] = u
               PROVE  /\ i \in FoundAt(h, u)'
                      /\ hashes'[h].values[i] = listener'[u] /\ listener'[u] # NoProducer
    BY DEF Leads
  <2>1. h \in 1 .. Main /\ i \in DOMAIN hashes[h].keys /\ hashes[h].keys[i] = u
    OBVIOUS
  <2>2. /\ i \in FoundAt(h, u)
        /\ hashes[h].values[i] = listener[u] /\ listener[u] # NoProducer
    BY <2>1 DEF Kept, Leads
  <2> QED BY <2>1, <2>2, FoundStays
<1>9. Place(u, pc[u], loc[u])'
  <2>1. Place(u, pc[u], loc[u])
    BY DEF Kept
  <2> DEFINE step == pc[u]
             l == loc[u]
  <2>2. /\ step \in {"idle", "move", "uncount", "enqueue"} /\ listener[u] # NoProducer =>
              \E h \in 1 .. Main' : InHash(u, h)'
        /\ step \in Unfound => \A h \in 1 .. Main' : ~InHash(u, h)'
        /\ step = "exit" => \A h \in 1 .. Main' : h > l.hash => ~InHash(u, h)'
    BY <1>1, <1>2, <1>3, <2>1 DEF Place
  <2>3. step \in CallSteps => l.hash \in 1 .. Main /\ l.hash \in 1 .. Main'
    BY <1>3, <2>1 DEF Place
  <2>4. step \in {"move", "insert"} =>
          \A m \in 0 .. (l.at - 1) : hashes'[l.hash].keys[Probe(l.hash, u, m)'] # InvalidId
    <3>1. step \in {"move", "insert"} => step \in CallSteps
      BY DEF CallSteps
    <3>2. \A m \in 0 .. (l.at - 1) : m \in Nat
      BY <1>0 DEF Locals
    <3> QED BY <1>6, <2>1, <2>3, <3>1, <3>2 DEF Place
  <2> QED BY <2>1, <2>2, <2>3, <2>4 DEF Place
<1> QED BY <1>8, <1>9 DEF Kept

\* The thread moves on, and the tables stay.
LEMMA TableQuiet ==
  ASSUME IInv, AllKept, NEW t \in Threads, NEW step, NEW l \in Locals,
         Goto(t, step), Local(t, l), UNCHANGED <<hashes, listener>>,
         implicitProducerHashCount' \in Int,
         Place(t, step, l)
  PROVE  AllKept'
<1>1. /\ pc'[t] = step /\ loc'[t] = l
      /\ \A u \in Threads \ {t} : pc'[u] = pc[u] /\ loc'[u] = loc[u]
  BY DEF IInv, Types, Goto, Local
<1>2. Tables'
  BY DEF AllKept, Tables, Local
<1>3. ASSUME NEW u \in Threads \ {t} PROVE Kept(u)'
  BY <1>1, <1>2, OthersKept DEF AllKept, Main
<1>4. Kept(t)'
  <2>1. Leads(t)'
    <3>1. \A h : FoundAt(h, t)' = FoundAt(h, t)
      BY Zenon DEF FoundAt, Probe, capacity
    <3>2. Leads(t)
      BY DEF AllKept, Kept
    <3> QED BY <3>1, <3>2 DEF Leads, Main
  <2>2. \A h : InHash(t, h)' = InHash(t, h)
    BY DEF InHash
  <2>3. Main' = Main
    BY DEF Main
  <2>4. \A m : Probe(l.hash, t, m)' = Probe(l.hash, t, m)
    BY DEF Probe, capacity
  <2>5. Place(t, pc[t], loc[t])'
    BY <1>1, <2>2, <2>3, <2>4 DEF Place
  <2> QED BY <2>1, <2>5 DEF Kept
<1> QED BY <1>2, <1>3, <1>4 DEF AllKept

\* Locals stay locals.
LEMMA LocalFields ==
  ASSUME NEW l \in Locals, NEW n \in Nat, NEW c \in Int
  PROVE  /\ [l EXCEPT !.hash = n] \in Locals /\ [l EXCEPT !.hash = n].hash = n
         /\ [l EXCEPT !.hash = n].at = l.at /\ [l EXCEPT !.hash = n].producer = l.producer
         /\ [l EXCEPT !.count = c] \in Locals /\ [l EXCEPT !.count = c].hash = l.hash
         /\ [l EXCEPT !.at = n] \in Locals /\ [l EXCEPT !.at = n].at = n
         /\ [l EXCEPT !.at = n].hash = l.hash /\ [l EXCEPT !.at = n].producer = l.producer
         /\ [l EXCEPT !.producer = n] \in Locals /\ [l EXCEPT !.producer = n].producer = n
         /\ [l EXCEPT !.producer = n].hash = l.hash /\ [l EXCEPT !.producer = n].at = l.at
  BY DEF Locals

\* The locals a call, or the end of a thread, begins with.
LEMMA FreshLocals ==
  ASSUME NEW h \in Nat, NEW p \in Nat, NEW l
  PROVE  /\ NoLocals \in Locals
         /\ l = [NoLocals EXCEPT !.hash = h, !.producer = p] =>
              l \in Locals /\ l.hash = h /\ l.at = 0 /\ l.producer = p
         /\ l = [NoLocals EXCEPT !.hash = h] => l \in Locals /\ l.hash = h
<1>1. NoLocals = [hash |-> 0, count |-> 0, at |-> 0, producer |-> 0]
  BY DEF NoLocals, NoProducer
<1>2. l = [NoLocals EXCEPT !.hash = h, !.producer = p] =>
        l = [hash |-> h, count |-> 0, at |-> 0, producer |-> p]
  BY <1>1
<1>3. l = [NoLocals EXCEPT !.hash = h] => l = [hash |-> h, count |-> 0, at |-> 0, producer |-> 0]
  BY <1>1
<1> QED BY <1>1, <1>2, <1>3 DEF Locals

\* What a thread knows at its step.
LEMMA PlaceNow ==
  ASSUME AllKept, NEW t \in Threads
  PROVE  /\ Place(t, pc[t], loc[t]) /\ Leads(t) /\ loc[t] \in Locals /\ Main \in Nat /\ Main \in 1 .. Main
         /\ implicitProducerHashCount \in Int
  BY DEF AllKept, Kept, Tables, Main

\* The steps of a call that write no slot.
LEMMA CountInTable ==
  ASSUME IInv, AllKept, NEW t \in Threads, CountIn(t)
  PROVE  AllKept'
<1> DEFINE l == [loc[t] EXCEPT !.count = implicitProducerHashCount + 1]
<1>1. /\ pc[t] = "count" /\ UNCHANGED <<hashes, listener>> /\ Goto(t, "full") /\ Local(t, l)
      /\ implicitProducerHashCount' \in Int
  BY PlaceNow DEF CountIn, AddToCount, prodVars
<1>2. l \in Locals /\ l.hash = loc[t].hash
  <2>1. implicitProducerHashCount + 1 \in Int
    BY PlaceNow
  <2> QED BY <2>1, PlaceNow, LocalFields
<1> HIDE DEF l
<1>3. Place(t, "full", l)
  BY <1>1, <1>2, PlaceNow DEF Place, Unfound, CallSteps
<1> QED BY <1>1, <1>2, <1>3, TableQuiet

\* The flag of the resize is set or reset.
LEMMA TestAndSetTable ==
  ASSUME IInv, AllKept, NEW t \in Threads, TestAndSet(t) \/ Unlock(t)
  PROVE  AllKept'
<1>1. /\ pc[t] \in {"full", "unlock"} /\ UNCHANGED <<hashes, listener>> /\ loc' = loc
      /\ implicitProducerHashCount' \in Int
      /\ \E step \in {"resize", "wait", "list"} : Goto(t, step)
  BY PlaceNow DEF TestAndSet, Unlock, prodVars
<1>2. PICK step \in {"resize", "wait", "list"} : Goto(t, step)
  BY <1>1
<1>3. Local(t, loc[t]) /\ loc[t] \in Locals
  BY <1>1, Stays, PlaceNow
<1>4. Place(t, step, loc[t])
  BY <1>1, PlaceNow DEF Place, Unfound, CallSteps
<1> QED BY <1>1, <1>2, <1>3, <1>4, TableQuiet

\* A thread that waits reads the current table again.
LEMMA WaitTable ==
  ASSUME IInv, AllKept, NEW t \in Threads, Wait(t)
  PROVE  AllKept'
<1> DEFINE l == [loc[t] EXCEPT !.hash = Main]
<1>1. /\ pc[t] = "wait" /\ UNCHANGED <<hashes, listener>> /\ Goto(t, "full") /\ Local(t, l)
      /\ implicitProducerHashCount' \in Int
  BY PlaceNow DEF Wait, tableVars, prodVars
<1>2. l \in Locals /\ l.hash = Main
  BY PlaceNow, LocalFields
<1> HIDE DEF l
<1>3. Place(t, "full", l)
  BY <1>1, <1>2, PlaceNow DEF Place, Unfound, CallSteps
<1> QED BY <1>1, <1>2, <1>3, TableQuiet

\* The list of producers is read.
LEMMA ListTable ==
  ASSUME IInv, AllKept, NEW t \in Threads, LoadList(t)
  PROVE  AllKept'
<1> DEFINE l == [loc[t] EXCEPT !.at = Len(producers)]
<1>1. /\ pc[t] = "list" /\ UNCHANGED <<hashes, listener>> /\ Goto(t, "scan") /\ Local(t, l)
      /\ implicitProducerHashCount' \in Int
  BY PlaceNow DEF LoadList, tableVars, prodVars
<1>2. l \in Locals /\ l.hash = loc[t].hash
  <2>1. Len(producers) \in Nat
    BY DEF IInv, Types
  <2> QED BY <2>1, PlaceNow, LocalFields
<1> HIDE DEF l
<1>3. Place(t, "scan", l)
  BY <1>1, <1>2, PlaceNow DEF Place, Unfound, CallSteps
<1> QED BY <1>1, <1>2, <1>3, TableQuiet

\* The call gives up, and the id is in no table.
LEMMA FailsTable ==
  ASSUME IInv, AllKept, NEW t \in Threads, ResizeFails(t) \/ UnlockFailed(t) \/ CreateFails(t)
  PROVE  AllKept'
<1>1. implicitProducerHashCount' \in Int
  BY PlaceNow DEF ResizeFails, UnlockFailed, CreateFails, AddToCount
<1>2. CASE ResizeFails(t)
  <2>1. pc[t] = "resize" /\ UNCHANGED <<hashes, listener>> /\ Goto(t, "fail") /\ loc' = loc
    BY <1>2 DEF ResizeFails, prodVars
  <2>2. Local(t, loc[t]) /\ loc[t] \in Locals
    BY <2>1, Stays, PlaceNow
  <2>3. Place(t, "fail", loc[t])
    BY <2>1, PlaceNow DEF Place, Unfound, CallSteps
  <2> QED BY <1>1, <2>1, <2>2, <2>3, TableQuiet
<1>3. CASE UnlockFailed(t) \/ CreateFails(t)
  <2>1. /\ pc[t] \in {"fail", "scan"} /\ UNCHANGED <<hashes, listener>>
        /\ Goto(t, "idle") /\ Local(t, NoLocals)
    BY <1>3 DEF UnlockFailed, CreateFails, GivesUp, prodVars
  <2>2. NoLocals \in Locals
    BY FreshLocals
  <2>3. Place(t, "idle", NoLocals)
    BY <2>1, PlaceNow DEF Place, Unfound, CallSteps
  <2> QED BY <1>1, <2>1, <2>2, <2>3, TableQuiet
<1> QED BY <1>2, <1>3

\* A producer is taken over or added.
LEMMA TakesTable ==
  ASSUME NEW l \in Locals, NEW n \in Nat, NEW m, m = [l EXCEPT !.producer = n, !.at = 0]
  PROVE  m \in Locals /\ m.hash = l.hash /\ m.at = 0
<1>1. PICK h \in Nat, c \in Int, a \in Nat, p \in Nat :
        l = [hash |-> h, count |-> c, at |-> a, producer |-> p]
  BY DEF Locals
<1>2. m = [hash |-> h, count |-> c, at |-> 0, producer |-> n]
  BY <1>1
<1> QED BY <1>1, <1>2 DEF Locals

\* One whose thread has ended is taken over, or the next is looked at.
LEMMA RecycleTable ==
  ASSUME IInv, AllKept, NEW t \in Threads, Recycle(t)
  PROVE  AllKept'
<1>1. /\ pc[t] = "scan" /\ UNCHANGED <<hashes, listener>> /\ implicitProducerHashCount' \in Int
      /\ loc[t] \in Locals /\ loc[t].at > 0
  BY PlaceNow DEF Recycle, tableVars
<1>2. PICK a \in Nat \ {0} : a = loc[t].at
  BY <1>1 DEF Locals
<1>3. CASE producers[loc[t].at].inactive
  <2>1. PICK l : l = [loc[t] EXCEPT !.producer = a, !.at = 0]
    OBVIOUS
  <2>2. Goto(t, "subscribe") /\ Local(t, l)
    BY <1>2, <1>3, <2>1 DEF Recycle
  <2>3. l \in Locals /\ l.hash = loc[t].hash /\ l.at = 0
    <3>1. a \in Nat
      OBVIOUS
    <3> QED BY <1>1, <2>1, <3>1, TakesTable, Zenon
  <2>4. Place(t, "subscribe", l)
    BY <1>1, <2>3, PlaceNow DEF Place, Unfound, CallSteps
  <2> QED BY <1>1, <2>2, <2>3, <2>4, TableQuiet
<1>4. CASE ~producers[loc[t].at].inactive
  <2>1. PICK l : l = [loc[t] EXCEPT !.at = a - 1]
    OBVIOUS
  <2>2. Local(t, l) /\ pc' = pc
    BY <1>2, <1>4, <2>1 DEF Recycle
  <2>3. Goto(t, "scan")
    BY <1>1, <2>2, Stays
  <2>4. l \in Locals /\ l.hash = loc[t].hash
    <3>1. a - 1 \in Nat
      OBVIOUS
    <3> QED BY <1>1, <2>1, <3>1, LocalFields
  <2>5. Place(t, "scan", l)
    BY <1>1, <2>4, PlaceNow DEF Place, Unfound, CallSteps
  <2> QED BY <1>1, <2>2, <2>3, <2>4, <2>5, TableQuiet
<1> QED BY <1>3, <1>4

\* A new one is added.
LEMMA AddProducerTable ==
  ASSUME IInv, AllKept, NEW t \in Threads, AddProducer(t)
  PROVE  AllKept'
<1>1. PICK n \in Nat : n = Len(producers) + 1
  BY DEF IInv, Types
<1>2. PICK l : l = [loc[t] EXCEPT !.producer = n]
  OBVIOUS
<1>3. /\ pc[t] = "scan" /\ UNCHANGED <<hashes, listener>> /\ implicitProducerHashCount' \in Int
      /\ loc[t] \in Locals /\ loc[t].at = 0 /\ Goto(t, "subscribe") /\ Local(t, l)
  BY <1>1, <1>2, PlaceNow DEF AddProducer, tableVars
<1>4. l \in Locals /\ l.hash = loc[t].hash /\ l.at = 0
  BY <1>2, <1>3, LocalFields
<1>5. Place(t, "subscribe", l)
  BY <1>3, <1>4, PlaceNow DEF Place, Unfound, CallSteps
<1> QED BY <1>3, <1>4, <1>5, TableQuiet

\* A slot that is taken: the next one.
LEMMA NextSlotTable ==
  ASSUME IInv, AllKept, NEW t \in Threads, pc[t] \in {"move", "insert"},
         KeyThere(t) \notin Available, NextSlot(t), listener' = listener,
         implicitProducerHashCount' = implicitProducerHashCount
  PROVE  AllKept'
<1>1. PICK a \in Nat, h \in 1 .. Main : a = loc[t].at /\ h = loc[t].hash
  <2>1. loc[t].hash \in 1 .. Main /\ loc[t].at \in Nat
    BY PlaceNow DEF Place, CallSteps, Locals
  <2> QED BY <2>1
<1>2. PICK l : l = [loc[t] EXCEPT !.at = a + 1]
  OBVIOUS
<1>3. /\ UNCHANGED <<hashes, listener>> /\ implicitProducerHashCount' \in Int
      /\ Local(t, l) /\ pc' = pc
  BY <1>1, <1>2, PlaceNow DEF NextSlot
<1>4. Goto(t, pc[t])
  BY <1>3, Stays
<1>5. l \in Locals /\ l.at = a + 1 /\ l.hash = h /\ l.producer = loc[t].producer
  <2>1. a + 1 \in Nat
    OBVIOUS
  <2>2. PICK k \in Locals : k = loc[t]
    BY PlaceNow
  <2>3. l = [k EXCEPT !.at = a + 1]
    BY <1>2, <2>2
  <2>4. l \in Locals /\ l.at = a + 1 /\ l.hash = k.hash /\ l.producer = k.producer
    BY <2>1, <2>3 DEF Locals
  <2> QED BY <1>1, <2>2, <2>4
<1>6. \A m \in 0 .. a : hashes[h].keys[Probe(h, t, m)] # InvalidId
  <2>1. hashes[h].keys[Probe(h, t, a)] # InvalidId
    BY <1>1 DEF KeyThere, Slot, Available
  <2>2. \A m \in 0 .. (a - 1) : hashes[h].keys[Probe(h, t, m)] # InvalidId
    BY <1>1, PlaceNow DEF Place
  <2>3. \A m \in 0 .. a : m = a \/ m \in 0 .. (a - 1)
    OBVIOUS
  <2> QED BY <2>1, <2>2, <2>3
<1>7. (a + 1) - 1 = a
  OBVIOUS
<1>8. Place(t, pc[t], l)
  BY <1>1, <1>5, <1>6, <1>7, PlaceNow DEF Place
<1> QED BY <1>3, <1>4, <1>5, <1>8, TableQuiet

\* A free slot takes the id.
LEMMA OccupiesTable ==
  ASSUME IInv, AllKept, NEW t \in Threads, pc[t] \in {"move", "insert"}, KeyThere(t) \in Available,
         Occupies(t), NEW step \in {"uncount", "enqueue"}, Goto(t, step), loc' = loc, listener' = listener,
         implicitProducerHashCount' \in Int
  PROVE  AllKept'
<1>1. PICK a \in Nat, h \in 1 .. Main, p \in Nat \ {0} :
        a = loc[t].at /\ h = loc[t].hash /\ p = loc[t].producer /\ p = listener[t]
  <2>1. loc[t].hash \in 1 .. Main /\ loc[t].at \in Nat
        /\ loc[t].producer = listener[t] /\ listener[t] # NoProducer
    BY PlaceNow DEF Place, CallSteps, Locals
  <2>2. listener[t] \in Nat
    BY DEF IInv, Types
  <2> QED BY <2>1, <2>2 DEF NoProducer
<1>2. PICK c \in Nat \ {0} : c = capacity(h) /\ DOMAIN hashes[h].keys = 0 .. (c - 1)
                            /\ hashes[h] \in HashOf(c)
  BY TableFacts DEF AllKept
<1>3. PICK i \in 0 .. (c - 1), m \in 0 .. (c - 1) :
        i = Probe(h, t, a) /\ m <= a /\ Probe(h, t, m) = i /\ i = Slot(t)
  BY <1>1, <1>2, ProbeFacts DEF AllKept, Slot
<1>4. hashes[h].keys[i] \in Available
  BY <1>1, <1>3 DEF KeyThere
<1>5. PICK H : H = hashes[h]
  OBVIOUS
<1>6. PICK G : G = [keys |-> [H.keys EXCEPT ![i] = t], values |-> [H.values EXCEPT ![i] = p]]
  OBVIOUS
<1>7. hashes' = [hashes EXCEPT ![h] = G]
  BY <1>1, <1>3, <1>5, <1>6 DEF Occupies
<1>8. /\ G \in HashOf(c) /\ G \in Hash /\ G.keys[i] = t /\ G.values[i] = p
      /\ \A j \in 0 .. (c - 1) : j # i => G.keys[j] = H.keys[j] /\ G.values[j] = H.values[j]
  <2>1. t \in Keys /\ p \in Nat /\ H \in HashOf(c)
    BY <1>2, <1>5 DEF Keys
  <2>2. PICK K \in [0 .. (c - 1) -> Keys], V \in [0 .. (c - 1) -> Nat] :
          H = [keys |-> K, values |-> V]
    BY <2>1 DEF HashOf
  <2>3. PICK K2 : K2 = [K EXCEPT ![i] = t]
    OBVIOUS
  <2>4. PICK V2 : V2 = [V EXCEPT ![i] = p]
    OBVIOUS
  <2>5. /\ K2 \in [0 .. (c - 1) -> Keys] /\ K2[i] = t
        /\ \A j \in 0 .. (c - 1) : j # i => K2[j] = K[j]
    BY <2>1, <2>3
  <2>6. /\ V2 \in [0 .. (c - 1) -> Nat] /\ V2[i] = p
        /\ \A j \in 0 .. (c - 1) : j # i => V2[j] = V[j]
    BY <2>1, <2>4
  <2>7. G = [keys |-> K2, values |-> V2]
    BY <1>6, <2>2, <2>3, <2>4
  <2>8. G \in HashOf(c) /\ G \in Hash
    <3>1. G \in HashOf(c)
      BY <2>5, <2>6, <2>7 DEF HashOf
    <3> QED BY <3>1 DEF Hash
  <2> QED BY <2>2, <2>5, <2>6, <2>7, <2>8
<1>9. /\ hashes' \in Seq(Hash) /\ Main' = Main /\ hashes' # <<>> /\ hashes'[h] = G
      /\ \A g \in 1 .. Main : g # h => hashes'[g] = hashes[g]
  <2>1. hashes \in Seq(Hash) /\ hashes # <<>> /\ h \in 1 .. Len(hashes)
    BY DEF AllKept, Tables, Main
  <2>2. /\ hashes' \in Seq(Hash) /\ Len(hashes') = Len(hashes) /\ hashes'[h] = G
        /\ \A g \in 1 .. Len(hashes) : g # h => hashes'[g] = hashes[g]
    BY <1>7, <1>8, <2>1, Replace
  <2>3. hashes' # <<>>
    BY <2>1, <2>2
  <2> QED BY <2>2, <2>3 DEF Main
<1>10. Tables'
  BY <1>9 DEF AllKept, Tables
<1>11. DOMAIN G.keys = 0 .. (c - 1)
  BY <1>8 DEF HashOf
<1>12. /\ \A g \in 1 .. Main : DOMAIN hashes'[g].keys = DOMAIN hashes[g].keys
       /\ \A g \in 1 .. Main : \A j \in DOMAIN hashes[g].keys :
            \/ hashes'[g].keys[j] = hashes[g].keys[j] /\ hashes'[g].values[j] = hashes[g].values[j]
            \/ /\ g = h /\ j = i /\ hashes'[g].keys[j] = t /\ hashes'[g].values[j] = p
               /\ hashes[g].keys[j] \in Available
  BY <1>2, <1>4, <1>5, <1>8, <1>9, <1>11
<1>13. /\ pc'[t] = step /\ loc'[t] = loc[t]
       /\ \A u \in Threads \ {t} : pc'[u] = pc[u] /\ loc'[u] = loc[u]
  BY DEF IInv, Types, Goto
<1>14. /\ t # InvalidId /\ t \notin Available /\ \A u \in Threads : u \notin Available
  BY DEF Available
<1>15. \A g \in 1 .. Main : \A j \in DOMAIN hashes[g].keys :
         hashes[g].keys[j] # InvalidId => hashes'[g].keys[j] # InvalidId
  BY <1>12, <1>14
<1>16. ASSUME NEW u \in Threads \ {t} PROVE Kept(u)'
  <2>1. \A g \in 1 .. Main : \A j \in DOMAIN hashes[g].keys :
          /\ hashes[g].keys[j] # InvalidId => hashes'[g].keys[j] # InvalidId
          /\ hashes'[g].keys[j] = u <=> hashes[g].keys[j] = u
          /\ hashes'[g].keys[j] = u => hashes'[g].values[j] = hashes[g].values[j]
    BY <1>12, <1>14, <1>15
  <2>2. /\ Main <= Main' /\ \A g \in 1 .. Main' : g \in 1 .. Main
    BY <1>9, PlaceNow
  <2> QED BY <1>10, <1>12, <1>13, <2>1, <2>2, OthersKept DEF AllKept
<1>17. Leads(t)'
  <2> SUFFICES ASSUME NEW g \in 1 .. Main, NEW j \in DOMAIN hashes[g].keys, hashes'[g].keys[j] = t
               PROVE  /\ j \in FoundAt(g, t)'
                      /\ hashes'[g].values[j] = listener'[t] /\ listener'[t] # NoProducer
    BY <1>9, <1>12 DEF Leads
  <2>1. listener'[t] = p /\ p # NoProducer
    BY <1>1 DEF NoProducer
  <2>2. CASE hashes[g].keys[j] = t
    <3>1. j \in FoundAt(g, t) /\ hashes[g].values[j] = p
      BY <1>1, <2>2, PlaceNow DEF Leads
    <3>2. hashes'[g].values[j] = p
      BY <1>12, <1>14, <2>2, <3>1
    <3>3. j \in FoundAt(g, t)'
      BY <1>12, <1>15, <3>1, FoundStays DEF AllKept
    <3> QED BY <2>1, <3>2, <3>3
  <2>3. CASE hashes[g].keys[j] # t
    <3>1. g = h /\ j = i /\ hashes'[g].values[j] = p
      BY <1>12, <2>3
    <3>2. capacity(h)' = c /\ \A x : Probe(h, t, x)' = Probe(h, t, x)
      BY <1>2, <1>12 DEF capacity, Probe
    <3>3. \A x \in 0 .. (m - 1) : x \in 0 .. (a - 1) /\ x \in Nat
      BY <1>3
    <3>4. \A x \in 0 .. (m - 1) : hashes[h].keys[Probe(h, t, x)] # InvalidId
      BY <1>1, <3>3, PlaceNow DEF Place
    <3>5. \A x \in 0 .. (m - 1) : Probe(h, t, x) \in DOMAIN hashes[h].keys
      BY <3>3, ProbeFacts DEF AllKept
    <3>6. \A x \in 0 .. (m - 1) : hashes'[h].keys[Probe(h, t, x)'] # InvalidId
      BY <1>15, <3>2, <3>4, <3>5
    <3>7. i = Probe(h, t, m)' /\ m \in 0 .. (capacity(h)' - 1)
      BY <1>3, <3>2
    <3>8. i \in DOMAIN hashes'[h].keys /\ hashes'[h].keys[i] = t
      BY <1>12, <3>1
    <3>9. i \in FoundAt(h, t)'
      BY <3>6, <3>7, <3>8 DEF FoundAt
    <3> QED BY <2>1, <3>1, <3>9
  <2> QED BY <2>2, <2>3
<1>18. Place(t, step, loc[t])'
  <2>1. InHash(t, h)'
    BY <1>2, <1>8, <1>9, <1>11 DEF InHash
  <2> QED BY <1>1, <1>9, <1>13, <2>1 DEF Place, Unfound, CallSteps, NoProducer
<1>19. Kept(t)'
  BY <1>13, <1>17, <1>18 DEF Kept
<1> QED BY <1>10, <1>16, <1>19 DEF AllKept

\* An id moves to the current table, or a new one is inserted.
LEMMA MoveTable ==
  ASSUME IInv, AllKept, NEW t \in Threads, Move(t) \/ Insert(t)
  PROVE  AllKept'
<1>1. pc[t] \in {"move", "insert"} /\ listener' = listener /\ implicitProducerHashCount' \in Int
  BY PlaceNow DEF Move, Insert, prodVars, AddToCount
<1>2. CASE KeyThere(t) \in Available
  <2>1. Occupies(t) /\ loc' = loc
    BY <1>2 DEF Move, Insert
  <2>2. PICK step \in {"uncount", "enqueue"} : Goto(t, step)
    BY <1>2 DEF Move, Insert
  <2> QED BY <1>1, <1>2, <2>1, <2>2, OccupiesTable
<1>3. CASE KeyThere(t) \notin Available
  BY <1>1, <1>3, NextSlotTable DEF Move, Insert
<1> QED BY <1>2, <1>3

\* The count goes down again for a slot that was counted.
LEMMA UncountTable ==
  ASSUME IInv, AllKept, NEW t \in Threads, Uncount(t)
  PROVE  AllKept'
<1>1. /\ pc[t] = "uncount" /\ UNCHANGED <<hashes, listener>> /\ Goto(t, "enqueue")
      /\ Local(t, loc[t]) /\ loc[t] \in Locals /\ implicitProducerHashCount' \in Int
  BY Stays, PlaceNow DEF Uncount, AddToCount, prodVars
<1>2. Place(t, "enqueue", loc[t])
  BY <1>1, PlaceNow DEF Place, Unfound, CallSteps
<1> QED BY <1>1, <1>2, TableQuiet

\* The id leaves one table: every slot that has it is found.
LEMMA UnhashTable ==
  ASSUME IInv, AllKept, NEW t \in Threads, Unhash(t)
  PROVE  AllKept'
<1>1. /\ pc[t] = "exit" /\ pc' = pc /\ listener' = listener /\ loc[t].hash > 0 /\ loc[t] \in Locals
      /\ implicitProducerHashCount' \in Int /\ loc[t].hash \in Nat
  BY PlaceNow DEF Unhash, prodVars, Locals
<1>2. PICK h \in Nat \ {0} : h = loc[t].hash
  BY <1>1
<1>3. PICK l : l = [loc[t] EXCEPT !.hash = h - 1]
  OBVIOUS
<1>4. /\ l \in Locals /\ l.hash = h - 1
      /\ pc'[t] = "exit" /\ loc'[t] = l /\ \A u \in Threads \ {t} : pc'[u] = pc[u] /\ loc'[u] = loc[u]
      /\ loc' \in [Threads -> Locals]
  <2>1. PICK k \in Locals : k = loc[t]
    BY <1>1
  <2>2. l \in Locals /\ l.hash = h - 1
    <3>1. l = [k EXCEPT !.hash = h - 1] /\ h - 1 \in Nat
      BY <1>3, <2>1
    <3> QED BY <3>1 DEF Locals
  <2>3. loc' = [loc EXCEPT ![t] = l]
    BY <1>2, <1>3 DEF Unhash, Local
  <2> QED BY <1>1, <2>2, <2>3 DEF AllKept, Tables, IInv, Types
<1>5. CASE h \notin 1 .. Main
  <2>1. hashes' = hashes
    <3>1. hashes \in Seq(Hash) /\ h \notin DOMAIN hashes
      BY <1>5 DEF AllKept, Tables, Main
    <3>2. \E x : hashes' = [hashes EXCEPT ![h] = x]
      BY <1>2 DEF Unhash
    <3> QED BY <3>1, <3>2
  <2>2. Goto(t, "exit") /\ Local(t, l)
    <3>1. Goto(t, "exit")
      BY <1>1, Stays
    <3> QED BY <1>2, <1>3, <3>1 DEF Unhash
  <2>3. Place(t, "exit", l)
    <3>1. \A g \in 1 .. Main : g < h
      BY <1>1, <1>2, <1>5, PlaceNow
    <3> QED BY <1>1, <1>2, <1>4, <1>5, PlaceNow DEF Place, Unfound, CallSteps
  <2> QED BY <1>1, <1>4, <2>1, <2>2, <2>3, TableQuiet
<1>6. CASE h \in 1 .. Main
  <2> USE <1>6
  <2>1. PICK c \in Nat \ {0} : c = capacity(h) /\ DOMAIN hashes[h].keys = 0 .. (c - 1)
                            /\ hashes[h] \in HashOf(c)
    BY TableFacts DEF AllKept
  <2>2. PICK F : F = FoundAt(h, t)
    OBVIOUS
  <2>3. \A j \in 0 .. (c - 1) : j \in F <=> hashes[h].keys[j] = t
    BY <2>1, <2>2, PlaceNow DEF Leads, FoundAt
  <2>4. PICK H \in HashOf(c) : H = hashes[h]
    BY <2>1
  <2>5. PICK f : f = [i \in 0 .. (c - 1) |-> IF i \in F THEN ReusableId ELSE H.keys[i]]
    OBVIOUS
  <2>6. PICK G : G = [H EXCEPT !.keys = f]
    OBVIOUS
  <2>7. hashes' = [hashes EXCEPT ![h] = G]
    BY <1>2, <2>1, <2>2, <2>4, <2>5, <2>6 DEF Unhash
  <2>8. /\ G \in HashOf(c) /\ G \in Hash /\ DOMAIN G.keys = 0 .. (c - 1) /\ G.values = H.values
        /\ \A j \in 0 .. (c - 1) : G.keys[j] = IF H.keys[j] = t THEN ReusableId ELSE H.keys[j]
    <3>1. ReusableId \in Keys
      BY DEF Keys, Available
    <3>2. f \in [0 .. (c - 1) -> Keys]
      BY <2>5, <3>1 DEF HashOf
    <3>3. G = [keys |-> f, values |-> H.values] /\ H.values \in [0 .. (c - 1) -> Nat]
      BY <2>6 DEF HashOf
    <3>4. G \in HashOf(c)
      BY <3>2, <3>3 DEF HashOf
    <3>5. \A j \in 0 .. (c - 1) : f[j] = IF H.keys[j] = t THEN ReusableId ELSE H.keys[j]
      BY <2>3, <2>4, <2>5
    <3> QED BY <3>2, <3>3, <3>4, <3>5 DEF Hash
  <2>9. /\ hashes' \in Seq(Hash) /\ Main' = Main /\ hashes' # <<>> /\ hashes'[h] = G
        /\ \A g \in 1 .. Main : g # h => hashes'[g] = hashes[g]
    <3>1. hashes \in Seq(Hash) /\ hashes # <<>> /\ h \in 1 .. Len(hashes)
      BY DEF AllKept, Tables, Main
    <3>2. /\ hashes' \in Seq(Hash) /\ Len(hashes') = Len(hashes) /\ hashes'[h] = G
          /\ \A g \in 1 .. Len(hashes) : g # h => hashes'[g] = hashes[g]
      BY <2>7, <2>8, <3>1, Replace
    <3>3. hashes' # <<>>
      BY <3>1, <3>2
    <3> QED BY <3>2, <3>3 DEF Main
  <2>10. Tables'
    BY <1>1, <1>4, <2>9 DEF Tables
  <2>11. \A g \in 1 .. Main : DOMAIN hashes'[g].keys = DOMAIN hashes[g].keys
    BY <2>1, <2>8, <2>9
  <2>12. \A g \in 1 .. Main : \A j \in DOMAIN hashes[g].keys :
           /\ hashes'[g].values[j] = hashes[g].values[j]
           /\ \/ hashes'[g].keys[j] = hashes[g].keys[j]
              \/ hashes[g].keys[j] = t /\ hashes'[g].keys[j] = ReusableId
    BY <2>1, <2>4, <2>8, <2>9
  <2>13. \A u \in Threads : u # ReusableId /\ u # InvalidId
    OBVIOUS
  <2>14. \A g \in 1 .. Main : \A j \in DOMAIN hashes[g].keys :
           hashes[g].keys[j] # InvalidId => hashes'[g].keys[j] # InvalidId
    BY <2>12, <2>13
  <2>15. ASSUME NEW u \in Threads \ {t} PROVE Kept(u)'
    <3>1. \A g \in 1 .. Main : \A j \in DOMAIN hashes[g].keys :
            /\ hashes[g].keys[j] # InvalidId => hashes'[g].keys[j] # InvalidId
            /\ hashes'[g].keys[j] = u <=> hashes[g].keys[j] = u
            /\ hashes'[g].keys[j] = u => hashes'[g].values[j] = hashes[g].values[j]
      BY <2>12, <2>13, <2>14
    <3>2. Main <= Main' /\ \A g \in 1 .. Main' : g \in 1 .. Main
      BY <2>9, PlaceNow
    <3> QED BY <1>1, <1>4, <2>10, <2>11, <3>1, <3>2, OthersKept DEF AllKept
  <2>16. Leads(t)'
    <3> SUFFICES ASSUME NEW g \in 1 .. Main, NEW j \in DOMAIN hashes[g].keys, hashes'[g].keys[j] = t
                 PROVE  /\ j \in FoundAt(g, t)'
                        /\ hashes'[g].values[j] = listener'[t] /\ listener'[t] # NoProducer
      BY <2>9, <2>11 DEF Leads
    <3>1. hashes[g].keys[j] = t
      BY <2>12, <2>13
    <3>2. /\ j \in FoundAt(g, t)
          /\ hashes[g].values[j] = listener[t] /\ listener[t] # NoProducer
      BY <3>1, PlaceNow DEF Leads
    <3>3. j \in FoundAt(g, t)'
      BY <2>11, <2>14, <3>2, FoundStays DEF AllKept
    <3> QED BY <1>1, <2>12, <3>2, <3>3
  <2>17. \A g \in 1 .. Main : g > h - 1 => ~InHash(t, g)'
    <3>1. ~InHash(t, h)'
      BY <2>1, <2>4, <2>8, <2>9, <2>13 DEF InHash
    <3>2. \A g \in 1 .. Main : g > h => ~InHash(t, g)
      BY <1>1, <1>2, PlaceNow DEF Place
    <3>3. \A g \in 1 .. Main : InHash(t, g)' => InHash(t, g)
      BY <2>11, <2>12, <2>13 DEF InHash
    <3>4. \A g \in 1 .. Main : g > h - 1 => g = h \/ g > h
      OBVIOUS
    <3> QED BY <3>1, <3>2, <3>3, <3>4
  <2>18. Place(t, "exit", loc[t])'
    BY <1>4, <2>9, <2>17 DEF Place, Unfound, CallSteps
  <2>19. Kept(t)'
    BY <1>4, <2>16, <2>18 DEF Kept
  <2> QED BY <2>10, <2>15, <2>19 DEF AllKept
<1> QED BY <1>5, <1>6

\* A larger table replaces the current one, if that is still half full.
LEMMA ResizeTable ==
  ASSUME IInv, AllKept, NEW t \in Threads, Resize(t)
  PROVE  AllKept'
<1>1. /\ pc[t] = "resize" /\ listener' = listener /\ implicitProducerHashCount' \in Int
      /\ Goto(t, "unlock") /\ loc[t] \in Locals /\ hashes \in Seq(Hash) /\ hashes # <<>>
      /\ Main \in Nat
  BY PlaceNow DEF Resize, prodVars, AllKept, Tables
<1>2. /\ hashes' \in Seq(Hash) /\ hashes' # <<>> /\ Main' \in Nat /\ Main <= Main'
      /\ \A g \in 1 .. Main : hashes'[g] = hashes[g]
      /\ \A g \in 1 .. Main' : g \notin 1 .. Main =>
           \A j \in DOMAIN hashes'[g].keys : hashes'[g].keys[j] = InvalidId
  <2>1. CASE HalfFull(t, Main)
    <3>1. PICK n \in NewCapacities(capacity(Main), loc[t].count) : hashes' = Append(hashes, EmptyHash(n))
      BY <2>1 DEF Resize
    <3>2. n \in Nat \ {0}
      <4>1. PICK c \in Nat \ {0} : c = capacity(Main)
        BY PlaceNow, TableFacts DEF AllKept
      <4>2. n \in c .. 4 * (loc[t].count + 1)
        BY <3>1, <4>1 DEF NewCapacities
      <4> QED BY <4>2
    <3>3. PICK H : H = EmptyHash(n)
      OBVIOUS
    <3>4. H \in HashOf(n) /\ \A j \in DOMAIN H.keys : H.keys[j] = InvalidId
      <4>1. InvalidId \in Keys /\ NoProducer \in Nat
        BY DEF Keys, Available, NoProducer
      <4> QED BY <3>3, <4>1 DEF EmptyHash, HashOf
    <3>5. H \in Hash
      BY <3>2, <3>4 DEF Hash
    <3>6. hashes' = Append(hashes, H)
      BY <3>1, <3>3
    <3>7. /\ hashes' \in Seq(Hash) /\ Len(hashes') = Len(hashes) + 1 /\ hashes' # <<>>
          /\ hashes'[Len(hashes) + 1] = H /\ \A g \in 1 .. Len(hashes) : hashes'[g] = hashes[g]
      BY <1>1, <3>5, <3>6
    <3>8. \A g \in 1 .. (Main + 1) : g \notin 1 .. Main => g = Main + 1
      BY <1>1
    <3> QED BY <1>1, <3>4, <3>7, <3>8 DEF Main
  <2>2. CASE ~HalfFull(t, Main)
    <3>1. hashes' = hashes
      BY <2>2 DEF Resize
    <3> QED BY <1>1, <3>1 DEF Main
  <2> QED BY <2>1, <2>2
<1>3. PICK n \in Nat : n = Main' /\ n \in 1 .. Main'
  <2>1. Len(hashes') # 0
    BY <1>2
  <2> QED BY <1>2, <2>1 DEF Main
<1>4. PICK l : l = [loc[t] EXCEPT !.hash = n] /\ Local(t, l)
  BY <1>3 DEF Resize, Main
<1>5. l \in Locals /\ l.hash = n
  <2>1. PICK k \in Locals : k = loc[t]
    BY <1>1
  <2>2. l = [k EXCEPT !.hash = n]
    BY <1>4, <2>1
  <2> QED BY <1>3, <2>2 DEF Locals
<1>6. /\ pc'[t] = "unlock" /\ loc'[t] = l /\ \A u \in Threads \ {t} : pc'[u] = pc[u] /\ loc'[u] = loc[u]
      /\ loc' \in [Threads -> Locals]
  BY <1>1, <1>4, <1>5 DEF AllKept, Tables, IInv, Types, Goto, Local
<1>7. Tables'
  BY <1>1, <1>2, <1>6 DEF Tables
<1>8. ASSUME NEW u \in Threads \ {t} PROVE Kept(u)'
  <2>1. \A g \in 1 .. Main' : g \notin 1 .. Main =>
          \A j \in DOMAIN hashes'[g].keys : hashes'[g].keys[j] # u
    BY <1>2
  <2> QED BY <1>1, <1>2, <1>6, <1>7, <2>1, OthersKept DEF AllKept
<1>9. \A g \in 1 .. Main' : ~InHash(t, g)'
  <2>1. \A g \in 1 .. Main : ~InHash(t, g)
    BY <1>1, PlaceNow DEF Place, Unfound
  <2>2. \A g \in 1 .. Main : ~InHash(t, g)'
    BY <1>2, <2>1 DEF InHash
  <2>3. \A g \in 1 .. Main' : g \notin 1 .. Main => ~InHash(t, g)'
    BY <1>2 DEF InHash
  <2> QED BY <2>2, <2>3
<1>10. Leads(t)'
  BY <1>9 DEF Leads, InHash
<1>11. Place(t, "unlock", loc[t])'
  <2>1. listener'[t] = NoProducer
    BY <1>1, PlaceNow DEF Place, Unfound
  <2> QED BY <1>3, <1>5, <1>6, <1>9, <2>1 DEF Place, Unfound, CallSteps
<1>12. Kept(t)'
  BY <1>6, <1>10, <1>11 DEF Kept
<1> QED BY <1>7, <1>8, <1>12 DEF AllKept

\* The thread begins or ends to be the one a producer reports to: its id is in no table.
LEMMA ListenerTable ==
  ASSUME IInv, AllKept, NEW t \in Threads, NEW step, hashes' = hashes, loc' = loc,
         implicitProducerHashCount' \in Int, Goto(t, step), NEW p,
         listener' = [listener EXCEPT ![t] = p],
         \A g \in 1 .. Main : ~InHash(t, g),
         Place(t, step, loc[t])'
  PROVE  AllKept'
<1>1. /\ pc'[t] = step /\ loc'[t] = loc[t] /\ listener \in [Threads -> Nat]
      /\ \A u \in Threads \ {t} : pc'[u] = pc[u] /\ loc'[u] = loc[u] /\ listener'[u] = listener[u]
  BY DEF IInv, Types, Goto
<1>2. Tables'
  BY DEF AllKept, Tables
<1>3. ASSUME NEW u \in Threads \ {t} PROVE Kept(u)'
  <2>1. Main' = Main /\ Main \in Nat
    BY PlaceNow DEF Main
  <2> QED BY <1>1, <1>2, <2>1, OthersKept DEF AllKept
<1>4. Leads(t)'
  BY DEF Leads, InHash, Main
<1> QED BY <1>1, <1>2, <1>3, <1>4 DEF AllKept, Kept

\* The producer is to hear of the end of its thread.
LEMMA SubscribeTable ==
  ASSUME IInv, AllKept, NEW t \in Threads, Subscribe(t)
  PROVE  AllKept'
<1>1. /\ pc[t] = "subscribe" /\ hashes' = hashes /\ loc' = loc /\ implicitProducerHashCount' \in Int
      /\ Goto(t, "insert") /\ listener' = [listener EXCEPT ![t] = loc[t].producer]
  BY PlaceNow DEF Subscribe, tableVars
<1>2. \A g \in 1 .. Main : ~InHash(t, g)
  BY <1>1, PlaceNow DEF Place, Unfound
<1>3. listener'[t] = loc[t].producer /\ loc[t].producer # 0
  <2>1. loc[t].producer \in Active
    BY <1>1 DEF IInv, Owns, Owned
  <2> QED BY <1>1, <2>1 DEF IInv, Types, Active
<1>4. loc[t].hash \in 1 .. Main /\ loc[t].at = 0
  BY <1>1, PlaceNow DEF Place, CallSteps
<1>5. Place(t, "insert", loc[t])'
  <2>1. Main' = Main /\ \A g : InHash(t, g)' = InHash(t, g)
    BY <1>1 DEF Main, InHash
  <2> QED BY <1>1, <1>2, <1>3, <1>4, <2>1 DEF Place, Unfound, CallSteps, NoProducer
<1> QED BY <1>1, <1>2, <1>5, ListenerTable

\* It has heard of it: the id is in no table any more.
LEMMA DeactivateTable ==
  ASSUME IInv, AllKept, NEW t \in Threads, Deactivate(t)
  PROVE  AllKept'
<1>1. /\ pc[t] = "exit" /\ hashes' = hashes /\ loc' = loc /\ implicitProducerHashCount' \in Int
      /\ Goto(t, "next") /\ listener' = [listener EXCEPT ![t] = NoProducer] /\ loc[t].hash = 0
  BY PlaceNow DEF Deactivate, tableVars
<1>2. \A g \in 1 .. Main : ~InHash(t, g)
  BY <1>1, PlaceNow DEF Place
<1>3. Place(t, "next", loc[t])'
  <2>1. Main' = Main /\ \A g : InHash(t, g)' = InHash(t, g)
    BY <1>1 DEF Main, InHash
  <2>2. listener'[t] = NoProducer
    BY <1>1 DEF IInv, Types
  <2> QED BY <1>1, <1>2, <2>1, <2>2 DEF Place, Unfound, CallSteps
<1> QED BY <1>1, <1>2, <1>3, ListenerTable

\* A thread ends, or its call: where its id is stays.
LEMMA EndsTable ==
  ASSUME IInv, AllKept, NEW t \in Threads,
         NextListener(t) \/ Exit(t) \/ Enqueue(t) \/ EnqueueFails(t)
  PROVE  AllKept'
<1>1. UNCHANGED <<hashes, listener>> /\ implicitProducerHashCount' \in Int
  BY PlaceNow DEF NextListener, Exit, Enqueue, EnqueueFails, tableVars, prodVars
<1>2. CASE NextListener(t) \/ Enqueue(t) \/ EnqueueFails(t)
  <2>1. pc[t] \in {"next", "enqueue"} /\ Goto(t, "idle") /\ Local(t, NoLocals)
    BY <1>2 DEF NextListener, Enqueue, EnqueueFails, GivesUp
  <2>2. NoLocals \in Locals
    BY FreshLocals
  <2>3. Place(t, "idle", NoLocals)
    BY <2>1, PlaceNow DEF Place, Unfound, CallSteps
  <2> QED BY <1>1, <2>1, <2>2, <2>3, TableQuiet
<1>3. CASE Exit(t)
  <2>1. PICK n \in Nat, p \in Nat : n = Main /\ p = listener[t]
    BY PlaceNow DEF IInv, Types
  <2>2. PICK l : l = [NoLocals EXCEPT !.hash = n, !.producer = p]
    OBVIOUS
  <2>3. Goto(t, "exit") /\ Local(t, l)
    BY <1>3, <2>1, <2>2 DEF Exit
  <2>4. l \in Locals /\ l.hash = n
    BY <2>2, FreshLocals
  <2>5. Place(t, "exit", l)
    BY <2>1, <2>4 DEF Place, Unfound, CallSteps
  <2> QED BY <1>1, <2>3, <2>4, <2>5, TableQuiet
<1> QED BY <1>2, <1>3

\* A set of numbers has a least element.
LEMMA Least ==
  ASSUME NEW T, T \subseteq Nat, T # {}
  PROVE  \E x \in T : \A y \in T : x <= y
<1> DEFINE R == OpToRel(<, Nat)
<1>1. IsWellFoundedOn(R, Nat)
  BY NatLessThanWellFounded
<1>2. \A x, y \in Nat : y < x => <<y, x>> \in R
  BY DEF OpToRel
<1> HIDE DEF R
<1>3. PICK x \in T : \A y \in T : ~(<<y, x>> \in R)
  BY <1>1, WFMin
<1>4. \A y \in T : x <= y
  <2> SUFFICES ASSUME NEW y \in T PROVE x <= y
    OBVIOUS
  <2>1. x \in Nat /\ y \in Nat /\ ~(y < x)
    BY <1>2, <1>3
  <2> QED BY <2>1
<1> QED BY <1>4

\* A set of numbers up to n has a greatest element.
LEMMA Greatest ==
  ASSUME NEW n \in Nat, NEW H, H \subseteq 1 .. n, H # {}
  PROVE  \E x \in H : \A y \in H : y <= x
<1> DEFINE T == {m \in Nat : n - m \in H}
<1>1. T \subseteq Nat /\ T # {}
  <2>1. PICK h : h \in H
    OBVIOUS
  <2>2. h \in 1 .. n
    BY <2>1
  <2>3. n - h \in Nat /\ n - (n - h) = h
    BY <2>2
  <2>4. n - h \in T
    BY <2>1, <2>3
  <2> QED BY <2>4
<1>2. PICK x \in T : \A y \in T : x <= y
  BY <1>1, Least
<1>3. n - x \in H /\ x \in Nat
  BY <1>2
<1>4. ASSUME NEW g \in H PROVE g <= n - x
  <2>1. g \in 1 .. n
    BY <1>4
  <2>2. n - g \in Nat /\ n - (n - g) = g
    BY <2>1
  <2>3. n - g \in T
    BY <2>2
  <2>4. x <= n - g
    BY <1>2, <2>3
  <2> QED BY <1>3, <2>1, <2>4
<1> QED BY <1>3, <1>4

\* A call begins: the id is where the search looks, or nowhere.
LEMMA LookUpTable ==
  ASSUME IInv, AllKept, NEW t \in Threads, LookUp(t)
  PROVE  AllKept'
<1>1. /\ pc[t] = "idle" /\ UNCHANGED <<hashes, listener>> /\ implicitProducerHashCount' \in Int
      /\ Place(t, "idle", loc[t]) /\ Leads(t) /\ Main \in Nat /\ Main \in 1 .. Main
      /\ listener[t] \in Nat
  BY PlaceNow DEF LookUp, tableVars, prodVars, IInv, Types
<1>2. \A h \in 1 .. Main : InHash(t, h) <=> h \in FoundIn(t)
  <2>1. ASSUME NEW h \in 1 .. Main, InHash(t, h) PROVE h \in FoundIn(t)
    BY <1>1, <2>1 DEF InHash, Leads, FoundIn
  <2>2. ASSUME NEW h \in FoundIn(t) PROVE InHash(t, h)
    <3>1. PICK i : i \in FoundAt(h, t)
      BY <2>2 DEF FoundIn
    <3>2. i \in DOMAIN hashes[h].keys /\ hashes[h].keys[i] = t
      BY <3>1 DEF FoundAt
    <3> QED BY <3>2 DEF InHash
  <2> QED BY <2>1, <2>2
<1>0. CASE ~LookUpEnds(t)
  <2>1. Goto(t, "spin") /\ Local(t, NoLocals) /\ NoLocals \in Locals
    BY <1>0, FreshLocals DEF LookUp
  <2>2. Place(t, "spin", NoLocals)
    BY DEF Place, Unfound, CallSteps
  <2> QED BY <1>1, <2>1, <2>2, TableQuiet
<1>3. CASE LookUpEnds(t) /\ FoundIn(t) = {}
  <2>1. PICK n \in Nat : n = Main
    BY <1>1
  <2>2. PICK l : l = [NoLocals EXCEPT !.hash = n]
    OBVIOUS
  <2>3. l \in Locals /\ l.hash = n
    BY <2>2, FreshLocals
  <2>4. Goto(t, "count") /\ Local(t, l)
    BY <1>3, <2>1, <2>2 DEF LookUp
  <2>5. \A h \in 1 .. Main : ~InHash(t, h)
    BY <1>2, <1>3
  <2>6. Place(t, "count", l)
    BY <1>1, <2>1, <2>3, <2>5 DEF Place, Unfound, CallSteps
  <2> QED BY <1>1, <2>3, <2>4, <2>6, TableQuiet
<1>4. CASE LookUpEnds(t) /\ FoundIn(t) # {}
  <2>1. PICK h : h = Newest(FoundIn(t)) /\ h \in FoundIn(t)
    <3>1. FoundIn(t) \subseteq 1 .. Main
      BY DEF FoundIn
    <3>2. \E h \in FoundIn(t) : \A g \in FoundIn(t) : g <= h
      BY <1>1, <1>4, <3>1, Greatest
    <3> QED BY <3>2 DEF Newest
  <2>2. h \in 1 .. Main /\ FoundAt(h, t) # {}
    BY <2>1 DEF FoundIn
  <2>3. PICK i : i = (CHOOSE j \in FoundAt(h, t) : TRUE) /\ i \in FoundAt(h, t)
    BY <2>2
  <2>4. i \in DOMAIN hashes[h].keys /\ hashes[h].keys[i] = t
    BY <2>3 DEF FoundAt
  <2>5. hashes[h].values[i] = listener[t] /\ listener[t] # NoProducer
    BY <1>1, <2>2, <2>4 DEF Leads
  <2>6. PICK n \in Nat, p \in Nat : n = Main /\ p = listener[t]
    BY <1>1
  <2>7. PICK l : l = [NoLocals EXCEPT !.hash = n, !.producer = p]
    OBVIOUS
  <2>8. l \in Locals /\ l.hash = n /\ l.at = 0 /\ l.producer = p
    <3>1. NoLocals = [hash |-> 0, count |-> 0, at |-> 0, producer |-> 0]
      BY DEF NoLocals, NoProducer
    <3>2. l = [hash |-> n, count |-> 0, at |-> 0, producer |-> p]
      BY <2>7, <3>1
    <3> QED BY <3>2 DEF Locals
  <2>9. PICK step \in {"enqueue", "move"} : Goto(t, step) /\ Local(t, l)
    BY <1>4, <2>1, <2>3, <2>5, <2>6, <2>7 DEF LookUp
  <2>10. \E g \in 1 .. Main : InHash(t, g)
    BY <1>2, <2>1, <2>2
  <2>11. Place(t, step, l)
    BY <1>1, <2>5, <2>6, <2>8, <2>10 DEF Place, Unfound, CallSteps
  <2> QED BY <1>1, <2>8, <2>9, <2>11, TableQuiet
<1> QED BY <1>0, <1>3, <1>4

\* A step of the thread of the loop alone: the tables stay.
LEMMA QuietTable ==
  ASSUME AllKept, UNCHANGED threadVars
  PROVE  AllKept'
<1>1. UNCHANGED <<hashes, implicitProducerHashCount, listener, pc, loc>>
  BY DEF threadVars, tableVars, prodVars
<1>2. Tables'
  BY <1>1 DEF AllKept, Tables
<1>3. ASSUME NEW t \in Threads PROVE Kept(t)'
  <2>1. \A h : FoundAt(h, t)' = FoundAt(h, t)
    BY <1>1, Zenon DEF FoundAt, Probe, capacity
  <2>2. Leads(t)'
    BY <1>1, <2>1, PlaceNow DEF Leads, Main
  <2>3. \A h : InHash(t, h)' = InHash(t, h)
    BY <1>1 DEF InHash
  <2>4. \A h, m : Probe(h, t, m)' = Probe(h, t, m)
    BY <1>1 DEF Probe, capacity
  <2>5. Place(t, pc[t], loc[t])'
    BY <1>1, <2>3, <2>4, PlaceNow DEF Place, Main
  <2> QED BY <2>2, <2>5 DEF Kept
<1> QED BY <1>2, <1>3 DEF AllKept

\* The initial states.
LEMMA InitTable == Init => TableInv
<1> SUFFICES ASSUME Init PROVE AllKept
  BY DEF TableInv
<1>1. PICK H : H = EmptyHash(INITIAL_IMPLICIT_PRODUCER_HASH_SIZE)
  OBVIOUS
<1>2. /\ hashes = <<H>> /\ implicitProducerHashCount = 0 /\ listener = [t \in Threads |-> NoProducer]
      /\ pc = [t \in Threads |-> "idle"] /\ loc = [t \in Threads |-> NoLocals]
  BY <1>1 DEF Init, TableInit
<1>3. H \in Hash /\ \A j \in DOMAIN H.keys : H.keys[j] = InvalidId
  <2>1. InvalidId \in Keys /\ NoProducer \in Nat
    BY DEF Keys, Available, NoProducer
  <2>2. H \in HashOf(INITIAL_IMPLICIT_PRODUCER_HASH_SIZE) /\ \A j \in DOMAIN H.keys : H.keys[j] = InvalidId
    BY <1>1, <2>1 DEF EmptyHash, HashOf
  <2> QED BY <2>2 DEF Hash
<1>4. Tables
  <2>1. hashes \in Seq(Hash) /\ hashes # <<>>
    BY <1>2, <1>3
  <2>2. loc \in [Threads -> Locals]
    BY <1>2, FreshLocals
  <2> QED BY <1>2, <2>1, <2>2 DEF Tables
<1>5. \A h \in 1 .. Main : hashes[h] = H
  BY <1>2 DEF Main
<1>6. ASSUME NEW t \in Threads PROVE Kept(t)
  <2>1. \A h \in 1 .. Main : ~InHash(t, h)
    BY <1>3, <1>5 DEF InHash
  <2>2. Leads(t)
    BY <2>1 DEF Leads, InHash
  <2>3. Place(t, pc[t], loc[t])
    BY <1>2, <2>1 DEF Place, Unfound, CallSteps, NoProducer
  <2> QED BY <2>2, <2>3 DEF Kept
<1> QED BY <1>4, <1>6 DEF AllKept

\* Once it is being destroyed a queue is not used again.
LEMMA NextTable == IInv /\ TableInv /\ [Next]_vars => TableInv'
<1> SUFFICES ASSUME IInv, TableInv, [Next]_vars, loop' \notin {"dying", "gone"}
             PROVE  AllKept'
  BY DEF TableInv
<1>1. CASE Next
  <2>1. ASSUME NEW t \in Threads, Post(t) PROVE AllKept'
    <3>1. loop' = loop /\ LookUp(t)
      BY <2>1 DEF Post, loopVars
    <3> QED BY <3>1, LookUpTable DEF TableInv
  <2>2. ASSUME NEW t \in Threads, InTable(t) PROVE AllKept'
    <3>1. TableStep(t) /\ AllKept
      BY <2>2 DEF InTable, loopVars, TableInv
    <3>2. CASE Move(t) \/ CountIn(t) \/ TestAndSet(t) \/ Wait(t) \/ Resize(t) \/ Unlock(t)
      BY <3>1, <3>2, MoveTable, CountInTable, TestAndSetTable, WaitTable, ResizeTable
    <3>3. CASE ResizeFails(t) \/ UnlockFailed(t) \/ LoadList(t) \/ Recycle(t) \/ AddProducer(t)
                 \/ CreateFails(t)
      BY <3>1, <3>3, FailsTable, ListTable, RecycleTable, AddProducerTable
    <3>4. CASE Subscribe(t) \/ Insert(t) \/ Uncount(t) \/ Unhash(t) \/ Deactivate(t) \/ NextListener(t)
      BY <3>1, <3>4, SubscribeTable, MoveTable, UncountTable, UnhashTable, DeactivateTable, EndsTable
    <3> QED BY <3>1, <3>2, <3>3, <3>4 DEF TableStep
  <2>3. ASSUME NEW t \in Threads, Enqueue(t) \/ EnqueueFails(t) \/ ThreadEnds(t) PROVE AllKept'
    <3>1. loop' = loop /\ (Enqueue(t) \/ EnqueueFails(t) \/ Exit(t))
      BY <2>3 DEF Enqueue, EnqueueFails, ThreadEnds, loopVars
    <3> QED BY <3>1, EndsTable DEF TableInv
  <2>4. CASE LoopStep
    <3>1. loop \notin {"dying", "gone"} /\ UNCHANGED threadVars
      BY <2>4 DEF LoopStep, TryDequeue, Score, Dequeue, Wakes
    <3> QED BY <3>1, QuietTable DEF TableInv
  <2>5. CASE Destroy \/ DestroyInactive \/ DestroyActive
    <3>1. loop' \in {"dying", "gone"}
      BY <2>5 DEF Destroy, DestroyInactive, DestroyActive, Destroyed
    <3> QED BY <3>1
  <2> QED BY <1>1, <2>1, <2>2, <2>3, <2>4, <2>5 DEF Next, CallStep
<1>2. CASE UNCHANGED vars
  <2>1. loop' = loop /\ UNCHANGED threadVars
    BY <1>2 DEF vars, loopVars
  <2> QED BY <2>1, QuietTable DEF TableInv
<1> QED BY <1>1, <1>2

\* The tables lead every thread to its producer, until the destructor of the queue begins
\* (TableInv says nothing after that).
THEOREM TableInvariance == Spec => [](IInv /\ TableInv)
  BY InitInv, NextInv, InitTable, NextTable, PTL DEF Spec

\* A call of post finds the stream its thread has subscribed, in whichever table its
\* id is, and no two threads are in enqueue of one stream, although the tables are
\* replaced without a lock and streams are handed on from threads that ended
\* (get_or_add_implicit_producer, implicit_producer_thread_exited).
THEOREM EveryThreadFindsItsOwnStream == Spec => []OwnStream
<1>1. IInv /\ TableInv => OwnStream
  <2> SUFFICES ASSUME IInv, TableInv PROVE OwnStream
    OBVIOUS
  <2>1. StreamsDisjoint
    <3> SUFFICES ASSUME NEW t \in Threads, NEW u \in Threads, t # u, pc[t] = "enqueue", pc[u] = "enqueue"
                 PROVE  loc[t].producer # loc[u].producer
      BY DEF StreamsDisjoint
    <3>1. loop \notin {"dying", "gone"}
      BY DEF IInv, Ends
    <3>2. /\ loc[t].producer = listener[t] /\ listener[t] # NoProducer
          /\ loc[u].producer = listener[u] /\ listener[u] # NoProducer
      BY <3>1 DEF TableInv, AllKept, Kept, Place
    <3>3. listener[t] \in Owned(t) /\ listener[u] \in Owned(u)
      BY <3>2 DEF Owned
    <3>4. Owned(t) \cap Owned(u) = {}
      BY DEF IInv, Owns
    <3> QED BY <3>2, <3>3, <3>4
  <2>2. IdFindsStream
    <3> SUFFICES ASSUME NEW t \in Threads, pc[t] \in {"idle", "move", "enqueue"},
                        loop \notin {"dying", "gone"}
                 PROVE  /\ \A h \in FoundIn(t) : \A i \in FoundAt(h, t) :
                             /\ hashes[h].values[i] = listener[t]
                             /\ ~producers[listener[t]].inactive
                        /\ listener[t] # NoProducer => FoundIn(t) # {}
      BY DEF IdFindsStream
    <3>1. AllKept /\ Leads(t) /\ Place(t, pc[t], loc[t])
      BY DEF TableInv, AllKept, Kept
    <3>2. ASSUME NEW h \in FoundIn(t), NEW i \in FoundAt(h, t)
          PROVE  hashes[h].values[i] = listener[t] /\ ~producers[listener[t]].inactive
      <4>1. h \in 1 .. Main /\ i \in DOMAIN hashes[h].keys /\ hashes[h].keys[i] = t
        BY <3>2 DEF FoundIn, FoundAt
      <4>2. hashes[h].values[i] = listener[t] /\ listener[t] # NoProducer
        BY <3>1, <4>1 DEF Leads
      <4>3. listener[t] \in Active
        BY <4>2 DEF IInv, Owns, Owned
      <4> QED BY <4>2, <4>3 DEF Active
    <3>3. ASSUME listener[t] # NoProducer PROVE FoundIn(t) # {}
      <4>1. PICK h \in 1 .. Main : InHash(t, h)
        BY <3>1, <3>3 DEF Place
      <4>2. FoundAt(h, t) # {}
        BY <3>1, <4>1 DEF InHash, Leads
      <4> QED BY <4>2 DEF FoundIn
    <3> QED BY <3>2, <3>3
  <2> QED BY <2>1, <2>2 DEF OwnStream
<1> QED BY <1>1, TableInvariance, PTL

-----------------------------------------------------------------------------
(***************************************************************************)
(* The order of the tasks.                                                 *)
(***************************************************************************)

\* What is known of a queued task: its thread is or was there, ran nothing of it or
\* after it, and has its producer until it ends.
Waits(p, x) ==
  /\ x[2] <= life[x[1]] /\ x[3] <= posts[x[1]]
  /\ ran[x[1]][x[2]] < x[3]
  /\ pc[x[1]] \in CallSteps => x[3] < posts[x[1]]
  /\ x[2] = life[x[1]] /\ pc[x[1]] # "next" => p = listener[x[1]]

Tasks == \A p \in 1 .. Len(queue) : \A i \in 1 .. Len(queue[p]) : Waits(p, queue[p][i])

SameThread(x, y) == x[1] = y[1] /\ x[2] = y[2]

Sorted == \A p \in 1 .. Len(queue) : \A i, j \in 1 .. Len(queue[p]) :
  i < j /\ SameThread(queue[p][i], queue[p][j]) => queue[p][i][3] < queue[p][j][3]

OneQueue == \A p, q \in 1 .. Len(queue) : \A i \in 1 .. Len(queue[p]), j \in 1 .. Len(queue[q]) :
  SameThread(queue[p][i], queue[q][j]) => p = q

Lives == \A t \in Threads :
  life[t] <= MaxExits[t] /\ (pc[t] \in {"exit", "next"} => life[t] < MaxExits[t])

Runs ==
  /\ ran = [t \in Threads |-> [l \in 0 .. MaxExits[t] |-> ran[t][l]]]
  /\ \A t \in Threads : \A l \in 0 .. MaxExits[t] :
       ran[t][l] \in Nat /\ ran[t][l] <= posts[t] /\ (pc[t] \in CallSteps => ran[t][l] < posts[t])

AllOrdered == Tasks /\ Sorted /\ OneQueue /\ Lives /\ Runs

OrderInv == loop \notin {"dying", "gone"} => AllOrdered

\* A thread goes on: with a call it is in or begins, in its life or into the next,
\* and with the producer it has, or a first one.
GoesOn(u) ==
  /\ posts[u] <= posts'[u]
  /\ pc'[u] \in CallSteps => pc[u] \in CallSteps \/ posts[u] < posts'[u]
  /\ \/ /\ life'[u] = life[u] /\ (pc'[u] = "exit" => pc[u] = "exit" \/ life[u] < MaxExits[u])
        /\ \/ pc'[u] = "next" /\ pc[u] \in {"exit", "next"}
           \/ /\ pc'[u] # "next" /\ pc[u] # "next"
              /\ listener[u] = NoProducer \/ listener'[u] = listener[u]
     \/ life'[u] = life[u] + 1 /\ pc[u] = "next" /\ pc'[u] = "idle"

\* A task that waits stays one.
LEMMA StaysWaiting ==
  ASSUME IInv, IInv', AllOrdered, NEW u \in Threads, NEW l \in Nat, NEW k \in Nat,
         NEW p \in 1 .. Len(queue), NEW x, x = <<u, l, k>>,
         Waits(p, x), GoesOn(u), ran'[u][l] < k
  PROVE  Waits(p, x)'
<1>1. /\ l <= life[u] /\ k <= posts[u] /\ (pc[u] \in CallSteps => k < posts[u])
      /\ l = life[u] /\ pc[u] # "next" => p = listener[u]
  BY DEF Waits
<1>2. PICK n \in Nat, m \in Nat, a \in Nat, b \in Nat :
         n = life[u] /\ m = life'[u] /\ a = posts[u] /\ b = posts'[u]
  BY DEF IInv, Types
<1>3. l <= m /\ k <= b /\ (pc'[u] \in CallSteps => k < b)
  <2>1. a <= b /\ (pc'[u] \in CallSteps => pc[u] \in CallSteps \/ a < b)
    BY <1>2 DEF GoesOn
  <2>2. m = n \/ m = n + 1
    BY <1>2 DEF GoesOn
  <2>3. l <= n /\ k <= a /\ (pc[u] \in CallSteps => k < a)
    BY <1>1, <1>2
  <2> QED BY <2>1, <2>2, <2>3
<1>4. p # NoProducer
  BY DEF NoProducer
<1>5. ASSUME l = m, pc'[u] # "next" PROVE p = listener'[u]
  <2>1. m # n + 1
    BY <1>1, <1>2, <1>5
  <2>2. pc[u] # "next" /\ (listener[u] = NoProducer \/ listener'[u] = listener[u]) /\ m = n
    BY <1>2, <1>5, <2>1 DEF GoesOn
  <2>3. p = listener[u]
    BY <1>1, <1>2, <1>5, <2>2
  <2> QED BY <1>4, <2>2, <2>3
<1> QED BY <1>2, <1>3, <1>5 DEF Waits

\* A queued task is a thread, one of its lives and a number.
LEMMA TasksType ==
  ASSUME IInv, NEW p \in 1 .. Len(queue), NEW i \in 1 .. Len(queue[p])
  PROVE  \E u \in Threads, l \in Nat, k \in Nat : queue[p][i] = <<u, l, k>>
<1> DEFINE T == Threads \X Nat \X Nat
<1>1. queue \in Seq(Seq(T))
  BY DEF IInv, Types
<1> HIDE DEF T
<1>2. queue[p][i] \in T
  BY <1>1
<1> QED BY <1>2 DEF T

\* The lives and the tasks that ran, when threads go on.
LEMMA LivesOn ==
  ASSUME IInv, IInv', Lives, \A u \in Threads : GoesOn(u)
  PROVE  Lives'
<1> SUFFICES ASSUME NEW u \in Threads
             PROVE  life'[u] <= MaxExits[u] /\ (pc'[u] \in {"exit", "next"} => life'[u] < MaxExits[u])
  BY DEF Lives
<1>1. PICK n \in Nat, m \in Nat : n = life[u] /\ m = life'[u]
  BY DEF IInv, Types
<1>2. n <= MaxExits[u] /\ (pc[u] \in {"exit", "next"} => n < MaxExits[u]) /\ MaxExits[u] \in Nat
  BY <1>1 DEF Lives
<1>3. GoesOn(u)
  OBVIOUS
<1>4. m <= MaxExits[u] /\ (pc'[u] \in {"exit", "next"} => m < MaxExits[u])
  BY <1>1, <1>2, <1>3 DEF GoesOn
<1> QED BY <1>1, <1>4

\* What has run was posted.
LEMMA RunsOn ==
  ASSUME IInv, IInv', Runs, \A u \in Threads : GoesOn(u), ran' = ran
  PROVE  Runs'
<1>1. ASSUME NEW t \in Threads, NEW l \in 0 .. MaxExits[t]
      PROVE  /\ ran[t][l] \in Nat /\ ran[t][l] <= posts'[t]
             /\ pc'[t] \in CallSteps => ran[t][l] < posts'[t]
  <2>1. ran[t][l] \in Nat /\ ran[t][l] <= posts[t] /\ (pc[t] \in CallSteps => ran[t][l] < posts[t])
    BY DEF Runs
  <2>2. PICK a \in Nat, b \in Nat : a = posts[t] /\ b = posts'[t]
    BY DEF IInv, Types
  <2>3. /\ a <= b /\ (pc'[t] \in CallSteps => pc[t] \in CallSteps \/ a < b)
    BY <2>2 DEF GoesOn
  <2> QED BY <2>1, <2>2, <2>3
<1> QED BY <1>1 DEF Runs

\* Threads go on, and streams are added.
LEMMA OrderQuiet ==
  ASSUME IInv, IInv', AllOrdered,
         ran' = ran, Len(queue) <= Len(queue'),
         \A p \in 1 .. Len(queue) : queue'[p] = queue[p],
         \A p \in 1 .. Len(queue') : p \notin 1 .. Len(queue) => queue'[p] = <<>>,
         \A u \in Threads : GoesOn(u)
  PROVE  AllOrdered'
<1>2. \A p \in 1 .. Len(queue') : \A i \in 1 .. Len(queue'[p]) :
        p \in 1 .. Len(queue) /\ queue'[p] = queue[p] /\ i \in 1 .. Len(queue[p])
  <2> SUFFICES ASSUME NEW p \in 1 .. Len(queue'), NEW i \in 1 .. Len(queue'[p])
               PROVE  p \in 1 .. Len(queue) /\ queue'[p] = queue[p] /\ i \in 1 .. Len(queue[p])
    OBVIOUS
  <2>1. p \in 1 .. Len(queue)
    OBVIOUS
  <2> QED BY <2>1
<1>3. Tasks'
  <2> SUFFICES ASSUME NEW p \in 1 .. Len(queue), NEW i \in 1 .. Len(queue[p]), queue'[p] = queue[p]
               PROVE  Waits(p, queue[p][i])'
    BY <1>2 DEF Tasks
  <2>1. PICK u \in Threads, l \in Nat, k \in Nat : queue[p][i] = <<u, l, k>>
    BY TasksType
  <2>2. PICK x : x = <<u, l, k>>
    OBVIOUS
  <2>3. Waits(p, x) /\ ran[u][l] < k
    BY <2>1, <2>2 DEF AllOrdered, Tasks, Waits
  <2>4. Waits(p, x)'
    BY <2>2, <2>3, StaysWaiting
  <2>5. queue'[p][i] = x
    BY <2>1, <2>2
  <2> QED BY <2>4, <2>5
<1>4. Sorted'
  BY <1>2 DEF AllOrdered, Sorted, SameThread
<1>5. OneQueue'
  <2> SUFFICES ASSUME NEW p \in 1 .. Len(queue'), NEW q \in 1 .. Len(queue'),
                      NEW i \in 1 .. Len(queue'[p]), NEW j \in 1 .. Len(queue'[q]),
                      SameThread(queue'[p][i], queue'[q][j])
               PROVE  p = q
    BY DEF OneQueue, SameThread
  <2>1. /\ p \in 1 .. Len(queue) /\ queue'[p] = queue[p] /\ i \in 1 .. Len(queue[p])
        /\ q \in 1 .. Len(queue) /\ queue'[q] = queue[q] /\ j \in 1 .. Len(queue[q])
    BY <1>2
  <2> QED BY <2>1 DEF AllOrdered, OneQueue
<1>6. Lives' /\ Runs'
  BY LivesOn, RunsOn DEF AllOrdered
<1> QED BY <1>3, <1>4, <1>5, <1>6 DEF AllOrdered

\* A call of post begins.
LEMMA PostOrder ==
  ASSUME IInv, IInv', AllOrdered, NEW t \in Threads, Post(t)
  PROVE  AllOrdered'
<1>1. /\ queue' = queue /\ ran' = ran /\ life' = life /\ listener' = listener
      /\ posts' = [posts EXCEPT ![t] = @ + 1] /\ pc[t] = "idle"
      /\ \E step \in {"count", "enqueue", "move", "spin"} : Goto(t, step)
  BY DEF Post, LookUp, prodVars
<1>2. /\ pc \in [Threads -> Steps] /\ posts \in [Threads -> Nat] /\ Len(queue) \in Nat
  <2>1. Len(producers) \in Nat
    BY DEF IInv, Types
  <2> QED BY <2>1 DEF IInv, Types
<1>3. ASSUME NEW u \in Threads PROVE GoesOn(u)
  <2>1. CASE u = t
    <3>1. posts'[t] = posts[t] + 1 /\ posts[t] \in Nat /\ pc'[t] \in {"count", "enqueue", "move", "spin"}
      BY <1>1, <1>2 DEF Goto
    <3> QED BY <1>1, <2>1, <3>1 DEF GoesOn
  <2>2. CASE u # t
    <3>1. posts'[u] = posts[u] /\ posts[u] \in Nat /\ pc'[u] = pc[u]
      BY <1>1, <1>2, <2>2 DEF Goto
    <3> QED BY <1>1, <3>1 DEF GoesOn
  <2> QED BY <2>1, <2>2
<1> QED BY <1>1, <1>2, <1>3, OrderQuiet

\* Other threads stay, one moves.
LEMMA OneGoesOn ==
  ASSUME IInv, NEW t \in Threads, NEW step, Goto(t, step) \/ (pc' = pc /\ step = pc[t]),
         posts' = posts,
         step \in CallSteps => pc[t] \in CallSteps,
         listener' = listener \/ \E p : listener' = [listener EXCEPT ![t] = p],
         \/ /\ life' = life /\ (step = "exit" => pc[t] = "exit" \/ life[t] < MaxExits[t])
            /\ \/ step = "next" /\ pc[t] = "exit"
               \/ /\ step # "next" /\ pc[t] # "next"
                  /\ listener[t] = NoProducer \/ listener' = listener
         \/ life' = [life EXCEPT ![t] = @ + 1] /\ pc[t] = "next" /\ step = "idle"
  PROVE  \A u \in Threads : GoesOn(u)
<1>1. /\ pc \in [Threads -> Steps] /\ posts \in [Threads -> Nat] /\ life \in [Threads -> Nat]
      /\ listener \in [Threads -> Nat]
  BY DEF IInv, Types
<1>2. \A u \in Threads : posts'[u] = posts[u] /\ posts[u] \in Nat
  BY <1>1
<1>3. ASSUME NEW u \in Threads, u # t PROVE GoesOn(u)
  <2>1. pc'[u] = pc[u] /\ life'[u] = life[u] /\ listener'[u] = listener[u]
    BY <1>1, <1>3 DEF Goto
  <2> QED BY <1>2, <2>1 DEF GoesOn
<1>4. GoesOn(t)
  <2>1. pc'[t] = step
    BY <1>1 DEF Goto
  <2>2. life'[t] = life[t] \/ life'[t] = life[t] + 1
    BY <1>1
  <2> QED BY <1>1, <1>2, <2>1 DEF GoesOn
<1> QED BY <1>3, <1>4

\* Every step of a call, and of a thread that ends, is of that kind.
LEMMA TableGoesOn ==
  ASSUME IInv, AllKept, NEW t \in Threads, TableStep(t), posts' = posts
  PROVE  \A u \in Threads : GoesOn(u)
<1>1. CASE Move(t) \/ CountIn(t) \/ TestAndSet(t) \/ Wait(t) \/ Resize(t) \/ Unlock(t) \/ ResizeFails(t)
  <2>1. /\ pc[t] \in CallSteps /\ pc[t] \notin {"exit", "next"} /\ life' = life /\ listener' = listener
        /\ \/ pc' = pc
           \/ \E step \in CallSteps \cup {"fail"} : Goto(t, step)
    BY <1>1 DEF Move, CountIn, TestAndSet, Wait, Resize, Unlock, ResizeFails, NextSlot, prodVars, CallSteps
  <2>2. "next" \notin CallSteps \cup {"fail"} /\ "exit" \notin CallSteps \cup {"fail"}
    BY DEF CallSteps
  <2> QED BY <2>1, <2>2, OneGoesOn
<1>2. CASE UnlockFailed(t) \/ LoadList(t) \/ Recycle(t) \/ AddProducer(t) \/ CreateFails(t)
         \/ Insert(t) \/ Uncount(t)
  <2>1. /\ pc[t] \in CallSteps /\ pc[t] \notin {"exit", "next"} /\ life' = life /\ listener' = listener
        /\ \/ pc' = pc
           \/ \E step \in {"idle", "scan", "subscribe", "uncount", "enqueue"} : Goto(t, step)
    BY <1>2 DEF UnlockFailed, LoadList, Recycle, AddProducer, CreateFails, Insert, Uncount, NextSlot, GivesUp,
                prodVars, CallSteps
  <2> QED BY <2>1, OneGoesOn
<1>3. CASE Subscribe(t)
  <2>1. /\ pc[t] = "subscribe" /\ life' = life /\ Goto(t, "insert")
        /\ listener' = [listener EXCEPT ![t] = loc[t].producer]
    BY <1>3 DEF Subscribe
  <2>2. listener[t] = NoProducer /\ pc[t] \in CallSteps
    BY <2>1, PlaceNow DEF Place, Unfound, CallSteps
  <2>4. \E p : listener' = [listener EXCEPT ![t] = p]
    BY <2>1
  <2>5. pc[t] # "next" /\ Goto(t, "insert") /\ life' = life
    BY <2>1
  <2> QED BY <2>2, <2>4, <2>5, OneGoesOn
<1>4. CASE Unhash(t) \/ Deactivate(t)
  <2>1. /\ pc[t] = "exit" /\ life' = life
        /\ \/ pc' = pc /\ listener' = listener
           \/ Goto(t, "next") /\ listener' = [listener EXCEPT ![t] = NoProducer]
    BY <1>4 DEF Unhash, Deactivate, prodVars
  <2>2. "next" \notin CallSteps /\ "exit" \notin CallSteps
    BY DEF CallSteps
  <2> QED BY <2>1, <2>2, OneGoesOn
<1>5. CASE NextListener(t)
  <2>1. /\ pc[t] = "next" /\ Goto(t, "idle") /\ listener' = listener
        /\ life' = [life EXCEPT ![t] = @ + 1]
    BY <1>5 DEF NextListener, GivesUp, prodVars
  <2>2. "idle" \notin CallSteps
    BY DEF CallSteps
  <2> QED BY <2>1, <2>2, OneGoesOn
<1> QED BY <1>1, <1>2, <1>3, <1>4, <1>5 DEF TableStep

\* So the order is kept by the steps that enqueue nothing.
LEMMA InTableOrder ==
  ASSUME IInv, IInv', AllKept, AllOrdered, NEW t \in Threads, InTable(t)
  PROVE  AllOrdered'
<1> DEFINE T == Threads \X Nat \X Nat
<1>1. /\ TableStep(t) /\ posts' = posts /\ ran' = ran
      /\ queue' = queue \/ queue' = Append(queue, <<>>)
      /\ queue \in Seq(Seq(T))
  BY DEF InTable, IInv, Types
<1> HIDE DEF T
<1>2. /\ Len(queue) <= Len(queue')
      /\ \A p \in 1 .. Len(queue) : queue'[p] = queue[p]
      /\ \A p \in 1 .. Len(queue') : p \notin 1 .. Len(queue) => queue'[p] = <<>>
  <2>1. CASE queue' = queue
    BY <1>1, <2>1
  <2>2. CASE queue' = Append(queue, <<>>)
    BY <1>1, <2>2
  <2> QED BY <1>1, <2>1, <2>2
<1>3. \A u \in Threads : GoesOn(u)
  BY <1>1, TableGoesOn
<1> QED BY <1>1, <1>2, <1>3, OrderQuiet

\* A thread ends, or its call fails; the thread of the loop moves on.
LEMMA EndsOrder ==
  ASSUME IInv, IInv', AllOrdered, NEW t \in Threads, EnqueueFails(t) \/ ThreadEnds(t)
  PROVE  AllOrdered'
<1>1. /\ queue' = queue /\ ran' = ran /\ posts' = posts /\ life' = life /\ listener' = listener
      /\ \/ pc[t] = "enqueue" /\ Goto(t, "idle")
         \/ pc[t] = "idle" /\ life[t] < MaxExits[t] /\ Goto(t, "exit")
  BY DEF EnqueueFails, ThreadEnds, Exit, GivesUp, prodVars
<1>2. "idle" \notin CallSteps /\ "exit" \notin CallSteps
  BY DEF CallSteps
<1>3. \A u \in Threads : GoesOn(u)
  BY <1>1, <1>2, OneGoesOn
<1>4. Len(queue) \in Nat
  <2>1. Len(producers) \in Nat
    BY DEF IInv, Types
  <2> QED BY <2>1 DEF IInv, Types
<1>5. /\ Len(queue) <= Len(queue')
      /\ \A p \in 1 .. Len(queue) : queue'[p] = queue[p]
      /\ \A p \in 1 .. Len(queue') : p \notin 1 .. Len(queue) => queue'[p] = <<>>
  BY <1>1, <1>4
<1> QED BY <1>1, <1>3, <1>5, OrderQuiet

\* Steps of the loop that dequeue nothing.
LEMMA StillOrder ==
  ASSUME AllOrdered, UNCHANGED <<threadVars, posts, queue, ran>>
  PROVE  AllOrdered'
<1>1. UNCHANGED <<listener, pc, life, posts, queue, ran>>
  BY DEF threadVars, prodVars
<1>2. Tasks' /\ Sorted' /\ OneQueue'
  BY <1>1 DEF AllOrdered, Tasks, Waits, Sorted, OneQueue, SameThread
<1>3. Lives' /\ Runs'
  BY <1>1 DEF AllOrdered, Lives, Runs
<1> QED BY <1>2, <1>3 DEF AllOrdered

\* A task is enqueued: the last of its thread.
LEMMA EnqueueOrder ==
  ASSUME IInv, IInv', AllKept, AllOrdered, NEW t \in Threads, Enqueue(t)
  PROVE  AllOrdered'
<1> DEFINE T == Threads \X Nat \X Nat
<1>1. /\ pc[t] = "enqueue" /\ Goto(t, "idle") /\ listener' = listener
      /\ life' = life /\ posts' = posts /\ ran' = ran
      /\ queue' = [queue EXCEPT ![loc[t].producer] = Append(@, Task(t))]
      /\ queue \in Seq(Seq(T)) /\ life[t] \in Nat /\ posts[t] \in Nat
  BY DEF Enqueue, GivesUp, prodVars, IInv, Types
<1>2. PICK p \in 1 .. Len(queue) : p = loc[t].producer /\ p = listener[t]
  <2>1. loc[t].producer = listener[t] /\ listener[t] # NoProducer
    BY <1>1, PlaceNow DEF Place
  <2>2. listener[t] \in Active
    BY <2>1 DEF IInv, Owns, Owned
  <2> QED BY <2>1, <2>2 DEF Active, IInv, Types
<1>3. PICK l \in Nat, k \in Nat : l = life[t] /\ k = posts[t]
  BY <1>1
<1>4. PICK x : x = <<t, l, k>>
  OBVIOUS
<1>5. queue' = [queue EXCEPT ![p] = Append(queue[p], x)] /\ x \in T
  BY <1>1, <1>2, <1>3, <1>4 DEF Task
<1> HIDE DEF T
<1>6. PICK n \in Nat : n = Len(queue[p])
  <2>1. queue[p] \in Seq(T)
    BY <1>1
  <2> QED BY <2>1
<1>7. /\ Len(queue') = Len(queue) /\ Len(queue'[p]) = n + 1 /\ queue'[p][n + 1] = x
      /\ \A i \in 1 .. n : queue'[p][i] = queue[p][i]
      /\ \A q \in 1 .. Len(queue) : q # p => queue'[q] = queue[q]
  <2>1. PICK s \in Seq(T) : s = queue[p] /\ Len(s) = n
    BY <1>1, <1>6
  <2>2. PICK y \in Seq(T) : y = Append(s, x)
    BY <1>5, <2>1, SeqFacts
  <2>3. Len(y) = n + 1 /\ y[n + 1] = x /\ \A i \in 1 .. n : y[i] = s[i]
    BY <1>5, <2>1, <2>2
  <2>4. queue' = [queue EXCEPT ![p] = y]
    BY <1>5, <2>1, <2>2
  <2>5. /\ Len(queue') = Len(queue) /\ queue'[p] = y
        /\ \A q \in 1 .. Len(queue) : q # p => queue'[q] = queue[q]
    <3>1. queue \in Seq(Seq(T)) /\ y \in Seq(T)
      BY <1>1
    <3> QED BY <1>2, <2>4, <3>1, Replace
  <2> QED BY <2>1, <2>3, <2>5
<1>8. \A q \in 1 .. Len(queue') : \A j \in 1 .. Len(queue'[q]) :
        \/ q \in 1 .. Len(queue) /\ j \in 1 .. Len(queue[q]) /\ queue'[q][j] = queue[q][j]
        \/ q = p /\ j = n + 1 /\ queue'[q][j] = x
  <2> SUFFICES ASSUME NEW q \in 1 .. Len(queue'), NEW j \in 1 .. Len(queue'[q])
               PROVE  \/ q \in 1 .. Len(queue) /\ j \in 1 .. Len(queue[q]) /\ queue'[q][j] = queue[q][j]
                      \/ q = p /\ j = n + 1 /\ queue'[q][j] = x
    OBVIOUS
  <2>1. CASE q # p
    BY <1>7, <2>1
  <2>2. CASE q = p
    <3>1. j \in 1 .. (n + 1)
      BY <1>7, <2>2
    <3>2. j \in 1 .. n \/ j = n + 1
      BY <3>1
    <3> QED BY <1>6, <1>7, <2>2, <3>2
  <2> QED BY <2>1, <2>2
<1>9. /\ ran[t][l] < k /\ ran' = ran
      /\ \A q \in 1 .. Len(queue) : \A i \in 1 .. Len(queue[q]) :
           SameThread(queue[q][i], x) => q = p /\ queue[q][i][3] < k
  <2>1. l \in 0 .. MaxExits[t] /\ pc[t] \in CallSteps
    BY <1>1, <1>3 DEF AllOrdered, Lives, CallSteps
  <2>2. ran[t][l] < k
    BY <1>3, <2>1 DEF AllOrdered, Runs
  <2>3. ASSUME NEW q \in 1 .. Len(queue), NEW i \in 1 .. Len(queue[q]), SameThread(queue[q][i], x)
        PROVE  q = p /\ queue[q][i][3] < k
    <3>1. Waits(q, queue[q][i])
      BY DEF AllOrdered, Tasks
    <3>2. queue[q][i][1] = t /\ queue[q][i][2] = l
      BY <1>4, <2>3 DEF SameThread
    <3> QED BY <1>1, <1>2, <1>3, <2>1, <3>1, <3>2 DEF Waits
  <2> QED BY <1>1, <2>2, <2>3
<1>10. \A u \in Threads : GoesOn(u)
  <2>1. "idle" \notin CallSteps
    BY DEF CallSteps
  <2>2. /\ pc[t] = "enqueue" /\ Goto(t, "idle") /\ listener' = listener /\ life' = life
        /\ posts' = posts
    BY <1>1
  <2> QED BY <2>1, <2>2, OneGoesOn
<1>11. Tasks'
  <2> SUFFICES ASSUME NEW q \in 1 .. Len(queue'), NEW j \in 1 .. Len(queue'[q])
               PROVE  Waits(q, queue[q][j])'
    BY DEF Tasks
  <2>1. PICK y : y = queue'[q][j]
    OBVIOUS
  <2>2. CASE q \in 1 .. Len(queue) /\ j \in 1 .. Len(queue[q]) /\ y = queue[q][j]
    <3>1. Waits(q, y)
      BY <2>2 DEF AllOrdered, Tasks
    <3>2. PICK u \in Threads, m \in Nat, a \in Nat : y = <<u, m, a>>
      <4>1. \E u \in Threads, m \in Nat, a \in Nat : queue[q][j] = <<u, m, a>>
        BY <2>2, TasksType
      <4> QED BY <2>2, <4>1
    <3>3. ran'[u][m] < a /\ GoesOn(u)
      BY <1>9, <1>10, <3>1, <3>2 DEF Waits
    <3>4. Waits(q, y)'
      BY <2>2, <3>1, <3>2, <3>3, StaysWaiting
    <3> QED BY <2>1, <3>4
  <2>3. CASE q = p /\ y = x
    <3>1. pc'[t] = "idle" /\ "idle" \notin CallSteps
      BY <1>1 DEF IInv, Types, Goto, CallSteps
    <3>2. l <= life'[t] /\ k <= posts'[t] /\ p = listener'[t]
      <4>1. life' = life /\ posts' = posts /\ listener' = listener
        BY <1>1
      <4> QED BY <1>2, <1>3, <4>1
    <3>3. ran'[t][l] < k
      BY <1>9
    <3>4. Waits(p, x)'
      BY <1>4, <3>1, <3>2, <3>3 DEF Waits
    <3> QED BY <2>1, <2>3, <3>4
  <2> QED BY <1>8, <2>1, <2>2, <2>3
<1>12. Sorted'
  <2> SUFFICES ASSUME NEW q \in 1 .. Len(queue'), NEW i \in 1 .. Len(queue'[q]),
                 NEW j \in 1 .. Len(queue'[q]),
                      i < j, SameThread(queue'[q][i], queue'[q][j])
               PROVE  queue'[q][i][3] < queue'[q][j][3]
    BY DEF Sorted, SameThread
  <2>0. q \in 1 .. Len(queue)
    BY <1>7
  <2>1. CASE q = p
    <3>1. i \in 1 .. n /\ (j \in 1 .. n \/ j = n + 1)
      BY <1>6, <1>7, <2>1
    <3>2. i \in 1 .. Len(queue[q]) /\ queue'[q][i] = queue[q][i]
      BY <1>6, <1>7, <2>1, <3>1
    <3>3. CASE j = n + 1
      <4>1. queue'[q][j] = x /\ x[3] = k
        BY <1>4, <1>7, <2>1, <3>3
      <4> QED BY <1>9, <2>0, <3>2, <4>1
    <3>4. CASE j \in 1 .. n
      <4>1. j \in 1 .. Len(queue[q]) /\ queue'[q][j] = queue[q][j]
        BY <1>6, <1>7, <2>1, <3>4
      <4> QED BY <2>0, <3>2, <4>1 DEF AllOrdered, Sorted
    <3> QED BY <3>1, <3>3, <3>4
  <2>2. CASE q # p
    <3>1. queue'[q] = queue[q]
      BY <1>7, <2>0, <2>2
    <3> QED BY <2>0, <3>1 DEF AllOrdered, Sorted
  <2> QED BY <2>1, <2>2
<1>13. OneQueue'
  <2>1. ASSUME NEW q \in 1 .. Len(queue'), NEW r \in 1 .. Len(queue'),
               NEW i \in 1 .. Len(queue'[q]), NEW j \in 1 .. Len(queue'[r]),
               SameThread(queue'[q][i], queue'[r][j])
        PROVE  q = r
    <3>1. PICK y, z : y = queue'[q][i] /\ z = queue'[r][j]
      OBVIOUS
    <3>2. SameThread(y, z) /\ SameThread(z, y)
      BY <2>1, <3>1 DEF SameThread
    <3>3. \/ q \in 1 .. Len(queue) /\ i \in 1 .. Len(queue[q]) /\ y = queue[q][i]
          \/ q = p /\ y = x
      BY <1>8, <3>1
    <3>4. \/ r \in 1 .. Len(queue) /\ j \in 1 .. Len(queue[r]) /\ z = queue[r][j]
          \/ r = p /\ z = x
      BY <1>8, <3>1
    <3>5. CASE y = x \/ z = x
      <4>1. SameThread(y, x) /\ SameThread(z, x)
        BY <3>2, <3>5 DEF SameThread
      <4>2. q = p
        BY <1>9, <3>3, <4>1
      <4>3. r = p
        BY <1>9, <3>4, <4>1
      <4> QED BY <4>2, <4>3
    <3>6. CASE ~(y = x \/ z = x)
      BY <3>2, <3>3, <3>4, <3>6 DEF AllOrdered, OneQueue
    <3> QED BY <3>5, <3>6
  <2> QED BY <2>1 DEF OneQueue, SameThread
<1>14. Lives' /\ Runs'
  BY <1>1, <1>10, LivesOn, RunsOn DEF AllOrdered
<1> QED BY <1>11, <1>12, <1>13, <1>14 DEF AllOrdered

\* What has run of each thread.
OfLives(r) == r = [u \in Threads |-> [m \in 0 .. MaxExits[u] |-> r[u][m]]]

\* The same, with one task more.
OneMore(r, s, t, l, k) == \A u \in Threads : \A m \in 0 .. MaxExits[u] :
  s[u][m] = IF u = t /\ m = l THEN k ELSE r[u][m]

\* Calls changes one of them.
LEMMA OneRan ==
  ASSUME NEW r, OfLives(r), NEW t \in Threads, NEW l \in 0 .. MaxExits[t], NEW k,
         NEW s, s = [r EXCEPT ![t][l] = k]
  PROVE  OfLives(s) /\ OneMore(r, s, t, l, k)
<1> DEFINE D(u) == 0 .. MaxExits[u]
<1>1. r = [u \in Threads |-> [m \in D(u) |-> r[u][m]]] /\ l \in D(t)
  BY DEF OfLives
<1> HIDE DEF D
<1>2. DOMAIN r = Threads /\ \A u \in Threads : r[u] = [m \in D(u) |-> r[u][m]]
  BY <1>1
<1>3. \A u \in Threads : DOMAIN r[u] = D(u)
  BY <1>2
<1>4. s = [u \in Threads |-> IF u = t THEN [r[t] EXCEPT ![l] = k] ELSE r[u]]
  BY <1>2
<1>5. PICK f : f = [r[t] EXCEPT ![l] = k]
  OBVIOUS
<1>6. f = [m \in D(t) |-> f[m]] /\ \A m \in D(t) : f[m] = IF m = l THEN k ELSE r[t][m]
  BY <1>1, <1>3, <1>5
<1>7. s[t] = f /\ \A u \in Threads : u # t => s[u] = r[u]
  BY <1>4, <1>5
<1>8. \A u \in Threads : s[u] = [m \in D(u) |-> s[u][m]]
  <2> SUFFICES ASSUME NEW u \in Threads PROVE s[u] = [m \in D(u) |-> s[u][m]]
    OBVIOUS
  <2>1. CASE u = t
    BY <1>6, <1>7, <2>1
  <2>2. CASE u # t
    <3>1. s[u] = r[u] /\ r[u] = [m \in D(u) |-> r[u][m]]
      BY <1>2, <1>7, <2>2
    <3> QED BY <3>1
  <2> QED BY <2>1, <2>2
<1>9. s = [u \in Threads |-> s[u]]
  BY <1>4
<1>10. s = [u \in Threads |-> [m \in D(u) |-> s[u][m]]]
  BY <1>8, <1>9
<1>11. \A u \in Threads : \A m \in D(u) : s[u][m] = IF u = t /\ m = l THEN k ELSE r[u][m]
  BY <1>6, <1>7
<1> QED BY <1>10, <1>11 DEF D, OfLives, OneMore

\* A task runs: of those that wait, it is the first of its thread.
LEMMA DequeueOrder ==
  ASSUME IInv, IInv', AllOrdered, Dequeue
  PROVE  /\ AllOrdered'
         /\ \E t \in Threads : \E l \in 0 .. MaxExits[t] : ran'[t][l] > ran[t][l]
<1> DEFINE T == Threads \X Nat \X Nat
<1>1. /\ UNCHANGED <<threadVars, posts>> /\ Calls(Head(queue[scan.best]))
      /\ queue' = [queue EXCEPT ![scan.best] = Tail(@)]
      /\ queue \in Seq(Seq(T)) /\ HasTask(scan.best)
  BY DEF Dequeue, IInv, Types, Drains
<1>2. PICK p \in 1 .. Len(queue) : p = scan.best /\ queue[p] # <<>>
  BY <1>1 DEF HasTask
<1> HIDE DEF T
<1>3. PICK n \in Nat : Len(queue[p]) = n + 1
  <2>1. PICK s \in Seq(T) : s = queue[p] /\ s # <<>>
    BY <1>1, <1>2
  <2>2. Len(s) \in Nat \ {0}
    BY <2>1, SeqFacts
  <2>3. Len(s) - 1 \in Nat /\ Len(s) = (Len(s) - 1) + 1
    BY <2>2
  <2> QED BY <2>1, <2>3
<1>4. /\ Len(queue') = Len(queue) /\ Len(queue'[p]) = n
      /\ \A i \in 1 .. n : queue'[p][i] = queue[p][i + 1]
      /\ \A q \in 1 .. Len(queue) : q # p => queue'[q] = queue[q]
      /\ Head(queue[p]) = queue[p][1]
  <2>1. PICK s \in Seq(T) : s = queue[p] /\ s # <<>> /\ Len(s) = n + 1
    BY <1>1, <1>2, <1>3
  <2>2. PICK y \in Seq(T) : y = Tail(s)
    BY <2>1, SeqFacts
  <2>3. Len(y) = n /\ (\A i \in 1 .. n : y[i] = s[i + 1]) /\ Head(s) = s[1]
    BY <2>1, <2>2
  <2>4. queue' = [queue EXCEPT ![p] = y]
    BY <1>1, <1>2, <2>1, <2>2
  <2>5. /\ Len(queue') = Len(queue) /\ queue'[p] = y
        /\ \A q \in 1 .. Len(queue) : q # p => queue'[q] = queue[q]
    <3>1. queue \in Seq(Seq(T)) /\ y \in Seq(T)
      BY <1>1
    <3> QED BY <1>2, <2>4, <3>1, Replace
  <2> QED BY <2>1, <2>3, <2>5
<1>5. PICK t \in Threads, l \in Nat, k \in Nat : queue[p][1] = <<t, l, k>>
  <2>1. 1 \in 1 .. Len(queue[p])
    BY <1>3
  <2> QED BY <2>1, TasksType
<1>6. PICK x : x = <<t, l, k>>
  OBVIOUS
<1>7. Waits(p, x) /\ queue[p][1] = x
  <2>1. 1 \in 1 .. Len(queue[p])
    BY <1>3
  <2> QED BY <1>5, <1>6, <2>1 DEF AllOrdered, Tasks
<1>8. /\ l <= life[t] /\ k <= posts[t] /\ ran[t][l] < k /\ (pc[t] \in CallSteps => k < posts[t])
      /\ l \in 0 .. MaxExits[t]
  <2>1. l <= life[t] /\ k <= posts[t] /\ ran[t][l] < k /\ (pc[t] \in CallSteps => k < posts[t])
    BY <1>6, <1>7 DEF Waits
  <2>2. life[t] <= MaxExits[t] /\ life[t] \in Nat /\ MaxExits[t] \in Nat
    BY DEF AllOrdered, Lives, IInv, Types
  <2> QED BY <2>1, <2>2
<1>9. /\ ran' = [u \in Threads |-> [m \in 0 .. MaxExits[u] |-> ran'[u][m]]]
      /\ \A u \in Threads : \A m \in 0 .. MaxExits[u] :
           ran'[u][m] = IF u = t /\ m = l THEN k ELSE ran[u][m]
  <2>1. ran' = [ran EXCEPT ![t][l] = k]
    <3>1. Head(queue[scan.best]) = x
      BY <1>2, <1>4, <1>7
    <3>2. Calls(x)
      BY <1>1, <3>1
    <3> QED BY <1>6, <3>2 DEF Calls
  <2>2. ran = [u \in Threads |-> [m \in 0 .. MaxExits[u] |-> ran[u][m]]]
    BY DEF AllOrdered, Runs
  <2>3. PICK r, s : r = ran /\ s = ran'
    OBVIOUS
  <2>4. OfLives(r) /\ s = [r EXCEPT ![t][l] = k]
    BY <2>1, <2>2, <2>3 DEF OfLives
  <2>5. OfLives(s) /\ OneMore(r, s, t, l, k)
    BY <1>8, <2>4, OneRan
  <2> QED BY <2>3, <2>5 DEF OfLives, OneMore
<1>10. \A q \in 1 .. Len(queue') : \A j \in 1 .. Len(queue'[q]) :
         /\ q \in 1 .. Len(queue)
         /\ \/ q # p /\ j \in 1 .. Len(queue[q]) /\ queue'[q][j] = queue[q][j]
            \/ q = p /\ j + 1 \in 1 .. Len(queue[q]) /\ j + 1 > 1 /\ queue'[q][j] = queue[q][j + 1]
  <2> SUFFICES ASSUME NEW q \in 1 .. Len(queue'), NEW j \in 1 .. Len(queue'[q])
               PROVE  \/ q # p /\ j \in 1 .. Len(queue[q]) /\ queue'[q][j] = queue[q][j]
                      \/ q = p /\ j + 1 \in 1 .. Len(queue[q]) /\ j + 1 > 1 /\ queue'[q][j] = queue[q][j + 1]
    BY <1>4
  <2>1. CASE q # p
    BY <1>4, <2>1
  <2>2. CASE q = p
    BY <1>3, <1>4, <2>2
  <2> QED BY <2>1, <2>2
<1>11. \A q \in 1 .. Len(queue') : \A j \in 1 .. Len(queue'[q]) :
         \E i \in 1 .. Len(queue[q]) :
           queue'[q][j] = queue[q][i] /\ (SameThread(x, queue[q][i]) => k < queue[q][i][3])
  <2> SUFFICES ASSUME NEW q \in 1 .. Len(queue'), NEW j \in 1 .. Len(queue'[q])
               PROVE  \E i \in 1 .. Len(queue[q]) :
                        queue'[q][j] = queue[q][i] /\ (SameThread(x, queue[q][i]) => k < queue[q][i][3])
    OBVIOUS
  <2>1. q \in 1 .. Len(queue) /\ 1 \in 1 .. Len(queue[p]) /\ x[3] = k
    BY <1>3, <1>4, <1>6
  <2>2. CASE q # p
    <3>1. j \in 1 .. Len(queue[q]) /\ queue'[q][j] = queue[q][j]
      BY <1>10, <2>2
    <3>2. ~SameThread(x, queue[q][j])
      BY <1>7, <2>1, <2>2, <3>1 DEF AllOrdered, OneQueue
    <3> QED BY <3>1, <3>2
  <2>3. CASE q = p
    <3>1. PICK i \in 1 .. Len(queue[q]) : i > 1 /\ queue'[q][j] = queue[q][i]
      BY <1>10, <2>3
    <3>2. SameThread(x, queue[q][i]) => k < queue[q][i][3]
      BY <1>7, <2>1, <2>3, <3>1 DEF AllOrdered, Sorted
    <3> QED BY <3>1, <3>2
  <2> QED BY <2>2, <2>3
<1>12. Tasks'
  <2> SUFFICES ASSUME NEW q \in 1 .. Len(queue'), NEW j \in 1 .. Len(queue'[q])
               PROVE  Waits(q, queue[q][j])'
    BY DEF Tasks
  <2>1. PICK i \in 1 .. Len(queue[q]) :
           queue'[q][j] = queue[q][i] /\ (SameThread(x, queue[q][i]) => k < queue[q][i][3])
    BY <1>11
  <2>2. PICK y : y = queue[q][i]
    OBVIOUS
  <2>3. Waits(q, y) /\ q \in 1 .. Len(queue)
    BY <1>10, <2>2 DEF AllOrdered, Tasks
  <2>4. PICK u \in Threads, m \in Nat, a \in Nat : y = <<u, m, a>>
    <3>1. \E u \in Threads, m \in Nat, a \in Nat : queue[q][i] = <<u, m, a>>
      BY <2>3, TasksType
    <3> QED BY <2>2, <3>1
  <2>5. ran'[u][m] < a
    <3>1. ran[u][m] < a /\ m <= life[u] /\ life[u] \in Nat
      BY <2>3, <2>4 DEF Waits, IInv, Types
    <3>2. m \in 0 .. MaxExits[u]
      BY <3>1 DEF AllOrdered, Lives
    <3>3. u = t /\ m = l => k < a
      BY <1>6, <2>1, <2>2, <2>4 DEF SameThread
    <3> QED BY <1>9, <3>1, <3>2, <3>3
  <2>6. GoesOn(u)
    <3>1. UNCHANGED <<listener, pc, life, posts>> /\ posts[u] \in Nat
      BY <1>1 DEF threadVars, prodVars, IInv, Types
    <3>2. CASE pc[u] = "next"
      BY <3>1, <3>2 DEF GoesOn
    <3>3. CASE pc[u] # "next"
      BY <3>1, <3>3 DEF GoesOn
    <3> QED BY <3>2, <3>3
  <2>7. Waits(q, y)'
    BY <2>3, <2>4, <2>5, <2>6, StaysWaiting
  <2> QED BY <2>1, <2>2, <2>7
<1>13. Sorted'
  <2> SUFFICES ASSUME NEW q \in 1 .. Len(queue'), NEW i \in 1 .. Len(queue'[q]),
                 NEW j \in 1 .. Len(queue'[q]),
                      i < j, SameThread(queue'[q][i], queue'[q][j])
               PROVE  queue'[q][i][3] < queue'[q][j][3]
    BY DEF Sorted, SameThread
  <2>1. CASE q # p
    BY <1>10, <2>1 DEF AllOrdered, Sorted
  <2>2. CASE q = p
    <3>1. /\ q \in 1 .. Len(queue)
          /\ i + 1 \in 1 .. Len(queue[q]) /\ queue'[q][i] = queue[q][i + 1]
          /\ j + 1 \in 1 .. Len(queue[q]) /\ queue'[q][j] = queue[q][j + 1]
          /\ i + 1 < j + 1
      <4>1. i + 1 < j + 1
        BY <1>4, <2>2
      <4> QED BY <1>10, <2>2, <4>1
    <3> QED BY <3>1 DEF AllOrdered, Sorted
  <2> QED BY <2>1, <2>2
<1>14. OneQueue'
  <2>1. ASSUME NEW q \in 1 .. Len(queue'), NEW r \in 1 .. Len(queue'),
               NEW i \in 1 .. Len(queue'[q]), NEW j \in 1 .. Len(queue'[r]),
               SameThread(queue'[q][i], queue'[r][j])
        PROVE  q = r
    <3>1. q \in 1 .. Len(queue) /\ r \in 1 .. Len(queue)
      BY <1>10
    <3>2. PICK g \in 1 .. Len(queue[q]) : queue'[q][i] = queue[q][g]
      BY <1>11
    <3>3. PICK h \in 1 .. Len(queue[r]) : queue'[r][j] = queue[r][h]
      BY <1>11
    <3>4. SameThread(queue[q][g], queue[r][h])
      BY <2>1, <3>2, <3>3
    <3> QED BY <3>1, <3>4 DEF AllOrdered, OneQueue
  <2> QED BY <2>1 DEF OneQueue, SameThread
<1>15. Lives' /\ Runs'
  <2>1. UNCHANGED <<pc, life, posts>>
    BY <1>1 DEF threadVars
  <2>2. Lives'
    BY <2>1 DEF AllOrdered, Lives
  <2>3. ASSUME NEW u \in Threads, NEW m \in 0 .. MaxExits[u]
        PROVE  /\ ran'[u][m] \in Nat /\ ran'[u][m] <= posts[u]
               /\ pc[u] \in CallSteps => ran'[u][m] < posts[u]
    <3>1. ran'[u][m] = IF u = t /\ m = l THEN k ELSE ran[u][m]
      BY <1>9
    <3>2. CASE u = t /\ m = l
      BY <1>8, <3>1, <3>2
    <3>3. CASE ~(u = t /\ m = l)
      BY <3>1, <3>3 DEF AllOrdered, Runs
    <3> QED BY <3>2, <3>3
  <2> QED BY <1>9, <2>1, <2>2, <2>3 DEF Runs
<1>16. ran'[t][l] > ran[t][l]
  <2>1. ran'[t][l] = k /\ ran[t][l] \in Nat
    BY <1>8, <1>9 DEF AllOrdered, Runs
  <2> QED BY <1>8, <2>1
<1> QED BY <1>8, <1>12, <1>13, <1>14, <1>15, <1>16 DEF AllOrdered

\* The initial states.
LEMMA InitOrder == Init => OrderInv
<1> SUFFICES ASSUME Init PROVE AllOrdered
  BY DEF OrderInv
<1>1. /\ queue = <<>> /\ pc = [t \in Threads |-> "idle"] /\ life = [t \in Threads |-> 0]
      /\ posts = [t \in Threads |-> 0]
      /\ ran = [t \in Threads |-> [l \in 0 .. MaxExits[t] |-> 0]]
  BY DEF Init, TableInit
<1>2. Tasks /\ Sorted /\ OneQueue
  BY <1>1 DEF Tasks, Sorted, OneQueue
<1>3. Lives /\ Runs
  BY <1>1 DEF Lives, Runs, CallSteps
<1> QED BY <1>2, <1>3 DEF AllOrdered

\* Every step keeps the order of the tasks that wait.
LEMMA NextOrder == IInv /\ IInv' /\ TableInv /\ OrderInv /\ [Next]_vars => OrderInv'
<1> SUFFICES ASSUME IInv, IInv', TableInv, OrderInv, [Next]_vars, loop' \notin {"dying", "gone"}
             PROVE  AllOrdered'
  BY DEF OrderInv
<1>1. CASE Next
  <2>1. ASSUME NEW t \in Threads, Post(t) PROVE AllOrdered'
    <3>1. loop' = loop
      BY <2>1 DEF Post, loopVars
    <3> QED BY <2>1, <3>1, PostOrder DEF OrderInv
  <2>2. ASSUME NEW t \in Threads, InTable(t) \/ Enqueue(t) PROVE AllOrdered'
    <3>1. AllOrdered /\ AllKept
      BY <2>2 DEF InTable, Enqueue, loopVars, OrderInv, TableInv
    <3> QED BY <2>2, <3>1, InTableOrder, EnqueueOrder
  <2>3. ASSUME NEW t \in Threads, EnqueueFails(t) \/ ThreadEnds(t) PROVE AllOrdered'
    <3>1. loop' = loop
      BY <2>3 DEF EnqueueFails, ThreadEnds, loopVars
    <3> QED BY <2>3, <3>1, EndsOrder DEF OrderInv
  <2>4. CASE LoopStep
    <3>1. AllOrdered
      BY <2>4 DEF LoopStep, TryDequeue, Score, Dequeue, Wakes, OrderInv
    <3>2. CASE Dequeue
      BY <3>1, <3>2, DequeueOrder
    <3>3. CASE TryDequeue \/ Score \/ Wakes
      <4>1. UNCHANGED <<threadVars, posts, queue, ran>>
        BY <3>3 DEF TryDequeue, Score, Wakes
      <4> QED BY <3>1, <4>1, StillOrder
    <3> QED BY <2>4, <3>2, <3>3 DEF LoopStep
  <2>5. CASE Destroy \/ DestroyInactive \/ DestroyActive
    <3>1. loop' \in {"dying", "gone"}
      BY <2>5 DEF Destroy, DestroyInactive, DestroyActive, Destroyed
    <3> QED BY <3>1
  <2> QED BY <1>1, <2>1, <2>2, <2>3, <2>4, <2>5 DEF Next, CallStep
<1>2. CASE UNCHANGED vars
  <2>1. loop' = loop /\ UNCHANGED <<threadVars, posts, queue, ran>>
    BY <1>2 DEF vars, loopVars
  <2> QED BY <2>1, StillOrder DEF OrderInv
<1> QED BY <1>1, <1>2

\* The tasks of one thread run in the order it posted them, and none twice, however
\* the tables grew between its posts and whoever takes over its stream (NetLoop::post,
\* get_or_add_implicit_producer, try_dequeue).
THEOREM TasksRunInTheOrderPosted == Spec => OrderKept
<1> DEFINE J == IInv /\ TableInv /\ OrderInv
<1>1. Init => J
  BY InitInv, InitTable, InitOrder
<1>2. J /\ [Next]_vars => J'
  BY NextInv, NextTable, NextOrder
<1>3. J /\ [Next]_vars =>
        [loop = "best" /\ loop' = "task" =>
           \E t \in Threads : \E l \in 0 .. MaxExits[t] : ran'[t][l] > ran[t][l]]_vars
  <2> SUFFICES ASSUME J, [Next]_vars, loop = "best", loop' = "task"
               PROVE  \E t \in Threads : \E l \in 0 .. MaxExits[t] : ran'[t][l] > ran[t][l]
    OBVIOUS
  <2>1. Dequeue
    <3>1. loop' # loop
      OBVIOUS
    <3>2. ASSUME NEW t \in Threads PROVE ~(Post(t) \/ CallStep(t) \/ ThreadEnds(t))
      BY <3>1 DEF Post, CallStep, InTable, Enqueue, EnqueueFails, ThreadEnds, loopVars
    <3>3. ~(TryDequeue \/ Score \/ Wakes \/ Destroy \/ DestroyInactive \/ DestroyActive)
      BY DEF TryDequeue, Score, Wakes, Destroy, DestroyInactive, DestroyActive
    <3>4. Next
      BY <3>1 DEF vars, loopVars
    <3> QED BY <3>2, <3>3, <3>4 DEF Next, LoopStep
  <2>2. IInv'
    BY NextInv
  <2>3. AllOrdered
    BY DEF OrderInv
  <2> QED BY <2>1, <2>2, <2>3, DequeueOrder
<1> QED BY <1>1, <1>2, <1>3, PTL DEF Spec, OrderKept
=============================================================================
