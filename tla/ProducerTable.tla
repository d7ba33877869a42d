--------------------------- MODULE ProducerTable ---------------------------
(***************************************************************************)
(* How a thread that posts finds its own stream (src/src/concurrentqueue.h,*)
(* get_or_add_implicit_producer): a lock-free hash table from thread ids   *)
(* to producers that is replaced by a larger one when it fills, the list   *)
(* of producers, and the notification by which the producer of a thread    *)
(* that ends becomes free for another.                                     *)
(*                                                                         *)
(* A step is one access to a shared atomic, with the private work next to  *)
(* it; accesses are sequentially consistent, the memory orders of the code *)
(* are not modelled.  The search for a thread's own id is one step: only   *)
(* that thread writes the id, and a slot once taken is never empty again.  *)
(***************************************************************************)
EXTENDS Integers, Sequences, FiniteSets

CONSTANTS
  Threads,
  hash_thread_id,    \* of a thread: the slot a search begins at
  InvalidId,         \* invalid_thread_id: a slot that was never taken
  ReusableId,        \* invalid_thread_id2: its thread has ended
  INITIAL_IMPLICIT_PRODUCER_HASH_SIZE,
  MaxExits,          \* bound: threads that end
  AllocFails         \* malloc may fail

ASSUME TableAssumption ==
  /\ IsFiniteSet(Threads)
  /\ hash_thread_id \in [Threads -> Nat]
  /\ InvalidId \notin Threads /\ ReusableId \notin Threads /\ InvalidId # ReusableId
  /\ INITIAL_IMPLICIT_PRODUCER_HASH_SIZE \in Nat \ {0}
  /\ MaxExits \in [Threads -> Nat]
  /\ AllocFails \in BOOLEAN

VARIABLES
  hashes,        \* the ImplicitProducerHashes, from the first to the current one
  implicitProducerHashCount,
  implicitProducerHashResizeInProgress,
  producers,     \* the list, from the first added to the last: who is inactive
  listener,      \* of a thread: the producer that hears of its end
  pc,
  loc,           \* the local variables of a thread
  life           \* of an id: the threads that had it and have ended

tableVars == <<hashes, implicitProducerHashCount, implicitProducerHashResizeInProgress>>
prodVars  == <<producers, listener>>
threadVars == <<tableVars, prodVars, pc, loc, life>>

NoProducer == 0
NoLocals   == [hash |-> 0, count |-> 0, at |-> 0, producer |-> NoProducer]

EmptyHash(n) == [keys   |-> [i \in 0 .. (n - 1) |-> InvalidId],
                 values |-> [i \in 0 .. (n - 1) |-> NoProducer]]

\* populate_initial_implicit_producer_hash
TableInit ==
  /\ hashes = <<EmptyHash(INITIAL_IMPLICIT_PRODUCER_HASH_SIZE)>>
  /\ implicitProducerHashCount = 0
  /\ implicitProducerHashResizeInProgress = FALSE
  /\ producers = <<>>
  /\ listener = [t \in Threads |-> NoProducer]
  /\ pc = [t \in Threads |-> "idle"]
  /\ loc = [t \in Threads |-> NoLocals]
  /\ life = [t \in Threads |-> 0]

-----------------------------------------------------------------------------
Goto(t, step) == pc' = [pc EXCEPT ![t] = step]
Local(t, l)   == loc' = [loc EXCEPT ![t] = l]
GivesUp(t)    == Goto(t, "idle") /\ Local(t, NoLocals)

Main        == Len(hashes)
capacity(h) == Cardinality(DOMAIN hashes[h].keys)

\* The slots a search for t in table h looks at, in their order.
Probe(h, t, n) == (hash_thread_id[t] + n) % capacity(h)

\* The search ends at the id, or at a slot that was never taken.
FoundAt(h, t) ==
  {i \in DOMAIN hashes[h].keys :
    /\ hashes[h].keys[i] = t
    /\ \E n \in 0 .. (capacity(h) - 1) :
         /\ i = Probe(h, t, n)
         /\ \A m \in 0 .. (n - 1) : hashes[h].keys[Probe(h, t, m)] # InvalidId}

\* (The operators named for a mistake are what the code would be with it.)
FoundInCurrent(t) == {h \in {Main} : FoundAt(h, t) # {}}

FoundIn(t) == {h \in 1 .. Main : FoundAt(h, t) # {}}

\* A search in a table with neither the id nor a slot that was never taken goes
\* round it for ever, as such a table stays as it is.
SearchEnds(h, t) == \E i \in DOMAIN hashes[h].keys : hashes[h].keys[i] \in {t, InvalidId}

\* The tables are searched from the current one to the one with the id.
LookUpEnds(t) ==
  \A h \in 1 .. Main : SearchEnds(h, t) \/ \E g \in FoundIn(t) : g > h

Newest(H) == CHOOSE h \in H : \A g \in H : g <= h

-----------------------------------------------------------------------------
(***************************************************************************)
(* get_or_add_implicit_producer.  At "enqueue" a call has returned a       *)
(* producer; it returns none by GivesUp, and at "spin" it never returns.   *)
(***************************************************************************)

\* All tables are searched.  An id found in an old one moves to the current one.
LookUp(t) ==
  /\ pc[t] = "idle"
  /\ IF ~LookUpEnds(t)
       THEN Goto(t, "spin") /\ Local(t, NoLocals)
     ELSE IF FoundIn(t) = {}
       THEN Goto(t, "count") /\ Local(t, [NoLocals EXCEPT !.hash = Main])
       ELSE LET h == Newest(FoundIn(t))
                p == hashes[h].values[CHOOSE i \in FoundAt(h, t) : TRUE]
            IN  /\ Goto(t, IF h = Main THEN "enqueue" ELSE "move")
                /\ Local(t, [NoLocals EXCEPT !.hash = Main, !.producer = p])
  /\ UNCHANGED <<tableVars, prodVars, life>>

Slot(t)     == Probe(loc[t].hash, t, loc[t].at)
KeyThere(t) == hashes[loc[t].hash].keys[Slot(t)]
Available   == {InvalidId, ReusableId}

Occupies(t) ==
  hashes' = [hashes EXCEPT ![loc[t].hash] =
              [keys   |-> [@.keys   EXCEPT ![Slot(t)] = t],
               values |-> [@.values EXCEPT ![Slot(t)] = loc[t].producer]]]

NextSlot(t) == Local(t, [loc[t] EXCEPT !.at = @ + 1]) /\ UNCHANGED <<hashes, pc>>

\* The compare_exchange on one slot.  It is not counted: the slot in the old
\* table was ("there's guaranteed to be room in the current hash table").
Move(t) ==
  /\ pc[t] = "move"
  /\ \/ KeyThere(t) \in Available /\ Occupies(t) /\ Goto(t, "enqueue") /\ UNCHANGED loc
     \/ KeyThere(t) \notin Available /\ NextSlot(t)
  /\ UNCHANGED <<implicitProducerHashCount, implicitProducerHashResizeInProgress, prodVars, life>>

AddToCount(n) == implicitProducerHashCount' = implicitProducerHashCount + n

CountIn(t) ==
  /\ pc[t] = "count"
  /\ AddToCount(1)
  /\ Local(t, [loc[t] EXCEPT !.count = implicitProducerHashCount + 1])
  /\ Goto(t, "full")
  /\ UNCHANGED <<hashes, implicitProducerHashResizeInProgress, prodVars, life>>

HalfFull(t, h)      == loc[t].count >= capacity(h) \div 2
ThreeQuarters(t, h) == loc[t].count >= capacity(h) \div 2 + capacity(h) \div 4

\* The flag is tested and set only when the table is half full.
TestAndSet(t) ==
  /\ pc[t] = "full"
  /\ IF HalfFull(t, loc[t].hash) /\ ~implicitProducerHashResizeInProgress
       THEN implicitProducerHashResizeInProgress' = TRUE /\ Goto(t, "resize")
       ELSE /\ Goto(t, IF ThreeQuarters(t, loc[t].hash) THEN "wait" ELSE "list")
            /\ UNCHANGED implicitProducerHashResizeInProgress
  /\ UNCHANGED <<hashes, implicitProducerHashCount, loc, prodVars, life>>

\* A table that is three quarters full waits for the thread that resizes it.
Wait(t) ==
  /\ pc[t] = "wait"
  /\ Local(t, [loc[t] EXCEPT !.hash = Main])
  /\ Goto(t, "full")
  /\ UNCHANGED <<tableVars, prodVars, life>>

\* Doubled until the count is below half of it: once, or while the count was not
\* below half of what is doubled.
NewCapacities(n, count) ==
  {m \in n .. 4 * (count + 1) :
     /\ \E k \in 1 .. (count + 1) : m = n * 2^k
     /\ count < m \div 2
     /\ m = 2 * n \/ count >= (m \div 2) \div 2}

\* Under the flag: the current table may have been replaced meanwhile.
Resize(t) ==
  /\ pc[t] = "resize"
  /\ \/ /\ HalfFull(t, Main)
        /\ \E n \in NewCapacities(capacity(Main), loc[t].count) :
             hashes' = Append(hashes, EmptyHash(n))
     \/ ~HalfFull(t, Main) /\ UNCHANGED hashes
  /\ Local(t, [loc[t] EXCEPT !.hash = Len(hashes')])
  /\ Goto(t, "unlock")
  /\ UNCHANGED <<implicitProducerHashCount, implicitProducerHashResizeInProgress, prodVars, life>>

Unlock(t) ==
  /\ pc[t] = "unlock"
  /\ implicitProducerHashResizeInProgress' = FALSE
  /\ Goto(t, IF ThreeQuarters(t, loc[t].hash) THEN "wait" ELSE "list")
  /\ UNCHANGED <<hashes, implicitProducerHashCount, loc, prodVars, life>>

\* No memory: the slot is counted out again, and enqueue returns false.
ResizeFails(t) ==
  /\ pc[t] = "resize" /\ AllocFails
  /\ HalfFull(t, Main)
  /\ AddToCount(-1)
  /\ Goto(t, "fail")
  /\ UNCHANGED <<hashes, implicitProducerHashResizeInProgress, loc, prodVars, life>>

FailsLocked(t) ==
  /\ pc[t] = "fail"
  /\ GivesUp(t)
  /\ UNCHANGED <<tableVars, prodVars, life>>

UnlockFailed(t) ==
  /\ pc[t] = "fail"
  /\ implicitProducerHashResizeInProgress' = FALSE
  /\ GivesUp(t)
  /\ UNCHANGED <<hashes, implicitProducerHashCount, prodVars, life>>

\* recycle_or_create_producer, from the producer added last to the first.
LoadList(t) ==
  /\ pc[t] = "list"
  /\ Local(t, [loc[t] EXCEPT !.at = Len(producers)])
  /\ Goto(t, "scan")
  /\ UNCHANGED <<tableVars, prodVars, life>>

\* One whose thread has ended is taken over, with the tasks still in it.
Recycle(t) ==
  /\ pc[t] = "scan" /\ loc[t].at > 0
  /\ IF producers[loc[t].at].inactive
       THEN /\ producers' = [producers EXCEPT ![loc[t].at] = [inactive |-> FALSE]]
            /\ Local(t, [loc[t] EXCEPT !.producer = loc[t].at, !.at = 0])
            /\ Goto(t, "subscribe")
       ELSE /\ Local(t, [loc[t] EXCEPT !.at = @ - 1])
            /\ UNCHANGED <<producers, pc>>
  /\ UNCHANGED <<tableVars, listener, life>>

\* create and add_producer
AddProducer(t) ==
  /\ pc[t] = "scan" /\ loc[t].at = 0
  /\ producers' = Append(producers, [inactive |-> FALSE])
  /\ Local(t, [loc[t] EXCEPT !.producer = Len(producers) + 1])
  /\ Goto(t, "subscribe")
  /\ UNCHANGED <<tableVars, listener, life>>

CreateFails(t) ==
  /\ pc[t] = "scan" /\ loc[t].at = 0 /\ AllocFails
  /\ AddToCount(-1)
  /\ GivesUp(t)
  /\ UNCHANGED <<hashes, implicitProducerHashResizeInProgress, prodVars, life>>

\* ThreadExitNotifier holds its mutex while it calls the listeners of a thread.
MutexFree == \A t \in Threads : pc[t] \notin {"exit", "next"}

Subscribe(t) ==
  /\ pc[t] = "subscribe"
  /\ MutexFree
  /\ listener' = [listener EXCEPT ![t] = loc[t].producer]
  /\ Goto(t, "insert")
  /\ UNCHANGED <<tableVars, producers, loc, life>>

\* The compare_exchanges on one slot.
Insert(t) ==
  /\ pc[t] = "insert"
  /\ \/ /\ KeyThere(t) \in Available
        /\ Occupies(t)
        /\ Goto(t, IF KeyThere(t) = ReusableId THEN "uncount" ELSE "enqueue")
        /\ UNCHANGED loc
     \/ KeyThere(t) \notin Available /\ NextSlot(t)
  /\ UNCHANGED <<implicitProducerHashCount, implicitProducerHashResizeInProgress, prodVars, life>>

\* A slot taken over was counted before.
Uncount(t) ==
  /\ pc[t] = "uncount"
  /\ AddToCount(-1)
  /\ Goto(t, "enqueue")
  /\ UNCHANGED <<hashes, implicitProducerHashResizeInProgress, prodVars, loc, life>>

-----------------------------------------------------------------------------
(***************************************************************************)
(* A thread ends: ~ThreadExitNotifier calls implicit_producer_thread_exited*)
(* for the producer it has.  A new thread may then get the same id.        *)
(***************************************************************************)

Exit(t) ==
  /\ pc[t] = "idle"
  /\ life[t] < MaxExits[t]
  /\ listener[t] # NoProducer
  /\ MutexFree
  /\ Goto(t, "exit")
  /\ Local(t, [NoLocals EXCEPT !.hash = Main, !.producer = listener[t]])
  /\ UNCHANGED <<tableVars, prodVars, life>>

UnhashCurrentOnly(t) ==
  /\ pc[t] = "exit" /\ loc[t].hash > 0
  /\ hashes' = [hashes EXCEPT ![Main].keys =
                 [i \in DOMAIN @ |-> IF i \in FoundAt(Main, t) THEN ReusableId ELSE @[i]]]
  /\ Local(t, [loc[t] EXCEPT !.hash = 0])
  /\ UNCHANGED <<implicitProducerHashCount, implicitProducerHashResizeInProgress, prodVars, pc, life>>

\* One table after the other, from the current one to the first.
Unhash(t) ==
  /\ pc[t] = "exit" /\ loc[t].hash > 0
  /\ SearchEnds(loc[t].hash, t)
  /\ hashes' = [hashes EXCEPT ![loc[t].hash].keys =
                 [i \in DOMAIN @ |-> IF i \in FoundAt(loc[t].hash, t) THEN ReusableId ELSE @[i]]]
  /\ Local(t, [loc[t] EXCEPT !.hash = @ - 1])
  /\ UNCHANGED <<implicitProducerHashCount, implicitProducerHashResizeInProgress, prodVars, pc, life>>

Deactivate(t) ==
  /\ pc[t] = "exit" /\ loc[t].hash = 0
  /\ producers' = [producers EXCEPT ![loc[t].producer] = [inactive |-> TRUE]]
  /\ listener' = [listener EXCEPT ![t] = NoProducer]
  /\ Goto(t, "next")
  /\ UNCHANGED <<tableVars, loc, life>>

\* ptr = ptr->next: the notifier goes on to the other queues the thread posted
\* to, reading a member of the producer it has just marked inactive.
NextListener(t) ==
  /\ pc[t] = "next"
  /\ life' = [life EXCEPT ![t] = @ + 1]
  /\ GivesUp(t)
  /\ UNCHANGED <<tableVars, prodVars>>

-----------------------------------------------------------------------------
\* The steps of a call that has begun, and those of a thread that ends.
TableStep(t) ==
  \/ Move(t) \/ CountIn(t) \/ TestAndSet(t) \/ Wait(t)
  \/ Resize(t) \/ Unlock(t) \/ ResizeFails(t) \/ UnlockFailed(t)
  \/ LoadList(t) \/ Recycle(t) \/ AddProducer(t) \/ CreateFails(t)
  \/ Subscribe(t) \/ Insert(t) \/ Uncount(t)
  \/ Unhash(t) \/ Deactivate(t) \/ NextListener(t)
=============================================================================
