----------------------------- MODULE PostQueue -----------------------------
(***************************************************************************)
(* NetLoop::post and the drain at the top of NetLoop::run                  *)
(* (src/src/epoll/Epoll.cpp): any thread posts tasks, each to its own      *)
(* stream (module ProducerTable; the inside of a stream is module          *)
(* SubQueue, with one thread that dequeues it promises what TaskStream     *)
(* says: a sequence), and the thread of the loop runs them until           *)
(* try_dequeue finds none, then waits for events.                          *)
(*                                                                         *)
(* Tasks of the loop's thread, and the callbacks it runs, may post.        *)
(***************************************************************************)
EXTENDS ProducerTable

CONSTANTS
  L,           \* the thread that calls run
  MaxPosts     \* bound: calls of post by the threads of each id, one of these

ASSUME PostAssumption == L \in Threads /\ MaxPosts \subseteq [Threads -> Nat]

VARIABLES
  posts,    \* of an id: calls of post so far
  queue,    \* of a producer: its tasks
  loop,     \* where the thread of the loop is
  scan,     \* the local variables of try_dequeue
  seen,     \* auxiliary: there was a task when try_dequeue was called
  ran       \* auxiliary: of a thread, its last task that ran

loopVars == <<loop, scan, seen>>
vars     == <<threadVars, posts, queue, loopVars, ran>>

NoScan == [at |-> 0, nonEmptyCount |-> 0, best |-> NoProducer, bestSize |-> 0]

Init ==
  /\ TableInit
  /\ posts = [t \in Threads |-> 0]
  /\ queue = <<>>
  /\ loop = "away" /\ scan = NoScan /\ seen = FALSE
  /\ ran = [t \in Threads |-> [l \in 0 .. MaxExits[t] |-> 0]]

-----------------------------------------------------------------------------
(***************************************************************************)
(* post: the task is allocated and enqueued; the result of enqueue is not  *)
(* looked at.                                                              *)
(***************************************************************************)

MayPost(t) == IF t = L THEN loop \in {"away", "task"} ELSE loop \notin {"dying", "gone"}

\* The task is known by its poster and its number; what it calls is abstracted.
Task(t) == <<t, life[t], posts[t]>>

Post(t) ==
  /\ MayPost(t)
  /\ posts' = [posts EXCEPT ![t] = @ + 1]
  /\ \E bound \in MaxPosts : \A u \in Threads : posts'[u] <= bound[u]
  /\ LookUp(t)
  /\ UNCHANGED <<queue, loopVars, ran>>

Enqueue(t) ==
  /\ pc[t] = "enqueue"
  /\ queue' = [queue EXCEPT ![loc[t].producer] = Append(@, Task(t))]
  /\ GivesUp(t)
  /\ UNCHANGED <<tableVars, prodVars, life, posts, loopVars, ran>>

EnqueueFails(t) ==
  /\ pc[t] = "enqueue" /\ AllocFails
  /\ GivesUp(t)
  /\ UNCHANGED <<tableVars, prodVars, life, posts, queue, loopVars, ran>>

\* A producer that is added has an empty stream.
InTable(t) ==
  /\ TableStep(t)
  /\ queue' = IF Len(producers') > Len(queue) THEN Append(queue, <<>>) ELSE queue
  /\ UNCHANGED <<posts, loopVars, ran>>

ThreadEnds(t) ==
  /\ t # L
  /\ Exit(t)
  /\ UNCHANGED <<posts, queue, loopVars, ran>>

-----------------------------------------------------------------------------
(***************************************************************************)
(* run and try_dequeue.                                                    *)
(***************************************************************************)

\* for (ptr = producerListTail; nonEmptyCount < 3 && ptr != nullptr; ...), then
\* the best one; without a task run goes on to epoll_wait.
ScanFrom(s) ==
  IF s.at > 0 /\ s.nonEmptyCount < 3 THEN loop' = "score" /\ scan' = s
  ELSE IF s.nonEmptyCount > 0        THEN loop' = "best"  /\ scan' = [NoScan EXCEPT !.best = s.best]
                                     ELSE loop' = "wait"  /\ scan' = NoScan

TryDequeueFromNext ==
  /\ loop \in {"away", "task"} /\ pc[L] = "idle"
  /\ ScanFrom([NoScan EXCEPT !.at = IF producers = <<>> THEN 0 ELSE Len(producers) - 1])
  /\ seen' = \E p \in DOMAIN queue : queue[p] # <<>>
  /\ UNCHANGED <<threadVars, posts, queue, ran>>

\* run begins, or a task has returned and is deleted.
TryDequeue ==
  /\ loop \in {"away", "task"} /\ pc[L] = "idle"
  /\ ScanFrom([NoScan EXCEPT !.at = Len(producers)])
  /\ seen' = \E p \in DOMAIN queue : queue[p] # <<>>
  /\ UNCHANGED <<threadVars, posts, queue, ran>>

ScoreMoreThanOne ==
  /\ loop = "score"
  /\ LET size == Len(queue[scan.at])
         s    == [scan EXCEPT !.at = @ - 1]
     IN  ScanFrom(IF size <= 1 THEN s ELSE
           [s EXCEPT !.nonEmptyCount = @ + 1,
                     !.best     = IF size > scan.bestSize THEN scan.at ELSE @,
                     !.bestSize = IF size > scan.bestSize THEN size ELSE @])
  /\ UNCHANGED <<threadVars, posts, queue, seen, ran>>

\* size_approx of one producer
Score ==
  /\ loop = "score"
  /\ LET size == Len(queue[scan.at])
         s    == [scan EXCEPT !.at = @ - 1]
     IN  ScanFrom(IF size = 0 THEN s ELSE
           [s EXCEPT !.nonEmptyCount = @ + 1,
                     !.best     = IF size > scan.bestSize THEN scan.at ELSE @,
                     !.bestSize = IF size > scan.bestSize THEN size ELSE @])
  /\ UNCHANGED <<threadVars, posts, queue, seen, ran>>

\* task->call()
Calls(task) == ran' = [ran EXCEPT ![task[1]][task[2]] = task[3]]

\* best->dequeue finds a task (DrainedBeforeWait: the second pass of try_dequeue is
\* never reached by the only thread that dequeues), and run calls it.
Dequeue ==
  /\ loop = "best"
  /\ Calls(Head(queue[scan.best]))
  /\ queue' = [queue EXCEPT ![scan.best] = Tail(@)]
  /\ loop' = "task" /\ scan' = NoScan
  /\ UNCHANGED <<threadVars, posts, seen>>

\* epoll_wait returns, with events or at its timeout; posts do not wake it.
Wakes ==
  /\ loop = "wait"
  /\ loop' = "away"
  /\ UNCHANGED <<threadVars, posts, queue, scan, seen, ran>>

-----------------------------------------------------------------------------
(***************************************************************************)
(* The loop is destroyed when no thread is in post or run (the queue asks  *)
(* its user for that); threads that posted may be ending.  Tasks still     *)
(* queued are neither run nor deleted.                                     *)
(***************************************************************************)

\* ~ConcurrentQueue, from the producer added last to the first; scan.at is the
\* one to destroy next.
Destroy ==
  /\ loop = "away"
  /\ \A t \in Threads : pc[t] \in {"idle", "exit", "next"}
  /\ producers # <<>>
  /\ loop' = "dying" /\ scan' = [NoScan EXCEPT !.at = Len(producers)]
  /\ UNCHANGED <<threadVars, posts, queue, seen, ran>>

Destroyed == LET at == scan.at - 1 IN
  /\ loop' = IF at = 0 THEN "gone" ELSE "dying"
  /\ scan' = [NoScan EXCEPT !.at = at]

DestroySubscribed ==
  /\ loop = "dying" /\ scan.best = NoProducer
  /\ Destroyed
  /\ UNCHANGED <<threadVars, posts, queue, seen, ran>>

\* ~ImplicitProducer reads inactive, and unsubscribes under the mutex of
\* ThreadExitNotifier unless it was set.
DestroyInactive ==
  /\ loop = "dying" /\ scan.best = NoProducer
  /\ IF producers[scan.at].inactive
       THEN Destroyed
       ELSE scan' = [scan EXCEPT !.best = scan.at] /\ UNCHANGED loop
  /\ UNCHANGED <<threadVars, posts, queue, seen, ran>>

DestroyActive ==
  /\ loop = "dying" /\ scan.best # NoProducer
  /\ MutexFree
  /\ listener' = [t \in Threads |-> IF listener[t] = scan.at THEN NoProducer ELSE listener[t]]
  /\ Destroyed
  /\ UNCHANGED <<tableVars, producers, pc, loc, life, posts, queue, seen, ran>>

-----------------------------------------------------------------------------
CallStep(t) == InTable(t) \/ Enqueue(t) \/ EnqueueFails(t)
LoopStep    == TryDequeue \/ Score \/ Dequeue \/ Wakes

Next ==
  \/ \E t \in Threads : Post(t) \/ CallStep(t) \/ ThreadEnds(t)
  \/ LoopStep
  \/ Destroy \/ DestroyInactive \/ DestroyActive

Spec == Init /\ [][Next]_vars

\* Every thread goes on with the call it is in, or with its end, and run is
\* called again and again with a timeout: epoll_wait returns.
FairSpec ==
  /\ Spec
  /\ \A t \in Threads : WF_vars(CallStep(t))
  /\ WF_vars(LoopStep)
  /\ WF_vars(DestroyInactive \/ DestroyActive)

-----------------------------------------------------------------------------
\* No two threads are in enqueue of the same stream, which allows one only:
\* also when one has taken it over from a thread that ended.
StreamsDisjoint == \A t, u \in Threads :
  t # u /\ pc[t] = "enqueue" /\ pc[u] = "enqueue" => loc[t].producer # loc[u].producer

\* The producer an id leads to, in whichever table, is the one that hears of
\* the thread's end, and is active: nothing is left of an earlier thread.
IdFindsStream == \A t \in Threads :
  pc[t] \in {"idle", "move", "enqueue"} /\ loop \notin {"dying", "gone"} =>
    /\ \A h \in FoundIn(t) : \A i \in FoundAt(h, t) :
         hashes[h].values[i] = listener[t] /\ ~producers[listener[t]].inactive
    /\ listener[t] # NoProducer => FoundIn(t) # {}

\* A post finds its own stream, and nobody else enqueues in it.
OwnStream == StreamsDisjoint /\ IdFindsStream

\* implicitProducerHashCount covers the used slots of every table, so that the ids
\* that move into the current one find room ("guaranteed to be room in the current
\* hash table", :3419) and a search ends at a free slot (:3412).
UsedSlots(h) == {i \in DOMAIN hashes[h].keys : hashes[h].keys[i] # InvalidId}

SlotsCounted == \A h \in 1 .. Main : Cardinality(UsedSlots(h)) <= implicitProducerHashCount

\* try_dequeue takes a task from the stream it scored best, and returns false
\* only if there was none when it was called: run does not wait for events over
\* a task that was posted before its last look (:1121).
DrainedBeforeWait ==
  /\ loop = "best" => scan.best # NoProducer /\ queue[scan.best] # <<>>
  /\ loop = "wait" => ~seen

\* The tasks of one thread run in the order it posted them, none twice, however
\* the tables grew between its posts.
OrderKept ==
  [][loop = "best" /\ loop' = "task" =>
       \E t \in Threads : \E l \in 0 .. MaxExits[t] : ran'[t][l] > ran[t][l]]_vars

\* No thread that ends calls into a queue that is destroyed, or has its end
\* reported to a producer that is.  (What it reads of the producer after the
\* call, at "next", is not covered: the producer may be destroyed by then.)
NoCallbackAfterDestroy ==
  \A t \in Threads : listener[t] # NoProducer =>
    loop # "gone" /\ (loop = "dying" => listener[t] <= scan.at)

\* Calls of post (finitely many here) all return: nobody waits for a table that
\* nobody replaces, or spins, and the mutex of a thread that ends is given back.
PostReturns == <>[](\A t \in Threads : pc[t] = "idle")

\* Once posting stops every stream is drained, whatever its place in the list
\* and its size, unless the loop is destroyed.
TaskRuns == <>[](loop \in {"dying", "gone"} \/ \A p \in DOMAIN queue : queue[p] = <<>>)
=============================================================================
