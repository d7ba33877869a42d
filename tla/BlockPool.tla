----------------------------- MODULE BlockPool -----------------------------
(***************************************************************************)
(* Where the queue of posted tasks (src/src/concurrentqueue.h) gets its    *)
(* blocks from and gives them back to: the array allocated by the          *)
(* constructor, the lock-free list of blocks of that array that came back, *)
(* and the heap.  Each step of a thread is one access to a shared atomic;  *)
(* steps of different threads interleave (sequential consistency; the      *)
(* memory orders of the code are not modelled).                            *)
(*                                                                         *)
(* Blocks are numbers: those of the array come first.  list is the free    *)
(* list as a sequence, an auxiliary variable: the code has only            *)
(* freeListHead and freeListNext, and ListOK relates the two.              *)
(***************************************************************************)
EXTENDS Integers, Sequences, FiniteSets

CONSTANTS
  Threads,
  Posters,     \* the threads that enqueue, and so ask for blocks
  Dequeuers,   \* the threads that dequeue, and so give blocks back: those that run the loop
  initialBlockPoolSize,
  MaxHeap      \* bound: blocks the heap can give

ASSUME PoolAssumption ==
  /\ IsFiniteSet(Threads)
  /\ Posters \subseteq Threads /\ Dequeuers \subseteq Threads
  /\ initialBlockPoolSize \in Nat
  /\ MaxHeap \in Nat

InitialPool == 0 .. (initialBlockPoolSize - 1)
Heap        == initialBlockPoolSize .. (initialBlockPoolSize + MaxHeap - 1)
Blocks      == 0 .. (initialBlockPoolSize + MaxHeap - 1)
nullptr     == -1
Pointers    == Blocks \cup {nullptr}

VARIABLES
  initialBlockPoolIndex,
  heap,            \* the blocks the heap still has
  used,            \* the blocks the sub-queues have
  freeListHead,
  freeListNext,    \* of a block
  freeListRefs,    \* of a block: bit 31 (SHOULD_BE_ON_FREELIST) and the count below it
  list,
  pc,
  loc              \* the local variables of a thread

poolVars == <<initialBlockPoolIndex, heap, used>>
listVars == <<freeListHead, freeListNext, freeListRefs, list>>
vars     == <<poolVars, listVars, pc, loc>>

Refs == [should : BOOLEAN, count : Nat]
Zero == [should |-> FALSE, count |-> 0]
One  == [should |-> FALSE, count |-> 1]

\* head, refs and next of try_get; node is its prevHead, or the block that is
\* being added; top is head of add_knowing_refcount_is_zero; getting tells
\* whether that call is inside try_get.
Locals == [head : Pointers, refs : Refs, next : Pointers,
           node : Pointers, top : Pointers, getting : BOOLEAN]

NoLocals == [head |-> nullptr, refs |-> Zero, next |-> nullptr,
             node |-> nullptr, top |-> nullptr, getting |-> FALSE]

GetSteps == {"pool", "bump", "head", "refs", "grab", "next", "take", "drop", "unref", "create"}
AddSteps == {"load", "link", "count", "push", "again"}
Steps    == {"idle"} \cup GetSteps \cup AddSteps

Init ==
  /\ initialBlockPoolIndex = 0
  /\ heap = Heap
  /\ used = {}
  /\ freeListHead = nullptr
  /\ freeListNext = [b \in Blocks |-> nullptr]
  /\ freeListRefs = [b \in Blocks |-> Zero]
  /\ list = <<>>
  /\ pc = [t \in Threads |-> "idle"]
  /\ loc = [t \in Threads |-> NoLocals]

-----------------------------------------------------------------------------
Goto(t, step) == pc' = [pc EXCEPT ![t] = step]

\* A call ends: its locals are gone.
Returns(t) == Goto(t, "idle") /\ loc' = [loc EXCEPT ![t] = NoLocals]

Local(t, l) == loc' = [loc EXCEPT ![t] = l]

SetRefs(b, r) == freeListRefs' = [freeListRefs EXCEPT ![b] = r]

\* head = freeListHead.load(); continue
Reload(t) == Goto(t, "head") /\ Local(t, NoLocals)

\* while (head != nullptr) of try_get; after it, requisition_block allocates.
Loop(t, l) ==
  IF l.head = nullptr THEN Goto(t, "create") /\ Local(t, NoLocals)
                      ELSE Goto(t, "refs") /\ Local(t, l)

-----------------------------------------------------------------------------
(***************************************************************************)
(* requisition_block and try_get_block_from_initial_pool.                  *)
(***************************************************************************)

Requisition(t) ==
  /\ pc[t] = "idle"
  /\ Goto(t, "pool")
  /\ UNCHANGED <<poolVars, listVars, loc>>

PoolHasMore(t) ==
  /\ pc[t] = "pool"
  /\ Goto(t, IF initialBlockPoolIndex >= initialBlockPoolSize THEN "head" ELSE "bump")
  /\ UNCHANGED <<poolVars, listVars, loc>>

\* Two threads may both have seen the last block; one finds the pool exhausted.
TakeFromPool(t) ==
  /\ pc[t] = "bump"
  /\ initialBlockPoolIndex' = initialBlockPoolIndex + 1
  /\ IF initialBlockPoolIndex < initialBlockPoolSize
       THEN used' = used \cup {initialBlockPoolIndex} /\ Returns(t)
       ELSE UNCHANGED <<used, loc>> /\ Goto(t, "head")
  /\ UNCHANGED <<heap, listVars>>

\* create<Block>(), which may fail.  The address may have been used before.
Create(t) ==
  /\ pc[t] = "create"
  /\ \/ \E b \in heap :
          /\ heap' = heap \ {b}
          /\ used' = used \cup {b}
          /\ SetRefs(b, Zero)
          /\ freeListNext' = [freeListNext EXCEPT ![b] = nullptr]
     \/ UNCHANGED <<heap, used, freeListRefs, freeListNext>>
  /\ Returns(t)
  /\ UNCHANGED <<initialBlockPoolIndex, freeListHead, list>>

-----------------------------------------------------------------------------
(***************************************************************************)
(* FreeList::try_get.                                                      *)
(***************************************************************************)

LoadHead(t) ==
  /\ pc[t] = "head"
  /\ Loop(t, [loc[t] EXCEPT !.head = freeListHead])
  /\ UNCHANGED <<poolVars, listVars>>

\* (The operators named for a mistake are what the code would be with it.)
LoadRefsAgain(t) ==
  /\ pc[t] = "refs"
  /\ LET b == loc[t].head
         r == freeListRefs[b]
     IN  /\ r.count # 0
         /\ Goto(t, "grab")
         /\ Local(t, [NoLocals EXCEPT !.head = b, !.node = b, !.refs = r])
  /\ UNCHANGED <<poolVars, listVars>>

LoadRefs(t) ==
  /\ pc[t] = "refs"
  /\ LET b == loc[t].head
         r == freeListRefs[b]
     IN  IF r.count = 0
           THEN Reload(t)
           ELSE Goto(t, "grab") /\ Local(t, [NoLocals EXCEPT !.head = b, !.node = b, !.refs = r])
  /\ UNCHANGED <<poolVars, listVars>>

GrabUnchecked(t) ==
  /\ pc[t] = "grab"
  /\ LET b == loc[t].head IN SetRefs(b, [loc[t].refs EXCEPT !.count = @ + 1])
  /\ Goto(t, "next")
  /\ Local(t, [loc[t] EXCEPT !.refs = Zero])
  /\ UNCHANGED <<poolVars, freeListHead, freeListNext, list>>

\* The compare_exchange of refs with refs + 1.
Grab(t) ==
  /\ pc[t] = "grab"
  /\ LET b == loc[t].head
         r == loc[t].refs
     IN  IF freeListRefs[b] = r
           THEN /\ SetRefs(b, [r EXCEPT !.count = @ + 1])
                /\ Goto(t, "next")
                /\ Local(t, [loc[t] EXCEPT !.refs = Zero])
           ELSE Reload(t) /\ UNCHANGED freeListRefs
  /\ UNCHANGED <<poolVars, freeListHead, freeListNext, list>>

LoadNext(t) ==
  /\ pc[t] = "next"
  /\ Local(t, [loc[t] EXCEPT !.next = freeListNext[loc[t].head]])
  /\ Goto(t, "take")
  /\ UNCHANGED <<poolVars, listVars>>

\* The compare_exchange of freeListHead; on failure head is what it found there.
Take(t) ==
  /\ pc[t] = "take"
  /\ IF freeListHead = loc[t].head
       THEN /\ freeListHead' = loc[t].next
            /\ list' = Tail(list)
            /\ Goto(t, "drop")
            /\ UNCHANGED loc
       ELSE /\ Goto(t, "unref")
            /\ Local(t, [loc[t] EXCEPT !.head = freeListHead, !.next = nullptr])
            /\ UNCHANGED <<freeListHead, list>>
  /\ UNCHANGED <<poolVars, freeListNext, freeListRefs>>

\* fetch_sub(2): our reference and the list's.
Drop(t) ==
  /\ pc[t] = "drop"
  /\ LET b == loc[t].head IN
       /\ SetRefs(b, [freeListRefs[b] EXCEPT !.count = @ - 2])
       /\ used' = used \cup {b}
  /\ Returns(t)
  /\ UNCHANGED <<initialBlockPoolIndex, heap, freeListHead, freeListNext, list>>

\* fetch_sub(1) on prevHead; the last one to let go of a block that is to be
\* on the list adds it.
LastToLetGo(r) == r = [should |-> TRUE, count |-> 1]

UnrefTwo(t) ==
  /\ pc[t] = "unref"
  /\ LET b == loc[t].node
         r == freeListRefs[b]
     IN  /\ SetRefs(b, [r EXCEPT !.count = @ - 2])
         /\ IF LastToLetGo(r)
              THEN Goto(t, "load") /\ Local(t, [loc[t] EXCEPT !.getting = TRUE])
              ELSE Loop(t, loc[t])
  /\ UNCHANGED <<poolVars, freeListHead, freeListNext, list>>

Unref(t) ==
  /\ pc[t] = "unref"
  /\ LET b == loc[t].node
         r == freeListRefs[b]
     IN  /\ SetRefs(b, [r EXCEPT !.count = @ - 1])
         /\ IF LastToLetGo(r)
              THEN Goto(t, "load") /\ Local(t, [loc[t] EXCEPT !.getting = TRUE])
              ELSE Loop(t, loc[t])
  /\ UNCHANGED <<poolVars, freeListHead, freeListNext, list>>

-----------------------------------------------------------------------------
(***************************************************************************)
(* add_block_to_free_list and FreeList::add: a block of the array goes to  *)
(* the list, one of the heap back there (RECYCLE_ALLOCATED_BLOCKS is       *)
(* false).  fetch_add(SHOULD_BE_ON_FREELIST) flips bit 31.                 *)
(***************************************************************************)

dynamicallyAllocated(b) == b \in Heap

Destroy(b) ==
  /\ dynamicallyAllocated(b)
  /\ heap' = heap \cup {b}
  /\ used' = used \ {b}
  /\ UNCHANGED <<initialBlockPoolIndex, listVars, pc, loc>>

AddReferenced(t, b) ==
  /\ pc[t] = "idle"
  /\ ~dynamicallyAllocated(b)
  /\ used' = used \ {b}
  /\ SetRefs(b, [freeListRefs[b] EXCEPT !.should = ~@])
  /\ Goto(t, "load") /\ Local(t, [NoLocals EXCEPT !.node = b])
  /\ UNCHANGED <<initialBlockPoolIndex, heap, freeListHead, freeListNext, list>>

Add(t, b) ==
  /\ pc[t] = "idle"
  /\ ~dynamicallyAllocated(b)
  /\ used' = used \ {b}
  /\ SetRefs(b, [freeListRefs[b] EXCEPT !.should = ~@])
  /\ IF freeListRefs[b] = Zero
       THEN Goto(t, "load") /\ Local(t, [NoLocals EXCEPT !.node = b])
       ELSE UNCHANGED <<pc, loc>>
  /\ UNCHANGED <<initialBlockPoolIndex, heap, freeListHead, freeListNext, list>>

AddBlockToFreeList(t) ==
  \E b \in used : (pc[t] = "idle" /\ Destroy(b)) \/ Add(t, b)

-----------------------------------------------------------------------------
(***************************************************************************)
(* add_knowing_refcount_is_zero.                                           *)
(***************************************************************************)

\* The call returns, into the loop of try_get if it was made there.
Added(t) ==
  IF loc[t].getting THEN Loop(t, [loc[t] EXCEPT !.getting = FALSE]) ELSE Returns(t)

LoadTop(t) ==
  /\ pc[t] = "load"
  /\ Local(t, [loc[t] EXCEPT !.top = freeListHead])
  /\ Goto(t, "link")
  /\ UNCHANGED <<poolVars, listVars>>

StoreNext(t) ==
  /\ pc[t] = "link"
  /\ freeListNext' = [freeListNext EXCEPT ![loc[t].node] = loc[t].top]
  /\ Goto(t, "count")
  /\ UNCHANGED <<poolVars, freeListHead, freeListRefs, list, loc>>

StoreRefs(t) ==
  /\ pc[t] = "count"
  /\ SetRefs(loc[t].node, One)
  /\ Goto(t, "push")
  /\ UNCHANGED <<poolVars, freeListHead, freeListNext, list, loc>>

\* The compare_exchange of freeListHead; on failure top is what it found there.
Push(t) ==
  /\ pc[t] = "push"
  /\ IF freeListHead = loc[t].top
       THEN /\ freeListHead' = loc[t].node
            /\ list' = <<loc[t].node>> \o list
            /\ Added(t)
       ELSE /\ Local(t, [loc[t] EXCEPT !.top = freeListHead])
            /\ Goto(t, "again")
            /\ UNCHANGED <<freeListHead, list>>
  /\ UNCHANGED <<poolVars, freeListNext, freeListRefs>>

\* fetch_add(SHOULD_BE_ON_FREELIST - 1): give our count back and set the bit.
\* Others may have taken a reference; then one of them goes on.
Again(t) ==
  /\ pc[t] = "again"
  /\ LET b == loc[t].node
         r == freeListRefs[b]
     IN  /\ SetRefs(b, [should |-> ~r.should, count |-> r.count - 1])
         /\ IF r = One
              THEN Goto(t, "link") /\ UNCHANGED loc
              ELSE Added(t)
  /\ UNCHANGED <<poolVars, freeListHead, freeListNext, list>>

-----------------------------------------------------------------------------
Begins(t) == (t \in Posters /\ Requisition(t)) \/ (t \in Dequeuers /\ AddBlockToFreeList(t))

Goes(t) ==
  \/ PoolHasMore(t) \/ TakeFromPool(t) \/ Create(t)
  \/ LoadHead(t) \/ LoadRefs(t) \/ Grab(t) \/ LoadNext(t)
  \/ Take(t) \/ Drop(t) \/ Unref(t)
  \/ LoadTop(t) \/ StoreNext(t) \/ StoreRefs(t) \/ Push(t) \/ Again(t)

Next == \E t \in Threads : Begins(t) \/ Goes(t)

Spec == Init /\ [][Next]_vars

\* Threads go on with the calls they have begun; none has to begin one.
FairSpec == Spec /\ \A t \in Threads : WF_vars(Goes(t))

-----------------------------------------------------------------------------
\* Every variable has its type; a count is never subtracted below zero, which
\* would borrow from bit 31.
TypeOK ==
  /\ initialBlockPoolIndex \in Nat
  /\ heap \subseteq Heap
  /\ used \subseteq Blocks
  /\ freeListHead \in Pointers
  /\ freeListNext \in [Blocks -> Pointers]
  /\ freeListRefs \in [Blocks -> Refs]
  /\ list \in Seq(Blocks)
  /\ pc \in [Threads -> Steps]
  /\ loc \in [Threads -> Locals]

Listed == {list[i] : i \in 1 .. Len(list)}

\* freeListHead and freeListNext are the sequence: a stack without a cycle.
ListOK ==
  /\ freeListHead = IF list = <<>> THEN nullptr ELSE list[1]
  /\ \A i \in 1 .. Len(list) :
       freeListNext[list[i]] = IF i = Len(list) THEN nullptr ELSE list[i + 1]
  /\ \A i, j \in 1 .. Len(list) : list[i] = list[j] => i = j

\* The threads that have a reference to b and let go of it by themselves, those
\* that have taken it off the list, and those that are adding it: before they
\* have made it accessible, and after.
Holders(b) == {t \in Threads : pc[t] \in {"next", "take", "unref"} /\ loc[t].node = b}
Takers(b)  == {t \in Threads : pc[t] = "drop" /\ loc[t].head = b}
Linkers(b) == {t \in Threads : pc[t] \in {"load", "link", "count"} /\ loc[t].node = b}
Pushers(b) == {t \in Threads : pc[t] \in {"push", "again"} /\ loc[t].node = b}

New(b)    == b \in heap \/ (b \in InitialPool /\ initialBlockPoolIndex <= b)
Marked(b) == freeListRefs[b].should /\ freeListRefs[b].count > 0

Bit(p) == IF p THEN 1 ELSE 0

\* No block is lost and none is handed out, added or taken twice: it is not
\* handed out yet, with a sub-queue, on the list, on its way there or from there,
\* or marked to be added by the last thread to let go of it.  The last implies
\* the assert at :1493, that a block taken off the list is not marked.
OnePlace ==
  \A b \in Blocks :
    Bit(New(b)) + Bit(b \in used) + Bit(b \in Listed) + Cardinality(Linkers(b))
      + Cardinality(Pushers(b)) + Cardinality(Takers(b)) + Bit(Marked(b)) = 1

\* A count is exact: a reference for each thread that holds one, one for the list
\* or the thread that pushes onto it, and two (its own and the list's) for a
\* thread that has taken the block off.
RefsExact ==
  \A b \in Blocks :
    freeListRefs[b].count = Cardinality(Holders(b)) + Bit(b \in Listed)
                              + Cardinality(Pushers(b)) + 2 * Cardinality(Takers(b))

\* The lock-free list is a list, whatever happened between the reads of a thread
\* and its compare_exchange: the counts keep a block that somebody still looks
\* at from coming back to the head with another next (:1446, the ABA problem).
FreeListSound == ListOK /\ RefsExact

\* Calls that go on without new ones beginning all return: no thread repeats its
\* loop for ever over a block whose count is zero or over a head that is stale.
NoLivelock == <>[][\A t \in Threads : ~Begins(t)]_vars => <>[](\A t \in Threads : pc[t] = "idle")
=============================================================================
