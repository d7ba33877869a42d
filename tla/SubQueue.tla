----------------------------- MODULE SubQueue -----------------------------
(***************************************************************************)
(* ImplicitProducer of src/src/concurrentqueue.h: the tasks one thread has *)
(* posted.  That thread enqueues; any number of threads dequeue (jwNet has *)
(* one, the thread in NetLoop::run).  A step is one access to a shared     *)
(* atomic, with the private work next to it; accesses are sequentially     *)
(* consistent, the memory orders of the code are not modelled.             *)
(*                                                                         *)
(* Indexes are natural numbers: index_t has 64 bits, and a wrap would take *)
(* 2^64 posts.  The element enqueued at index i is i itself, so an element *)
(* that is lost, overwritten or read from the wrong slot is seen as such.  *)
(***************************************************************************)
EXTENDS Integers, Sequences, SequencesExt, FiniteSets

CONSTANTS
  Consumers,
  Blocks,      \* the memory for blocks (bound)
  nullptr,
  BLOCK_SIZE,
  IMPLICIT_INITIAL_INDEX_SIZE,
  MaxPosts,    \* bound: elements enqueued
  MaxExcess,   \* bound: attempts that count themselves in, beyond that
  AllocFails   \* malloc may fail

ASSUME SubQueueAssumption ==
  /\ IsFiniteSet(Consumers)
  /\ nullptr \notin Blocks
  /\ BLOCK_SIZE \in Nat \ {0, 1}
  /\ IMPLICIT_INITIAL_INDEX_SIZE \in Nat \ {0, 1}
  /\ MaxPosts \in Nat /\ MaxExcess \in Nat
  /\ AllocFails \in BOOLEAN

VARIABLES
  tailIndex, headIndex, dequeueOptimisticCount, dequeueOvercommit,
  tailBlock,
  blockIndex,   \* the BlockIndexHeaders allocated so far; the last one is current
  entries,      \* the BlockIndexEntries they share
  elements,     \* of a block: a slot holds an element or is raw
  elementsCompletelyDequeued,   \* of a block
  pool,         \* the blocks that are free
  pc, entry,    \* of the poster: where it is, the entry it fills
  cc, loc,      \* of a consumer: where it is, its local variables
  spare,        \* of a consumer, auxiliary: see TaskStream
  freed         \* the blocks the destructor gave back, or NotDestroyed

counters == <<tailIndex, headIndex, dequeueOptimisticCount, dequeueOvercommit>>
memory   == <<elements, elementsCompletelyDequeued, pool>>
index    == <<blockIndex, entries>>
poster   == <<pc, entry, tailBlock>>
vars     == <<counters, memory, index, poster, cc, loc, spare, freed>>

Raw == -1
NotDestroyed == <<nullptr>>
INVALID_BLOCK_BASE == 1   \* as in the code: no block begins at an odd index

Base(i) == i - (i % BLOCK_SIZE)
Slot(i) == i % BLOCK_SIZE

Capacity(h) == Len(h.index)
Header      == blockIndex[Len(blockIndex)]

EmptyEntry == [key |-> INVALID_BLOCK_BASE, value |-> nullptr]
NoLocals   == [tail |-> 0, over |-> 0, my |-> 0, index |-> 0, header |-> 0,
               itail |-> 0, entry |-> 0, block |-> nullptr, got |-> Raw]

\* The constructor; its call of new_block_index may fail.
Init ==
  /\ tailIndex = 0 /\ headIndex = 0
  /\ dequeueOptimisticCount = 0 /\ dequeueOvercommit = 0
  /\ tailBlock = nullptr
  /\ \/ /\ entries = [e \in 1 .. IMPLICIT_INITIAL_INDEX_SIZE |-> EmptyEntry]
        /\ blockIndex = <<[index |-> [i \in 1 .. IMPLICIT_INITIAL_INDEX_SIZE |-> i],
                           tail |-> IMPLICIT_INITIAL_INDEX_SIZE]>>
     \/ AllocFails /\ entries = <<>> /\ blockIndex = <<>>
  /\ elements = [b \in Blocks |-> [i \in 0 .. (BLOCK_SIZE - 1) |-> Raw]]
  /\ elementsCompletelyDequeued = [b \in Blocks |-> 0]
  /\ pool = Blocks
  /\ pc = "idle" /\ entry = 0
  /\ cc = [c \in Consumers |-> "idle"]
  /\ loc = [c \in Consumers |-> NoLocals]
  /\ spare = [c \in Consumers |-> 0]
  /\ freed = NotDestroyed

-----------------------------------------------------------------------------
(***************************************************************************)
(* ImplicitProducer::enqueue.                                              *)
(***************************************************************************)

NextPos(h) == (h.tail % Capacity(h)) + 1      \* (tail + 1) & (capacity - 1), from 1
PrevPos(h) == ((h.tail - 2) % Capacity(h)) + 1

Vacant(e) == entries[e].key = INVALID_BLOCK_BASE \/ entries[e].value = nullptr

\* In the middle of a block the element goes into tailBlock; at its end
\* insert_block_index_entry looks for an entry for a new one.
Enqueue ==
  /\ pc = "idle" /\ freed = NotDestroyed
  /\ tailIndex < MaxPosts
  /\ IF tailIndex % BLOCK_SIZE # 0
       THEN pc' = "write" /\ UNCHANGED entry
       ELSE /\ blockIndex # <<>>
            /\ LET e == Header.index[NextPos(Header)] IN
                 IF Vacant(e) THEN pc' = "key" /\ entry' = e
                              ELSE pc' = "grow" /\ UNCHANGED entry
  /\ UNCHANGED <<counters, memory, index, tailBlock, cc, loc, spare, freed>>

\* (The operators named for a mistake are what the code would be with it.)
Unrotated(h) == h.index

\* new_block_index: the old positions from the oldest to the newest, then as
\* many new entries.
Rotated(h) == [i \in 1 .. Capacity(h) |-> h.index[((h.tail + i - 1) % Capacity(h)) + 1]]

NewBlockIndex ==
  /\ pc = "grow"
  /\ LET n == Capacity(Header) IN
       /\ blockIndex' = Append(blockIndex,
            [index |-> Rotated(Header) \o [i \in 1 .. n |-> n + i], tail |-> n])
       /\ entries' = entries \o [i \in 1 .. n |-> EmptyEntry]
       /\ entry' = n + 1
  /\ pc' = "key"
  /\ UNCHANGED <<counters, memory, tailBlock, cc, loc, spare, freed>>

NewBlockIndexFails ==
  /\ pc = "grow" /\ AllocFails
  /\ pc' = "idle"
  /\ UNCHANGED <<counters, memory, index, entry, tailBlock, cc, loc, spare, freed>>

StoreKey ==
  /\ pc = "key"
  /\ entries' = [entries EXCEPT ![entry].key = tailIndex]
  /\ pc' = "insert"
  /\ UNCHANGED <<counters, memory, blockIndex, entry, tailBlock, cc, loc, spare, freed>>

SetIndexTail(p) == blockIndex' = [blockIndex EXCEPT ![Len(blockIndex)].tail = p]

StoreIndexTail ==
  /\ pc = "insert"
  /\ SetIndexTail(NextPos(Header))
  /\ pc' = "block"
  /\ UNCHANGED <<counters, memory, entries, entry, tailBlock, cc, loc, spare, freed>>

\* requisition_block (module BlockPool), reset_empty and the entry's value.
RequisitionBlock ==
  /\ pc = "block"
  /\ \E b \in pool :
       /\ pool' = pool \ {b}
       /\ elementsCompletelyDequeued' = [elementsCompletelyDequeued EXCEPT ![b] = 0]
       /\ entries' = [entries EXCEPT ![entry].value = b]
       /\ tailBlock' = b
  /\ pc' = "write"
  /\ UNCHANGED <<counters, elements, blockIndex, entry, cc, loc, spare, freed>>

\* Without a block the entry is given back: rewind_block_index_tail.
RequisitionFails ==
  /\ pc = "block"
  /\ AllocFails \/ pool = {}
  /\ SetIndexTail(PrevPos(Header))
  /\ entries' = [entries EXCEPT ![entry].value = nullptr]
  /\ pc' = "idle"
  /\ UNCHANGED <<counters, memory, entry, tailBlock, cc, loc, spare, freed>>

Construct ==
  /\ pc = "write"
  /\ elements' = [elements EXCEPT ![tailBlock][Slot(tailIndex)] = tailIndex]
  /\ pc' = "publish"
  /\ UNCHANGED <<counters, elementsCompletelyDequeued, pool, index, entry, tailBlock, cc, loc, spare, freed>>

Publish ==
  /\ pc = "publish"
  /\ tailIndex' = tailIndex + 1
  /\ pc' = "idle"
  /\ UNCHANGED <<headIndex, dequeueOptimisticCount, dequeueOvercommit, memory, index,
                 entry, tailBlock, cc, loc, spare, freed>>

-----------------------------------------------------------------------------
(***************************************************************************)
(* ImplicitProducer::dequeue.                                              *)
(***************************************************************************)

Goto(c, step) == cc' = [cc EXCEPT ![c] = step]
Local(c, l)   == loc' = [loc EXCEPT ![c] = l]
Leaves(c)     == Goto(c, "idle") /\ Local(c, NoLocals)

Trying(c) == cc[c] \in {"over", "look", "count", "check", "excess", "claim"}

Less(m, n) == IF m > n THEN m - n ELSE 0

\* Of the auxiliary variable: an attempt begins, or ends.
Starts(c) == spare' = [d \in Consumers |->
  IF d = c THEN Less(tailIndex - headIndex, Cardinality({e \in Consumers : Trying(e)}))
  ELSE IF Trying(d) THEN Less(spare[d], 1) ELSE 0]
Ends(c)   == spare' = [spare EXCEPT ![c] = 0]

LoadTail(c) ==
  /\ cc[c] = "idle" /\ freed = NotDestroyed
  /\ dequeueOptimisticCount < MaxPosts + MaxExcess
  /\ Local(c, [NoLocals EXCEPT !.tail = tailIndex])
  /\ Goto(c, "over")
  /\ Starts(c)
  /\ UNCHANGED <<counters, memory, index, poster, freed>>

LoadOvercommit(c) ==
  /\ cc[c] = "over"
  /\ Local(c, [loc[c] EXCEPT !.over = dequeueOvercommit])
  /\ Goto(c, "look")
  /\ UNCHANGED <<counters, memory, index, poster, spare, freed>>

LooksNonEmpty(c) ==
  /\ cc[c] = "look"
  /\ IF dequeueOptimisticCount - loc[c].over < loc[c].tail
       THEN Goto(c, "count") /\ UNCHANGED <<loc, spare>>
       ELSE Leaves(c) /\ Ends(c)
  /\ UNCHANGED <<counters, memory, index, poster, freed>>

CountIn(c) ==
  /\ cc[c] = "count"
  /\ dequeueOptimisticCount' = dequeueOptimisticCount + 1
  /\ Local(c, [loc[c] EXCEPT !.my = dequeueOptimisticCount])
  /\ Goto(c, "check")
  /\ UNCHANGED <<tailIndex, headIndex, dequeueOvercommit, memory, index, poster, spare, freed>>

CheckAgain(c) ==
  /\ cc[c] = "check"
  /\ Goto(c, IF loc[c].my - loc[c].over < tailIndex THEN "claim" ELSE "excess")
  /\ Local(c, [loc[c] EXCEPT !.over = 0, !.my = 0])
  /\ UNCHANGED <<counters, memory, index, poster, spare, freed>>

CountOutOnly(c) ==
  /\ cc[c] = "excess"
  /\ Leaves(c)
  /\ Ends(c)
  /\ UNCHANGED <<counters, memory, index, poster, freed>>

CountOut(c) ==
  /\ cc[c] = "excess"
  /\ dequeueOvercommit' = dequeueOvercommit + 1
  /\ Leaves(c)
  /\ Ends(c)
  /\ UNCHANGED <<tailIndex, headIndex, dequeueOptimisticCount, memory, index, poster, freed>>

Claim(c) ==
  /\ cc[c] = "claim"
  /\ headIndex' = headIndex + 1
  /\ Local(c, [NoLocals EXCEPT !.index = headIndex])
  /\ Goto(c, "header")
  /\ Ends(c)
  /\ UNCHANGED <<tailIndex, dequeueOptimisticCount, dequeueOvercommit, memory, index, poster, freed>>

\* get_block_index_index_for_index: the header and its tail.  (The tail of a
\* header that was replaced in between is the one it had then.)
LoadHeader(c) ==
  /\ cc[c] = "header"
  /\ Local(c, [loc[c] EXCEPT !.header = Len(blockIndex), !.itail = Header.tail])
  /\ Goto(c, "key")
  /\ UNCHANGED <<counters, memory, index, poster, spare, freed>>

\* The key there gives the distance to the entry of our block.
EntryFor(h, t, i) ==
  LET offset == (Base(i) - entries[h.index[t]].key) \div BLOCK_SIZE
  IN  h.index[((t - 1 + offset) % Capacity(h)) + 1]

LoadKey(c) ==
  /\ cc[c] = "key"
  /\ LET l == loc[c] IN
       Local(c, [NoLocals EXCEPT !.index = l.index,
                                 !.entry = EntryFor(blockIndex[l.header], l.itail, l.index)])
  /\ Goto(c, "take")
  /\ UNCHANGED <<counters, memory, index, poster, spare, freed>>

\* The entry's value, and the element moved out of its slot.
MoveOut(c) ==
  /\ cc[c] = "take"
  /\ LET b == entries[loc[c].entry].value
         i == Slot(loc[c].index)
     IN  /\ Local(c, [loc[c] EXCEPT !.block = b, !.got = elements[b][i]])
         /\ elements' = [elements EXCEPT ![b][i] = Raw]
  /\ Goto(c, "mark")
  /\ UNCHANGED <<counters, elementsCompletelyDequeued, pool, index, poster, spare, freed>>

\* set_empty
SetEmpty(c) ==
  /\ cc[c] = "mark"
  /\ LET b == loc[c].block IN
       /\ elementsCompletelyDequeued' = [elementsCompletelyDequeued EXCEPT ![b] = @ + 1]
       /\ IF elementsCompletelyDequeued[b] = BLOCK_SIZE - 1
            THEN Goto(c, "clear") /\ UNCHANGED loc
            ELSE Leaves(c)
  /\ UNCHANGED <<counters, elements, pool, index, poster, spare, freed>>

ClearEntry(c) ==
  /\ cc[c] = "clear"
  /\ entries' = [entries EXCEPT ![loc[c].entry].value = nullptr]
  /\ Goto(c, "free")
  /\ UNCHANGED <<counters, memory, blockIndex, poster, loc, spare, freed>>

\* add_block_to_free_list (module BlockPool)
FreeBlock(c) ==
  /\ cc[c] = "free"
  /\ pool' = pool \cup {loc[c].block}
  /\ Leaves(c)
  /\ UNCHANGED <<counters, elements, elementsCompletelyDequeued, index, poster, spare, freed>>

-----------------------------------------------------------------------------
(***************************************************************************)
(* ~ImplicitProducer, when nobody uses the queue any more: the blocks of   *)
(* the elements left, each when the next one begins, then the last block   *)
(* unless the dequeue of its last element has freed it.                    *)
(***************************************************************************)

BlockOf(i) == entries[EntryFor(Header, Header.tail, i)].value

BlocksLeft ==
  LET bases == {i \in headIndex .. (tailIndex - 1) : i = headIndex \/ Slot(i) = 0}
  IN  [n \in 1 .. Cardinality(bases) |-> BlockOf(Base(headIndex) + (n - 1) * BLOCK_SIZE)]

TailBlockAlways == IF tailBlock # nullptr THEN <<tailBlock>> ELSE <<>>

TailBlockLeft ==
  IF tailBlock # nullptr /\ (headIndex # tailIndex \/ Slot(tailIndex) # 0)
    THEN <<tailBlock>> ELSE <<>>

DestructorFrees ==
  (IF BlocksLeft = <<>> THEN <<>> ELSE Front(BlocksLeft)) \o TailBlockLeft

Quiescent == pc = "idle" /\ \A c \in Consumers : cc[c] = "idle"

Destroy ==
  /\ Quiescent /\ freed = NotDestroyed
  /\ freed' = DestructorFrees
  /\ UNCHANGED <<counters, memory, index, poster, cc, loc, spare>>

-----------------------------------------------------------------------------
EnqueueStep ==
  \/ Enqueue \/ NewBlockIndex \/ NewBlockIndexFails \/ StoreKey \/ StoreIndexTail
  \/ RequisitionBlock \/ RequisitionFails \/ Construct \/ Publish

DequeueStep(c) ==
  \/ LoadTail(c) \/ LoadOvercommit(c) \/ LooksNonEmpty(c) \/ CountIn(c) \/ CheckAgain(c)
  \/ CountOut(c) \/ Claim(c) \/ LoadHeader(c) \/ LoadKey(c) \/ MoveOut(c) \/ SetEmpty(c)
  \/ ClearEntry(c) \/ FreeBlock(c)

Next == EnqueueStep \/ (\E c \in Consumers : DequeueStep(c)) \/ Destroy

Spec == Init /\ [][Next]_vars

-----------------------------------------------------------------------------
\* An index leads to its block.  A dequeue that has claimed an index finds, in
\* the header it loaded, an entry that was in use, then the entry of the block
\* that holds its element, and the block is not free: the asserts at :2957 and
\* :2962, and :2494 (head is not beyond tail).
EntryFound ==
  /\ headIndex <= tailIndex
  /\ \A c \in Consumers :
       LET l == loc[c] IN
       /\ cc[c] = "key" =>
            entries[blockIndex[l.header].index[l.itail]].key # INVALID_BLOCK_BASE
       /\ cc[c] = "take" =>
            /\ entries[l.entry].key = Base(l.index)
            /\ entries[l.entry].value \in Blocks \ pool

\* The attempts counted in, less those counted out and those that succeeded,
\* are the ones under way.
CountersAgree ==
  dequeueOptimisticCount - dequeueOvercommit - headIndex
    = Cardinality({c \in Consumers : cc[c] \in {"check", "claim", "excess"}})

\* The destructor gives back every block the stream holds, each once: also the
\* last, which a dequeue has freed if and only if it was the last of its block.
DestructorExact == freed # NotDestroyed =>
  /\ IsInjective(freed)
  /\ ToSet(freed) = Blocks \ pool

\* What the stream is in the code: the elements from head to tail, and of a consumer
\* its attempt, then the index it has claimed, then what it has moved out.
Queue == [n \in 1 .. (tailIndex - headIndex) |-> headIndex + n - 1]

HandOf(c) ==
  CASE Trying(c) -> -3
    [] cc[c] \in {"header", "key", "take"} -> loc[c].index
    [] cc[c] \in {"mark", "clear", "free"} -> loc[c].got
    [] OTHER -> -2

Stream == INSTANCE TaskStream WITH
  Tasks <- 0 .. (MaxPosts - 1), None <- -2, Attempt <- -3,
  queue <- Queue, hand <- [c \in Consumers |-> HandOf(c)]

\* The code implements the stream: tasks come out in the order they went in,
\* each once and unharmed (what is moved out is what was claimed), and dequeue
\* returns false only when other attempts may have taken what it saw.
ImplementsStream == Stream!StreamSpec
=============================================================================
