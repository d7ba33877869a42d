--------------------------- MODULE SubQueueProofs ---------------------------
(***************************************************************************)
(* A stream of posted tasks, proved of SubQueue for any number of          *)
(* dequeuers, blocks, posts and initial entries, any size of a block, and  *)
(* allocations that may fail: a dequeue finds the block of its element,    *)
(* the code implements the stream of TaskStream, and the destructor frees  *)
(* every block once.                                                       *)
(*                                                                         *)
(* None of it is inductive.  MemInv gives blocks and entries numbers that  *)
(* never wrap: block k has the elements of InBlk(k), EntryOf(k) is the     *)
(* entry at the distance of k from the tail of the current header.  A      *)
(* block is Live from the step in which it is requisitioned to the one in  *)
(* which its entry is cleared; then its entry has its key, which is within *)
(* one turn of the ring (Placed, InReach), its count is the number of its  *)
(* elements that are done (Counts), its slots have their elements          *)
(* (Filled), and no other block has its memory (Apart).  What is not free  *)
(* is live or about to be freed (Given).                                   *)
(*                                                                         *)
(* A dequeue that has loaded a header and its tail may be overtaken by any *)
(* number of posts.  Reads says what it still can rely on: its header      *)
(* leads to the entry of some block m from its own on, which is listed or, *)
(* if the poster has taken that back, the next to be; and the distance     *)
(* from the key there leads to its own entry.                              *)
(***************************************************************************)
EXTENDS SubQueueCountProofs

USE SubQueueAssumption DEF SubQueueAssumption

-----------------------------------------------------------------------------
(***************************************************************************)
(* The block index and the blocks.                                         *)
(***************************************************************************)
PSteps == {"idle", "grow", "key", "insert", "block", "write", "publish"}
Values == Blocks \cup {nullptr}
Entry  == [key : Nat, value : Values]

\* The blocks that the index has, and those of them that are there.
Listed == Blk(tailIndex) + Bit(Slot(tailIndex) # 0 \/ pc \in {"block", "write", "publish"})
Made   == Blk(tailIndex) + Bit(Slot(tailIndex) # 0 \/ pc \in {"write", "publish"})

Size       == Capacity(Header)
EntryOf(k) == Header.index[Ring(Header.tail, k - (Listed - 1), Size)]
Key(k)     == entries[EntryOf(k)].key
Value(k)   == entries[EntryOf(k)].value

Holding == {"header", "key", "take", "mark", "clear"}
Held(S, i) == \E c \in Consumers : cc[c] \in S /\ loc[c].index = i

\* Of an index: it has still to be taken or somebody is at it, the element is there,
\* the slot is counted as empty.
Pending(i) == i >= headIndex \/ Held(Holding, i)
Full(i)    == i >= headIndex \/ Held({"header", "key", "take"}, i)
Done(i)    == i < headIndex /\ ~Held(Holding \ {"clear"}, i)
Written(i) == i < tailIndex \/ (i = tailIndex /\ pc = "publish")

Live(k)   == k \in 0 .. (Made - 1) /\ \E i \in InBlk(k) : Pending(i)
DoneIn(k) == {i \in InBlk(k) : Done(i)}

IndexOK ==
  /\ blockIndex # <<>> => Len(entries) = Size
  /\ \A n \in 1 .. Len(blockIndex) : LET h == blockIndex[n] IN
       /\ Capacity(h) \in Nat \ {0, 1} /\ h.tail \in 1 .. Capacity(h)
       /\ \A j \in 1 .. Capacity(h) : h.index[j] \in 1 .. Len(entries)
       /\ \A i, j \in 1 .. Capacity(h) : h.index[i] = h.index[j] => i = j
  /\ \A e \in 1 .. Len(entries) : entries[e].key = INVALID_BLOCK_BASE => entries[e].value = nullptr

MemTypes ==
  /\ elements \in [Blocks -> [0 .. (BLOCK_SIZE - 1) -> Int]]
  /\ elementsCompletelyDequeued \in [Blocks -> Nat]
  /\ pool \in SUBSET Blocks
  /\ entries \in Seq(Entry)
  /\ blockIndex \in Seq([index : Seq(Nat), tail : Nat])
  /\ tailBlock \in Values
  /\ pc \in PSteps

PosterOK ==
  /\ tailIndex > 0 \/ pc # "idle" => blockIndex # <<>>
  /\ pc # "idle" => tailIndex < MaxPosts
  /\ tailIndex <= MaxPosts
  /\ pc \in {"grow", "key", "insert", "block"} => Slot(tailIndex) = 0
  /\ pc \in {"key", "insert", "block"} => entry = EntryOf(Blk(tailIndex)) /\ entries[entry].value = nullptr
  /\ pc \in {"insert", "block"} => entries[entry].key = tailIndex
  /\ Made > 0 => Key(Made - 1) = Start(Made - 1) /\ tailBlock # nullptr
  /\ Live(Made - 1) => tailBlock = Value(Made - 1)

InReach(k) == k + Size >= Listed + Bit(pc \in {"key", "insert"})

Placed(k) == Live(k) => InReach(k) /\ Key(k) = Start(k) /\ Value(k) \in Blocks \ pool
Counts(k) == Live(k) => elementsCompletelyDequeued[Value(k)] = Cardinality(DoneIn(k))
Filled(i) == Live(Blk(i)) /\ Full(i) /\ Written(i) => elements[Value(Blk(i))][Slot(i)] = i
Apart     == \A k, l \in Nat : Live(k) /\ Live(l) /\ Value(k) = Value(l) => k = l

Given == \A b \in Blocks \ pool :
  \/ \E k \in Nat : Live(k) /\ Value(k) = b
  \/ \E c \in Consumers : cc[c] = "free" /\ loc[c].block = b

BlocksOK == (\A k \in Nat : Placed(k) /\ Counts(k)) /\ Apart /\ (\A i \in Nat : Filled(i))

Mine(c) == cc[c] \in Holding =>
  /\ loc[c].index < headIndex
  /\ \A d \in Consumers : cc[d] \in Holding /\ loc[d].index = loc[c].index => d = c

\* The header and its tail lead to the entry of a block m, and from there to ours.
Reads(c) == cc[c] = "key" =>
  LET l == loc[c]  h == blockIndex[l.header] IN
  /\ l.header \in 1 .. Len(blockIndex) /\ l.itail \in 1 .. Capacity(h)
  /\ EntryFor(h, l.itail, l.index) = EntryOf(Blk(l.index))
  /\ \E m \in Nat :
       /\ Blk(l.index) <= m /\ m <= Listed
       /\ h.index[l.itail] = EntryOf(m) /\ Key(m) = Start(m)
       /\ m = Listed => pc \notin {"grow", "block"} /\ Value(m) = nullptr

Points(c) ==
  /\ cc[c] \in {"take", "mark", "clear"} => loc[c].entry = EntryOf(Blk(loc[c].index))
  /\ cc[c] \in {"mark", "clear"} => loc[c].block = Value(Blk(loc[c].index)) /\ loc[c].got = loc[c].index

Clears(c) == cc[c] = "clear" =>
  /\ \A i \in InBlk(Blk(loc[c].index)) : Done(i)
  /\ \A d \in Consumers : cc[d] = "clear" /\ Blk(loc[d].index) = Blk(loc[c].index) => d = c

Frees(c) == cc[c] = "free" =>
  /\ loc[c].block \in Blocks \ pool
  /\ \A d \in Consumers : cc[d] = "free" /\ loc[d].block = loc[c].block => d = c
  /\ \A k \in Nat : Live(k) => Value(k) # loc[c].block
  /\ loc[c].got \in 0 .. (headIndex - 1)

HolderOK(c) == Mine(c) /\ Reads(c) /\ Points(c) /\ Clears(c) /\ Frees(c)

MemInv ==
  /\ CountInv
  /\ MemTypes /\ IndexOK /\ PosterOK /\ BlocksOK /\ Given
  /\ \A c \in Consumers : HolderOK(c)
-----------------------------------------------------------------------------
LEMMA Tails ==
  ASSUME MemInv
  PROVE  /\ tailIndex \in Nat /\ headIndex \in Nat /\ headIndex <= tailIndex
         /\ Blk(tailIndex) \in Nat /\ Made \in Nat /\ Listed \in Nat
         /\ Made <= Listed /\ Listed <= Made + 1
         /\ Listed - Made = Bit(pc = "block")
         /\ \A i \in Nat : i < tailIndex => Blk(i) < Made
         /\ \A i \in Nat : Blk(i) > Blk(tailIndex) => i > tailIndex
         /\ Slot(tailIndex) = 0 => tailIndex = Start(Blk(tailIndex))
         /\ pc \in {"grow", "key", "insert", "block"} => Slot(tailIndex) = 0
         /\ pc \in {"write", "publish"} => Made = Blk(tailIndex) + 1
<1>1. tailIndex \in Nat /\ headIndex \in Nat /\ headIndex <= tailIndex
  BY RoomGivesHead DEF MemInv, CountInv, CountTypes
<1>2. /\ Blk(tailIndex) \in Nat /\ Slot(tailIndex) \in Nat /\ Start(Blk(tailIndex)) \in Nat
      /\ tailIndex = Start(Blk(tailIndex)) + Slot(tailIndex)
  BY <1>1, Division
<1>3. pc \in {"grow", "key", "insert", "block"} => Slot(tailIndex) = 0
  BY DEF MemInv, PosterOK
<1>4. ASSUME NEW i \in Nat, i < tailIndex PROVE Blk(i) < Made
  <2>1. Blk(i) \in Nat /\ Blk(i) <= Blk(tailIndex)
    BY <1>1, <1>4, BlkOrder, Division
  <2>2. CASE Slot(tailIndex) = 0
    <3>1. tailIndex = Start(Blk(tailIndex))
      BY <1>2, <2>2
    <3>2. Blk(i) < Blk(tailIndex)
      BY <1>1, <1>4, <3>1, BlkOrder
    <3> QED BY <1>2, <2>1, <3>2 DEF Made, Bit
  <2>3. CASE Slot(tailIndex) # 0
    BY <1>2, <2>1, <2>3 DEF Made, Bit
  <2> QED BY <2>2, <2>3
<1>5. ASSUME NEW i \in Nat, Blk(i) > Blk(tailIndex) PROVE i > tailIndex
  <2>1. Blk(i) \in Nat
    BY Division
  <2>2. i <= tailIndex => Blk(i) <= Blk(tailIndex)
    BY <1>1, BlkOrder
  <2> QED BY <1>1, <1>2, <1>5, <2>1, <2>2
<1>6. /\ Made \in Nat /\ Listed \in Nat
      /\ Made <= Listed /\ Listed <= Made + 1
      /\ Listed - Made = Bit(pc = "block")
      /\ Slot(tailIndex) = 0 => tailIndex = Start(Blk(tailIndex))
      /\ pc \in {"write", "publish"} => Made = Blk(tailIndex) + 1
  BY <1>2, <1>3 DEF Made, Listed, Bit
<1> QED BY <1>1, <1>2, <1>3, <1>4, <1>5, <1>6

\* The current header and the entries it leads to.
LEMMA Places ==
  ASSUME MemInv, blockIndex # <<>>
  PROVE  /\ Len(blockIndex) \in Nat \ {0} /\ Header = blockIndex[Len(blockIndex)]
         /\ Size \in Nat \ {0, 1} /\ Header.tail \in 1 .. Size /\ Len(entries) = Size
         /\ \A k \in Int : EntryOf(k) \in 1 .. Len(entries)
         /\ \A k \in Int, l \in Int :
              EntryOf(k) = EntryOf(l) /\ k - l < Size /\ l - k < Size => k = l
         /\ \A k \in Int : EntryOf(k + Size) = EntryOf(k)
         /\ \A k \in Int : entries[EntryOf(k)] \in Entry
<1>1. Len(blockIndex) \in Nat \ {0} /\ Header = blockIndex[Len(blockIndex)]
  BY DEF MemInv, MemTypes, Header
<1>2. /\ Size \in Nat \ {0, 1} /\ Header.tail \in 1 .. Size /\ Len(entries) = Size
      /\ \A j \in 1 .. Size : Header.index[j] \in 1 .. Len(entries)
      /\ \A i, j \in 1 .. Size : Header.index[i] = Header.index[j] => i = j
  BY <1>1 DEF MemInv, IndexOK, Size
<1>3. Listed \in Nat
  BY Tails
<1>4. \A k \in Int : Ring(Header.tail, k - (Listed - 1), Size) \in 1 .. Size
  <2> SUFFICES ASSUME NEW k \in Int PROVE Ring(Header.tail, k - (Listed - 1), Size) \in 1 .. Size
    OBVIOUS
  <2>1. k - (Listed - 1) \in Int /\ Size \in Nat \ {0}
    BY <1>2, <1>3
  <2> QED BY <1>2, <2>1, RingPlaces
<1>5. \A k \in Int : EntryOf(k) \in 1 .. Len(entries)
  BY <1>2, <1>4 DEF EntryOf
<1>6. ASSUME NEW k \in Int, NEW l \in Int, EntryOf(k) = EntryOf(l), k - l < Size, l - k < Size
      PROVE  k = l
  <2> DEFINE a == k - (Listed - 1)  b == l - (Listed - 1)
  <2>1. a \in Int /\ b \in Int /\ a - b < Size /\ b - a < Size /\ (a = b => k = l)
    BY <1>2, <1>3, <1>6
  <2>2. Ring(Header.tail, a, Size) = Ring(Header.tail, b, Size)
    BY <1>2, <1>4, <1>6 DEF EntryOf
  <2> HIDE DEF a, b
  <2>3. a = b
    BY <1>2, <2>1, <2>2, RingPlaces
  <2> QED BY <2>1, <2>3
<1>7. ASSUME NEW k \in Int PROVE EntryOf(k + Size) = EntryOf(k)
  <2> DEFINE a == k - (Listed - 1)
  <2>1. a \in Int /\ (k + Size) - (Listed - 1) = a + Size
    BY <1>2, <1>3
  <2> HIDE DEF a
  <2>2. Ring(Header.tail, a + Size, Size) = Ring(Header.tail, a, Size)
    BY <1>2, <2>1, RingRound
  <2> QED BY <2>1, <2>2 DEF EntryOf, a
<1>8. \A k \in Int : entries[EntryOf(k)] \in Entry
  BY <1>5 DEF MemInv, MemTypes
<1> QED BY <1>1, <1>2, <1>5, <1>6, <1>7, <1>8

\* A block that is live, and the index before it is there.
LEMMA LiveBlocks ==
  ASSUME MemInv, NEW k, Live(k)
  PROVE  /\ k \in Nat /\ k < Made /\ blockIndex # <<>>
         /\ InReach(k) /\ Key(k) = Start(k) /\ Value(k) \in Blocks \ pool
         /\ EntryOf(k) \in 1 .. Len(entries)
<1>1. k \in Nat /\ k < Made
  BY Tails DEF Live
<1>2. blockIndex # <<>>
  <2>1. CASE tailIndex = 0 /\ pc = "idle"
    <3>1. Made = 0
      <4>1. Start(Blk(0)) \in Nat /\ Slot(0) \in Nat /\ Blk(0) \in Nat /\ 0 = Start(Blk(0)) + Slot(0)
        BY Division
      <4>2. Slot(0) = 0
        BY <4>1
      <4>3. Blk(0) = 0
        <5>1. Blk(0) > 0 => Start(0) + BLOCK_SIZE <= Start(Blk(0))
          BY <4>1, Starts0
        <5>2. Start(0) = 0
          BY Starts0
        <5> QED BY <4>1, <5>1, <5>2
      <4> QED BY <2>1, <4>2, <4>3 DEF Made, Bit
    <3> QED BY <1>1, <3>1
  <2>2. CASE tailIndex > 0 \/ pc # "idle"
    BY <2>2 DEF MemInv, PosterOK
  <2> QED BY <2>1, <2>2, Tails
<1>3. Placed(k)
  BY <1>1 DEF MemInv, BlocksOK
<1>4. EntryOf(k) \in 1 .. Len(entries)
  BY <1>1, <1>2, Places
<1> QED BY <1>1, <1>2, <1>3, <1>4 DEF Placed

SameStatus == \A i \in Nat :
  (Pending(i)' <=> Pending(i)) /\ (Full(i)' <=> Full(i)) /\ (Done(i)' <=> Done(i))

SameEntries == \A k \in Nat : Live(k) =>
  EntryOf(k)' = EntryOf(k) /\ entries'[EntryOf(k)] = entries[EntryOf(k)]

LEMMA StatusOfPoster ==
  ASSUME UNCHANGED <<headIndex, cc, loc>>
  PROVE  SameStatus
BY DEF SameStatus, Pending, Full, Done, Held

\* A consumer that keeps its index, if it has one, and its part.
LEMMA StatusOfConsumer ==
  ASSUME NEW c \in Consumers, Alone(c), headIndex' = headIndex,
         cc[c] \in Holding <=> cc'[c] \in Holding,
         cc[c] \in {"header", "key", "take"} <=> cc'[c] \in {"header", "key", "take"},
         cc[c] = "clear" <=> cc'[c] = "clear",
         cc[c] \in Holding => loc'[c].index = loc[c].index
  PROVE  SameStatus
<1>1. ASSUME NEW S \in {Holding, {"header", "key", "take"}, Holding \ {"clear"}}, NEW i \in Nat
      PROVE  Held(S, i)' <=> Held(S, i)
  <2>1. /\ cc'[c] \in S <=> cc[c] \in S
        /\ cc[c] \in S => loc'[c].index = loc[c].index
    BY DEF Holding
  <2> QED BY <2>1 DEF Held, Alone
<1> QED BY <1>1 DEF SameStatus, Pending, Full, Done

LEMMA LiveKept ==
  ASSUME SameStatus, Made' = Made
  PROVE  \A k : (Live(k)' <=> Live(k)) /\ DoneIn(k)' = DoneIn(k)
<1>1. \A k : \A i \in InBlk(k) : i \in Nat
  BY DEF InBlk
<1> QED BY <1>1 DEF SameStatus, Live, DoneIn, InBlk

LEMMA BlocksKept ==
  ASSUME MemInv, SameStatus, SameEntries, Made' = Made, UNCHANGED memory,
         \A i \in Nat : Written(i)' => Written(i),
         \A k \in Nat : Live(k) => InReach(k)'
  PROVE  /\ BlocksOK'
         /\ \A k : Live(k)' <=> Live(k)
         /\ \A k \in Nat : Live(k) => Value(k)' = Value(k) /\ Key(k)' = Key(k)
<1>1. \A k : (Live(k)' <=> Live(k)) /\ DoneIn(k)' = DoneIn(k)
  BY LiveKept
<1>2. \A k \in Nat : Live(k) => Value(k)' = Value(k) /\ Key(k)' = Key(k)
  BY DEF SameEntries, Value, Key
<1>3. ASSUME NEW k \in Nat PROVE Placed(k)' /\ Counts(k)'
  <2>1. Placed(k) /\ Counts(k)
    BY DEF MemInv, BlocksOK
  <2>2. Placed(k)'
    BY <1>1, <1>2, <2>1 DEF Placed, memory
  <2>3. Counts(k)'
    BY <1>1, <1>2, <2>1 DEF Counts, memory
  <2> QED BY <2>2, <2>3
<1>4. Apart'
  BY <1>1, <1>2 DEF Apart, MemInv, BlocksOK
<1>5. ASSUME NEW i \in Nat PROVE Filled(i)'
  <2>1. Filled(i) /\ Blk(i) \in Nat
    BY Division DEF MemInv, BlocksOK
  <2> QED BY <1>1, <1>2, <2>1 DEF Filled, SameStatus, memory
<1> QED BY <1>1, <1>2, <1>3, <1>4, <1>5 DEF BlocksOK

LEMMA GivenKept ==
  ASSUME MemInv, pool' = pool,
         \A k \in Nat : Live(k) => Live(k)' /\ Value(k)' = Value(k),
         \A c \in Consumers : cc[c] = "free" => cc'[c] = "free" /\ loc'[c].block = loc[c].block
  PROVE  Given'
<1> SUFFICES ASSUME NEW b \in Blocks \ pool
             PROVE  \/ \E k \in Nat : Live(k)' /\ Value(k)' = b
                    \/ \E c \in Consumers : cc'[c] = "free" /\ loc'[c].block = b
  BY DEF Given
<1>1. \/ \E k \in Nat : Live(k) /\ Value(k) = b
      \/ \E c \in Consumers : cc[c] = "free" /\ loc[c].block = b
  BY DEF MemInv, Given
<1>2. CASE \E k \in Nat : Live(k) /\ Value(k) = b
  BY <1>2
<1>3. CASE \E c \in Consumers : cc[c] = "free" /\ loc[c].block = b
  BY <1>3
<1> QED BY <1>1, <1>2, <1>3

\* The block of an index that somebody has.
LEMMA HolderLive ==
  ASSUME MemInv, NEW c \in Consumers, cc[c] \in Holding
  PROVE  /\ loc[c].index \in Nat /\ loc[c].index < headIndex /\ loc[c].index < tailIndex
         /\ Blk(loc[c].index) \in Nat /\ loc[c].index \in InBlk(Blk(loc[c].index))
         /\ Pending(loc[c].index) /\ Live(Blk(loc[c].index))
<1>1. loc[c].index \in Nat
  BY DEF MemInv, CountInv, CountTypes, Locals
<1>2. loc[c].index < headIndex
  BY DEF MemInv, HolderOK, Mine
<1>3. loc[c].index < tailIndex
  BY <1>1, <1>2, Tails
<1>4. Blk(loc[c].index) \in Nat /\ Blk(loc[c].index) < Made /\ Made \in Nat
  BY <1>1, <1>3, Tails, Division
<1>5. Pending(loc[c].index)
  BY DEF Pending, Held
<1>6. loc[c].index \in InBlk(Blk(loc[c].index))
  BY <1>1 DEF InBlk
<1> QED BY <1>1, <1>2, <1>3, <1>4, <1>5, <1>6 DEF Live

\* The condition that Reads states of m.
LedBy(c, m) ==
  /\ Blk(loc[c].index) <= m /\ m <= Listed
  /\ blockIndex[loc[c].header].index[loc[c].itail] = EntryOf(m) /\ Key(m) = Start(m)
  /\ m = Listed => pc \notin {"grow", "block"} /\ Value(m) = nullptr

HeadersKept ==
  /\ Len(blockIndex') \in Nat /\ Len(blockIndex') >= Len(blockIndex)
  /\ \A n \in 1 .. Len(blockIndex) : blockIndex'[n].index = blockIndex[n].index

LEMMA ReadsKept ==
  ASSUME MemInv, NEW c \in Consumers, cc[c] = "key", loc'[c] = loc[c], HeadersKept,
         EntryOf(Blk(loc[c].index))' = EntryOf(Blk(loc[c].index)),
         \A m \in Nat : LedBy(c, m) =>
           /\ m <= Listed' /\ EntryOf(m)' = EntryOf(m) /\ Key(m)' = Key(m)
           /\ m = Listed' => pc' \notin {"grow", "block"} /\ Value(m)' = nullptr
  PROVE  Reads(c)'
<1>1. /\ loc[c].header \in 1 .. Len(blockIndex)
      /\ loc[c].itail \in 1 .. Capacity(blockIndex[loc[c].header])
      /\ EntryFor(blockIndex[loc[c].header], loc[c].itail, loc[c].index) = EntryOf(Blk(loc[c].index))
      /\ \E m \in Nat : LedBy(c, m)
  BY DEF MemInv, HolderOK, Reads, LedBy
<1>2. PICK m \in Nat : LedBy(c, m)
  BY <1>1
<1>3. /\ loc[c].header \in 1 .. Len(blockIndex')
      /\ blockIndex'[loc[c].header].index = blockIndex[loc[c].header].index
  <2>1. Len(blockIndex) \in Nat
    BY DEF MemInv, MemTypes
  <2> QED BY <1>1, <2>1 DEF HeadersKept
<1>4. /\ m <= Listed' /\ EntryOf(m)' = EntryOf(m) /\ Key(m)' = Key(m)
      /\ m = Listed' => pc' \notin {"grow", "block"} /\ Value(m)' = nullptr
  BY <1>2
<1>5. EntryFor(blockIndex[loc[c].header], loc[c].itail, loc[c].index)'
        = EntryFor(blockIndex[loc[c].header], loc[c].itail, loc[c].index)
  <2>1. /\ blockIndex[loc[c].header].index[loc[c].itail] = EntryOf(m)
        /\ entries'[EntryOf(m)].key = entries[EntryOf(m)].key
    BY <1>2, <1>4 DEF LedBy, Key
  <2> QED BY <1>3, <2>1 DEF EntryFor, Capacity
<1>6. /\ Blk(loc[c].index) <= m
      /\ blockIndex[loc[c].header].index[loc[c].itail] = EntryOf(m) /\ Key(m) = Start(m)
  BY <1>2 DEF LedBy
<1> QED BY <1>1, <1>3, <1>4, <1>5, <1>6 DEF Reads, Capacity

LEMMA HoldersKept ==
  ASSUME MemInv, SameStatus, SameEntries, Made' = Made, pool' = pool, UNCHANGED <<headIndex, cc, loc>>,
         \A c \in Consumers : Reads(c)'
  PROVE  \A c \in Consumers : HolderOK(c)'
<1> SUFFICES ASSUME NEW c \in Consumers PROVE HolderOK(c)'
  OBVIOUS
<1>1. HolderOK(c)
  BY DEF MemInv
<1>2. \A k \in Nat : Live(k) => Value(k)' = Value(k) /\ EntryOf(k)' = EntryOf(k)
  BY DEF SameEntries, Value
<1>3. \A k : Live(k)' <=> Live(k)
  BY LiveKept
<1>4. Mine(c)'
  BY <1>1 DEF HolderOK, Mine
<1>5. Points(c)'
  <2>1. CASE cc[c] \in {"take", "mark", "clear"}
    <3>1. Blk(loc[c].index) \in Nat /\ Live(Blk(loc[c].index))
      BY <2>1, HolderLive DEF Holding
    <3> QED BY <1>1, <1>2, <3>1 DEF HolderOK, Points
  <2>2. CASE cc[c] \notin {"take", "mark", "clear"}
    BY <2>2 DEF Points
  <2> QED BY <2>1, <2>2
<1>6. Clears(c)'
  <2>1. \A i \in InBlk(Blk(loc[c].index)) : i \in Nat
    BY DEF InBlk
  <2> QED BY <1>1, <2>1 DEF HolderOK, Clears, SameStatus
<1>7. Frees(c)'
  BY <1>1, <1>2, <1>3 DEF HolderOK, Frees
<1> QED BY <1>4, <1>5, <1>6, <1>7 DEF HolderOK

-----------------------------------------------------------------------------
(***************************************************************************)
(* The poster's steps.                                                     *)
(***************************************************************************)

\* In a step that leaves the index alone and the number of blocks in it.
LEMMA SameIndex ==
  ASSUME UNCHANGED index, Listed' = Listed
  PROVE  /\ \A k : EntryOf(k)' = EntryOf(k) /\ Key(k)' = Key(k) /\ Value(k)' = Value(k)
         /\ SameEntries /\ Size' = Size /\ Header' = Header
         /\ IndexOK => IndexOK'
<1>1. Header' = Header /\ Size' = Size
  BY DEF index, Header, Size, Capacity
<1>2. \A k : EntryOf(k)' = EntryOf(k)
  BY <1>1 DEF EntryOf
<1>3. \A k : Key(k)' = Key(k) /\ Value(k)' = Value(k)
  BY <1>2 DEF Key, Value, index
<1>4. IndexOK => IndexOK'
  BY <1>1 DEF IndexOK, index, Capacity
<1> QED BY <1>1, <1>2, <1>3, <1>4 DEF SameEntries, index

LEMMA SameHeaders ==
  ASSUME MemInv, UNCHANGED blockIndex
  PROVE  HeadersKept
BY DEF HeadersKept, MemInv, MemTypes

\* The entry after the last is the entry of the next block.
LEMMA NextEntry ==
  ASSUME MemInv, blockIndex # <<>>
  PROVE  /\ Header.index[NextPos(Header)] = EntryOf(Listed)
         /\ NextPos(Header) = Ring(Header.tail, 1, Size) /\ NextPos(Header) \in 1 .. Size
         /\ PrevPos(Header) = Ring(Header.tail, -1, Size) /\ PrevPos(Header) \in 1 .. Size
<1>1. Size \in Nat \ {0, 1} /\ Header.tail \in 1 .. Size /\ Listed \in Nat
  BY Places, Tails
<1>2. Header.tail - 1 + 1 = Header.tail /\ Listed - (Listed - 1) = 1
        /\ Header.tail - 1 + (-1) = Header.tail - 2
  BY <1>1
<1>3. NextPos(Header) = Ring(Header.tail, 1, Size) /\ PrevPos(Header) = Ring(Header.tail, -1, Size)
  BY <1>2 DEF NextPos, PrevPos, Ring, Size
<1>4. Ring(Header.tail, 1, Size) \in 1 .. Size /\ Ring(Header.tail, -1, Size) \in 1 .. Size
  <2>1. Size \in Nat \ {0} /\ 1 \in Int /\ -1 \in Int
    BY <1>1
  <2> QED BY <1>1, <2>1, RingPlaces
<1> QED BY <1>2, <1>3, <1>4 DEF EntryOf

\* A live block is never in an entry that is vacant.
LEMMA NotVacant ==
  ASSUME MemInv, NEW k, Live(k)
  PROVE  ~Vacant(EntryOf(k))
<1>1. Key(k) = Start(k) /\ Value(k) \in Blocks /\ k \in Nat
  BY LiveBlocks
<1>2. Start(k) # 1
  BY <1>1, Starts0
<1> QED BY <1>1, <1>2 DEF Vacant, Key, Value, INVALID_BLOCK_BASE

LEMMA EnqueueMem ==
  ASSUME MemInv, Enqueue, CountInv'
  PROVE  MemInv'
<1>1. /\ pc = "idle" /\ tailIndex < MaxPosts
      /\ UNCHANGED <<counters, memory, index, tailBlock, cc, loc>>
  BY DEF Enqueue
<1>2. /\ pc' = "write" => Slot(tailIndex) # 0
      /\ pc' \in {"key", "grow"} => Slot(tailIndex) = 0 /\ blockIndex # <<>>
      /\ pc' = "key" => entry' = EntryOf(Listed) /\ Vacant(EntryOf(Listed))
      /\ pc' = "grow" => ~Vacant(EntryOf(Listed))
      /\ pc' \in {"write", "key", "grow"}
  <2>1. CASE Slot(tailIndex) # 0
    BY <2>1 DEF Enqueue, Slot
  <2>2. CASE Slot(tailIndex) = 0
    <3>1. blockIndex # <<>>
      BY <2>2 DEF Enqueue, Slot
    <3>2. Header.index[NextPos(Header)] = EntryOf(Listed)
      BY <3>1, NextEntry
    <3>3. IF Vacant(EntryOf(Listed)) THEN pc' = "key" /\ entry' = EntryOf(Listed) ELSE pc' = "grow"
      BY <2>2, <3>2 DEF Enqueue, Slot
    <3> QED BY <2>2, <3>1, <3>3
  <2> QED BY <2>1, <2>2
<1>3. Listed' = Listed /\ Made' = Made /\ tailIndex' = tailIndex /\ headIndex' = headIndex
  BY <1>1, <1>2 DEF Listed, Made, counters, Bit
<1>4. /\ \A k : EntryOf(k)' = EntryOf(k) /\ Key(k)' = Key(k) /\ Value(k)' = Value(k)
      /\ SameEntries /\ Size' = Size /\ IndexOK'
  BY <1>1, <1>3, SameIndex DEF MemInv
<1>5. SameStatus
  BY <1>1, <1>3, StatusOfPoster
<1>6. \A i \in Nat : Written(i)' => Written(i)
  BY <1>2, <1>3 DEF Written
<1>7. ASSUME NEW k \in Nat, Live(k) PROVE InReach(k)'
  <2>1. k + Size >= Listed /\ k < Listed /\ Listed \in Nat /\ blockIndex # <<>>
    BY <1>1, <1>7, LiveBlocks, Tails DEF InReach, Bit
  <2>2. Size \in Nat
    BY <2>1, Places
  <2>3. pc' = "key" => k + Size # Listed
    BY <1>2, <1>7, <2>1, NotVacant, Places
  <2> QED BY <1>2, <1>3, <1>4, <2>1, <2>2, <2>3 DEF InReach, Bit
<1>8. /\ BlocksOK'
      /\ \A k : Live(k)' <=> Live(k)
      /\ \A k \in Nat : Live(k) => Value(k)' = Value(k) /\ Key(k)' = Key(k)
  BY <1>1, <1>3, <1>4, <1>5, <1>6, <1>7, BlocksKept
<1>9. Given'
  BY <1>1, <1>8, GivenKept DEF memory
<1>10. ASSUME NEW c \in Consumers PROVE Reads(c)'
  <2>1. CASE cc[c] = "key"
    <3>1. ASSUME NEW m \in Nat, LedBy(c, m), m = Listed
          PROVE  Value(m) = nullptr /\ pc' \notin {"grow", "block"}
      BY <1>1, <1>2, <3>1 DEF LedBy, Vacant, Value
    <3>2. HeadersKept
      BY <1>1, SameHeaders DEF index
    <3> QED BY <1>1, <1>3, <1>4, <2>1, <3>1, <3>2, ReadsKept DEF LedBy
  <2>2. CASE cc[c] # "key"
    BY <1>1, <2>2 DEF Reads
  <2> QED BY <2>1, <2>2
<1>11. \A c \in Consumers : HolderOK(c)'
  BY <1>1, <1>3, <1>4, <1>5, <1>10, HoldersKept DEF memory
<1>12. MemTypes'
  BY <1>1, <1>2 DEF MemInv, MemTypes, memory, index, PSteps
<1>13. PosterOK'
  <2>1. tailIndex \in Nat /\ Listed \in Nat /\ Blk(tailIndex) \in Nat /\ Slot(tailIndex) \in Nat
    BY Tails, Division
  <2>2. blockIndex' # <<>>
    <3>1. CASE pc' = "write"
      <4>1. Slot(tailIndex) # 0
        BY <1>2, <3>1
      <4>2. 0 \in Nat /\ Slot(0) = 0
        <5>1. Start(0) = 0 /\ 0 \in 0 .. (BLOCK_SIZE - 1) /\ 0 + 0 = 0
          BY Starts0
        <5>2. Slot(Start(0) + 0) = 0
          BY <5>1, Composed
        <5> QED BY <5>1, <5>2
      <4>3. tailIndex > 0
        BY <2>1, <4>1, <4>2
      <4> QED BY <1>1, <4>3 DEF MemInv, PosterOK, index
    <3> QED BY <1>1, <1>2, <3>1 DEF index
  <2>3. /\ tailIndex' < MaxPosts
        /\ pc' \in {"grow", "key", "insert", "block"} => Slot(tailIndex') = 0
    BY <1>1, <1>2, <1>3
  <2>4. pc' = "key" => entry' = EntryOf(Blk(tailIndex))' /\ entries'[entry'].value = nullptr
    <3> SUFFICES ASSUME pc' = "key" PROVE entry' = EntryOf(Blk(tailIndex))'
                   /\ entries'[entry'].value = nullptr
      OBVIOUS
    <3>1. Slot(tailIndex) = 0 /\ blockIndex # <<>> /\ entry' = EntryOf(Listed) /\ Vacant(EntryOf(Listed))
      BY <1>2
    <3>2. Listed = Blk(tailIndex)
      BY <1>1, <2>1, <3>1 DEF Listed, Bit
    <3>3. EntryOf(Listed) \in 1 .. Len(entries)
      BY <2>1, <3>1, Places
    <3>4. entries[EntryOf(Listed)].value = nullptr
      BY <3>1, <3>3 DEF Vacant, MemInv, IndexOK
    <3> QED BY <1>1, <1>3, <1>4, <3>1, <3>2, <3>4 DEF index
  <2>5. pc' \notin {"insert", "block"}
    BY <1>2
  <2>6. /\ Made' > 0 => Key(Made - 1)' = Start(Made - 1)' /\ tailBlock' # nullptr
        /\ Live(Made - 1)' => tailBlock' = Value(Made - 1)'
    BY <1>1, <1>3, <1>4, <1>8 DEF MemInv, PosterOK, Start
  <2>7. tailIndex' <= MaxPosts
    BY <1>1, <1>3, <2>1
  <2> QED BY <1>2, <1>3, <2>2, <2>3, <2>4, <2>5, <2>6, <2>7 DEF PosterOK
<1> QED BY <1>4, <1>8, <1>9, <1>11, <1>12, <1>13 DEF MemInv

\* What PosterOK says of the last block.
LastOK ==
  /\ Made > 0 => Key(Made - 1) = Start(Made - 1) /\ tailBlock # nullptr
  /\ Live(Made - 1) => tailBlock = Value(Made - 1)

\* A step of the poster that leaves index and memory alone.
LEMMA PosterQuiet ==
  ASSUME MemInv, UNCHANGED <<headIndex, memory, index, cc, loc, tailBlock>>,
         Listed' = Listed, Made' = Made, pc' = "idle", \A i \in Nat : Written(i)' => Written(i)
  PROVE  /\ MemTypes' /\ IndexOK' /\ LastOK' /\ BlocksOK' /\ Given'
         /\ \A c \in Consumers : HolderOK(c)'
<1>1. /\ \A k : EntryOf(k)' = EntryOf(k) /\ Key(k)' = Key(k) /\ Value(k)' = Value(k)
      /\ SameEntries /\ Size' = Size /\ IndexOK'
  BY SameIndex DEF MemInv
<1>2. SameStatus
  BY StatusOfPoster
<1>3. ASSUME NEW k \in Nat, Live(k) PROVE InReach(k)'
  <2>1. InReach(k) /\ Listed \in Nat /\ blockIndex # <<>>
    BY <1>3, LiveBlocks, Tails
  <2>2. Size \in Nat
    BY <2>1, Places
  <2> QED BY <1>1, <2>1, <2>2 DEF InReach, Bit
<1>4. /\ BlocksOK'
      /\ \A k : Live(k)' <=> Live(k)
      /\ \A k \in Nat : Live(k) => Value(k)' = Value(k) /\ Key(k)' = Key(k)
  BY <1>1, <1>2, <1>3, BlocksKept
<1>5. Given'
  BY <1>4, GivenKept DEF memory
<1>6. ASSUME NEW c \in Consumers PROVE Reads(c)'
  <2>1. CASE cc[c] = "key"
    <3>1. HeadersKept
      BY SameHeaders DEF index
    <3> QED BY <1>1, <2>1, <3>1, ReadsKept DEF LedBy
  <2>2. CASE cc[c] # "key"
    BY <2>2 DEF Reads
  <2> QED BY <2>1, <2>2
<1>7. \A c \in Consumers : HolderOK(c)'
  BY <1>1, <1>2, <1>6, HoldersKept DEF memory
<1>8. MemTypes'
  BY DEF MemInv, MemTypes, memory, index, PSteps
<1>9. LastOK'
  BY <1>1, <1>4 DEF MemInv, PosterOK, LastOK, Start
<1> QED BY <1>1, <1>4, <1>5, <1>7, <1>8, <1>9

LEMMA NewBlockIndexFailsMem ==
  ASSUME MemInv, NewBlockIndexFails, CountInv'
  PROVE  MemInv'
<1>1. /\ pc = "grow" /\ pc' = "idle" /\ UNCHANGED <<counters, memory, index, tailBlock, cc, loc>>
  BY DEF NewBlockIndexFails
<1>2. Listed' = Listed /\ Made' = Made /\ UNCHANGED <<tailIndex, headIndex>>
  BY <1>1 DEF Listed, Made, counters
<1>3. \A i \in Nat : Written(i)' => Written(i)
  BY <1>1, <1>2 DEF Written
<1>4. /\ MemTypes' /\ IndexOK' /\ LastOK' /\ BlocksOK' /\ Given'
      /\ \A c \in Consumers : HolderOK(c)'
  BY <1>1, <1>2, <1>3, PosterQuiet
<1>5. PosterOK'
  BY <1>1, <1>2, <1>4 DEF PosterOK, LastOK, MemInv, index
<1> QED BY <1>4, <1>5 DEF MemInv

LEMMA PublishMem ==
  ASSUME MemInv, Publish, CountInv'
  PROVE  MemInv'
<1>1. /\ pc = "publish" /\ pc' = "idle" /\ tailIndex' = tailIndex + 1
      /\ UNCHANGED <<headIndex, memory, index, tailBlock, cc, loc>>
  BY DEF Publish
<1>2. tailIndex \in Nat /\ Blk(tailIndex) \in Nat /\ Made = Blk(tailIndex) + 1 /\ Listed = Made
  BY <1>1, Tails DEF Bit
<1>3. Listed' = Listed /\ Made' = Made
  <2>1. CASE Slot(tailIndex + 1) = 0
    <3>1. Blk(tailIndex + 1) = Blk(tailIndex) + 1
      BY <1>2, <2>1, BlkNext
    <3> QED BY <1>1, <1>2, <2>1, <3>1 DEF Listed, Made, Bit
  <2>2. CASE Slot(tailIndex + 1) # 0
    <3>1. Blk(tailIndex + 1) = Blk(tailIndex)
      BY <1>2, <2>2, BlkNext
    <3> QED BY <1>1, <1>2, <2>2, <3>1 DEF Listed, Made, Bit
  <2> QED BY <2>1, <2>2
<1>4. \A i \in Nat : Written(i)' => Written(i)
  BY <1>1, <1>2 DEF Written
<1>5. /\ MemTypes' /\ IndexOK' /\ LastOK' /\ BlocksOK' /\ Given'
      /\ \A c \in Consumers : HolderOK(c)'
  BY <1>1, <1>3, <1>4, PosterQuiet
<1>6. tailIndex + 1 <= MaxPosts
  BY <1>1, <1>2 DEF MemInv, PosterOK
<1>7. PosterOK'
  BY <1>1, <1>5, <1>6 DEF PosterOK, LastOK, MemInv, index
<1> QED BY <1>5, <1>7 DEF MemInv

LEMMA StoreKeyMem ==
  ASSUME MemInv, StoreKey, CountInv'
  PROVE  MemInv'
<1>1. /\ pc = "key" /\ pc' = "insert" /\ entries' = [entries EXCEPT ![entry].key = tailIndex]
      /\ UNCHANGED <<counters, memory, blockIndex, entry, tailBlock, cc, loc>>
  BY DEF StoreKey
<1>2. Listed' = Listed /\ Made' = Made /\ UNCHANGED <<tailIndex, headIndex>>
  BY <1>1 DEF Listed, Made, counters
<1>3. /\ tailIndex \in Nat /\ Slot(tailIndex) = 0 /\ tailIndex = Start(Blk(tailIndex))
      /\ Blk(tailIndex) \in Nat /\ Listed = Blk(tailIndex) /\ Made = Listed
  BY <1>1, Tails DEF Listed, Made, Bit
<1>4. /\ blockIndex # <<>> /\ entry = EntryOf(Listed) /\ entries[entry].value = nullptr
  BY <1>1, <1>3 DEF MemInv, PosterOK
<1>5. /\ Size \in Nat \ {0, 1} /\ entry \in 1 .. Len(entries) /\ entries[entry] \in Entry
  BY <1>3, <1>4, Places
<1>6. /\ Header' = Header /\ Size' = Size /\ \A k : EntryOf(k)' = EntryOf(k)
  BY <1>1, <1>2 DEF Header, Size, EntryOf
<1>7. /\ entries' \in Seq(Entry) /\ Len(entries') = Len(entries)
      /\ entries'[entry].key = tailIndex /\ entries'[entry].value = nullptr
      /\ \A e \in 1 .. Len(entries) : e # entry => entries'[e] = entries[e]
  <2>1. entries \in Seq(Entry)
    BY DEF MemInv, MemTypes
  <2>2. [entries[entry] EXCEPT !.key = tailIndex] \in Entry
    BY <1>3, <1>5 DEF Entry
  <2>3. entries' = [entries EXCEPT ![entry] = [entries[entry] EXCEPT !.key = tailIndex]]
    BY <1>1
  <2>4. /\ [entries[entry] EXCEPT !.key = tailIndex].key = tailIndex
        /\ [entries[entry] EXCEPT !.key = tailIndex].value = entries[entry].value
    BY <1>5 DEF Entry
  <2> QED BY <1>4, <1>5, <2>1, <2>2, <2>3, <2>4
\* The entry is that of no block that a reader still needs.
<1>8. \A k \in Nat : k < Listed /\ k + Size >= Listed + 1 => EntryOf(k) # entry
        /\ EntryOf(k) \in 1 .. Len(entries)
  <2> SUFFICES ASSUME NEW k \in Nat, k < Listed, k + Size >= Listed + 1
               PROVE  EntryOf(k) # entry /\ EntryOf(k) \in 1 .. Len(entries)
    OBVIOUS
  <2>1. k \in Int /\ Listed \in Int /\ k # Listed /\ k - Listed < Size /\ Listed - k < Size
    BY <1>3, <1>5
  <2> QED BY <1>4, <2>1, Places
<1>9. SameEntries
  <2> SUFFICES ASSUME NEW k \in Nat, Live(k) PROVE entries'[EntryOf(k)] = entries[EntryOf(k)]
    BY <1>6 DEF SameEntries
  <2>1. k < Listed /\ k + Size >= Listed + 1
    BY <1>1, <1>3, LiveBlocks DEF InReach, Bit
  <2> QED BY <1>7, <1>8, <2>1
<1>10. SameStatus
  BY <1>1, <1>2, StatusOfPoster
<1>11. \A i \in Nat : Written(i)' => Written(i)
  BY <1>1, <1>2 DEF Written
<1>12. ASSUME NEW k \in Nat, Live(k) PROVE InReach(k)'
  <2>1. InReach(k)
    BY <1>12, LiveBlocks
  <2> QED BY <1>1, <1>2, <1>6, <2>1 DEF InReach, Bit
<1>13. /\ BlocksOK'
       /\ \A k : Live(k)' <=> Live(k)
       /\ \A k \in Nat : Live(k) => Value(k)' = Value(k) /\ Key(k)' = Key(k)
  BY <1>1, <1>2, <1>9, <1>10, <1>11, <1>12, BlocksKept
<1>14. Given'
  BY <1>1, <1>13, GivenKept DEF memory
<1>15. ASSUME NEW c \in Consumers PROVE Reads(c)'
  <2>1. CASE cc[c] = "key"
    <3>1. /\ Blk(loc[c].index) \in Nat /\ Live(Blk(loc[c].index))
          /\ Blk(loc[c].index) + Size >= Listed + 1
      BY <1>1, <2>1, HolderLive, LiveBlocks DEF Holding, InReach, Bit
    <3>2. ASSUME NEW m \in Nat, LedBy(c, m)
          PROVE  /\ m <= Listed' /\ EntryOf(m)' = EntryOf(m) /\ Key(m)' = Key(m)
                 /\ m = Listed' => pc' \notin {"grow", "block"} /\ Value(m)' = nullptr
      <4>1. Blk(loc[c].index) <= m /\ m <= Listed /\ Key(m) = Start(m)
        BY <3>2 DEF LedBy
      <4>2. CASE m = Listed
        <5>1. EntryOf(m) = entry /\ Key(m) = tailIndex
          BY <1>3, <1>4, <4>1, <4>2
        <5> QED BY <1>1, <1>2, <1>6, <1>7, <4>1, <4>2, <5>1 DEF Key, Value
      <4>3. CASE m # Listed
        <5>1. m < Listed /\ m + Size >= Listed + 1
          BY <1>3, <1>5, <3>1, <4>1, <4>3
        <5>2. entries'[EntryOf(m)] = entries[EntryOf(m)]
          BY <1>7, <1>8, <5>1
        <5> QED BY <1>2, <1>6, <4>1, <4>3, <5>2 DEF Key
      <4> QED BY <4>2, <4>3
    <3>3. HeadersKept
      BY <1>1, SameHeaders
    <3> QED BY <1>1, <1>6, <2>1, <3>2, <3>3, ReadsKept
  <2>2. CASE cc[c] # "key"
    BY <1>1, <2>2 DEF Reads
  <2> QED BY <2>1, <2>2
<1>16. \A c \in Consumers : HolderOK(c)'
  BY <1>1, <1>2, <1>9, <1>10, <1>15, HoldersKept DEF memory
<1>17. MemTypes'
  BY <1>1, <1>7 DEF MemInv, MemTypes, memory, PSteps
<1>18. IndexOK'
  <2>1. IndexOK
    BY DEF MemInv
  <2>2. \A e \in 1 .. Len(entries') : entries'[e].key = INVALID_BLOCK_BASE => entries'[e].value = nullptr
    BY <1>7, <2>1 DEF IndexOK
  <2> QED BY <1>1, <1>6, <1>7, <2>1, <2>2 DEF IndexOK
<1>19. LastOK'
  <2>1. ASSUME Made > 0 PROVE Key(Made - 1)' = Key(Made - 1) /\ Value(Made - 1)' = Value(Made - 1)
    <3>1. Made - 1 \in Nat /\ Made - 1 < Listed /\ Made - 1 + Size >= Listed + 1
      BY <1>3, <1>5, <2>1
    <3>2. entries'[EntryOf(Made - 1)] = entries[EntryOf(Made - 1)]
      BY <1>7, <1>8, <3>1
    <3> QED BY <1>2, <1>6, <3>2 DEF Key, Value
  <2>2. Live(Made - 1) => Made > 0
    BY <1>3, LiveBlocks
  <2>3. Live(Made - 1)' <=> Live(Made - 1)
    BY <1>2, <1>13
  <2> QED BY <1>1, <1>2, <2>1, <2>2, <2>3 DEF MemInv, PosterOK, LastOK, Start
<1>20. PosterOK'
  <2>1. entry' = EntryOf(Blk(tailIndex))' /\ entries'[entry'].value = nullptr
          /\ entries'[entry'].key = tailIndex'
    BY <1>1, <1>2, <1>3, <1>4, <1>6, <1>7
  <2> QED BY <1>1, <1>2, <1>3, <1>4, <1>19, <2>1 DEF PosterOK, LastOK, MemInv
<1> QED BY <1>13, <1>14, <1>16, <1>17, <1>18, <1>20 DEF MemInv

\* new_block_index: the entries of the blocks listed are where they were, the next is new.
LEMMA Regrown ==
  ASSUME MemInv, NewBlockIndex
  PROVE  /\ Len(entries) = Size /\ Size \in Nat \ {0, 1} /\ Listed \in Nat /\ Listed' = Listed
         /\ Header' = [index |-> Rotated(Header) \o [i \in 1 .. Size |-> Size + i], tail |-> Size]
         /\ Capacity(Header)' = 2 * Size /\ Header'.index \in Seq(Nat)
         /\ \A i \in 1 .. Size : /\ Header'.index[i] = Header.index[Ring(Header.tail, i, Size)]
                                 /\ Header'.index[Size + i] = Size + i
         /\ \A k \in Nat : k < Listed /\ k + Size >= Listed =>
              EntryOf(k)' = EntryOf(k) /\ EntryOf(k) \in 1 .. Len(entries)
         /\ EntryOf(Listed)' = Size + 1
<1>1. /\ pc = "grow" /\ pc' = "key" /\ tailIndex' = tailIndex
      /\ blockIndex' = Append(blockIndex,
            [index |-> Rotated(Header) \o [i \in 1 .. Size |-> Size + i], tail |-> Size])
  BY DEF NewBlockIndex, Size, counters
<1>2. blockIndex # <<>> /\ Listed \in Nat
  BY <1>1, Tails DEF MemInv, PosterOK
<1>3. /\ Len(entries) = Size /\ Size \in Nat \ {0, 1} /\ Header.tail \in 1 .. Size
      /\ \A k \in Int : EntryOf(k) \in 1 .. Len(entries)
  BY <1>2, Places
<1>4. Listed' = Listed
  BY <1>1 DEF Listed, Bit
<1> DEFINE new == [index |-> Rotated(Header) \o [i \in 1 .. Size |-> Size + i], tail |-> Size]
<1>5. Header' = new
  <2>1. Len(blockIndex) \in Nat /\ Len(blockIndex') = Len(blockIndex) + 1
          /\ blockIndex'[Len(blockIndex) + 1] = new
    BY <1>1 DEF MemInv, MemTypes
  <2> QED BY <2>1 DEF Header
<1>6. PICK n \in Nat \ {0, 1}, t \in Nat, L \in Nat, x \in {Header.index} :
        t \in 1 .. n /\ n = Size /\ t = Header.tail /\ L = Listed /\ x = Header.index
  BY <1>2, <1>3
<1>7. Rotated(Header) = [i \in 1 .. n |-> x[Ring(t, i, n)]]
  <2>1. \A i \in 1 .. n : t + i - 1 = t - 1 + i
    OBVIOUS
  <2>2. Rotated(Header) = [i \in 1 .. n |-> x[((t + i - 1) % n) + 1]]
    BY <1>6 DEF Rotated, Size
  <2> QED BY <2>1, <2>2 DEF Ring
<1>8. /\ Len(new.index) = 2 * n /\ new.index \in Seq(Nat)
      /\ \A i \in 1 .. n : new.index[i] = x[Ring(t, i, n)] /\ new.index[n + i] = n + i
  <2>1. new.index = [i \in 1 .. n |-> x[Ring(t, i, n)]] \o [i \in 1 .. n |-> n + i]
    BY <1>6, <1>7
  <2>2. PICK a, b : /\ a = [i \in 1 .. n |-> x[Ring(t, i, n)]] /\ b = [i \in 1 .. n |-> n + i]
                    /\ new.index = a \o b
    BY <2>1
  <2>3. a \in Seq(Nat) /\ b \in Seq(Nat) /\ Len(a) = n /\ Len(b) = n
    <3>1. n \in Nat /\ (\A i \in 1 .. n : x[Ring(t, i, n)] \in Nat /\ n + i \in Nat)
      <4>1. x \in Seq(Nat) /\ Len(x) = n
        <5>1. Len(blockIndex) \in Nat \ {0} /\ Header = blockIndex[Len(blockIndex)]
          BY <1>2, Places
        <5>2. blockIndex[Len(blockIndex)] \in [index : Seq(Nat), tail : Nat]
          <6>1. \A S : \A s \in Seq(S) : \A i \in 1 .. Len(s) : s[i] \in S
            OBVIOUS
          <6>2. blockIndex \in Seq([index : Seq(Nat), tail : Nat])
            BY DEF MemInv, MemTypes
          <6>3. Len(blockIndex) \in 1 .. Len(blockIndex)
            BY <5>1
          <6> QED BY <6>1, <6>2, <6>3
        <5>3. Header.index \in Seq(Nat) /\ Len(Header.index) = Size
          BY <5>1, <5>2 DEF Size, Capacity
        <5> QED BY <1>6, <5>3
      <4>2. t \in 1 .. n
        BY <1>6
      <4>3. \A i \in 1 .. n : Ring(t, i, n) \in 1 .. n
        <5> SUFFICES ASSUME NEW i \in 1 .. n PROVE Ring(t, i, n) \in 1 .. n
          OBVIOUS
        <5>1. n \in Nat \ {0} /\ i \in Int
          OBVIOUS
        <5> QED BY <4>2, <5>1, RingPlaces
      <4>4. \A i \in 1 .. n : x[Ring(t, i, n)] \in Nat
        <5>1. \A y \in 1 .. n : x[y] \in Nat
          BY <4>1
        <5> QED BY <4>3, <5>1
      <4>5. \A i \in 1 .. n : n + i \in Nat
        OBVIOUS
      <4> QED BY <4>4, <4>5
    <3>2. a \in [1 .. n -> Nat] /\ b \in [1 .. n -> Nat]
      BY <2>2, <3>1
    <3>3. \A f \in [1 .. n -> Nat] : f \in Seq(Nat) /\ Len(f) = n
      BY <3>1
    <3> QED BY <3>2, <3>3
  <2>4. /\ Len(a \o b) = n + n /\ a \o b \in Seq(Nat)
        /\ \A i \in 1 .. n : (a \o b)[i] = a[i] /\ (a \o b)[n + i] = b[i]
    <3> HIDE <2>2
    <3> QED BY <2>3
  <2>5. n + n = 2 * n
    OBVIOUS
  <2>6. \A i \in 1 .. n : a[i] = x[Ring(t, i, n)] /\ b[i] = n + i
    BY <2>2
  <2> HIDE DEF new
  <2> QED BY <2>2, <2>4, <2>5, <2>6
<1>9. Capacity(Header)' = 2 * Size
  BY <1>5, <1>6, <1>8 DEF Capacity
<1>10. \A k : EntryOf(k)' = new.index[Ring(n, k - (L - 1), 2 * n)]
  BY <1>4, <1>5, <1>6, <1>9 DEF EntryOf, Size
<1>11. ASSUME NEW k \in Nat, k < L, k + n >= L PROVE EntryOf(k)' = EntryOf(k)
  <2>1. PICK d \in Int : d = k - (L - 1)
    OBVIOUS
  <2>2. n + d \in 1 .. n /\ n + d \in 1 .. (2 * n) /\ 2 * n \in Nat \ {0} /\ n \in 1 .. (2 * n)
    BY <1>11, <2>1
  <2>3. Ring(n, d, 2 * n) = n + d
    <3>1. \A N \in Nat \ {0} : n \in 1 .. N /\ n + d \in 1 .. N => Ring(n, d, N) = n + d
      BY RingPlaces
    <3> QED BY <2>2, <3>1
  <2>4. new.index[n + d] = x[Ring(t, n + d, n)]
    BY <1>8, <2>2
  <2>5. Ring(t, n + d, n) = Ring(t, d, n)
    <3>1. n \in Nat \ {0} /\ d + n = n + d /\ 0 \in Int
      OBVIOUS
    <3>2. t \in 1 .. n
      BY <1>6
    <3>3. Ring(t, d + n, n) = Ring(t, d, n)
      BY <3>1, <3>2, RingRound
    <3> QED BY <3>1, <3>3
  <2>6. EntryOf(k) = x[Ring(t, d, n)]
    BY <1>6, <2>1 DEF EntryOf
  <2> HIDE DEF new
  <2> QED BY <1>10, <2>1, <2>3, <2>4, <2>5, <2>6
<1>12. EntryOf(L)' = n + 1
  <2>1. L - (L - 1) = 1 /\ 1 \in 1 .. n /\ 2 * n \in Nat \ {0} /\ n \in 1 .. (2 * n) /\ n + 1 \in 1 .. (2 * n)
    OBVIOUS
  <2>2. Ring(n, 1, 2 * n) = n + 1
    <3>1. 1 \in Int /\ 0 \in Int
      OBVIOUS
    <3>2. \A N \in Nat \ {0} : n \in 1 .. N /\ n + 1 \in 1 .. N => Ring(n, 1, N) = n + 1
      BY <3>1, RingPlaces
    <3> QED BY <2>1, <3>2
  <2>3. new.index[n + 1] = n + 1
    BY <1>8, <2>1
  <2> HIDE DEF new
  <2>4. EntryOf(L)' = new.index[Ring(n, 1, 2 * n)]
    <3>1. EntryOf(L)' = new.index[Ring(n, L - (L - 1), 2 * n)]
      BY <1>10
    <3> QED BY <2>1, <3>1
  <2> QED BY <2>2, <2>3, <2>4
<1>13. Len(entries) = n /\ (\A k \in Nat : EntryOf(k) \in 1 .. Len(entries)) /\ Header' = new
  <2>1. \A k \in Nat : k \in Int
    OBVIOUS
  <2>2. \A k \in Nat : EntryOf(k) \in 1 .. Len(entries)
    BY <1>3, <2>1
  <2>3. Len(entries) = n
    BY <1>3, <1>6
  <2> QED BY <1>5, <2>2, <2>3
<1> HIDE DEF new
<1>14. /\ Header'.index \in Seq(Nat)
       /\ \A i \in 1 .. Size : /\ Header'.index[i] = Header.index[Ring(Header.tail, i, Size)]
                               /\ Header'.index[Size + i] = Size + i
  BY <1>6, <1>8, <1>13
<1>15. \A k \in Nat : k < Listed /\ k + Size >= Listed =>
              EntryOf(k)' = EntryOf(k) /\ EntryOf(k) \in 1 .. Len(entries)
  BY <1>6, <1>11, <1>13
<1>16. EntryOf(Listed)' = Size + 1
  BY <1>4, <1>6, <1>12
<1> QED BY <1>3, <1>2, <1>4, <1>5, <1>9, <1>14, <1>15, <1>16 DEF new

LEMMA NewBlockIndexMem ==
  ASSUME MemInv, NewBlockIndex, CountInv'
  PROVE  MemInv'
<1>1. /\ pc = "grow" /\ pc' = "key" /\ entry' = Size + 1
      /\ UNCHANGED <<counters, memory, tailBlock, cc, loc>>
      /\ entries' = entries \o [i \in 1 .. Size |-> EmptyEntry]
      /\ blockIndex' = Append(blockIndex,
            [index |-> Rotated(Header) \o [i \in 1 .. Size |-> Size + i], tail |-> Size])
  BY DEF NewBlockIndex, Size
<1>2. /\ Len(entries) = Size /\ Size \in Nat \ {0, 1} /\ Listed' = Listed
      /\ Header' = [index |-> Rotated(Header) \o [i \in 1 .. Size |-> Size + i], tail |-> Size]
      /\ Capacity(Header)' = 2 * Size /\ Size' = 2 * Size /\ Header'.index \in Seq(Nat)
      /\ \A i \in 1 .. Size : /\ Header'.index[i] = Header.index[Ring(Header.tail, i, Size)]
                              /\ Header'.index[Size + i] = Size + i
      /\ \A k \in Nat : k < Listed /\ k + Size >= Listed =>
           EntryOf(k)' = EntryOf(k) /\ EntryOf(k) \in 1 .. Len(entries)
      /\ EntryOf(Listed)' = Size + 1
  BY Regrown DEF Size
<1>3. /\ tailIndex \in Nat /\ Slot(tailIndex) = 0 /\ tailIndex = Start(Blk(tailIndex))
      /\ Blk(tailIndex) \in Nat /\ Listed = Blk(tailIndex) /\ Made = Listed
  BY <1>1, Tails DEF Listed, Made, Bit
<1>4. Made' = Made /\ UNCHANGED <<tailIndex, headIndex>>
  BY <1>1 DEF Made, counters
<1>5. blockIndex # <<>>
  BY <1>1 DEF MemInv, PosterOK
<1>6. /\ entries' \in Seq(Entry) /\ Len(entries') = 2 * Size
      /\ \A e \in 1 .. Len(entries) : e \in 1 .. Len(entries') /\ entries'[e] = entries[e]
      /\ \A e \in 1 .. Len(entries') : e > Size => entries'[e] = EmptyEntry
  <2>1. EmptyEntry \in Entry
    BY DEF EmptyEntry, Entry, INVALID_BLOCK_BASE, Values
  <2>2. PICK n \in Nat, s \in Seq(Entry) : n = Size /\ s = entries
    BY <1>2 DEF MemInv, MemTypes
  <2>b. PICK b : b = [i \in 1 .. n |-> EmptyEntry]
    OBVIOUS
  <2>3. b \in Seq(Entry) /\ Len(b) = n /\ \A i \in 1 .. n : b[i] = EmptyEntry
    BY <2>1, <2>b
  <2>4. /\ s \o b \in Seq(Entry) /\ Len(s \o b) = Len(s) + n
        /\ \A e \in 1 .. Len(s) : e \in 1 .. Len(s \o b) /\ (s \o b)[e] = s[e]
        /\ \A e \in 1 .. Len(s \o b) : e > Len(s) => (s \o b)[e] = b[e - Len(s)]
    BY <2>3
  <2>5. \A e \in 1 .. (n + n) : e > n => e - n \in 1 .. n
    OBVIOUS
  <2>6. Len(s) = n /\ n + n = 2 * n /\ entries' = s \o b
    BY <1>1, <1>2, <2>2, <2>b
  <2> QED BY <2>2, <2>3, <2>4, <2>5, <2>6
<1>7. SameEntries
  <2> SUFFICES ASSUME NEW k \in Nat, Live(k)
               PROVE  EntryOf(k)' = EntryOf(k) /\ entries'[EntryOf(k)] = entries[EntryOf(k)]
    BY DEF SameEntries
  <2>1. k < Listed /\ k + Size >= Listed
    BY <1>1, <1>2, <1>3, LiveBlocks DEF InReach, Bit
  <2> QED BY <1>2, <1>6, <2>1
<1>8. SameStatus
  BY <1>1, <1>4, StatusOfPoster
<1>9. \A i \in Nat : Written(i)' => Written(i)
  BY <1>1, <1>4 DEF Written
<1>10. ASSUME NEW k \in Nat, Live(k) PROVE InReach(k)'
  <2>1. InReach(k)
    BY <1>10, LiveBlocks
  <2>2. k + Size >= Listed /\ Size \in Nat \ {0, 1} /\ Listed \in Nat /\ Size' = 2 * Size
    BY <1>1, <1>2, <1>3, <2>1 DEF InReach, Bit
  <2>3. k + 2 * Size >= Listed + 1
    BY <2>2
  <2> QED BY <1>1, <1>2, <2>2, <2>3 DEF InReach, Bit
<1>11. /\ BlocksOK'
       /\ \A k : Live(k)' <=> Live(k)
       /\ \A k \in Nat : Live(k) => Value(k)' = Value(k) /\ Key(k)' = Key(k)
  BY <1>1, <1>4, <1>7, <1>8, <1>9, <1>10, BlocksKept
<1>12. Given'
  BY <1>1, <1>11, GivenKept DEF memory
<1>13. ASSUME NEW k \in Nat, k < Listed, k + Size >= Listed
       PROVE  EntryOf(k)' = EntryOf(k) /\ Key(k)' = Key(k) /\ Value(k)' = Value(k)
  BY <1>2, <1>6, <1>13 DEF Key, Value
<1>14. ASSUME NEW c \in Consumers PROVE Reads(c)'
  <2>1. CASE cc[c] = "key"
    <3>1. /\ Blk(loc[c].index) \in Nat /\ Blk(loc[c].index) < Listed
          /\ Blk(loc[c].index) + Size >= Listed
      <4>1. Blk(loc[c].index) \in Nat /\ Live(Blk(loc[c].index))
        BY <2>1, HolderLive DEF Holding
      <4> QED BY <1>1, <1>2, <1>3, <4>1, LiveBlocks DEF InReach, Bit
    <3>2. ASSUME NEW m \in Nat, LedBy(c, m)
          PROVE  m <= Listed' /\ m # Listed' /\ EntryOf(m)' = EntryOf(m) /\ Key(m)' = Key(m)
      <4>1. Blk(loc[c].index) <= m /\ m <= Listed /\ m # Listed
        BY <1>1, <3>2 DEF LedBy
      <4>2. m < Listed /\ m + Size >= Listed
        BY <1>2, <1>3, <3>1, <4>1
      <4> QED BY <1>2, <1>13, <4>1, <4>2
    <3>3. HeadersKept
      <4>0. PICK s \in Seq([index : Seq(Nat), tail : Nat]) : s = blockIndex
        BY DEF MemInv, MemTypes
      <4>1. PICK h : blockIndex' = Append(s, h)
        BY <1>1, <4>0
      <4>2. Len(Append(s, h)) = Len(s) + 1 /\ \A n \in 1 .. Len(s) : Append(s, h)[n] = s[n]
        OBVIOUS
      <4> QED BY <4>0, <4>1, <4>2 DEF HeadersKept
    <3>4. EntryOf(Blk(loc[c].index))' = EntryOf(Blk(loc[c].index))
      BY <1>1, <1>13, <3>1
    <3>5. loc'[c] = loc[c]
      BY <1>1
    <3> QED BY <2>1, <3>2, <3>3, <3>4, <3>5, <1>1, ReadsKept
  <2>2. CASE cc[c] # "key"
    BY <1>1, <2>2 DEF Reads
  <2> QED BY <2>1, <2>2
<1>15. \A c \in Consumers : HolderOK(c)'
  BY <1>1, <1>4, <1>7, <1>8, <1>14, HoldersKept DEF memory
<1>16. /\ blockIndex' \in Seq([index : Seq(Nat), tail : Nat]) /\ blockIndex' # <<>>
       /\ Len(blockIndex') = Len(blockIndex) + 1 /\ blockIndex'[Len(blockIndex) + 1] = Header'
       /\ \A n \in 1 .. Len(blockIndex) : blockIndex'[n] = blockIndex[n]
       /\ Len(blockIndex) \in Nat
  <2>1. Header' \in [index : Seq(Nat), tail : Nat]
    <3>1. PICK x : Header' = [index |-> x, tail |-> Size]
      BY <1>2
    <3>2. x \in Seq(Nat) /\ Size \in Nat
      <4>1. Header'.index = x
        BY <3>1
      <4> QED BY <1>2, <4>1
    <3> QED BY <3>1, <3>2
  <2>2. PICK h, s : h = Header' /\ s = blockIndex /\ h \in [index : Seq(Nat), tail : Nat]
                    /\ s \in Seq([index : Seq(Nat), tail : Nat]) /\ blockIndex' = Append(s, h)
    BY <1>1, <1>2, <2>1 DEF MemInv, MemTypes
  <2>3. /\ Append(s, h) \in Seq([index : Seq(Nat), tail : Nat]) /\ Len(Append(s, h)) = Len(s) + 1
        /\ Append(s, h)[Len(s) + 1] = h /\ Len(s) \in Nat /\ Append(s, h) # <<>>
        /\ \A n \in 1 .. Len(s) : Append(s, h)[n] = s[n]
    <3>1. \A S : \A z \in Seq(S), y \in S :
            /\ Append(z, y) \in Seq(S) /\ Len(Append(z, y)) = Len(z) + 1
            /\ Append(z, y)[Len(z) + 1] = y /\ Len(z) \in Nat
            /\ \A n \in 1 .. Len(z) : Append(z, y)[n] = z[n]
      OBVIOUS
    <3>2. h \in [index : Seq(Nat), tail : Nat] /\ s \in Seq([index : Seq(Nat), tail : Nat])
      BY <2>2
    <3>3. /\ Append(s, h) \in Seq([index : Seq(Nat), tail : Nat]) /\ Len(Append(s, h)) = Len(s) + 1
          /\ Append(s, h)[Len(s) + 1] = h /\ Len(s) \in Nat
          /\ \A n \in 1 .. Len(s) : Append(s, h)[n] = s[n]
      BY <3>1, <3>2
    <3>4. Append(s, h) # <<>>
      <4>1. Len(<<>>) = 0 /\ Len(Append(s, h)) # 0
        BY <3>3
      <4> QED BY <4>1
    <3> QED BY <3>3, <3>4
  <2> QED BY <2>2, <2>3
<1>17. MemTypes'
  BY <1>1, <1>6, <1>16 DEF MemInv, MemTypes, memory, PSteps
<1>18. IndexOK'
  <2>1. /\ IndexOK /\ Header.tail \in 1 .. Size /\ Header = blockIndex[Len(blockIndex)]
        /\ \A j \in 1 .. Size : Header.index[j] \in 1 .. Size
        /\ \A i, j \in 1 .. Size : Header.index[i] = Header.index[j] => i = j
    <3>1. Len(blockIndex) \in 1 .. Len(blockIndex) /\ Header = blockIndex[Len(blockIndex)]
            /\ Header.tail \in 1 .. Size
      BY <1>5, <1>16, Places
    <3>2. IndexOK
      BY DEF MemInv
    <3>3. /\ \A j \in 1 .. Size : Header.index[j] \in 1 .. Len(entries)
          /\ \A i, j \in 1 .. Size : Header.index[i] = Header.index[j] => i = j
      BY <3>1, <3>2 DEF IndexOK, Size
    <3> QED BY <1>2, <3>1, <3>2, <3>3
  <2>2. \A e \in 1 .. Len(entries') : entries'[e].key = INVALID_BLOCK_BASE => entries'[e].value = nullptr
    <3> SUFFICES ASSUME NEW e \in 1 .. Len(entries'), entries'[e].key = INVALID_BLOCK_BASE
                 PROVE  entries'[e].value = nullptr
      OBVIOUS
    <3>1. CASE e > Size
      BY <1>6, <3>1 DEF EmptyEntry
    <3>2. CASE e <= Size
      BY <1>2, <1>6, <2>1, <3>2 DEF IndexOK
    <3> QED BY <1>2, <3>1, <3>2
  <2>3. \A i \in 1 .. Size : Ring(Header.tail, i, Size) \in 1 .. Size
    <3> SUFFICES ASSUME NEW i \in 1 .. Size PROVE Ring(Header.tail, i, Size) \in 1 .. Size
      OBVIOUS
    <3>1. Size \in Nat \ {0} /\ i \in Int
      BY <1>2
    <3> QED BY <2>1, <3>1, RingPlaces
  <2>4. \A i, j \in 1 .. Size : Ring(Header.tail, i, Size) = Ring(Header.tail, j, Size) => i = j
    <3> SUFFICES ASSUME NEW i \in 1 .. Size, NEW j \in 1 .. Size,
                        Ring(Header.tail, i, Size) = Ring(Header.tail, j, Size)
                 PROVE  i = j
      OBVIOUS
    <3>1. Size \in Nat \ {0} /\ i \in Int /\ j \in Int /\ i - j < Size /\ j - i < Size
      BY <1>2
    <3> QED BY <2>1, <3>1, RingPlaces
  <2>5. /\ \A j \in 1 .. (2 * Size) : Header'.index[j] \in 1 .. (2 * Size)
        /\ \A i, j \in 1 .. (2 * Size) : Header'.index[i] = Header'.index[j] => i = j
    <3>1. PICK n \in Nat, x \in {Header.index}, y \in {Header'.index} :
                 n = Size /\ x = Header.index /\ y = Header'.index
      BY <1>2
    <3>2. \A j \in 1 .. (2 * n) : j > n => j - n \in 1 .. n /\ y[j] = j
      <4> SUFFICES ASSUME NEW j \in 1 .. (2 * n), j > n PROVE j - n \in 1 .. n /\ y[j] = j
        OBVIOUS
      <4>1. j - n \in 1 .. n /\ n + (j - n) = j
        OBVIOUS
      <4> QED BY <1>2, <3>1, <4>1
    <3>3. \A j \in 1 .. (2 * n) : j <= n => j \in 1 .. n /\ y[j] = x[Ring(Header.tail, j, n)]
            /\ y[j] \in 1 .. n
      <4> SUFFICES ASSUME NEW j \in 1 .. (2 * n), j <= n
                   PROVE  j \in 1 .. n /\ y[j] = x[Ring(Header.tail, j, n)] /\ y[j] \in 1 .. n
        OBVIOUS
      <4>1. j \in 1 .. n
        OBVIOUS
      <4>2. y[j] = x[Ring(Header.tail, j, n)]
        BY <1>2, <3>1, <4>1
      <4>3. x[Ring(Header.tail, j, n)] \in 1 .. n
        <5>1. \A i \in 1 .. n : x[i] \in 1 .. n
          BY <2>1, <3>1
        <5>2. Ring(Header.tail, j, n) \in 1 .. n
          BY <2>3, <3>1, <4>1
        <5> QED BY <5>1, <5>2
      <4> QED BY <4>1, <4>2, <4>3
    <3>4. \A i, j \in 1 .. n : x[Ring(Header.tail, i, n)] = x[Ring(Header.tail, j, n)] => i = j
      BY <2>1, <2>3, <2>4, <3>1
    <3>5. \A j \in 1 .. (2 * n) : y[j] \in 1 .. (2 * n)
      BY <3>2, <3>3
    <3>6. ASSUME NEW i \in 1 .. (2 * n), NEW j \in 1 .. (2 * n), y[i] = y[j] PROVE i = j
      <4>1. CASE i <= n /\ j <= n
        BY <3>3, <3>4, <3>6, <4>1
      <4>2. CASE i > n /\ j > n
        BY <3>2, <3>6, <4>2
      <4>3. CASE i <= n /\ j > n
        BY <3>2, <3>3, <3>6, <4>3
      <4>4. CASE i > n /\ j <= n
        BY <3>2, <3>3, <3>6, <4>4
      <4> QED BY <4>1, <4>2, <4>3, <4>4
    <3> QED BY <3>1, <3>5, <3>6
  <2>6. Header'.tail = Size /\ Capacity(Header') = 2 * Size /\ 2 * Size \in Nat \ {0, 1}
          /\ Size \in 1 .. (2 * Size)
    BY <1>2 DEF Capacity
  <2>7. ASSUME NEW n \in 1 .. Len(blockIndex')
        PROVE  LET h == blockIndex'[n] IN
               /\ Capacity(h) \in Nat \ {0, 1} /\ h.tail \in 1 .. Capacity(h)
               /\ \A j \in 1 .. Capacity(h) : h.index[j] \in 1 .. Len(entries')
               /\ \A i, j \in 1 .. Capacity(h) : h.index[i] = h.index[j] => i = j
    <3>1. CASE n = Len(blockIndex) + 1
      BY <1>6, <1>16, <2>5, <2>6, <3>1
    <3>2. CASE n # Len(blockIndex) + 1
      <4>1. n \in 1 .. Len(blockIndex) /\ blockIndex'[n] = blockIndex[n]
        BY <1>16, <3>2
      <4>2. /\ Capacity(blockIndex[n]) \in Nat \ {0, 1} /\ blockIndex[n].tail \in 1 .. Capacity(blockIndex[n])
            /\ \A j \in 1 .. Capacity(blockIndex[n]) : blockIndex[n].index[j] \in 1 .. Len(entries)
            /\ \A i, j \in 1 .. Capacity(blockIndex[n]) :
                 blockIndex[n].index[i] = blockIndex[n].index[j] => i = j
        BY <2>1, <4>1 DEF IndexOK
      <4>3. \A e \in 1 .. Len(entries) : e \in 1 .. Len(entries')
        BY <1>6
      <4> QED BY <4>1, <4>2, <4>3
    <3> QED BY <3>1, <3>2
  <2>8. Len(entries') = Size'
    BY <1>2, <1>6
  <2> QED BY <2>2, <2>7, <2>8 DEF IndexOK, Capacity
<1>19. PosterOK'
  <2>1. Size + 1 \in 1 .. (2 * Size)
    <3>1. \A n \in Nat \ {0, 1} : n + 1 \in 1 .. (2 * n)
      OBVIOUS
    <3> QED BY <1>2, <3>1
  <2>2. entry' = EntryOf(Blk(tailIndex))' /\ entries'[entry'].value = nullptr
    <3>1. Blk(tailIndex)' = Blk(tailIndex)
      BY <1>4 DEF Blk
    <3>2. Blk(tailIndex)' = Listed'
      BY <1>2, <1>3, <3>1
    <3>3. EntryOf(Blk(tailIndex))' = EntryOf(Listed)'
      BY <3>2 DEF EntryOf
    <3>4. entry' = EntryOf(Blk(tailIndex))'
      BY <1>1, <1>2, <3>3
    <3>5. Size + 1 \in 1 .. Len(entries') /\ Size + 1 > Size
      BY <1>2, <1>6, <2>1
    <3>6. entries'[entry'] = EmptyEntry
      BY <1>1, <1>6, <3>5
    <3> QED BY <3>4, <3>6 DEF EmptyEntry
  <2>3. ASSUME Made > 0 PROVE Key(Made - 1)' = Key(Made - 1) /\ Value(Made - 1)' = Value(Made - 1)
    <3>1. Made - 1 \in Nat /\ Made - 1 < Listed /\ Made - 1 + Size >= Listed
      BY <1>2, <1>3, <2>3
    <3> QED BY <1>4, <1>13, <3>1
  <2>4. Live(Made - 1) => Made > 0
    BY <1>3, LiveBlocks
  <2>5. /\ Made' > 0 => Key(Made - 1)' = Start(Made - 1)' /\ tailBlock' # nullptr
        /\ Live(Made - 1)' => tailBlock' = Value(Made - 1)'
    <3>1. Live(Made - 1)' <=> Live(Made - 1)
      BY <1>4, <1>11
    <3> QED BY <1>1, <1>4, <2>3, <2>4, <3>1 DEF MemInv, PosterOK, Start
  <2> QED BY <1>1, <1>3, <1>4, <1>16, <2>2, <2>5 DEF MemInv, PosterOK
<1> QED BY <1>11, <1>12, <1>15, <1>17, <1>18, <1>19 DEF MemInv

\* The tail of the index moves by one place, and the number of blocks listed with it:
\* every block keeps its entry.
LEMMA Turned ==
  ASSUME MemInv, blockIndex # <<>>, NEW d \in {1, -1}, SetIndexTail(Ring(Header.tail, d, Size)),
         Listed' = Listed + d
  PROVE  /\ Size' = Size /\ HeadersKept /\ blockIndex' # <<>>
         /\ blockIndex' \in Seq([index : Seq(Nat), tail : Nat])
         /\ \A k \in Int : EntryOf(k)' = EntryOf(k)
         /\ Len(entries') = Len(entries)
            /\ (\A e \in 1 .. Len(entries) :
                  entries'[e].key = INVALID_BLOCK_BASE => entries'[e].value = nullptr)
            => IndexOK'
<1>1. PICK L \in Nat, n \in Nat \ {0, 1}, N \in Nat \ {0}, t \in {Header.tail}, x \in {Header.index},
           p \in {Ring(Header.tail, d, Size)} :
        /\ L = Listed /\ n = Size /\ t = Header.tail /\ t \in 1 .. n /\ x = Header.index
        /\ p = Ring(t, d, n) /\ N = Len(blockIndex) /\ Header = blockIndex[N]
  BY Tails, Places
<1>2. d \in Int /\ n \in Nat \ {0} /\ t \in 1 .. n
  BY <1>1
<1>3. p \in 1 .. n
  BY <1>1, <1>2, RingPlaces
<1>4. blockIndex \in Seq([index : Seq(Nat), tail : Nat])
  BY DEF MemInv, MemTypes
<1>5. blockIndex' = [blockIndex EXCEPT ![N] = [blockIndex[N] EXCEPT !.tail = p]]
  <2>1. blockIndex' = [blockIndex EXCEPT ![N].tail = p]
    BY <1>1 DEF SetIndexTail
  <2> QED BY <2>1
<1>6. N \in 1 .. Len(blockIndex)
  BY <1>1
<1>7. blockIndex[N] \in [index : Seq(Nat), tail : Nat] /\ blockIndex[N].index = x
        /\ Capacity(blockIndex[N]) = n
  <2>1. \A S : \A s \in Seq(S) : \A i \in 1 .. Len(s) : s[i] \in S
    OBVIOUS
  <2>2. blockIndex[N] \in [index : Seq(Nat), tail : Nat]
    BY <1>4, <1>6, <2>1
  <2> QED BY <1>1, <2>2 DEF Size
<1>8. /\ [blockIndex[N] EXCEPT !.tail = p] \in [index : Seq(Nat), tail : Nat]
      /\ [blockIndex[N] EXCEPT !.tail = p].index = x
      /\ [blockIndex[N] EXCEPT !.tail = p].tail = p
  BY <1>3, <1>7
<1>9. /\ blockIndex' \in Seq([index : Seq(Nat), tail : Nat]) /\ Len(blockIndex') = N
      /\ blockIndex'[N].index = x /\ blockIndex'[N].tail = p
      /\ \A i \in 1 .. N : i # N => blockIndex'[i] = blockIndex[i]
  <2>1. \A S : \A s \in Seq(S), y \in S : \A z : z = [s EXCEPT ![N] = y] /\ N \in 1 .. Len(s) =>
          /\ z \in Seq(S) /\ Len(z) = Len(s) /\ z[N] = y
          /\ \A i \in 1 .. Len(s) : i # N => z[i] = s[i]
    OBVIOUS
  <2>2. PICK y : y = [blockIndex[N] EXCEPT !.tail = p]
    OBVIOUS
  <2>3. /\ blockIndex' \in Seq([index : Seq(Nat), tail : Nat]) /\ Len(blockIndex') = Len(blockIndex)
        /\ blockIndex'[N] = y
        /\ \A i \in 1 .. Len(blockIndex) : i # N => blockIndex'[i] = blockIndex[i]
    <3>1. y \in [index : Seq(Nat), tail : Nat] /\ blockIndex' = [blockIndex EXCEPT ![N] = y]
      BY <1>5, <1>8, <2>2
    <3> QED BY <1>4, <1>6, <2>1, <3>1
  <2> QED BY <1>1, <1>8, <2>2, <2>3
<1>10. Header' = blockIndex'[N] /\ Size' = n
  <2>1. Header' = blockIndex'[N]
    BY <1>9 DEF Header
  <2>2. Size' = Len(blockIndex'[N].index)
    BY <2>1 DEF Size, Capacity
  <2>3. Len(x) = n
    BY <1>7 DEF Capacity
  <2> QED BY <1>9, <2>1, <2>2, <2>3
<1>11. ASSUME NEW k \in Int PROVE EntryOf(k)' = EntryOf(k)
  <2>1. EntryOf(k)' = x[Ring(p, k - (L + d - 1), n)]
    BY <1>1, <1>9, <1>10 DEF EntryOf
  <2>2. EntryOf(k) = x[Ring(t, k - (L - 1), n)]
    BY <1>1 DEF EntryOf
  <2>3. PICK b \in Int : b = k - (L + d - 1)
    OBVIOUS
  <2>4. d + b = k - (L - 1)
    BY <2>3
  <2>5. Ring(p, b, n) = Ring(t, d + b, n)
    <3>1. Ring(Ring(t, d, n), b, n) = Ring(t, d + b, n)
      <4>1. \A u \in 1 .. n : \A a, c \in Int : Ring(Ring(u, a, n), c, n) = Ring(u, a + c, n)
        BY <1>2, RingAdd
      <4> QED BY <1>2, <4>1
    <3> QED BY <1>1, <3>1
  <2> QED BY <2>1, <2>2, <2>3, <2>4, <2>5
<1>12. \A i \in 1 .. N : blockIndex'[i].index = blockIndex[i].index
  BY <1>7, <1>9
<1>13. HeadersKept /\ blockIndex' # <<>>
  <2>1. Len(blockIndex') # 0 /\ Len(<<>>) = 0
    BY <1>9
  <2> QED BY <1>1, <1>9, <1>12, <2>1 DEF HeadersKept
<1>14. ASSUME Len(entries') = Len(entries),
              \A e \in 1 .. Len(entries) : entries'[e].key = INVALID_BLOCK_BASE => entries'[e].value = nullptr
       PROVE  IndexOK'
  <2>1. IndexOK
    BY DEF MemInv
  <2>2. ASSUME NEW i \in 1 .. N
        PROVE  LET h == blockIndex'[i] IN
               /\ Capacity(h) \in Nat \ {0, 1} /\ h.tail \in 1 .. Capacity(h)
               /\ \A j \in 1 .. Capacity(h) : h.index[j] \in 1 .. Len(entries')
               /\ \A a, b \in 1 .. Capacity(h) : h.index[a] = h.index[b] => a = b
    <3>1. /\ Capacity(blockIndex[i]) \in Nat \ {0, 1} /\ blockIndex[i].tail \in 1 .. Capacity(blockIndex[i])
          /\ \A j \in 1 .. Capacity(blockIndex[i]) : blockIndex[i].index[j] \in 1 .. Len(entries)
          /\ \A a, b \in 1 .. Capacity(blockIndex[i]) :
               blockIndex[i].index[a] = blockIndex[i].index[b] => a = b
      BY <1>1, <2>1 DEF IndexOK
    <3>2. Capacity(blockIndex'[i]) = Capacity(blockIndex[i]) /\ blockIndex'[i].index = blockIndex[i].index
      BY <1>12 DEF Capacity
    <3>3. blockIndex'[i].tail \in 1 .. Capacity(blockIndex[i])
      BY <1>3, <1>7, <1>9, <3>1
    <3> QED BY <1>14, <3>1, <3>2, <3>3
  <2>3. Len(entries') = Size'
    BY <1>1, <1>10, <1>14, Places
  <2> QED BY <1>9, <1>14, <2>2, <2>3 DEF IndexOK, Capacity
<1> QED BY <1>1, <1>9, <1>10, <1>11, <1>13, <1>14

LEMMA TurnedMem ==
  ASSUME MemInv, blockIndex # <<>>, NEW d \in {1, -1}, SetIndexTail(Ring(Header.tail, d, Size)),
         Listed' = Listed + d, Made' = Made, pc' \in PSteps \ {"publish"},
         UNCHANGED <<headIndex, tailIndex, memory, entries, tailBlock, cc, loc>>,
         \A k \in Nat : Live(k) => k + Size >= Listed' + Bit(pc' \in {"key", "insert"}),
         \A c \in Consumers, m \in Nat : LedBy(c, m) =>
           m <= Listed' /\ (m = Listed' => pc' \notin {"grow", "block"} /\ Value(m) = nullptr)
  PROVE  /\ MemTypes' /\ IndexOK' /\ LastOK' /\ BlocksOK' /\ Given'
         /\ \A c \in Consumers : HolderOK(c)'
<1>1. /\ Size' = Size /\ HeadersKept /\ blockIndex' \in Seq([index : Seq(Nat), tail : Nat])
      /\ \A k \in Int : EntryOf(k)' = EntryOf(k)
      /\ Len(entries') = Len(entries)
         /\ (\A e \in 1 .. Len(entries) : entries'[e].key = INVALID_BLOCK_BASE => entries'[e].value = nullptr)
         => IndexOK'
  BY Turned
<1>2. IndexOK'
  <2>1. \A e \in 1 .. Len(entries) : entries[e].key = INVALID_BLOCK_BASE => entries[e].value = nullptr
    BY DEF MemInv, IndexOK
  <2> QED BY <1>1, <2>1
<1>3. \A k \in Int : EntryOf(k)' = EntryOf(k) /\ Key(k)' = Key(k) /\ Value(k)' = Value(k)
  BY <1>1 DEF Key, Value
<1>4. SameEntries
  BY <1>1 DEF SameEntries
<1>5. SameStatus
  BY StatusOfPoster
<1>6. \A i \in Nat : Written(i)' => Written(i)
  BY DEF Written
<1>7. \A k \in Nat : Live(k) => InReach(k)'
  BY <1>1 DEF InReach
<1>8. /\ BlocksOK'
      /\ \A k : Live(k)' <=> Live(k)
      /\ \A k \in Nat : Live(k) => Value(k)' = Value(k) /\ Key(k)' = Key(k)
  BY <1>4, <1>5, <1>6, <1>7, BlocksKept
<1>9. Given'
  BY <1>8, GivenKept DEF memory
<1>10. ASSUME NEW c \in Consumers PROVE Reads(c)'
  <2>1. CASE cc[c] = "key"
    <3>1. Blk(loc[c].index) \in Nat
      BY <2>1, HolderLive DEF Holding
    <3>2. loc'[c] = loc[c] /\ EntryOf(Blk(loc[c].index))' = EntryOf(Blk(loc[c].index))
      BY <1>1, <3>1
    <3>3. ASSUME NEW m \in Nat, LedBy(c, m)
          PROVE  /\ m <= Listed' /\ EntryOf(m)' = EntryOf(m) /\ Key(m)' = Key(m)
                 /\ m = Listed' => pc' \notin {"grow", "block"} /\ Value(m)' = nullptr
      BY <1>3, <3>3
    <3> QED BY <1>1, <2>1, <3>2, <3>3, ReadsKept
  <2>2. CASE cc[c] # "key"
    BY <2>2 DEF Reads
  <2> QED BY <2>1, <2>2
<1>11. \A c \in Consumers : HolderOK(c)'
  BY <1>4, <1>5, <1>10, HoldersKept DEF memory
<1>12. MemTypes'
  BY <1>1 DEF MemInv, MemTypes, memory, PSteps
<1>13. LastOK'
  <2>1. Made - 1 \in Int
    BY Tails
  <2>2. Key(Made - 1)' = Key(Made - 1) /\ Value(Made - 1)' = Value(Made - 1)
    BY <1>3, <2>1
  <2>3. Live(Made - 1)' <=> Live(Made - 1)
    BY <1>8
  <2> QED BY <2>2, <2>3 DEF MemInv, PosterOK, LastOK, Start
<1> QED BY <1>2, <1>8, <1>9, <1>11, <1>12, <1>13

LEMMA StoreIndexTailMem ==
  ASSUME MemInv, StoreIndexTail, CountInv'
  PROVE  MemInv'
<1>1. /\ pc = "insert" /\ pc' = "block" /\ SetIndexTail(NextPos(Header))
      /\ UNCHANGED <<counters, memory, entries, entry, tailBlock, cc, loc>>
  BY DEF StoreIndexTail
<1>2. /\ tailIndex \in Nat /\ Slot(tailIndex) = 0 /\ Blk(tailIndex) \in Nat
      /\ Listed = Blk(tailIndex) /\ Made = Listed
  BY <1>1, Tails DEF Listed, Made, Bit
<1>3. UNCHANGED <<tailIndex, headIndex>> /\ Listed' = Listed + 1 /\ Made' = Made
  BY <1>1, <1>2 DEF counters, Listed, Made, Bit
<1>4. /\ blockIndex # <<>> /\ entry = EntryOf(Blk(tailIndex)) /\ entries[entry].value = nullptr
      /\ entries[entry].key = tailIndex /\ tailIndex < MaxPosts
  BY <1>1 DEF MemInv, PosterOK
<1>5. SetIndexTail(Ring(Header.tail, 1, Size))
  BY <1>1, <1>4, NextEntry
<1>6. ASSUME NEW k \in Nat, Live(k) PROVE k + Size >= Listed' + Bit(pc' \in {"key", "insert"})
  <2>1. InReach(k) /\ Size \in Nat
    BY <1>4, <1>6, LiveBlocks, Places
  <2> QED BY <1>1, <1>2, <1>3, <2>1 DEF InReach, Bit
<1>7. \A c \in Consumers, m \in Nat : LedBy(c, m) => m <= Listed' /\ m # Listed'
  BY <1>2, <1>3 DEF LedBy
<1>8. pc' \in PSteps \ {"publish"}
  BY <1>1 DEF PSteps
<1>9. /\ MemTypes' /\ IndexOK' /\ LastOK' /\ BlocksOK' /\ Given'
      /\ \A c \in Consumers : HolderOK(c)'
  <2>1. 1 \in {1, -1}
    OBVIOUS
  <2>2. UNCHANGED <<headIndex, tailIndex, memory, entries, tailBlock, cc, loc>>
    BY <1>1, <1>3
  <2> QED BY <1>3, <1>4, <1>5, <1>6, <1>7, <1>8, <2>1, <2>2, TurnedMem
<1>10. blockIndex' # <<>> /\ EntryOf(Blk(tailIndex))' = EntryOf(Blk(tailIndex))
  <2>1. 1 \in {1, -1} /\ Blk(tailIndex) \in Int
    BY <1>2
  <2>2. blockIndex' # <<>> /\ \A k \in Int : EntryOf(k)' = EntryOf(k)
    BY <1>3, <1>4, <1>5, <2>1, Turned
  <2> QED BY <1>3, <2>1, <2>2
<1>11. PosterOK'
  BY <1>1, <1>2, <1>3, <1>4, <1>9, <1>10 DEF PosterOK, LastOK
<1> QED BY <1>9, <1>11 DEF MemInv

\* Without a block the entry is given back; its value was null all the time.
LEMMA RequisitionFailsMem ==
  ASSUME MemInv, RequisitionFails, CountInv'
  PROVE  MemInv'
<1>1. /\ pc = "block" /\ pc' = "idle" /\ SetIndexTail(PrevPos(Header))
      /\ UNCHANGED <<counters, memory, entry, tailBlock, cc, loc>>
      /\ entries' = [entries EXCEPT ![entry].value = nullptr]
  BY DEF RequisitionFails
<1>2. /\ tailIndex \in Nat /\ Slot(tailIndex) = 0 /\ Blk(tailIndex) \in Nat
      /\ Listed = Blk(tailIndex) + 1 /\ Made = Blk(tailIndex)
  BY <1>1, Tails DEF Listed, Made, Bit
<1>3. UNCHANGED <<tailIndex, headIndex>> /\ Listed' = Listed + (-1) /\ Made' = Made
  BY <1>1, <1>2 DEF counters, Listed, Made, Bit
<1>4. /\ blockIndex # <<>> /\ entry = EntryOf(Blk(tailIndex)) /\ entries[entry].value = nullptr
      /\ tailIndex < MaxPosts
  BY <1>1 DEF MemInv, PosterOK
<1>5. SetIndexTail(Ring(Header.tail, -1, Size))
  BY <1>1, <1>4, NextEntry
<1>6. entries' = entries
  <2>1. entries[entry] \in Entry
    BY <1>2, <1>4, Places
  <2>2. [entries[entry] EXCEPT !.value = nullptr] = entries[entry]
    BY <1>4, <2>1 DEF Entry
  <2>3. entries' = [entries EXCEPT ![entry] = [entries[entry] EXCEPT !.value = nullptr]]
    BY <1>1
  <2>4. entries \in Seq(Entry)
    BY DEF MemInv, MemTypes
  <2> QED BY <2>2, <2>3, <2>4
<1>7. ASSUME NEW k \in Nat, Live(k) PROVE k + Size >= Listed' + Bit(pc' \in {"key", "insert"})
  <2>1. InReach(k) /\ Size \in Nat
    BY <1>4, <1>7, LiveBlocks, Places
  <2> QED BY <1>1, <1>2, <1>3, <2>1 DEF InReach, Bit
<1>8. ASSUME NEW c \in Consumers, NEW m \in Nat, LedBy(c, m)
      PROVE  m <= Listed' /\ (m = Listed' => pc' \notin {"grow", "block"} /\ Value(m) = nullptr)
  <2>1. m <= Listed /\ m # Listed
    BY <1>1, <1>8 DEF LedBy
  <2>2. m <= Listed'
    BY <1>2, <1>3, <2>1
  <2>3. m = Listed' => m = Blk(tailIndex)
    BY <1>2, <1>3
  <2>4. Value(Blk(tailIndex)) = nullptr
    BY <1>4 DEF Value
  <2> QED BY <1>1, <2>2, <2>3, <2>4
<1>9. pc' \in PSteps \ {"publish"}
  BY <1>1 DEF PSteps
<1>10. /\ MemTypes' /\ IndexOK' /\ LastOK' /\ BlocksOK' /\ Given'
       /\ \A c \in Consumers : HolderOK(c)'
  <2>1. -1 \in {1, -1}
    OBVIOUS
  <2>2. UNCHANGED <<headIndex, tailIndex, memory, entries, tailBlock, cc, loc>>
    BY <1>1, <1>3, <1>6
  <2> QED BY <1>3, <1>4, <1>5, <1>7, <1>8, <1>9, <2>1, <2>2, TurnedMem
<1>11. blockIndex' # <<>>
  <2>1. -1 \in {1, -1}
    OBVIOUS
  <2> QED BY <1>3, <1>4, <1>5, <2>1, Turned
<1>12. PosterOK'
  BY <1>1, <1>2, <1>3, <1>4, <1>10, <1>11 DEF PosterOK, LastOK
<1> QED BY <1>10, <1>12 DEF MemInv

\* The new block is live, the others are what they were.
LEMMA RequisitionBlockMem ==
  ASSUME MemInv, RequisitionBlock, CountInv'
  PROVE  MemInv'
<1>1. /\ pc = "block" /\ pc' = "write"
      /\ UNCHANGED <<counters, elements, blockIndex, entry, cc, loc>>
  BY DEF RequisitionBlock
<1>2. PICK b \in pool :
       /\ pool' = pool \ {b}
       /\ elementsCompletelyDequeued' = [elementsCompletelyDequeued EXCEPT ![b] = 0]
       /\ entries' = [entries EXCEPT ![entry].value = b]
       /\ tailBlock' = b
  BY DEF RequisitionBlock
<1>3. PICK T \in Nat :
        /\ tailIndex \in Nat /\ headIndex \in Nat /\ headIndex <= tailIndex /\ Slot(tailIndex) = 0
        /\ T = Blk(tailIndex) /\ tailIndex = Start(T) /\ Listed = T + 1 /\ Made = T
  BY <1>1, Tails DEF Listed, Made, Bit
<1>4. UNCHANGED <<tailIndex, headIndex>> /\ Listed' = Listed /\ Made' = T + 1
  BY <1>1, <1>3 DEF counters, Listed, Made, Bit
<1>5. /\ blockIndex # <<>> /\ entry = EntryOf(T) /\ entries[entry].key = Start(T)
      /\ tailIndex < MaxPosts
  BY <1>1, <1>3 DEF MemInv, PosterOK
<1>6. /\ Size \in Nat \ {0, 1} /\ entry \in 1 .. Len(entries) /\ entries[entry] \in Entry
      /\ b \in Blocks /\ b # nullptr /\ entries \in Seq(Entry) /\ pool \in SUBSET Blocks
      /\ elementsCompletelyDequeued \in [Blocks -> Nat]
  <2>1. Size \in Nat \ {0, 1} /\ entry \in 1 .. Len(entries) /\ entries[entry] \in Entry
    <3>1. T \in Int
      OBVIOUS
    <3> QED BY <1>5, <3>1, Places
  <2>2. /\ entries \in Seq(Entry) /\ pool \in SUBSET Blocks
        /\ elementsCompletelyDequeued \in [Blocks -> Nat]
    BY DEF MemInv, MemTypes
  <2>3. b \in Blocks /\ b # nullptr
    BY <2>2
  <2> QED BY <2>1, <2>2, <2>3
<1>7. /\ Header' = Header /\ Size' = Size /\ \A k : EntryOf(k)' = EntryOf(k)
  BY <1>1, <1>4 DEF Header, Size, EntryOf
<1>8. /\ entries' \in Seq(Entry) /\ Len(entries') = Len(entries)
      /\ entries'[entry].key = entries[entry].key /\ entries'[entry].value = b
      /\ \A e \in 1 .. Len(entries) : e # entry => entries'[e] = entries[e]
  <2>1. /\ [entries[entry] EXCEPT !.value = b] \in Entry
        /\ [entries[entry] EXCEPT !.value = b].key = entries[entry].key
        /\ [entries[entry] EXCEPT !.value = b].value = b
    BY <1>6 DEF Entry, Values
  <2>2. entries' = [entries EXCEPT ![entry] = [entries[entry] EXCEPT !.value = b]]
    BY <1>2
  <2> QED BY <1>6, <2>1, <2>2
<1>9. SameStatus
  BY <1>1, <1>4, StatusOfPoster
<1>10. \A i \in InBlk(T) : i \in Nat /\ i >= tailIndex
  <2>1. InBlk(T) = Start(T) .. (Start(T) + BLOCK_SIZE - 1)
    BY BlockSize
  <2> QED BY <1>3, <2>1
<1>11. ASSUME NEW k \in Nat PROVE Live(k)' <=> Live(k) \/ k = T
  <2>1. \E i \in InBlk(T) : Pending(i)'
    <3>1. PICK i \in Nat : i = tailIndex
      BY <1>3
    <3>2. i \in InBlk(T) /\ Pending(i)'
      BY <1>3, <1>4, <3>1 DEF InBlk, Pending
    <3> QED BY <3>2
  <2>2. \A i \in InBlk(k) : Pending(i)' <=> Pending(i)
    BY <1>9 DEF InBlk, SameStatus
  <2>3. InBlk(k)' = InBlk(k)
    BY DEF InBlk
  <2>4. Live(k)' <=> k \in 0 .. T /\ \E i \in InBlk(k) : Pending(i)'
    <3>1. Made' - 1 = T
      BY <1>4
    <3> QED BY <2>3, <3>1 DEF Live
  <2>5. Live(k) <=> k \in 0 .. (T - 1) /\ \E i \in InBlk(k) : Pending(i)
    BY <1>3 DEF Live
  <2>6. k = T => Live(k)'
    <3>1. T \in 0 .. T
      OBVIOUS
    <3> QED BY <2>1, <2>4, <3>1
  <2>7. k # T => (Live(k)' <=> Live(k))
    BY <2>2, <2>4, <2>5
  <2> QED BY <2>6, <2>7
<1>12. \A k : DoneIn(k)' = DoneIn(k)
  BY <1>9 DEF DoneIn, InBlk, SameStatus
<1>13. DoneIn(T) = {} /\ Cardinality(DoneIn(T)) = 0
  <2>1. DoneIn(T) = {}
    BY <1>3, <1>10 DEF DoneIn, Done
  <2> QED BY <2>1, FS_EmptySet
<1>14. ASSUME NEW k, Live(k)
       PROVE  /\ k \in Nat /\ k < T /\ Key(k)' = Key(k) /\ Value(k)' = Value(k) /\ Value(k) # b
              /\ Value(k) \in Blocks \ pool /\ Key(k) = Start(k) /\ k + Size >= T + 1
  <2>1. /\ k \in Nat /\ k < T /\ Key(k) = Start(k) /\ Value(k) \in Blocks \ pool
        /\ k + Size >= T + 1 /\ EntryOf(k) \in 1 .. Len(entries)
    <3>1. /\ k \in Nat /\ k < Made /\ Key(k) = Start(k) /\ Value(k) \in Blocks \ pool
          /\ InReach(k) /\ EntryOf(k) \in 1 .. Len(entries)
      BY <1>14, LiveBlocks
    <3>2. k + Size >= T + 1
      <4>1. Bit(pc \in {"key", "insert"}) = 0
        BY <1>1 DEF Bit
      <4>2. k + Size >= Listed + Bit(pc \in {"key", "insert"})
        BY <3>1 DEF InReach
      <4>3. k + Size >= (T + 1) + 0
        BY <1>3, <4>1, <4>2
      <4> QED BY <1>6, <3>1, <4>3
    <3> QED BY <1>3, <3>1, <3>2
  <2>2. EntryOf(k) # entry
    <3>1. k \in Int /\ T \in Int /\ k # T /\ k - T < Size /\ T - k < Size
      BY <1>6, <2>1
    <3> QED BY <1>5, <3>1, Places
  <2> QED BY <1>7, <1>8, <2>1, <2>2 DEF Key, Value
<1>15. Key(T)' = Start(T) /\ Value(T)' = b
  BY <1>5, <1>7, <1>8 DEF Key, Value
<1>16. ASSUME NEW k \in Nat PROVE Placed(k)' /\ Counts(k)'
  <2> SUFFICES ASSUME Live(k)'
               PROVE  /\ InReach(k)' /\ Key(k)' = Start(k) /\ Value(k)' \in Blocks \ pool'
                      /\ elementsCompletelyDequeued'[Value(k)'] = Cardinality(DoneIn(k)')
    BY DEF Placed, Counts, Start
  <2>1. CASE Live(k)
    <3>1. elementsCompletelyDequeued[Value(k)] = Cardinality(DoneIn(k))
      BY <2>1 DEF MemInv, BlocksOK, Counts
    <3>2. InReach(k)'
      <4>1. k + Size >= T + 1 + 0
        BY <1>6, <1>14, <2>1
      <4>2. Bit(pc \in {"key", "insert"})' = 0
        BY <1>1 DEF Bit
      <4>3. InReach(k)' <=> k + Size >= Listed' + Bit(pc \in {"key", "insert"})'
        BY <1>7 DEF InReach
      <4> QED BY <1>3, <1>4, <4>1, <4>2, <4>3
    <3>3. elementsCompletelyDequeued'[Value(k)] = elementsCompletelyDequeued[Value(k)]
      BY <1>2, <1>6, <1>14, <2>1
    <3> QED BY <1>2, <1>12, <1>14, <2>1, <3>1, <3>2, <3>3
  <2>2. CASE k = T
    <3>1. InReach(k)'
      BY <1>1, <1>3, <1>4, <1>6, <1>7, <2>2 DEF InReach, Bit
    <3>2. elementsCompletelyDequeued'[b] = 0
      BY <1>2, <1>6
    <3> QED BY <1>2, <1>6, <1>12, <1>13, <1>15, <2>2, <3>1, <3>2
  <2> QED BY <1>11, <2>1, <2>2
<1>17. Apart'
  <2>1. Apart
    BY DEF MemInv, BlocksOK
  <2> SUFFICES ASSUME NEW k \in Nat, NEW l \in Nat, Live(k)', Live(l)', Value(k)' = Value(l)' PROVE k = l
    BY DEF Apart
  <2>2. (Live(k) \/ k = T) /\ (Live(l) \/ l = T)
    BY <1>11
  <2> QED BY <1>14, <1>15, <2>1, <2>2 DEF Apart
<1>18. ASSUME NEW i \in Nat PROVE Filled(i)'
  <2> SUFFICES ASSUME Live(Blk(i))', Full(i)', Written(i)' PROVE elements'[Value(Blk(i))'][Slot(i)] = i
    BY DEF Filled, Blk, Slot
  <2>1. i < tailIndex /\ Written(i) /\ Full(i)
    BY <1>1, <1>4, <1>9 DEF Written, SameStatus
  <2>2. Blk(i) \in Nat /\ Blk(i) < T
    BY <1>3, <2>1, Tails, Division
  <2>3. Live(Blk(i))
    BY <1>3, <1>11, <2>2 DEF Blk
  <2>4. elements[Value(Blk(i))][Slot(i)] = i
    BY <2>1, <2>3 DEF MemInv, BlocksOK, Filled
  <2> QED BY <1>1, <1>14, <2>3, <2>4
<1>19. BlocksOK'
  BY <1>16, <1>17, <1>18 DEF BlocksOK
<1>20. Given'
  <2> SUFFICES ASSUME NEW a \in Blocks \ pool'
               PROVE  \/ \E k \in Nat : Live(k)' /\ Value(k)' = a
                      \/ \E c \in Consumers : cc'[c] = "free" /\ loc'[c].block = a
    BY DEF Given
  <2>1. CASE a = b
    BY <1>11, <1>15, <2>1
  <2>2. CASE a # b
    <3>1. a \in Blocks \ pool
      BY <1>2, <2>2
    <3>2. \/ \E k \in Nat : Live(k) /\ Value(k) = a
          \/ \E c \in Consumers : cc[c] = "free" /\ loc[c].block = a
      BY <3>1 DEF MemInv, Given
    <3>3. CASE \E k \in Nat : Live(k) /\ Value(k) = a
      BY <1>11, <1>14, <3>3
    <3>4. CASE \E c \in Consumers : cc[c] = "free" /\ loc[c].block = a
      BY <1>1, <3>4
    <3> QED BY <3>2, <3>3, <3>4
  <2> QED BY <2>1, <2>2
<1>21. ASSUME NEW c \in Consumers PROVE HolderOK(c)'
  <2>1. HolderOK(c)
    BY DEF MemInv
  <2>2. Mine(c)'
    BY <1>1, <1>4, <2>1 DEF HolderOK, Mine
  <2>3. Reads(c)'
    <3>1. CASE cc[c] = "key"
      <4>1. ASSUME NEW m \in Nat, LedBy(c, m)
            PROVE  m <= Listed' /\ m # Listed' /\ EntryOf(m)' = EntryOf(m) /\ Key(m)' = Key(m)
        <5>1. m <= Listed /\ m # Listed
          BY <1>1, <4>1 DEF LedBy
        <5>2. EntryOf(m) \in 1 .. Len(entries)
          <6>1. m \in Int
            OBVIOUS
          <6> QED BY <1>5, <6>1, Places
        <5>3. EntryOf(m)' = EntryOf(m)
          BY <1>7
        <5>4. entries'[EntryOf(m)].key = entries[EntryOf(m)].key
          BY <1>8, <5>2
        <5>5. Key(m)' = Key(m)
          BY <5>3, <5>4 DEF Key
        <5> QED BY <1>4, <5>1, <5>3, <5>5
      <4>2. HeadersKept
        BY <1>1, SameHeaders
      <4> QED BY <1>1, <1>7, <3>1, <4>1, <4>2, ReadsKept
    <3>2. CASE cc[c] # "key"
      BY <1>1, <3>2 DEF Reads
    <3> QED BY <3>1, <3>2
  <2>4. Points(c)'
    <3>1. CASE cc[c] \in {"take", "mark", "clear"}
      <4>1. Live(Blk(loc[c].index))
        BY <3>1, HolderLive DEF Holding
      <4> QED BY <1>1, <1>7, <1>14, <2>1, <4>1 DEF HolderOK, Points
    <3>2. CASE cc[c] \notin {"take", "mark", "clear"}
      BY <1>1, <3>2 DEF Points
    <3> QED BY <3>1, <3>2
  <2>5. Clears(c)'
    <3>1. \A i \in InBlk(Blk(loc[c].index)) : i \in Nat
      BY DEF InBlk
    <3> QED BY <1>1, <1>9, <2>1, <3>1 DEF HolderOK, Clears, SameStatus
  <2>6. Frees(c)'
    <3> SUFFICES ASSUME cc[c] = "free" PROVE Frees(c)'
      BY <1>1 DEF Frees
    <3>1. /\ loc[c].block \in Blocks \ pool
          /\ \A d \in Consumers : cc[d] = "free" /\ loc[d].block = loc[c].block => d = c
          /\ \A k \in Nat : Live(k) => Value(k) # loc[c].block
          /\ loc[c].got \in 0 .. (headIndex - 1)
      BY <2>1 DEF HolderOK, Frees
    <3>2. \A k \in Nat : Live(k)' => Value(k)' # loc[c].block
      BY <1>11, <1>14, <1>15, <3>1
    <3> QED BY <1>1, <1>2, <1>4, <3>1, <3>2 DEF Frees
  <2> QED BY <2>2, <2>3, <2>4, <2>5, <2>6 DEF HolderOK
<1>22. MemTypes'
  <2>1. elementsCompletelyDequeued' \in [Blocks -> Nat] /\ pool' \in SUBSET Blocks /\ tailBlock' \in Values
    BY <1>2, <1>6 DEF Values
  <2> QED BY <1>1, <1>8, <2>1 DEF MemInv, MemTypes, PSteps
<1>23. IndexOK'
  <2>1. IndexOK
    BY DEF MemInv
  <2>2. entries'[entry].key # INVALID_BLOCK_BASE
    BY <1>3, <1>5, <1>8, Starts0 DEF INVALID_BLOCK_BASE
  <2>3. \A e \in 1 .. Len(entries') : entries'[e].key = INVALID_BLOCK_BASE => entries'[e].value = nullptr
    BY <1>8, <2>1, <2>2 DEF IndexOK
  <2> QED BY <1>1, <1>7, <1>8, <2>1, <2>3 DEF IndexOK
<1>24. PosterOK'
  <2>1. (Made - 1)' = T
    <3>1. (Made - 1)' = Made' - 1
      OBVIOUS
    <3> QED BY <1>4, <3>1
  <2>2. Key(Made - 1)' = Start(Made - 1)' /\ (Live(Made - 1)' => tailBlock' = Value(Made - 1)')
    <3>1. Key(Made - 1)' = entries'[EntryOf(Made - 1)'].key
            /\ Value(Made - 1)' = entries'[EntryOf(Made - 1)'].value
      BY DEF Key, Value
    <3>2. EntryOf(Made - 1)' = entry
      BY <1>5, <1>7, <2>1 DEF EntryOf
    <3> QED BY <1>2, <1>5, <1>8, <2>1, <3>1, <3>2 DEF Start
  <2> QED BY <1>1, <1>2, <1>3, <1>4, <1>5, <1>6, <2>2 DEF PosterOK, MemInv
<1> QED BY <1>19, <1>20, <1>21, <1>22, <1>23, <1>24 DEF MemInv

\* The elements with x in slot s of block b.
With(b, s, x) == [elements EXCEPT ![b][s] = x]

Memory == [Blocks -> [0 .. (BLOCK_SIZE - 1) -> Int]]

LEMMA SlotSet ==
  ASSUME MemInv, NEW b \in Blocks, NEW s \in 0 .. (BLOCK_SIZE - 1), NEW x \in Int
  PROVE  /\ With(b, s, x) \in Memory
         /\ With(b, s, x)[b][s] = x
         /\ \A a \in Blocks, t \in 0 .. (BLOCK_SIZE - 1) :
              a # b \/ t # s => With(b, s, x)[a][t] = elements[a][t]
<1>1. elements \in Memory
  BY DEF MemInv, MemTypes, Memory
<1>2. PICK g \in [0 .. (BLOCK_SIZE - 1) -> Int] : g = elements[b]
  BY <1>1 DEF Memory
<1>3. With(b, s, x) = [elements EXCEPT ![b] = [g EXCEPT ![s] = x]]
  BY <1>2 DEF With
<1>4. PICK f \in [0 .. (BLOCK_SIZE - 1) -> Int] :
        f = [g EXCEPT ![s] = x] /\ f[s] = x
        /\ \A t \in 0 .. (BLOCK_SIZE - 1) : t # s => f[t] = g[t]
  <2>1. /\ [g EXCEPT ![s] = x] \in [0 .. (BLOCK_SIZE - 1) -> Int] /\ [g EXCEPT ![s] = x][s] = x
        /\ \A t \in 0 .. (BLOCK_SIZE - 1) : t # s => [g EXCEPT ![s] = x][t] = g[t]
    OBVIOUS
  <2> QED BY <2>1
<1>5. With(b, s, x) = [elements EXCEPT ![b] = f]
  BY <1>3, <1>4
<1> QED BY <1>1, <1>2, <1>4, <1>5 DEF Memory

LEMMA ConstructMem ==
  ASSUME MemInv, Construct, CountInv'
  PROVE  MemInv'
<1>1. /\ pc = "write" /\ pc' = "publish"
      /\ UNCHANGED <<counters, elementsCompletelyDequeued, pool, index, entry, tailBlock, cc, loc>>
      /\ elements' = [elements EXCEPT ![tailBlock][Slot(tailIndex)] = tailIndex]
  BY DEF Construct
<1>2. PICK T \in Nat, x \in Nat :
        /\ x = tailIndex /\ headIndex \in Nat /\ headIndex <= x
        /\ T = Blk(x) /\ Listed = T + 1 /\ Made = T + 1 /\ Listed \in Nat
        /\ x \in InBlk(T) /\ Slot(x) \in 0 .. (BLOCK_SIZE - 1)
  BY <1>1, Tails, Division DEF Bit, InBlk
<1>3. Listed' = Listed /\ Made' = Made /\ UNCHANGED <<tailIndex, headIndex>>
  BY <1>1 DEF Listed, Made, counters
<1>4. Live(T)
  <2>1. Pending(x)
    BY <1>2 DEF Pending
  <2> QED BY <1>2, <2>1 DEF Live
<1>5. tailBlock = Value(T) /\ tailBlock \in Blocks
  <2>1. Made - 1 = T
    BY <1>2
  <2>2. Live(Made - 1) => tailBlock = Value(Made - 1)
    BY DEF MemInv, PosterOK
  <2> QED BY <1>4, <2>1, <2>2, LiveBlocks
<1>6. /\ elements' \in Memory
      /\ elements'[tailBlock][Slot(x)] = x
      /\ \A a \in Blocks, t \in 0 .. (BLOCK_SIZE - 1) :
           a # tailBlock \/ t # Slot(x) => elements'[a][t] = elements[a][t]
  <2>1. elements' = With(tailBlock, Slot(x), x)
    BY <1>1, <1>2 DEF With
  <2>2. PICK s \in 0 .. (BLOCK_SIZE - 1), b \in Blocks, y \in Int : s = Slot(x) /\ b = tailBlock /\ y = x
    BY <1>2, <1>5
  <2>3. /\ With(b, s, y) \in Memory
        /\ With(b, s, y)[b][s] = y
        /\ \A a \in Blocks, t \in 0 .. (BLOCK_SIZE - 1) :
             a # b \/ t # s => With(b, s, y)[a][t] = elements[a][t]
    BY SlotSet
  <2> QED BY <2>1, <2>2, <2>3
<1>7. /\ \A k : EntryOf(k)' = EntryOf(k) /\ Key(k)' = Key(k) /\ Value(k)' = Value(k)
      /\ SameEntries /\ Size' = Size /\ IndexOK'
  BY <1>1, <1>3, SameIndex DEF MemInv
<1>8. SameStatus
  BY <1>1, <1>3, StatusOfPoster
<1>9. \A k : (Live(k)' <=> Live(k)) /\ DoneIn(k)' = DoneIn(k)
  BY <1>3, <1>8, LiveKept
<1>10. \A k : InReach(k)' <=> InReach(k)
  BY <1>1, <1>3, <1>7 DEF InReach, Bit
<1>11. ASSUME NEW k \in Nat PROVE Placed(k)' /\ Counts(k)'
  <2>1. Placed(k) /\ Counts(k)
    BY DEF MemInv, BlocksOK
  <2>2. Placed(k)'
    BY <1>1, <1>7, <1>9, <1>10, <2>1 DEF Placed, Start
  <2>3. Counts(k)'
    BY <1>1, <1>7, <1>9, <2>1 DEF Counts
  <2> QED BY <2>2, <2>3
<1>12. Apart'
  BY <1>7, <1>9 DEF Apart, MemInv, BlocksOK
<1>13. ASSUME NEW i \in Nat PROVE Filled(i)'
  <2> SUFFICES ASSUME Live(Blk(i)), Full(i), Written(i)' PROVE elements'[Value(Blk(i))][Slot(i)] = i
    BY <1>7, <1>8, <1>9 DEF Filled, SameStatus, Blk, Slot
  <2>1. CASE i = x
    BY <1>2, <1>5, <1>6, <2>1
  <2>2. CASE i # x
    <3>1. Written(i)
      BY <1>1, <1>2, <1>3, <2>2 DEF Written
    <3>2. elements[Value(Blk(i))][Slot(i)] = i
      BY <3>1 DEF MemInv, BlocksOK, Filled
    <3>3. Value(Blk(i)) \in Blocks /\ Slot(i) \in 0 .. (BLOCK_SIZE - 1) /\ Blk(i) \in Nat
      BY LiveBlocks, Division
    <3>4. Value(Blk(i)) # tailBlock \/ Slot(i) # Slot(x)
      <4>1. Value(Blk(i)) = tailBlock => Blk(i) = T
        BY <1>4, <1>5, <3>3 DEF MemInv, BlocksOK, Apart
      <4>2. i = Start(Blk(i)) + Slot(i) /\ x = Start(Blk(x)) + Slot(x)
        BY Division
      <4> QED BY <1>2, <2>2, <4>1, <4>2
    <3> QED BY <1>6, <3>2, <3>3, <3>4
  <2> QED BY <2>1, <2>2
<1>14. BlocksOK'
  BY <1>11, <1>12, <1>13 DEF BlocksOK
<1>15. Given'
  BY <1>1, <1>7, <1>9, GivenKept
<1>16. ASSUME NEW c \in Consumers PROVE Reads(c)'
  <2>1. CASE cc[c] = "key"
    <3>1. HeadersKept
      BY <1>1, SameHeaders DEF index
    <3>2. ASSUME NEW m \in Nat, LedBy(c, m)
          PROVE  /\ m <= Listed' /\ EntryOf(m)' = EntryOf(m) /\ Key(m)' = Key(m)
                 /\ m = Listed' => pc' \notin {"grow", "block"} /\ Value(m)' = nullptr
      BY <1>1, <1>3, <1>7, <3>2 DEF LedBy
    <3> QED BY <1>1, <1>7, <2>1, <3>1, <3>2, ReadsKept
  <2>2. CASE cc[c] # "key"
    BY <1>1, <2>2 DEF Reads
  <2> QED BY <2>1, <2>2
<1>17. \A c \in Consumers : HolderOK(c)'
  BY <1>1, <1>3, <1>7, <1>8, <1>16, HoldersKept
<1>18. MemTypes'
  BY <1>1, <1>6 DEF MemInv, MemTypes, Memory, index, PSteps
<1>19. PosterOK'
  BY <1>1, <1>3, <1>7, <1>9 DEF MemInv, PosterOK, Start, index
<1> QED BY <1>7, <1>14, <1>15, <1>17, <1>18, <1>19 DEF MemInv

-----------------------------------------------------------------------------
(***************************************************************************)
(* The consumers' steps.                                                   *)
(***************************************************************************)

\* A step of c that leaves the index alone and changes neither which elements are
\* pending nor which are done.
LEMMA ConsumerStep ==
  ASSUME MemInv, NEW c \in Consumers, Alone(c), CountInv',
         UNCHANGED <<tailIndex, elementsCompletelyDequeued, pool, index, poster>>,
         headIndex' >= headIndex, elements' \in Memory,
         \A i \in Nat : (Pending(i)' <=> Pending(i)) /\ (Done(i)' <=> Done(i)) /\ Filled(i)',
         cc[c] \notin {"clear", "free"}, cc'[c] \notin {"clear", "free"},
         \A d \in Consumers : Mine(d)', Reads(c)', Points(c)'
  PROVE  MemInv'
<1>1. pc' = pc /\ entry' = entry /\ tailBlock' = tailBlock /\ Listed' = Listed /\ Made' = Made
  BY DEF poster, Listed, Made
<1>2. /\ \A k : EntryOf(k)' = EntryOf(k) /\ Key(k)' = Key(k) /\ Value(k)' = Value(k)
      /\ SameEntries /\ Size' = Size /\ IndexOK'
  BY <1>1, SameIndex DEF MemInv
<1>3. \A k : \A i \in InBlk(k) : i \in Nat
  BY DEF InBlk
<1>4. \A k : (Live(k)' <=> Live(k)) /\ DoneIn(k)' = DoneIn(k)
  BY <1>1, <1>3 DEF Live, DoneIn, InBlk
<1>5. \A k : InReach(k)' <=> InReach(k)
  BY <1>1, <1>2 DEF InReach, Bit
<1>6. ASSUME NEW k \in Nat PROVE Placed(k)' /\ Counts(k)'
  <2>1. Placed(k) /\ Counts(k)
    BY DEF MemInv, BlocksOK
  <2>2. Placed(k)'
    BY <1>2, <1>4, <1>5, <2>1 DEF Placed, Start
  <2>3. Counts(k)'
    BY <1>2, <1>4, <2>1 DEF Counts
  <2> QED BY <2>2, <2>3
<1>7. Apart'
  BY <1>2, <1>4 DEF Apart, MemInv, BlocksOK
<1>8. BlocksOK'
  BY <1>6, <1>7 DEF BlocksOK
<1>9. Given'
  <2>1. \A d \in Consumers : cc[d] = "free" => cc'[d] = "free" /\ loc'[d].block = loc[d].block
    BY DEF Alone
  <2> QED BY <1>2, <1>4, <2>1, GivenKept
<1>10. ASSUME NEW d \in Consumers PROVE HolderOK(d)'
  <2>1. HolderOK(d)
    BY DEF MemInv
  <2>2. \A e \in Consumers : /\ cc'[e] = "clear" <=> cc[e] = "clear"
                             /\ cc'[e] = "free" <=> cc[e] = "free"
                             /\ cc[e] \in {"clear", "free"} => loc'[e] = loc[e]
    BY DEF Alone
  <2>3. Clears(d)'
    BY <1>3, <2>1, <2>2 DEF HolderOK, Clears
  <2>4. Frees(d)'
    <3>1. headIndex \in Nat /\ headIndex' \in Nat
      BY DEF MemInv, CountInv, CountTypes
    <3>2. \A x : x \in 0 .. (headIndex - 1) => x \in 0 .. (headIndex' - 1)
      BY <3>1
    <3> QED BY <1>2, <1>4, <2>1, <2>2, <3>2 DEF HolderOK, Frees
  <2>5. Reads(d)' /\ Points(d)'
    <3>1. CASE d = c
      BY <3>1
    <3>2. CASE d # c
      <4>1. cc'[d] = cc[d] /\ loc'[d] = loc[d]
        BY <3>2 DEF Alone
      <4>2. Points(d)'
        BY <1>2, <2>1, <4>1 DEF HolderOK, Points
      <4>3. Reads(d)'
        <5>1. CASE cc[d] = "key"
          <6>1. HeadersKept
            BY SameHeaders DEF index
          <6>2. EntryOf(Blk(loc[d].index))' = EntryOf(Blk(loc[d].index))
            BY <1>2, <4>1
          <6>3. ASSUME NEW m \in Nat, LedBy(d, m)
                PROVE  /\ m <= Listed' /\ EntryOf(m)' = EntryOf(m) /\ Key(m)' = Key(m)
                       /\ m = Listed' => pc' \notin {"grow", "block"} /\ Value(m)' = nullptr
            BY <1>1, <1>2, <6>3 DEF LedBy
          <6> QED BY <4>1, <5>1, <6>1, <6>2, <6>3, ReadsKept
        <5>2. CASE cc[d] # "key"
          BY <4>1, <5>2 DEF Reads
        <5> QED BY <5>1, <5>2
      <4> QED BY <4>2, <4>3
    <3> QED BY <3>1, <3>2
  <2> QED BY <2>3, <2>4, <2>5 DEF HolderOK
<1>11. MemTypes'
  BY <1>1 DEF MemInv, MemTypes, Memory, index
<1>12. PosterOK'
  BY <1>1, <1>2, <1>4 DEF MemInv, PosterOK, Start, index
<1> QED BY <1>2, <1>8, <1>9, <1>10, <1>11, <1>12 DEF MemInv

\* A step of c that leaves the memory alone too and keeps what c holds.
LEMMA HolderStep ==
  ASSUME MemInv, NEW c \in Consumers, Alone(c), CountInv',
         UNCHANGED <<tailIndex, headIndex, memory, index, poster>>,
         cc[c] \in Holding <=> cc'[c] \in Holding,
         cc[c] \in {"header", "key", "take"} <=> cc'[c] \in {"header", "key", "take"},
         cc[c] \notin {"clear", "free"}, cc'[c] \notin {"clear", "free"},
         cc[c] \in Holding => loc'[c].index = loc[c].index,
         Reads(c)', Points(c)'
  PROVE  MemInv'
<1>1. SameStatus
  BY StatusOfConsumer
<1>2. Listed' = Listed /\ Made' = Made /\ pc' = pc
  BY DEF poster, Listed, Made
<1>3. \A k : Value(k)' = Value(k) /\ (Live(k)' <=> Live(k))
  BY <1>1, <1>2, SameIndex, LiveKept
<1>4. ASSUME NEW i \in Nat PROVE Filled(i)'
  <2>1. Filled(i)
    BY DEF MemInv, BlocksOK
  <2>2. Written(i)' <=> Written(i)
    BY <1>2 DEF Written
  <2> QED BY <1>1, <1>3, <2>1, <2>2 DEF Filled, SameStatus, memory, Slot, Blk
<1>5. ASSUME NEW d \in Consumers PROVE Mine(d)'
  <2>1. \A e \in Consumers : /\ cc'[e] \in Holding <=> cc[e] \in Holding
                             /\ cc[e] \in Holding => loc'[e].index = loc[e].index
    BY DEF Alone
  <2> QED BY <2>1 DEF MemInv, HolderOK, Mine
<1>6. elements' \in Memory /\ headIndex' >= headIndex
  BY DEF MemInv, MemTypes, memory, Memory, CountInv, CountTypes
<1>7. UNCHANGED <<tailIndex, elementsCompletelyDequeued, pool, index, poster>>
  BY DEF memory
<1> QED BY <1>1, <1>4, <1>5, <1>6, <1>7, ConsumerStep DEF SameStatus

\* A step of c before it has an index.
LEMMA LookingMem ==
  ASSUME MemInv, NEW c \in Consumers, CountInv',
         LoadTail(c) \/ LoadOvercommit(c) \/ LooksNonEmpty(c) \/ CountIn(c) \/ CheckAgain(c) \/ CountOut(c)
  PROVE  MemInv'
<1>1. cc \in [Consumers -> CSteps] /\ loc = [d \in Consumers |-> loc[d]]
  BY DEF MemInv, CountInv, CountTypes
<1>2. UNCHANGED <<tailIndex, headIndex, memory, index, poster>>
  BY DEF LoadTail, LoadOvercommit, LooksNonEmpty, CountIn, CheckAgain, CountOut, counters
<1>3. /\ cc[c] \in {"idle", "over", "look", "count", "check", "excess"}
      /\ cc'[c] \in {"idle", "over", "look", "count", "check", "excess", "claim"}
      /\ Alone(c)
  BY <1>1 DEF LoadTail, LoadOvercommit, LooksNonEmpty, CountIn, CheckAgain, CountOut, Goto, Local,
       Leaves, Alone
<1>4. Reads(c)' /\ Points(c)'
  BY <1>3 DEF Reads, Points
<1> QED BY <1>2, <1>3, <1>4, HolderStep DEF Holding

LEMMA LoadHeaderMem ==
  ASSUME MemInv, NEW c \in Consumers, CountInv', LoadHeader(c)
  PROVE  MemInv'
<1>1. /\ cc[c] = "header" /\ cc'[c] = "key" /\ Alone(c)
      /\ UNCHANGED <<tailIndex, headIndex, memory, index, poster>>
  BY DEF LoadHeader, Goto, Local, Alone, MemInv, CountInv, CountTypes, counters
<1>2. /\ loc'[c].header = Len(blockIndex) /\ loc'[c].itail = Header.tail
      /\ loc'[c].index = loc[c].index
  <2>1. Locals(loc[c]) /\ loc'[c] = [loc[c] EXCEPT !.header = Len(blockIndex), !.itail = Header.tail]
    BY DEF MemInv, CountInv, CountTypes, LoadHeader, Local
  <2>2. [loc[c] EXCEPT !.header = Len(blockIndex), !.itail = Header.tail]
          = [[loc[c] EXCEPT !.header = Len(blockIndex)] EXCEPT !.itail = Header.tail]
    BY <2>1 DEF Locals
  <2> QED BY <2>1, <2>2 DEF Locals
<1>3. PICK i \in Nat, L \in Int :
        /\ i = loc[c].index /\ Blk(i) \in Nat /\ Live(Blk(i)) /\ Listed = L + 1 /\ Blk(i) <= L
  <2>1. loc[c].index \in Nat /\ Blk(loc[c].index) \in Nat /\ Live(Blk(loc[c].index))
    BY <1>1, HolderLive DEF Holding
  <2>2. Blk(loc[c].index) < Made
    BY <2>1, LiveBlocks
  <2>3. Listed \in Nat /\ Made \in Nat /\ Made <= Listed
    BY Tails
  <2>4. Listed = (Listed - 1) + 1 /\ Listed - 1 \in Int /\ Blk(loc[c].index) <= Listed - 1
    BY <2>1, <2>2, <2>3
  <2> QED BY <2>1, <2>4
<1>4. /\ blockIndex # <<>> /\ Len(blockIndex) \in Nat \ {0} /\ Header = blockIndex[Len(blockIndex)]
      /\ Size \in Nat \ {0} /\ Header.tail \in 1 .. Size
  BY <1>3, LiveBlocks, Places
<1>5. L \in Nat /\ Listed - 1 = L
  BY <1>3
<1>6. Header.index[Header.tail] = EntryOf(L)
  <2>1. Ring(Header.tail, 0, Size) = Header.tail
    <3>1. 0 \in Int
      OBVIOUS
    <3> QED BY <1>4, <3>1, RingPlaces
  <2>2. L - (Listed - 1) = 0
    BY <1>5
  <2> QED BY <2>1, <2>2 DEF EntryOf
<1>7. Key(L) = Start(L)
  <2>1. CASE pc = "block"
    <3>1. Listed - Made = 1 /\ Slot(tailIndex) = 0 /\ Blk(tailIndex) \in Nat /\ Listed \in Nat
          /\ Made \in Nat /\ tailIndex = Start(Blk(tailIndex))
      BY <2>1, Tails DEF Bit
    <3>2. L = Blk(tailIndex)
      BY <1>5, <2>1, <3>1 DEF Listed, Bit
    <3>3. entry = EntryOf(Blk(tailIndex)) /\ entries[entry].key = tailIndex
      BY <2>1 DEF MemInv, PosterOK
    <3> QED BY <3>1, <3>2, <3>3 DEF Key
  <2>2. CASE pc # "block"
    <3>1. Listed - Made = 0 /\ Listed \in Nat /\ Made \in Nat
      BY <2>2, Tails DEF Bit
    <3>2. Made - 1 = L /\ Made > 0
      BY <1>5, <3>1
    <3> QED BY <3>2 DEF MemInv, PosterOK
  <2> QED BY <2>1, <2>2
<1>8. EntryFor(Header, Header.tail, i) = EntryOf(Blk(i))
  <2>1. entries[Header.index[Header.tail]].key = Start(L)
    BY <1>6, <1>7 DEF Key
  <2>2. (Base(i) - Start(L)) \div BLOCK_SIZE = Blk(i) - L
    BY Distance
  <2>3. EntryFor(Header, Header.tail, i) = Header.index[Ring(Header.tail, Blk(i) - L, Size)]
    BY <2>1, <2>2 DEF EntryFor, Ring, Size
  <2> QED BY <1>5, <2>3 DEF EntryOf
<1>9. UNCHANGED <<blockIndex, entries>> /\ Listed' = Listed /\ pc' = pc
  BY <1>1 DEF index, poster, Listed
<1>10. \A k : EntryOf(k)' = EntryOf(k) /\ Key(k)' = Key(k)
  BY <1>1, <1>9, SameIndex
<1>11. Reads(c)'
  <2>1. blockIndex'[loc'[c].header] = Header /\ loc'[c].index = i /\ loc'[c].itail = Header.tail
        /\ loc'[c].header \in 1 .. Len(blockIndex')
    BY <1>2, <1>3, <1>4, <1>9
  <2>2. EntryFor(blockIndex[loc[c].header], loc[c].itail, loc[c].index)' = EntryOf(Blk(loc[c].index))'
    <3>1. EntryFor(blockIndex[loc[c].header], loc[c].itail, loc[c].index)' = EntryFor(Header, Header.tail, i)
      BY <1>9, <2>1 DEF EntryFor, Base, Capacity
    <3>2. EntryOf(Blk(loc[c].index))' = EntryOf(Blk(i))
      BY <1>10, <2>1 DEF Blk
    <3> QED BY <1>8, <3>1, <3>2
  <2>3. /\ L \in Nat /\ Blk(i) <= L /\ L <= Listed' /\ L # Listed'
        /\ Header.index[Header.tail] = EntryOf(L)' /\ Key(L)' = Start(L)
    BY <1>3, <1>5, <1>6, <1>7, <1>9, <1>10
  <2>4. Header.tail \in 1 .. Capacity(Header)
    BY <1>4 DEF Size
  <2> QED BY <2>1, <2>2, <2>3, <2>4 DEF Reads, Capacity, Blk, Start
<1>12. Points(c)'
  BY <1>1 DEF Points
<1> QED BY <1>1, <1>2, <1>11, <1>12, HolderStep DEF Holding

LEMMA LoadKeyMem ==
  ASSUME MemInv, NEW c \in Consumers, CountInv', LoadKey(c)
  PROVE  MemInv'
<1>1. /\ cc[c] = "key" /\ cc'[c] = "take" /\ Alone(c)
      /\ UNCHANGED <<tailIndex, headIndex, memory, index, poster>>
  BY DEF LoadKey, Goto, Local, Alone, MemInv, CountInv, CountTypes, counters
<1>2. /\ loc'[c].entry = EntryFor(blockIndex[loc[c].header], loc[c].itail, loc[c].index)
      /\ loc'[c].index = loc[c].index
  <2>1. \A i, e : [NoLocals EXCEPT !.index = i, !.entry = e]
            = [[NoLocals EXCEPT !.index = i] EXCEPT !.entry = e]
    BY DEF NoLocals
  <2>2. \A i, e : [NoLocals EXCEPT !.index = i, !.entry = e].index = i
                  /\ [NoLocals EXCEPT !.index = i, !.entry = e].entry = e
    BY <2>1 DEF NoLocals
  <2>3. loc'[c] = [NoLocals EXCEPT !.index = loc[c].index,
                     !.entry = EntryFor(blockIndex[loc[c].header], loc[c].itail, loc[c].index)]
    BY DEF LoadKey, Local, MemInv, CountInv, CountTypes
  <2> QED BY <2>2, <2>3
<1>3. loc'[c].entry = EntryOf(Blk(loc[c].index))
  BY <1>1, <1>2 DEF MemInv, HolderOK, Reads
<1>4. Listed' = Listed
  BY <1>1 DEF poster, Listed
<1>5. EntryOf(Blk(loc[c].index))' = EntryOf(Blk(loc[c].index))
  BY <1>1, <1>2, <1>4, SameIndex DEF Blk
<1>6. Reads(c)' /\ Points(c)'
  BY <1>1, <1>3, <1>5 DEF Reads, Points
<1> QED BY <1>1, <1>2, <1>6, HolderStep DEF Holding

LEMMA ClaimMem ==
  ASSUME MemInv, NEW c \in Consumers, CountInv', Claim(c)
  PROVE  MemInv'
<1>1. /\ cc[c] = "claim" /\ cc'[c] = "header" /\ Alone(c)
      /\ headIndex' = headIndex + 1 /\ headIndex \in Nat
      /\ UNCHANGED <<tailIndex, memory, index, poster>>
  BY DEF Claim, Goto, Local, Alone, MemInv, CountInv, CountTypes
<1>2. loc'[c].index = headIndex
  <2>1. [NoLocals EXCEPT !.index = headIndex].index = headIndex
    BY DEF NoLocals
  <2> QED BY <2>1 DEF Claim, Local, MemInv, CountInv, CountTypes
<1>3. \A d \in Consumers : cc[d] \in Holding => loc[d].index < headIndex /\ loc[d].index \in Nat
  BY HolderLive
<1>4. ASSUME NEW S \in {Holding, {"header", "key", "take"}, Holding \ {"clear"}}, NEW i \in Nat
      PROVE  Held(S, i)' <=> Held(S, i) \/ i = headIndex
  <2>1. cc'[c] \in S /\ cc[c] \notin S
    BY <1>1 DEF Holding
  <2> QED BY <1>1, <1>2, <2>1 DEF Held, Alone
<1>5. ASSUME NEW i \in Nat
      PROVE  (Pending(i)' <=> Pending(i)) /\ (Full(i)' <=> Full(i)) /\ (Done(i)' <=> Done(i))
  <2>1. /\ Held(Holding, i)' <=> Held(Holding, i) \/ i = headIndex
        /\ Held({"header", "key", "take"}, i)' <=> Held({"header", "key", "take"}, i) \/ i = headIndex
        /\ Held(Holding \ {"clear"}, i)' <=> Held(Holding \ {"clear"}, i) \/ i = headIndex
    BY <1>4
  <2>2. /\ i >= headIndex + 1 \/ i = headIndex <=> i >= headIndex
        /\ i < headIndex + 1 /\ i # headIndex <=> i < headIndex
    BY <1>1
  <2>3. /\ Pending(i)' <=> i >= headIndex + 1 \/ Held(Holding, i)'
        /\ Full(i)' <=> i >= headIndex + 1 \/ Held({"header", "key", "take"}, i)'
        /\ Done(i)' <=> i < headIndex + 1 /\ ~Held(Holding \ {"clear"}, i)'
    BY <1>1 DEF Pending, Full, Done, Holding
  <2> QED BY <2>1, <2>2, <2>3 DEF Pending, Full, Done
<1>6. SameStatus
  BY <1>5 DEF SameStatus
<1>7. Listed' = Listed /\ Made' = Made /\ pc' = pc
  BY <1>1 DEF poster, Listed, Made
<1>8. \A k : Value(k)' = Value(k) /\ (Live(k)' <=> Live(k))
  BY <1>1, <1>6, <1>7, SameIndex, LiveKept
<1>9. ASSUME NEW i \in Nat PROVE Filled(i)'
  <2>1. Filled(i)
    BY DEF MemInv, BlocksOK
  <2>2. Written(i)' <=> Written(i)
    BY <1>1, <1>7 DEF Written
  <2> QED BY <1>1, <1>5, <1>8, <2>1, <2>2 DEF Filled, memory, Slot, Blk
<1>10. ASSUME NEW d \in Consumers PROVE Mine(d)'
  <2>1. \A e \in Consumers : e = c \/ (cc'[e] = cc[e] /\ loc'[e] = loc[e])
    BY <1>1 DEF Alone
  <2>2. Mine(d)
    BY DEF MemInv, HolderOK
  <2> QED BY <1>1, <1>2, <1>3, <2>1, <2>2 DEF Mine
<1>11. Reads(c)' /\ Points(c)'
  BY <1>1 DEF Reads, Points
<1>12. elements' \in Memory /\ headIndex' >= headIndex
  BY <1>1 DEF MemInv, MemTypes, memory, Memory
<1>13. /\ UNCHANGED <<tailIndex, elementsCompletelyDequeued, pool, index, poster>>
       /\ cc[c] \notin {"clear", "free"} /\ cc'[c] \notin {"clear", "free"}
  BY <1>1 DEF memory
<1> QED BY <1>1, <1>5, <1>9, <1>10, <1>11, <1>12, <1>13, ConsumerStep

\* The task moved out is the one that was claimed.
LEMMA MoveOutMem ==
  ASSUME MemInv, NEW c \in Consumers, CountInv', MoveOut(c)
  PROVE  /\ MemInv'
         /\ loc'[c].got = loc[c].index /\ loc'[c].index = loc[c].index
<1>1. /\ cc[c] = "take" /\ cc'[c] = "mark" /\ Alone(c)
      /\ UNCHANGED <<tailIndex, headIndex, elementsCompletelyDequeued, pool, index, poster>>
  BY DEF MoveOut, Goto, Local, Alone, MemInv, CountInv, CountTypes, counters
<1>2. PICK i \in Nat, k \in Nat :
        /\ i = loc[c].index /\ k = Blk(i) /\ Live(k) /\ i < headIndex /\ i < tailIndex
        /\ Slot(i) \in 0 .. (BLOCK_SIZE - 1)
  BY <1>1, HolderLive, Division DEF Holding
<1>3. PICK b \in Blocks : b = entries[loc[c].entry].value /\ b = Value(k)
  <2>1. loc[c].entry = EntryOf(k)
    BY <1>1, <1>2 DEF MemInv, HolderOK, Points
  <2>2. Value(k) \in Blocks
    BY <1>2, LiveBlocks
  <2> QED BY <2>1, <2>2 DEF Value
<1>4. elements[b][Slot(i)] = i
  <2>1. Full(i)
    BY <1>1, <1>2 DEF Full, Held
  <2>2. Written(i)
    BY <1>2 DEF Written
  <2> QED BY <1>2, <1>3, <2>1, <2>2 DEF MemInv, BlocksOK, Filled
<1>5. /\ loc'[c].block = b /\ loc'[c].got = i /\ loc'[c].index = i /\ loc'[c].entry = loc[c].entry
  <2>1. Locals(loc[c]) /\ loc'[c] = [loc[c] EXCEPT !.block = b, !.got = i]
    BY <1>2, <1>3, <1>4 DEF MemInv, CountInv, CountTypes, MoveOut, Local
  <2>2. [loc[c] EXCEPT !.block = b, !.got = i] = [[loc[c] EXCEPT !.block = b] EXCEPT !.got = i]
    BY <2>1 DEF Locals
  <2> QED BY <1>2, <2>1, <2>2 DEF Locals
<1>6. /\ elements' \in Memory
      /\ \A a \in Blocks, t \in 0 .. (BLOCK_SIZE - 1) :
           a # b \/ t # Slot(i) => elements'[a][t] = elements[a][t]
  <2>1. elements' = With(b, Slot(i), Raw)
    BY <1>2, <1>3 DEF MoveOut, With
  <2>2. PICK s \in 0 .. (BLOCK_SIZE - 1), x \in Int : s = Slot(i) /\ x = Raw
    BY <1>2 DEF Raw
  <2>3. /\ With(b, s, x) \in Memory
        /\ \A a \in Blocks, t \in 0 .. (BLOCK_SIZE - 1) :
             a # b \/ t # s => With(b, s, x)[a][t] = elements[a][t]
    BY SlotSet
  <2> QED BY <2>1, <2>2, <2>3
<1>7. ASSUME NEW j \in Nat
      PROVE  /\ (Pending(j)' <=> Pending(j)) /\ (Done(j)' <=> Done(j))
             /\ Full(j)' => Full(j) /\ j # i
  <2>1. ASSUME NEW S \in {Holding, Holding \ {"clear"}} PROVE Held(S, j)' <=> Held(S, j)
    <3>1. cc'[c] \in S /\ cc[c] \in S
      BY <1>1 DEF Holding
    <3> QED BY <1>1, <1>2, <1>5, <3>1 DEF Held, Alone
  <2>2. Held({"header", "key", "take"}, j)' => Held({"header", "key", "take"}, j) /\ j # i
    <3> SUFFICES ASSUME NEW d \in Consumers, cc'[d] \in {"header", "key", "take"}, loc'[d].index = j
                 PROVE  Held({"header", "key", "take"}, j) /\ j # i
      BY DEF Held
    <3>1. d # c /\ cc[d] \in {"header", "key", "take"} /\ loc[d].index = j
      BY <1>1 DEF Alone
    <3>2. cc[d] \in Holding /\ cc[c] \in Holding
      BY <1>1, <3>1 DEF Holding
    <3> QED BY <1>2, <3>1, <3>2 DEF Held, MemInv, HolderOK, Mine
  <2>3. headIndex \in Nat /\ headIndex' = headIndex
    BY <1>1, Tails
  <2> QED BY <1>2, <2>1, <2>2, <2>3 DEF Pending, Done, Full
<1>8. Listed' = Listed /\ Made' = Made /\ pc' = pc
  BY <1>1 DEF poster, Listed, Made
<1>9. \A l : Value(l)' = Value(l) /\ EntryOf(l)' = EntryOf(l)
  BY <1>1, <1>8, SameIndex
<1>10. ASSUME NEW l PROVE Live(l)' <=> Live(l)
  <2>1. \A j \in InBlk(l) : j \in Nat
    BY DEF InBlk
  <2> QED BY <1>7, <1>8, <2>1 DEF Live, InBlk
<1>11. ASSUME NEW j \in Nat PROVE Filled(j)'
  <2> SUFFICES ASSUME Live(Blk(j)), Full(j), j # i, Written(j) PROVE elements'[Value(Blk(j))][Slot(j)] = j
    BY <1>1, <1>7, <1>8, <1>9, <1>10 DEF Filled, Written, Slot, Blk
  <2>1. elements[Value(Blk(j))][Slot(j)] = j
    BY DEF MemInv, BlocksOK, Filled
  <2>2. Value(Blk(j)) \in Blocks /\ Slot(j) \in 0 .. (BLOCK_SIZE - 1) /\ Blk(j) \in Nat
    BY LiveBlocks, Division
  <2>3. Value(Blk(j)) # b \/ Slot(j) # Slot(i)
    <3>1. Value(Blk(j)) = b => Blk(j) = k
      BY <1>2, <1>3, <2>2 DEF MemInv, BlocksOK, Apart
    <3>2. j = Start(Blk(j)) + Slot(j) /\ i = Start(Blk(i)) + Slot(i)
      BY Division
    <3> QED BY <1>2, <3>1, <3>2
  <2> QED BY <1>6, <2>1, <2>2, <2>3
<1>12. ASSUME NEW d \in Consumers PROVE Mine(d)'
  <2>1. \A e \in Consumers : /\ cc'[e] \in Holding <=> cc[e] \in Holding
                             /\ loc'[e].index = loc[e].index
    BY <1>1, <1>2, <1>5 DEF Alone, Holding
  <2> QED BY <1>1, <2>1 DEF MemInv, HolderOK, Mine
<1>13. Reads(c)'
  BY <1>1 DEF Reads
<1>14. Points(c)'
  <2>1. loc[c].entry = EntryOf(k)
    BY <1>1, <1>2 DEF MemInv, HolderOK, Points
  <2>2. EntryOf(Blk(loc[c].index))' = EntryOf(k) /\ Value(Blk(loc[c].index))' = Value(k)
    BY <1>2, <1>5, <1>9 DEF Blk
  <2> QED BY <1>1, <1>3, <1>5, <2>1, <2>2 DEF Points
<1>15. headIndex' >= headIndex /\ cc[c] \notin {"clear", "free"} /\ cc'[c] \notin {"clear", "free"}
  BY <1>1, Tails
<1>16. MemInv'
  BY <1>1, <1>6, <1>7, <1>11, <1>12, <1>13, <1>14, <1>15, ConsumerStep
<1> QED BY <1>2, <1>5, <1>16

\* The element is counted as done, in its block and there only; the block stays live.
LEMMA Emptied ==
  ASSUME MemInv, NEW c \in Consumers, SetEmpty(c), NEW i, i = loc[c].index, NEW k, k = Blk(i)
  PROVE  /\ cc[c] = "mark" /\ cc'[c] \in {"clear", "idle"} /\ Alone(c)
         /\ cc'[c] = "clear" => loc'[c] = loc[c]
         /\ UNCHANGED <<tailIndex, headIndex, elements, pool, index, poster>>
         /\ i \in Nat /\ k \in Nat /\ i \in InBlk(k) /\ Live(k) /\ ~Done(i)
         /\ \A j \in Nat : /\ (Full(j)' <=> Full(j)) /\ (Done(j)' <=> Done(j) \/ j = i)
                           /\ Pending(j)' => Pending(j)
                           /\ j # i => (Pending(j)' <=> Pending(j))
         /\ elementsCompletelyDequeued' \in [Blocks -> Nat]
         /\ \A l \in Nat : (Live(l)' <=> Live(l)) /\ (Live(l) =>
              elementsCompletelyDequeued'[Value(l)] = Cardinality(DoneIn(l)'))
         /\ cc'[c] = "clear" => \A j \in InBlk(k) : Done(j)'
<1>1. /\ cc[c] = "mark" /\ Alone(c)
      /\ UNCHANGED <<tailIndex, headIndex, elements, pool, index, poster>>
      /\ elementsCompletelyDequeued' =
           [elementsCompletelyDequeued EXCEPT ![loc[c].block] = elementsCompletelyDequeued[loc[c].block] + 1]
      /\ \/ /\ elementsCompletelyDequeued[loc[c].block] = BLOCK_SIZE - 1
            /\ cc'[c] = "clear" /\ loc'[c] = loc[c]
         \/ /\ elementsCompletelyDequeued[loc[c].block] # BLOCK_SIZE - 1
            /\ cc'[c] = "idle"
  <2>1. cc \in [Consumers -> CSteps] /\ loc = [d \in Consumers |-> loc[d]]
    BY DEF MemInv, CountInv, CountTypes
  <2>2. elementsCompletelyDequeued' =
           [elementsCompletelyDequeued EXCEPT ![loc[c].block] = elementsCompletelyDequeued[loc[c].block] + 1]
    BY DEF SetEmpty
  <2>3. CASE elementsCompletelyDequeued[loc[c].block] = BLOCK_SIZE - 1
    BY <2>1, <2>2, <2>3 DEF SetEmpty, Goto, Alone, counters
  <2>4. CASE elementsCompletelyDequeued[loc[c].block] # BLOCK_SIZE - 1
    BY <2>1, <2>2, <2>4 DEF SetEmpty, Leaves, Goto, Local, Alone, counters
  <2> QED BY <2>3, <2>4
<1>2. /\ i \in Nat /\ k \in Nat /\ i \in InBlk(k) /\ Live(k) /\ i < headIndex
      /\ headIndex \in Nat /\ headIndex' = headIndex
  BY <1>1, HolderLive, Tails DEF Holding
<1>3. PICK b \in Blocks, n \in Nat :
        /\ b = loc[c].block /\ b = Value(k) /\ n = elementsCompletelyDequeued[b]
        /\ n = Cardinality(DoneIn(k))
  <2>1. loc[c].block = Value(k)
    BY <1>1 DEF MemInv, HolderOK, Points
  <2>2. Value(k) \in Blocks
    BY <1>2, LiveBlocks
  <2>3. elementsCompletelyDequeued[Value(k)] = Cardinality(DoneIn(k))
    BY <1>2 DEF MemInv, BlocksOK, Counts
  <2>4. elementsCompletelyDequeued \in [Blocks -> Nat]
    BY DEF MemInv, MemTypes
  <2> QED BY <2>1, <2>2, <2>3, <2>4
<1>4. /\ elementsCompletelyDequeued' \in [Blocks -> Nat] /\ elementsCompletelyDequeued'[b] = n + 1
      /\ \A a \in Blocks \ {b} : elementsCompletelyDequeued'[a] = elementsCompletelyDequeued[a]
  <2>1. elementsCompletelyDequeued \in [Blocks -> Nat]
    BY DEF MemInv, MemTypes
  <2> QED BY <1>1, <1>3, <2>1
<1>5. \A d \in Consumers : cc[d] \in Holding /\ loc[d].index = i => d = c
  BY <1>1 DEF MemInv, HolderOK, Mine, Holding
<1>6. ASSUME NEW j \in Nat
      PROVE  /\ Held(Holding \ {"clear"}, j)' <=> Held(Holding \ {"clear"}, j) /\ j # i
             /\ Held({"header", "key", "take"}, j)' <=> Held({"header", "key", "take"}, j)
             /\ Held(Holding, j)' => Held(Holding, j)
             /\ j # i => (Held(Holding, j)' <=> Held(Holding, j))
             /\ cc'[c] = "clear" => Held(Holding, i)'
  <2>1. ASSUME NEW d \in Consumers, d # c PROVE cc'[d] = cc[d] /\ loc'[d] = loc[d]
    BY <1>1, <2>1 DEF Alone
  <2>2. /\ cc'[c] \notin Holding \ {"clear"} /\ cc[c] \in Holding \ {"clear"}
        /\ cc'[c] \notin {"header", "key", "take"} /\ cc[c] \notin {"header", "key", "take"}
        /\ cc'[c] \in Holding => cc'[c] = "clear" /\ loc'[c] = loc[c]
        /\ "clear" \in Holding
    BY <1>1 DEF Holding
  <2>3. Held(Holding \ {"clear"}, j)' <=> Held(Holding \ {"clear"}, j) /\ j # i
    BY <1>5, <2>1, <2>2 DEF Held
  <2>4. Held({"header", "key", "take"}, j)' <=> Held({"header", "key", "take"}, j)
    BY <2>1, <2>2 DEF Held
  <2>5. Held(Holding, j)' => Held(Holding, j)
    BY <2>1, <2>2 DEF Held
  <2>6. j # i => (Held(Holding, j)' <=> Held(Holding, j))
    BY <2>1, <2>2 DEF Held
  <2>7. cc'[c] = "clear" => Held(Holding, i)'
    BY <2>2 DEF Held
  <2> QED BY <2>3, <2>4, <2>5, <2>6, <2>7
<1>7. ASSUME NEW j \in Nat
      PROVE  /\ (Full(j)' <=> Full(j)) /\ (Done(j)' <=> Done(j) \/ j = i)
             /\ Pending(j)' => Pending(j)
             /\ j # i => (Pending(j)' <=> Pending(j))
             /\ cc'[c] = "clear" => Pending(i)'
  <2>1. (Full(j)' <=> Full(j)) /\ (Pending(j)' => Pending(j)) /\ (j # i => (Pending(j)' <=> Pending(j)))
    BY <1>2, <1>6 DEF Full, Pending
  <2>2. Done(j)' <=> Done(j) \/ j = i
    <3>1. Done(j)' <=> j < headIndex /\ ~Held(Holding \ {"clear"}, j)'
      BY <1>2 DEF Done, Holding
    <3> QED BY <1>2, <1>6, <3>1 DEF Done
  <2>3. cc'[c] = "clear" => Pending(i)'
    BY <1>2, <1>6 DEF Pending
  <2> QED BY <2>1, <2>2, <2>3
<1>8. ~Done(i)
  <2>1. Held(Holding \ {"clear"}, i)
    BY <1>1 DEF Held, Holding
  <2> QED BY <2>1 DEF Done
<1>9. /\ DoneIn(k)' = DoneIn(k) \cup {i} /\ i \notin DoneIn(k)
      /\ \A l \in Nat : l # k => DoneIn(l)' = DoneIn(l)
  <2>1. \A l : InBlk(l)' = InBlk(l) /\ \A j \in InBlk(l) : j \in Nat
    BY DEF InBlk
  <2>2. \A l \in Nat : l # k => i \notin InBlk(l)
    BY DEF InBlk
  <2> QED BY <1>2, <1>7, <1>8, <2>1, <2>2 DEF DoneIn
<1>10. PICK D : D = DoneIn(k)' /\ D \in SUBSET InBlk(k) /\ IsFiniteSet(D) /\ Cardinality(D) = n + 1
  <2>1. IsFiniteSet(InBlk(k)) /\ DoneIn(k) \in SUBSET InBlk(k)
    BY <1>2, BlockSize DEF DoneIn
  <2>2. IsFiniteSet(DoneIn(k))
    BY <2>1, FS_Subset
  <2>3. /\ IsFiniteSet(DoneIn(k) \cup {i})
        /\ Cardinality(DoneIn(k) \cup {i})
             = IF i \in DoneIn(k) THEN Cardinality(DoneIn(k)) ELSE Cardinality(DoneIn(k)) + 1
    BY <2>2, FS_AddElement
  <2> QED BY <1>2, <1>3, <1>9, <2>1, <2>3
<1>11. Cardinality(D) = BLOCK_SIZE <=> D = InBlk(k)
  <2>1. IsFiniteSet(InBlk(k)) /\ Cardinality(InBlk(k)) = BLOCK_SIZE
    BY <1>2, BlockSize
  <2>2. Cardinality(InBlk(k)) = Cardinality(D) => D = InBlk(k)
    BY <1>10, <2>1, FS_Subset
  <2> QED BY <2>1, <2>2
<1>12. ASSUME cc'[c] = "clear" PROVE \A j \in InBlk(k) : Done(j)'
  <2>1. D = InBlk(k)
    BY <1>1, <1>3, <1>10, <1>11, <1>12
  <2> QED BY <1>10, <2>1 DEF DoneIn, InBlk
<1>13. Made' = Made
  BY <1>1 DEF Made, poster
<1>14. ASSUME NEW l \in Nat PROVE Live(l)' <=> Live(l)
  <2>1. InBlk(l)' = InBlk(l) /\ \A j \in InBlk(l) : j \in Nat
    BY DEF InBlk
  <2>2. CASE l # k
    <3>1. i \notin InBlk(l)
      BY <2>2 DEF InBlk
    <3> QED BY <1>7, <1>13, <2>1, <3>1 DEF Live
  <2>3. CASE l = k
    <3>1. \E j \in InBlk(k) : Pending(j)'
      <4>1. CASE cc'[c] = "clear"
        BY <1>2, <1>7, <4>1
      <4>2. CASE cc'[c] # "clear"
        <5>1. D # InBlk(k)
          BY <1>1, <1>3, <1>10, <1>11, <4>2
        <5>2. PICK j \in InBlk(k) : j \notin D
          BY <1>10, <5>1
        <5>3. ~Done(j)' /\ j \in Nat
          BY <1>10, <5>2 DEF DoneIn, InBlk
        <5>4. Held(Holding \ {"clear"}, j)' => Held(Holding, j)'
          BY DEF Held, Holding
        <5>5. j >= headIndex \/ Held(Holding, j)'
          <6>1. j < headIndex /\ ~Held(Holding \ {"clear"}, j)' => Done(j)'
            BY <1>2 DEF Done, Holding
          <6> QED BY <1>2, <5>3, <5>4, <6>1
        <5> QED BY <1>2, <5>2, <5>5 DEF Pending
      <4> QED BY <4>1, <4>2
    <3> QED BY <1>2, <1>13, <2>1, <2>3, <3>1 DEF Live
  <2> QED BY <2>2, <2>3
<1>15. ASSUME NEW l \in Nat, Live(l)
       PROVE  elementsCompletelyDequeued'[Value(l)] = Cardinality(DoneIn(l)')
  <2>1. CASE l = k
    BY <1>3, <1>4, <1>10, <2>1
  <2>2. CASE l # k
    <3>1. Value(l) \in Blocks \ {b}
      BY <1>2, <1>3, <1>15, <2>2, LiveBlocks DEF MemInv, BlocksOK, Apart
    <3>2. elementsCompletelyDequeued[Value(l)] = Cardinality(DoneIn(l))
      BY <1>15 DEF MemInv, BlocksOK, Counts
    <3> QED BY <1>4, <1>9, <2>2, <3>1, <3>2
  <2> QED BY <2>1, <2>2
<1> QED BY <1>1, <1>2, <1>4, <1>7, <1>8, <1>12, <1>14, <1>15

LEMMA SetEmptyMem ==
  ASSUME MemInv, NEW c \in Consumers, CountInv', SetEmpty(c)
  PROVE  MemInv'
<1>1. PICK i, k : i = loc[c].index /\ k = Blk(i)
  OBVIOUS
<1>2. /\ cc[c] = "mark" /\ cc'[c] \in {"clear", "idle"} /\ Alone(c)
      /\ cc'[c] = "clear" => loc'[c] = loc[c]
      /\ UNCHANGED <<tailIndex, headIndex, elements, pool, index, poster>>
      /\ i \in Nat /\ k \in Nat /\ i \in InBlk(k) /\ Live(k) /\ ~Done(i)
      /\ elementsCompletelyDequeued' \in [Blocks -> Nat]
      /\ cc'[c] = "clear" => \A j \in InBlk(k) : Done(j)'
  BY <1>1, Emptied
<1>3. \A j \in Nat : /\ (Full(j)' <=> Full(j)) /\ (Done(j)' <=> Done(j) \/ j = i)
                     /\ Pending(j)' => Pending(j)
                     /\ j # i => (Pending(j)' <=> Pending(j))
  BY <1>1, Emptied
<1>4. \A l \in Nat : (Live(l)' <=> Live(l)) /\ (Live(l) =>
        elementsCompletelyDequeued'[Value(l)] = Cardinality(DoneIn(l)'))
  BY <1>1, Emptied
<1>5. pc' = pc /\ entry' = entry /\ tailBlock' = tailBlock /\ Listed' = Listed /\ Made' = Made
  BY <1>2 DEF poster, Listed, Made
<1>6. /\ \A l : EntryOf(l)' = EntryOf(l) /\ Key(l)' = Key(l) /\ Value(l)' = Value(l)
      /\ SameEntries /\ Size' = Size /\ IndexOK'
  BY <1>2, <1>5, SameIndex DEF MemInv
<1>7. ASSUME NEW l \in Nat PROVE Placed(l)' /\ Counts(l)'
  <2>1. Placed(l)
    BY DEF MemInv, BlocksOK
  <2>2. InReach(l)' <=> InReach(l)
    BY <1>5, <1>6 DEF InReach, Bit
  <2>3. Placed(l)'
    BY <1>2, <1>4, <1>6, <2>1, <2>2 DEF Placed, Start
  <2>4. Counts(l)'
    BY <1>4, <1>6 DEF Counts
  <2> QED BY <2>3, <2>4
<1>8. Apart'
  BY <1>4, <1>6 DEF Apart, MemInv, BlocksOK
<1>9. ASSUME NEW j \in Nat PROVE Filled(j)'
  <2>1. Filled(j) /\ Blk(j) \in Nat
    BY Division DEF MemInv, BlocksOK
  <2>2. Live(Blk(j))' <=> Live(Blk(j))
    BY <1>4, <2>1 DEF Blk
  <2> QED BY <1>2, <1>3, <1>5, <1>6, <2>1, <2>2 DEF Filled, Written, Slot, Blk
<1>10. BlocksOK'
  BY <1>7, <1>8, <1>9 DEF BlocksOK
<1>11. Given'
  <2>1. \A d \in Consumers : cc[d] = "free" => cc'[d] = "free" /\ loc'[d].block = loc[d].block
    BY <1>2 DEF Alone
  <2> QED BY <1>2, <1>4, <1>6, <2>1, GivenKept
<1>12. ASSUME NEW d \in Consumers PROVE HolderOK(d)'
  <2>1. HolderOK(d) /\ HolderOK(c)
    BY DEF MemInv
  <2>2. \A e \in Consumers : /\ cc'[e] \in Holding => cc[e] \in Holding /\ loc'[e] = loc[e]
                             /\ e # c => cc'[e] = cc[e] /\ loc'[e] = loc[e]
    BY <1>2 DEF Alone, Holding
  <2>3. Mine(d)'
    BY <1>2, <2>1, <2>2 DEF HolderOK, Mine
  <2>4. Clears(d)'
    <3> SUFFICES ASSUME cc'[d] = "clear" PROVE Clears(d)'
      BY DEF Clears
    <3>1. loc'[d] = loc[d]
      BY <2>2 DEF Holding
    \* Whoever is at clear already clears another block: the element of c was not done.
    <3>2. ASSUME NEW e \in Consumers, e # c, cc'[e] = "clear"
          PROVE  Blk(loc[e].index) # k /\ \A j \in InBlk(Blk(loc[e].index)) : Done(j)'
      <4>1. Clears(e) /\ cc[e] = "clear"
        BY <2>2, <3>2 DEF MemInv, HolderOK
      <4>2. \A j \in InBlk(Blk(loc[e].index)) : Done(j) /\ j \in Nat
        BY <4>1 DEF Clears, InBlk
      <4> QED BY <1>2, <1>3, <4>2
    <3>3. \A j \in InBlk(Blk(loc[d].index)) : Done(j)'
      <4>1. CASE d = c
        BY <1>1, <1>2, <4>1
      <4>2. CASE d # c
        BY <3>2, <4>2
      <4> QED BY <4>1, <4>2
    <3>4. ASSUME NEW e \in Consumers, cc'[e] = "clear", Blk(loc[e].index) = Blk(loc[d].index)
          PROVE  e = d
      <4>1. CASE e # c /\ d # c
        <5>1. cc[e] = "clear" /\ cc[d] = "clear"
          BY <2>2, <3>4, <4>1
        <5> QED BY <2>1, <3>4, <5>1 DEF HolderOK, Clears
      <4>2. CASE e = c \/ d = c
        BY <1>1, <3>2, <3>4, <4>2
      <4> QED BY <4>1, <4>2
    <3>5. \A e \in Consumers : cc'[e] = "clear" => loc'[e] = loc[e]
      BY <2>2 DEF Holding
    <3>6. InBlk(Blk(loc[d].index))' = InBlk(Blk(loc[d].index))
      BY <3>1 DEF InBlk, Blk
    <3> QED BY <3>1, <3>3, <3>4, <3>5, <3>6 DEF Clears, Blk
  <2>5. Frees(d)'
    <3>1. \A e \in Consumers : cc'[e] = "free" => cc[e] = "free" /\ loc'[e] = loc[e]
      BY <1>2, <2>2
    <3> QED BY <1>2, <1>4, <1>6, <2>1, <3>1 DEF HolderOK, Frees
  <2>6. Points(d)'
    <3>1. CASE d = c
      BY <1>2, <1>6, <2>1, <3>1 DEF HolderOK, Points
    <3>2. CASE d # c
      BY <1>6, <2>1, <2>2, <3>2 DEF HolderOK, Points
    <3> QED BY <3>1, <3>2
  <2>7. Reads(d)'
    <3>1. CASE cc'[d] = "key"
      <4>1. cc[d] = "key" /\ loc'[d] = loc[d]
        BY <1>2, <2>2, <3>1
      <4>2. HeadersKept
        BY <1>2, SameHeaders DEF index
      <4>3. EntryOf(Blk(loc[d].index))' = EntryOf(Blk(loc[d].index))
        BY <1>6, <4>1
      <4>4. ASSUME NEW m \in Nat, LedBy(d, m)
            PROVE  /\ m <= Listed' /\ EntryOf(m)' = EntryOf(m) /\ Key(m)' = Key(m)
                   /\ m = Listed' => pc' \notin {"grow", "block"} /\ Value(m)' = nullptr
        BY <1>5, <1>6, <4>4 DEF LedBy
      <4> QED BY <4>1, <4>2, <4>3, <4>4, ReadsKept
    <3>2. CASE cc'[d] # "key"
      BY <3>2 DEF Reads
    <3> QED BY <3>1, <3>2
  <2> QED BY <2>3, <2>4, <2>5, <2>6, <2>7 DEF HolderOK
<1>13. MemTypes'
  BY <1>2, <1>5 DEF MemInv, MemTypes, index
<1>14. PosterOK'
  <2>1. Live(Made - 1)' => Live(Made - 1)
    <3>1. Live(Made - 1)' => Made - 1 \in Nat
      BY <1>5 DEF Live
    <3> QED BY <1>4, <1>5, <3>1
  <2> QED BY <1>2, <1>5, <1>6, <2>1 DEF MemInv, PosterOK, Start, index
<1> QED BY <1>6, <1>10, <1>11, <1>12, <1>13, <1>14 DEF MemInv

\* The entry is cleared: its block is no longer live, the others and their entries are
\* what they were.
LEMMA Cleared ==
  ASSUME MemInv, NEW c \in Consumers, ClearEntry(c), NEW i, i = loc[c].index, NEW k, k = Blk(i)
  PROVE  /\ cc[c] = "clear" /\ cc'[c] = "free" /\ Alone(c) /\ loc' = loc
         /\ UNCHANGED <<tailIndex, headIndex, memory, blockIndex, poster>>
         /\ i \in Nat /\ k \in Nat /\ i < headIndex /\ Live(k)
         /\ loc[c].block = Value(k) /\ loc[c].got = i /\ Value(k) \in Blocks \ pool
         /\ \A j \in InBlk(k) : ~Held(Holding, j)'
         /\ \A j \in Nat : (Full(j)' <=> Full(j)) /\ (Done(j)' <=> Done(j))
         /\ \A l \in Nat : Live(l)' <=> Live(l) /\ l # k
         /\ entries' \in Seq(Entry) /\ Len(entries') = Len(entries)
         /\ \A e \in 1 .. Len(entries) : /\ entries'[e].key = entries[e].key
                                         /\ entries'[e].value \in {entries[e].value, nullptr}
                                         /\ e # EntryOf(k) => entries'[e] = entries[e]
         /\ \A l \in Nat : Live(l) /\ l # k => EntryOf(l) # EntryOf(k)
<1>1. /\ cc[c] = "clear" /\ cc'[c] = "free" /\ Alone(c) /\ loc' = loc
      /\ UNCHANGED <<tailIndex, headIndex, memory, blockIndex, poster>>
      /\ entries' = [entries EXCEPT ![loc[c].entry].value = nullptr]
  BY DEF ClearEntry, Goto, Alone, counters, MemInv, CountInv, CountTypes
<1>2. /\ i \in Nat /\ k \in Nat /\ i < headIndex /\ Live(k)
  BY <1>1, HolderLive DEF Holding
<1>3. /\ loc[c].entry = EntryOf(k) /\ loc[c].block = Value(k) /\ loc[c].got = i
      /\ \A j \in InBlk(k) : Done(j)
      /\ \A d \in Consumers : cc[d] = "clear" /\ Blk(loc[d].index) = k => d = c
  BY <1>1 DEF MemInv, HolderOK, Points, Clears
<1>4. /\ Value(k) \in Blocks \ pool /\ EntryOf(k) \in 1 .. Len(entries) /\ blockIndex # <<>>
      /\ k < Made /\ InReach(k)
  BY <1>2, LiveBlocks
<1>5. ASSUME NEW j \in Nat
      PROVE  /\ Held(Holding \ {"clear"}, j)' <=> Held(Holding \ {"clear"}, j)
             /\ Held({"header", "key", "take"}, j)' <=> Held({"header", "key", "take"}, j)
             /\ Held(Holding, j)' => Held(Holding, j)
             /\ Blk(j) # k => (Held(Holding, j)' <=> Held(Holding, j))
             /\ Blk(j) = k => ~Held(Holding, j)'
  <2>1. ASSUME NEW d \in Consumers, d # c PROVE cc'[d] = cc[d] /\ loc'[d] = loc[d]
    BY <1>1, <2>1 DEF Alone
  <2>2. /\ cc'[c] \notin Holding \ {"clear"} /\ cc[c] \notin Holding \ {"clear"}
        /\ cc'[c] \notin {"header", "key", "take"} /\ cc[c] \notin {"header", "key", "take"}
        /\ cc'[c] \notin Holding
    BY <1>1 DEF Holding
  <2>3. Held(Holding \ {"clear"}, j)' <=> Held(Holding \ {"clear"}, j)
    BY <2>1, <2>2 DEF Held
  <2>4. Held({"header", "key", "take"}, j)' <=> Held({"header", "key", "take"}, j)
    BY <2>1, <2>2 DEF Held
  <2>5. Held(Holding, j)' => Held(Holding, j)
    BY <2>1, <2>2 DEF Held
  <2>6. Blk(j) # k => (Held(Holding, j)' <=> Held(Holding, j))
    BY <2>1, <2>2 DEF Held
  <2>7. Blk(j) = k => ~Held(Holding, j)'
    <3> SUFFICES ASSUME Blk(j) = k, NEW d \in Consumers, cc'[d] \in Holding, loc'[d].index = j
                 PROVE  FALSE
      BY DEF Held
    <3>1. d # c /\ cc[d] \in Holding /\ loc[d].index = j
      BY <1>1, <2>1, <2>2
    <3>2. cc[d] # "clear"
      BY <1>3, <3>1
    <3>3. Held(Holding \ {"clear"}, j)
      BY <3>1, <3>2 DEF Held
    <3>4. Done(j)
      BY <1>3 DEF InBlk
    <3> QED BY <3>3, <3>4 DEF Done
  <2> QED BY <2>3, <2>4, <2>5, <2>6, <2>7
<1>6. headIndex \in Nat /\ headIndex' = headIndex
  BY <1>1, Tails
<1>7. ASSUME NEW j \in Nat
      PROVE  /\ (Full(j)' <=> Full(j)) /\ (Done(j)' <=> Done(j))
             /\ Blk(j) # k => (Pending(j)' <=> Pending(j))
             /\ Blk(j) = k => ~Pending(j)'
  <2>1. (Full(j)' <=> Full(j)) /\ (Blk(j) # k => (Pending(j)' <=> Pending(j)))
    BY <1>5, <1>6 DEF Full, Pending
  <2>2. Done(j)' <=> Done(j)
    <3>1. Done(j)' <=> j < headIndex /\ ~Held(Holding \ {"clear"}, j)'
      BY <1>6 DEF Done, Holding
    <3> QED BY <1>5, <3>1 DEF Done
  <2>3. Blk(j) = k => ~Pending(j)'
    <3> SUFFICES ASSUME Blk(j) = k PROVE ~Pending(j)'
      OBVIOUS
    <3>1. Done(j)
      BY <1>3 DEF InBlk
    <3>2. j < headIndex
      BY <3>1 DEF Done
    <3> QED BY <1>5, <1>6, <3>2 DEF Pending
  <2> QED BY <2>1, <2>2, <2>3
<1>8. Made' = Made
  BY <1>1 DEF Made, poster
<1>9. ASSUME NEW l \in Nat PROVE Live(l)' <=> Live(l) /\ l # k
  <2>1. InBlk(l)' = InBlk(l) /\ \A j \in InBlk(l) : j \in Nat /\ Blk(j) = l
    BY DEF InBlk
  <2>2. Live(l)' <=> l \in 0 .. (Made - 1) /\ \E j \in InBlk(l) : Pending(j)'
    BY <1>8, <2>1 DEF Live
  <2>3. CASE l = k
    BY <1>7, <2>1, <2>2, <2>3
  <2>4. CASE l # k
    BY <1>7, <2>1, <2>2, <2>4 DEF Live
  <2> QED BY <2>3, <2>4
<1>10. /\ entries' \in Seq(Entry) /\ Len(entries') = Len(entries)
       /\ \A e \in 1 .. Len(entries) : /\ entries'[e].key = entries[e].key
                                       /\ entries'[e].value \in {entries[e].value, nullptr}
                                       /\ e # EntryOf(k) => entries'[e] = entries[e]
  <2>1. PICK E : E = EntryOf(k) /\ E \in 1 .. Len(entries)
    BY <1>4
  <2>2. entries \in Seq(Entry)
    BY DEF MemInv, MemTypes
  <2>3. entries[E] \in Entry
    BY <2>1, <2>2
  <2>4. entries' = [entries EXCEPT ![E] = [entries[E] EXCEPT !.value = nullptr]]
    BY <1>1, <1>3, <2>1
  <2>5. PICK x : x = [entries[E] EXCEPT !.value = nullptr] /\ x \in Entry
               /\ x.key = entries[E].key /\ x.value = nullptr
    <3>1. /\ [entries[E] EXCEPT !.value = nullptr] \in Entry
          /\ [entries[E] EXCEPT !.value = nullptr].key = entries[E].key
          /\ [entries[E] EXCEPT !.value = nullptr].value = nullptr
      BY <2>3 DEF Entry, Values
    <3> QED BY <3>1
  <2>6. /\ entries' \in Seq(Entry) /\ Len(entries') = Len(entries) /\ entries'[E] = x
        /\ \A e \in 1 .. Len(entries) : e # E => entries'[e] = entries[e]
    BY <2>1, <2>2, <2>4, <2>5
  <2> QED BY <2>1, <2>5, <2>6
<1>11. ASSUME NEW l \in Nat, Live(l), l # k PROVE EntryOf(l) # EntryOf(k)
  <2>1. l < Made /\ InReach(l)
    BY <1>11, LiveBlocks
  <2>2. Size \in Nat /\ Listed \in Nat /\ Made \in Nat /\ Made <= Listed
    BY <1>4, Places, Tails
  <2>3. l + Size >= Listed /\ k + Size >= Listed
    BY <1>2, <1>4, <2>1, <2>2 DEF InReach, Bit
  <2>4. l \in Int /\ k \in Int /\ l - k < Size /\ k - l < Size
    BY <1>2, <1>4, <2>1, <2>2, <2>3
  <2> QED BY <1>4, <1>11, <2>4, Places
<1> QED BY <1>1, <1>2, <1>3, <1>4, <1>5, <1>7, <1>9, <1>10, <1>11 DEF InBlk

LEMMA ClearEntryMem ==
  ASSUME MemInv, NEW c \in Consumers, CountInv', ClearEntry(c)
  PROVE  MemInv'
<1>1. PICK i, k : i = loc[c].index /\ k = Blk(i)
  OBVIOUS
<1>2. /\ cc[c] = "clear" /\ cc'[c] = "free" /\ Alone(c) /\ loc' = loc
      /\ UNCHANGED <<tailIndex, headIndex, memory, blockIndex, poster>>
      /\ i \in Nat /\ k \in Nat /\ i < headIndex /\ Live(k)
      /\ loc[c].block = Value(k) /\ loc[c].got = i /\ Value(k) \in Blocks \ pool
      /\ \A j \in InBlk(k) : ~Held(Holding, j)'
      /\ \A j \in Nat : (Full(j)' <=> Full(j)) /\ (Done(j)' <=> Done(j))
      /\ \A l \in Nat : Live(l)' <=> Live(l) /\ l # k
  BY <1>1, Cleared
<1>3. /\ entries' \in Seq(Entry) /\ Len(entries') = Len(entries)
      /\ \A e \in 1 .. Len(entries) : /\ entries'[e].key = entries[e].key
                                      /\ entries'[e].value \in {entries[e].value, nullptr}
                                      /\ e # EntryOf(k) => entries'[e] = entries[e]
      /\ \A l \in Nat : Live(l) /\ l # k => EntryOf(l) # EntryOf(k)
  BY <1>1, Cleared
<1>4. /\ pc' = pc /\ entry' = entry /\ tailBlock' = tailBlock /\ Listed' = Listed /\ Made' = Made
      /\ Header' = Header /\ Size' = Size /\ \A l : EntryOf(l)' = EntryOf(l)
      /\ blockIndex # <<>> /\ headIndex \in Nat /\ Made \in Nat
  BY <1>2, LiveBlocks, Tails DEF poster, Listed, Made, Header, Size, EntryOf
<1>5. \A l \in Int : /\ Key(l)' = Key(l) /\ Value(l)' \in {Value(l), nullptr}
                     /\ EntryOf(l) # EntryOf(k) => Value(l)' = Value(l)
  <2>1. \A l \in Int : EntryOf(l) \in 1 .. Len(entries)
    BY <1>4, Places
  <2> QED BY <1>3, <1>4, <2>1 DEF Key, Value
<1>6. \A l \in Nat : Live(l)' => Live(l) /\ l # k /\ Value(l)' = Value(l) /\ Key(l)' = Key(l)
  BY <1>2, <1>3, <1>5
<1>7. \A l : DoneIn(l)' = DoneIn(l)
  BY <1>2 DEF DoneIn, InBlk
<1>8. ASSUME NEW l \in Nat PROVE Placed(l)' /\ Counts(l)'
  <2>1. Placed(l) /\ Counts(l)
    BY DEF MemInv, BlocksOK
  <2>2. InReach(l)' <=> InReach(l)
    BY <1>4 DEF InReach, Bit
  <2>3. Placed(l)'
    BY <1>2, <1>6, <2>1, <2>2 DEF Placed, Start, memory
  <2>4. Counts(l)'
    BY <1>2, <1>6, <1>7, <2>1 DEF Counts, memory
  <2> QED BY <2>3, <2>4
<1>9. Apart'
  BY <1>6 DEF Apart, MemInv, BlocksOK
<1>10. ASSUME NEW j \in Nat PROVE Filled(j)'
  <2>1. Filled(j) /\ Blk(j) \in Nat
    BY Division DEF MemInv, BlocksOK
  <2>2. Live(Blk(j))' => Live(Blk(j)) /\ Value(Blk(j))' = Value(Blk(j))
    BY <1>6, <2>1 DEF Blk
  <2> QED BY <1>2, <1>4, <2>1, <2>2 DEF Filled, Written, Slot, Blk, memory
<1>11. BlocksOK'
  BY <1>8, <1>9, <1>10 DEF BlocksOK
<1>12. Given'
  <2> SUFFICES ASSUME NEW a \in Blocks \ pool
               PROVE  \/ \E l \in Nat : Live(l)' /\ Value(l)' = a
                      \/ \E d \in Consumers : cc'[d] = "free" /\ loc'[d].block = a
    BY <1>2 DEF Given, memory
  <2>1. CASE a = Value(k)
    BY <1>2, <2>1
  <2>2. CASE a # Value(k)
    <3>1. \/ \E l \in Nat : Live(l) /\ Value(l) = a
          \/ \E d \in Consumers : cc[d] = "free" /\ loc[d].block = a
      BY DEF MemInv, Given
    <3>2. CASE \E l \in Nat : Live(l) /\ Value(l) = a
      BY <1>2, <1>6, <2>2, <3>2
    <3>3. CASE \E d \in Consumers : cc[d] = "free" /\ loc[d].block = a
      BY <1>2, <3>3 DEF Alone
    <3> QED BY <3>1, <3>2, <3>3
  <2> QED BY <2>1, <2>2
<1>13. ASSUME NEW d \in Consumers PROVE HolderOK(d)'
  <2>1. HolderOK(d) /\ HolderOK(c)
    BY DEF MemInv
  <2>2. \A e \in Consumers : cc'[e] \in Holding => cc[e] \in Holding /\ e # c
    BY <1>2 DEF Alone, Holding
  <2>3. \A e \in Consumers : e # c => cc'[e] = cc[e]
    BY <1>2 DEF Alone
  <2>4. Mine(d)'
    BY <1>2, <2>1, <2>2 DEF HolderOK, Mine
  <2>5. Reads(d)'
    <3>1. CASE cc'[d] = "key"
      <4>1. cc[d] = "key" /\ d # c /\ loc'[d] = loc[d]
        BY <1>2, <2>3, <3>1
      <4>2. HeadersKept
        BY <1>2, SameHeaders
      <4>3. EntryOf(Blk(loc[d].index))' = EntryOf(Blk(loc[d].index))
        BY <1>4, <4>1
      <4>4. ASSUME NEW m \in Nat, LedBy(d, m)
            PROVE  /\ m <= Listed' /\ EntryOf(m)' = EntryOf(m) /\ Key(m)' = Key(m)
                   /\ m = Listed' => pc' \notin {"grow", "block"} /\ Value(m)' = nullptr
        BY <1>4, <1>5, <4>4 DEF LedBy
      <4> QED BY <4>1, <4>2, <4>3, <4>4, ReadsKept
    <3>2. CASE cc'[d] # "key"
      BY <3>2 DEF Reads
    <3> QED BY <3>1, <3>2
  <2>6. Points(d)'
    <3>1. CASE cc'[d] \in {"take", "mark", "clear"}
      <4>1. cc[d] = cc'[d] /\ cc'[d] \in Holding /\ d # c /\ loc'[d] = loc[d]
        BY <1>2, <2>3, <3>1 DEF Holding
      <4>2. loc[d].index \in Nat /\ Blk(loc[d].index) \in Nat /\ Live(Blk(loc[d].index))
        BY <4>1, HolderLive
      <4>3. Blk(loc[d].index) # k
        BY <1>2, <4>1, <4>2 DEF Held, InBlk
      <4>4. EntryOf(Blk(loc[d].index))' = EntryOf(Blk(loc[d].index))
              /\ Value(Blk(loc[d].index))' = Value(Blk(loc[d].index))
        BY <1>2, <1>4, <1>6, <4>2, <4>3
      <4> QED BY <1>2, <2>1, <4>1, <4>4 DEF HolderOK, Points
    <3>2. CASE cc'[d] \notin {"take", "mark", "clear"}
      BY <3>2 DEF Points
    <3> QED BY <3>1, <3>2
  <2>7. Clears(d)'
    <3>1. \A l : \A j \in InBlk(l) : j \in Nat
      BY DEF InBlk
    <3>2. \A e \in Consumers : cc'[e] = "clear" => cc[e] = "clear"
      BY <1>2, <2>3
    <3> QED BY <1>2, <2>1, <3>1, <3>2 DEF HolderOK, Clears
  <2>8. Frees(d)'
    <3>1. \A e \in Consumers : cc[e] = "free" => loc[e].block # Value(k)
      BY <1>2 DEF MemInv, HolderOK, Frees
    <3>2. CASE d = c
      <4>1. \A l \in Nat : Live(l)' => Value(l)' # Value(k)
        BY <1>2, <1>6 DEF MemInv, BlocksOK, Apart
      <4>2. \A e \in Consumers : cc'[e] = "free" /\ loc'[e].block = Value(k) => e = c
        BY <1>2, <2>3, <3>1
      <4>3. i \in 0 .. (headIndex' - 1)
        BY <1>2, <1>4
      <4> QED BY <1>2, <3>2, <4>1, <4>2, <4>3 DEF Frees, memory
    <3>3. CASE d # c
      <4> SUFFICES ASSUME cc[d] = "free" PROVE Frees(d)'
        BY <2>3, <3>3 DEF Frees
      <4>1. /\ loc[d].block \in Blocks \ pool /\ loc[d].block # Value(k)
            /\ \A e \in Consumers : cc[e] = "free" /\ loc[e].block = loc[d].block => e = d
            /\ \A l \in Nat : Live(l) => Value(l) # loc[d].block
            /\ loc[d].got \in 0 .. (headIndex - 1)
        BY <2>1, <3>1 DEF HolderOK, Frees
      <4>2. \A e \in Consumers : cc'[e] = "free" /\ loc[e].block = loc[d].block => e = d
        BY <1>2, <2>3, <4>1
      <4>3. \A l \in Nat : Live(l)' => Value(l)' # loc[d].block
        BY <1>6, <4>1
      <4> QED BY <1>2, <4>1, <4>2, <4>3 DEF Frees, memory
    <3> QED BY <3>2, <3>3
  <2> QED BY <2>4, <2>5, <2>6, <2>7, <2>8 DEF HolderOK
<1>14. MemTypes'
  BY <1>2, <1>3, <1>4 DEF MemInv, MemTypes, memory
<1>15. IndexOK'
  <2>1. IndexOK
    BY DEF MemInv
  <2>2. \A e \in 1 .. Len(entries') : entries'[e].key = INVALID_BLOCK_BASE => entries'[e].value = nullptr
    BY <1>3, <2>1 DEF IndexOK
  <2> QED BY <1>2, <1>3, <1>4, <2>1, <2>2 DEF IndexOK
<1>16. PosterOK'
  <2>1. tailIndex \in Nat /\ Blk(tailIndex) \in Nat
    BY Tails
  <2>2. pc \in {"key", "insert", "block"} =>
          entry \in 1 .. Len(entries) /\ entry = EntryOf(Blk(tailIndex)) /\ entries[entry].value = nullptr
    <3>1. Blk(tailIndex) \in Int
      BY <2>1
    <3> QED BY <1>4, <3>1, Places DEF MemInv, PosterOK
  <2>3. pc \in {"key", "insert", "block"} => entries'[entry].value = nullptr
          /\ entries'[entry].key = entries[entry].key
    BY <1>3, <2>2
  <2>4. EntryOf(Blk(tailIndex))' = EntryOf(Blk(tailIndex))
    BY <1>2, <1>4 DEF Blk
  <2>5. Made - 1 \in Int /\ Key(Made - 1)' = Key(Made - 1)
    <3>1. PICK l \in Int : l = Made - 1
      BY <1>4
    <3>2. Key(l)' = Key(l)
      BY <1>5
    <3>3. Key(Made - 1)' = Key(l)'
      BY <1>4, <3>1 DEF Key, EntryOf
    <3> QED BY <3>1, <3>2, <3>3
  <2>6. Live(Made - 1)' => Live(Made - 1) /\ Value(Made - 1)' = Value(Made - 1)
    <3>1. PICK l \in Int : l = Made - 1
      BY <1>4
    <3>2. Live(Made - 1)' <=> Live(l)'
      BY <1>4, <3>1 DEF Live
    <3>3. Value(Made - 1)' = Value(l)'
      BY <1>4, <3>1 DEF Value, EntryOf
    <3>4. Live(l)' => l \in Nat
      BY <1>4 DEF Live
    <3> QED BY <1>6, <3>1, <3>2, <3>3, <3>4
  <2>7. Start(Made - 1)' = Start(Made - 1)
    BY <1>4 DEF Start
  <2> QED BY <1>2, <1>4, <2>2, <2>3, <2>4, <2>5, <2>6, <2>7 DEF MemInv, PosterOK
<1> QED BY <1>11, <1>12, <1>13, <1>14, <1>15, <1>16 DEF MemInv

LEMMA FreeBlockMem ==
  ASSUME MemInv, NEW c \in Consumers, CountInv', FreeBlock(c)
  PROVE  MemInv'
<1>1. /\ cc[c] = "free" /\ cc'[c] = "idle" /\ Alone(c)
      /\ UNCHANGED <<tailIndex, headIndex, elements, elementsCompletelyDequeued, index, poster>>
      /\ pool' = pool \cup {loc[c].block}
  BY DEF FreeBlock, Goto, Local, Leaves, Alone, MemInv, CountInv, CountTypes, counters
<1>2. SameStatus
  BY <1>1, StatusOfConsumer DEF Holding
<1>3. /\ Listed' = Listed /\ Made' = Made /\ pc' = pc /\ entry' = entry /\ tailBlock' = tailBlock
  BY <1>1 DEF poster, Listed, Made
<1>4. /\ \A k : EntryOf(k)' = EntryOf(k) /\ Key(k)' = Key(k) /\ Value(k)' = Value(k)
      /\ Size' = Size /\ IndexOK'
  BY <1>1, <1>3, SameIndex DEF MemInv
<1>5. \A k : (Live(k)' <=> Live(k)) /\ DoneIn(k)' = DoneIn(k)
  BY <1>2, <1>3, LiveKept
<1>6. /\ loc[c].block \in Blocks \ pool
      /\ \A d \in Consumers : cc[d] = "free" /\ loc[d].block = loc[c].block => d = c
      /\ \A k \in Nat : Live(k) => Value(k) # loc[c].block
  BY <1>1 DEF MemInv, HolderOK, Frees
<1>7. \A k : InReach(k)' <=> InReach(k)
  BY <1>3, <1>4 DEF InReach, Bit
<1>8. ASSUME NEW k \in Nat PROVE Placed(k)' /\ Counts(k)'
  <2>1. Placed(k) /\ Counts(k)
    BY DEF MemInv, BlocksOK
  <2>2. Placed(k)'
    BY <1>1, <1>4, <1>5, <1>6, <1>7, <2>1 DEF Placed, Start
  <2>3. Counts(k)'
    BY <1>1, <1>4, <1>5, <2>1 DEF Counts
  <2> QED BY <2>2, <2>3
<1>9. Apart'
  BY <1>4, <1>5 DEF Apart, MemInv, BlocksOK
<1>10. ASSUME NEW i \in Nat PROVE Filled(i)'
  <2>1. Filled(i)
    BY DEF MemInv, BlocksOK
  <2>2. Written(i)' <=> Written(i)
    BY <1>1, <1>3 DEF Written
  <2> QED BY <1>1, <1>2, <1>4, <1>5, <2>1, <2>2 DEF Filled, SameStatus, Slot, Blk
<1>11. BlocksOK'
  BY <1>8, <1>9, <1>10 DEF BlocksOK
<1>12. Given'
  <2> SUFFICES ASSUME NEW b \in Blocks \ pool, b # loc[c].block
               PROVE  \/ \E k \in Nat : Live(k)' /\ Value(k)' = b
                      \/ \E d \in Consumers : cc'[d] = "free" /\ loc'[d].block = b
    BY <1>1 DEF Given
  <2>1. CASE \E k \in Nat : Live(k) /\ Value(k) = b
    BY <1>4, <1>5, <2>1
  <2>2. CASE \E d \in Consumers : cc[d] = "free" /\ loc[d].block = b
    <3>1. PICK d \in Consumers : cc[d] = "free" /\ loc[d].block = b
      BY <2>2
    <3>2. d # c
      BY <3>1
    <3>3. cc'[d] = cc[d] /\ loc'[d] = loc[d]
      BY <1>1, <3>2 DEF Alone
    <3> QED BY <3>1, <3>3
  <2> QED BY <2>1, <2>2 DEF MemInv, Given
<1>13. ASSUME NEW d \in Consumers PROVE HolderOK(d)'
  <2>1. HolderOK(d)
    BY DEF MemInv
  <2>2. \A e \in Consumers : e # c => cc'[e] = cc[e] /\ loc'[e] = loc[e]
    BY <1>1 DEF Alone
  <2>3. \A e \in Consumers : cc'[e] # "idle" => e # c
    BY <1>1
  <2>4. CASE d = c
    BY <1>1, <2>4 DEF HolderOK, Mine, Reads, Points, Clears, Frees, Holding
  <2>5. CASE d # c
    <3>1. cc'[d] = cc[d] /\ loc'[d] = loc[d]
      BY <2>2, <2>5
    <3>2. \A e \in Consumers : cc'[e] \in {"clear", "free"} \cup Holding => e # c
      BY <1>1 DEF Holding
    <3>3. Mine(d)'
      BY <1>1, <2>1, <2>2, <3>1, <3>2 DEF HolderOK, Mine
    <3>4. Points(d)'
      BY <1>4, <2>1, <3>1 DEF HolderOK, Points
    <3>5. Clears(d)'
      <4>1. \A i \in InBlk(Blk(loc[d].index)) : i \in Nat
        BY DEF InBlk
      <4> QED BY <1>2, <2>1, <2>2, <3>1, <3>2, <4>1 DEF HolderOK, Clears, SameStatus
    <3>6. Frees(d)'
      <4>1. cc[d] = "free" => loc[d].block # loc[c].block
        BY <1>6, <2>5
      <4> QED BY <1>1, <1>4, <1>5, <2>1, <2>2, <3>1, <3>2, <4>1 DEF HolderOK, Frees
    <3>7. Reads(d)'
      <4>1. CASE cc[d] = "key"
        <5>1. HeadersKept
          BY <1>1, SameHeaders DEF index
        <5>2. EntryOf(Blk(loc[d].index))' = EntryOf(Blk(loc[d].index))
          BY <1>4, <3>1
        <5>3. ASSUME NEW m \in Nat, LedBy(d, m)
              PROVE  /\ m <= Listed' /\ EntryOf(m)' = EntryOf(m) /\ Key(m)' = Key(m)
                     /\ m = Listed' => pc' \notin {"grow", "block"} /\ Value(m)' = nullptr
          BY <1>3, <1>4, <5>3 DEF LedBy
        <5> QED BY <3>1, <4>1, <5>1, <5>2, <5>3, ReadsKept
      <4>2. CASE cc[d] # "key"
        BY <3>1, <4>2 DEF Reads
      <4> QED BY <4>1, <4>2
    <3> QED BY <3>3, <3>4, <3>5, <3>6, <3>7 DEF HolderOK
  <2> QED BY <2>4, <2>5
<1>14. MemTypes'
  BY <1>1, <1>3, <1>6 DEF MemInv, MemTypes, index
<1>15. PosterOK'
  BY <1>1, <1>3, <1>4, <1>5 DEF MemInv, PosterOK, Start, index
<1> QED BY <1>4, <1>11, <1>12, <1>13, <1>14, <1>15 DEF MemInv

\* The destructor's step and a stutter.
LEMMA StutterMem ==
  ASSUME MemInv, CountInv', UNCHANGED <<counters, memory, index, poster, cc, loc>>
  PROVE  MemInv'
<1>1. /\ Listed' = Listed /\ Made' = Made /\ pc' = pc
      /\ UNCHANGED <<tailIndex, headIndex, elements, elementsCompletelyDequeued, pool>>
  BY DEF counters, memory, poster, Listed, Made
<1>2. SameStatus
  BY <1>1, StatusOfPoster
<1>3. /\ \A k : EntryOf(k)' = EntryOf(k) /\ Key(k)' = Key(k) /\ Value(k)' = Value(k)
      /\ SameEntries /\ Size' = Size /\ IndexOK'
  BY <1>1, SameIndex DEF MemInv
<1>4. \A k \in Nat : Live(k) => InReach(k)'
  BY <1>1, <1>3, LiveBlocks DEF InReach, Bit
<1>5. \A i \in Nat : Written(i)' => Written(i)
  BY <1>1 DEF Written
<1>6. /\ BlocksOK'
      /\ \A k : Live(k)' <=> Live(k)
      /\ \A k \in Nat : Live(k) => Value(k)' = Value(k) /\ Key(k)' = Key(k)
  BY <1>1, <1>2, <1>3, <1>4, <1>5, BlocksKept
<1>7. Given'
  BY <1>1, <1>6, GivenKept
<1>8. ASSUME NEW c \in Consumers PROVE Reads(c)'
  <2>1. CASE cc[c] = "key"
    <3>1. HeadersKept
      BY SameHeaders DEF index
    <3>2. ASSUME NEW m \in Nat, LedBy(c, m)
          PROVE  /\ m <= Listed' /\ EntryOf(m)' = EntryOf(m) /\ Key(m)' = Key(m)
                 /\ m = Listed' => pc' \notin {"grow", "block"} /\ Value(m)' = nullptr
      BY <1>1, <1>3, <3>2 DEF LedBy
    <3>3. EntryOf(Blk(loc[c].index))' = EntryOf(Blk(loc[c].index))
      BY <1>3
    <3> QED BY <2>1, <3>1, <3>2, <3>3, ReadsKept
  <2>2. CASE cc[c] # "key"
    BY <2>2 DEF Reads
  <2> QED BY <2>1, <2>2
<1>9. \A c \in Consumers : HolderOK(c)'
  BY <1>1, <1>2, <1>3, <1>8, HoldersKept
<1>10. MemTypes'
  BY <1>1 DEF MemInv, MemTypes, index, poster
<1>11. PosterOK'
  BY <1>1, <1>3, <1>6 DEF MemInv, PosterOK, Start, index, poster
<1> QED BY <1>3, <1>6, <1>7, <1>9, <1>10, <1>11 DEF MemInv

LEMMA InitMem ==
  ASSUME Init
  PROVE  MemInv
<1>1. CountInv
  BY InitCount
<1>2. /\ tailIndex = 0 /\ headIndex = 0 /\ pc = "idle" /\ pool = Blocks
      /\ \A c \in Consumers : cc[c] = "idle"
  BY DEF Init
<1>3. Made = 0
  <2>1. Start(0) = 0 /\ 0 \in 0 .. (BLOCK_SIZE - 1) /\ 0 + 0 = 0
    BY Starts0
  <2>2. Slot(0) = 0 /\ Blk(0) = 0
    BY <2>1, Composed
  <2> QED BY <1>2, <2>2 DEF Made, Bit
<1>4. \A k : ~Live(k)
  BY <1>3 DEF Live
<1>5. BlocksOK
  <2>1. \A k \in Nat : Placed(k) /\ Counts(k)
    BY <1>4 DEF Placed, Counts
  <2>2. Apart /\ \A i \in Nat : Filled(i)
    BY <1>4 DEF Apart, Filled
  <2> QED BY <2>1, <2>2 DEF BlocksOK
<1>6. Given
  BY <1>2 DEF Given
<1>7. \A c \in Consumers : HolderOK(c)
  BY <1>2 DEF HolderOK, Mine, Reads, Points, Clears, Frees, Holding
<1>8. PosterOK
  BY <1>2, <1>3, <1>4 DEF PosterOK
<1>9. MemTypes /\ IndexOK
  <2> DEFINE N == IMPLICIT_INITIAL_INDEX_SIZE
             h == [index |-> [i \in 1 .. N |-> i], tail |-> N]
             es == [e \in 1 .. N |-> EmptyEntry]
  <2>1. N \in Nat \ {0, 1}
    OBVIOUS
  <2>2. /\ elements \in [Blocks -> [0 .. (BLOCK_SIZE - 1) -> Int]]
        /\ elementsCompletelyDequeued \in [Blocks -> Nat]
        /\ pool \in SUBSET Blocks /\ tailBlock \in Values /\ pc \in PSteps
    BY DEF Init, Raw, Values, PSteps
  <2>3. CASE entries = <<>> /\ blockIndex = <<>>
    BY <2>2, <2>3 DEF MemTypes, IndexOK
  <2>4. CASE entries = es /\ blockIndex = <<h>>
    <3>1. EmptyEntry \in Entry /\ EmptyEntry.value = nullptr
      BY DEF EmptyEntry, Entry, Values, INVALID_BLOCK_BASE
    <3>2. es \in Seq(Entry) /\ Len(es) = N /\ \A e \in 1 .. N : es[e] = EmptyEntry
      <4>1. es \in [1 .. N -> Entry]
        BY <3>1
      <4> QED BY <2>1, <4>1
    <3>3. /\ h.index \in Seq(Nat) /\ Len(h.index) = N /\ h.tail = N
          /\ \A i \in 1 .. N : h.index[i] = i
      <4>1. [i \in 1 .. N |-> i] \in [1 .. N -> Nat]
        BY <2>1
      <4>2. [i \in 1 .. N |-> i] \in Seq(Nat) /\ Len([i \in 1 .. N |-> i]) = N
        BY <2>1, <4>1
      <4> QED BY <4>2
    <3>4. h \in [index : Seq(Nat), tail : Nat]
      BY <2>1, <3>3
    <3> HIDE DEF h, es
    <3>5. <<h>> \in Seq([index : Seq(Nat), tail : Nat]) /\ Len(<<h>>) = 1 /\ <<h>>[1] = h
      BY <3>4
    <3>6. MemTypes
      BY <2>2, <2>4, <3>2, <3>5 DEF MemTypes
    <3>7. Header = h /\ Size = N
      BY <2>4, <3>3, <3>5 DEF Header, Size, Capacity
    <3>8. IndexOK
      <4>1. Len(entries) = N
        BY <2>4, <3>2
      <4>2. ASSUME NEW n \in 1 .. Len(blockIndex)
            PROVE  /\ Capacity(blockIndex[n]) \in Nat \ {0, 1}
                   /\ blockIndex[n].tail \in 1 .. Capacity(blockIndex[n])
                   /\ \A j \in 1 .. Capacity(blockIndex[n]) : blockIndex[n].index[j] \in 1 .. Len(entries)
                   /\ \A i, j \in 1 .. Capacity(blockIndex[n]) :
                        blockIndex[n].index[i] = blockIndex[n].index[j] => i = j
        <5>1. blockIndex[n] = h /\ Capacity(h) = N
          BY <2>4, <3>3, <3>5 DEF Capacity
        <5> QED BY <2>1, <3>3, <4>1, <5>1
      <4>3. \A e \in 1 .. Len(entries) : entries[e].key = INVALID_BLOCK_BASE => entries[e].value = nullptr
        BY <2>4, <3>1, <3>2
      <4> QED BY <3>7, <4>1, <4>2, <4>3 DEF IndexOK
    <3> QED BY <3>6, <3>8
  <2> QED BY <2>3, <2>4 DEF Init
<1> QED BY <1>1, <1>5, <1>6, <1>7, <1>8, <1>9 DEF MemInv

LEMMA NextMem ==
  ASSUME MemInv, [Next]_vars
  PROVE  MemInv'
<1>1. CountInv'
  BY NextCount DEF MemInv
<1>2. CASE EnqueueStep
  BY <1>1, <1>2, EnqueueMem, NewBlockIndexMem, NewBlockIndexFailsMem, StoreKeyMem, StoreIndexTailMem,
     RequisitionBlockMem, RequisitionFailsMem, ConstructMem, PublishMem DEF EnqueueStep
<1>3. ASSUME NEW c \in Consumers, DequeueStep(c) PROVE MemInv'
  BY <1>1, <1>3, LookingMem, ClaimMem, LoadHeaderMem, LoadKeyMem, MoveOutMem, SetEmptyMem,
     ClearEntryMem, FreeBlockMem DEF DequeueStep
<1>4. CASE Destroy \/ UNCHANGED vars
  <2>1. UNCHANGED <<counters, memory, index, poster, cc, loc>>
    BY <1>4 DEF Destroy, vars
  <2> QED BY <1>1, <2>1, StutterMem
<1> QED BY <1>2, <1>3, <1>4 DEF Next

\* The invariant of the counters, the block index and the blocks.
THEOREM MemoryInvariance == Spec => []MemInv
<1> QED BY InitMem, NextMem, PTL DEF Spec

\* A dequeue that has an index finds the entry and the block of its element, through the
\* header it loaded, however often the index has been replaced, rewound or wrapped since.
THEOREM EveryEntryFound == Spec => []EntryFound
<1>1. MemInv => EntryFound
  <2> SUFFICES ASSUME MemInv PROVE EntryFound
    OBVIOUS
  <2>1. headIndex <= tailIndex
    BY Tails
  <2>2. ASSUME NEW c \in Consumers, cc[c] = "key"
        PROVE  entries[blockIndex[loc[c].header].index[loc[c].itail]].key # INVALID_BLOCK_BASE
    <3>1. PICK m \in Nat : blockIndex[loc[c].header].index[loc[c].itail] = EntryOf(m) /\ Key(m) = Start(m)
      BY <2>2 DEF MemInv, HolderOK, Reads
    <3>2. Start(m) # 1
      BY Starts0
    <3> QED BY <3>1, <3>2 DEF Key, INVALID_BLOCK_BASE
  <2>3. ASSUME NEW c \in Consumers, cc[c] = "take"
        PROVE  /\ entries[loc[c].entry].key = Base(loc[c].index)
               /\ entries[loc[c].entry].value \in Blocks \ pool
    <3>1. loc[c].index \in Nat /\ Live(Blk(loc[c].index))
      BY <2>3, HolderLive DEF Holding
    <3>2. /\ Key(Blk(loc[c].index)) = Start(Blk(loc[c].index))
          /\ Value(Blk(loc[c].index)) \in Blocks \ pool
      BY <3>1, LiveBlocks
    <3>3. loc[c].entry = EntryOf(Blk(loc[c].index))
      BY <2>3 DEF MemInv, HolderOK, Points
    <3>4. Base(loc[c].index) = Start(Blk(loc[c].index))
      BY <3>1, Division
    <3> QED BY <3>2, <3>3, <3>4 DEF Key, Value
  <2> QED BY <2>1, <2>2, <2>3 DEF EntryFound
<1> QED BY <1>1, MemoryInvariance, PTL

-----------------------------------------------------------------------------
(***************************************************************************)
(* The stream.                                                             *)
(***************************************************************************)

Hands == [c \in Consumers |-> HandOf(c)]

LEMMA HandIs ==
  ASSUME NEW c \in Consumers
  PROVE  /\ Trying(c) => HandOf(c) = -3
         /\ cc[c] \in {"header", "key", "take"} => HandOf(c) = loc[c].index
         /\ cc[c] \in {"mark", "clear", "free"} => HandOf(c) = loc[c].got
         /\ cc[c] = "idle" => HandOf(c) = -2
BY DEF HandOf, Trying

\* What a consumer has in hand: a task once it has claimed one, and it is trying exactly
\* as long as its hand says so.
LEMMA HandHas ==
  ASSUME MemInv, NEW c \in Consumers
  PROVE  /\ Trying(c) <=> HandOf(c) = -3
         /\ cc[c] \in Holding \cup {"free"} => HandOf(c) \in 0 .. (MaxPosts - 1)
<1>1. /\ headIndex \in Nat /\ tailIndex \in Nat /\ headIndex <= tailIndex /\ tailIndex <= MaxPosts
  BY Tails DEF MemInv, PosterOK
<1>2. CASE cc[c] \in Holding
  <2>1. loc[c].index \in 0 .. (MaxPosts - 1)
    BY <1>1, <1>2, HolderLive
  <2>2. HandOf(c) = loc[c].index
    BY <1>2, HandIs DEF Holding, MemInv, HolderOK, Points
  <2> QED BY <1>2, <2>1, <2>2 DEF Trying, Holding
<1>3. CASE cc[c] = "free"
  <2>1. loc[c].got \in 0 .. (headIndex - 1)
    BY <1>3 DEF MemInv, HolderOK, Frees
  <2>2. HandOf(c) = loc[c].got
    BY <1>3, HandIs
  <2> QED BY <1>1, <1>3, <2>1, <2>2 DEF Trying
<1>4. CASE cc[c] \notin Holding \cup {"free"}
  <2>1. Trying(c) \/ cc[c] = "idle"
    BY <1>4 DEF MemInv, CountInv, CountTypes, CSteps, Trying, Holding
  <2> QED BY <1>4, <2>1, HandIs DEF Trying
<1> QED BY <1>2, <1>3, <1>4

\* The step of one consumer changes one hand.
LEMMA OneHand ==
  ASSUME NEW c \in Consumers, Alone(c), NEW x, HandOf(c)' = x
  PROVE  Hands' = [Hands EXCEPT ![c] = x]
<1>1. ASSUME NEW d \in Consumers, d # c PROVE HandOf(d)' = HandOf(d)
  <2>1. cc'[d] = cc[d] /\ loc'[d] = loc[d]
    BY <1>1 DEF Alone
  <2> QED BY <2>1 DEF HandOf, Trying
<1> QED BY <1>1 DEF Hands

LEMMA QueueIs ==
  ASSUME MemInv
  PROVE  /\ tailIndex \in Nat /\ headIndex \in Nat /\ headIndex <= tailIndex
         /\ Queue \in Seq(Int) /\ Len(Queue) = tailIndex - headIndex
         /\ \A n \in 1 .. (tailIndex - headIndex) : Queue[n] = headIndex + n - 1
<1>1. tailIndex \in Nat /\ headIndex \in Nat /\ headIndex <= tailIndex
  BY Tails
<1>2. PICK n \in Nat : n = tailIndex - headIndex
  BY <1>1
<1>3. \A f \in [1 .. n -> Int] : f \in Seq(Int) /\ Len(f) = n
  OBVIOUS
<1>4. Queue \in [1 .. n -> Int]
  BY <1>1, <1>2 DEF Queue
<1> QED BY <1>1, <1>2, <1>3, <1>4 DEF Queue

LEMMA StreamOf ==
  /\ Stream!streamVars = <<Queue, Hands, spare>>
  /\ \A c \in Consumers : Stream!Attempting(c) <=> Hands[c] = -3
BY DEF Stream!streamVars, Stream!Attempting, Hands

LEMMA QueueOps ==
  /\ \A q \in Seq(Int) : q = [m \in 1 .. Len(q) |-> q[m]]
  /\ \A q \in Seq(Int), x \in Int :
       /\ Append(q, x) \in Seq(Int) /\ Len(Append(q, x)) = Len(q) + 1
       /\ \A m \in 1 .. Len(q) : Append(q, x)[m] = q[m]
       /\ Append(q, x)[Len(q) + 1] = x
  /\ \A q \in Seq(Int) : q # <<>> =>
       /\ Tail(q) \in Seq(Int) /\ Len(Tail(q)) = Len(q) - 1
       /\ \A m \in 1 .. (Len(q) - 1) : Tail(q)[m] = q[m + 1]
       /\ Head(q) = q[1]
<1>1. \A q \in Seq(Int) : q = [m \in 1 .. Len(q) |-> q[m]]
  OBVIOUS
<1>2. \A q \in Seq(Int), x \in Int :
        /\ Append(q, x) \in Seq(Int) /\ Len(Append(q, x)) = Len(q) + 1
        /\ \A m \in 1 .. Len(q) : Append(q, x)[m] = q[m]
        /\ Append(q, x)[Len(q) + 1] = x
  OBVIOUS
<1>3. \A q \in Seq(Int) : q # <<>> =>
        /\ Tail(q) \in Seq(Int) /\ Len(Tail(q)) = Len(q) - 1
        /\ \A m \in 1 .. (Len(q) - 1) : Tail(q)[m] = q[m + 1]
        /\ Head(q) = q[1]
  OBVIOUS
<1> QED BY <1>1, <1>2, <1>3

\* A step that the stream does not see.
LEMMA Unseen ==
  ASSUME UNCHANGED <<tailIndex, headIndex, spare>>,
         \A c \in Consumers : HandOf(c)' = HandOf(c)
  PROVE  UNCHANGED Stream!streamVars
BY StreamOf DEF Hands, Queue, Stream!streamVars

LEMMA PosterStream ==
  ASSUME MemInv, EnqueueStep \/ Destroy
  PROVE  [Stream!StreamNext]_Stream!streamVars
<1>1. UNCHANGED <<headIndex, cc, loc, spare>>
  BY DEF EnqueueStep, Enqueue, NewBlockIndex, NewBlockIndexFails, StoreKey, StoreIndexTail,
         RequisitionBlock, RequisitionFails, Construct, Publish, Destroy, counters
<1>2. \A c \in Consumers : HandOf(c)' = HandOf(c)
  BY <1>1 DEF HandOf, Trying
<1>3. CASE Publish
  <2>1. tailIndex' = tailIndex + 1 /\ tailIndex \in 0 .. (MaxPosts - 1)
    BY <1>3, Tails DEF Publish, MemInv, PosterOK
  <2>2. Queue' = Append(Queue, tailIndex)
    <3>1. PICK n \in Nat, h \in Nat : n = tailIndex - headIndex /\ h = headIndex
      BY QueueIs
    <3>2. Queue' = [m \in 1 .. (n + 1) |-> h + m - 1] /\ h + (n + 1) - 1 = tailIndex
      <4>1. tailIndex' - headIndex' = n + 1
        BY <1>1, <2>1, <3>1, QueueIs
      <4>2. headIndex' = h
        BY <1>1, <3>1
      <4> QED BY <3>1, <4>1, <4>2, QueueIs DEF Queue
    <3>3. Queue \in Seq(Int) /\ Len(Queue) = n /\ \A m \in 1 .. n : Queue[m] = h + m - 1
      BY <3>1, QueueIs
    <3>4. PICK q \in Seq(Int) : q = Append(Queue, tailIndex) /\ Len(q) = n + 1
                   /\ (\A m \in 1 .. n : q[m] = Queue[m]) /\ q[n + 1] = tailIndex
      <4>1. tailIndex \in Int
        BY <2>1
      <4> QED BY <3>3, <4>1, QueueOps
    <3>5. \A m \in 1 .. (n + 1) : q[m] = h + m - 1
      BY <3>1, <3>2, <3>3, <3>4
    <3>6. q = [m \in 1 .. (n + 1) |-> q[m]]
      BY <3>4, QueueOps
    <3> QED BY <3>2, <3>4, <3>5, <3>6
  <2>3. Stream!Put(tailIndex)
    BY <1>1, <1>2, <2>2 DEF Stream!Put
  <2> QED BY <2>1, <2>3 DEF Stream!StreamNext
<1>4. CASE ~Publish
  <2>1. tailIndex' = tailIndex
    BY <1>4 DEF EnqueueStep, Enqueue, NewBlockIndex, NewBlockIndexFails, StoreKey, StoreIndexTail,
         RequisitionBlock, RequisitionFails, Construct, Destroy, counters
  <2> QED BY <1>1, <1>2, <2>1, Unseen
<1> QED BY <1>3, <1>4

LEMMA BeginStream ==
  ASSUME MemInv, NEW c \in Consumers, LoadTail(c)
  PROVE  Stream!Begin(c)
<1>1. /\ cc[c] = "idle" /\ cc'[c] = "over" /\ Alone(c)
      /\ UNCHANGED <<tailIndex, headIndex>>
  BY DEF LoadTail, Goto, Local, Alone, MemInv, CountInv, CountTypes, counters
<1>2. Hands[c] = -2 /\ HandOf(c)' = -3
  <2>1. Trying(c)'
    BY <1>1 DEF Trying
  <2> QED BY <1>1, <2>1, HandIs DEF Hands, HandOf
<1>3. Hands' = [Hands EXCEPT ![c] = -3]
  BY <1>1, <1>2, OneHand
<1>4. Queue' = Queue
  BY <1>1 DEF Queue
<1>5. \A d \in Consumers : Trying(d) <=> Hands[d] = -3
  BY HandHas DEF Hands
<1>6. spare' = [d \in Consumers |->
         IF d = c THEN Less(Len(Queue), Cardinality({e \in Consumers : Hands[e] = -3}))
         ELSE IF Hands[d] = -3 THEN Less(spare[d], 1) ELSE 0]
  <2>1. {e \in Consumers : Trying(e)} = {e \in Consumers : Hands[e] = -3}
    BY <1>5
  <2>2. Len(Queue) = tailIndex - headIndex
    BY QueueIs
  <2> QED BY <1>5, <2>1, <2>2 DEF LoadTail, Starts
<1>7. spare' = [d \in Consumers |->
         IF d = c THEN Stream!Less(Len(Queue), Stream!Cardinality({e \in Consumers : Stream!Attempting(e)}))
         ELSE IF Stream!Attempting(d) THEN Stream!Less(spare[d], 1) ELSE 0]
  <2>1. {e \in Consumers : Stream!Attempting(e)} = {e \in Consumers : Hands[e] = -3}
    BY StreamOf
  <2>2. \A m, n : Stream!Less(m, n) = Less(m, n)
    BY DEF Stream!Less, Less
  <2>3. \A S : Stream!Cardinality(S) = Cardinality(S)
    BY DEF Stream!Cardinality, Cardinality
  <2> QED BY <1>6, <2>1, <2>2, <2>3, StreamOf
<1>8. [d \in Consumers |-> HandOf(d)] = Hands
  BY DEF Hands
<1>9. [d \in Consumers |-> HandOf(d)]' = Hands'
  BY DEF Hands
<1>10. [d \in Consumers |-> HandOf(d)]' = [[d \in Consumers |-> HandOf(d)] EXCEPT ![c] = -3]
  BY <1>3, <1>8, <1>9
<1>11. [d \in Consumers |-> HandOf(d)][c] = -2
  BY <1>2, <1>8
<1> QED BY <1>4, <1>7, <1>10, <1>11 DEF Stream!Begin

\* An attempt that ends without a task: it had none to spare.
LEMMA MissStream ==
  ASSUME MemInv, NEW c \in Consumers, Trying(c), cc'[c] = "idle", Alone(c),
         UNCHANGED <<tailIndex, headIndex>>, Ends(c), spare[c] = 0
  PROVE  Stream!Miss(c)
<1>1. Hands[c] = -3
  BY HandIs DEF Hands
<1>2. HandOf(c)' = -2
  BY DEF HandOf, Trying
<1>3. Hands' = [Hands EXCEPT ![c] = -2]
  BY <1>2, OneHand
<1>4. Queue' = Queue
  BY DEF Queue
<1>5. spare' = spare
  BY DEF Ends, MemInv, CountInv, CountTypes
<1> QED BY <1>1, <1>3, <1>4, <1>5 DEF Stream!Miss, Stream!Attempting, Hands

LEMMA ReturnStream ==
  ASSUME MemInv, NEW c \in Consumers, cc[c] \in Holding \cup {"free"}, cc'[c] = "idle", Alone(c),
         UNCHANGED <<tailIndex, headIndex, spare>>
  PROVE  Stream!Return(c)
<1>1. Hands[c] \in 0 .. (MaxPosts - 1)
  BY HandHas DEF Hands
<1>2. HandOf(c)' = -2
  BY DEF HandOf, Trying
<1>3. Hands' = [Hands EXCEPT ![c] = -2]
  BY <1>2, OneHand
<1>4. Queue' = Queue
  BY DEF Queue
<1> QED BY <1>1, <1>3, <1>4 DEF Stream!Return, Hands

LEMMA ClaimStream ==
  ASSUME MemInv, NEW c \in Consumers, Claim(c)
  PROVE  Stream!Get(c)
<1>1. /\ cc[c] = "claim" /\ cc'[c] = "header" /\ Alone(c)
      /\ tailIndex' = tailIndex /\ headIndex' = headIndex + 1
  BY DEF Claim, Goto, Local, Alone, MemInv, CountInv, CountTypes
<1>2. loc'[c].index = headIndex
  <2>1. [NoLocals EXCEPT !.index = headIndex].index = headIndex
    BY DEF NoLocals
  <2> QED BY <2>1 DEF Claim, Local, MemInv, CountInv, CountTypes
<1>3. Hands[c] = -3 /\ HandOf(c)' = headIndex
  <2>1. Trying(c) /\ ~Trying(c)'
    BY <1>1 DEF Trying
  <2> QED BY <1>1, <1>2, <2>1, HandIs DEF Hands, HandOf
<1>4. Hands' = [Hands EXCEPT ![c] = headIndex]
  BY <1>1, <1>3, OneHand
<1>5. headIndex < tailIndex
  <2>1. At({"claim"}) \in SUBSET Consumers /\ c \in At({"claim"})
    BY <1>1 DEF At
  <2>2. IsFiniteSet(At({"claim"})) /\ Cardinality(At({"claim"})) \in Nat
    BY <2>1, FS_Subset, FS_CardinalityType
  <2>3. Cardinality(At({"claim"})) # 0
    BY <2>1, <2>2, FS_EmptySet
  <2>4. headIndex + Cardinality(At({"claim"})) <= tailIndex
    BY RoomGivesHead DEF MemInv, HeadBelow
  <2> QED BY <2>2, <2>3, <2>4, Tails
<1>6. Queue # <<>> /\ Head(Queue) = headIndex /\ Queue' = Tail(Queue)
  <2>1. PICK n \in Nat \ {0}, h \in Nat : n = tailIndex - headIndex /\ h = headIndex
    BY <1>5, QueueIs
  <2>2. Queue \in Seq(Int) /\ Len(Queue) = n /\ \A m \in 1 .. n : Queue[m] = h + m - 1
    BY <2>1, QueueIs
  <2>3. Queue' = [m \in 1 .. (n - 1) |-> h + 1 + m - 1]
    <3>1. tailIndex' - headIndex' = n - 1 /\ headIndex' = h + 1
      BY <1>1, <2>1, QueueIs
    <3> QED BY <3>1 DEF Queue
  <2>4. Queue # <<>> /\ Head(Queue) = Queue[1]
    BY <2>1, <2>2
  <2>5. PICK q \in Seq(Int) : q = Tail(Queue) /\ q = [m \in 1 .. (n - 1) |-> Queue[m + 1]]
    <3>1. PICK q \in Seq(Int) : q = Tail(Queue) /\ Len(q) = n - 1
                   /\ \A m \in 1 .. (n - 1) : q[m] = Queue[m + 1]
      BY <2>2, <2>4, QueueOps
    <3>2. q = [m \in 1 .. (n - 1) |-> q[m]]
      BY <3>1, QueueOps
    <3> QED BY <3>1, <3>2
  <2>6. \A m \in 1 .. (n - 1) : h + 1 + m - 1 = Queue[m + 1]
    BY <2>1, <2>2
  <2>7. Queue[1] = h
    BY <2>1, <2>2
  <2> QED BY <2>1, <2>3, <2>4, <2>5, <2>6, <2>7
<1>7. spare' = [spare EXCEPT ![c] = 0]
  BY DEF Claim, Ends
<1> QED BY <1>3, <1>4, <1>6, <1>7 DEF Stream!Get, Stream!Attempting, Stream!Ends, Hands

LEMMA ConsumerStream ==
  ASSUME MemInv, NEW c \in Consumers, DequeueStep(c)
  PROVE  [Stream!StreamNext]_Stream!streamVars
<1>0. /\ cc \in [Consumers -> CSteps] /\ loc = [d \in Consumers |-> loc[d]] /\ Locals(loc[c])
      /\ spare \in [Consumers -> Nat]
  BY DEF MemInv, CountInv, CountTypes
<1>a. ASSUME Alone(c), UNCHANGED <<tailIndex, headIndex, spare>>, HandOf(c)' = HandOf(c)
      PROVE  UNCHANGED Stream!streamVars
  <2>1. ASSUME NEW d \in Consumers PROVE HandOf(d)' = HandOf(d)
    <3>1. d # c => cc'[d] = cc[d] /\ loc'[d] = loc[d]
      BY <1>a DEF Alone
    <3> QED BY <1>a, <3>1 DEF HandOf, Trying
  <2> QED BY <1>a, <2>1, Unseen
<1>b. ASSUME Trying(c), Trying(c)' PROVE HandOf(c)' = HandOf(c)
  BY <1>b DEF HandOf
<1>1. CASE LoadTail(c)
  BY <1>1, BeginStream DEF Stream!StreamNext
<1>2. CASE LoadOvercommit(c) \/ CountIn(c) \/ CheckAgain(c)
  <2>1. Trying(c) /\ Trying(c)' /\ Alone(c) /\ UNCHANGED <<tailIndex, headIndex, spare>>
    BY <1>0, <1>2 DEF LoadOvercommit, CountIn, CheckAgain, Goto, Local, Alone, Trying, counters
  <2> QED BY <1>a, <1>b, <2>1
<1>3. CASE LooksNonEmpty(c)
  <2>1. Trying(c) /\ Alone(c) /\ UNCHANGED <<tailIndex, headIndex>> /\ cc[c] = "look"
    BY <1>0, <1>3 DEF LooksNonEmpty, Goto, Leaves, Local, Alone, Trying, counters
  <2>2. CASE dequeueOptimisticCount - loc[c].over < loc[c].tail
    <3>1. Trying(c)' /\ spare' = spare
      BY <1>0, <1>3, <2>2 DEF LooksNonEmpty, Goto, Trying
    <3> QED BY <1>a, <1>b, <2>1, <3>1
  <2>3. CASE ~(dequeueOptimisticCount - loc[c].over < loc[c].tail)
    <3>1. cc'[c] = "idle" /\ Ends(c)
      BY <1>0, <1>3, <2>3 DEF LooksNonEmpty, Goto, Leaves
    <3>2. spare[c] = 0
      BY <2>1, <2>3, LooksInVain DEF MemInv
    <3> QED BY <2>1, <3>1, <3>2, MissStream DEF Stream!StreamNext
  <2> QED BY <2>2, <2>3
<1>4. CASE CountOut(c)
  <2>1. Trying(c) /\ Alone(c) /\ UNCHANGED <<tailIndex, headIndex>> /\ cc[c] = "excess"
        /\ cc'[c] = "idle" /\ Ends(c)
    BY <1>0, <1>4 DEF CountOut, Goto, Leaves, Local, Alone, Trying
  <2>2. spare[c] = 0
    BY <2>1 DEF MemInv, CountInv, Spared
  <2> QED BY <2>1, <2>2, MissStream DEF Stream!StreamNext
<1>5. CASE Claim(c)
  BY <1>5, ClaimStream DEF Stream!StreamNext
<1>6. CASE LoadHeader(c) \/ LoadKey(c)
  <2>1. /\ Alone(c) /\ UNCHANGED <<tailIndex, headIndex, spare>>
        /\ cc[c] \in {"header", "key"} /\ cc'[c] \in {"key", "take"}
    BY <1>0, <1>6 DEF LoadHeader, LoadKey, Goto, Local, Alone, counters
  <2>2. loc'[c].index = loc[c].index
    <3>5. CASE LoadHeader(c)
      <4>1. loc'[c] = [loc[c] EXCEPT !.header = Len(blockIndex), !.itail = Header.tail]
        BY <1>0, <3>5 DEF LoadHeader, Local
      <4>2. [loc[c] EXCEPT !.header = Len(blockIndex), !.itail = Header.tail]
              = [[loc[c] EXCEPT !.header = Len(blockIndex)] EXCEPT !.itail = Header.tail]
        BY <1>0 DEF Locals
      <4> QED BY <1>0, <4>1, <4>2 DEF Locals
    <3>6. CASE LoadKey(c)
      <4>1. loc'[c] = [NoLocals EXCEPT !.index = loc[c].index,
                          !.entry = EntryFor(blockIndex[loc[c].header], loc[c].itail, loc[c].index)]
        BY <1>0, <3>6 DEF LoadKey, Local
      <4>2. \A i, e : [NoLocals EXCEPT !.index = i, !.entry = e]
                = [[NoLocals EXCEPT !.index = i] EXCEPT !.entry = e]
        BY DEF NoLocals
      <4>3. \A i, e : [NoLocals EXCEPT !.index = i, !.entry = e].index = i
        BY <4>2 DEF NoLocals
      <4> QED BY <4>1, <4>3
    <3> QED BY <1>6, <3>5, <3>6
  <2>3. HandOf(c)' = HandOf(c)
    BY <2>1, <2>2 DEF HandOf, Trying
  <2> QED BY <1>a, <2>1, <2>3
<1>7. CASE MoveOut(c)
  <2>1. /\ Alone(c) /\ UNCHANGED <<tailIndex, headIndex, spare>> /\ cc[c] = "take" /\ cc'[c] = "mark"
    BY <1>0, <1>7 DEF MoveOut, Goto, Local, Alone, counters
  <2>2. loc'[c].got = loc[c].index
    BY <1>7, MoveOutMem, NextCount DEF MemInv, Next, DequeueStep
  <2>3. HandOf(c)' = HandOf(c)
    BY <2>1, <2>2 DEF HandOf, Trying
  <2> QED BY <1>a, <2>1, <2>3
<1>8. CASE SetEmpty(c)
  <2>1. Alone(c) /\ UNCHANGED <<tailIndex, headIndex, spare>> /\ cc[c] = "mark"
    BY <1>0, <1>8 DEF SetEmpty, Goto, Leaves, Local, Alone, counters
  <2>2. CASE cc'[c] = "clear" /\ loc' = loc
    <3>1. HandOf(c)' = HandOf(c)
      BY <2>1, <2>2 DEF HandOf, Trying
    <3> QED BY <1>a, <2>1, <3>1
  <2>3. CASE cc'[c] = "idle"
    BY <2>1, <2>3, ReturnStream DEF Holding, Stream!StreamNext
  <2> QED BY <1>0, <1>8, <2>2, <2>3 DEF SetEmpty, Goto, Leaves
<1>9. CASE ClearEntry(c)
  <2>1. /\ Alone(c) /\ UNCHANGED <<tailIndex, headIndex, spare, loc>> /\ cc[c] = "clear" /\ cc'[c] = "free"
    BY <1>0, <1>9 DEF ClearEntry, Goto, Alone, counters
  <2>2. HandOf(c)' = HandOf(c)
    BY <2>1 DEF HandOf, Trying
  <2> QED BY <1>a, <2>1, <2>2
<1>10. CASE FreeBlock(c)
  <2>1. /\ Alone(c) /\ UNCHANGED <<tailIndex, headIndex, spare>> /\ cc[c] = "free" /\ cc'[c] = "idle"
    BY <1>0, <1>10 DEF FreeBlock, Goto, Leaves, Local, Alone, counters
  <2> QED BY <2>1, ReturnStream DEF Stream!StreamNext
<1> QED BY <1>1, <1>2, <1>3, <1>4, <1>5, <1>6, <1>7, <1>8, <1>9, <1>10 DEF DequeueStep

\* The code implements the stream: each task that is moved out is the one claimed, in the
\* order of posting and once, and a dequeue returns false only if other attempts may have
\* taken what it saw.
THEOREM StreamImplemented == Spec => ImplementsStream
<1>1. Init => Stream!StreamInit
  <2> SUFFICES ASSUME Init PROVE Stream!StreamInit
    OBVIOUS
  <2>1. tailIndex - headIndex = 0
    BY DEF Init
  <2>2. Queue = <<>>
    BY <2>1 DEF Queue
  <2>3. \A c \in Consumers : HandOf(c) = -2
    BY DEF HandOf, Trying, Init
  <2> QED BY <2>2, <2>3 DEF Init, Stream!StreamInit
<1>2. MemInv /\ [Next]_vars => [Stream!StreamNext]_Stream!streamVars
  <2> SUFFICES ASSUME MemInv, [Next]_vars PROVE [Stream!StreamNext]_Stream!streamVars
    OBVIOUS
  <2>1. CASE UNCHANGED vars
    <3>1. UNCHANGED <<tailIndex, headIndex, spare, cc, loc>>
      BY <2>1 DEF vars, counters
    <3>2. \A c \in Consumers : HandOf(c)' = HandOf(c)
      BY <3>1 DEF HandOf, Trying
    <3> QED BY <3>1, <3>2, Unseen
  <2> QED BY <2>1, PosterStream, ConsumerStream DEF Next
<1> QED BY <1>1, <1>2, MemoryInvariance, PTL DEF Spec, ImplementsStream, Stream!StreamSpec

-----------------------------------------------------------------------------
(***************************************************************************)
(* The destructor.                                                         *)
(***************************************************************************)

LEMMA StartOrder ==
  \A k \in Nat, l \in Nat : k < l => Start(k) + BLOCK_SIZE <= Start(l)
<1> SUFFICES ASSUME NEW k \in Nat, NEW l \in Nat, k < l PROVE Start(k) + BLOCK_SIZE <= Start(l)
  OBVIOUS
<1>1. k \in Int /\ l \in Int
  OBVIOUS
<1> QED BY <1>1, Starts0

\* When nobody uses the queue, the blocks from the one of the head to the last are live and
\* nothing else is out of the pool.
LEMMA LeftOver ==
  ASSUME MemInv, Quiescent
  PROVE  /\ \A k : Live(k) <=> k \in Blk(headIndex) .. (Made - 1)
         /\ \A b \in Blocks : b \notin pool <=> \E k \in Blk(headIndex) .. (Made - 1) : Value(k) = b
         /\ \A k, l \in Blk(headIndex) .. (Made - 1) : Value(k) = Value(l) => k = l
<1>1. /\ headIndex \in Nat /\ Blk(headIndex) \in Nat /\ Made \in Nat
      /\ headIndex = Start(Blk(headIndex)) + Slot(headIndex) /\ Slot(headIndex) \in 0 .. (BLOCK_SIZE - 1)
      /\ Start(Blk(headIndex)) \in Nat
  BY Tails, Division
<1>2. \A c \in Consumers : cc[c] \notin Holding /\ cc[c] # "free"
  BY DEF Quiescent, Holding
<1>3. ASSUME NEW k \in Nat
      PROVE  (\E i \in InBlk(k) : Pending(i)) <=> k >= Blk(headIndex)
  <2>1. \A i : Pending(i) <=> i >= headIndex
    BY <1>2 DEF Pending, Held
  <2>2. Start(k) \in Nat
    BY Starts0
  <2>3. CASE k >= Blk(headIndex)
    <3>1. PICK i \in Nat : i = Start(k) + (BLOCK_SIZE - 1)
      BY <2>2
    <3>2. i \in InBlk(k)
      BY <2>2, <3>1, BlockSize
    <3>3. Start(Blk(headIndex)) <= Start(k)
      <4>1. k # Blk(headIndex) => Start(Blk(headIndex)) + BLOCK_SIZE <= Start(k)
        <5>1. k # Blk(headIndex) => Blk(headIndex) < k
          BY <1>1, <2>3
        <5> QED BY <1>1, <5>1, StartOrder
      <4> QED BY <1>1, <2>2, <4>1
    <3>4. i >= headIndex
      BY <1>1, <2>2, <3>1, <3>3
    <3> QED BY <2>1, <2>3, <3>2, <3>4
  <2>4. CASE ~(k >= Blk(headIndex))
    <3>1. ASSUME NEW i \in InBlk(k), i >= headIndex PROVE FALSE
      <4>1. i \in Nat /\ Blk(i) = k
        BY DEF InBlk
      <4>2. Blk(headIndex) <= Blk(i)
        BY <1>1, <3>1, <4>1, BlkOrder
      <4> QED BY <2>4, <4>1, <4>2
    <3> QED BY <2>1, <2>4, <3>1
  <2> QED BY <2>3, <2>4
<1>4. \A k : Live(k) <=> k \in Blk(headIndex) .. (Made - 1)
  <2>1. \A k : k \in 0 .. (Made - 1) => k \in Nat
    BY <1>1
  <2>2. \A k : k \in 0 .. (Made - 1) /\ k >= Blk(headIndex) <=> k \in Blk(headIndex) .. (Made - 1)
    BY <1>1
  <2> QED BY <1>3, <2>1, <2>2 DEF Live
<1>5. ASSUME NEW b \in Blocks
      PROVE  b \notin pool <=> \E k \in Blk(headIndex) .. (Made - 1) : Value(k) = b
  <2>1. ASSUME b \notin pool PROVE \E k \in Blk(headIndex) .. (Made - 1) : Value(k) = b
    BY <1>2, <1>4, <2>1 DEF MemInv, Given
  <2>2. ASSUME NEW k \in Blk(headIndex) .. (Made - 1) PROVE Value(k) \notin pool
    BY <1>4, LiveBlocks
  <2> QED BY <2>1, <2>2
<1>6. ASSUME NEW k \in Blk(headIndex) .. (Made - 1), NEW l \in Blk(headIndex) .. (Made - 1),
               Value(k) = Value(l)
      PROVE  k = l
  <2>1. k \in Nat /\ l \in Nat /\ Live(k) /\ Live(l)
    BY <1>1, <1>4
  <2> QED BY <1>6, <2>1 DEF MemInv, BlocksOK, Apart
<1> QED BY <1>4, <1>5, <1>6

\* There are as many indexes at which a block begins, or the head is, as blocks.
Bases == {i \in headIndex .. (tailIndex - 1) : i = headIndex \/ Slot(i) = 0}

LEMMA HowManyLeft ==
  ASSUME MemInv, pc = "idle", headIndex # tailIndex
  PROVE  Blk(headIndex) < Made /\ Cardinality(Bases) = Made - Blk(headIndex)
<1>1. PICK h \in Nat, t \in Nat, m \in Nat, k0 \in Nat :
        /\ h = headIndex /\ t = tailIndex /\ m = Made /\ k0 = Blk(headIndex) /\ h < t
  <2>1. headIndex \in Nat /\ tailIndex \in Nat /\ Made \in Nat /\ headIndex <= tailIndex
    BY Tails
  <2>2. Blk(headIndex) \in Nat /\ headIndex < tailIndex
    BY <2>1, Division
  <2> QED BY <2>1, <2>2
<1>2. k0 < m
  BY <1>1, Tails
<1>3. \A i \in Nat : /\ Start(Blk(i)) \in Nat /\ Slot(i) \in Nat /\ i = Start(Blk(i)) + Slot(i)
                     /\ Blk(i) \in Nat /\ (i < t => Blk(i) < m)
  <2>1. \A i \in Nat : i < t => Blk(i) < m
    BY <1>1, Tails
  <2>2. ASSUME NEW i \in Nat
        PROVE  Start(Blk(i)) \in Nat /\ Slot(i) \in Nat /\ i = Start(Blk(i)) + Slot(i) /\ Blk(i) \in Nat
    BY Division
  <2> QED BY <2>1, <2>2
<1>4. ASSUME NEW k \in (k0 + 1) .. (m - 1)
      PROVE  Start(k) \in Nat /\ h < Start(k) /\ Start(k) < t /\ Blk(Start(k)) = k /\ Slot(Start(k)) = 0
  <2>1. k \in Nat /\ k0 < k /\ k < m
    BY <1>4
  <2>2. /\ Start(k) \in Nat /\ Start(k) + 0 = Start(k) /\ 0 \in 0 .. (BLOCK_SIZE - 1)
    BY <2>1, Starts0
  <2>3. Blk(Start(k)) = k /\ Slot(Start(k)) = 0
    BY <2>1, <2>2, Composed
  <2>4. h < Start(k)
    <3>1. Start(k) <= h => Blk(Start(k)) <= Blk(h)
      BY <2>2, BlkOrder
    <3> QED BY <1>1, <2>1, <2>2, <2>3, <3>1
  <2>5. Start(k) < t
    <3>1. Blk(t) \in Nat /\ Start(Blk(t)) \in Nat /\ t = Start(Blk(t)) + Slot(t) /\ Slot(t) \in Nat
      BY <1>3
    <3>2. m = Blk(t) + Bit(Slot(t) # 0)
      BY <1>1 DEF Made
    <3>3. CASE Slot(t) = 0
      <4>1. k < Blk(t)
        BY <2>1, <3>1, <3>2, <3>3 DEF Bit
      <4>2. Start(k) + BLOCK_SIZE <= Start(Blk(t))
        BY <2>1, <3>1, <4>1, StartOrder
      <4> QED BY <2>2, <3>1, <4>2
    <3>4. CASE Slot(t) # 0
      <4>1. k <= Blk(t)
        BY <2>1, <3>1, <3>2, <3>4 DEF Bit
      <4>2. k # Blk(t) => Start(k) + BLOCK_SIZE <= Start(Blk(t))
        <5>1. k # Blk(t) => k < Blk(t)
          BY <2>1, <3>1, <4>1
        <5> QED BY <2>1, <3>1, <5>1, StartOrder
      <4> QED BY <2>2, <3>1, <3>4, <4>2
    <3> QED BY <3>3, <3>4
  <2> QED BY <2>2, <2>3, <2>4, <2>5
<1>5. PICK K : K = k0 .. (m - 1)
  OBVIOUS
<1>6. PICK f : f = [k \in K |-> IF k = k0 THEN h ELSE Start(k)]
  OBVIOUS
<1>7. ASSUME NEW k \in K PROVE f[k] \in Bases /\ Blk(f[k]) = k
  <2>1. CASE k = k0
    <3>1. f[k] = h /\ h \in h .. (t - 1)
      BY <1>1, <1>6, <2>1
    <3> QED BY <1>1, <2>1, <3>1 DEF Bases
  <2>2. CASE k # k0
    <3>1. f[k] = Start(k) /\ k \in (k0 + 1) .. (m - 1)
      BY <1>5, <1>6, <2>2
    <3>2. Start(k) \in h .. (t - 1) /\ Blk(Start(k)) = k /\ Slot(Start(k)) = 0
      BY <3>1, <1>4
    <3> QED BY <1>1, <3>1, <3>2 DEF Bases
  <2> QED BY <2>1, <2>2
<1>8. ASSUME NEW i \in Bases PROVE \E k \in K : f[k] = i
  <2>1. i \in h .. (t - 1) /\ (i = h \/ Slot(i) = 0) /\ i \in Nat
    BY <1>1 DEF Bases
  <2>2. Blk(h) <= Blk(i) /\ Blk(i) < m /\ i = Start(Blk(i)) + Slot(i) /\ Blk(i) \in Nat
    BY <1>3, <2>1, BlkOrder
  <2>3. Blk(i) \in K
    BY <1>1, <1>5, <2>2
  <2>4. CASE i = h
    BY <1>1, <1>6, <2>3, <2>4
  <2>5. CASE i # h
    <3>1. Slot(i) = 0 /\ i = Start(Blk(i))
      BY <1>3, <2>1, <2>2, <2>5
    <3>2. Blk(i) # k0
      <4>1. Start(k0) <= h
        BY <1>1, <1>3
      <4> QED BY <1>1, <2>1, <2>5, <3>1, <4>1
    <3> QED BY <1>6, <2>3, <3>1, <3>2
  <2> QED BY <2>4, <2>5
<1>9. ExistsBijection(K, Bases)
  <2>1. f \in [K -> Bases]
    BY <1>6, <1>7
  <2>2. \A a, b \in K : f[a] = f[b] => a = b
    BY <1>7
  <2> QED BY <1>8, <2>1, <2>2 DEF ExistsBijection, Bijection, Injection, Surjection, IsInjective
<1>10. IsFiniteSet(K) /\ Cardinality(K) = m - k0
  <2>1. m - 1 \in Int /\ k0 \in Int /\ ~(k0 > m - 1) /\ (m - 1) - k0 + 1 = m - k0
    BY <1>2
  <2> QED BY <1>5, <2>1, FS_Interval
<1>11. Cardinality(Bases) = m - k0
  BY <1>9, <1>10, FS_Bijection
<1> QED BY <1>1, <1>2, <1>11

\* The current header leads from every index to the entry of its block.
LEMMA LeadsThere ==
  ASSUME MemInv, pc = "idle", Made > 0, NEW i \in Nat
  PROVE  EntryFor(Header, Header.tail, i) = EntryOf(Blk(i))
<1>1. PICK L \in Nat : Made = L + 1 /\ Listed - 1 = L
  <2>1. Made \in Nat /\ Listed = Made
    BY Tails DEF Bit
  <2> QED BY <2>1
<1>2. /\ Size \in Nat \ {0} /\ Header.tail \in 1 .. Size
  <2>1. blockIndex # <<>>
    <3>1. CASE tailIndex = 0
      <4>1. Start(0) = 0 /\ 0 \in 0 .. (BLOCK_SIZE - 1) /\ 0 + 0 = 0
        BY Starts0
      <4>2. Slot(0) = 0 /\ Blk(0) = 0
        BY <4>1, Composed
      <4> QED BY <3>1, <4>2 DEF Made, Bit
    <3>2. CASE tailIndex # 0
      BY <3>2, Tails DEF MemInv, PosterOK
    <3> QED BY <3>1, <3>2
  <2> QED BY <2>1, Places
<1>3. Header.index[Header.tail] = EntryOf(L)
  <2>1. Ring(Header.tail, 0, Size) = Header.tail
    <3>1. 0 \in Int
      OBVIOUS
    <3> QED BY <1>2, <3>1, RingPlaces
  <2>2. L - (Listed - 1) = 0
    BY <1>1
  <2> QED BY <2>1, <2>2 DEF EntryOf
<1>4. Key(L) = Start(L)
  <2>1. Made - 1 = L /\ Made > 0
    BY <1>1
  <2> QED BY <2>1 DEF MemInv, PosterOK
<1>5. entries[Header.index[Header.tail]].key = Start(L)
  BY <1>3, <1>4 DEF Key
<1>6. (Base(i) - Start(L)) \div BLOCK_SIZE = Blk(i) - L
  BY Distance
<1>7. EntryFor(Header, Header.tail, i) = Header.index[Ring(Header.tail, Blk(i) - L, Size)]
  BY <1>5, <1>6 DEF EntryFor, Ring, Size
<1> QED BY <1>1, <1>7 DEF EntryOf

LEMMA Concatenated ==
  \A S : \A q, r \in Seq(S) :
    /\ q \o r \in Seq(S) /\ Len(q \o r) = Len(q) + Len(r)
    /\ \A m \in 1 .. Len(q) : (q \o r)[m] = q[m]
    /\ \A m \in 1 .. Len(r) : (q \o r)[Len(q) + m] = r[m]
OBVIOUS

LEMMA FrontIs ==
  ASSUME NEW S, NEW q \in Seq(S), NEW n \in Nat, Len(q) = n + 1
  PROVE  /\ q # <<>> /\ Front(q) \in Seq(S) /\ Len(Front(q)) = n
         /\ \A m \in 1 .. n : Front(q)[m] = q[m]
<1>1. q # <<>> /\ Len(q) - 1 = n
  OBVIOUS
<1>2. SubSeq(q, 1, n) \in Seq(S) /\ Len(SubSeq(q, 1, n)) = n
  OBVIOUS
<1>3. \A m \in 1 .. n : SubSeq(q, 1, n)[m] = q[m]
  OBVIOUS
<1> QED BY <1>1, <1>2, <1>3 DEF Front

\* What is freed is the value of each block that is left, from the one of the head on.
LEMMA FreedAre ==
  ASSUME MemInv, Quiescent
  PROVE  LET k0 == Blk(headIndex)  n == IF k0 < Made THEN Made - k0 ELSE 0
         IN  /\ DestructorFrees \in Seq(Values) /\ Len(DestructorFrees) = n
             /\ \A m \in 1 .. n : DestructorFrees[m] = Value(k0 + m - 1)
<1>0. PICK k0 \in Nat, M \in Nat, h \in Nat, t \in Nat :
        k0 = Blk(headIndex) /\ M = Made /\ h = headIndex /\ t = tailIndex /\ h <= t
  <2>1. headIndex \in Nat /\ tailIndex \in Nat /\ headIndex <= tailIndex /\ Made \in Nat
    BY Tails
  <2>2. Blk(headIndex) \in Nat
    BY <2>1, Division
  <2> QED BY <2>1, <2>2
<1>1. pc = "idle" /\ tailBlock \in Values
  BY DEF Quiescent, MemInv, MemTypes
<1>2. ASSUME k0 < M
      PROVE  tailBlock = Value(M - 1) /\ tailBlock # nullptr /\ tailBlock \in Values
  <2>1. M - 1 \in k0 .. (M - 1)
    BY <1>2
  <2>2. Live(Made - 1)
    BY <1>0, <2>1, LeftOver
  <2>3. Made > 0
    BY <1>0, <1>2
  <2> QED BY <1>0, <1>1, <2>2, <2>3 DEF MemInv, PosterOK
<1>3. CASE h = t
  <2>1. BlocksLeft = <<>>
    <3>1. \A i : i \notin h .. (t - 1)
      BY <1>3
    <3>2. Bases = {}
      BY <1>0, <3>1 DEF Bases
    <3>3. Cardinality(Bases) = 0
      BY <3>2, FS_EmptySet
    <3>4. BlocksLeft = [n \in 1 .. Cardinality(Bases) |-> BlockOf(Base(headIndex) + (n - 1) * BLOCK_SIZE)]
      BY DEF BlocksLeft, Bases
    <3>5. \A f : DOMAIN f = 1 .. 0 /\ f = [n \in DOMAIN f |-> f[n]] => f = <<>>
      OBVIOUS
    <3> QED BY <3>3, <3>4, <3>5
  <2>2. DestructorFrees = <<>> \o TailBlockLeft
    BY <2>1 DEF DestructorFrees
  <2>3. M = k0 + Bit(Slot(t) # 0)
    BY <1>0, <1>1, <1>3 DEF Made
  <2>4. CASE Slot(t) # 0
    <3>1. M = k0 + 1
      BY <2>3, <2>4 DEF Bit
    <3>2. TailBlockLeft = <<tailBlock>>
      BY <1>0, <1>2, <2>4, <3>1 DEF TailBlockLeft
    <3>3. DestructorFrees = <<tailBlock>>
      BY <2>2, <3>2
    <3>4. <<tailBlock>> \in Seq(Values) /\ Len(<<tailBlock>>) = 1 /\ <<tailBlock>>[1] = tailBlock
      BY <1>1
    <3>5. M - k0 = 1 /\ k0 < M /\ M - 1 = k0 /\ \A m \in 1 .. 1 : m = 1 /\ k0 + m - 1 = k0
      BY <3>1
    <3> QED BY <1>0, <1>2, <3>3, <3>4, <3>5
  <2>5. CASE Slot(t) = 0
    <3>1. ~(k0 < M)
      BY <2>3, <2>5 DEF Bit
    <3>2. TailBlockLeft = <<>>
      BY <1>0, <1>3, <2>5 DEF TailBlockLeft
    <3>3. DestructorFrees = <<>>
      BY <2>2, <3>2
    <3>4. <<>> \in Seq(Values) /\ Len(<<>>) = 0 /\ \A m : m \notin 1 .. 0
      OBVIOUS
    <3> QED BY <1>0, <3>1, <3>3, <3>4
  <2> QED BY <2>4, <2>5
<1>4. CASE h # t
  <2>1. PICK n \in Nat \ {0} : n = M - k0 /\ k0 < M /\ Cardinality(Bases) = n
    <3>1. k0 < M /\ Cardinality(Bases) = M - k0
      BY <1>0, <1>1, <1>4, HowManyLeft
    <3> QED BY <3>1
  <2>2. ASSUME NEW m \in 1 .. n
        PROVE  BlockOf(Base(headIndex) + (m - 1) * BLOCK_SIZE) = Value(k0 + m - 1)
    <3>1. PICK k \in Nat : k = k0 + (m - 1) /\ k0 + m - 1 = k
      OBVIOUS
    <3>2. Base(headIndex) + (m - 1) * BLOCK_SIZE = Start(k)
      <4>1. Base(headIndex) = Start(k0)
        BY <1>0, Division
      <4>2. Start(k) = Start(k0) + BLOCK_SIZE * (m - 1)
        BY <3>1 DEF Start
      <4>3. BLOCK_SIZE * (m - 1) = (m - 1) * BLOCK_SIZE
        OBVIOUS
      <4> QED BY <4>1, <4>2, <4>3
    <3>3. Start(k) \in Nat /\ Blk(Start(k)) = k
      <4>1. Start(k) \in Nat /\ 0 \in 0 .. (BLOCK_SIZE - 1) /\ Start(k) + 0 = Start(k)
        BY Starts0
      <4> QED BY <4>1, Composed
    <3>4. EntryFor(Header, Header.tail, Start(k)) = EntryOf(k)
      <4>1. Made > 0
        BY <1>0, <2>1
      <4> QED BY <1>1, <3>3, <4>1, LeadsThere
    <3> QED BY <3>1, <3>2, <3>4 DEF BlockOf, Value
  <2>3. BlocksLeft = [m \in 1 .. n |-> Value(k0 + m - 1)]
    BY <2>1, <2>2 DEF BlocksLeft, Bases
  <2>4. PICK q \in Seq(Values) : q = BlocksLeft /\ Len(q) = n /\ \A m \in 1 .. n : q[m] = Value(k0 + m - 1)
    <3>1. ASSUME NEW m \in 1 .. n PROVE Value(k0 + m - 1) \in Values
      <4>1. k0 + m - 1 \in k0 .. (M - 1)
        BY <2>1
      <4> QED BY <1>0, <4>1, LeftOver, LiveBlocks DEF Values
    <3>2. BlocksLeft \in [1 .. n -> Values]
      BY <2>3, <3>1
    <3>3. \A f \in [1 .. n -> Values] : f \in Seq(Values) /\ Len(f) = n
      OBVIOUS
    <3> QED BY <2>3, <3>2, <3>3
  <2>5. TailBlockLeft = <<tailBlock>>
    BY <1>0, <1>2, <1>4, <2>1 DEF TailBlockLeft
  <2>6. PICK p \in Seq(Values) : p = Front(BlocksLeft) /\ Len(p) = n - 1
               /\ \A m \in 1 .. (n - 1) : p[m] = q[m]
    <3>1. PICK l \in Nat : l = n - 1 /\ Len(q) = l + 1
      <4>1. n - 1 \in Nat /\ Len(q) = (n - 1) + 1
        BY <2>4
      <4> QED BY <4>1
    <3>2. Front(q) \in Seq(Values) /\ Len(Front(q)) = l /\ \A m \in 1 .. l : Front(q)[m] = q[m]
      BY <3>1, FrontIs
    <3> QED BY <2>4, <3>1, <3>2
  <2>7. DestructorFrees = p \o <<tailBlock>>
    <3>1. BlocksLeft # <<>>
      <4>1. Len(q) # 0
        BY <2>4
      <4> QED BY <2>4, <4>1
    <3> QED BY <2>5, <2>6, <3>1 DEF DestructorFrees
  <2>8. <<tailBlock>> \in Seq(Values) /\ Len(<<tailBlock>>) = 1 /\ <<tailBlock>>[1] = tailBlock
    BY <1>1
  <2>9. PICK r \in Seq(Values) :
          r = DestructorFrees /\ Len(r) = n /\ (\A m \in 1 .. (n - 1) : r[m] = p[m]) /\ r[n] = tailBlock
    <3>1. /\ p \o <<tailBlock>> \in Seq(Values) /\ Len(p \o <<tailBlock>>) = (n - 1) + 1
          /\ \A m \in 1 .. (n - 1) : (p \o <<tailBlock>>)[m] = p[m]
          /\ \A m \in 1 .. 1 : (p \o <<tailBlock>>)[(n - 1) + m] = <<tailBlock>>[m]
      BY <2>6, <2>8, Concatenated
    <3>2. (n - 1) + 1 = n /\ 1 \in 1 .. 1
      OBVIOUS
    <3> QED BY <2>7, <2>8, <3>1, <3>2
  <2>10. ASSUME NEW m \in 1 .. n PROVE r[m] = Value(k0 + m - 1)
    <3>1. CASE m = n
      <4>1. k0 + m - 1 = M - 1
        BY <2>1, <3>1
      <4> QED BY <1>2, <2>1, <2>9, <3>1, <4>1
    <3>2. CASE m # n
      <4>1. m \in 1 .. (n - 1)
        BY <3>2
      <4> QED BY <2>4, <2>6, <2>9, <4>1
    <3> QED BY <3>1, <3>2
  <2> QED BY <1>0, <2>1, <2>9, <2>10
<1> QED BY <1>3, <1>4

LEMMA DestroyExact ==
  ASSUME MemInv, Quiescent
  PROVE  IsInjective(DestructorFrees) /\ ToSet(DestructorFrees) = Blocks \ pool
<1>1. PICK k0 \in Nat, M \in Nat : k0 = Blk(headIndex) /\ M = Made
  <2>1. headIndex \in Nat /\ Made \in Nat
    BY Tails
  <2> QED BY <2>1, Division
<1>2. PICK n \in Nat : n = IF k0 < M THEN M - k0 ELSE 0
  <2>1. k0 < M => M - k0 \in Nat
    OBVIOUS
  <2>2. 0 \in Nat
    OBVIOUS
  <2> QED BY <2>1, <2>2
<1>3. PICK r \in Seq(Values) :
        r = DestructorFrees /\ Len(r) = n /\ \A m \in 1 .. n : r[m] = Value(k0 + m - 1)
  BY <1>1, <1>2, FreedAre
<1>4. DOMAIN r = 1 .. n
  BY <1>3
<1>5. \A m \in 1 .. n : k0 + m - 1 \in k0 .. (M - 1)
  BY <1>2
<1>6. ASSUME NEW k \in k0 .. (M - 1) PROVE k - k0 + 1 \in 1 .. n /\ k0 + (k - k0 + 1) - 1 = k
  BY <1>2
<1>7. ASSUME NEW a \in 1 .. n, NEW b \in 1 .. n, r[a] = r[b] PROVE a = b
  <2>1. Value(k0 + a - 1) = Value(k0 + b - 1)
    BY <1>3, <1>7
  <2>2. k0 + a - 1 = k0 + b - 1
    BY <1>1, <1>5, <2>1, LeftOver
  <2> QED BY <2>2
<1>8. ASSUME NEW b PROVE b \in ToSet(r) <=> b \in Blocks \ pool
  <2>1. b \in ToSet(r) <=> \E m \in 1 .. n : r[m] = b
    BY <1>4 DEF ToSet
  <2>2. (\E m \in 1 .. n : r[m] = b) <=> \E k \in k0 .. (M - 1) : Value(k) = b
    <3>1. ASSUME NEW k \in k0 .. (M - 1) PROVE r[k - k0 + 1] = Value(k)
      BY <1>3, <1>6
    <3> QED BY <1>3, <1>5, <1>6, <3>1
  <2>3. (\E k \in k0 .. (M - 1) : Value(k) = b) <=> b \in Blocks \ pool
    <3>1. \A k \in k0 .. (M - 1) : Value(k) \in Blocks \ pool
      <4> SUFFICES ASSUME NEW k \in k0 .. (M - 1) PROVE Value(k) \in Blocks \ pool
        OBVIOUS
      <4>1. Live(k)
        BY <1>1, LeftOver
      <4> QED BY <4>1, LiveBlocks
    <3> QED BY <1>1, <3>1, LeftOver
  <2> QED BY <2>1, <2>2, <2>3
<1> QED BY <1>3, <1>4, <1>7, <1>8 DEF IsInjective

\* Once the destructor has run nothing happens any more.
Destroyed == freed # NotDestroyed =>
  Quiescent /\ IsInjective(freed) /\ ToSet(freed) = Blocks \ pool

\* The destructor gives back every block the stream holds, each once, wherever in their
\* blocks head and tail are.
THEOREM TheDestructorIsExact == Spec => []DestructorExact
<1>1. Init => Destroyed
  BY DEF Init, Destroyed
<1>2. MemInv /\ Destroyed /\ [Next]_vars => Destroyed'
  <2> SUFFICES ASSUME MemInv, Destroyed, [Next]_vars PROVE Destroyed'
    OBVIOUS
  <2>1. CASE Destroy
    <3>1. Quiescent /\ freed' = DestructorFrees /\ UNCHANGED <<pool, pc, cc>>
      BY <2>1 DEF Destroy, memory, poster
    <3> QED BY <3>1, DestroyExact DEF Destroyed, Quiescent
  <2>2. CASE UNCHANGED vars
    BY <2>2 DEF Destroyed, Quiescent, vars, memory, poster
  <2>3. CASE EnqueueStep
    <3>1. freed' = freed
      BY <2>3 DEF EnqueueStep, Enqueue, NewBlockIndex, NewBlockIndexFails, StoreKey, StoreIndexTail,
                  RequisitionBlock, RequisitionFails, Construct, Publish
    <3>2. freed = NotDestroyed \/ pc # "idle"
      BY <2>3 DEF EnqueueStep, Enqueue, NewBlockIndex, NewBlockIndexFails, StoreKey, StoreIndexTail,
                  RequisitionBlock, RequisitionFails, Construct, Publish
    <3> QED BY <3>1, <3>2 DEF Destroyed, Quiescent
  <2>4. ASSUME NEW c \in Consumers, DequeueStep(c) PROVE Destroyed'
    <3>1. freed' = freed
      BY <2>4 DEF DequeueStep, LoadTail, LoadOvercommit, LooksNonEmpty, CountIn, CheckAgain, CountOut,
                  Claim, LoadHeader, LoadKey, MoveOut, SetEmpty, ClearEntry, FreeBlock
    <3>2. freed = NotDestroyed \/ cc[c] # "idle"
      BY <2>4 DEF DequeueStep, LoadTail, LoadOvercommit, LooksNonEmpty, CountIn, CheckAgain, CountOut,
                  Claim, LoadHeader, LoadKey, MoveOut, SetEmpty, ClearEntry, FreeBlock
    <3> QED BY <3>1, <3>2 DEF Destroyed, Quiescent
  <2> QED BY <2>1, <2>2, <2>3, <2>4 DEF Next
<1>3. Destroyed => DestructorExact
  BY DEF Destroyed, DestructorExact
<1> QED BY <1>1, <1>2, <1>3, MemoryInvariance, PTL DEF Spec
=============================================================================
