-------------------------- MODULE BlockPoolProofs --------------------------
(***************************************************************************)
(* The pool of blocks for any number of threads and blocks: no block is    *)
(* lost or in two places, the counts are exact, the lock-free list is a    *)
(* list.                                                                   *)
(*                                                                         *)
(* The invariant IInv adds to the three properties what they rest on: what *)
(* a thread's locals are at each step (LocOK), that a block that is marked *)
(* with a count of zero has exactly one thread that is linking it          *)
(* (LinkOK), and that one not handed out has no references (NewOK).  A     *)
(* step of a thread changes the numbers of one block, and only its own     *)
(* membership in the sets of threads that are counted; Moved and Untouched *)
(* say so once for all the steps.                                          *)
(***************************************************************************)
EXTENDS BlockPool, FiniteSetTheorems, TLAPS

USE PoolAssumption DEF PoolAssumption

LocOK(t) ==
  /\ pc[t] \in {"refs", "grab", "next", "take", "drop"} => loc[t].head \in Blocks
  /\ pc[t] \in {"grab", "next", "take", "drop"} => loc[t].node = loc[t].head
  /\ pc[t] \in {"unref"} \cup AddSteps => loc[t].node \in Blocks
  /\ pc[t] = "grab" => loc[t].refs.count # 0
  /\ pc[t] = "take" => loc[t].next = freeListNext[loc[t].head]
  /\ pc[t] \in {"count", "push"} => freeListNext[loc[t].node] = loc[t].top

PlaceOK(b) ==
  Bit(New(b)) + Bit(b \in used) + Bit(b \in Listed) + Cardinality(Linkers(b))
    + Cardinality(Pushers(b)) + Cardinality(Takers(b)) + Bit(Marked(b)) = 1

CountOK(b) ==
  freeListRefs[b].count = Cardinality(Holders(b)) + Bit(b \in Listed)
                            + Cardinality(Pushers(b)) + 2 * Cardinality(Takers(b))

LinkOK(b) == Cardinality(Linkers(b)) = Bit(freeListRefs[b].should /\ freeListRefs[b].count = 0)

NewOK(b) == b \in Heap \/ New(b) => freeListRefs[b] = Zero

BlockOK(b) == PlaceOK(b) /\ CountOK(b) /\ LinkOK(b) /\ NewOK(b)

IInv ==
  /\ TypeOK
  /\ ListOK
  /\ \A t \in Threads : LocOK(t)
  /\ \A b \in Blocks : BlockOK(b)

-----------------------------------------------------------------------------
(***************************************************************************)
(* Counting.                                                               *)
(***************************************************************************)

\* Two sets that differ in t at most.
LEMMA CardMove ==
  ASSUME NEW S \in SUBSET Threads, NEW R \in SUBSET Threads, NEW t \in Threads,
         S \ {t} = R \ {t}
  PROVE  /\ Cardinality(S) \in Nat
         /\ Cardinality(R) \in Nat
         /\ Cardinality(R) + Bit(t \in S) = Cardinality(S) + Bit(t \in R)
         /\ t \in S => Cardinality(S) > 0
<1>1. IsFiniteSet(S) /\ IsFiniteSet(R)
  BY FS_Subset
<1>2. Cardinality(S) \in Nat /\ Cardinality(R) \in Nat
  BY <1>1, FS_CardinalityType
<1>3. Cardinality(S \ {t}) = IF t \in S THEN Cardinality(S) - 1 ELSE Cardinality(S)
  BY <1>1, FS_RemoveElement
<1>4. Cardinality(R \ {t}) = IF t \in R THEN Cardinality(R) - 1 ELSE Cardinality(R)
  BY <1>1, FS_RemoveElement
<1>5. t \in S => Cardinality(S) > 0
  <2>1. t \in S => Cardinality(S) # 0
    BY <1>1, FS_EmptySet
  <2> QED BY <1>2, <2>1
<1>6. Cardinality(R) + Bit(t \in S) = Cardinality(S) + Bit(t \in R)
  BY <1>2, <1>3, <1>4 DEF Bit
<1> QED BY <1>2, <1>5, <1>6

\* Only t moves.
Alone(t) == \A u \in Threads \ {t} : pc'[u] = pc[u] /\ loc'[u] = loc[u]

Natural(b) ==
  /\ Cardinality(Holders(b)) \in Nat
  /\ Cardinality(Takers(b)) \in Nat
  /\ Cardinality(Linkers(b)) \in Nat
  /\ Cardinality(Pushers(b)) \in Nat

\* What a step of t does to the numbers of a block.
LEMMA Moved ==
  ASSUME NEW t \in Threads, Alone(t), NEW b
  PROVE  /\ Natural(b) /\ Natural(b)'
         /\ Cardinality(Holders(b)') + Bit(t \in Holders(b))
              = Cardinality(Holders(b)) + Bit(t \in Holders(b)')
         /\ Cardinality(Takers(b)') + Bit(t \in Takers(b))
              = Cardinality(Takers(b)) + Bit(t \in Takers(b)')
         /\ Cardinality(Linkers(b)') + Bit(t \in Linkers(b))
              = Cardinality(Linkers(b)) + Bit(t \in Linkers(b)')
         /\ Cardinality(Pushers(b)') + Bit(t \in Pushers(b))
              = Cardinality(Pushers(b)) + Bit(t \in Pushers(b)')
         /\ t \in Holders(b) => Cardinality(Holders(b)) > 0
         /\ t \in Takers(b)  => Cardinality(Takers(b)) > 0
         /\ t \in Linkers(b) => Cardinality(Linkers(b)) > 0
         /\ t \in Pushers(b) => Cardinality(Pushers(b)) > 0
<1>1. /\ Holders(b) \in SUBSET Threads /\ Holders(b)' \in SUBSET Threads
      /\ Holders(b) \ {t} = Holders(b)' \ {t}
  BY DEF Holders, Alone
<1>2. /\ Takers(b) \in SUBSET Threads /\ Takers(b)' \in SUBSET Threads
      /\ Takers(b) \ {t} = Takers(b)' \ {t}
  BY DEF Takers, Alone
<1>3. /\ Linkers(b) \in SUBSET Threads /\ Linkers(b)' \in SUBSET Threads
      /\ Linkers(b) \ {t} = Linkers(b)' \ {t}
  BY DEF Linkers, Alone
<1>4. /\ Pushers(b) \in SUBSET Threads /\ Pushers(b)' \in SUBSET Threads
      /\ Pushers(b) \ {t} = Pushers(b)' \ {t}
  BY DEF Pushers, Alone
<1> QED BY <1>1, <1>2, <1>3, <1>4, CardMove DEF Natural

\* The part of t for a block: none, or one of four.
SameRole(t, b) ==
  /\ t \in Holders(b)' <=> t \in Holders(b)
  /\ t \in Takers(b)'  <=> t \in Takers(b)
  /\ t \in Linkers(b)' <=> t \in Linkers(b)
  /\ t \in Pushers(b)' <=> t \in Pushers(b)

\* A step of t that does nothing to a block.
LEMMA Untouched ==
  ASSUME NEW t \in Threads, Alone(t), NEW b, SameRole(t, b), BlockOK(b),
         freeListRefs'[b] = freeListRefs[b],
         New(b)' <=> New(b), b \in used' <=> b \in used, b \in Listed' <=> b \in Listed
  PROVE  BlockOK(b)'
<1>1. /\ Cardinality(Holders(b)') = Cardinality(Holders(b))
      /\ Cardinality(Takers(b)')  = Cardinality(Takers(b))
      /\ Cardinality(Linkers(b)') = Cardinality(Linkers(b))
      /\ Cardinality(Pushers(b)') = Cardinality(Pushers(b))
  BY Moved DEF SameRole, Natural, Bit
<1>2. PlaceOK(b)'
  BY <1>1 DEF BlockOK, PlaceOK, Bit, Marked
<1>3. CountOK(b)'
  BY <1>1 DEF BlockOK, CountOK, Bit
<1>4. LinkOK(b)'
  BY <1>1 DEF BlockOK, LinkOK, Bit
<1>5. NewOK(b)'
  BY DEF BlockOK, NewOK
<1> QED BY <1>2, <1>3, <1>4, <1>5 DEF BlockOK

\* What a step of t leaves of the locals of the others.
LEMMA OthersKeepLocals ==
  ASSUME IInv, NEW t \in Threads, Alone(t), freeListNext' = freeListNext,
         NEW u \in Threads, u # t
  PROVE  LocOK(u)'
<1>1. LocOK(u) /\ pc'[u] = pc[u] /\ loc'[u] = loc[u]
  BY DEF IInv, Alone
<1> QED BY <1>1 DEF LocOK

-----------------------------------------------------------------------------
(***************************************************************************)
(* How a thread moves.                                                     *)
(***************************************************************************)

Typed == pc' \in [Threads -> Steps] /\ loc' \in [Threads -> Locals]

\* The initial values of the locals have their type.
LEMMA NoLocalsType == NoLocals \in Locals /\ Zero \in Refs /\ One \in Refs
<1>1. Zero \in Refs /\ One \in Refs
  BY DEF Zero, One, Refs
<1> QED BY <1>1 DEF NoLocals, Locals, Pointers

\* It goes to a step, with locals.
LEMMA MovesTo ==
  ASSUME TypeOK, NEW t \in Threads, NEW step \in Steps, NEW l \in Locals,
         Goto(t, step), Local(t, l)
  PROVE  Alone(t) /\ Typed /\ pc'[t] = step /\ loc'[t] = l
  BY DEF TypeOK, Goto, Local, Alone, Typed

\* Or with the locals it has.
LEMMA GoesOn ==
  ASSUME TypeOK, NEW t \in Threads, NEW step \in Steps, Goto(t, step), loc' = loc
  PROVE  Alone(t) /\ Typed /\ pc'[t] = step /\ loc'[t] = loc[t]
  BY DEF TypeOK, Goto, Alone, Typed

\* It is at a step where it has no block.
Resting == {"idle", "pool", "bump", "head", "refs", "create"}

Rests(t) ==
  /\ Alone(t) /\ Typed
  /\ pc'[t] \in Resting
  /\ pc'[t] = "refs" => loc'[t].head \in Blocks

\* The steps by name.
LEMMA RestingSteps ==
  /\ Resting \subseteq Steps
  /\ {"grab", "next", "take", "drop", "unref", "load", "link", "count", "push", "again"}
       \subseteq Steps
  BY DEF Resting, Steps, GetSteps, AddSteps

\* The ways to get there: without a change of the locals,
LEMMA GotoRests ==
  ASSUME TypeOK, NEW t \in Threads, NEW step \in Resting \ {"refs"}, Goto(t, step), loc' = loc
  PROVE  Rests(t)
  BY GoesOn, RestingSteps DEF Rests

\* when a call returns,
LEMMA ReturnsRests ==
  ASSUME TypeOK, NEW t \in Threads, Returns(t)
  PROVE  Rests(t)
<1>1. Goto(t, "idle") /\ Local(t, NoLocals) /\ "idle" \in Resting
  BY DEF Returns, Local, Resting
<1> QED BY <1>1, MovesTo, RestingSteps, NoLocalsType DEF Rests

\* when the loop of try_get starts again,
LEMMA ReloadRests ==
  ASSUME TypeOK, NEW t \in Threads, Reload(t)
  PROVE  Rests(t)
<1>1. Goto(t, "head") /\ Local(t, NoLocals) /\ "head" \in Resting
  BY DEF Reload, Resting
<1> QED BY <1>1, MovesTo, RestingSteps, NoLocalsType DEF Rests

\* when it goes on,
LEMMA LoopRests ==
  ASSUME TypeOK, NEW t \in Threads, NEW l \in Locals, Loop(t, l)
  PROVE  Rests(t)
<1>1. "create" \in Resting /\ "refs" \in Resting
  BY DEF Resting
<1>2. CASE l.head = nullptr
  <2>1. Goto(t, "create") /\ Local(t, NoLocals)
    BY <1>2 DEF Loop
  <2> QED BY <1>1, <2>1, MovesTo, RestingSteps, NoLocalsType DEF Rests
<1>3. CASE l.head # nullptr
  <2>1. Goto(t, "refs") /\ Local(t, l)
    BY <1>3 DEF Loop
  <2>2. l.head \in Blocks
    BY <1>3 DEF Locals, Pointers
  <2> QED BY <1>1, <2>1, <2>2, MovesTo, RestingSteps DEF Rests
<1> QED BY <1>2, <1>3

\* when add_knowing_refcount_is_zero returns.
LEMMA AddedRests ==
  ASSUME TypeOK, NEW t \in Threads, Added(t)
  PROVE  Rests(t)
<1>1. CASE loc[t].getting
  <2>1. [loc[t] EXCEPT !.getting = FALSE] \in Locals
    <3>1. loc[t] \in Locals
      BY DEF TypeOK
    <3> QED BY <3>1 DEF Locals
  <2> QED BY <1>1, <2>1, LoopRests DEF Added
<1>2. CASE ~loc[t].getting
  BY <1>2, ReturnsRests DEF Added
<1> QED BY <1>1, <1>2

\* At such a step a thread is in none of the sets that are counted.
NoRole(t, b) == /\ t \notin Holders(b) /\ t \notin Takers(b)
                /\ t \notin Linkers(b) /\ t \notin Pushers(b)

\* (At the compare_exchange of refs it does not have it yet.)
LEMMA RestingNoRole ==
  ASSUME NEW t \in Threads, NEW b, pc[t] \in Resting \cup {"grab"}
  PROVE  NoRole(t, b)
  BY DEF Resting, NoRole, Holders, Takers, Linkers, Pushers

\* So it is in none when it gets there.
LEMMA RestsNoRole ==
  ASSUME NEW t \in Threads, NEW b, Rests(t)
  PROVE  NoRole(t, b)' /\ LocOK(t)'
<1>1. NoRole(t, b)'
  BY DEF Rests, Resting, NoRole, Holders, Takers, Linkers, Pushers
<1>2. LocOK(t)'
  BY DEF Rests, Resting, LocOK, AddSteps
<1> QED BY <1>1, <1>2

-----------------------------------------------------------------------------
(***************************************************************************)
(* Every step keeps the invariant.  First the steps that only read, or     *)
(* whose compare_exchange fails.                                           *)
(***************************************************************************)

\* A step that changes nothing but the locals of t.
LEMMA Reads ==
  ASSUME IInv, NEW t \in Threads, Alone(t), Typed, LocOK(t)',
         UNCHANGED <<poolVars, listVars>>, \A b \in Blocks : SameRole(t, b)
  PROVE  IInv'
<1>1. TypeOK'
  BY DEF IInv, TypeOK, Typed, poolVars, listVars
<1>2. ListOK'
  BY DEF IInv, ListOK, listVars
<1>3. \A u \in Threads : LocOK(u)'
  BY OthersKeepLocals DEF listVars
<1>4. ASSUME NEW b \in Blocks PROVE BlockOK(b)'
  <2>1. New(b)' <=> New(b)
    BY DEF New, poolVars
  <2>2. Listed' = Listed
    BY DEF Listed, listVars
  <2> QED BY <2>1, <2>2, Untouched DEF IInv, poolVars, listVars
<1> QED BY <1>1, <1>2, <1>3, <1>4 DEF IInv

\* One of them after which t has no block.
LEMMA ReadsAndRests ==
  ASSUME IInv, NEW t \in Threads, Rests(t), pc[t] \in Resting \cup {"grab"},
         UNCHANGED <<poolVars, listVars>>
  PROVE  IInv'
<1>1. \A b \in Blocks : SameRole(t, b)
  BY RestingNoRole, RestsNoRole DEF NoRole, SameRole
<1>2. Alone(t) /\ Typed /\ LocOK(t)'
  BY RestsNoRole DEF Rests
<1> QED BY <1>1, <1>2, Reads

\* requisition_block is called.
LEMMA RequisitionStep ==
  ASSUME IInv, NEW t \in Threads, Requisition(t)
  PROVE  IInv'
<1>1. Rests(t) /\ pc[t] \in Resting
  BY GotoRests DEF Requisition, IInv, Resting
<1> QED BY <1>1, ReadsAndRests DEF Requisition

\* The index is compared with the size of the array.
LEMMA PoolHasMoreStep ==
  ASSUME IInv, NEW t \in Threads, PoolHasMore(t)
  PROVE  IInv'
<1>1. Rests(t) /\ pc[t] \in Resting
  BY GotoRests DEF PoolHasMore, IInv, Resting
<1> QED BY <1>1, ReadsAndRests DEF PoolHasMore

\* The head is loaded.
LEMMA LoadHeadStep ==
  ASSUME IInv, NEW t \in Threads, LoadHead(t)
  PROVE  IInv'
<1>1. [loc[t] EXCEPT !.head = freeListHead] \in Locals
  <2>1. loc[t] \in Locals /\ freeListHead \in Pointers
    BY DEF IInv, TypeOK
  <2> QED BY <2>1 DEF Locals
<1>2. Rests(t) /\ pc[t] \in Resting
  BY <1>1, LoopRests DEF LoadHead, IInv, Resting
<1> QED BY <1>2, ReadsAndRests DEF LoadHead

\* The count of the head is loaded.
LEMMA LoadRefsStep ==
  ASSUME IInv, NEW t \in Threads, LoadRefs(t)
  PROVE  IInv'
<1> DEFINE b == loc[t].head
           r == freeListRefs[b]
           l == [NoLocals EXCEPT !.head = b, !.node = b, !.refs = r]
<1>1. b \in Blocks /\ r \in Refs /\ pc[t] \in Resting
  BY DEF LoadRefs, IInv, LocOK, TypeOK, Resting
<1>2. CASE r.count = 0
  BY <1>1, <1>2, ReloadRests, ReadsAndRests DEF LoadRefs, IInv
<1>3. CASE r.count # 0
  <2>1. l \in Locals /\ l.head = b /\ l.node = b /\ l.refs = r
    BY <1>1 DEF Locals, NoLocals, Pointers
  <2>2. Goto(t, "grab") /\ Local(t, l)
    BY <1>3 DEF LoadRefs
  <2> HIDE DEF l
  <2>3. Alone(t) /\ Typed /\ pc'[t] = "grab" /\ loc'[t] = l
    BY <2>1, <2>2, MovesTo, RestingSteps DEF IInv
  <2>4. LocOK(t)'
    BY <1>1, <1>3, <2>1, <2>3 DEF LocOK, AddSteps
  <2>5. \A c \in Blocks : NoRole(t, c)'
    BY <2>3 DEF NoRole, Holders, Takers, Linkers, Pushers
  <2>6. \A c \in Blocks : SameRole(t, c)
    BY <1>1, <2>5, RestingNoRole DEF NoRole, SameRole
  <2> QED BY <2>3, <2>4, <2>6, Reads DEF LoadRefs
<1> QED BY <1>2, <1>3

\* The next of the head is loaded, and stays what it is.
LEMMA LoadNextStep ==
  ASSUME IInv, NEW t \in Threads, LoadNext(t)
  PROVE  IInv'
<1> DEFINE l == [loc[t] EXCEPT !.next = freeListNext[loc[t].head]]
<1>1. loc[t] \in Locals /\ loc[t].head \in Blocks /\ loc[t].node = loc[t].head
      /\ pc[t] = "next"
  BY DEF LoadNext, IInv, LocOK, TypeOK
<1>2. l \in Locals /\ l.head = loc[t].head /\ l.node = loc[t].node
      /\ l.next = freeListNext[l.head]
  <2>1. freeListNext[loc[t].head] \in Pointers
    BY <1>1 DEF IInv, TypeOK
  <2> QED BY <1>1, <2>1 DEF Locals
<1> HIDE DEF l
<1>3. Alone(t) /\ Typed /\ pc'[t] = "take" /\ loc'[t] = l
  BY <1>2, MovesTo, RestingSteps DEF LoadNext, IInv, l
<1>4. LocOK(t)'
  BY <1>1, <1>2, <1>3 DEF LocOK, AddSteps, LoadNext, listVars
<1>5. \A c \in Blocks : SameRole(t, c)
  BY <1>1, <1>2, <1>3 DEF SameRole, Holders, Takers, Linkers, Pushers
<1> QED BY <1>3, <1>4, <1>5, Reads DEF LoadNext

\* The head to link to is loaded.
LEMMA LoadTopStep ==
  ASSUME IInv, NEW t \in Threads, LoadTop(t)
  PROVE  IInv'
<1> DEFINE l == [loc[t] EXCEPT !.top = freeListHead]
<1>1. loc[t] \in Locals /\ loc[t].node \in Blocks /\ pc[t] = "load"
  BY DEF LoadTop, IInv, LocOK, TypeOK, AddSteps
<1>2. l \in Locals /\ l.node = loc[t].node
  <2>1. freeListHead \in Pointers
    BY DEF IInv, TypeOK
  <2> QED BY <1>1, <2>1 DEF Locals
<1> HIDE DEF l
<1>3. Alone(t) /\ Typed /\ pc'[t] = "link" /\ loc'[t] = l
  BY <1>2, MovesTo, RestingSteps DEF LoadTop, IInv, l
<1>4. LocOK(t)'
  BY <1>1, <1>2, <1>3 DEF LocOK, AddSteps
<1>5. \A c \in Blocks : SameRole(t, c)
  BY <1>1, <1>2, <1>3 DEF SameRole, Holders, Takers, Linkers, Pushers
<1> QED BY <1>3, <1>4, <1>5, Reads DEF LoadTop

-----------------------------------------------------------------------------
(***************************************************************************)
(* The steps that leave the list alone and change the numbers of a block.  *)
(***************************************************************************)

\* The part that is about one block follows, the rest is shown here.
LEMMA Counts ==
  ASSUME IInv, NEW t \in Threads, Alone(t), Typed, LocOK(t)',
         UNCHANGED <<freeListHead, freeListNext, list>>,
         initialBlockPoolIndex' \in Nat, heap' \subseteq Heap, used' \subseteq Blocks,
         NEW b \in Blocks, NEW r \in Refs, SetRefs(b, r), BlockOK(b)',
         \A c \in Blocks \ {b} : /\ SameRole(t, c)
                                 /\ New(c)' <=> New(c)
                                 /\ c \in used' <=> c \in used
  PROVE  IInv'
<1>1. freeListRefs' = [freeListRefs EXCEPT ![b] = r]
  BY DEF SetRefs
<1>2. TypeOK'
  BY <1>1 DEF IInv, TypeOK, Typed
<1>3. ListOK'
  BY DEF IInv, ListOK
<1>4. \A u \in Threads : LocOK(u)'
  BY OthersKeepLocals
<1>5. ASSUME NEW c \in Blocks, c # b PROVE BlockOK(c)'
  <2>1. Listed' = Listed
    BY DEF Listed
  <2>2. freeListRefs'[c] = freeListRefs[c]
    BY <1>1, <1>5 DEF IInv, TypeOK
  <2>3. BlockOK(c) /\ SameRole(t, c) /\ (New(c)' <=> New(c)) /\ (c \in used' <=> c \in used)
    BY <1>5 DEF IInv
  <2> QED BY <2>1, <2>2, <2>3, Untouched
<1> QED BY <1>2, <1>3, <1>4, <1>5 DEF IInv

\* A thread at a step of one block has a part in that one only.
LEMMA GrabStep ==
  ASSUME IInv, NEW t \in Threads, Grab(t)
  PROVE  IInv'
<1>0. PICK b \in Blocks : b = loc[t].head
  BY DEF Grab, IInv, LocOK
<1> DEFINE r == loc[t].refs
           r2 == [r EXCEPT !.count = @ + 1]
           l == [loc[t] EXCEPT !.refs = Zero]
<1>1. /\ r \in Refs /\ r.count # 0 /\ loc[t] \in Locals
      /\ loc[t].head = b /\ loc[t].node = b /\ pc[t] = "grab"
  BY <1>0 DEF Grab, IInv, LocOK, TypeOK, Locals
<1>2. CASE freeListRefs[b] # r
  BY <1>1, <1>2, ReloadRests, ReadsAndRests DEF Grab, IInv, listVars
<1>3. CASE freeListRefs[b] = r
  <2>1. l \in Locals /\ l.head = b /\ l.node = b
    BY <1>1, NoLocalsType DEF Locals
  <2>2. r2 \in Refs /\ r2.count = r.count + 1 /\ r2.should = r.should
    BY <1>1 DEF Refs
  <2>3. Goto(t, "next") /\ Local(t, l) /\ SetRefs(b, r2)
    BY <1>1, <1>3 DEF Grab
  <2> HIDE DEF l, r2
  <2>4. Alone(t) /\ Typed /\ pc'[t] = "next" /\ loc'[t] = l
    BY <2>1, <2>3, MovesTo, RestingSteps DEF IInv
  <2>5. LocOK(t)'
    BY <1>1, <2>1, <2>4 DEF LocOK, AddSteps
  <2>6. \A c \in Blocks : NoRole(t, c)
    BY <1>1, RestingNoRole
  <2>7. /\ t \in Holders(b)' /\ t \notin Takers(b)' /\ t \notin Linkers(b)'
        /\ t \notin Pushers(b)'
    BY <2>1, <2>4 DEF Holders, Takers, Linkers, Pushers
  <2>8. \A c \in Blocks \ {b} : SameRole(t, c)
    BY <2>1, <2>4, <2>6 DEF NoRole, SameRole, Holders, Takers, Linkers, Pushers
  <2>9. BlockOK(b)'
    <3>1. freeListRefs[b] = r /\ freeListRefs'[b] = r2
      BY <1>1, <1>3, <2>3 DEF SetRefs, IInv, TypeOK
    <3>2. BlockOK(b) /\ Listed' = Listed /\ used' = used /\ (New(b)' <=> New(b))
      BY <1>1 DEF IInv, Listed, Grab, poolVars, New
    <3>3. /\ Cardinality(Holders(b)') = Cardinality(Holders(b)) + 1
          /\ Cardinality(Takers(b)')  = Cardinality(Takers(b))
          /\ Cardinality(Linkers(b)') = Cardinality(Linkers(b))
          /\ Cardinality(Pushers(b)') = Cardinality(Pushers(b))
      BY <1>1, <2>4, <2>6, <2>7, Moved DEF Natural, NoRole, Bit
    <3>4. Natural(b)
      BY <2>4, Moved
    <3>5. r # Zero /\ r.count \in Nat
      BY <1>1 DEF Zero, Refs
    <3>6. PlaceOK(b)'
      BY <1>1, <2>2, <3>1, <3>2, <3>3, <3>4, <3>5 DEF BlockOK, PlaceOK, Marked, Bit
    <3>7. CountOK(b)'
      BY <1>1, <2>2, <3>1, <3>2, <3>3, <3>4, <3>5 DEF BlockOK, CountOK, Bit, Natural
    <3>8. LinkOK(b)'
      BY <1>1, <2>2, <3>1, <3>2, <3>3, <3>4, <3>5 DEF BlockOK, LinkOK, Bit
    <3>9. NewOK(b)'
      BY <3>1, <3>2, <3>5 DEF BlockOK, NewOK
    <3> QED BY <3>6, <3>7, <3>8, <3>9 DEF BlockOK
  <2> QED
    <3>1. /\ UNCHANGED <<freeListHead, freeListNext, list>>
          /\ initialBlockPoolIndex' \in Nat /\ heap' \subseteq Heap /\ used' \subseteq Blocks
          /\ used' = used /\ \A c \in Blocks : New(c)' <=> New(c)
      BY DEF Grab, poolVars, IInv, TypeOK, New
    <3> QED BY <1>1, <2>2, <2>3, <2>4, <2>5, <2>8, <2>9, <3>1, Counts
<1> QED BY <1>2, <1>3

\* The numbers of a block with a thread in one of the sets.
LEMMA Parts ==
  ASSUME IInv, NEW t \in Threads, NEW b \in Blocks
  PROVE  /\ freeListRefs[b] \in Refs /\ Natural(b) /\ BlockOK(b)
         /\ t \in Holders(b) => freeListRefs[b].count >= 1
         /\ t \in Takers(b)  => /\ freeListRefs[b].count >= 2 /\ ~freeListRefs[b].should
                                /\ Cardinality(Takers(b)) = 1 /\ b \notin used
                                /\ b \notin Listed
         /\ t \in Linkers(b) => /\ freeListRefs[b].count = 0 /\ freeListRefs[b].should
                                /\ Cardinality(Linkers(b)) = 1 /\ b \notin Listed
         /\ t \in Pushers(b) => /\ freeListRefs[b].count = Cardinality(Holders(b)) + 1
                                /\ ~freeListRefs[b].should
                                /\ Cardinality(Pushers(b)) = 1 /\ b \notin Listed
         /\ b \in used => ~freeListRefs[b].should /\ freeListRefs[b].count = Cardinality(Holders(b))
<1>1. freeListRefs[b] \in Refs /\ BlockOK(b)
  BY DEF IInv, TypeOK
<1>2. freeListRefs[b].count \in Nat /\ freeListRefs[b].should \in BOOLEAN
  BY <1>1 DEF Refs
<1>3. /\ Holders(b) \in SUBSET Threads /\ Takers(b) \in SUBSET Threads
      /\ Linkers(b) \in SUBSET Threads /\ Pushers(b) \in SUBSET Threads
  BY DEF Holders, Takers, Linkers, Pushers
<1>4. /\ Natural(b)
      /\ t \in Holders(b) => Cardinality(Holders(b)) > 0
      /\ t \in Takers(b)  => Cardinality(Takers(b)) > 0
      /\ t \in Linkers(b) => Cardinality(Linkers(b)) > 0
      /\ t \in Pushers(b) => Cardinality(Pushers(b)) > 0
  BY <1>3, CardMove DEF Natural
<1> DEFINE H == Cardinality(Holders(b))
           K == Cardinality(Takers(b))
           L == Cardinality(Linkers(b))
           P == Cardinality(Pushers(b))
<1>5. H \in Nat /\ K \in Nat /\ L \in Nat /\ P \in Nat
  BY <1>4 DEF Natural
<1>6. /\ Bit(New(b)) + Bit(b \in used) + Bit(b \in Listed) + L + P + K + Bit(Marked(b)) = 1
      /\ freeListRefs[b].count = H + Bit(b \in Listed) + P + 2 * K
      /\ L = Bit(freeListRefs[b].should /\ freeListRefs[b].count = 0)
  BY <1>1 DEF BlockOK, PlaceOK, CountOK, LinkOK
<1> HIDE DEF H, K, L, P
<1>7. H > 0 => freeListRefs[b].count >= 1
  BY <1>2, <1>5, <1>6 DEF Bit
<1>8. K > 0 => /\ freeListRefs[b].count >= 2 /\ ~freeListRefs[b].should /\ K = 1
               /\ b \notin used /\ b \notin Listed
  BY <1>2, <1>5, <1>6 DEF Bit, Marked
<1>9. L > 0 => /\ freeListRefs[b].count = 0 /\ freeListRefs[b].should
               /\ L = 1 /\ b \notin Listed
  BY <1>2, <1>5, <1>6 DEF Bit, Marked
<1>10. P > 0 => /\ freeListRefs[b].count = H + 1 /\ ~freeListRefs[b].should
                /\ P = 1 /\ b \notin Listed
  BY <1>2, <1>5, <1>6 DEF Bit, Marked
<1>11. b \in used => ~freeListRefs[b].should /\ freeListRefs[b].count = H
  BY <1>2, <1>5, <1>6 DEF Bit, Marked
<1> QED BY <1>1, <1>4, <1>7, <1>8, <1>9, <1>10, <1>11 DEF H, K, L, P

\* The references of the list and of the thread are given back: the block is out.
LEMMA DropStep ==
  ASSUME IInv, NEW t \in Threads, Drop(t)
  PROVE  IInv'
<1>0. PICK b \in Blocks : b = loc[t].head
  BY DEF Drop, IInv, LocOK
<1> DEFINE r == [freeListRefs[b] EXCEPT !.count = @ - 2]
<1>1. pc[t] = "drop" /\ loc[t].head = b /\ Rests(t)
  BY <1>0, ReturnsRests DEF Drop, IInv
<1>2. t \in Takers(b) /\ \A c \in Blocks : t \notin Holders(c) /\ t \notin Linkers(c) /\ t \notin Pushers(c)
  BY <1>1 DEF Takers, Holders, Linkers, Pushers
<1>3. \A c \in Blocks : NoRole(t, c)' /\ LocOK(t)'
  BY <1>1, RestsNoRole
<1>4. \A c \in Blocks \ {b} : SameRole(t, c)
  BY <1>1, <1>2, <1>3 DEF SameRole, NoRole, Takers
<1>5. r \in Refs /\ r.count = freeListRefs[b].count - 2 /\ r.should = freeListRefs[b].should
  BY <1>2, Parts DEF Refs
<1>6. /\ SetRefs(b, r) /\ used' = used \cup {b}
      /\ UNCHANGED <<initialBlockPoolIndex, heap, freeListHead, freeListNext, list>>
  BY <1>1 DEF Drop
<1> HIDE DEF r
<1>7. BlockOK(b)'
  <2>1. freeListRefs'[b] = r /\ Listed' = Listed /\ b \in used' /\ (New(b)' <=> New(b))
    BY <1>6 DEF SetRefs, IInv, TypeOK, Listed, New
  <2>2. /\ Cardinality(Holders(b)') = Cardinality(Holders(b))
        /\ Cardinality(Takers(b)')  = Cardinality(Takers(b)) - 1
        /\ Cardinality(Linkers(b)') = Cardinality(Linkers(b))
        /\ Cardinality(Pushers(b)') = Cardinality(Pushers(b))
    BY <1>1, <1>2, <1>3, Moved DEF Rests, Natural, NoRole, Bit
  <2>3. /\ freeListRefs[b].count \in Nat /\ Natural(b) /\ BlockOK(b)
        /\ freeListRefs[b].count >= 2 /\ ~freeListRefs[b].should
        /\ Cardinality(Takers(b)) = 1 /\ b \notin used /\ b \notin Listed
    BY <1>2, Parts DEF Refs
  <2>4. freeListRefs[b] # Zero
    BY <2>3 DEF Zero
  <2>5. PlaceOK(b)' /\ LinkOK(b)'
    BY <1>5, <2>1, <2>2, <2>3 DEF BlockOK, PlaceOK, LinkOK, Marked, Bit, Natural
  <2>6. CountOK(b)'
    BY <1>5, <2>1, <2>2, <2>3 DEF BlockOK, CountOK, Bit, Natural
  <2>7. NewOK(b)'
    BY <2>1, <2>3, <2>4 DEF BlockOK, NewOK
  <2> QED BY <2>5, <2>6, <2>7 DEF BlockOK
<1>8. /\ initialBlockPoolIndex' \in Nat /\ heap' \subseteq Heap /\ used' \subseteq Blocks
      /\ \A c \in Blocks \ {b} : (New(c)' <=> New(c)) /\ (c \in used' <=> c \in used)
  BY <1>6 DEF IInv, TypeOK, New
<1> QED BY <1>1, <1>3, <1>4, <1>5, <1>6, <1>7, <1>8, Counts DEF Rests

\* A reference is given back; the last one to do so may have to add the block.
LEMMA UnrefStep ==
  ASSUME IInv, NEW t \in Threads, Unref(t)
  PROVE  IInv'
<1>0. PICK b \in Blocks : b = loc[t].node
  BY DEF Unref, IInv, LocOK
<1> DEFINE r == [freeListRefs[b] EXCEPT !.count = @ - 1]
           last == LastToLetGo(freeListRefs[b])
           l == [loc[t] EXCEPT !.getting = TRUE]
<1>1. /\ pc[t] = "unref" /\ loc[t].node = b /\ loc[t] \in Locals
      /\ SetRefs(b, r) /\ used' = used
      /\ UNCHANGED <<initialBlockPoolIndex, heap, freeListHead, freeListNext, list>>
  BY <1>0 DEF Unref, IInv, TypeOK, poolVars
<1>2. /\ t \in Holders(b)
      /\ \A c \in Blocks : t \notin Takers(c) /\ t \notin Linkers(c) /\ t \notin Pushers(c)
      /\ \A c \in Blocks \ {b} : t \notin Holders(c)
  BY <1>1 DEF Takers, Holders, Linkers, Pushers
<1>3. r \in Refs /\ r.count = freeListRefs[b].count - 1 /\ r.should = freeListRefs[b].should
  BY <1>2, Parts DEF Refs
<1>4. l \in Locals /\ l.node = b
  BY <1>1 DEF Locals
<1>5. last => freeListRefs[b].should /\ freeListRefs[b].count = 1
  BY DEF LastToLetGo
<1>6. ~last => ~(freeListRefs[b].should /\ freeListRefs[b].count = 1)
  BY Parts DEF LastToLetGo, Refs
<1>7. /\ Alone(t) /\ Typed /\ LocOK(t)'
      /\ \A c \in Blocks : t \notin Holders(c)' /\ t \notin Takers(c)' /\ t \notin Pushers(c)'
      /\ \A c \in Blocks : t \in Linkers(c)' <=> last /\ c = b
  <2>1. CASE last
    <3>1. Goto(t, "load") /\ Local(t, l)
      BY <1>1, <2>1 DEF Unref
    <3>2. Alone(t) /\ Typed /\ pc'[t] = "load" /\ loc'[t] = l
      BY <1>4, <3>1, MovesTo, RestingSteps DEF IInv
    <3> HIDE DEF last, l
    <3>3. LocOK(t)'
      BY <1>4, <3>2 DEF LocOK, AddSteps
    <3> QED BY <1>4, <2>1, <3>2, <3>3 DEF Holders, Takers, Linkers, Pushers
  <2>2. CASE ~last
    <3>1. Rests(t)
      BY <1>1, <2>2, LoopRests DEF Unref, IInv
    <3> HIDE DEF last
    <3> QED BY <2>2, <3>1, RestsNoRole DEF Rests, NoRole
  <2> QED BY <2>1, <2>2
<1> HIDE DEF last, r, l
<1>8. \A c \in Blocks \ {b} : SameRole(t, c)
  BY <1>2, <1>7 DEF SameRole
<1>9. BlockOK(b)'
  <2>1. freeListRefs'[b] = r /\ Listed' = Listed /\ (New(b)' <=> New(b))
    BY <1>1 DEF SetRefs, IInv, TypeOK, Listed, New
  <2>2. /\ Cardinality(Holders(b)') = Cardinality(Holders(b)) - 1
        /\ Cardinality(Takers(b)')  = Cardinality(Takers(b))
        /\ Cardinality(Linkers(b)') = Cardinality(Linkers(b)) + IF last THEN 1 ELSE 0
        /\ Cardinality(Pushers(b)') = Cardinality(Pushers(b))
    BY <1>2, <1>7, Moved DEF Natural, Bit
  <2>3. /\ freeListRefs[b].count \in Nat /\ Natural(b) /\ BlockOK(b)
        /\ freeListRefs[b].count >= 1
    BY <1>2, Parts DEF Refs
  <2>4. freeListRefs[b] # Zero
    BY <2>3 DEF Zero
  <2>5. PlaceOK(b)' /\ LinkOK(b)'
    <3>1. CASE last
      <4>1. Marked(b) /\ ~Marked(b)'
        BY <1>3, <1>5, <2>1, <3>1 DEF Marked
      <4>2. (r.should /\ r.count = 0) /\ ~(freeListRefs[b].should /\ freeListRefs[b].count = 0)
        BY <1>3, <1>5, <3>1
      <4> QED BY <1>1, <2>1, <2>2, <2>3, <3>1, <4>1, <4>2
                 DEF BlockOK, PlaceOK, LinkOK, Bit, Natural
    <3>2. CASE ~last
      <4>1. Marked(b)' <=> Marked(b)
        BY <1>3, <1>6, <2>1, <2>3, <3>2 DEF Marked
      <4>2. (r.should /\ r.count = 0) <=> (freeListRefs[b].should /\ freeListRefs[b].count = 0)
        BY <1>3, <1>6, <2>3, <3>2
      <4> QED BY <1>1, <2>1, <2>2, <2>3, <3>2, <4>1, <4>2
                 DEF BlockOK, PlaceOK, LinkOK, Bit, Natural
    <3> QED BY <3>1, <3>2
  <2>6. CountOK(b)'
    BY <1>3, <2>1, <2>2, <2>3 DEF BlockOK, CountOK, Bit, Natural
  <2>7. NewOK(b)'
    BY <2>1, <2>3, <2>4 DEF BlockOK, NewOK
  <2> QED BY <2>5, <2>6, <2>7 DEF BlockOK
<1>10. /\ initialBlockPoolIndex' \in Nat /\ heap' \subseteq Heap /\ used' \subseteq Blocks
       /\ \A c \in Blocks \ {b} : (New(c)' <=> New(c)) /\ (c \in used' <=> c \in used)
  BY <1>1 DEF IInv, TypeOK, New
<1> QED BY <1>1, <1>3, <1>7, <1>8, <1>9, <1>10, Counts

\* The count becomes one: nobody else has it, as it was zero and marked.
LEMMA StoreRefsStep ==
  ASSUME IInv, NEW t \in Threads, StoreRefs(t)
  PROVE  IInv'
<1>0. PICK b \in Blocks : b = loc[t].node
  BY DEF StoreRefs, IInv, LocOK, AddSteps
<1>1. /\ pc[t] = "count" /\ loc[t].node = b
      /\ SetRefs(b, One) /\ used' = used
      /\ UNCHANGED <<initialBlockPoolIndex, heap, freeListHead, freeListNext, list>>
  BY <1>0 DEF StoreRefs, poolVars
<1>2. /\ t \in Linkers(b)
      /\ \A c \in Blocks : NoRole(t, c) \/ c = b
      /\ t \notin Takers(b) /\ t \notin Holders(b) /\ t \notin Pushers(b)
  BY <1>1 DEF Takers, Holders, Linkers, Pushers, NoRole
<1>3. Alone(t) /\ Typed /\ pc'[t] = "push" /\ loc'[t] = loc[t]
  BY GoesOn, RestingSteps DEF StoreRefs, IInv
<1>4. LocOK(t)'
  BY <1>1, <1>3 DEF StoreRefs, IInv, LocOK, AddSteps
<1>5. /\ t \notin Holders(b)' /\ t \notin Takers(b)' /\ t \notin Linkers(b)' /\ t \in Pushers(b)'
      /\ \A c \in Blocks \ {b} : SameRole(t, c)
  BY <1>1, <1>2, <1>3 DEF Takers, Holders, Linkers, Pushers, SameRole, NoRole
<1>6. BlockOK(b)'
  <2>1. freeListRefs'[b] = One /\ Listed' = Listed /\ (New(b)' <=> New(b))
    BY <1>1 DEF SetRefs, IInv, TypeOK, Listed, New
  <2>2. /\ Cardinality(Holders(b)') = Cardinality(Holders(b))
        /\ Cardinality(Takers(b)')  = Cardinality(Takers(b))
        /\ Cardinality(Linkers(b)') = Cardinality(Linkers(b)) - 1
        /\ Cardinality(Pushers(b)') = Cardinality(Pushers(b)) + 1
    BY <1>2, <1>3, <1>5, Moved DEF Natural, Bit
  <2>3. /\ freeListRefs[b].count = 0 /\ freeListRefs[b].should
        /\ Natural(b) /\ BlockOK(b) /\ Cardinality(Linkers(b)) = 1 /\ b \notin Listed
    BY <1>2, Parts
  <2>4. freeListRefs[b] # Zero /\ One.count = 1 /\ ~One.should
    BY <2>3 DEF Zero, One
  <2>5. PlaceOK(b)' /\ LinkOK(b)'
    BY <1>1, <2>1, <2>2, <2>3, <2>4 DEF BlockOK, PlaceOK, LinkOK, Marked, Bit, Natural
  <2>6. CountOK(b)'
    BY <2>1, <2>2, <2>3, <2>4 DEF BlockOK, CountOK, Bit, Natural
  <2>7. NewOK(b)'
    BY <2>1, <2>3, <2>4 DEF BlockOK, NewOK
  <2> QED BY <2>5, <2>6, <2>7 DEF BlockOK
<1>7. /\ initialBlockPoolIndex' \in Nat /\ heap' \subseteq Heap /\ used' \subseteq Blocks
      /\ \A c \in Blocks \ {b} : (New(c)' <=> New(c)) /\ (c \in used' <=> c \in used)
  BY <1>1 DEF IInv, TypeOK, New
<1> QED BY <1>1, <1>3, <1>4, <1>5, <1>6, <1>7, Counts, NoLocalsType

\* The count of the push that failed is given back.
LEMMA AgainStep ==
  ASSUME IInv, NEW t \in Threads, Again(t)
  PROVE  IInv'
<1>0. PICK b \in Blocks : b = loc[t].node
  BY DEF Again, IInv, LocOK, AddSteps
<1> DEFINE r == [should |-> ~freeListRefs[b].should, count |-> freeListRefs[b].count - 1]
           free == freeListRefs[b] = One
<1>1. /\ pc[t] = "again" /\ loc[t].node = b
      /\ SetRefs(b, r) /\ used' = used
      /\ UNCHANGED <<initialBlockPoolIndex, heap, freeListHead, freeListNext, list>>
  BY <1>0 DEF Again, poolVars
<1>2. /\ t \in Pushers(b)
      /\ \A c \in Blocks : NoRole(t, c) \/ c = b
      /\ t \notin Takers(b) /\ t \notin Holders(b) /\ t \notin Linkers(b)
  BY <1>1 DEF Takers, Holders, Linkers, Pushers, NoRole
<1>3. /\ freeListRefs[b].count = Cardinality(Holders(b)) + 1 /\ ~freeListRefs[b].should
      /\ Natural(b) /\ BlockOK(b) /\ Cardinality(Pushers(b)) = 1 /\ b \notin Listed
      /\ freeListRefs[b] \in Refs
  BY <1>2, Parts
<1>4. r \in Refs /\ r.count = Cardinality(Holders(b)) /\ r.should
  <2>1. r.count = Cardinality(Holders(b)) /\ r.count \in Nat
    BY <1>3 DEF Natural
  <2>2. r.should /\ r.should \in BOOLEAN
    BY <1>3
  <2>3. r \in [should : BOOLEAN, count : Nat]
    BY <2>1, <2>2
  <2> QED BY <2>1, <2>2, <2>3 DEF Refs
<1>5. free <=> Cardinality(Holders(b)) = 0
  <2>1. free => freeListRefs[b].count = 1
    BY DEF One
  <2>2. freeListRefs[b].should = FALSE
    BY <1>3 DEF Refs
  <2>3. freeListRefs[b].count = 1 => freeListRefs[b] = [should |-> FALSE, count |-> 1]
    BY <1>3, <2>2 DEF Refs
  <2> QED BY <1>3, <2>1, <2>3 DEF Natural, One
<1>6. /\ Alone(t) /\ Typed /\ LocOK(t)'
      /\ \A c \in Blocks : t \notin Holders(c)' /\ t \notin Takers(c)' /\ t \notin Pushers(c)'
      /\ \A c \in Blocks : t \in Linkers(c)' <=> free /\ c = b
  <2>1. CASE free
    <3>1. Goto(t, "link") /\ loc' = loc
      BY <1>1, <2>1 DEF Again
    <3>2. Alone(t) /\ Typed /\ pc'[t] = "link" /\ loc'[t] = loc[t]
      BY <3>1, GoesOn, RestingSteps DEF IInv
    <3> HIDE DEF free
    <3>3. LocOK(t)'
      BY <1>1, <3>2 DEF LocOK, AddSteps
    <3> QED BY <1>1, <2>1, <3>2, <3>3 DEF Holders, Takers, Linkers, Pushers
  <2>2. CASE ~free
    <3>1. Rests(t)
      BY <1>1, <2>2, AddedRests DEF Again, IInv
    <3> HIDE DEF free
    <3> QED BY <2>2, <3>1, RestsNoRole DEF Rests, NoRole
  <2> QED BY <2>1, <2>2
<1> HIDE DEF free, r
<1>7. \A c \in Blocks \ {b} : SameRole(t, c)
  BY <1>2, <1>6 DEF SameRole, NoRole
<1>8. BlockOK(b)'
  <2>1. freeListRefs'[b] = r /\ Listed' = Listed /\ (New(b)' <=> New(b))
    BY <1>1 DEF SetRefs, IInv, TypeOK, Listed, New
  <2>2. /\ Cardinality(Holders(b)') = Cardinality(Holders(b))
        /\ Cardinality(Takers(b)')  = Cardinality(Takers(b))
        /\ Cardinality(Linkers(b)') = Cardinality(Linkers(b)) + IF free THEN 1 ELSE 0
        /\ Cardinality(Pushers(b)') = Cardinality(Pushers(b)) - 1
    BY <1>2, <1>6, Moved DEF Natural, Bit
  <2>3. freeListRefs[b] # Zero
    BY <1>3 DEF Zero, Natural
  <2>4. PlaceOK(b)' /\ LinkOK(b)'
    BY <1>1, <1>3, <1>4, <1>5, <2>1, <2>2 DEF BlockOK, PlaceOK, LinkOK, Marked, Bit, Natural
  <2>5. CountOK(b)'
    BY <1>3, <1>4, <2>1, <2>2 DEF BlockOK, CountOK, Bit, Natural
  <2>6. NewOK(b)'
    BY <1>3, <2>1, <2>3 DEF BlockOK, NewOK
  <2> QED BY <2>4, <2>5, <2>6 DEF BlockOK
<1>9. /\ initialBlockPoolIndex' \in Nat /\ heap' \subseteq Heap /\ used' \subseteq Blocks
      /\ \A c \in Blocks \ {b} : (New(c)' <=> New(c)) /\ (c \in used' <=> c \in used)
  BY <1>1 DEF IInv, TypeOK, New
<1> QED BY <1>1, <1>4, <1>6, <1>7, <1>8, <1>9, Counts

\* The blocks of the array are not those of the heap.
LEMMA PoolAndHeap ==
  /\ InitialPool \subseteq Blocks /\ Heap \subseteq Blocks /\ InitialPool \cap Heap = {}
  BY DEF InitialPool, Heap, Blocks

\* A block of the array comes back.
LEMMA AddStep ==
  ASSUME IInv, NEW t \in Threads, NEW b \in used, Add(t, b)
  PROVE  IInv'
<1> DEFINE r == [freeListRefs[b] EXCEPT !.should = ~@]
           free == freeListRefs[b] = Zero
<1>1. /\ b \in Blocks /\ b \notin Heap /\ pc[t] = "idle" /\ SetRefs(b, r) /\ used' = used \ {b}
      /\ UNCHANGED <<initialBlockPoolIndex, heap, freeListHead, freeListNext, list>>
  BY DEF Add, dynamicallyAllocated, IInv, TypeOK
<1>2. \A c \in Blocks : NoRole(t, c)
  BY <1>1, RestingNoRole DEF Resting
<1>3. /\ freeListRefs[b].count = Cardinality(Holders(b)) /\ ~freeListRefs[b].should
      /\ Natural(b) /\ BlockOK(b) /\ freeListRefs[b] \in Refs
  BY <1>1, Parts
<1>4. r \in Refs /\ r.count = freeListRefs[b].count /\ r.should /\ freeListRefs[b].count \in Nat
  <2>1. r.count = freeListRefs[b].count /\ freeListRefs[b].count \in Nat
    BY <1>3 DEF Refs
  <2>2. r.should /\ r.should \in BOOLEAN
    BY <1>3 DEF Refs
  <2>3. r \in [should : BOOLEAN, count : Nat]
    BY <1>3, <2>1, <2>2 DEF Refs
  <2> QED BY <2>1, <2>2, <2>3 DEF Refs
<1>5. free <=> freeListRefs[b].count = 0
  <2>1. free => freeListRefs[b].count = 0
    BY DEF Zero
  <2>2. freeListRefs[b].should = FALSE
    BY <1>3 DEF Refs
  <2>3. freeListRefs[b].count = 0 => freeListRefs[b] = [should |-> FALSE, count |-> 0]
    BY <1>3, <2>2 DEF Refs
  <2> QED BY <2>1, <2>3 DEF Zero
<1>6. /\ Alone(t) /\ Typed /\ LocOK(t)'
      /\ \A c \in Blocks : t \notin Holders(c)' /\ t \notin Takers(c)' /\ t \notin Pushers(c)'
      /\ \A c \in Blocks : t \in Linkers(c)' <=> free /\ c = b
  <2>1. CASE free
    <3> DEFINE l == [NoLocals EXCEPT !.node = b]
    <3>1. l \in Locals /\ l.node = b
      BY <1>1, NoLocalsType DEF NoLocals, Locals, Pointers
    <3>2. Goto(t, "load") /\ Local(t, l)
      BY <2>1 DEF Add
    <3> HIDE DEF free, l
    <3>3. Alone(t) /\ Typed /\ pc'[t] = "load" /\ loc'[t] = l
      BY <3>1, <3>2, MovesTo, RestingSteps DEF IInv
    <3>4. LocOK(t)'
      BY <1>1, <3>1, <3>3 DEF LocOK, AddSteps
    <3> QED BY <2>1, <3>1, <3>3, <3>4 DEF Holders, Takers, Linkers, Pushers
  <2>2. CASE ~free
    <3>1. pc' = pc /\ loc' = loc
      BY <2>2 DEF Add
    <3>2. Rests(t)
      BY <1>1, <3>1 DEF Rests, Alone, Typed, Resting, IInv, TypeOK
    <3> HIDE DEF free
    <3> QED BY <2>2, <3>2, RestsNoRole DEF Rests, NoRole
  <2> QED BY <2>1, <2>2
<1> HIDE DEF free, r
<1>7. \A c \in Blocks \ {b} : SameRole(t, c)
  BY <1>2, <1>6 DEF SameRole, NoRole
<1>8. BlockOK(b)'
  <2>1. freeListRefs'[b] = r /\ Listed' = Listed /\ (New(b)' <=> New(b)) /\ b \notin used'
    BY <1>1 DEF SetRefs, IInv, TypeOK, Listed, New
  <2>2. /\ Cardinality(Holders(b)') = Cardinality(Holders(b))
        /\ Cardinality(Takers(b)')  = Cardinality(Takers(b))
        /\ Cardinality(Linkers(b)') = Cardinality(Linkers(b)) + IF free THEN 1 ELSE 0
        /\ Cardinality(Pushers(b)') = Cardinality(Pushers(b))
    BY <1>1, <1>2, <1>6, Moved DEF Natural, NoRole, Bit
  <2>3. ~Marked(b) /\ (Marked(b)' <=> ~free)
    BY <1>3, <1>4, <1>5, <2>1 DEF Marked
  <2>4. PlaceOK(b)'
    BY <1>3, <2>1, <2>2, <2>3 DEF BlockOK, PlaceOK, Bit, Natural
  <2>5. LinkOK(b)'
    BY <1>3, <1>4, <1>5, <2>1, <2>2 DEF BlockOK, LinkOK, Bit, Natural
  <2>6. CountOK(b)'
    BY <1>3, <1>4, <2>1, <2>2 DEF BlockOK, CountOK, Bit, Natural
  <2>7. ~New(b)
    BY <1>3 DEF BlockOK, PlaceOK, Bit, Natural
  <2>8. NewOK(b)'
    BY <1>1, <2>1, <2>7 DEF NewOK
  <2> QED BY <2>4, <2>5, <2>6, <2>8 DEF BlockOK
<1>9. /\ initialBlockPoolIndex' \in Nat /\ heap' \subseteq Heap /\ used' \subseteq Blocks
      /\ \A c \in Blocks \ {b} : (New(c)' <=> New(c)) /\ (c \in used' <=> c \in used)
  BY <1>1 DEF IInv, TypeOK, New
<1> QED BY <1>1, <1>4, <1>6, <1>7, <1>8, <1>9, Counts

\* A block that passes between the sub-queues and where it is not handed out.
LEMMA Passes ==
  ASSUME IInv, NEW t \in Threads, Alone(t), NEW b \in Blocks,
         \A c \in Blocks : SameRole(t, c),
         UNCHANGED <<freeListRefs, list>>,
         New(b)' <=> b \in used, b \in used' <=> New(b), New(b) \/ b \in Heap
  PROVE  BlockOK(b)'
<1>1. /\ Cardinality(Holders(b)') = Cardinality(Holders(b))
      /\ Cardinality(Takers(b)')  = Cardinality(Takers(b))
      /\ Cardinality(Linkers(b)') = Cardinality(Linkers(b))
      /\ Cardinality(Pushers(b)') = Cardinality(Pushers(b))
  BY Moved DEF SameRole, Natural, Bit
<1>2. Natural(b) /\ BlockOK(b)
  BY Parts
<1>3. Listed' = Listed /\ (Marked(b)' <=> Marked(b))
  BY DEF Listed, Marked
<1>4. PlaceOK(b)'
  BY <1>1, <1>2, <1>3 DEF BlockOK, PlaceOK, Bit, Natural
<1>5. CountOK(b)' /\ LinkOK(b)'
  BY <1>1, <1>2, <1>3 DEF BlockOK, CountOK, LinkOK
<1>6. NewOK(b)'
  BY <1>2 DEF BlockOK, NewOK
<1> QED BY <1>4, <1>5, <1>6 DEF BlockOK

\* A block of the heap goes back there.
LEMMA DestroyStep ==
  ASSUME IInv, NEW t \in Threads, NEW b \in used, Destroy(b)
  PROVE  IInv'
<1>1. /\ b \in Blocks /\ b \in Heap
      /\ UNCHANGED <<initialBlockPoolIndex, listVars, pc, loc>>
      /\ heap' = heap \cup {b} /\ used' = used \ {b}
  BY DEF Destroy, dynamicallyAllocated, IInv, TypeOK
<1>2. /\ Alone(t) /\ Typed /\ LocOK(t)'
      /\ \A c \in Blocks : SameRole(t, c)
  BY <1>1 DEF Alone, Typed, IInv, TypeOK, LocOK, SameRole, Holders, Takers, Linkers, Pushers, listVars
<1>3. ~New(b)
  BY <1>1, Parts DEF BlockOK, PlaceOK, Bit, Natural
<1>4. BlockOK(b)'
  <2>1. New(b)' /\ b \notin used'
    BY <1>1 DEF New
  <2> QED BY <1>1, <1>2, <1>3, <2>1, Passes DEF listVars
<1>5. /\ freeListRefs[b] \in Refs /\ SetRefs(b, freeListRefs[b])
  BY <1>1 DEF IInv, TypeOK, SetRefs, listVars
<1>6. /\ initialBlockPoolIndex' \in Nat /\ heap' \subseteq Heap /\ used' \subseteq Blocks
      /\ \A c \in Blocks \ {b} : (New(c)' <=> New(c)) /\ (c \in used' <=> c \in used)
  BY <1>1 DEF IInv, TypeOK, New
<1> QED BY <1>1, <1>2, <1>4, <1>5, <1>6, Counts DEF listVars

\* fetch_add on the index: below the size it is a block of the array.
LEMMA TakeFromPoolStep ==
  ASSUME IInv, NEW t \in Threads, TakeFromPool(t)
  PROVE  IInv'
<1>1. /\ pc[t] \in Resting /\ UNCHANGED <<heap, listVars>>
      /\ initialBlockPoolIndex' = initialBlockPoolIndex + 1
      /\ initialBlockPoolIndex \in Nat /\ heap \subseteq Heap
  BY DEF TakeFromPool, Resting, IInv, TypeOK
<1>2. Rests(t)
  <2>1. CASE initialBlockPoolIndex < initialBlockPoolSize
    BY <2>1, ReturnsRests DEF TakeFromPool, IInv
  <2>2. CASE ~(initialBlockPoolIndex < initialBlockPoolSize)
    <3>1. Goto(t, "head") /\ loc' = loc /\ "head" \in Resting \ {"refs"}
      BY <2>2 DEF TakeFromPool, Resting
    <3> QED BY <3>1, GotoRests DEF IInv
  <2> QED BY <2>1, <2>2
<1>3. /\ Alone(t) /\ Typed /\ LocOK(t)'
      /\ \A c \in Blocks : SameRole(t, c)
  BY <1>1, <1>2, RestingNoRole, RestsNoRole DEF Rests, NoRole, SameRole
<1>4. CASE initialBlockPoolIndex < initialBlockPoolSize
  <2>1. PICK b \in InitialPool : b = initialBlockPoolIndex
    BY <1>1, <1>4 DEF InitialPool
  <2>2. used' = used \cup {b}
    BY <1>4, <2>1 DEF TakeFromPool
  <2>3. b \in Blocks /\ b \notin heap /\ New(b) /\ ~New(b)'
    BY <1>1, <2>1, PoolAndHeap DEF New
  <2>4. b \notin used
    BY <2>3, Parts DEF BlockOK, PlaceOK, Bit, Natural
  <2>5. BlockOK(b)'
    BY <1>1, <1>3, <2>2, <2>3, <2>4, Passes DEF listVars
  <2>6. \A c \in Blocks \ {b} : (New(c)' <=> New(c)) /\ (c \in used' <=> c \in used)
    BY <1>1, <2>1, <2>2 DEF New, InitialPool, Blocks
  <2>7. freeListRefs[b] \in Refs /\ SetRefs(b, freeListRefs[b])
    BY <1>1, <2>3 DEF IInv, TypeOK, SetRefs, listVars
  <2>8. initialBlockPoolIndex' \in Nat /\ heap' \subseteq Heap /\ used' \subseteq Blocks
    BY <1>1, <2>2, <2>3 DEF IInv, TypeOK
  <2> QED BY <1>1, <1>3, <2>3, <2>5, <2>6, <2>7, <2>8, Counts DEF listVars
<1>5. CASE ~(initialBlockPoolIndex < initialBlockPoolSize)
  <2>1. used' = used
    BY <1>5 DEF TakeFromPool
  <2>2. TypeOK'
    BY <1>1, <1>3, <2>1 DEF IInv, TypeOK, Typed, listVars
  <2>3. ListOK'
    BY <1>1 DEF IInv, ListOK, listVars
  <2>4. \A u \in Threads : LocOK(u)'
    BY <1>1, <1>3, OthersKeepLocals DEF listVars
  <2>5. \A c \in Blocks : (New(c)' <=> New(c)) /\ Listed' = Listed
    BY <1>1, <1>5 DEF New, InitialPool, Listed, listVars
  <2>6. \A c \in Blocks : BlockOK(c)'
    BY <1>1, <1>3, <2>1, <2>5, Untouched DEF IInv, listVars
  <2> QED BY <2>2, <2>3, <2>4, <2>6 DEF IInv
<1> QED BY <1>4, <1>5

-----------------------------------------------------------------------------
(***************************************************************************)
(* The steps that write freeListNext: of a block that is not on the list   *)
(* and that no other thread looks at.                                      *)
(***************************************************************************)

\* The list stays a list, and the others keep what they have read.
LEMMA Links ==
  ASSUME IInv, NEW t \in Threads, Alone(t), NEW b \in Blocks, NEW p \in Pointers,
         freeListNext' = [freeListNext EXCEPT ![b] = p],
         UNCHANGED <<freeListHead, list>>,
         b \notin Listed,
         \A u \in Threads \ {t} : u \notin Holders(b) /\ u \notin Linkers(b) /\ u \notin Pushers(b)
  PROVE  /\ freeListNext' \in [Blocks -> Pointers]
         /\ freeListNext'[b] = p
         /\ ListOK'
         /\ \A u \in Threads \ {t} : LocOK(u)'
<1>1. freeListNext \in [Blocks -> Pointers] /\ list \in Seq(Blocks)
  BY DEF IInv, TypeOK
<1>2. freeListNext' \in [Blocks -> Pointers] /\ freeListNext'[b] = p
  BY <1>1
<1>3. \A c \in Blocks \ {b} : freeListNext'[c] = freeListNext[c]
  BY <1>1
<1>4. ListOK'
  <2>1. \A i \in 1 .. Len(list) : list[i] \in Blocks \ {b}
    BY <1>1 DEF Listed
  <2>2. \A i \in 1 .. Len(list) : freeListNext'[list[i]] = freeListNext[list[i]]
    BY <1>3, <2>1
  <2> QED BY <2>2 DEF IInv, ListOK
<1>5. ASSUME NEW u \in Threads \ {t} PROVE LocOK(u)'
  <2>1. LocOK(u) /\ pc'[u] = pc[u] /\ loc'[u] = loc[u]
    BY DEF IInv, Alone
  <2>2. pc[u] = "take" => loc[u].head \in Blocks \ {b}
    BY <2>1 DEF LocOK, Holders
  <2>3. pc[u] \in {"count", "push"} => loc[u].node \in Blocks \ {b}
    BY <2>1 DEF LocOK, Linkers, Pushers, AddSteps
  <2> QED BY <1>3, <2>1, <2>2, <2>3 DEF LocOK
<1> QED BY <1>2, <1>4, <1>5

\* The next of the block is set: it is marked with a count of zero.
LEMMA StoreNextStep ==
  ASSUME IInv, NEW t \in Threads, StoreNext(t)
  PROVE  IInv'
<1>0. PICK b \in Blocks : b = loc[t].node
  BY DEF StoreNext, IInv, LocOK, AddSteps
<1>1. /\ pc[t] = "link" /\ loc[t].node = b /\ loc[t].top \in Pointers
      /\ freeListNext' = [freeListNext EXCEPT ![b] = loc[t].top]
      /\ UNCHANGED <<poolVars, freeListHead, freeListRefs, list>>
  BY <1>0 DEF StoreNext, IInv, TypeOK, Locals
<1>2. Alone(t) /\ Typed /\ pc'[t] = "count" /\ loc'[t] = loc[t]
  BY GoesOn, RestingSteps DEF StoreNext, IInv
<1>3. /\ t \in Linkers(b)
      /\ freeListRefs[b].count = 0 /\ freeListRefs[b].should
      /\ Cardinality(Linkers(b)) = 1 /\ b \notin Listed
  <2>1. t \in Linkers(b)
    BY <1>1 DEF Linkers
  <2> QED BY <2>1, Parts
<1>4. ASSUME NEW u \in Threads \ {t}
      PROVE  u \notin Holders(b) /\ u \notin Linkers(b) /\ u \notin Pushers(b)
  <2>1. u \notin Holders(b) /\ u \notin Pushers(b)
    BY <1>3, Parts
  <2>2. IsFiniteSet(Linkers(b))
    BY FS_Subset DEF Linkers
  <2>3. PICK x : Linkers(b) = {x}
    BY <1>3, <2>2, FS_Singleton
  <2> QED BY <1>3, <2>1, <2>3
<1>5. /\ freeListNext' \in [Blocks -> Pointers] /\ freeListNext'[b] = loc[t].top
      /\ ListOK' /\ \A u \in Threads \ {t} : LocOK(u)'
  BY <1>1, <1>2, <1>3, <1>4, Links
<1>6. LocOK(t)'
  BY <1>1, <1>2, <1>5 DEF LocOK, AddSteps
<1>7. TypeOK'
  BY <1>1, <1>2, <1>5 DEF IInv, TypeOK, Typed, poolVars
<1>8. ASSUME NEW c \in Blocks PROVE BlockOK(c)'
  <2>1. SameRole(t, c)
    BY <1>1, <1>2 DEF SameRole, Holders, Takers, Linkers, Pushers
  <2>2. Listed' = Listed /\ (New(c)' <=> New(c)) /\ used' = used
    BY <1>1 DEF Listed, New, poolVars
  <2> QED BY <1>1, <1>2, <2>1, <2>2, Untouched DEF IInv
<1> QED BY <1>5, <1>6, <1>7, <1>8 DEF IInv

\* A block of the heap is handed out: it has no count.
LEMMA CreateStep ==
  ASSUME IInv, NEW t \in Threads, Create(t)
  PROVE  IInv'
<1>1. pc[t] \in Resting /\ Rests(t) /\ UNCHANGED <<initialBlockPoolIndex, freeListHead, list>>
  BY ReturnsRests DEF Create, Resting, IInv
<1>2. /\ Alone(t) /\ Typed /\ LocOK(t)'
      /\ \A c \in Blocks : SameRole(t, c)
  BY <1>1, RestingNoRole, RestsNoRole DEF Rests, NoRole, SameRole
<1>3. CASE UNCHANGED <<heap, used, freeListRefs, freeListNext>>
  BY <1>1, <1>3, ReadsAndRests DEF poolVars, listVars
<1>4. ASSUME NEW b \in heap,
             heap' = heap \ {b}, used' = used \cup {b}, SetRefs(b, Zero),
             freeListNext' = [freeListNext EXCEPT ![b] = nullptr]
      PROVE  IInv'
  <2>1. b \in Blocks /\ b \in Heap /\ b \notin InitialPool
    BY PoolAndHeap DEF IInv, TypeOK
  <2>2. freeListRefs[b] = Zero /\ BlockOK(b) /\ Natural(b) /\ New(b) /\ ~New(b)'
    BY <1>4, <2>1, Parts DEF BlockOK, NewOK, New
  <2>3. b \notin Listed /\ b \notin used
    BY <2>2 DEF BlockOK, PlaceOK, Bit, Natural
  <2>4. \A u \in Threads \ {t} : u \notin Holders(b) /\ u \notin Linkers(b) /\ u \notin Pushers(b)
    <3>1. freeListRefs[b].count = 0 /\ ~freeListRefs[b].should
      BY <2>2 DEF Zero
    <3> QED
      <4>1. ASSUME NEW u \in Threads
            PROVE  u \notin Holders(b) /\ u \notin Linkers(b) /\ u \notin Pushers(b)
        BY <2>1, <3>1, Parts DEF Natural
      <4> QED BY <4>1
  <2>5. nullptr \in Pointers
    BY DEF Pointers
  <2>6. /\ freeListNext' \in [Blocks -> Pointers]
        /\ ListOK' /\ \A u \in Threads \ {t} : LocOK(u)'
    BY <1>1, <1>2, <1>4, <2>1, <2>3, <2>4, <2>5, Links
  <2>7. freeListRefs' = freeListRefs
    BY <1>4, <2>1, <2>2 DEF SetRefs, IInv, TypeOK
  <2>8. TypeOK'
    BY <1>1, <1>2, <1>4, <2>1, <2>6, <2>7 DEF IInv, TypeOK, Typed
  <2>9. BlockOK(b)'
    <3>1. b \in used'
      BY <1>4
    <3> QED BY <1>1, <1>2, <2>1, <2>2, <2>3, <2>7, <3>1, Passes
  <2>10. ASSUME NEW c \in Blocks, c # b PROVE BlockOK(c)'
    <3>1. Listed' = Listed /\ (New(c)' <=> New(c)) /\ (c \in used' <=> c \in used)
      BY <1>1, <1>4, <2>10 DEF Listed, New
    <3> QED BY <1>2, <2>7, <2>10, <3>1, Untouched DEF IInv
  <2> QED BY <1>2, <2>6, <2>8, <2>9, <2>10 DEF IInv
<1> QED BY <1>3, <1>4 DEF Create

-----------------------------------------------------------------------------
(***************************************************************************)
(* The compare_exchanges of freeListHead.                                  *)
(***************************************************************************)

\* The head is replaced by the next that was read before: it is still the next.
LEMMA TakeStep ==
  ASSUME IInv, NEW t \in Threads, Take(t)
  PROVE  IInv'
<1>0. PICK b \in Blocks : b = loc[t].head
  BY DEF Take, IInv, LocOK
<1>1. /\ pc[t] = "take" /\ loc[t].head = b /\ loc[t].node = b /\ loc[t] \in Locals
      /\ loc[t].next = freeListNext[b]
      /\ UNCHANGED <<poolVars, freeListNext, freeListRefs>>
  BY <1>0 DEF Take, IInv, LocOK, TypeOK
<1>2. /\ t \in Holders(b)
      /\ \A c \in Blocks : t \notin Takers(c) /\ t \notin Linkers(c) /\ t \notin Pushers(c)
      /\ \A c \in Blocks \ {b} : t \notin Holders(c)
  BY <1>1 DEF Takers, Holders, Linkers, Pushers
<1>3. CASE freeListHead # b
  <2> DEFINE l == [loc[t] EXCEPT !.head = freeListHead, !.next = nullptr]
  <2>1. l \in Locals /\ l.node = b
    <3>1. freeListHead \in Pointers /\ nullptr \in Pointers
      BY DEF IInv, TypeOK, Pointers
    <3> QED BY <1>1, <3>1 DEF Locals
  <2>2. Goto(t, "unref") /\ Local(t, l) /\ UNCHANGED <<freeListHead, list>>
    BY <1>1, <1>3 DEF Take
  <2> HIDE DEF l
  <2>3. Alone(t) /\ Typed /\ pc'[t] = "unref" /\ loc'[t] = l
    BY <2>1, <2>2, MovesTo, RestingSteps DEF IInv
  <2>4. LocOK(t)'
    BY <2>1, <2>3 DEF LocOK, AddSteps
  <2>5. \A c \in Blocks : SameRole(t, c)
    BY <1>1, <2>1, <2>3 DEF SameRole, Holders, Takers, Linkers, Pushers
  <2> QED BY <1>1, <2>2, <2>3, <2>4, <2>5, Reads DEF listVars
<1>4. CASE freeListHead = b
  <2>1. freeListHead' = loc[t].next /\ list' = Tail(list) /\ Goto(t, "drop") /\ loc' = loc
    BY <1>1, <1>4 DEF Take
  <2>2. Alone(t) /\ Typed /\ pc'[t] = "drop" /\ loc'[t] = loc[t]
    BY <2>1, GoesOn, RestingSteps DEF IInv
  <2>3. LocOK(t)'
    BY <1>1, <2>2 DEF LocOK, AddSteps
  <2>4. b # nullptr
    BY DEF Blocks, nullptr
  <2>5. list \in Seq(Blocks) /\ list # <<>> /\ list[1] = b
    BY <1>4, <2>4 DEF IInv, TypeOK, ListOK
  <2>6. /\ Len(list) \in Nat /\ Len(list) >= 1
        /\ list' \in Seq(Blocks) /\ Len(list') = Len(list) - 1
        /\ \A i \in 1 .. Len(list') : list'[i] = list[i + 1]
    BY <2>1, <2>5
  <2>7. \A i, j \in 1 .. Len(list) : list[i] = list[j] => i = j
    BY DEF IInv, ListOK
  <2>8. b \in Listed /\ Listed' = Listed \ {b}
    <3>1. b \in Listed
      BY <2>5, <2>6 DEF Listed
    <3>2. ASSUME NEW c \in Listed' PROVE c \in Listed \ {b}
      <4>1. PICK i \in 1 .. Len(list') : c = list'[i]
        BY DEF Listed
      <4>2. i + 1 \in 1 .. Len(list) /\ c = list[i + 1] /\ 1 \in 1 .. Len(list) /\ i + 1 # 1
        BY <2>6, <4>1
      <4>3. c # b
        BY <2>5, <2>7, <4>2
      <4> QED BY <4>2, <4>3 DEF Listed
    <3>3. ASSUME NEW c \in Listed, c # b PROVE c \in Listed'
      <4>1. PICK i \in 1 .. Len(list) : c = list[i]
        BY DEF Listed
      <4>2. i # 1
        BY <2>5, <3>3, <4>1
      <4>3. i - 1 \in 1 .. Len(list') /\ list'[i - 1] = c
        BY <2>6, <4>1, <4>2
      <4> QED BY <4>3 DEF Listed
    <3> QED BY <3>1, <3>2, <3>3
  <2>9. ListOK'
    <3>1. \A i \in 1 .. Len(list) :
            freeListNext[list[i]] = IF i = Len(list) THEN nullptr ELSE list[i + 1]
      BY DEF IInv, ListOK
    <3>2. freeListHead' = IF list' = <<>> THEN nullptr ELSE list'[1]
      <4>1. freeListNext[b] = IF 1 = Len(list) THEN nullptr ELSE list[2]
        BY <2>5, <2>6, <3>1
      <4>2. list' = <<>> <=> 1 = Len(list)
        BY <2>6
      <4>3. 1 # Len(list) => list'[1] = list[2]
        BY <2>6
      <4> QED BY <1>1, <2>1, <4>1, <4>2, <4>3
    <3>3. ASSUME NEW i \in 1 .. Len(list')
          PROVE  freeListNext'[list'[i]] = IF i = Len(list') THEN nullptr ELSE list'[i + 1]
      BY <1>1, <2>6, <3>1
    <3>4. ASSUME NEW i \in 1 .. Len(list'), NEW j \in 1 .. Len(list'), list'[i] = list'[j]
          PROVE  i = j
      <4>1. i + 1 \in 1 .. Len(list) /\ j + 1 \in 1 .. Len(list)
        BY <2>6
      <4>2. list[i + 1] = list[j + 1]
        BY <2>6, <3>4
      <4>3. i + 1 = j + 1
        BY <2>7, <4>1, <4>2
      <4> QED BY <2>6, <4>3
    <3> QED BY <3>2, <3>3, <3>4 DEF ListOK
  <2>10. TypeOK'
    <3>1. freeListHead' \in Pointers
      BY <1>1, <2>1 DEF Locals
    <3> QED BY <1>1, <2>2, <2>6, <3>1 DEF IInv, TypeOK, Typed, poolVars
  <2>11. \A u \in Threads : LocOK(u)'
    BY <1>1, <2>2, <2>3, OthersKeepLocals
  <2>12. BlockOK(b)'
    <3>1. /\ t \notin Holders(b)' /\ t \in Takers(b)' /\ t \notin Linkers(b)'
          /\ t \notin Pushers(b)'
      BY <1>1, <2>2 DEF Holders, Takers, Linkers, Pushers
    <3>2. /\ Cardinality(Holders(b)') = Cardinality(Holders(b)) - 1
          /\ Cardinality(Takers(b)')  = Cardinality(Takers(b)) + 1
          /\ Cardinality(Linkers(b)') = Cardinality(Linkers(b))
          /\ Cardinality(Pushers(b)') = Cardinality(Pushers(b))
      BY <1>2, <2>2, <3>1, Moved DEF Natural, Bit
    <3>3. Natural(b) /\ BlockOK(b)
      BY Parts
    <3>4. /\ freeListRefs' = freeListRefs /\ used' = used /\ (New(b)' <=> New(b))
          /\ (Marked(b)' <=> Marked(b))
      BY <1>1 DEF poolVars, New, Marked
    <3>5. PlaceOK(b)'
      BY <2>8, <3>2, <3>3, <3>4 DEF BlockOK, PlaceOK, Bit, Natural
    <3>6. CountOK(b)'
      BY <2>8, <3>2, <3>3, <3>4 DEF BlockOK, CountOK, Bit, Natural
    <3>7. LinkOK(b)' /\ NewOK(b)'
      BY <3>2, <3>3, <3>4 DEF BlockOK, LinkOK, NewOK
    <3> QED BY <3>5, <3>6, <3>7 DEF BlockOK
  <2>13. ASSUME NEW c \in Blocks, c # b PROVE BlockOK(c)'
    <3>1. SameRole(t, c)
      BY <1>1, <2>2, <2>13 DEF SameRole, Holders, Takers, Linkers, Pushers
    <3>2. (c \in Listed' <=> c \in Listed) /\ (New(c)' <=> New(c)) /\ used' = used
      BY <1>1, <2>8, <2>13 DEF New, poolVars
    <3> QED BY <1>1, <2>2, <3>1, <3>2, Untouched DEF IInv
  <2> QED BY <2>9, <2>10, <2>11, <2>12, <2>13 DEF IInv
<1> QED BY <1>1, <1>3, <1>4

\* The block becomes the head: its next is the head that is replaced.
LEMMA PushStep ==
  ASSUME IInv, NEW t \in Threads, Push(t)
  PROVE  IInv'
<1>0. PICK b \in Blocks : b = loc[t].node
  BY DEF Push, IInv, LocOK, AddSteps
<1>1. /\ pc[t] = "push" /\ loc[t].node = b /\ loc[t] \in Locals
      /\ freeListNext[b] = loc[t].top
      /\ UNCHANGED <<poolVars, freeListNext, freeListRefs>>
  BY <1>0 DEF Push, IInv, LocOK, TypeOK
<1>2. /\ t \in Pushers(b)
      /\ \A c \in Blocks : t \notin Takers(c) /\ t \notin Linkers(c) /\ t \notin Holders(c)
      /\ \A c \in Blocks \ {b} : t \notin Pushers(c)
  BY <1>1 DEF Takers, Holders, Linkers, Pushers
<1>3. CASE freeListHead # loc[t].top
  <2> DEFINE l == [loc[t] EXCEPT !.top = freeListHead]
  <2>1. l \in Locals /\ l.node = b
    <3>1. freeListHead \in Pointers
      BY DEF IInv, TypeOK
    <3> QED BY <1>1, <3>1 DEF Locals
  <2>2. Goto(t, "again") /\ Local(t, l) /\ UNCHANGED <<freeListHead, list>>
    BY <1>3 DEF Push
  <2> HIDE DEF l
  <2>3. Alone(t) /\ Typed /\ pc'[t] = "again" /\ loc'[t] = l
    BY <2>1, <2>2, MovesTo, RestingSteps DEF IInv
  <2>4. LocOK(t)'
    BY <2>1, <2>3 DEF LocOK, AddSteps
  <2>5. \A c \in Blocks : SameRole(t, c)
    BY <1>1, <2>1, <2>3 DEF SameRole, Holders, Takers, Linkers, Pushers
  <2> QED BY <1>1, <2>2, <2>3, <2>4, <2>5, Reads DEF listVars
<1>4. CASE freeListHead = loc[t].top
  <2>1. freeListHead' = b /\ list' = <<b>> \o list /\ Rests(t)
    BY <1>1, <1>4, AddedRests DEF Push, IInv
  <2>2. Alone(t) /\ Typed /\ LocOK(t)' /\ \A c \in Blocks : NoRole(t, c)'
    BY <2>1, RestsNoRole DEF Rests
  <2>3. b \notin Listed
    BY <1>2, Parts
  <2>4. list \in Seq(Blocks) /\ Len(list) \in Nat
    BY DEF IInv, TypeOK
  <2>5. /\ list' \in Seq(Blocks) /\ Len(list') = Len(list) + 1
        /\ list'[1] = b
        /\ \A i \in 2 .. Len(list') : list'[i] = list[i - 1]
    BY <2>1, <2>4
  <2>6. \A i, j \in 1 .. Len(list) : list[i] = list[j] => i = j
    BY DEF IInv, ListOK
  <2>7. Listed' = Listed \cup {b}
    <3>1. b \in Listed'
      BY <2>4, <2>5 DEF Listed
    <3>2. ASSUME NEW c \in Listed', c # b PROVE c \in Listed
      <4>1. PICK i \in 1 .. Len(list') : c = list'[i]
        BY DEF Listed
      <4>2. i # 1
        BY <2>5, <3>2, <4>1
      <4>3. i - 1 \in 1 .. Len(list) /\ list[i - 1] = c
        BY <2>4, <2>5, <4>1, <4>2
      <4> QED BY <4>3 DEF Listed
    <3>3. ASSUME NEW c \in Listed PROVE c \in Listed'
      <4>1. PICK i \in 1 .. Len(list) : c = list[i]
        BY DEF Listed
      <4>2. i + 1 \in 1 .. Len(list') /\ list'[i + 1] = c
        BY <2>4, <2>5, <4>1
      <4> QED BY <4>2 DEF Listed
    <3> QED BY <3>1, <3>2, <3>3
  <2>8. ListOK'
    <3>1. /\ freeListHead = IF list = <<>> THEN nullptr ELSE list[1]
          /\ \A i \in 1 .. Len(list) :
               freeListNext[list[i]] = IF i = Len(list) THEN nullptr ELSE list[i + 1]
      BY DEF IInv, ListOK
    <3>2. freeListHead' = IF list' = <<>> THEN nullptr ELSE list'[1]
      BY <2>1, <2>4, <2>5
    <3>3. ASSUME NEW i \in 1 .. Len(list')
          PROVE  freeListNext'[list'[i]] = IF i = Len(list') THEN nullptr ELSE list'[i + 1]
      <4>1. CASE i = 1
        <5>1. freeListNext'[list'[1]] = IF list = <<>> THEN nullptr ELSE list[1]
          BY <1>1, <1>4, <2>5, <3>1
        <5>2. list = <<>> <=> Len(list') = 1
          BY <2>4, <2>5
        <5>3. Len(list') # 1 => list'[2] = list[1]
          BY <2>4, <2>5
        <5> QED BY <4>1, <5>1, <5>2, <5>3
      <4>2. CASE i # 1
        <5>1. i - 1 \in 1 .. Len(list) /\ list'[i] = list[i - 1]
          BY <2>4, <2>5, <4>2
        <5>2. freeListNext'[list'[i]] = IF i - 1 = Len(list) THEN nullptr ELSE list[i]
          BY <1>1, <3>1, <5>1
        <5>3. i # Len(list') => list'[i + 1] = list[i]
          <6>1. i # Len(list') => i + 1 \in 2 .. Len(list') /\ (i + 1) - 1 = i
            BY <2>4, <2>5, <4>2
          <6> QED BY <2>5, <6>1
        <5> QED BY <2>4, <2>5, <5>1, <5>2, <5>3
      <4> QED BY <4>1, <4>2
    <3>4. ASSUME NEW i \in 1 .. Len(list'), NEW j \in 1 .. Len(list'), list'[i] = list'[j]
          PROVE  i = j
      <4>1. \A k \in 2 .. Len(list') : k - 1 \in 1 .. Len(list) /\ list'[k] \in Listed
        BY <2>4, <2>5 DEF Listed
      <4>2. i = 1 <=> j = 1
        BY <2>3, <2>4, <2>5, <3>4, <4>1
      <4>3. CASE i # 1
        <5>1. i \in 2 .. Len(list') /\ j \in 2 .. Len(list')
          BY <2>4, <2>5, <4>2, <4>3
        <5>2. list[i - 1] = list[j - 1]
          BY <2>5, <3>4, <5>1
        <5>3. i - 1 = j - 1
          BY <2>6, <4>1, <5>1, <5>2
        <5> QED BY <2>4, <2>5, <5>1, <5>3
      <4> QED BY <4>2, <4>3
    <3> QED BY <3>2, <3>3, <3>4 DEF ListOK
  <2>9. TypeOK'
    BY <1>1, <2>1, <2>2, <2>5 DEF IInv, TypeOK, Typed, poolVars, Pointers
  <2>10. \A u \in Threads : LocOK(u)'
    BY <1>1, <2>2, OthersKeepLocals
  <2>11. BlockOK(b)'
    <3>1. /\ Cardinality(Holders(b)') = Cardinality(Holders(b))
          /\ Cardinality(Takers(b)')  = Cardinality(Takers(b))
          /\ Cardinality(Linkers(b)') = Cardinality(Linkers(b))
          /\ Cardinality(Pushers(b)') = Cardinality(Pushers(b)) - 1
      BY <1>2, <2>2, Moved DEF Natural, NoRole, Bit
    <3>2. Natural(b) /\ BlockOK(b)
      BY Parts
    <3>3. /\ freeListRefs' = freeListRefs /\ used' = used /\ (New(b)' <=> New(b))
          /\ (Marked(b)' <=> Marked(b)) /\ b \in Listed'
      BY <1>1, <2>7 DEF poolVars, New, Marked
    <3>4. PlaceOK(b)'
      BY <2>3, <3>1, <3>2, <3>3 DEF BlockOK, PlaceOK, Bit, Natural
    <3>5. CountOK(b)'
      BY <2>3, <3>1, <3>2, <3>3 DEF BlockOK, CountOK, Bit, Natural
    <3>6. LinkOK(b)' /\ NewOK(b)'
      BY <3>1, <3>2, <3>3 DEF BlockOK, LinkOK, NewOK
    <3> QED BY <3>4, <3>5, <3>6 DEF BlockOK
  <2>12. ASSUME NEW c \in Blocks, c # b PROVE BlockOK(c)'
    <3>1. SameRole(t, c)
      BY <1>2, <2>2, <2>12 DEF SameRole, NoRole
    <3>2. (c \in Listed' <=> c \in Listed) /\ (New(c)' <=> New(c)) /\ used' = used
      BY <1>1, <2>7, <2>12 DEF New, poolVars
    <3> QED BY <1>1, <2>2, <3>1, <3>2, Untouched DEF IInv
  <2> QED BY <2>8, <2>9, <2>10, <2>11, <2>12 DEF IInv
<1> QED BY <1>3, <1>4

-----------------------------------------------------------------------------
\* The initial states.
LEMMA InitInv == Init => IInv
<1> SUFFICES ASSUME Init PROVE IInv
  OBVIOUS
<1>1. /\ initialBlockPoolIndex = 0 /\ heap = Heap /\ used = {} /\ list = <<>>
      /\ freeListHead = nullptr
      /\ freeListNext = [b \in Blocks |-> nullptr] /\ freeListRefs = [b \in Blocks |-> Zero]
      /\ pc = [t \in Threads |-> "idle"] /\ loc = [t \in Threads |-> NoLocals]
  BY DEF Init
<1>2. TypeOK
  BY <1>1, NoLocalsType DEF TypeOK, Pointers, Steps
<1>3. ListOK
  BY <1>1 DEF ListOK
<1>4. \A t \in Threads : LocOK(t)
  BY <1>1 DEF LocOK, AddSteps
<1>5. ASSUME NEW b \in Blocks PROVE BlockOK(b)
  <2>1. /\ Cardinality(Holders(b)) = 0 /\ Cardinality(Takers(b)) = 0
        /\ Cardinality(Linkers(b)) = 0 /\ Cardinality(Pushers(b)) = 0
    <3>1. Holders(b) = {} /\ Takers(b) = {} /\ Linkers(b) = {} /\ Pushers(b) = {}
      BY <1>1 DEF Holders, Takers, Linkers, Pushers
    <3> QED BY <3>1, FS_EmptySet
  <2>2. freeListRefs[b] = Zero /\ Zero.count = 0 /\ ~Zero.should
    BY <1>1 DEF Zero
  <2>3. New(b)
    BY <1>1 DEF New, Blocks, InitialPool, Heap
  <2>4. b \notin Listed /\ b \notin used
    BY <1>1 DEF Listed
  <2> QED BY <2>1, <2>2, <2>3, <2>4 DEF BlockOK, PlaceOK, CountOK, LinkOK, NewOK, Marked, Bit
<1> QED BY <1>2, <1>3, <1>4, <1>5 DEF IInv

\* Every step.
LEMMA NextInv == IInv /\ [Next]_vars => IInv'
<1> SUFFICES ASSUME IInv, [Next]_vars PROVE IInv'
  OBVIOUS
<1>1. CASE UNCHANGED vars
  <2>1. UNCHANGED <<initialBlockPoolIndex, heap, used, freeListHead, freeListNext, freeListRefs,
                    list, pc, loc>>
    BY <1>1 DEF vars, poolVars, listVars
  <2>2. TypeOK' /\ ListOK'
    BY <2>1 DEF IInv, TypeOK, ListOK
  <2>3. \A t \in Threads : LocOK(t)'
    BY <2>1 DEF IInv, LocOK
  <2>4. ASSUME NEW b \in Blocks PROVE BlockOK(b)'
    <3>1. /\ Holders(b)' = Holders(b) /\ Takers(b)' = Takers(b)
          /\ Linkers(b)' = Linkers(b) /\ Pushers(b)' = Pushers(b)
      BY <2>1 DEF Holders, Takers, Linkers, Pushers
    <3>2. (New(b)' <=> New(b)) /\ Listed' = Listed /\ (Marked(b)' <=> Marked(b))
      BY <2>1 DEF New, Listed, Marked
    <3>3. BlockOK(b)
      BY DEF IInv
    <3>4. PlaceOK(b)'
      BY <2>1, <3>1, <3>2, <3>3 DEF BlockOK, PlaceOK, Bit
    <3>5. CountOK(b)' /\ LinkOK(b)' /\ NewOK(b)'
      BY <2>1, <3>1, <3>2, <3>3 DEF BlockOK, CountOK, LinkOK, NewOK
    <3> QED BY <3>4, <3>5 DEF BlockOK
  <2> QED BY <2>2, <2>3, <2>4 DEF IInv
<1>2. ASSUME NEW t \in Threads, Begins(t) PROVE IInv'
  <2>1. CASE Requisition(t)
    BY <2>1, RequisitionStep
  <2>2. CASE AddBlockToFreeList(t)
    BY <2>2, DestroyStep, AddStep DEF AddBlockToFreeList
  <2> QED BY <1>2, <2>1, <2>2 DEF Begins
<1>3. ASSUME NEW t \in Threads, Goes(t) PROVE IInv'
  BY <1>3, PoolHasMoreStep, TakeFromPoolStep, CreateStep, LoadHeadStep, LoadRefsStep, GrabStep,
     LoadNextStep, TakeStep, DropStep, UnrefStep, LoadTopStep, StoreNextStep, StoreRefsStep,
     PushStep, AgainStep DEF Goes
<1> QED BY <1>1, <1>2, <1>3 DEF Next

\* The invariant.
THEOREM Invariance == Spec => []IInv
<1> QED BY InitInv, NextInv, PTL DEF Spec

\* Every variable has its type: no count is taken below zero, which would borrow
\* from bit 31.
THEOREM TypeCorrect == Spec => []TypeOK
<1>1. IInv => TypeOK
  BY DEF IInv
<1> QED BY <1>1, Invariance, PTL

\* No block is lost, handed out twice, added twice or taken twice.
THEOREM EveryBlockInOnePlace == Spec => []OnePlace
<1>1. IInv => OnePlace
  BY DEF IInv, BlockOK, PlaceOK, OnePlace
<1> QED BY <1>1, Invariance, PTL

\* The compare_exchanges of freeListHead are safe from ABA: the lock-free list
\* is a list and the counts are exact.
THEOREM TheFreeListIsSound == Spec => []FreeListSound
<1>1. IInv => FreeListSound
  BY DEF IInv, BlockOK, CountOK, RefsExact, FreeListSound
<1> QED BY <1>1, Invariance, PTL
=============================================================================
