------------------------ MODULE SubQueueCountProofs -------------------------
(***************************************************************************)
(* The counters of a stream, proved of SubQueue for any number of          *)
(* dequeuers, blocks and posts: every attempt is accounted for, and none   *)
(* gets an index for which there is no element.                            *)
(*                                                                         *)
(* That head never passes tail is not inductive: an attempt counts itself  *)
(* in before it looks at tail for the second time, and its leave to claim  *)
(* an index rests on numbers that are old by then.  Room says what makes   *)
(* them good enough, of every set D of attempts between the two: either    *)
(* there are elements for all of D and all that have been let in, or one   *)
(* of D will see that there are not and count itself out.  Spared is the   *)
(* same argument for an attempt that is to return false: it ends with      *)
(* nothing only if the attempts beside it are as many as the elements it   *)
(* saw.                                                                    *)
(*                                                                         *)
(* The second part has what the proofs about the blocks need of / and %.   *)
(***************************************************************************)
EXTENDS SubQueue, FiniteSetTheorems, TLAPS

USE SubQueueAssumption DEF SubQueueAssumption

CSteps == {"idle", "over", "look", "count", "check", "excess", "claim", "header", "key",
           "take", "mark", "clear", "free"}

Locals(l) ==
  /\ l = [tail |-> l.tail, over |-> l.over, my |-> l.my, index |-> l.index,
          header |-> l.header, itail |-> l.itail, entry |-> l.entry, block |-> l.block,
          got |-> l.got]
  /\ l.tail \in Nat /\ l.over \in Nat /\ l.my \in Nat /\ l.index \in Nat

CountTypes ==
  /\ tailIndex \in Nat /\ headIndex \in Nat
  /\ dequeueOptimisticCount \in Nat /\ dequeueOvercommit \in Nat
  /\ cc \in [Consumers -> CSteps]
  /\ loc = [c \in Consumers |-> loc[c]] /\ \A c \in Consumers : Locals(loc[c])
  /\ spare \in [Consumers -> Nat]

At(S) == {c \in Consumers : cc[c] \in S}

Beside(S, c) == At(S) \ {c}

Attempts == {"over", "look", "count", "check", "excess", "claim"}
Counted  == {"check", "claim", "excess"}
Coming   == {"over", "look", "count"}

\* The attempts counted in, less those counted out and those that succeeded.
Agree == dequeueOptimisticCount = dequeueOvercommit + headIndex + Cardinality(At(Counted))

Loaded(c) ==
  /\ cc[c] \in {"look", "count", "check"} => loc[c].over <= dequeueOvercommit
  /\ cc[c] \in Coming \cup {"check"} => loc[c].tail <= tailIndex
  /\ cc[c] = "check" => loc[c].over <= loc[c].my

Claims == headIndex + Cardinality(At({"claim"}))

RoomFor(D) ==
  \/ Claims + Cardinality(D) <= tailIndex
  \/ \E d \in D : Claims + Cardinality(D) <= loc[d].my - loc[d].over + 1

Room == \A D \in SUBSET At({"check"}) : RoomFor(D)

Spared(c) ==
  /\ cc[c] = "over" /\ spare[c] > 0 =>
       spare[c] + headIndex + Cardinality(Beside(Attempts, c)) <= loc[c].tail
  /\ cc[c] \in {"look", "count"} /\ spare[c] > 0 =>
       spare[c] + (dequeueOptimisticCount - loc[c].over) + Cardinality(Beside(Coming, c))
         <= loc[c].tail
  /\ cc[c] = "check" /\ spare[c] > 0 => spare[c] + (loc[c].my - loc[c].over) <= loc[c].tail
  /\ cc[c] = "excess" => spare[c] = 0

CountInv ==
  /\ CountTypes
  /\ Agree
  /\ \A c \in Consumers : Loaded(c) /\ Spared(c)
  /\ Room

-----------------------------------------------------------------------------
Bit(b) == IF b THEN 1 ELSE 0

\* Two sets that differ in c at most.
LEMMA CardMove ==
  ASSUME NEW S \in SUBSET Consumers, NEW R \in SUBSET Consumers, NEW c \in Consumers,
         S \ {c} = R \ {c}
  PROVE  /\ Cardinality(S) \in Nat
         /\ Cardinality(R) \in Nat
         /\ Cardinality(R) + Bit(c \in S) = Cardinality(S) + Bit(c \in R)
<1>1. IsFiniteSet(S) /\ IsFiniteSet(R)
  BY FS_Subset
<1>2. Cardinality(S) \in Nat /\ Cardinality(R) \in Nat
  BY <1>1, FS_CardinalityType
<1>3. Cardinality(S \ {c}) = IF c \in S THEN Cardinality(S) - 1 ELSE Cardinality(S)
  BY <1>1, FS_RemoveElement
<1>4. Cardinality(R \ {c}) = IF c \in R THEN Cardinality(R) - 1 ELSE Cardinality(R)
  BY <1>1, FS_RemoveElement
<1>5. Cardinality(R) + Bit(c \in S) = Cardinality(S) + Bit(c \in R)
  BY <1>2, <1>3, <1>4 DEF Bit
<1> QED BY <1>2, <1>5

\* Only c moves.
Alone(c) == \A d \in Consumers \ {c} : cc'[d] = cc[d] /\ loc'[d] = loc[d]

LEMMA Moved ==
  ASSUME NEW c \in Consumers, Alone(c), NEW S, NEW d \in Consumers
  PROVE  /\ Cardinality(At(S)) \in Nat /\ Cardinality(At(S)') \in Nat
         /\ Cardinality(At(S)') + Bit(cc[c] \in S) = Cardinality(At(S)) + Bit(cc'[c] \in S)
         /\ Cardinality(Beside(S, d)) \in Nat /\ Cardinality(Beside(S, d)') \in Nat
         /\ d # c => Cardinality(Beside(S, d)') + Bit(cc[c] \in S)
                       = Cardinality(Beside(S, d)) + Bit(cc'[c] \in S)
         /\ d = c => Beside(S, d)' = Beside(S, d)
<1>1. /\ At(S) \in SUBSET Consumers /\ At(S)' \in SUBSET Consumers
      /\ At(S) \ {c} = At(S)' \ {c}
      /\ c \in At(S) <=> cc[c] \in S
      /\ c \in At(S)' <=> cc'[c] \in S
  BY DEF At, Alone
<1>2. /\ Beside(S, d) \in SUBSET Consumers /\ Beside(S, d)' \in SUBSET Consumers
      /\ Beside(S, d) \ {c} = Beside(S, d)' \ {c}
      /\ d # c => /\ c \in Beside(S, d) <=> cc[c] \in S
                  /\ c \in Beside(S, d)' <=> cc'[c] \in S
      /\ d = c => Beside(S, d)' = Beside(S, d)
  BY <1>1 DEF Beside
<1>3. /\ Cardinality(At(S)) \in Nat /\ Cardinality(At(S)') \in Nat
      /\ Cardinality(At(S)') + Bit(cc[c] \in S) = Cardinality(At(S)) + Bit(cc'[c] \in S)
  <2>1. Cardinality(At(S)') + Bit(c \in At(S)) = Cardinality(At(S)) + Bit(c \in At(S)')
    BY <1>1, CardMove
  <2>2. Cardinality(At(S)) \in Nat /\ Cardinality(At(S)') \in Nat
    BY <1>1, CardMove
  <2> QED BY <1>1, <2>1, <2>2 DEF Bit
<1>4. /\ Cardinality(Beside(S, d)) \in Nat /\ Cardinality(Beside(S, d)') \in Nat
      /\ Cardinality(Beside(S, d)') + Bit(c \in Beside(S, d))
           = Cardinality(Beside(S, d)) + Bit(c \in Beside(S, d)')
  BY <1>2, CardMove
<1> QED BY <1>2, <1>3, <1>4 DEF Bit

-----------------------------------------------------------------------------
(***************************************************************************)
(* The counters, step by step.                                             *)
(***************************************************************************)
Others(c) == \A d \in Consumers \ {c} : Loaded(d)' /\ Spared(d)'

\* A step of c, taken apart: the sums, Room, the other consumers and c.
LEMMA CountStep ==
  ASSUME NEW c \in Consumers, CountTypes', Agree', Room', Others(c), Loaded(c)', Spared(c)'
  PROVE  CountInv'
<1> QED BY DEF CountInv, Others

\* Nothing but the tail moves, and that only up.
LEMMA TailCount ==
  ASSUME CountInv, UNCHANGED <<headIndex, dequeueOptimisticCount, dequeueOvercommit, cc, loc, spare>>,
         tailIndex' \in Nat, tailIndex' >= tailIndex
  PROVE  CountInv'
<1>1. At({"claim"})' = At({"claim"}) /\ At({"check"})' = At({"check"}) /\ At(Counted)' = At(Counted)
  BY DEF At
<1>2. CountTypes' /\ Agree'
  BY <1>1 DEF CountInv, CountTypes, Agree
<1>3. Room'
  <2> SUFFICES ASSUME NEW D \in SUBSET At({"check"}) PROVE RoomFor(D)'
    BY <1>1 DEF Room
  <2>1. RoomFor(D) /\ Claims' = Claims
    BY <1>1 DEF CountInv, Room, Claims
  <2>2. Claims \in Nat /\ Cardinality(D) \in Nat
    <3>1. IsFiniteSet(D) /\ IsFiniteSet(At({"claim"}))
      <4>1. D \in SUBSET Consumers /\ At({"claim"}) \in SUBSET Consumers
        BY DEF At
      <4> QED BY <4>1, FS_Subset
    <3> QED BY <3>1, FS_CardinalityType DEF Claims, CountInv, CountTypes
  <2>3. tailIndex \in Nat
    BY DEF CountInv, CountTypes
  <2>4. CASE Claims + Cardinality(D) <= tailIndex
    BY <2>1, <2>2, <2>3, <2>4 DEF RoomFor
  <2>5. CASE \E d \in D : Claims + Cardinality(D) <= loc[d].my - loc[d].over + 1
    BY <2>1, <2>5 DEF RoomFor
  <2> QED BY <2>1, <2>4, <2>5 DEF RoomFor
<1>4. ASSUME NEW c \in Consumers PROVE Loaded(c)' /\ Spared(c)'
  <2>1. Beside(Attempts, c)' = Beside(Attempts, c) /\ Beside(Coming, c)' = Beside(Coming, c)
    BY DEF Beside, At
  <2>2. Spared(c)'
    BY <2>1 DEF CountInv, Spared
  <2>3. Loaded(c)'
    BY DEF CountInv, CountTypes, Loaded, Locals
  <2> QED BY <2>2, <2>3
<1> QED BY <1>2, <1>3, <1>4 DEF CountInv

\* A step of c alone that leaves the locals of c that count and moves it between steps
\* that do not.
LEMMA MemoryCount ==
  ASSUME NEW c \in Consumers, CountInv, Alone(c), UNCHANGED <<counters, spare>>,
         cc[c] \notin Attempts, cc'[c] \in CSteps \ Attempts,
         cc' = [cc EXCEPT ![c] = cc'[c]], loc' = [loc EXCEPT ![c] = loc'[c]], Locals(loc'[c])
  PROVE  CountInv'
<1>1. \A S \in {{"claim"}, {"check"}, Counted} : At(S)' = At(S)
  BY DEF At, Alone, Counted, Attempts
<1>2. CountTypes' /\ Agree'
  BY <1>1 DEF CountInv, CountTypes, Agree, counters
<1>3. Room'
  <2> SUFFICES ASSUME NEW D \in SUBSET At({"check"}) PROVE RoomFor(D)'
    BY <1>1 DEF Room
  <2>1. RoomFor(D) /\ Claims' = Claims /\ tailIndex' = tailIndex
    BY <1>1 DEF CountInv, Room, Claims, counters
  <2>2. \A d \in D : loc'[d] = loc[d]
    BY DEF At, Alone, Attempts
  <2> QED BY <2>1, <2>2 DEF RoomFor
<1>4. ASSUME NEW d \in Consumers PROVE Loaded(d)' /\ Spared(d)'
  <2>1. Beside(Attempts, d)' = Beside(Attempts, d) /\ Beside(Coming, d)' = Beside(Coming, d)
    BY DEF Beside, At, Alone, Coming, Attempts
  <2>2. CASE d # c
    BY <2>1, <2>2 DEF CountInv, Spared, Loaded, counters, Alone
  <2>3. CASE d = c
    BY <2>3 DEF Spared, Loaded, Coming, Attempts
  <2> QED BY <2>2, <2>3
<1> QED BY <1>2, <1>3, <1>4 DEF CountInv

\* Room, when nobody is counted in, and what is claimed or taken is the same.
LEMMA RoomKept ==
  ASSUME NEW c \in Consumers, CountInv, Alone(c), cc'[c] # "check", Claims' = Claims,
         tailIndex' = tailIndex
  PROVE  Room'
<1> SUFFICES ASSUME NEW D \in SUBSET At({"check"})' PROVE RoomFor(D)'
  BY DEF Room
<1>1. D \in SUBSET At({"check"}) /\ \A d \in D : loc'[d] = loc[d]
  BY DEF At, Alone
<1>2. RoomFor(D)
  BY <1>1 DEF CountInv, Room
<1> QED BY <1>1, <1>2 DEF RoomFor

\* The sums after a step of c.
LEMMA Sums ==
  ASSUME NEW c \in Consumers, CountInv, Alone(c)
  PROVE  /\ \A S : /\ Cardinality(At(S)) \in Nat /\ Cardinality(At(S)') \in Nat
                   /\ Cardinality(At(S)') + Bit(cc[c] \in S)
                        = Cardinality(At(S)) + Bit(cc'[c] \in S)
         /\ \A d \in Consumers \ {c} :
              /\ Cardinality(Beside(Attempts, d)) \in Nat /\ Cardinality(Beside(Attempts, d)') \in Nat
              /\ Cardinality(Beside(Coming, d)) \in Nat /\ Cardinality(Beside(Coming, d)') \in Nat
              /\ Cardinality(Beside(Attempts, d)') + Bit(cc[c] \in Attempts)
                   = Cardinality(Beside(Attempts, d)) + Bit(cc'[c] \in Attempts)
              /\ Cardinality(Beside(Coming, d)') + Bit(cc[c] \in Coming)
                   = Cardinality(Beside(Coming, d)) + Bit(cc'[c] \in Coming)
<1> QED BY Moved

\* The Trying of the module counts the set Attempts.
LEMMA TryingIsAt == {e \in Consumers : Trying(e)} = At(Attempts)
BY DEF At, Trying, Attempts

LEMMA LoadTailCount ==
  ASSUME NEW c \in Consumers, CountInv, LoadTail(c)
  PROVE  CountInv'
<1>1. Alone(c) /\ cc[c] = "idle" /\ cc'[c] = "over"
  BY DEF LoadTail, Goto, Local, Alone, CountInv, CountTypes
<1>2. UNCHANGED <<tailIndex, headIndex, dequeueOptimisticCount, dequeueOvercommit>>
  BY DEF LoadTail, counters
<1>3. loc'[c].tail = tailIndex
  BY DEF LoadTail, Local, NoLocals, CountInv, CountTypes
<1>4. \A S : Cardinality(At(S)) \in Nat
  BY <1>1, Sums
<1>5. /\ spare' = [d \in Consumers |-> spare'[d]]
      /\ spare'[c] = Less(tailIndex - headIndex, Cardinality(At(Attempts)))
      /\ \A d \in Consumers \ {c} : spare'[d] = IF Trying(d) THEN Less(spare[d], 1) ELSE 0
  BY TryingIsAt DEF LoadTail, Starts
<1>6. CountTypes'
  <2>1. \A d \in Consumers : spare'[d] \in Nat
    BY <1>4, <1>5 DEF Less, CountInv, CountTypes
  <2>2. cc' \in [Consumers -> CSteps] /\ loc' = [d \in Consumers |-> loc'[d]]
    BY DEF LoadTail, Goto, Local, CountInv, CountTypes, CSteps
  <2>3. \A d \in Consumers : Locals(loc'[d])
    BY <1>1 DEF LoadTail, Local, NoLocals, CountInv, CountTypes, Locals, Alone
  <2> QED BY <1>2, <1>5, <2>1, <2>2, <2>3 DEF CountInv, CountTypes
<1>7. Agree'
  BY <1>1, <1>2, Sums DEF CountInv, Agree, Counted, Bit
<1>8. Claims' = Claims
  BY <1>1, <1>2, Sums DEF Claims, Bit
<1>9. Room'
  BY <1>1, <1>2, <1>8, RoomKept
<1>10. ASSUME NEW d \in Consumers \ {c} PROVE Loaded(d)' /\ Spared(d)'
  <2>1. Loaded(d)'
    BY <1>1, <1>2 DEF CountInv, Loaded, Alone
  <2>2. spare[d] \in Nat
    BY DEF CountInv, CountTypes
  <2>3. spare'[d] > 0 => spare'[d] = spare[d] - 1 /\ spare[d] > 0
    BY <1>5, <2>2 DEF Less
  <2>4. cc[d] = "excess" => spare'[d] = 0
    BY <1>5, <2>2 DEF Less, CountInv, Spared
  <2>5. /\ Cardinality(Beside(Attempts, d)') = Cardinality(Beside(Attempts, d)) + 1
        /\ Cardinality(Beside(Coming, d)') = Cardinality(Beside(Coming, d)) + 1
        /\ Cardinality(Beside(Attempts, d)) \in Nat /\ Cardinality(Beside(Coming, d)) \in Nat
    BY <1>1, Sums DEF Attempts, Coming, Bit
  <2>6. Locals(loc[d]) /\ CountTypes
    BY DEF CountInv, CountTypes
  <2>7. cc'[d] = cc[d] /\ loc'[d] = loc[d] /\ Spared(d)
    BY <1>1 DEF Alone, CountInv
  <2> QED BY <1>2, <2>1, <2>2, <2>3, <2>4, <2>5, <2>6, <2>7 DEF Spared, Locals, CountTypes
<1>11. Loaded(c)'
  BY <1>1, <1>2, <1>3 DEF Loaded, CountInv, CountTypes
<1>12. Spared(c)'
  <2>1. Beside(Attempts, c)' = At(Attempts)
    BY <1>1 DEF Beside, At, Alone, Attempts
  <2> QED BY <1>1, <1>2, <1>3, <1>4, <1>5, <2>1 DEF Spared, Less, CountInv, CountTypes
<1> QED BY <1>6, <1>7, <1>9, <1>10, <1>11, <1>12, CountStep DEF Others

\* A step of c between two steps of dequeue that does not change the shared counters:
\* the others.
LEMMA OthersStill ==
  ASSUME NEW c \in Consumers, CountInv, Alone(c),
         UNCHANGED <<tailIndex, headIndex, dequeueOptimisticCount>>, dequeueOvercommit' \in Nat,
         dequeueOvercommit' >= dequeueOvercommit,
         \A d \in Consumers \ {c} : spare'[d] = spare[d],
         cc'[c] \in Attempts => cc[c] \in Attempts,
         cc'[c] \in Coming => cc[c] \in Coming
  PROVE  Others(c)
<1> SUFFICES ASSUME NEW d \in Consumers \ {c} PROVE Loaded(d)' /\ Spared(d)'
  BY DEF Others
<1>1. cc'[d] = cc[d] /\ loc'[d] = loc[d] /\ spare'[d] = spare[d] /\ Loaded(d) /\ Spared(d)
  BY DEF Alone, CountInv
<1>2. Loaded(d)'
  BY <1>1 DEF Loaded, CountInv, CountTypes, Locals
<1>3. /\ Cardinality(Beside(Attempts, d)') <= Cardinality(Beside(Attempts, d))
      /\ Cardinality(Beside(Coming, d)') <= Cardinality(Beside(Coming, d))
      /\ Cardinality(Beside(Attempts, d)) \in Nat /\ Cardinality(Beside(Coming, d)) \in Nat
      /\ Cardinality(Beside(Attempts, d)') \in Nat /\ Cardinality(Beside(Coming, d)') \in Nat
  BY Sums DEF Bit
<1>4. /\ spare[d] \in Nat /\ loc[d].tail \in Nat /\ loc[d].over \in Nat /\ headIndex \in Nat
      /\ dequeueOptimisticCount \in Nat
  BY DEF CountInv, CountTypes, Locals
<1> QED BY <1>1, <1>2, <1>3, <1>4 DEF Spared

LEMMA LoadOvercommitCount ==
  ASSUME NEW c \in Consumers, CountInv, LoadOvercommit(c)
  PROVE  CountInv'
<1>1. Alone(c) /\ cc[c] = "over" /\ cc'[c] = "look"
  BY DEF LoadOvercommit, Goto, Local, Alone, CountInv, CountTypes
<1>2. UNCHANGED <<tailIndex, headIndex, dequeueOptimisticCount, dequeueOvercommit, spare>>
  BY DEF LoadOvercommit, counters
<1>3. loc'[c].tail = loc[c].tail /\ loc'[c].over = dequeueOvercommit
  BY DEF LoadOvercommit, Local, CountInv, CountTypes, Locals
<1>4. CountTypes'
  <2>1. \A d \in Consumers : Locals(loc'[d])
    BY <1>1 DEF LoadOvercommit, Local, CountInv, CountTypes, Locals, Alone
  <2> QED BY <1>2, <2>1 DEF CountInv, CountTypes, LoadOvercommit, Goto, Local, CSteps
<1>5. Agree'
  BY <1>1, <1>2, Sums DEF CountInv, Agree, Counted, Bit
<1>6. Claims' = Claims
  BY <1>1, <1>2, Sums DEF Claims, Bit
<1>7. Room'
  BY <1>1, <1>2, <1>6, RoomKept
<1>8. Others(c)
  BY <1>1, <1>2, OthersStill DEF Attempts, Coming, CountInv, CountTypes
<1>9. Loaded(c)'
  BY <1>1, <1>2, <1>3 DEF Loaded, CountInv, CountTypes, Coming
<1>10. Spared(c)'
  <2>1. Beside(Coming, c)' = Beside(Coming, c)
    BY <1>1 DEF Beside, At, Alone
  <2>2. Cardinality(Beside(Attempts, c)) = Cardinality(Beside(Coming, c)) + Cardinality(At(Counted))
    <3>1. /\ Beside(Attempts, c) = Beside(Coming, c) \cup At(Counted)
          /\ Beside(Coming, c) \cap At(Counted) = {}
      BY <1>1 DEF Beside, At, Attempts, Coming, Counted
    <3>2. IsFiniteSet(Beside(Coming, c)) /\ IsFiniteSet(At(Counted))
      <4>1. Beside(Coming, c) \in SUBSET Consumers /\ At(Counted) \in SUBSET Consumers
        BY DEF Beside, At
      <4> QED BY <4>1, FS_Subset
    <3>3. Cardinality(Beside(Attempts, c)) =
            Cardinality(Beside(Coming, c)) + Cardinality(At(Counted)) - Cardinality({})
      BY <3>1, <3>2, FS_Union
    <3> QED BY <3>2, <3>3, FS_EmptySet, FS_CardinalityType
  <2>3. /\ Cardinality(Beside(Coming, c)) \in Nat /\ Cardinality(At(Counted)) \in Nat
    BY <1>1, Moved
  <2>4. Spared(c) /\ Agree
    BY DEF CountInv
  <2>5. /\ spare[c] \in Nat /\ loc[c].tail \in Nat /\ headIndex \in Nat
        /\ dequeueOptimisticCount \in Nat /\ dequeueOvercommit \in Nat
    BY DEF CountInv, CountTypes, Locals
  <2> QED BY <1>1, <1>2, <1>3, <2>1, <2>2, <2>3, <2>4, <2>5 DEF Spared, Agree
<1> QED BY <1>4, <1>5, <1>7, <1>8, <1>9, <1>10, CountStep

\* Where a step leaves the locals and goes back.
LEMMA LeavesTypes ==
  ASSUME NEW c \in Consumers, CountInv, Leaves(c)
  PROVE  /\ Alone(c) /\ cc'[c] = "idle"
         /\ cc' \in [Consumers -> CSteps]
         /\ loc' = [d \in Consumers |-> loc'[d]]
         /\ \A d \in Consumers : Locals(loc'[d])
<1>1. Alone(c) /\ cc'[c] = "idle" /\ cc' \in [Consumers -> CSteps]
  BY DEF Leaves, Goto, Local, Alone, CountInv, CountTypes, CSteps
<1>2. loc' = [d \in Consumers |-> loc'[d]] /\ loc'[c] = NoLocals
  BY DEF Leaves, Local, CountInv, CountTypes
<1>3. Locals(NoLocals)
  BY DEF Locals, NoLocals
<1> QED BY <1>1, <1>2, <1>3 DEF Alone, CountInv, CountTypes

\* An attempt ends without an element: c was looking, or counts itself out.
LEMMA LeavesCount ==
  ASSUME NEW c \in Consumers, CountInv, Leaves(c), Ends(c), cc[c] \in {"look", "excess"},
         UNCHANGED <<tailIndex, headIndex, dequeueOptimisticCount>>,
         dequeueOvercommit' = dequeueOvercommit + Bit(cc[c] = "excess")
  PROVE  CountInv'
<1>1. /\ Alone(c) /\ cc'[c] = "idle"
      /\ cc' \in [Consumers -> CSteps]
      /\ loc' = [d \in Consumers |-> loc'[d]]
      /\ \A d \in Consumers : Locals(loc'[d])
  BY LeavesTypes
<1>2. spare' \in [Consumers -> Nat] /\ \A d \in Consumers \ {c} : spare'[d] = spare[d]
  BY DEF Ends, CountInv, CountTypes
<1>3. dequeueOvercommit \in Nat /\ dequeueOvercommit' \in Nat /\ dequeueOvercommit' >= dequeueOvercommit
  BY DEF Bit, CountInv, CountTypes
<1>4. CountTypes'
  BY <1>1, <1>2, <1>3 DEF CountTypes, CountInv
<1>5. Agree'
  <2>1. /\ Cardinality(At(Counted)) \in Nat /\ Cardinality(At(Counted)') \in Nat
        /\ Cardinality(At(Counted)') + Bit(cc[c] \in Counted)
             = Cardinality(At(Counted)) + Bit(cc'[c] \in Counted)
    BY <1>1, Sums
  <2>2. Bit(cc[c] \in Counted) = Bit(cc[c] = "excess") /\ Bit(cc'[c] \in Counted) = 0
    BY <1>1 DEF Bit, Counted
  <2>3. Bit(cc[c] = "excess") \in Nat /\ headIndex \in Nat /\ dequeueOptimisticCount \in Nat
    BY DEF Bit, CountInv, CountTypes
  <2> QED BY <1>3, <2>1, <2>2, <2>3 DEF CountInv, Agree
<1>6. Claims' = Claims
  BY <1>1, Sums DEF Claims, Bit
<1>7. Room'
  BY <1>1, <1>6, RoomKept
<1>8. Others(c)
  BY <1>1, <1>2, <1>3, OthersStill DEF Attempts, Coming
<1>9. Loaded(c)' /\ Spared(c)'
  BY <1>1 DEF Loaded, Spared, Coming
<1> QED BY <1>4, <1>5, <1>7, <1>8, <1>9, CountStep

\* An attempt that looked too late found as many others as elements.
LEMMA LooksInVain ==
  ASSUME NEW c \in Consumers, CountInv, cc[c] = "look",
         ~(dequeueOptimisticCount - loc[c].over < loc[c].tail)
  PROVE  spare[c] = 0
<1>1. /\ spare[c] \in Nat /\ loc[c].tail \in Nat /\ loc[c].over \in Nat
      /\ dequeueOptimisticCount \in Nat
  BY DEF CountInv, CountTypes, Locals
<1>2. Cardinality(Beside(Coming, c)) \in Nat
  <2>1. Beside(Coming, c) \in SUBSET Consumers
    BY DEF Beside, At
  <2> QED BY <2>1, FS_Subset, FS_CardinalityType
<1> QED BY <1>1, <1>2 DEF CountInv, Spared

LEMMA LooksNonEmptyCount ==
  ASSUME NEW c \in Consumers, CountInv, LooksNonEmpty(c)
  PROVE  CountInv'
<1>1. cc[c] = "look" /\ UNCHANGED <<tailIndex, headIndex, dequeueOptimisticCount, dequeueOvercommit>>
  BY DEF LooksNonEmpty, counters
<1>2. CASE dequeueOptimisticCount - loc[c].over < loc[c].tail
  <2>1. /\ Alone(c) /\ cc'[c] = "count" /\ loc' = loc /\ spare' = spare
        /\ cc' \in [Consumers -> CSteps]
    BY <1>1, <1>2 DEF LooksNonEmpty, Goto, Alone, CountInv, CountTypes, CSteps
  <2>2. CountTypes'
    BY <1>1, <2>1 DEF CountInv, CountTypes
  <2>3. Agree'
    BY <1>1, <2>1, Sums DEF CountInv, Agree, Counted, Bit
  <2>4. Claims' = Claims
    BY <1>1, <2>1, Sums DEF Claims, Bit
  <2>5. Room'
    BY <1>1, <2>1, <2>4, RoomKept
  <2>6. Others(c)
    BY <1>1, <2>1, OthersStill DEF Attempts, Coming, CountInv, CountTypes
  <2>7. Beside(Coming, c)' = Beside(Coming, c)
    BY <2>1, Moved
  <2>8. Loaded(c) /\ Spared(c)
    BY DEF CountInv
  <2>9. Loaded(c)' /\ Spared(c)'
    BY <1>1, <2>1, <2>7, <2>8 DEF Loaded, Spared, Coming
  <2> QED BY <2>2, <2>3, <2>5, <2>6, <2>9, CountStep
<1>3. CASE ~(dequeueOptimisticCount - loc[c].over < loc[c].tail)
  <2>1. Leaves(c) /\ Ends(c)
    BY <1>3 DEF LooksNonEmpty
  <2>2. dequeueOvercommit' = dequeueOvercommit + Bit(cc[c] = "excess")
    BY <1>1 DEF Bit, CountInv, CountTypes
  <2> QED BY <1>1, <2>1, <2>2, LeavesCount
<1> QED BY <1>2, <1>3

LEMMA CountOutCount ==
  ASSUME NEW c \in Consumers, CountInv, CountOut(c)
  PROVE  CountInv'
<1>1. dequeueOvercommit' = dequeueOvercommit + Bit(cc[c] = "excess")
  BY DEF CountOut, Bit
<1> QED BY <1>1, LeavesCount DEF CountOut

LEMMA CountInCount ==
  ASSUME NEW c \in Consumers, CountInv, CountIn(c)
  PROVE  CountInv'
<1>1. /\ Alone(c) /\ cc[c] = "count" /\ cc'[c] = "check"
      /\ cc' \in [Consumers -> CSteps]
  BY DEF CountIn, Goto, Local, Alone, CountInv, CountTypes, CSteps
<1>2. /\ UNCHANGED <<tailIndex, headIndex, dequeueOvercommit, spare>>
      /\ dequeueOptimisticCount' = dequeueOptimisticCount + 1
  BY DEF CountIn
<1>3. /\ loc'[c].tail = loc[c].tail /\ loc'[c].over = loc[c].over
      /\ loc'[c].my = dequeueOptimisticCount
      /\ loc' = [d \in Consumers |-> loc'[d]]
  <2>1. loc' = [d \in Consumers |-> loc'[d]] /\ loc'[c] = [loc[c] EXCEPT !.my = dequeueOptimisticCount]
    BY DEF CountIn, Local, CountInv, CountTypes
  <2>2. Locals(loc[c])
    BY DEF CountInv, CountTypes
  <2> HIDE DEF Locals
  <2> QED BY <2>1, <2>2 DEF Locals
<1>4. /\ dequeueOptimisticCount \in Nat /\ dequeueOvercommit \in Nat /\ headIndex \in Nat
      /\ tailIndex \in Nat
      /\ \A d \in Consumers : /\ spare[d] \in Nat /\ loc[d].tail \in Nat /\ loc[d].over \in Nat
                              /\ loc[d].my \in Nat
  BY DEF CountInv, CountTypes, Locals
<1>5. CountTypes'
  <2>1. \A d \in Consumers : Locals(loc'[d])
    BY <1>1 DEF CountIn, Local, CountInv, CountTypes, Locals, Alone
  <2> QED BY <1>1, <1>2, <1>3, <1>4, <2>1 DEF CountInv, CountTypes
<1>6. /\ Cardinality(At(Counted)) \in Nat /\ Cardinality(At(Counted)') = Cardinality(At(Counted)) + 1
  BY <1>1, Sums DEF Counted, Bit
<1>7. Agree'
  BY <1>2, <1>4, <1>6 DEF CountInv, Agree
<1>8. Claims' = Claims /\ Claims \in Nat
  BY <1>1, <1>2, <1>4, Sums DEF Claims, Bit
<1>9. Room'
  <2> SUFFICES ASSUME NEW D \in SUBSET At({"check"})' PROVE RoomFor(D)'
    BY DEF Room
  <2>1. CASE c \notin D
    <3>1. D \in SUBSET At({"check"}) /\ \A d \in D : loc'[d] = loc[d]
      BY <1>1, <2>1 DEF At, Alone
    <3>2. RoomFor(D)
      BY <3>1 DEF CountInv, Room
    <3> QED BY <1>2, <1>8, <3>1, <3>2 DEF RoomFor
  <2>2. CASE c \in D
    <3>1. D \ {c} \in SUBSET At({"check"}) /\ D \in SUBSET Consumers
      BY <1>1 DEF At, Alone
    <3>2. /\ IsFiniteSet(At({"check"})) /\ IsFiniteSet(At({"claim"})) /\ IsFiniteSet(At(Counted))
          /\ IsFiniteSet(D)
      <4>1. /\ At({"check"}) \in SUBSET Consumers /\ At({"claim"}) \in SUBSET Consumers
            /\ At(Counted) \in SUBSET Consumers
        BY DEF At
      <4> QED BY <3>1, <4>1, FS_Subset
    <3>3. Cardinality(D) \in Nat /\ Cardinality(D \ {c}) = Cardinality(D) - 1
      BY <2>2, <3>2, FS_RemoveElement, FS_CardinalityType
    <3>4. (D \ {c}) \cup At({"claim"}) \in SUBSET At(Counted) /\ (D \ {c}) \cap At({"claim"}) = {}
      BY <3>1 DEF At, Counted
    <3>5. /\ IsFiniteSet(D \ {c}) /\ Cardinality(At({"claim"})) \in Nat
          /\ Cardinality((D \ {c}) \cup At({"claim"})) <= Cardinality(At(Counted))
      BY <3>2, <3>4, FS_Subset, FS_RemoveElement, FS_CardinalityType
    <3>6. Cardinality((D \ {c}) \cup At({"claim"}))
            = Cardinality(D \ {c}) + Cardinality(At({"claim"})) - Cardinality((D \ {c}) \cap At({"claim"}))
      BY <3>2, <3>5, FS_Union
    <3>7. Cardinality(D) - 1 + Cardinality(At({"claim"})) <= Cardinality(At(Counted))
      <4>1. Cardinality((D \ {c}) \cap At({"claim"})) = 0
        BY <3>4, FS_EmptySet
      <4> QED BY <1>6, <3>3, <3>5, <3>6, <4>1
    <3>8. loc[c].over <= dequeueOvercommit /\ Agree
      BY <1>1 DEF CountInv, Loaded
    <3>9. Claims + Cardinality(D) <= loc'[c].my - loc'[c].over + 1
      BY <1>3, <1>4, <1>6, <3>3, <3>5, <3>7, <3>8 DEF Agree, Claims
    <3> QED BY <1>8, <2>2, <3>9 DEF RoomFor
  <2> QED BY <2>1, <2>2
<1>10. Others(c)
  <2> SUFFICES ASSUME NEW d \in Consumers \ {c} PROVE Loaded(d)' /\ Spared(d)'
    BY DEF Others
  <2>1. cc'[d] = cc[d] /\ loc'[d] = loc[d] /\ spare'[d] = spare[d] /\ Loaded(d) /\ Spared(d)
    BY <1>1, <1>2 DEF Alone, CountInv
  <2>2. /\ Cardinality(Beside(Attempts, d)') = Cardinality(Beside(Attempts, d))
        /\ Cardinality(Beside(Coming, d)') = Cardinality(Beside(Coming, d)) - 1
        /\ Cardinality(Beside(Attempts, d)) \in Nat /\ Cardinality(Beside(Coming, d)) \in Nat
    BY <1>1, Sums DEF Attempts, Coming, Bit
  <2> QED BY <1>2, <1>4, <2>1, <2>2 DEF Loaded, Spared
<1>11. Loaded(c)'
  <2>1. Loaded(c) /\ Agree
    BY DEF CountInv
  <2> QED BY <1>1, <1>2, <1>3, <1>4, <1>6, <2>1 DEF Loaded, Coming, Agree
<1>12. Spared(c)'
  <2>1. Spared(c) /\ Cardinality(Beside(Coming, c)) \in Nat
    BY <1>1, Moved DEF CountInv
  <2> QED BY <1>1, <1>2, <1>3, <1>4, <2>1 DEF Spared
<1> QED BY <1>5, <1>7, <1>9, <1>10, <1>11, <1>12, CountStep

LEMMA CheckAgainCount ==
  ASSUME NEW c \in Consumers, CountInv, CheckAgain(c)
  PROVE  CountInv'
<1>1. /\ Alone(c) /\ cc[c] = "check"
      /\ cc'[c] = IF loc[c].my - loc[c].over < tailIndex THEN "claim" ELSE "excess"
      /\ cc' \in [Consumers -> CSteps]
  BY DEF CheckAgain, Goto, Local, Alone, CountInv, CountTypes, CSteps
<1>2. UNCHANGED <<tailIndex, headIndex, dequeueOptimisticCount, dequeueOvercommit, spare>>
  BY DEF CheckAgain, counters
<1>3. loc' = [d \in Consumers |-> loc'[d]] /\ Locals(loc'[c])
  <2>1. /\ loc' = [d \in Consumers |-> loc'[d]]
        /\ loc'[c] = [loc[c] EXCEPT !.over = 0, !.my = 0]
    BY DEF CheckAgain, Local, CountInv, CountTypes
  <2>2. Locals(loc[c])
    BY DEF CountInv, CountTypes
  <2>3. Locals([loc[c] EXCEPT !.over = 0, !.my = 0])
    <3>1. [loc[c] EXCEPT !.over = 0, !.my = 0] = [[loc[c] EXCEPT !.over = 0] EXCEPT !.my = 0]
      BY <2>2 DEF Locals
    <3>2. \A l : Locals(l) => Locals([l EXCEPT !.over = 0]) /\ Locals([l EXCEPT !.my = 0])
      BY DEF Locals
    <3> QED BY <2>2, <3>1, <3>2
  <2> QED BY <2>1, <2>3
<1>4. /\ dequeueOptimisticCount \in Nat /\ dequeueOvercommit \in Nat /\ headIndex \in Nat
      /\ tailIndex \in Nat
      /\ \A d \in Consumers : /\ spare[d] \in Nat /\ loc[d].tail \in Nat /\ loc[d].over \in Nat
                              /\ loc[d].my \in Nat
  BY DEF CountInv, CountTypes, Locals
<1>5. CountTypes'
  BY <1>1, <1>2, <1>3 DEF CountInv, CountTypes, Alone
<1>6. Agree'
  BY <1>1, <1>2, Sums DEF CountInv, Agree, Counted, Bit
<1>7. Others(c)
  BY <1>1, <1>2, <1>4, OthersStill DEF Attempts, Coming
<1>8. Loaded(c)' /\ Spared(c)'
  <2>1. CASE loc[c].my - loc[c].over < tailIndex
    BY <1>1, <2>1 DEF Loaded, Spared, Coming
  <2>2. CASE ~(loc[c].my - loc[c].over < tailIndex)
    <3>1. Loaded(c) /\ Spared(c)
      BY DEF CountInv
    <3>2. spare[c] = 0
      BY <1>1, <1>4, <2>2, <3>1 DEF Loaded, Spared, Coming
    <3> QED BY <1>1, <1>2, <2>2, <3>2 DEF Loaded, Spared, Coming
  <2> QED BY <2>1, <2>2
<1>9. Room'
  <2>1. CASE loc[c].my - loc[c].over < tailIndex
    <3> SUFFICES ASSUME NEW D \in SUBSET At({"check"})' PROVE RoomFor(D)'
      BY DEF Room
    <3>1. c \notin D /\ D \cup {c} \in SUBSET At({"check"}) /\ \A d \in D : loc'[d] = loc[d]
      BY <1>1, <2>1 DEF At, Alone
    <3>2. RoomFor(D \cup {c})
      BY <3>1 DEF CountInv, Room
    <3>3. Cardinality(D \cup {c}) = Cardinality(D) + 1 /\ Cardinality(D) \in Nat
      <4>1. D \in SUBSET Consumers
        BY <3>1 DEF At
      <4>2. IsFiniteSet(D)
        BY <4>1, FS_Subset
      <4> QED BY <3>1, <4>2, FS_AddElement, FS_CardinalityType
    <3>4. Claims' = Claims + 1 /\ Claims \in Nat
      BY <1>1, <1>2, <1>4, <2>1, Sums DEF Claims, Bit
    <3>5. CASE Claims + Cardinality(D \cup {c}) <= tailIndex
      BY <1>2, <3>3, <3>4, <3>5 DEF RoomFor
    <3>6. ASSUME NEW d \in D \cup {c},
                 Claims + Cardinality(D \cup {c}) <= loc[d].my - loc[d].over + 1
          PROVE  RoomFor(D)'
      <4>1. CASE d = c
        BY <1>2, <1>4, <2>1, <3>3, <3>4, <3>6, <4>1 DEF RoomFor
      <4>2. CASE d # c
        BY <3>1, <3>3, <3>4, <3>6, <4>2 DEF RoomFor
      <4> QED BY <4>1, <4>2
    <3> QED BY <3>2, <3>5, <3>6 DEF RoomFor
  <2>2. CASE ~(loc[c].my - loc[c].over < tailIndex)
    <3>1. Claims' = Claims
      BY <1>1, <1>2, <2>2, Sums DEF Claims, Bit
    <3> QED BY <1>1, <1>2, <2>2, <3>1, RoomKept
  <2> QED BY <2>1, <2>2
<1> QED BY <1>5, <1>6, <1>7, <1>8, <1>9, CountStep

LEMMA ClaimCount ==
  ASSUME NEW c \in Consumers, CountInv, Claim(c)
  PROVE  CountInv'
<1>1. /\ Alone(c) /\ cc[c] = "claim" /\ cc'[c] = "header"
      /\ cc' \in [Consumers -> CSteps]
  BY DEF Claim, Goto, Local, Alone, CountInv, CountTypes, CSteps
<1>2. /\ UNCHANGED <<tailIndex, dequeueOptimisticCount, dequeueOvercommit>>
      /\ headIndex' = headIndex + 1
      /\ spare' \in [Consumers -> Nat] /\ \A d \in Consumers \ {c} : spare'[d] = spare[d]
  BY DEF Claim, Ends, CountInv, CountTypes
<1>3. loc' = [d \in Consumers |-> loc'[d]] /\ Locals(loc'[c])
  BY DEF Claim, Local, CountInv, CountTypes, Locals, NoLocals
<1>4. /\ dequeueOptimisticCount \in Nat /\ dequeueOvercommit \in Nat /\ headIndex \in Nat
      /\ tailIndex \in Nat
      /\ \A d \in Consumers : /\ spare[d] \in Nat /\ loc[d].tail \in Nat /\ loc[d].over \in Nat
                              /\ loc[d].my \in Nat
  BY DEF CountInv, CountTypes, Locals
<1>5. CountTypes'
  BY <1>1, <1>2, <1>3, <1>4 DEF CountInv, CountTypes, Alone
<1>6. Agree'
  <2>1. /\ Cardinality(At(Counted)) \in Nat /\ Cardinality(At(Counted)') = Cardinality(At(Counted)) - 1
    BY <1>1, Sums DEF Counted, Bit
  <2> QED BY <1>2, <1>4, <2>1 DEF CountInv, Agree
<1>7. Claims' = Claims
  BY <1>1, <1>2, <1>4, Sums DEF Claims, Bit
<1>8. Room'
  BY <1>1, <1>2, <1>7, RoomKept
<1>9. Others(c)
  <2> SUFFICES ASSUME NEW d \in Consumers \ {c} PROVE Loaded(d)' /\ Spared(d)'
    BY DEF Others
  <2>1. cc'[d] = cc[d] /\ loc'[d] = loc[d] /\ spare'[d] = spare[d] /\ Loaded(d) /\ Spared(d)
    BY <1>1, <1>2 DEF Alone, CountInv
  <2>2. /\ Cardinality(Beside(Attempts, d)') = Cardinality(Beside(Attempts, d)) - 1
        /\ Cardinality(Beside(Coming, d)') = Cardinality(Beside(Coming, d))
        /\ Cardinality(Beside(Attempts, d)) \in Nat /\ Cardinality(Beside(Coming, d)) \in Nat
    BY <1>1, Sums DEF Attempts, Coming, Bit
  <2> QED BY <1>2, <1>4, <2>1, <2>2 DEF Loaded, Spared
<1>10. Loaded(c)' /\ Spared(c)'
  BY <1>1 DEF Loaded, Spared, Coming
<1> QED BY <1>5, <1>6, <1>8, <1>9, <1>10, CountStep

LEMMA LocalsChanged ==
  ASSUME NEW l, Locals(l), NEW x, NEW y
  PROVE  /\ Locals([l EXCEPT !.header = x, !.itail = y])
         /\ Locals([l EXCEPT !.block = x, !.got = y])
<1>1. /\ [l EXCEPT !.header = x, !.itail = y] = [[l EXCEPT !.header = x] EXCEPT !.itail = y]
      /\ [l EXCEPT !.block = x, !.got = y] = [[l EXCEPT !.block = x] EXCEPT !.got = y]
  BY DEF Locals
<1>2. \A m : Locals(m) =>
        /\ Locals([m EXCEPT !.header = x]) /\ Locals([m EXCEPT !.itail = y])
        /\ Locals([m EXCEPT !.block = x]) /\ Locals([m EXCEPT !.got = y])
  BY DEF Locals
<1> QED BY <1>1, <1>2

\* What a consumer does once it has claimed an index.
Moves(c) == LoadHeader(c) \/ LoadKey(c) \/ MoveOut(c) \/ SetEmpty(c) \/ ClearEntry(c) \/ FreeBlock(c)

LEMMA MovesCount ==
  ASSUME NEW c \in Consumers, CountInv, Moves(c)
  PROVE  CountInv'
<1>1. UNCHANGED <<counters, spare>>
  BY DEF Moves, LoadHeader, LoadKey, MoveOut, SetEmpty, ClearEntry, FreeBlock
<1>2. /\ cc[c] \notin Attempts
      /\ cc' = [cc EXCEPT ![c] = cc'[c]] /\ cc'[c] \in CSteps \ Attempts
  <2>1. PICK s \in CSteps \ Attempts : cc' = [cc EXCEPT ![c] = s]
    BY DEF Moves, LoadHeader, LoadKey, MoveOut, SetEmpty, ClearEntry, FreeBlock, Leaves, Goto,
           CSteps, Attempts
  <2>2. cc[c] \notin Attempts
    BY DEF Moves, LoadHeader, LoadKey, MoveOut, SetEmpty, ClearEntry, FreeBlock, Attempts
  <2> QED BY <2>1, <2>2 DEF CountInv, CountTypes
<1>3. \E l : Locals(l) /\ loc' = [loc EXCEPT ![c] = l]
  <2>1. Locals(loc[c]) /\ Locals(NoLocals)
    BY DEF CountInv, CountTypes, Locals, NoLocals
  <2>2. CASE LoadHeader(c)
    BY <2>1, <2>2, LocalsChanged DEF LoadHeader, Local
  <2>3. CASE LoadKey(c)
    <3>1. \A x, y : x \in Nat => Locals([NoLocals EXCEPT !.index = x, !.entry = y])
      <4>1. \A x, y : [NoLocals EXCEPT !.index = x, !.entry = y]
                        = [[NoLocals EXCEPT !.index = x] EXCEPT !.entry = y]
        BY DEF NoLocals
      <4>2. \A l, x : Locals(l) => /\ x \in Nat => Locals([l EXCEPT !.index = x])
                                   /\ Locals([l EXCEPT !.entry = x])
        BY DEF Locals
      <4> QED BY <2>1, <4>1, <4>2
    <3>2. loc[c].index \in Nat
      BY <2>1 DEF Locals
    <3> QED BY <2>3, <3>1, <3>2 DEF LoadKey, Local
  <2>4. CASE MoveOut(c)
    BY <2>1, <2>4, LocalsChanged DEF MoveOut, Local
  <2>5. CASE SetEmpty(c)
    <3>1. loc' = loc \/ Local(c, NoLocals)
      BY <2>5 DEF SetEmpty, Leaves
    <3>2. loc = [loc EXCEPT ![c] = loc[c]]
      BY DEF CountInv, CountTypes
    <3> QED BY <2>1, <3>1, <3>2 DEF Local
  <2>6. CASE ClearEntry(c)
    <3>1. loc = [loc EXCEPT ![c] = loc[c]] /\ loc' = loc
      BY <2>6 DEF CountInv, CountTypes, ClearEntry
    <3> QED BY <2>1, <3>1
  <2>7. CASE FreeBlock(c)
    BY <2>1, <2>7 DEF FreeBlock, Leaves, Local
  <2> QED BY <2>2, <2>3, <2>4, <2>5, <2>6, <2>7 DEF Moves
<1>4. /\ loc' = [loc EXCEPT ![c] = loc'[c]] /\ Locals(loc'[c])
      /\ Alone(c)
  BY <1>2, <1>3 DEF CountInv, CountTypes, Alone
<1> QED BY <1>1, <1>2, <1>4, MemoryCount

LEMMA InitCount == Init => CountInv
<1> SUFFICES ASSUME Init PROVE CountInv
  OBVIOUS
<1>1. \A S : "idle" \notin S => At(S) = {} /\ Cardinality(At(S)) = 0
  BY FS_EmptySet DEF Init, At
<1>2. CountTypes
  BY DEF Init, CountTypes, CSteps, Locals, NoLocals
<1>3. Agree
  BY <1>1 DEF Init, Agree, Counted
<1>4. \A c \in Consumers : Loaded(c) /\ Spared(c)
  BY DEF Init, Loaded, Spared, Coming
<1>5. Room
  <2> SUFFICES ASSUME NEW D \in SUBSET At({"check"}) PROVE RoomFor(D)
    BY DEF Room
  <2>1. D = {}
    BY <1>1
  <2>2. Cardinality(D) = 0 /\ Claims = 0 /\ tailIndex = 0
    BY <1>1, <2>1, FS_EmptySet DEF Claims, Init
  <2> QED BY <2>2 DEF RoomFor
<1> QED BY <1>2, <1>3, <1>4, <1>5 DEF CountInv

LEMMA NextCount == CountInv /\ [Next]_vars => CountInv'
<1> SUFFICES ASSUME CountInv, [Next]_vars PROVE CountInv'
  OBVIOUS
<1>1. CASE EnqueueStep \/ Destroy \/ UNCHANGED vars
  <2>1. /\ UNCHANGED <<headIndex, dequeueOptimisticCount, dequeueOvercommit, cc, loc, spare>>
        /\ tailIndex' = tailIndex \/ tailIndex' = tailIndex + 1
    BY <1>1 DEF EnqueueStep, Enqueue, NewBlockIndex, NewBlockIndexFails, StoreKey, StoreIndexTail,
                RequisitionBlock, RequisitionFails, Construct, Publish, Destroy, vars, counters
  <2>2. tailIndex \in Nat
    BY DEF CountInv, CountTypes
  <2> QED BY <2>1, <2>2, TailCount
<1>2. ASSUME NEW c \in Consumers, DequeueStep(c) PROVE CountInv'
  BY <1>2, LoadTailCount, LoadOvercommitCount, LooksNonEmptyCount, CountInCount, CheckAgainCount,
     CountOutCount, ClaimCount, MovesCount DEF DequeueStep, Moves
<1> QED BY <1>1, <1>2 DEF Next

\* An attempt gets an index only if there is an element for it, or for another one that
\* will leave it to this one: head is never beyond tail.
HeadBelow == headIndex + Cardinality(At({"claim"})) <= tailIndex

LEMMA RoomGivesHead ==
  ASSUME CountInv
  PROVE  HeadBelow /\ headIndex <= tailIndex
<1>1. {} \in SUBSET At({"check"}) /\ Cardinality({}) = 0
  BY FS_EmptySet
<1>2. RoomFor({})
  BY <1>1 DEF CountInv, Room
<1>3. Cardinality(At({"claim"})) \in Nat
  <2>1. At({"claim"}) \in SUBSET Consumers
    BY DEF At
  <2> QED BY <2>1, FS_Subset, FS_CardinalityType
<1> QED BY <1>1, <1>2, <1>3 DEF RoomFor, Claims, HeadBelow, CountInv, CountTypes

\* The invariant of the counters.
THEOREM Counting == Spec => []CountInv
<1> QED BY InitCount, NextCount, PTL DEF Spec

\* Whatever attempts overlap: the counters of the dequeuers account for every attempt that
\* has counted itself in (dequeueOptimisticCount), gave up (dequeueOvercommit) or got an
\* index (headIndex).
THEOREM TheCountersAgree == Spec => []CountersAgree
<1>1. CountInv => CountersAgree
  <2> SUFFICES ASSUME CountInv PROVE CountersAgree
    OBVIOUS
  <2>1. {c \in Consumers : cc[c] \in {"check", "claim", "excess"}} = At(Counted)
    BY DEF At, Counted
  <2>2. Cardinality(At(Counted)) \in Nat
    <3>1. At(Counted) \in SUBSET Consumers
      BY DEF At
    <3> QED BY <3>1, FS_Subset, FS_CardinalityType
  <2>3. /\ dequeueOptimisticCount \in Nat /\ dequeueOvercommit \in Nat /\ headIndex \in Nat
        /\ dequeueOptimisticCount = dequeueOvercommit + headIndex + Cardinality(At(Counted))
    BY DEF CountInv, CountTypes, Agree
  <2>4. dequeueOptimisticCount - dequeueOvercommit - headIndex = Cardinality(At(Counted))
    BY <2>2, <2>3
  <2> QED BY <2>1, <2>4 DEF CountersAgree
<1> QED BY <1>1, Counting, PTL

-----------------------------------------------------------------------------
(***************************************************************************)
(* Blocks and slots of indexes, places of a ring.                          *)
(***************************************************************************)
Blk(i)   == i \div BLOCK_SIZE
Start(k) == BLOCK_SIZE * k
InBlk(k) == {i \in Nat : Blk(i) = k}

LEMMA Remainder ==
  ASSUME NEW n \in Nat \ {0}
  PROVE  /\ \A x \in Int : x % n \in 0 .. (n - 1) /\ x \div n \in Int /\ x = n * (x \div n) + (x % n)
         /\ \A q \in Int, r \in 0 .. (n - 1) : (n * q + r) % n = r /\ (n * q + r) \div n = q
OBVIOUS

LEMMA Starts0 ==
  ASSUME NEW k \in Int, NEW l \in Int
  PROVE  /\ Start(k) \in Int /\ (k \in Nat => Start(k) \in Nat) /\ Start(0) = 0
         /\ Start(k + 1) = Start(k) + BLOCK_SIZE
         /\ Start(k - l) = Start(k) - Start(l)
         /\ k < l => Start(k) + BLOCK_SIZE <= Start(l)
         /\ Start(k) = Start(l) => k = l
         /\ Start(k) # 1
<1>1. /\ Start(k) \in Int /\ (k \in Nat => Start(k) \in Nat) /\ Start(0) = 0
      /\ Start(k + 1) = Start(k) + BLOCK_SIZE
      /\ Start(k - l) = Start(k) - Start(l)
  BY DEF Start
<1>2. \A n \in Nat : Start(n) \in Nat
  BY DEF Start
<1>3. \A m \in Int, n \in Int : m < n => Start(m) + BLOCK_SIZE <= Start(n)
  <2> SUFFICES ASSUME NEW m \in Int, NEW n \in Int, m < n PROVE Start(m) + BLOCK_SIZE <= Start(n)
    OBVIOUS
  <2>1. PICK x \in Nat : n = m + 1 + x
    <3>1. n - m - 1 \in Nat /\ n = m + 1 + (n - m - 1)
      OBVIOUS
    <3> QED BY <3>1
  <2>2. Start(n) = Start(m) + BLOCK_SIZE + Start(x)
    BY <2>1 DEF Start
  <2>3. Start(x) \in Nat /\ Start(m) \in Int
    BY <1>2 DEF Start
  <2> QED BY <2>2, <2>3
<1>4. Start(k) = Start(l) => k = l
  BY <1>1, <1>3 DEF Start
<1>5. Start(k) # 1
  <2>1. (BLOCK_SIZE * k + 0) % BLOCK_SIZE = 0 /\ 1 % BLOCK_SIZE = 1
    <3>1. 0 \in 0 .. (BLOCK_SIZE - 1) /\ 1 \in 0 .. (BLOCK_SIZE - 1)
      OBVIOUS
    <3>2. (BLOCK_SIZE * k + 0) % BLOCK_SIZE = 0 /\ (BLOCK_SIZE * 0 + 1) % BLOCK_SIZE = 1
      BY <3>1, Remainder
    <3>3. BLOCK_SIZE * 0 + 1 = 1
      OBVIOUS
    <3> QED BY <3>2, <3>3
  <2>2. BLOCK_SIZE * k + 0 = BLOCK_SIZE * k
    <3>1. BLOCK_SIZE * k \in Int
      OBVIOUS
    <3> QED BY <3>1
  <2> QED BY <2>1, <2>2 DEF Start
<1> QED BY <1>1, <1>3, <1>4, <1>5

LEMMA Division ==
  ASSUME NEW i \in Nat
  PROVE  /\ Blk(i) \in Nat /\ Slot(i) \in 0 .. (BLOCK_SIZE - 1)
         /\ i = Start(Blk(i)) + Slot(i) /\ Base(i) = Start(Blk(i)) /\ Start(Blk(i)) \in Nat
<1>1. i % BLOCK_SIZE \in 0 .. (BLOCK_SIZE - 1) /\ i \div BLOCK_SIZE \in Int
      /\ i = BLOCK_SIZE * (i \div BLOCK_SIZE) + (i % BLOCK_SIZE)
  BY Remainder
<1>2. i \div BLOCK_SIZE \in Nat
  <2>1. CASE i \div BLOCK_SIZE < 0
    <3>1. Start(Blk(i)) + BLOCK_SIZE <= Start(0)
      BY <1>1, <2>1, Starts0 DEF Blk
    <3>2. Start(0) = 0 /\ Start(Blk(i)) \in Int
      BY <1>1, Starts0 DEF Blk
    <3> QED BY <1>1, <3>1, <3>2 DEF Start, Blk
  <2> QED BY <1>1, <2>1
<1>3. Start(Blk(i)) \in Nat
  BY <1>2, Starts0 DEF Blk
<1> QED BY <1>1, <1>2, <1>3 DEF Blk, Slot, Base, Start

LEMMA Composed ==
  ASSUME NEW k \in Nat, NEW j \in 0 .. (BLOCK_SIZE - 1)
  PROVE  Start(k) + j \in Nat /\ Blk(Start(k) + j) = k /\ Slot(Start(k) + j) = j
<1>1. Start(k) \in Nat
  BY Starts0
<1>2. (BLOCK_SIZE * k + j) % BLOCK_SIZE = j /\ (BLOCK_SIZE * k + j) \div BLOCK_SIZE = k
  BY Remainder
<1> QED BY <1>1, <1>2 DEF Start, Blk, Slot

LEMMA BlkOrder ==
  ASSUME NEW i \in Nat, NEW j \in Nat
  PROVE  /\ i <= j => Blk(i) <= Blk(j)
         /\ j < Start(Blk(i)) => Blk(j) < Blk(i)
<1> DEFINE k == Blk(i)  l == Blk(j)
<1>0. /\ k \in Nat /\ l \in Nat /\ Start(k) \in Nat /\ Start(l) \in Nat
      /\ i = Start(k) + Slot(i) /\ Slot(i) \in 0 .. (BLOCK_SIZE - 1)
      /\ j = Start(l) + Slot(j) /\ Slot(j) \in 0 .. (BLOCK_SIZE - 1)
  BY Division
<1> HIDE DEF k, l
<1>1. ASSUME l < k PROVE j < Start(k) /\ j < i
  <2>1. Start(l) + BLOCK_SIZE <= Start(k)
    BY <1>0, <1>1, Starts0
  <2> QED BY <1>0, <2>1
<1>2. ASSUME k <= l PROVE Start(k) <= j
  <2>1. CASE k = l
    BY <1>0, <2>1
  <2>2. CASE k < l
    <3>1. Start(k) + BLOCK_SIZE <= Start(l)
      BY <1>0, <2>2, Starts0
    <3> QED BY <1>0, <3>1
  <2> QED BY <1>0, <1>2, <2>1, <2>2
<1> QED BY <1>0, <1>1, <1>2 DEF k, l

LEMMA BlkNext ==
  ASSUME NEW i \in Nat
  PROVE  /\ Slot(i + 1) = 0 => Blk(i + 1) = Blk(i) + 1
         /\ Slot(i + 1) # 0 => Blk(i + 1) = Blk(i)
<1>0. /\ Blk(i) \in Nat /\ Start(Blk(i)) \in Nat
      /\ i = Start(Blk(i)) + Slot(i) /\ Slot(i) \in 0 .. (BLOCK_SIZE - 1)
  BY Division
<1>1. CASE Slot(i) = BLOCK_SIZE - 1
  <2>1. Start(Blk(i) + 1) = Start(Blk(i)) + BLOCK_SIZE
    BY <1>0, Starts0
  <2>2. i + 1 = Start(Blk(i) + 1) + 0
    BY <1>0, <1>1, <2>1
  <2>3. Blk(i) + 1 \in Nat /\ 0 \in 0 .. (BLOCK_SIZE - 1)
    BY <1>0
  <2> QED BY <2>2, <2>3, Composed
<1>2. CASE Slot(i) # BLOCK_SIZE - 1
  <2>1. i + 1 = Start(Blk(i)) + (Slot(i) + 1)
    <3>1. PICK b \in Nat, r \in Nat : b = Start(Blk(i)) /\ r = Slot(i) /\ i = b + r
      BY <1>0
    <3>2. i + 1 = b + (r + 1)
      BY <3>1
    <3> QED BY <3>1, <3>2
  <2>2. Blk(i) \in Nat /\ Slot(i) + 1 \in 0 .. (BLOCK_SIZE - 1) /\ Slot(i) + 1 # 0
    BY <1>0, <1>2
  <2> QED BY <2>1, <2>2, Composed
<1> QED BY <1>1, <1>2

LEMMA BlockSize ==
  ASSUME NEW k \in Nat
  PROVE  /\ InBlk(k) = Start(k) .. (Start(k) + BLOCK_SIZE - 1)
         /\ IsFiniteSet(InBlk(k)) /\ Cardinality(InBlk(k)) = BLOCK_SIZE
<1>1. InBlk(k) = Start(k) .. (Start(k) + BLOCK_SIZE - 1)
  <2>1. \A i \in Nat : Blk(i) = k => i \in Start(k) .. (Start(k) + BLOCK_SIZE - 1)
    BY Division
  <2>2. ASSUME NEW i \in Start(k) .. (Start(k) + BLOCK_SIZE - 1) PROVE i \in Nat /\ Blk(i) = k
    <3>1. Start(k) \in Nat
      BY Starts0
    <3>2. i = Start(k) + (i - Start(k)) /\ i - Start(k) \in 0 .. (BLOCK_SIZE - 1)
      BY <3>1
    <3> QED BY <3>1, <3>2, Composed
  <2> QED BY <2>1, <2>2 DEF InBlk
<1>2. Start(k) \in Nat
  BY Starts0
<1>3. Cardinality(Start(k) .. (Start(k) + BLOCK_SIZE - 1)) = Start(k) + BLOCK_SIZE - 1 - Start(k) + 1
  BY <1>2, FS_Interval
<1>4. IsFiniteSet(Start(k) .. (Start(k) + BLOCK_SIZE - 1))
  BY <1>2, FS_Interval
<1> QED BY <1>1, <1>2, <1>3, <1>4

\* The distance of two blocks, from the bases of an index and of a key.
LEMMA Distance ==
  ASSUME NEW i \in Nat, NEW m \in Int
  PROVE  (Base(i) - Start(m)) \div BLOCK_SIZE = Blk(i) - m
<1>1. Blk(i) \in Nat /\ Base(i) = Start(Blk(i))
  BY Division
<1>2. \A x \in Int : Start(x) \div BLOCK_SIZE = x
  <2> SUFFICES ASSUME NEW x \in Int PROVE Start(x) \div BLOCK_SIZE = x
    OBVIOUS
  <2>1. (BLOCK_SIZE * x + 0) \div BLOCK_SIZE = x
    <3>1. 0 \in 0 .. (BLOCK_SIZE - 1) /\ BLOCK_SIZE \in Nat \ {0}
      OBVIOUS
    <3> QED BY <3>1, Remainder
  <2>2. BLOCK_SIZE * x + 0 = BLOCK_SIZE * x
    <3>1. BLOCK_SIZE * x \in Int
      OBVIOUS
    <3> QED BY <3>1
  <2> QED BY <2>1, <2>2 DEF Start
<1>3. Base(i) - Start(m) = Start(Blk(i) - m) /\ Blk(i) - m \in Int
  <2>1. Blk(i) \in Int /\ Blk(i) - m \in Int
    BY <1>1
  <2>2. Start(Blk(i) - m) = Start(Blk(i)) - Start(m)
    BY <2>1, Starts0
  <2> QED BY <1>1, <2>1, <2>2
<1> QED BY <1>2, <1>3

\* d places after the place t of a ring.
Ring(t, d, n) == ((t - 1 + d) % n) + 1

LEMMA RingPlaces ==
  ASSUME NEW n \in Nat \ {0}, NEW t \in 1 .. n, NEW a \in Int, NEW b \in Int
  PROVE  /\ Ring(t, a, n) \in 1 .. n
         /\ Ring(t, 0, n) = t
         /\ Ring(t, a, n) = Ring(t, b, n) /\ a - b < n /\ b - a < n => a = b
         /\ t + a \in 1 .. n => Ring(t, a, n) = t + a
<1>1. \A x \in Int : x % n \in 0 .. (n - 1) /\ x \div n \in Int /\ x = n * (x \div n) + (x % n)
  BY Remainder
<1>2. \A q \in Int, r \in 0 .. (n - 1) : (n * q + r) % n = r
  BY Remainder
<1>3. PICK p \in Int, r \in 0 .. (n - 1) : r = (t - 1 + a) % n /\ t - 1 + a = n * p + r
  <2>1. t - 1 + a \in Int
    OBVIOUS
  <2> QED BY <1>1, <2>1
<1>4. PICK q \in Int, s \in 0 .. (n - 1) : s = (t - 1 + b) % n /\ t - 1 + b = n * q + s
  <2>1. t - 1 + b \in Int
    OBVIOUS
  <2> QED BY <1>1, <2>1
<1>5. Ring(t, a, n) = r + 1 /\ Ring(t, b, n) = s + 1
  BY <1>3, <1>4 DEF Ring
<1>6. \A x \in 0 .. (n - 1) : x % n = x
  <2> SUFFICES ASSUME NEW x \in 0 .. (n - 1) PROVE x % n = x
    OBVIOUS
  <2>1. (n * 0 + x) % n = x /\ n * 0 + x = x
    BY <1>2
  <2> QED BY <2>1
<1>7. Ring(t, 0, n) = t
  <2>1. t - 1 + 0 \in 0 .. (n - 1) /\ t - 1 + 0 + 1 = t
    OBVIOUS
  <2> QED BY <1>6, <2>1 DEF Ring
<1>10. ASSUME r = s, a - b < n, b - a < n PROVE a = b
  <2>1. a - b = n * (p - q)
    <3>1. n * (p - q) = n * p - n * q /\ n * p \in Int /\ n * q \in Int
      OBVIOUS
    <3> QED BY <1>3, <1>4, <1>10, <3>1
  <2>2. CASE p - q >= 1
    <3>1. p - q - 1 \in Nat /\ n * (p - q) = n + n * (p - q - 1)
      BY <2>2
    <3>2. n * (p - q - 1) \in Nat
      BY <3>1
    <3> QED BY <1>10, <2>1, <3>1, <3>2
  <2>3. CASE q - p >= 1
    <3>1. q - p - 1 \in Nat /\ n * (p - q) = - (n + n * (q - p - 1))
      BY <2>3
    <3>2. n * (q - p - 1) \in Nat
      BY <3>1
    <3> QED BY <1>10, <2>1, <3>1, <3>2
  <2>4. CASE p = q
    BY <1>3, <1>4, <1>10, <2>4
  <2> QED BY <2>2, <2>3, <2>4
<1>11. t + a \in 1 .. n => Ring(t, a, n) = t + a
  <2>1. t + a \in 1 .. n => t - 1 + a \in 0 .. (n - 1) /\ t - 1 + a + 1 = t + a
    OBVIOUS
  <2> QED BY <1>6, <2>1 DEF Ring
<1> QED BY <1>5, <1>7, <1>10, <1>11

LEMMA RingAdd ==
  ASSUME NEW n \in Nat \ {0}
  PROVE  \A t \in 1 .. n : \A a, b \in Int : Ring(Ring(t, a, n), b, n) = Ring(t, a + b, n)
<1> SUFFICES ASSUME NEW t \in 1 .. n, NEW a \in Int, NEW b \in Int
             PROVE  Ring(Ring(t, a, n), b, n) = Ring(t, a + b, n)
  OBVIOUS
<1>1. \A x \in Int : x % n \in 0 .. (n - 1) /\ x \div n \in Int /\ x = n * (x \div n) + (x % n)
  BY Remainder
<1>2. \A q \in Int, r \in 0 .. (n - 1) : (n * q + r) % n = r
  BY Remainder
<1>3. PICK p \in Int, r \in 0 .. (n - 1) : r = (t - 1 + a) % n /\ t - 1 + a = n * p + r
  <2>1. t - 1 + a \in Int
    OBVIOUS
  <2> QED BY <1>1, <2>1
<1>4. Ring(Ring(t, a, n), b, n) = ((r + b) % n) + 1
  <2>1. r + 1 - 1 + b = r + b
    OBVIOUS
  <2> QED BY <1>3, <2>1 DEF Ring
<1>5. PICK u \in Int, v \in 0 .. (n - 1) : v = (r + b) % n /\ r + b = n * u + v
  <2>1. r + b \in Int
    OBVIOUS
  <2> QED BY <1>1, <2>1
<1>6. t - 1 + (a + b) = n * (p + u) + v
  <2>1. n * (p + u) = n * p + n * u
    OBVIOUS
  <2>2. PICK x \in Int, y \in Int : x = n * p /\ y = n * u
    OBVIOUS
  <2>3. t - 1 + a = x + r /\ r + b = y + v /\ n * (p + u) = x + y
    BY <1>3, <1>5, <2>1, <2>2
  <2> QED BY <2>3
<1>7. (n * (p + u) + v) % n = v
  BY <1>2
<1> QED BY <1>4, <1>5, <1>6, <1>7 DEF Ring

LEMMA RingRound ==
  ASSUME NEW n \in Nat \ {0}, NEW t \in 1 .. n, NEW a \in Int
  PROVE  Ring(t, a + n, n) = Ring(t, a, n)
<1>1. \A x \in Int : x % n \in 0 .. (n - 1) /\ x \div n \in Int /\ x = n * (x \div n) + (x % n)
  BY Remainder
<1>2. \A q \in Int, r \in 0 .. (n - 1) : (n * q + r) % n = r
  BY Remainder
<1>3. PICK p \in Int, r \in 0 .. (n - 1) : r = (t - 1 + a) % n /\ t - 1 + a = n * p + r
  <2>1. t - 1 + a \in Int
    OBVIOUS
  <2> QED BY <1>1, <2>1
<1>4. t - 1 + (a + n) = n * (p + 1) + r
  <2>1. n * (p + 1) = n * p + n
    OBVIOUS
  <2>2. PICK x \in Int : x = n * p
    OBVIOUS
  <2>3. t - 1 + a = x + r /\ n * (p + 1) = x + n
    BY <1>3, <2>1, <2>2
  <2> QED BY <2>3
<1>5. (n * (p + 1) + r) % n = r
  BY <1>2
<1> QED BY <1>3, <1>4, <1>5 DEF Ring
=============================================================================
