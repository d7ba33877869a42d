---------------------------- MODULE MCPostQueue ----------------------------
EXTENDS PostQueue
CONSTANTS t1, t2
Hash   == [t \in Threads |-> 0]
Exits == [t \in Threads |-> IF t = t1 THEN 1 ELSE 0]
Bounds == {[t \in Threads |-> CASE t = L -> 0 [] t = t1 -> 2 [] OTHER -> 1],
           [t \in Threads |-> CASE t = L -> 1 [] t = t1 -> 2 [] OTHER -> 0]}
\* t2 and t1 collide in the first table and not in the second.
Hash2   == [t \in Threads |-> CASE t = t2 -> 4 [] t = L -> 1 [] OTHER -> 0]
Bounds2 == {[t \in Threads |-> IF t = L THEN 1 ELSE 2]}
=============================================================================
