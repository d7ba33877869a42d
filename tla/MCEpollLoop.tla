---- MODULE MCEpollLoop ----
EXTENDS EpollLoop, TLC
Symmetry == Permutations(Socks)
====
