SPECIFICATION FairSpec
CONSTANTS
  t1 = t1
  s1 = s1
  s2 = s2
  Threads = {t1}
  Socks = {s1, s2}
  NoSock = NoSock
  Kinds = {"CONNECT", "WRITE"}
  PortFails = TRUE
INVARIANT DueIsOutstanding
PROPERTIES ImplementsProactor ClosedIsAnswered GivenUpIsFreed
