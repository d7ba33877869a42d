SPECIFICATION Spec
CONSTANTS
  t1 = t1
  t2 = t2
  s1 = s1
  Threads = {t1, t2}
  Socks = {s1}
  NoSock = NoSock
  Kinds = {"CONNECT", "READ"}
  PortFails = FALSE
INVARIANT DueIsOutstanding
