SPECIFICATION FairServer
CONSTANTS
  t1 = t1
  t2 = t2
  s1 = s1
  s2 = s2
  Threads = {t1, t2}
  Socks = {s1, s2}
  NoSock = NoSock
  Kinds = {"READ"}
  PortFails = TRUE
INVARIANTS TypeOK OutstandingKept WaitsForAccept
PROPERTIES RefinesLoop OfferComesBack
