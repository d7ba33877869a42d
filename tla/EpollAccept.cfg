SPECIFICATION FairServer
CONSTANTS
  s1 = s1
  s2 = s2
  Socks = {s1, s2}
  NoSock = NoSock
  Fds = {1}
  MaxRx = 2
  KeepsHandles = FALSE
  ClosesDialing = FALSE
  AcceptAddFails = FALSE
  EPOLL_WAIT_MAX = 2
  MaxBacklog = 1
  AcceptFails = TRUE
INVARIANTS ListenTypeOK EventHasOffer WaitingClientWakes OfferIsUnused
PROPERTIES RefinesLoop OfferAnswered ReadAnswered ConnectAnswered CloseReleases BrokenIsClosed
