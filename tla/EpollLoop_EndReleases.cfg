SPECIFICATION FairSpec
CONSTANTS
  s1 = s1
  Socks = {s1}
  NoSock = NoSock
  Fds = {1}
  MaxRx = 1
  KeepsHandles = FALSE
  ClosesDialing = FALSE
  AcceptAddFails = FALSE
  EPOLL_WAIT_MAX = 2
PROPERTY EndReleases
