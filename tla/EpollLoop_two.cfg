SPECIFICATION Spec
CONSTANTS
  s1 = s1
  s2 = s2
  Socks = {s1, s2}
  NoSock = NoSock
  Fds = {1, 2}
  MaxRx = 2
  KeepsHandles = FALSE
  ClosesDialing = TRUE
  AcceptAddFails = FALSE
  EPOLL_WAIT_MAX = 1
SYMMETRY Symmetry
INVARIANTS BatchOwned ConnectEventDecides PendingReadWakes HangUpReleases PendingKeepsAlive
