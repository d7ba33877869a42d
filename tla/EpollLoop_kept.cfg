SPECIFICATION Spec
CONSTANTS
  s1 = s1
  Socks = {s1}
  NoSock = NoSock
  Fds = {1, 2}
  MaxRx = 2
  KeepsHandles = TRUE
  ClosesDialing = TRUE
  AcceptAddFails = TRUE
  EPOLL_WAIT_MAX = 1
INVARIANTS TypeOK RegistrationOwned ReferencesKeepAlive
