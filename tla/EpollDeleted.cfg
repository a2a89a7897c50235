CONSTANTS
  Threads = {t1}
  e1 = e1
  e2 = e2
  e3 = e3
  f1 = f1
  f2 = f2
  Epfds = {e1}
  Fds <- Sockets
  Watched <- OneWatchesAll
  Data = {d1, d2}
  None = none
  MAX_EPOLL_FDS = 2
  MAX_EPOLL_DATA = 2
SPECIFICATION Spec
INVARIANTS DeletedIsInvalid
