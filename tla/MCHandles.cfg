SPECIFICATION FairSpec
CONSTANTS
  Files = {f1}
  Sockets = {s1, s2}
  Request = {r1, r2, r3}
  Fd = {0, 1}
  NoFd = NoFd
  NoHandle = NoHandle
  Lost = Lost
  Liberties = {}
INVARIANT TypeOK
INVARIANT AcceptsOwn
INVARIANT NoStrayFd
PROPERTY ClosesOwn
PROPERTY CloseReleases
