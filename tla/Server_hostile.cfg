CONSTANTS
  Conns = {c1, c2}
  c1 = c1
  c2 = c2
  Fds = {f1}
  f1 = f1
  Workers = {w1, w2}
  w1 = w1
  w2 = w2
  Main = Main
  Listen = Listen
  None = None
  RespLen = 2
  SndBuf = 1
  Segs = 1
  MaxRequests = 1
  QueueCap = 2
  Indigestible = {}
  Polite = FALSE
  Timeouts = TRUE
SPECIFICATION Spec
SYMMETRY Symmetry
INVARIANT TimerMatchesConnection
INVARIANT NoImmortalEntry
INVARIANT FiredTimerHitsOwn
INVARIANT TasksAreLive
PROPERTY OnlyOwnErase
\* An idle server waits in epoll_wait, a dead one takes no step.
CHECK_DEADLOCK FALSE
