CONSTANTS
  Conns = {c1, c2}
  c2 = c2
  c1 = c1
  Fds = {f1, f2}
  f2 = f2
  f1 = f1
  Workers = {w1}
  w1 = w1
  Main = Main
  Listen = Listen
  None = None
  RespLen = 3
  SndBuf = 1
  Segs = 1
  MaxRequests = 1
  QueueCap = 4
  Indigestible = {c2}
  Polite = TRUE
  Timeouts = FALSE
SPECIFICATION FairSpec
INVARIANT WireIntegrity
PROPERTY Answered
PROPERTY NoTruncatedResponse
\* An idle server waits in epoll_wait, a dead one takes no step.
CHECK_DEADLOCK FALSE
