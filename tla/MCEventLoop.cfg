SPECIFICATION FairLoopSpec
CONSTANTS
  Peers = {1, 2}
  Fds = {1, 2}
  Scripts <- MCScripts
  Pollers = {"epoll", "kqueue"}
  Auths = {"off", "password", "required"}
  RequirePass = "secret"
  Deaf = {"self"}
  ReadSize = 3
  SockBuf = 1
CHECK_DEADLOCK FALSE
INVARIANTS NoneForgotten AnswersInOrder
PROPERTIES ServedEventually ClosedForCause
