SPECIFICATION FairSpec
CONSTANTS
  Subs = {s1, s2}
  Publishers = {p1, p2}
  Channels = {a}
  BufferSize = 1
  MaxMsgs <- MCMaxMsgs
  p1 = p1
  p2 = p2
INVARIANTS NoSendOnClosed InPublishOrder ListedWhileOpen
PROPERTIES ReceivedIsDelivered PublishReturns
CHECK_DEADLOCK FALSE
