SPECIFICATION LiveSpec
CONSTANTS
  p1 = p1  p2 = p2  w1 = w1  w2 = w2  h1 = h1  h2 = h2
  Payments = {p1}
  NoPayment = none
  Paths = {"order", "adapter", "contract"}
  Workers = {w1, w2}
  Executors = {w1}
  Hosts = {h1, h2}
  HostOf <- OwnHost
  IntentExpiry = 1
  ExpiryGrace = 0
  QuoteTtl = 1
  RenewTtl = 1
  ReturnGrace = 2
  MaxAttempts = 1
  ResumePage = 100
  Float = 1
  MaxTime = 2
  MaxTx = 6
  MaxUpsets = 1
CHECK_DEADLOCK FALSE
PROPERTIES
  ReceivedResolves
