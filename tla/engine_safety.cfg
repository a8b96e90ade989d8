SPECIFICATION Spec
CONSTANTS
  p1 = p1  p2 = p2  w1 = w1  w2 = w2  h1 = h1  h2 = h2
  Payments = {p1}
  NoPayment = none
  Paths = {"order", "adapter", "contract"}
  Workers = {w1, w2}
  Executors = {w1, w2}
  Hosts = {h1, h2}
  HostOf <- OwnHost
  IntentExpiry = 1
  ExpiryGrace = 0
  QuoteTtl = 1
  RenewTtl = 1
  ReturnGrace = 1
  MaxAttempts = 1
  ResumePage = 100
  Float = 1
  MaxTime = 3
  MaxTx = 3
  MaxUpsets = 1
SYMMETRY SwapProcesses
CHECK_DEADLOCK FALSE
INVARIANTS
  NeverPaidAndReturned
  AtMostOneReturn
  ClearingIsCovered
  BooksMatchTheWorld
  WalletAccounts
  SuccessIsWhole
  ReturnIsFinal
PROPERTIES
  LinearHistory
  ReopenedIsFunded
  PromiseKept
