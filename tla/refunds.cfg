SPECIFICATION LiveSpec
CONSTANTS
  r1 = r1  r2 = r2  api = api  worker = worker
  Requests = {r1, r2}
  Passes = {pass}
  Processes = {api, worker}
  ProcessOf <- ApiAndWorker
  Keys = {k1}
  NoKey = none
  NoFlow = none
  Net = 2
  PoolSize = 2
  OlderThan = 0
  MaxRefunds = 2
  MaxTime = 2
  MaxUpsets = 1
CHECK_DEADLOCK FALSE
INVARIANTS ReservedAtMostNet OneRefundPerKey BooksFollowTheRail
PROPERTIES PendingFinishes RequestsEnd
