SPECIFICATION DispatchSpec
CONSTANTS
  t1 = t1
  t2 = t2
  k1 = k1
  k2 = k2
  NoTicket = NoTicket
  Threads = {t1, t2}
  Keys = {k1, k2}
  KeysOf <- OwnKeys
  Shape <- DistinctShapes
  MaxRetries = 1
  RequireDurable = TRUE
  RequireApproval = TRUE
  HasLocator = TRUE
  NativeMT5 = TRUE
  MaxCalls = 2
  MaxCrashes = 1
  Terminals = {"demo1", "demo2"}
  Accounts = {"acc1", "acc2"}
  Signals = {"s1"}
  Volume = 3
  LotStep = 2
  MaxFans = 2
CHECK_DEADLOCK FALSE
INVARIANTS AtMostOnce NoLostOrder SuccessIsReal SentIsApproved
PROPERTIES ImplementsAtMostOnce EveryCallReturns OncePerAccount OrdersWhereMeant
