SPECIFICATION ReconcileSpec
CONSTANTS
  u1 = u1  u2 = u2  v1 = v1  o1 = o1  o2 = o2  t1 = t1  t2 = t2  r1 = r1  r2 = r2
  Users = {u1, u2}
  Vouchers = {v1}
  OrderIds = {o1, o2}
  Threads = {t1}
  Runners = {r1, r2}
  UserOf <- TwoUserOf
  VoucherOf <- OneVoucherOf
  InitStock <- OneUnit
  UniqueKey = TRUE
  Faults = {}
  RunFaults = {"throw", "die"}
  NoKey = NoKey
  Nobody = Nobody
INVARIANT TypeOK
PROPERTIES LedgerSpec OnlyLapsesOverlap OnlyOrdersPartStocks
