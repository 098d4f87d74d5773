SPECIFICATION Spec
CONSTANTS
  u1 = u1  u2 = u2  u3 = u3  v1 = v1  v2 = v2  o1 = o1  o2 = o2  o3 = o3  t1 = t1  t2 = t2
  Users = {u1, u2}
  Vouchers = {v1}
  OrderIds = {o1, o2}
  Threads = {t1, t2}
  UserOf <- OneUserOf
  VoucherOf <- OneVoucherOf
  InitStock <- OneUnit
  UniqueKey = TRUE
  Faults = {"send", "redis", "db", "crash", "pause", "loss"}
  NoKey = NoKey
  Nobody = Nobody
INVARIANTS OneOrderPerUser StockConserved RedisConserved
PROPERTY LedgerSpec
