SPECIFICATION FairSpec
CONSTANTS
  u1 = u1  u2 = u2  u3 = u3  v1 = v1  v2 = v2  o1 = o1  o2 = o2  o3 = o3  t1 = t1  t2 = t2
  Users = {u1, u2, u3}
  Vouchers = {v1}
  OrderIds = {o1, o2, o3}
  Threads = {t1, t2}
  UserOf <- OwnUserOf
  VoucherOf <- OneVoucherOf
  InitStock <- TwoUnits
  UniqueKey = TRUE
  Faults = {}
  NoKey = NoKey
  Nobody = Nobody
INVARIANTS AdmissionHonoured RedisWithinMySql
PROPERTIES MessagesDrain OrdersSettle
