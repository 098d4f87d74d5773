SPECIFICATION Spec
CONSTANTS
  u1 = u1  u2 = u2  u3 = u3  v1 = v1  v2 = v2  o1 = o1  o2 = o2  o3 = o3  t1 = t1  t2 = t2
  Users = {u1, u2}
  Vouchers = {v1, v2}
  OrderIds = {o1, o2}
  Threads = {t1, t2}
  UserOf <- OneUserOf
  VoucherOf <- TwoVoucherOf
  InitStock <- OneUnit
  UniqueKey = TRUE
  Faults = {}
  NoKey = NoKey
  Nobody = Nobody
INVARIANT PromisedOrderLands
