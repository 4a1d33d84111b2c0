SPECIFICATION Spec
CONSTANTS
  Products = {p1}
  Orders = {o1, o2}
  Keys = {k1, k2}
  Devices = {d1, d2}
  Requests = {r1}
  Notifiers = {t1, t2}
  Activators = {a1}
  Clients = {c1, c2}
  ProductOf <- MCOneProduct
  MaxCrashes = 1
  None = None
SYMMETRY MCSymmetry
INVARIANTS LicenceMatchesBinding SoldWasPaid LicensedIsUsed
INVARIANTS ProductOutlivesRows CrashWastesOneKey
PROPERTY RefinesAllocation
CONSTRAINT MCTwoAtOnce
