SPECIFICATION Spec
CONSTANTS
  Products = {p1}
  Orders = {o1, o2}
  Keys = {k1, k2}
  Devices = {d1}
  Nonces = {n1}
  Requests = {r1}
  Notifiers = {t1, t2}
  Activators = {a1}
  Clients = {c1}
  ProductOf <- MCOneProduct
  MaxCrashes = 1
  None = None
SYMMETRY MCSymmetry
INVARIANT TypeOK
INVARIANT KeySoldOnce
INVARIANT DeliveredWasPaid
PROPERTY RefinesAllocation
