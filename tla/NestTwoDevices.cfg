SPECIFICATION Spec
CONSTANTS
  Products = {p1}
  Orders = {o1}
  Keys = {k1}
  Devices = {d1, d2}
  Requests = {r1, r2}
  Notifiers = {t1}
  Activators = {a1, a2}
  Clients = {c1}
  ProductOf <- MCOneProduct
  MaxCrashes = 0
  None = None
SYMMETRY MCSymmetry
INVARIANT OneDevicePerKey
