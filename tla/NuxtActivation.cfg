SPECIFICATION Spec
CONSTANTS
  Products = {p1, p2}
  Orders = {o1}
  Keys = {k1, k2}
  Devices = {d1, d2}
  Nonces = {n1, n2}
  Requests = {r1, r2}
  Notifiers = {t1}
  Activators = {a1, a2}
  Clients = {c1, c2}
  ProductOf <- MCTwoProducts
  MaxCrashes = 1
  None = None
SYMMETRY MCRowSymmetry
INVARIANT LicenceMatchesBinding
INVARIANT RowsMatchBinding
INVARIANT NonceOnce
INVARIANT LocksProtect
INVARIANT ProductOutlivesRows
INVARIANT RightProduct
CONSTRAINT MCTwoAtOnce
