SPECIFICATION FairSpec
CONSTANTS
  Products = {p1}
  Orders = {o1, o2}
  Keys = {k1}
  Devices = {d1}
  Nonces = {n1}
  Requests = {r1}
  Notifiers = {t1, t2}
  Activators = {a1}
  Clients = {c1}
  ProductOf <- MCOneProduct
  MaxCrashes = 1
  None = None
PROPERTY HandlersFinish
PROPERTY Delivered
