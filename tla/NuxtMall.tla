------------------------------- MODULE NuxtMall -------------------------------
(***************************************************************************)
(* The activation service nuxtjs/server: products, orders, channel codes   *)
(* (keys), payment call-backs and device activation over PostgreSQL.       *)
(*                                                                         *)
(* Each HTTP handler is a process.  A step is a statement at which handlers *)
(* can meet: a read another handler can invalidate, the acquisition of a   *)
(* row lock (FOR UPDATE, a unique index, a row being updated), a commit.   *)
(* The database runs READ COMMITTED, so what a transaction wrote is seen by *)
(* nobody before its COMMIT: its UPDATEs are folded into the commit step,   *)
(* and its row locks are the rows its record in notify or activation names. *)
(***************************************************************************)
EXTENDS Naturals

CONSTANTS Products, Orders, Keys, Devices, Nonces, Requests,
          ProductOf,    \* product_code of each order row and of each key row
          Notifiers,    \* payment call-backs being handled at the same time
          Activators,   \* /api/activate requests handled at the same time
          Clients,      \* other handlers: orders, key creation, product deletion
          MaxCrashes,   \* bound on the lost connections, each a ROLLBACK
          None

ASSUME RowsHaveProducts == ProductOf \in [Orders \cup Keys -> Products]
ASSUME NoneIsNew == None \notin Products \cup Orders \cup Keys \cup Devices \cup Nonces \cup Requests
ASSUME CrashBound == MaxCrashes \in Nat

VARIABLES
  product,      \* activation_products: absent, active or inactive
  orders,       \* orders: payment_status ("absent" before the INSERT), assigned_key_code
  keys,         \* activation_keys: status, allocated_order_id, assigned_device_id
  nonces,       \* used_nonces
  activations,  \* activations: the row of each request_id
  notify,       \* the transactions of the payment call-backs
  activation,   \* the transactions of /api/activate
  job,          \* the two-statement handlers that hold no lock
  charged,      \* external: the orders the payment provider has charged
  granted,      \* history: requests answered with success for each nonce
  licensed,     \* history: the devices a licence of each key was signed for
  crashes

tables == <<product, orders, keys, nonces, activations>>
vars == <<tables, notify, activation, job, charged, granted, licensed, crashes>>

NoRow == [key |-> None, device |-> None]
NoKey == [status |-> "absent", order |-> None, device |-> None]

\* paid and row are what the SELECT ... FOR UPDATE of the transaction returned.
NoNotify == [pc |-> "idle", order |-> None, key |-> None, ok |-> FALSE, paid |-> FALSE]
NoActivation == [pc |-> "idle", key |-> None, device |-> None, nonce |-> None,
                 request |-> None, matches |-> FALSE, row |-> NoKey]
NoJob == [pc |-> "idle", product |-> None, nonce |-> None]

Init == /\ product = [p \in Products |-> "absent"]
        /\ orders = [o \in Orders |-> [status |-> "absent", key |-> None]]
        /\ keys = [k \in Keys |-> NoKey]
        /\ nonces = {}
        /\ activations = [r \in Requests |-> NoRow]
        /\ notify = [t \in Notifiers |-> NoNotify]
        /\ activation = [a \in Activators |-> NoActivation]
        /\ job = [c \in Clients |-> NoJob]
        /\ charged = {}
        /\ granted = [n \in Nonces |-> 0]
        /\ licensed = [k \in Keys |-> {}]
        /\ crashes = 0

------------------------------------------------------------------------------
(* SELECT then INSERT of a nonce: the primary key of used_nonces makes the *)
(* INSERT wait while another transaction holds the same nonce uncommitted. *)

\* Fault: used_nonces without its primary key.
MutNonceLookupOnly(n) == n \notin nonces

NonceFree(n) == /\ n \notin nonces
                /\ \A a \in Activators : activation[a].nonce # n
                /\ \A c \in Clients : job[c].nonce # n

(* Row locks: who holds FOR UPDATE on a row until its COMMIT or ROLLBACK. *)

OrderLocked(o) == \E t \in Notifiers : notify[t].order = o
KeyLocked(k) == \/ \E t \in Notifiers : notify[t].key = k
                \/ \E a \in Activators : activation[a].pc = "key" /\ activation[a].key = k

\* Fault: the WHERE clause does not name the product.
MutAnyProduct(o, k) == keys[k].status = "unused" /\ keys[k].order = None

(* The WHERE clause of assignKeyForPaidOrder.  revoked_at is set exactly   *)
(* when status becomes 'revoked', and no statement of this service leaves  *)
(* that status.                                                            *)
Assignable(o, k) == /\ ProductOf[k] = ProductOf[o]
                    /\ keys[k].status = "unused"
                    /\ keys[k].order = None

------------------------------------------------------------------------------
(* Catalogue and order handlers: a read, then a write that re-checks only  *)
(* what the schema's foreign keys check.                                   *)

UpsertProduct(p, active) ==
  /\ product' = [product EXCEPT ![p] = IF active THEN "active" ELSE "inactive"]
  /\ UNCHANGED <<orders, keys, nonces, activations, notify, activation, job,
                 charged, granted, licensed, crashes>>

\* The handler has found the product active and is about to INSERT.
ReadProduct(c, p, next, n) ==
  /\ job[c].pc = "idle"
  /\ product[p] = "active"
  /\ job' = [job EXCEPT ![c] = [pc |-> next, product |-> p, nonce |-> n]]
  /\ UNCHANGED <<tables, notify, activation, charged, granted, licensed, crashes>>

\* POST /api/public/keys inserts its nonce before it reads the product.
PublicReadProduct(c, p, n) == NonceFree(n) /\ ReadProduct(c, p, "keys", n)

CreateOrder(c) ==
  LET p == job[c].product IN
  /\ job[c].pc = "order"
  /\ IF product[p] = "absent"
     THEN UNCHANGED orders                      \* foreign key violation
     ELSE \E o \in Orders :
            /\ ProductOf[o] = p
            /\ orders[o].status = "absent"
            /\ orders' = [orders EXCEPT ![o].status = "pending"]
  /\ job' = [job EXCEPT ![c] = NoJob]
  /\ UNCHANGED <<product, keys, nonces, activations, notify, activation,
                 charged, granted, licensed, crashes>>

\* One transaction inserts the whole batch, and the nonce of /api/public/keys.
CreateKeys(c) ==
  LET p == job[c].product
      n == job[c].nonce IN
  /\ job[c].pc = "keys"
  /\ IF product[p] = "absent"                   \* foreign key violation, ROLLBACK
     THEN UNCHANGED <<keys, nonces, granted>>
     ELSE /\ IF n = None THEN UNCHANGED <<nonces, granted>>
             ELSE /\ nonces' = nonces \cup {n}
                  /\ granted' = [granted EXCEPT ![n] = @ + 1]
          /\ \E S \in SUBSET {k \in Keys : ProductOf[k] = p /\ keys[k].status = "absent"} :
               /\ S # {}
               /\ keys' = [k \in Keys |-> IF k \in S THEN [keys[k] EXCEPT !.status = "unused"]
                                                     ELSE keys[k]]
  /\ job' = [job EXCEPT ![c] = NoJob]
  /\ UNCHANGED <<product, orders, activations, notify, activation, charged,
                 licensed, crashes>>

\* COUNT(1) of the product's keys is zero.
CountKeys(c, p) ==
  /\ job[c].pc = "idle"
  /\ \A k \in Keys : ProductOf[k] = p => keys[k].status = "absent"
  /\ job' = [job EXCEPT ![c] = [pc |-> "delete", product |-> p, nonce |-> None]]
  /\ UNCHANGED <<tables, notify, activation, charged, granted, licensed, crashes>>

\* The rows that REFERENCE the product.
Referenced(p) == \/ \E o \in Orders : ProductOf[o] = p /\ orders[o].status # "absent"
                 \/ \E k \in Keys : ProductOf[k] = p /\ keys[k].status # "absent"

\* Fault: orders does not reference its product, the count of the keys is trusted.
MutDeleteWithoutForeignKey(c) ==
  /\ job[c].pc = "delete"
  /\ product' = [product EXCEPT ![job[c].product] = "absent"]
  /\ job' = [job EXCEPT ![c] = NoJob]
  /\ UNCHANGED <<orders, keys, nonces, activations, notify, activation,
                 charged, granted, licensed, crashes>>

DeleteProduct(c) ==
  LET p == job[c].product IN
  /\ job[c].pc = "delete"
  /\ product' = IF Referenced(p) THEN product ELSE [product EXCEPT ![p] = "absent"]
  /\ job' = [job EXCEPT ![c] = NoJob]
  /\ UNCHANGED <<orders, keys, nonces, activations, notify, activation,
                 charged, granted, licensed, crashes>>

\* The handler fails between its statements; an open transaction rolls back.
JobCrash(c) ==
  /\ job[c].pc # "idle"
  /\ crashes < MaxCrashes
  /\ crashes' = crashes + 1
  /\ job' = [job EXCEPT ![c] = NoJob]
  /\ UNCHANGED <<tables, notify, activation, charged, granted, licensed>>

\* Fault: the key is revoked while another transaction holds its row.
MutRevokeWithoutLock(k) ==
  /\ keys[k].status # "absent"
  /\ keys[k].device = None
  /\ keys' = [keys EXCEPT ![k].status = "revoked"]
  /\ UNCHANGED <<product, orders, nonces, activations, notify, activation, job,
                 charged, granted, licensed, crashes>>

\* One UPDATE: it waits for the row lock and re-evaluates its WHERE clause.
RevokeKey(k) ==
  /\ keys[k].status # "absent"
  /\ ~KeyLocked(k)
  /\ keys[k].device = None
  /\ keys' = [keys EXCEPT ![k].status = "revoked"]
  /\ UNCHANGED <<product, orders, nonces, activations, notify, activation, job,
                 charged, granted, licensed, crashes>>

------------------------------------------------------------------------------
(* Payment call-backs.  The provider charges the customer, then calls back *)
(* as often as it likes, in any order and after answers of any kind.       *)

Charge(o) == /\ orders[o].status # "absent"
             /\ charged' = charged \cup {o}
             /\ UNCHANGED <<tables, notify, activation, job, granted, licensed, crashes>>

\* Fault: the order is read without FOR UPDATE.
MutReadOrderWithoutLock(t, o, ok) ==
  /\ notify[t].pc = "idle"
  /\ orders[o].status # "absent"
  /\ notify' = [notify EXCEPT ![t] = [pc |-> "order", order |-> o, key |-> None, ok |-> ok,
                                      paid |-> orders[o].status = "paid"]]
  /\ UNCHANGED <<tables, activation, job, charged, granted, licensed, crashes>>

\* Fault: an order that failed once is refused.
MutFailedIsFinal(t, o, ok) ==
  /\ orders[o].status # "failed"
  /\ ~OrderLocked(o)
  /\ MutReadOrderWithoutLock(t, o, ok)

\* BEGIN; SELECT ... FROM orders WHERE order_no = $1 FOR UPDATE
LockOrder(t, o, ok) ==
  /\ notify[t].pc = "idle"
  /\ orders[o].status # "absent"
  /\ ~OrderLocked(o)
  /\ notify' = [notify EXCEPT ![t] = [pc |-> "order", order |-> o, key |-> None, ok |-> ok,
                                      paid |-> orders[o].status = "paid"]]
  /\ UNCHANGED <<tables, activation, job, charged, granted, licensed, crashes>>

AlipayNotify(t, o, state) ==
  /\ state = "TRADE_SUCCESS" => o \in charged
  /\ LockOrder(t, o, state = "TRADE_SUCCESS")

\* Fault: trade_state is not looked at.
MutAnyStateIsSuccess(t, o, state) ==
  /\ state \in {"SUCCESS", "missing"} => o \in charged
  /\ LockOrder(t, o, TRUE)

\* A body without trade_state counts as a success.
WechatNotify(t, o, state) ==
  /\ state \in {"SUCCESS", "missing"} => o \in charged
  /\ LockOrder(t, o, state \in {"SUCCESS", "missing"})

\* A call-back that reports no success records a failure, unless already paid.
NotifyFailed(t) ==
  LET o == notify[t].order IN
  /\ notify[t].pc = "order"
  /\ ~notify[t].ok
  /\ orders' = IF notify[t].paid THEN orders
               ELSE [orders EXCEPT ![o].status = "failed"]
  /\ notify' = [notify EXCEPT ![t] = NoNotify]
  /\ UNCHANGED <<product, keys, nonces, activations, activation, job,
                 charged, granted, licensed, crashes>>

\* The order has its key: the repeated call-back answers with the same one.
NotifyAgain(t) ==
  LET o == notify[t].order IN
  /\ notify[t].pc = "order"
  /\ notify[t].ok
  /\ orders[o].key # None
  /\ orders' = [orders EXCEPT ![o].status = "paid"]
  /\ notify' = [notify EXCEPT ![t] = NoNotify]
  /\ UNCHANGED <<product, keys, nonces, activations, activation, job,
                 charged, granted, licensed, crashes>>

\* Fault: the key is selected without FOR UPDATE SKIP LOCKED.
MutPickWithoutLock(t, k) ==
  LET o == notify[t].order IN
  /\ notify[t].pc = "order"
  /\ notify[t].ok
  /\ orders[o].key = None
  /\ Assignable(o, k)
  /\ notify' = [notify EXCEPT ![t].pc = "key", ![t].key = k]
  /\ UNCHANGED <<tables, activation, job, charged, granted, licensed, crashes>>

\* SELECT key_code ... LIMIT 1 FOR UPDATE SKIP LOCKED.  ORDER BY created_at is
\* abstracted: any free assignable key may be the oldest.
PickKey(t, k) ==
  LET o == notify[t].order IN
  /\ notify[t].pc = "order"
  /\ notify[t].ok
  /\ orders[o].key = None
  /\ Assignable(o, k)
  /\ ~KeyLocked(k)
  /\ notify' = [notify EXCEPT ![t].pc = "key", ![t].key = k]
  /\ UNCHANGED <<tables, activation, job, charged, granted, licensed, crashes>>

\* 409: the transaction is rolled back, the 'paid' it wrote included.
OutOfStock(t) ==
  LET o == notify[t].order IN
  /\ notify[t].pc = "order"
  /\ notify[t].ok
  /\ orders[o].key = None
  /\ \A k \in Keys : ~Assignable(o, k) \/ KeyLocked(k)
  /\ notify' = [notify EXCEPT ![t] = NoNotify]
  /\ UNCHANGED <<tables, activation, job, charged, granted, licensed, crashes>>

\* Fault: the parameters of the two UPDATEs are swapped.
MutSwappedColumns(t) ==
  LET o == notify[t].order
      k == notify[t].key IN
  /\ notify[t].pc = "key"
  /\ orders' = [orders EXCEPT ![o] = [status |-> "paid", key |-> o]]
  /\ keys' = [keys EXCEPT ![k].order = k]
  /\ notify' = [notify EXCEPT ![t] = NoNotify]
  /\ UNCHANGED <<product, nonces, activations, activation, job, charged, granted,
                 licensed, crashes>>

\* COMMIT of the payment, of the key's allocation and of the order's key.
CommitDelivery(t) ==
  LET o == notify[t].order
      k == notify[t].key IN
  /\ notify[t].pc = "key"
  /\ orders' = [orders EXCEPT ![o] = [status |-> "paid", key |-> k]]
  /\ keys' = [keys EXCEPT ![k].order = o]
  /\ notify' = [notify EXCEPT ![t] = NoNotify]
  /\ UNCHANGED <<product, nonces, activations, activation, job, charged, granted, licensed, crashes>>

NotifyCrash(t) ==
  /\ notify[t].pc # "idle"
  /\ crashes < MaxCrashes
  /\ crashes' = crashes + 1
  /\ notify' = [notify EXCEPT ![t] = NoNotify]
  /\ UNCHANGED <<tables, activation, job, charged, granted, licensed>>

------------------------------------------------------------------------------
(* POST /api/activate *)

UseNonce(a, k, d, n, r, matches) ==
  /\ activation[a].pc = "idle"
  /\ NonceFree(n)
  /\ activation' = [activation EXCEPT ![a] =
       [pc |-> "nonce", key |-> k, device |-> d, nonce |-> n, request |-> r,
        matches |-> matches, row |-> NoKey]]
  /\ UNCHANGED <<tables, notify, job, charged, granted, licensed, crashes>>

\* Fault: the key is read without FOR UPDATE.
MutReadKeyWithoutLock(a) ==
  /\ activation[a].pc = "nonce"
  /\ keys[activation[a].key].status # "absent"
  /\ activation' = [activation EXCEPT ![a].pc = "key", ![a].row = keys[activation[a].key]]
  /\ UNCHANGED <<tables, notify, job, charged, granted, licensed, crashes>>

\* SELECT ... FROM activation_keys WHERE key_code = $1 FOR UPDATE
LockKey(a) ==
  LET k == activation[a].key IN
  /\ activation[a].pc = "nonce"
  /\ keys[k].status # "absent"
  /\ ~KeyLocked(k)
  /\ activation' = [activation EXCEPT ![a].pc = "key", ![a].row = keys[k]]
  /\ UNCHANGED <<tables, notify, job, charged, granted, licensed, crashes>>

\* Fault: a bound key is accepted from every device.
MutNoDeviceCheck(a) == activation[a].row.status # "revoked" /\ activation[a].matches

\* The checks that follow the lock: revoked, product and client type, device.
Acceptable(a) ==
  /\ activation[a].row.status # "revoked"
  /\ activation[a].matches
  /\ activation[a].row.device \in {None, activation[a].device}

\* Fault: the unknown key is refused outside the try block, without ROLLBACK.
MutUnknownKeyKeepsTransaction(a) ==
  /\ activation[a].pc = "key"
  /\ ~Acceptable(a)
  /\ activation' = [activation EXCEPT ![a] = NoActivation]
  /\ UNCHANGED <<tables, notify, job, charged, granted, licensed, crashes>>

\* Unknown key, or a failed check: ROLLBACK, the nonce is free again.
RejectActivation(a) ==
  /\ \/ activation[a].pc = "nonce" /\ keys[activation[a].key].status = "absent"
     \/ activation[a].pc = "key" /\ ~Acceptable(a)
  /\ activation' = [activation EXCEPT ![a] = NoActivation]
  /\ UNCHANGED <<tables, notify, job, charged, granted, licensed, crashes>>

CommitActivation(a) ==
  LET k == activation[a].key
      d == activation[a].device
      r == activation[a].request
      n == activation[a].nonce IN
  /\ activation[a].pc = "key"
  /\ Acceptable(a)
  /\ keys' = IF activation[a].row.device = None
             THEN [keys EXCEPT ![k] = [status |-> "used", order |-> @.order, device |-> d]]
             ELSE keys
  /\ activations' = IF activations[r] = NoRow       \* ON CONFLICT DO NOTHING
                    THEN [activations EXCEPT ![r] = [key |-> k, device |-> d]]
                    ELSE activations
  /\ nonces' = nonces \cup {n}
  /\ granted' = [granted EXCEPT ![n] = @ + 1]
  /\ licensed' = [licensed EXCEPT ![k] = @ \cup {d}]
  /\ activation' = [activation EXCEPT ![a] = NoActivation]
  /\ UNCHANGED <<product, orders, notify, job, charged, crashes>>

ActivationCrash(a) ==
  /\ activation[a].pc # "idle"
  /\ crashes < MaxCrashes
  /\ crashes' = crashes + 1
  /\ activation' = [activation EXCEPT ![a] = NoActivation]
  /\ UNCHANGED <<tables, notify, job, charged, granted, licensed>>

------------------------------------------------------------------------------
Catalogue == \/ \E p \in Products, active \in BOOLEAN : UpsertProduct(p, active)
             \/ \E c \in Clients, p \in Products :
                  \/ ReadProduct(c, p, "order", None)
                  \/ ReadProduct(c, p, "keys", None)      \* POST /api/admin/keys
                  \/ \E n \in Nonces : PublicReadProduct(c, p, n)
                  \/ CountKeys(c, p)
             \/ \E c \in Clients : \/ CreateOrder(c) \/ CreateKeys(c)
                                   \/ DeleteProduct(c) \/ JobCrash(c)
             \/ \E k \in Keys : RevokeKey(k)

PaymentCallBack ==
  \/ \E t \in Notifiers, o \in Orders :
       \/ \E state \in {"TRADE_SUCCESS", "TRADE_CLOSED"} : AlipayNotify(t, o, state)
       \/ \E state \in {"SUCCESS", "CLOSED", "missing"} : WechatNotify(t, o, state)
  \/ \E t \in Notifiers : \/ NotifyFailed(t) \/ NotifyAgain(t) \/ OutOfStock(t)
                          \/ CommitDelivery(t) \/ NotifyCrash(t)
  \/ \E t \in Notifiers, k \in Keys : PickKey(t, k)

Activation ==
  \/ \E a \in Activators, k \in Keys, d \in Devices, n \in Nonces, r \in Requests,
        matches \in BOOLEAN : UseNonce(a, k, d, n, r, matches)
  \/ \E a \in Activators : \/ LockKey(a) \/ RejectActivation(a)
                           \/ CommitActivation(a) \/ ActivationCrash(a)

Next == \/ Catalogue
        \/ \E o \in Orders : Charge(o)
        \/ PaymentCallBack
        \/ Activation

Spec == Init /\ [][Next]_vars

------------------------------------------------------------------------------
(* Fairness.  A transaction that waits for nobody takes its next statement. *)
(* PostgreSQL queues the waiters of a row lock, so one that keeps being      *)
(* released is granted in the end; the provider repeats the call-back of a   *)
(* charged order.  Nothing is assumed of customers, administrators or crashes. *)

NotifyStep(t) == \/ NotifyFailed(t) \/ NotifyAgain(t) \/ OutOfStock(t) \/ CommitDelivery(t)
                 \/ \E k \in Keys : PickKey(t, k)

CallBackAgain(o) == \E t \in Notifiers : \/ AlipayNotify(t, o, "TRADE_SUCCESS")
                                         \/ WechatNotify(t, o, "SUCCESS")

Fairness == /\ \A t \in Notifiers : WF_vars(NotifyStep(t))
            /\ \A o \in Orders : SF_vars(CallBackAgain(o))
            /\ \A a \in Activators : /\ WF_vars(RejectActivation(a) \/ CommitActivation(a))
                                      /\ SF_vars(LockKey(a))

FairSpec == Spec /\ Fairness

------------------------------------------------------------------------------
KeyRow == [status : {"absent", "unused", "used", "revoked"},
           order : Orders \cup {None}, device : Devices \cup {None}]

TypeOK ==
  /\ product \in [Products -> {"absent", "active", "inactive"}]
  /\ orders \in [Orders -> [status : {"absent", "pending", "paid", "failed"},
                            key : Keys \cup {None}]]
  /\ keys \in [Keys -> KeyRow]
  /\ nonces \subseteq Nonces
  /\ activations \in [Requests -> [key : Keys \cup {None}, device : Devices \cup {None}]]
  /\ notify \in [Notifiers -> [pc : {"idle", "order", "key"}, order : Orders \cup {None},
                               key : Keys \cup {None}, ok : BOOLEAN, paid : BOOLEAN]]
  /\ activation \in [Activators -> [pc : {"idle", "nonce", "key"}, key : Keys \cup {None},
                                    device : Devices \cup {None},
                                    nonce : Nonces \cup {None},
                                    request : Requests \cup {None}, matches : BOOLEAN,
                                    row : KeyRow]]
  /\ job \in [Clients -> [pc : {"idle", "order", "keys", "delete"},
                          product : Products \cup {None}, nonce : Nonces \cup {None}]]
  /\ charged \subseteq Orders
  /\ granted \in [Nonces -> Nat]
  /\ licensed \in [Keys -> SUBSET Devices]
  /\ crashes \in 0..MaxCrashes

\* The two tables agree on who bought what: assigned_key_code of an order names
\* a key exactly when allocated_order_id of that key names the order.  Two
\* call-backs that run together never sell one key twice, nor two keys to one
\* order.
KeySoldOnce ==
  \A o \in Orders, k \in Keys : orders[o].key = k <=> keys[k].order = o

\* An order that was given a key is recorded as paid, and the customer was
\* charged for it, whatever call-backs came in which order.
DeliveredWasPaid ==
  \A o \in Orders : orders[o].key # None => orders[o].status = "paid" /\ o \in charged

\* A key is delivered for the product that was ordered.
RightProduct == \A o \in Orders : orders[o].key # None =>
                                    ProductOf[orders[o].key] = ProductOf[o]

\* Every licence signed for a key names the device the key is bound to, and a
\* bound key has a licence: two devices that activate a key together do not both
\* get one, and no licence is signed for a revoked key.
LicenceMatchesBinding ==
  \A k \in Keys : /\ licensed[k] = {keys[k].device} \ {None}
                  /\ keys[k].status = "used" <=> keys[k].device # None

\* Every row of activations names a device its key is bound to, whichever of the
\* requests that share a request_id wrote it.
RowsMatchBinding ==
  \A r \in Requests : activations[r] # NoRow =>
                         keys[activations[r].key].device = activations[r].device

\* A nonce is good for one successful request, of /api/activate and
\* /api/public/keys together, and a nonce that was never answered is not lost.
NonceOnce == \A n \in Nonces : granted[n] = IF n \in nonces THEN 1 ELSE 0

\* No order and no key outlives its product, although the deletion looks at the
\* keys alone and before it deletes.
ProductOutlivesRows == \A p \in Products : Referenced(p) => product[p] # "absent"

\* A row exists before it refers to anything.
RowsExist ==
  /\ \A o \in Orders : orders[o].status = "absent" => orders[o].key = None
  /\ \A k \in Keys : keys[k].status = "absent" => keys[k].order = None
  /\ \A r \in Requests : activations[r] # NoRow => /\ activations[r].key \in Keys
                                                   /\ activations[r].device \in Devices

\* What a call-back read under its row locks is still true when it writes.
NotifyHolds ==
  \A t \in Notifiers : LET n == notify[t] IN
    /\ n.pc = "idle" => n = NoNotify
    /\ n.pc # "idle" => /\ n.order \in Orders
                        /\ n.ok => n.order \in charged
                        /\ orders[n.order].status # "absent"
                        /\ n.paid <=> orders[n.order].status = "paid"
    /\ n.pc = "order" => n.key = None
    /\ n.pc = "key" => /\ n.ok
                       /\ n.key \in Keys
                       /\ Assignable(n.order, n.key)
                       /\ orders[n.order].key = None

\* So is what an activation read, and its nonce is not used yet.
ActivationHolds ==
  \A a \in Activators : LET x == activation[a] IN
    /\ x.pc = "idle" => x = NoActivation
    /\ x.pc # "idle" => /\ x.key \in Keys
                        /\ x.device \in Devices
                        /\ x.request \in Requests
                        /\ x.nonce \in Nonces \ nonces
    /\ x.pc = "key" => x.row = keys[x.key] /\ x.row.status # "absent"

JobHolds ==
  \A c \in Clients :
    /\ job[c].pc = "idle" => job[c] = NoJob
    /\ job[c].pc # "idle" => job[c].product \in Products
    /\ job[c].nonce # None => job[c].pc = "keys" /\ job[c].nonce \notin nonces

\* A row lock and an uncommitted nonce have one owner.
OneHolder ==
  /\ \A s, t \in Notifiers :
       /\ notify[s].order # None /\ notify[s].order = notify[t].order => s = t
       /\ notify[s].key # None /\ notify[s].key = notify[t].key => s = t
  /\ \A a, b \in Activators :
       /\ activation[a].pc = "key" /\ activation[b].pc = "key"
            /\ activation[a].key = activation[b].key => a = b
       /\ activation[a].nonce # None /\ activation[a].nonce = activation[b].nonce => a = b
  /\ \A a \in Activators, t \in Notifiers :
       activation[a].pc = "key" => notify[t].key # activation[a].key
  /\ \A c, d \in Clients : job[c].nonce # None /\ job[c].nonce = job[d].nonce => c = d
  /\ \A a \in Activators, c \in Clients :
       job[c].nonce # None => activation[a].nonce # job[c].nonce

\* What a handler knows between two statements: nobody changes a row another
\* handler has locked, whatever the handlers around it do.
LocksProtect == RowsExist /\ NotifyHolds /\ ActivationHolds /\ JobHolds /\ OneHolder

\* What the customers are promised.
KA == INSTANCE KeyAllocation WITH
        paid <- {o \in Orders : orders[o].status = "paid"},
        stock <- {k \in Keys : keys[k].status # "absent"},
        holder <- [k \in Keys |-> keys[k].order],
        bound <- [k \in Keys |-> keys[k].device],
        void <- {k \in Keys : keys[k].status = "revoked"}

\* The service implements KeyAllocation: in particular a delivered key was free,
\* unrevoked and on no device when it was delivered, a binding never changes and
\* a recorded payment is never taken back.
RefinesAllocation == KA!Spec

\* A charged order gets its key as long as there is a key to give, and unless devices keep
\* activating for ever: a call-back skips the keys an activation has locked.
Delivered ==
  <>[](\A a \in Activators : activation[a].pc = "idle") =>
    \A o \in Orders : o \in charged ~> (orders[o].key # None \/ \A k \in Keys : ~Assignable(o, k))

\* No handler waits for ever: every transaction is committed or rolled back.
HandlersFinish ==
  /\ \A t \in Notifiers : notify[t].pc # "idle" ~> notify[t].pc = "idle"
  /\ \A a \in Activators : activation[a].pc # "idle" ~> activation[a].pc = "idle"
==============================================================================
