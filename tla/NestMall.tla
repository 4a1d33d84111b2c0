------------------------------- MODULE NestMall -------------------------------
(***************************************************************************)
(* The shop of apps/backend (mall.service.ts): the tables and operations   *)
(* of NuxtMall, ported to NestJS.  Every statement goes to PostgreSQL by   *)
(* itself, without transaction or row lock, so a step is one awaited       *)
(* statement, other handlers run between any two of them, and a handler    *)
(* that fails half-way leaves what it wrote.                               *)
(***************************************************************************)
EXTENDS Naturals, FiniteSets

CONSTANTS Products, Orders, Keys, Devices, Requests,
          ProductOf,    \* product_code of each order row and of each key row
          Notifiers,    \* payment call-backs being handled at the same time
          Activators,   \* /activate requests handled at the same time
          Clients,      \* other handlers of several statements
          MaxCrashes,   \* bound on the handlers that fail between two statements
          None

ASSUME RowsHaveProducts == ProductOf \in [Orders \cup Keys -> Products]
ASSUME NoneIsNew == None \notin Products \cup Orders \cup Keys \cup Devices \cup Requests
ASSUME CrashBound == MaxCrashes \in Nat

VARIABLES
  product,      \* activation_products: absent, active or inactive
  orders,       \* orders: payment_status ("absent" before the INSERT), assigned_key_code
  keys,         \* activation_keys: status, revoked_at, allocated_order_id, assigned_device_id
  activations,  \* activations: the row of each request_id
  notify,       \* the calls of markOrderPaidAndAssign
  activation,   \* the calls of activate
  job,          \* the calls of createOrder, createKeys and deleteProduct
  charged,      \* external: the orders the payment provider has charged
  licensed,     \* history: the devices a licence of each key was answered for
  crashes,
  overlapped    \* history: a request has arrived before another was answered

tables == <<product, orders, keys, activations>>
calls == <<notify, activation, job>>
history == <<licensed, crashes, overlapped>>
vars == <<tables, calls, charged, history>>

NoOrder == [status |-> "absent", key |-> None]
NoKey == [status |-> "absent", revoked |-> FALSE, order |-> None, device |-> None]
NoRow == [key |-> None, device |-> None]

\* row is the row the call has read.
NoNotify == [pc |-> "idle", order |-> None, row |-> NoOrder, key |-> None]
NoActivation == [pc |-> "idle", key |-> None, device |-> None, request |-> None]
NoJob == [pc |-> "idle", product |-> None]

Init == /\ product = [p \in Products |-> "absent"]
        /\ orders = [o \in Orders |-> NoOrder]
        /\ keys = [k \in Keys |-> NoKey]
        /\ activations = [r \in Requests |-> NoRow]
        /\ notify = [t \in Notifiers |-> NoNotify]
        /\ activation = [a \in Activators |-> NoActivation]
        /\ job = [c \in Clients |-> NoJob]
        /\ charged = {}
        /\ licensed = [k \in Keys |-> {}]
        /\ crashes = 0
        /\ overlapped = FALSE

\* Every call that has started has been answered.
AllAnswered == /\ \A t \in Notifiers : notify[t].pc = "idle"
               /\ \A a \in Activators : activation[a].pc = "idle"
               /\ \A c \in Clients : job[c].pc = "idle"

Arrive == overlapped' = (overlapped \/ ~AllAnswered)

\* Whether two requests have overlapped or one has failed half-way.
Disturbed == overlapped \/ crashes > 0

------------------------------------------------------------------------------
(* Catalogue and orders *)

UpsertProduct(p, active) ==
  /\ Arrive
  /\ product' = [product EXCEPT ![p] = IF active THEN "active" ELSE "inactive"]
  /\ UNCHANGED <<orders, keys, activations, calls, charged, licensed, crashes>>

ReadProduct(c, p, next) ==
  /\ Arrive
  /\ job[c].pc = "idle"
  /\ product[p] = "active"
  /\ job' = [job EXCEPT ![c] = [pc |-> next, product |-> p]]
  /\ UNCHANGED <<tables, notify, activation, charged, licensed, crashes>>

InsertOrder(c) ==
  /\ job[c].pc = "order"
  /\ IF product[job[c].product] = "absent"
     THEN UNCHANGED orders                      \* foreign key violation
     ELSE \E o \in Orders : /\ ProductOf[o] = job[c].product
                            /\ orders[o].status = "absent"
                            /\ orders' = [orders EXCEPT ![o].status = "pending"]
  /\ job' = [job EXCEPT ![c] = NoJob]
  /\ UNCHANGED <<product, keys, activations, notify, activation, charged, history>>

\* One round of the loop of createKeys: each key is committed by itself.
InsertKey(c, more) ==
  /\ job[c].pc = "keys"
  /\ product[job[c].product] # "absent"
  /\ \E k \in Keys : /\ ProductOf[k] = job[c].product
                     /\ keys[k].status = "absent"
                     /\ keys' = [keys EXCEPT ![k].status = "unused"]
  /\ job' = IF more THEN job ELSE [job EXCEPT ![c] = NoJob]
  /\ UNCHANGED <<product, orders, activations, notify, activation, charged, history>>

\* The product is gone and the INSERT throws; or the model has no key left to add.
InsertKeyFails(c) ==
  /\ job[c].pc = "keys"
  /\ \/ product[job[c].product] = "absent"
     \/ \A k \in Keys : ProductOf[k] = job[c].product => keys[k].status # "absent"
  /\ job' = [job EXCEPT ![c] = NoJob]
  /\ UNCHANGED <<tables, notify, activation, charged, history>>

CountKeys(c, p) ==
  /\ Arrive
  /\ job[c].pc = "idle"
  /\ \A k \in Keys : ProductOf[k] = p => keys[k].status = "absent"
  /\ job' = [job EXCEPT ![c] = [pc |-> "delete", product |-> p]]
  /\ UNCHANGED <<tables, notify, activation, charged, licensed, crashes>>

\* The rows that REFERENCE the product.
Referenced(p) == \/ \E o \in Orders : ProductOf[o] = p /\ orders[o].status # "absent"
                 \/ \E k \in Keys : ProductOf[k] = p /\ keys[k].status # "absent"

\* Fault: orders does not reference its product, the count of the keys is trusted.
MutDeleteWithoutForeignKey(c) ==
  /\ job[c].pc = "delete"
  /\ product' = [product EXCEPT ![job[c].product] = "absent"]
  /\ job' = [job EXCEPT ![c] = NoJob]
  /\ UNCHANGED <<orders, keys, activations, notify, activation, charged, history>>

DeleteProduct(c) ==
  LET p == job[c].product IN
  /\ job[c].pc = "delete"
  /\ product' = IF Referenced(p) THEN product ELSE [product EXCEPT ![p] = "absent"]
  /\ job' = [job EXCEPT ![c] = NoJob]
  /\ UNCHANGED <<orders, keys, activations, notify, activation, charged, history>>

RevokeKey(k) ==
  /\ Arrive
  /\ keys[k].status # "absent"
  /\ keys[k].device = None
  /\ keys' = [keys EXCEPT ![k] = [@ EXCEPT !.status = "revoked", !.revoked = TRUE]]
  /\ UNCHANGED <<product, orders, activations, calls, charged, licensed, crashes>>

------------------------------------------------------------------------------
(* markOrderPaidAndAssign.  Call-backs that report no success call nothing. *)

Charge(o) == /\ orders[o].status # "absent"
             /\ charged' = charged \cup {o}
             /\ UNCHANGED <<tables, calls, history>>

\* Fault: an order that has its key is assigned another.
MutNoEarlyReturn(t, o) ==
  /\ Arrive
  /\ notify[t].pc = "idle"
  /\ o \in charged
  /\ notify' = [notify EXCEPT ![t] = [pc |-> "select", order |-> o, row |-> orders[o],
                                      key |-> None]]
  /\ UNCHANGED <<tables, activation, job, charged, licensed, crashes>>

\* Fault: the key is assigned without recording the payment.
MutAssignUnpaid(t, o) == orders[o].key = None /\ MutNoEarlyReturn(t, o)

ReadOrder(t, o) ==
  /\ Arrive
  /\ notify[t].pc = "idle"
  /\ o \in charged
  /\ orders[o].key = None \/ orders[o].status # "paid"    \* else it answers the key
  /\ notify' = [notify EXCEPT ![t] =
       [pc |-> IF orders[o].status = "paid" THEN "select" ELSE "mark",
        order |-> o, row |-> orders[o], key |-> None]]
  /\ UNCHANGED <<tables, activation, job, charged, licensed, crashes>>

MarkPaid(t) ==
  /\ notify[t].pc = "mark"
  /\ orders' = [orders EXCEPT ![notify[t].order].status = "paid"]
  /\ notify' = IF notify[t].row.key = None
               THEN [notify EXCEPT ![t].pc = "select"]
               ELSE [notify EXCEPT ![t] = NoNotify]
  /\ UNCHANGED <<product, keys, activations, activation, job, charged, history>>

\* Fault: the status of the key is not in the WHERE clause.
MutAnyStatus(o, k) == /\ ProductOf[k] = ProductOf[o]
                      /\ keys[k].status # "absent"
                      /\ keys[k].order = None
                      /\ ~keys[k].revoked

Assignable(o, k) == /\ ProductOf[k] = ProductOf[o]
                    /\ keys[k].status = "unused"
                    /\ keys[k].order = None
                    /\ ~keys[k].revoked

SelectKey(t, k) ==
  /\ notify[t].pc = "select"
  /\ Assignable(notify[t].order, k)
  /\ notify' = [notify EXCEPT ![t] = [@ EXCEPT !.pc = "allocate", !.key = k]]
  /\ UNCHANGED <<tables, activation, job, charged, history>>

\* Answered with success and without a key: the order stays paid.
OutOfStock(t) ==
  /\ notify[t].pc = "select"
  /\ \A k \in Keys : ~Assignable(notify[t].order, k)
  /\ notify' = [notify EXCEPT ![t] = NoNotify]
  /\ UNCHANGED <<tables, activation, job, charged, history>>

AllocateKey(t) ==
  /\ notify[t].pc = "allocate"
  /\ keys' = [keys EXCEPT ![notify[t].key].order = notify[t].order]
  /\ notify' = [notify EXCEPT ![t].pc = "write"]
  /\ UNCHANGED <<product, orders, activations, activation, job, charged, history>>

WriteOrderKey(t) ==
  /\ notify[t].pc = "write"
  /\ orders' = [orders EXCEPT ![notify[t].order].key = notify[t].key]
  /\ notify' = [notify EXCEPT ![t] = NoNotify]
  /\ UNCHANGED <<product, keys, activations, activation, job, charged, history>>

------------------------------------------------------------------------------
(* activate *)

\* Fault: a bound key is accepted from every device.
MutNoDeviceCheck(a, k, d, r) ==
  /\ Arrive
  /\ activation[a].pc = "idle"
  /\ keys[k].status \notin {"absent", "revoked"}
  /\ activation' = [activation EXCEPT ![a] =
       [pc |-> IF keys[k].device = None THEN "bind" ELSE "log",
        key |-> k, device |-> d, request |-> r]]
  /\ UNCHANGED <<tables, notify, job, charged, licensed, crashes>>

\* The SELECT and the checks on the row it returned.
ReadKey(a, k, d, r) ==
  /\ Arrive
  /\ activation[a].pc = "idle"
  /\ keys[k].status \notin {"absent", "revoked"}
  /\ keys[k].device \in {None, d}
  /\ activation' = [activation EXCEPT ![a] =
       [pc |-> IF keys[k].device = None THEN "bind" ELSE "log",
        key |-> k, device |-> d, request |-> r]]
  /\ UNCHANGED <<tables, notify, job, charged, licensed, crashes>>

\* Fault: the UPDATE leaves status 'unused'.
MutBindKeepsStatus(a) ==
  /\ activation[a].pc = "bind"
  /\ keys' = [keys EXCEPT ![activation[a].key].device = activation[a].device]
  /\ activation' = [activation EXCEPT ![a].pc = "log"]
  /\ UNCHANGED <<product, orders, activations, notify, job, charged, history>>

BindDevice(a) ==
  LET k == activation[a].key IN
  /\ activation[a].pc = "bind"
  /\ keys' = [keys EXCEPT ![k] = [@ EXCEPT !.device = activation[a].device, !.status = "used"]]
  /\ activation' = [activation EXCEPT ![a].pc = "log"]
  /\ UNCHANGED <<product, orders, activations, notify, job, charged, history>>

\* INSERT ... ON CONFLICT (request_id) DO NOTHING, then the licence is answered.
LogActivation(a) ==
  LET k == activation[a].key
      d == activation[a].device
      r == activation[a].request IN
  /\ activation[a].pc = "log"
  /\ activations' = IF activations[r] = NoRow
                    THEN [activations EXCEPT ![r] = [key |-> k, device |-> d]]
                    ELSE activations
  /\ licensed' = [licensed EXCEPT ![k] = @ \cup {d}]
  /\ activation' = [activation EXCEPT ![a] = NoActivation]
  /\ UNCHANGED <<product, orders, keys, notify, job, charged, crashes, overlapped>>

\* A statement fails, or the process dies: what was written stays.
Crash ==
  /\ crashes < MaxCrashes
  /\ crashes' = crashes + 1
  /\ \/ \E t \in Notifiers : /\ notify[t].pc # "idle"
                             /\ notify' = [notify EXCEPT ![t] = NoNotify]
                             /\ UNCHANGED <<activation, job>>
     \/ \E a \in Activators : /\ activation[a].pc # "idle"
                              /\ activation' = [activation EXCEPT ![a] = NoActivation]
                              /\ UNCHANGED <<notify, job>>
     \/ \E c \in Clients : /\ job[c].pc # "idle"
                           /\ job' = [job EXCEPT ![c] = NoJob]
                           /\ UNCHANGED <<notify, activation>>
  /\ UNCHANGED <<tables, charged, licensed, overlapped>>

------------------------------------------------------------------------------
Catalogue == \/ \E p \in Products, active \in BOOLEAN : UpsertProduct(p, active)
             \/ \E c \in Clients, p \in Products : \/ ReadProduct(c, p, "order")
                                                   \/ ReadProduct(c, p, "keys")
                                                   \/ CountKeys(c, p)
             \/ \E c \in Clients : \/ InsertOrder(c) \/ DeleteProduct(c)
                                   \/ InsertKey(c, TRUE) \/ InsertKey(c, FALSE)
                                   \/ InsertKeyFails(c)
             \/ \E k \in Keys : RevokeKey(k)

PaymentCallBack ==
  \E t \in Notifiers : \/ \E o \in Orders : ReadOrder(t, o)
                       \/ \E k \in Keys : SelectKey(t, k)
                       \/ MarkPaid(t) \/ OutOfStock(t) \/ AllocateKey(t) \/ WriteOrderKey(t)

Activation ==
  \E a \in Activators : \/ \E k \in Keys, d \in Devices, r \in Requests : ReadKey(a, k, d, r)
                        \/ BindDevice(a) \/ LogActivation(a)

Next == \/ Catalogue
        \/ \E o \in Orders : Charge(o)
        \/ PaymentCallBack
        \/ Activation
        \/ Crash

Spec == Init /\ [][Next]_vars

------------------------------------------------------------------------------
(* What holds however the handlers interleave and fail. *)

\* A key that is allocated or delivered was paid for: both tables name charged
\* orders that are recorded as paid, although the three writes of a call-back are
\* not one transaction.
SoldWasPaid ==
  /\ \A k \in Keys : keys[k].order # None => /\ orders[keys[k].order].status = "paid"
                                             /\ keys[k].order \in charged
  /\ \A o \in Orders : orders[o].key # None =>
       /\ orders[o].status = "paid"
       /\ keys[orders[o].key].order # None
       /\ ProductOf[orders[o].key] = ProductOf[o]

\* A key somebody has a licence for never goes back on sale and is never free for
\* another device to bind by a later request.
LicensedIsUsed == \A k \in Keys : licensed[k] # {} => /\ keys[k].status = "used"
                                                      /\ keys[k].device # None

\* No order and no key outlives its product.
ProductOutlivesRows == \A p \in Products : Referenced(p) => product[p] # "absent"

(* What holds until two handlers overlap or one fails. *)

\* Between requests the licences of a key are for the device it is bound to.
LicenceMatchesBinding == ~Disturbed /\ AllAnswered =>
  \A k \in Keys : licensed[k] = {keys[k].device} \ {None}

\* A call-back that dies between its writes wastes at most the key it had taken: the
\* repeated call-back takes another, and only that one is delivered.
CrashWastesOneKey == ~overlapped /\ AllAnswered =>
  Cardinality({k \in Keys : /\ keys[k].order # None
                            /\ orders[keys[k].order].key # k}) <= crashes

KA == INSTANCE KeyAllocation WITH
        paid <- {o \in Orders : orders[o].status = "paid"},
        stock <- {k \in Keys : keys[k].status # "absent"},
        holder <- [k \in Keys |-> keys[k].order],
        bound <- [k \in Keys |-> keys[k].device],
        void <- {k \in Keys : keys[k].revoked}

\* Until two handlers overlap, every statement of theirs is a step of KeyAllocation or
\* changes nothing it promises.
RefinesAllocation ==
  KA!Init /\ [][~Disturbed' => [KA!Next]_(KA!vars)]_vars

(* What the answers of the service say, and overlapping handlers break. *)

\* mall.controller.ts refuses a second device: "Activation key is already bound to
\* another device".
OneDevicePerKey == \A k \in Keys : \A d, e \in licensed[k] : d = e

==============================================================================
