---------------------------- MODULE NestMall_proofs ----------------------------
(***************************************************************************)
(* NestMall for any number of products, orders, keys, devices, requests    *)
(* and handlers, and for any failures.  Kept is what every interleaving of *)
(* the statements keeps: what a handler has read may be stale, but never   *)
(* about what this invariant says.  Alone is what the handlers know until  *)
(* two of them overlap or one fails, and with it they implement            *)
(* KeyAllocation.                                                          *)
(***************************************************************************)
EXTENDS NestMall, FiniteSetTheorems, TLAPS

OrderRow == [status : {"absent", "pending", "paid"}, key : Keys \cup {None}]

KeyRow == [status : {"absent", "unused", "used", "revoked"}, revoked : BOOLEAN,
           order : Orders \cup {None}, device : Devices \cup {None}]

CallBack == [pc : {"idle", "mark", "select", "allocate", "write"}, order : Orders \cup {None},
             row : OrderRow, key : Keys \cup {None}]

Activating == [pc : {"idle", "bind", "log"}, key : Keys \cup {None},
               device : Devices \cup {None}, request : Requests \cup {None}]

TypeOK ==
  /\ product \in [Products -> {"absent", "active", "inactive"}]
  /\ orders \in [Orders -> OrderRow]
  /\ keys \in [Keys -> KeyRow]
  /\ activations \in [Requests -> [key : Keys \cup {None}, device : Devices \cup {None}]]
  /\ notify \in [Notifiers -> CallBack]
  /\ activation \in [Activators -> Activating]
  /\ job \in [Clients -> [pc : {"idle", "order", "keys", "delete"},
                          product : Products \cup {None}]]
  /\ \A c \in Clients : job[c].pc # "idle" => job[c].product \in Products
  /\ charged \subseteq Orders
  /\ licensed \in [Keys -> SUBSET Devices]
  /\ crashes \in 0..MaxCrashes
  /\ overlapped \in BOOLEAN

ChargedExist == \A o \in charged : orders[o].status # "absent"

\* A bound key never goes back to another status: only unbound keys are revoked.
BoundIsUsed == \A k \in Keys : keys[k].device # None => keys[k].status = "used"

\* What a call-back knows of rows that others may write at any time.
NotifyHolds == \A t \in Notifiers : LET n == notify[t] IN
  /\ n.pc # "idle" => n.order \in charged
  /\ n.pc \in {"select", "allocate", "write"} => orders[n.order].status = "paid"
  /\ n.pc \in {"allocate", "write"} => n.key \in Keys /\ ProductOf[n.key] = ProductOf[n.order]
  /\ n.pc = "write" => keys[n.key].order # None

\* And what an activation knows.
ActivationHolds == \A a \in Activators : LET x == activation[a] IN
  /\ x.pc # "idle" => x.key \in Keys /\ x.device \in Devices /\ keys[x.key].status # "absent"
  /\ x.pc = "log" => keys[x.key].device # None

Kept == /\ TypeOK /\ ChargedExist /\ BoundIsUsed /\ NotifyHolds /\ ActivationHolds
        /\ SoldWasPaid /\ LicensedIsUsed /\ ProductOutlivesRows

USE NoneIsNew, RowsHaveProducts, CrashBound
USE DEF OrderRow, NoOrder, NoKey, NoRow, NoNotify, NoActivation, NoJob, tables, calls, history,
        Arrive

LEMMA InitKept == Init => Kept
<1> SUFFICES ASSUME Init PROVE Kept
  OBVIOUS
<1>1. TypeOK
  <2>1. /\ NoOrder \in OrderRow /\ NoKey \in KeyRow /\ NoNotify \in CallBack
        /\ NoActivation \in Activating
    BY DEF KeyRow, CallBack, Activating
  <2>2. crashes \in 0..MaxCrashes
    BY DEF Init
  <2>3. orders \in [Orders -> OrderRow] /\ keys \in [Keys -> KeyRow]
    BY <2>1 DEF Init
  <2>4. notify \in [Notifiers -> CallBack] /\ activation \in [Activators -> Activating]
    BY <2>1 DEF Init
  <2>5. QED
    BY <2>2, <2>3, <2>4 DEF Init, TypeOK
<1>2. ChargedExist /\ BoundIsUsed /\ NotifyHolds /\ ActivationHolds
  BY DEF Init, ChargedExist, BoundIsUsed, NotifyHolds, ActivationHolds
<1>3. SoldWasPaid /\ LicensedIsUsed
  BY DEF Init, SoldWasPaid, LicensedIsUsed
<1>4. ProductOutlivesRows
  BY DEF Init, ProductOutlivesRows, Referenced
<1>5. QED
  BY <1>1, <1>2, <1>3, <1>4 DEF Kept

------------------------------------------------------------------------------
(* Every statement keeps it. *)

LEMMA UpsertProductKept ==
  ASSUME Kept, NEW p \in Products, NEW active \in BOOLEAN, UpsertProduct(p, active)
  PROVE  Kept'
<1>1. TypeOK'
  BY DEF UpsertProduct, Kept, TypeOK, KeyRow, CallBack, Activating, NotifyHolds, ActivationHolds
<1>2. ChargedExist' /\ BoundIsUsed' /\ ActivationHolds' /\ LicensedIsUsed'
  BY <1>1 DEF UpsertProduct, Kept, TypeOK, ChargedExist, BoundIsUsed, ActivationHolds,
              LicensedIsUsed
<1>3. NotifyHolds' /\ SoldWasPaid'
  BY <1>1 DEF UpsertProduct, Kept, TypeOK, ChargedExist, NotifyHolds, SoldWasPaid
<1>4. ProductOutlivesRows'
  BY <1>1 DEF UpsertProduct, Kept, TypeOK, ChargedExist, NotifyHolds, ActivationHolds,
              ProductOutlivesRows, Referenced
<1>5. QED
  BY <1>1, <1>2, <1>3, <1>4 DEF Kept

LEMMA ReadProductKept ==
  ASSUME Kept, NEW c \in Clients, NEW p \in Products, NEW next \in {"order", "keys"},
         ReadProduct(c, p, next)
  PROVE  Kept'
<1>1. TypeOK'
  BY DEF ReadProduct, Kept, TypeOK, KeyRow, CallBack, Activating, NotifyHolds, ActivationHolds
<1>2. ChargedExist' /\ BoundIsUsed' /\ ActivationHolds' /\ LicensedIsUsed'
  BY <1>1 DEF ReadProduct, Kept, TypeOK, ChargedExist, BoundIsUsed, ActivationHolds,
              LicensedIsUsed
<1>3. NotifyHolds' /\ SoldWasPaid'
  BY <1>1 DEF ReadProduct, Kept, TypeOK, ChargedExist, NotifyHolds, SoldWasPaid
<1>4. ProductOutlivesRows'
  BY <1>1 DEF ReadProduct, Kept, TypeOK, ChargedExist, NotifyHolds, ActivationHolds,
              ProductOutlivesRows, Referenced
<1>5. QED
  BY <1>1, <1>2, <1>3, <1>4 DEF Kept

LEMMA InsertOrderKept ==
  ASSUME Kept, NEW c \in Clients, InsertOrder(c)
  PROVE  Kept'
<1>1. CASE UNCHANGED orders
  BY <1>1 DEF InsertOrder, Kept, TypeOK, ChargedExist, BoundIsUsed, ActivationHolds,
              NotifyHolds,
              LicensedIsUsed, SoldWasPaid, ProductOutlivesRows, Referenced
<1>2. ASSUME NEW o \in Orders, ProductOf[o] = job[c].product, orders[o].status = "absent",
             product[job[c].product] # "absent",
             orders' = [orders EXCEPT ![o].status = "pending"]
      PROVE  Kept'
  <2>1. [orders[o] EXCEPT !.status = "pending"] \in OrderRow
    BY DEF Kept, TypeOK
  <2>2. orders' \in [Orders -> OrderRow]
    BY <1>2, <2>1 DEF Kept, TypeOK
  <2>3. TypeOK'
    BY <2>2 DEF InsertOrder, Kept, TypeOK
  <2>4. /\ \A x \in Orders : orders'[x].key = orders[x].key
        /\ \A x \in Orders : x # o => orders'[x] = orders[x]
        /\ orders'[o].status = "pending"
    BY <1>2, <2>2 DEF Kept, TypeOK
  <2>5. o \notin charged /\ orders[o].key = None
    BY <1>2 DEF Kept, ChargedExist, SoldWasPaid
  <2>6. \A x \in charged : x \in Orders /\ orders'[x] = orders[x]
    BY <2>4, <2>5 DEF Kept, TypeOK
  <2>7. ChargedExist' /\ NotifyHolds' /\ SoldWasPaid'
    <3>1. ChargedExist'
      BY <2>6 DEF InsertOrder, Kept, ChargedExist
    <3>2. NotifyHolds'
      BY <2>6 DEF InsertOrder, Kept, NotifyHolds
    <3>3. /\ UNCHANGED <<keys, charged>>
          /\ \A k \in Keys : keys[k].order # None => keys[k].order \in charged
      BY DEF InsertOrder, Kept, SoldWasPaid
    <3>4. \A x \in Orders : orders'[x].key # None => orders'[x] = orders[x]
      BY <2>4, <2>5
    <3>5. SoldWasPaid'
      BY <2>6, <3>3, <3>4 DEF Kept, SoldWasPaid
    <3>6. QED
      BY <3>1, <3>2, <3>5
  <2>8. BoundIsUsed' /\ ActivationHolds' /\ LicensedIsUsed'
    BY DEF InsertOrder, Kept, BoundIsUsed, ActivationHolds, LicensedIsUsed
  <2>9. ProductOutlivesRows'
    BY <1>2, <2>4 DEF InsertOrder, Kept, ProductOutlivesRows, Referenced
  <2>10. QED
    BY <2>3, <2>7, <2>8, <2>9 DEF Kept
<1>3. QED
  BY <1>1, <1>2 DEF InsertOrder

LEMMA InsertKeyKept ==
  ASSUME Kept, NEW c \in Clients, NEW more \in BOOLEAN, InsertKey(c, more)
  PROVE  Kept'
<1>1. TypeOK'
  <2>1. PICK k \in Keys : keys' = [keys EXCEPT ![k].status = "unused"]
    BY DEF InsertKey
  <2>2. keys[k] \in KeyRow
    BY DEF Kept, TypeOK
  <2>3. [keys[k] EXCEPT !.status = "unused"] \in KeyRow
    BY <2>2 DEF KeyRow
  <2>4. keys' \in [Keys -> KeyRow]
    BY <2>1, <2>3 DEF Kept, TypeOK
  <2>5. QED
    BY <2>4 DEF InsertKey, Kept, TypeOK
<1>2. ChargedExist' /\ BoundIsUsed' /\ ActivationHolds' /\ LicensedIsUsed'
  BY <1>1 DEF InsertKey, Kept, TypeOK, ChargedExist, BoundIsUsed, ActivationHolds,
              LicensedIsUsed
<1>3. NotifyHolds' /\ SoldWasPaid'
  BY <1>1 DEF InsertKey, Kept, TypeOK, ChargedExist, NotifyHolds, SoldWasPaid
<1>4. ProductOutlivesRows'
  BY <1>1 DEF InsertKey, Kept, TypeOK, ChargedExist, NotifyHolds, ActivationHolds,
              ProductOutlivesRows, Referenced
<1>5. QED
  BY <1>1, <1>2, <1>3, <1>4 DEF Kept

LEMMA InsertKeyFailsKept ==
  ASSUME Kept, NEW c \in Clients, InsertKeyFails(c)
  PROVE  Kept'
<1>1. TypeOK'
  BY DEF InsertKeyFails, Kept, TypeOK, KeyRow, CallBack, Activating, NotifyHolds,
         ActivationHolds
<1>2. ChargedExist' /\ BoundIsUsed' /\ ActivationHolds' /\ LicensedIsUsed'
  BY <1>1 DEF InsertKeyFails, Kept, TypeOK, ChargedExist, BoundIsUsed, ActivationHolds,
              LicensedIsUsed
<1>3. NotifyHolds' /\ SoldWasPaid'
  BY <1>1 DEF InsertKeyFails, Kept, TypeOK, ChargedExist, NotifyHolds, SoldWasPaid
<1>4. ProductOutlivesRows'
  BY <1>1 DEF InsertKeyFails, Kept, TypeOK, ChargedExist, NotifyHolds, ActivationHolds,
              ProductOutlivesRows, Referenced
<1>5. QED
  BY <1>1, <1>2, <1>3, <1>4 DEF Kept

LEMMA CountKeysKept ==
  ASSUME Kept, NEW c \in Clients, NEW p \in Products, CountKeys(c, p)
  PROVE  Kept'
<1>1. TypeOK'
  BY DEF CountKeys, Kept, TypeOK, KeyRow, CallBack, Activating, NotifyHolds, ActivationHolds
<1>2. ChargedExist' /\ BoundIsUsed' /\ ActivationHolds' /\ LicensedIsUsed'
  BY <1>1 DEF CountKeys, Kept, TypeOK, ChargedExist, BoundIsUsed, ActivationHolds,
              LicensedIsUsed
<1>3. NotifyHolds' /\ SoldWasPaid'
  BY <1>1 DEF CountKeys, Kept, TypeOK, ChargedExist, NotifyHolds, SoldWasPaid
<1>4. ProductOutlivesRows'
  BY <1>1 DEF CountKeys, Kept, TypeOK, ChargedExist, NotifyHolds, ActivationHolds,
              ProductOutlivesRows, Referenced
<1>5. QED
  BY <1>1, <1>2, <1>3, <1>4 DEF Kept

LEMMA DeleteProductKept ==
  ASSUME Kept, NEW c \in Clients, DeleteProduct(c)
  PROVE  Kept'
<1>1. TypeOK'
  BY DEF DeleteProduct, Kept, TypeOK, KeyRow, CallBack, Activating, NotifyHolds, ActivationHolds
<1>2. ChargedExist' /\ BoundIsUsed' /\ ActivationHolds' /\ LicensedIsUsed'
  BY <1>1 DEF DeleteProduct, Kept, TypeOK, ChargedExist, BoundIsUsed, ActivationHolds,
              LicensedIsUsed
<1>3. NotifyHolds' /\ SoldWasPaid'
  BY <1>1 DEF DeleteProduct, Kept, TypeOK, ChargedExist, NotifyHolds, SoldWasPaid
<1>4. ProductOutlivesRows'
  BY <1>1 DEF DeleteProduct, Kept, TypeOK, ChargedExist, NotifyHolds, ActivationHolds,
              ProductOutlivesRows, Referenced
<1>5. QED
  BY <1>1, <1>2, <1>3, <1>4 DEF Kept

LEMMA RevokeKeyKept ==
  ASSUME Kept, NEW k \in Keys, RevokeKey(k)
  PROVE  Kept'
<1>1. TypeOK'
  <2>1. keys' \in [Keys -> KeyRow]
    <3>1. k \in Keys /\ keys[k] \in KeyRow
      BY DEF RevokeKey, Kept, TypeOK, NotifyHolds, ActivationHolds
    <3>2. [keys[k] EXCEPT !.status = "revoked", !.revoked = TRUE] \in KeyRow
      BY <3>1 DEF KeyRow
    <3>3. keys' = [keys EXCEPT ![k] = [keys[k] EXCEPT !.status = "revoked", !.revoked = TRUE]]
      BY DEF RevokeKey
    <3>4. QED
      BY <3>2, <3>3 DEF Kept, TypeOK
  <2>2. QED
    BY <2>1 DEF RevokeKey, Kept, TypeOK, ActivationHolds
<1>2. ChargedExist' /\ BoundIsUsed' /\ ActivationHolds' /\ LicensedIsUsed'
  BY <1>1 DEF RevokeKey, Kept, TypeOK, ChargedExist, BoundIsUsed, ActivationHolds,
              LicensedIsUsed
<1>3. NotifyHolds' /\ SoldWasPaid'
  BY <1>1 DEF RevokeKey, Kept, TypeOK, ChargedExist, NotifyHolds, SoldWasPaid
<1>4. ProductOutlivesRows'
  BY <1>1 DEF RevokeKey, Kept, TypeOK, ChargedExist, NotifyHolds, ActivationHolds,
              ProductOutlivesRows, Referenced
<1>5. QED
  BY <1>1, <1>2, <1>3, <1>4 DEF Kept

LEMMA ChargeKept ==
  ASSUME Kept, NEW o \in Orders, Charge(o)
  PROVE  Kept'
<1>1. TypeOK'
  BY DEF Charge, Kept, TypeOK, KeyRow, CallBack, Activating, NotifyHolds, ActivationHolds
<1>2. ChargedExist' /\ BoundIsUsed' /\ ActivationHolds' /\ LicensedIsUsed'
  BY <1>1 DEF Charge, Kept, TypeOK, ChargedExist, BoundIsUsed, ActivationHolds, LicensedIsUsed
<1>3. NotifyHolds' /\ SoldWasPaid'
  BY <1>1 DEF Charge, Kept, TypeOK, ChargedExist, NotifyHolds, SoldWasPaid
<1>4. ProductOutlivesRows'
  BY <1>1 DEF Charge, Kept, TypeOK, ChargedExist, NotifyHolds, ActivationHolds,
              ProductOutlivesRows, Referenced
<1>5. QED
  BY <1>1, <1>2, <1>3, <1>4 DEF Kept

LEMMA ReadOrderKept ==
  ASSUME Kept, NEW t \in Notifiers, NEW o \in Orders, ReadOrder(t, o)
  PROVE  Kept'
<1>1. TypeOK'
  BY DEF ReadOrder, Kept, TypeOK, KeyRow, CallBack, Activating, NotifyHolds, ActivationHolds
<1>2. ChargedExist' /\ BoundIsUsed' /\ ActivationHolds' /\ LicensedIsUsed'
  BY <1>1 DEF ReadOrder, Kept, TypeOK, ChargedExist, BoundIsUsed, ActivationHolds,
              LicensedIsUsed
<1>3. NotifyHolds' /\ SoldWasPaid'
  BY <1>1 DEF ReadOrder, Kept, TypeOK, ChargedExist, NotifyHolds, SoldWasPaid
<1>4. ProductOutlivesRows'
  BY <1>1 DEF ReadOrder, Kept, TypeOK, ChargedExist, NotifyHolds, ActivationHolds,
              ProductOutlivesRows, Referenced
<1>5. QED
  BY <1>1, <1>2, <1>3, <1>4 DEF Kept

LEMMA MarkPaidKept ==
  ASSUME Kept, NEW t \in Notifiers, MarkPaid(t)
  PROVE  Kept'
<1>1. TypeOK'
  <2>1. orders' \in [Orders -> OrderRow]
    <3>1. notify[t].order \in Orders /\ orders[notify[t].order] \in OrderRow
      BY DEF MarkPaid, Kept, TypeOK, NotifyHolds
    <3>2. [orders[notify[t].order] EXCEPT !.status = "paid"] \in OrderRow
      BY <3>1
    <3>3. orders' = [orders EXCEPT ![notify[t].order] =
                       [orders[notify[t].order] EXCEPT !.status = "paid"]]
      BY DEF MarkPaid
    <3>4. QED
      BY <3>2, <3>3 DEF Kept, TypeOK
  <2>2. notify[t] \in CallBack
    BY DEF Kept, TypeOK
  <2>3. [notify[t] EXCEPT !.pc = "select"] \in CallBack /\ NoNotify \in CallBack
    BY <2>2 DEF CallBack
  <2>4. notify' \in {[notify EXCEPT ![t] = [notify[t] EXCEPT !.pc = "select"]],
                     [notify EXCEPT ![t] = NoNotify]}
    BY DEF MarkPaid
  <2>5. notify' \in [Notifiers -> CallBack]
    BY <2>3, <2>4 DEF Kept, TypeOK
  <2>6. QED
    BY <2>1, <2>5 DEF MarkPaid, Kept, TypeOK
<1>2. ChargedExist' /\ BoundIsUsed' /\ ActivationHolds' /\ LicensedIsUsed'
  BY <1>1 DEF MarkPaid, Kept, TypeOK, ChargedExist, BoundIsUsed, ActivationHolds, LicensedIsUsed
<1>3. SoldWasPaid'
  BY <1>1 DEF MarkPaid, Kept, TypeOK, ChargedExist, NotifyHolds, SoldWasPaid
<1>4. NotifyHolds'
  <2>1. /\ notify[t] \in CallBack /\ notify[t].order \in Orders /\ notify[t].pc = "mark"
        /\ notify[t].order \in charged
    BY DEF MarkPaid, Kept, TypeOK, NotifyHolds
  <2>2. /\ notify'[t].pc \in {"idle", "select"}
        /\ notify'[t].pc # "idle" => notify'[t].order = notify[t].order
        /\ \A s \in Notifiers \ {t} : notify'[s] = notify[s]
    BY <2>1 DEF MarkPaid, Kept, TypeOK, CallBack
  <2>3. /\ orders'[notify[t].order].status = "paid"
        /\ \A o \in Orders : orders[o].status = "paid" => orders'[o].status = "paid"
        /\ keys' = keys /\ charged' = charged
    BY <2>1 DEF MarkPaid, Kept, TypeOK
  <2>4. \A s \in Notifiers : notify[s].pc # "idle" => notify[s].order \in Orders
    BY DEF Kept, TypeOK, NotifyHolds
  <2>5. QED
    BY <2>1, <2>2, <2>3, <2>4 DEF Kept, NotifyHolds
<1>5. ProductOutlivesRows'
  BY <1>1 DEF MarkPaid, Kept, TypeOK, ChargedExist, NotifyHolds, ActivationHolds,
              ProductOutlivesRows, Referenced
<1>6. QED
  BY <1>1, <1>2, <1>3, <1>4, <1>5 DEF Kept

LEMMA SelectKeyKept ==
  ASSUME Kept, NEW t \in Notifiers, NEW k \in Keys, SelectKey(t, k)
  PROVE  Kept'
<1>1. TypeOK'
  <2>1. notify' \in [Notifiers -> CallBack]
    <3>1. notify[t] \in CallBack /\ k \in Keys
      BY DEF SelectKey, Kept, TypeOK, NotifyHolds, ActivationHolds
    <3>2. [notify[t] EXCEPT !.pc = "allocate", !.key = k] \in CallBack
      BY <3>1 DEF CallBack
    <3>3. notify' = [notify EXCEPT ![t] = [notify[t] EXCEPT !.pc = "allocate", !.key = k]]
      BY DEF SelectKey
    <3>4. QED
      BY <3>2, <3>3 DEF Kept, TypeOK
  <2>2. QED
    BY <2>1 DEF SelectKey, Kept, TypeOK, ActivationHolds
<1>2. ChargedExist' /\ BoundIsUsed' /\ ActivationHolds' /\ LicensedIsUsed'
  BY <1>1 DEF SelectKey, Assignable, Kept, TypeOK, ChargedExist, BoundIsUsed, ActivationHolds,
              LicensedIsUsed
<1>3. NotifyHolds' /\ SoldWasPaid'
  BY <1>1 DEF SelectKey, Assignable, Kept, TypeOK, ChargedExist, NotifyHolds, SoldWasPaid
<1>4. ProductOutlivesRows'
  BY <1>1 DEF SelectKey, Assignable, Kept, TypeOK, ChargedExist, NotifyHolds, ActivationHolds,
              ProductOutlivesRows, Referenced
<1>5. QED
  BY <1>1, <1>2, <1>3, <1>4 DEF Kept

LEMMA OutOfStockKept ==
  ASSUME Kept, NEW t \in Notifiers, OutOfStock(t)
  PROVE  Kept'
<1>1. TypeOK'
  BY DEF OutOfStock, Kept, TypeOK, KeyRow, CallBack, Activating, NotifyHolds, ActivationHolds
<1>2. ChargedExist' /\ BoundIsUsed' /\ ActivationHolds' /\ LicensedIsUsed'
  BY <1>1 DEF OutOfStock, Kept, TypeOK, ChargedExist, BoundIsUsed, ActivationHolds,
              LicensedIsUsed
<1>3. NotifyHolds' /\ SoldWasPaid'
  BY <1>1 DEF OutOfStock, Kept, TypeOK, ChargedExist, NotifyHolds, SoldWasPaid
<1>4. ProductOutlivesRows'
  BY <1>1 DEF OutOfStock, Kept, TypeOK, ChargedExist, NotifyHolds, ActivationHolds,
              ProductOutlivesRows, Referenced
<1>5. QED
  BY <1>1, <1>2, <1>3, <1>4 DEF Kept

LEMMA AllocateKeyKept ==
  ASSUME Kept, NEW t \in Notifiers, AllocateKey(t)
  PROVE  Kept'
<1>1. TypeOK'
  <2>1. keys' \in [Keys -> KeyRow]
    <3>1. notify[t].key \in Keys /\ notify[t].order \in Orders /\ keys[notify[t].key] \in KeyRow
      BY DEF AllocateKey, Kept, TypeOK, NotifyHolds, ActivationHolds
    <3>2. [keys[notify[t].key] EXCEPT !.order = notify[t].order] \in KeyRow
      BY <3>1 DEF KeyRow
    <3>3. keys' = [keys EXCEPT ![notify[t].key] =
                     [keys[notify[t].key] EXCEPT !.order = notify[t].order]]
      BY DEF AllocateKey
    <3>4. QED
      BY <3>2, <3>3 DEF Kept, TypeOK
  <2>2. notify' \in [Notifiers -> CallBack]
    <3>1. notify[t] \in CallBack
      BY DEF AllocateKey, Kept, TypeOK, NotifyHolds, ActivationHolds
    <3>2. [notify[t] EXCEPT !.pc = "write"] \in CallBack
      BY <3>1 DEF CallBack
    <3>3. notify' = [notify EXCEPT ![t] = [notify[t] EXCEPT !.pc = "write"]]
      BY DEF AllocateKey
    <3>4. QED
      BY <3>2, <3>3 DEF Kept, TypeOK
  <2>3. QED
    BY <2>1, <2>2 DEF AllocateKey, Kept, TypeOK, ActivationHolds
<1>2. ChargedExist' /\ BoundIsUsed' /\ ActivationHolds' /\ LicensedIsUsed'
  BY <1>1 DEF AllocateKey, Kept, TypeOK, ChargedExist, BoundIsUsed, ActivationHolds,
              LicensedIsUsed
<1>3. NotifyHolds' /\ SoldWasPaid'
  BY <1>1 DEF AllocateKey, Kept, TypeOK, ChargedExist, NotifyHolds, SoldWasPaid
<1>4. ProductOutlivesRows'
  BY <1>1 DEF AllocateKey, Kept, TypeOK, ChargedExist, NotifyHolds, ActivationHolds,
              ProductOutlivesRows, Referenced
<1>5. QED
  BY <1>1, <1>2, <1>3, <1>4 DEF Kept

LEMMA WriteOrderKeyKept ==
  ASSUME Kept, NEW t \in Notifiers, WriteOrderKey(t)
  PROVE  Kept'
<1>1. TypeOK'
  BY DEF WriteOrderKey, Kept, TypeOK, KeyRow, CallBack, Activating, NotifyHolds, ActivationHolds
<1>2. ChargedExist' /\ BoundIsUsed' /\ ActivationHolds' /\ LicensedIsUsed'
  BY <1>1 DEF WriteOrderKey, Kept, TypeOK, ChargedExist, BoundIsUsed, ActivationHolds,
              LicensedIsUsed
<1>3. NotifyHolds' /\ SoldWasPaid'
  BY <1>1 DEF WriteOrderKey, Kept, TypeOK, ChargedExist, NotifyHolds, SoldWasPaid
<1>4. ProductOutlivesRows'
  BY <1>1 DEF WriteOrderKey, Kept, TypeOK, ChargedExist, NotifyHolds, ActivationHolds,
              ProductOutlivesRows, Referenced
<1>5. QED
  BY <1>1, <1>2, <1>3, <1>4 DEF Kept

LEMMA ReadKeyKept ==
  ASSUME Kept, NEW a \in Activators, NEW k \in Keys, NEW d \in Devices, NEW r \in Requests,
         ReadKey(a, k, d, r)
  PROVE  Kept'
<1>1. TypeOK'
  BY DEF ReadKey, Kept, TypeOK, KeyRow, CallBack, Activating, NotifyHolds, ActivationHolds
<1>2. ChargedExist' /\ BoundIsUsed' /\ ActivationHolds' /\ LicensedIsUsed'
  BY <1>1 DEF ReadKey, Kept, TypeOK, ChargedExist, BoundIsUsed, ActivationHolds, LicensedIsUsed
<1>3. NotifyHolds' /\ SoldWasPaid'
  BY <1>1 DEF ReadKey, Kept, TypeOK, ChargedExist, NotifyHolds, SoldWasPaid
<1>4. ProductOutlivesRows'
  BY <1>1 DEF ReadKey, Kept, TypeOK, ChargedExist, NotifyHolds, ActivationHolds,
              ProductOutlivesRows, Referenced
<1>5. QED
  BY <1>1, <1>2, <1>3, <1>4 DEF Kept

LEMMA BindDeviceKept ==
  ASSUME Kept, NEW a \in Activators, BindDevice(a)
  PROVE  Kept'
<1>1. TypeOK'
  <2>1. keys' \in [Keys -> KeyRow]
    <3>1. /\ activation[a].key \in Keys /\ activation[a].device \in Devices
          /\ keys[activation[a].key] \in KeyRow
      BY DEF BindDevice, Kept, TypeOK, NotifyHolds, ActivationHolds
    <3>2. [keys[activation[a].key] EXCEPT !.device = activation[a].device, !.status = "used"]
            \in KeyRow
      BY <3>1 DEF KeyRow
    <3>3. keys' = [keys EXCEPT ![activation[a].key] =
                     [keys[activation[a].key] EXCEPT !.device = activation[a].device,
                                                     !.status = "used"]]
      BY DEF BindDevice
    <3>4. QED
      BY <3>2, <3>3 DEF Kept, TypeOK
  <2>2. activation' \in [Activators -> Activating]
    <3>1. activation[a] \in Activating
      BY DEF BindDevice, Kept, TypeOK, NotifyHolds, ActivationHolds
    <3>2. [activation[a] EXCEPT !.pc = "log"] \in Activating
      BY <3>1 DEF Activating
    <3>3. activation' = [activation EXCEPT ![a] = [activation[a] EXCEPT !.pc = "log"]]
      BY DEF BindDevice
    <3>4. QED
      BY <3>2, <3>3 DEF Kept, TypeOK
  <2>3. QED
    BY <2>1, <2>2 DEF BindDevice, Kept, TypeOK, ActivationHolds
<1>2. ChargedExist' /\ BoundIsUsed' /\ ActivationHolds' /\ LicensedIsUsed'
  BY <1>1 DEF BindDevice, Kept, TypeOK, ChargedExist, BoundIsUsed, ActivationHolds,
              LicensedIsUsed
<1>3. NotifyHolds' /\ SoldWasPaid'
  BY <1>1 DEF BindDevice, Kept, TypeOK, ChargedExist, NotifyHolds, SoldWasPaid
<1>4. ProductOutlivesRows'
  BY <1>1 DEF BindDevice, Kept, TypeOK, ChargedExist, NotifyHolds, ActivationHolds,
              ProductOutlivesRows, Referenced
<1>5. QED
  BY <1>1, <1>2, <1>3, <1>4 DEF Kept

LEMMA LogActivationKept ==
  ASSUME Kept, NEW a \in Activators, LogActivation(a)
  PROVE  Kept'
<1>1. TypeOK'
  BY DEF LogActivation, Kept, TypeOK, KeyRow, CallBack, Activating, NotifyHolds, ActivationHolds
<1>2. ChargedExist' /\ BoundIsUsed' /\ ActivationHolds' /\ LicensedIsUsed'
  BY <1>1 DEF LogActivation, Kept, TypeOK, ChargedExist, BoundIsUsed, ActivationHolds,
              LicensedIsUsed
<1>3. NotifyHolds' /\ SoldWasPaid'
  BY <1>1 DEF LogActivation, Kept, TypeOK, ChargedExist, NotifyHolds, SoldWasPaid
<1>4. ProductOutlivesRows'
  BY <1>1 DEF LogActivation, Kept, TypeOK, ChargedExist, NotifyHolds, ActivationHolds,
              ProductOutlivesRows, Referenced
<1>5. QED
  BY <1>1, <1>2, <1>3, <1>4 DEF Kept

LEMMA CrashKept ==
  ASSUME Kept, Crash
  PROVE  Kept'
<1>1. UNCHANGED <<tables, charged, licensed, overlapped>> /\ crashes' \in 0..MaxCrashes
  BY DEF Crash, Kept, TypeOK
<1>2. ASSUME NEW t \in Notifiers, notify' = [notify EXCEPT ![t] = NoNotify],
             UNCHANGED <<activation, job>>
      PROVE  TypeOK' /\ NotifyHolds' /\ ActivationHolds'
  BY <1>1, <1>2 DEF Kept, TypeOK, CallBack, NotifyHolds, ActivationHolds
<1>3. ASSUME NEW a \in Activators, activation' = [activation EXCEPT ![a] = NoActivation],
             UNCHANGED <<notify, job>>
      PROVE  TypeOK' /\ NotifyHolds' /\ ActivationHolds'
  BY <1>1, <1>3 DEF Kept, TypeOK, Activating, NotifyHolds, ActivationHolds
<1>4. ASSUME NEW c \in Clients, job' = [job EXCEPT ![c] = NoJob],
             UNCHANGED <<notify, activation>>
      PROVE  TypeOK' /\ NotifyHolds' /\ ActivationHolds'
  BY <1>1, <1>4 DEF Kept, TypeOK, NotifyHolds, ActivationHolds
<1>5. TypeOK' /\ NotifyHolds' /\ ActivationHolds'
  BY <1>2, <1>3, <1>4 DEF Crash
<1>6. ChargedExist' /\ BoundIsUsed' /\ SoldWasPaid' /\ LicensedIsUsed' /\ ProductOutlivesRows'
  BY <1>1 DEF Kept, ChargedExist, BoundIsUsed, SoldWasPaid, LicensedIsUsed, ProductOutlivesRows,
              Referenced
<1>7. QED
  BY <1>5, <1>6 DEF Kept

LEMMA StepKept == Kept /\ [Next]_vars => Kept'
<1> SUFFICES ASSUME Kept, [Next]_vars PROVE Kept'
  OBVIOUS
<1>1. CASE UNCHANGED vars
  BY <1>1 DEF vars, Kept, TypeOK, ChargedExist, BoundIsUsed, NotifyHolds, ActivationHolds,
         SoldWasPaid, LicensedIsUsed, ProductOutlivesRows, Referenced
<1>2. CASE Catalogue
  BY <1>2, UpsertProductKept, ReadProductKept, InsertOrderKept, InsertKeyKept,
     InsertKeyFailsKept, CountKeysKept, DeleteProductKept, RevokeKeyKept DEF Catalogue
<1>3. CASE PaymentCallBack
  BY <1>3, ReadOrderKept, MarkPaidKept, SelectKeyKept, OutOfStockKept, AllocateKeyKept,
     WriteOrderKeyKept DEF PaymentCallBack
<1>4. CASE Activation
  BY <1>4, ReadKeyKept, BindDeviceKept, LogActivationKept DEF Activation
<1>5. QED
  BY <1>1, <1>2, <1>3, <1>4, ChargeKept, CrashKept DEF Next

\* Kept holds of every state, however the handlers interleave and fail.
THEOREM KeptAlways == Spec => []Kept
  BY InitKept, StepKept, PTL DEF Spec

\* Every row and every local of a handler keeps its type.
THEOREM TypeOKAlways == Spec => []TypeOK
<1>1. Kept => TypeOK
  BY DEF Kept
<1>2. QED
  BY <1>1, KeptAlways, PTL

\* No overlap of call-backs, activations and revocations, and no failure half-way, hands a
\* key to an order that was not paid for or is of another product.
THEOREM SoldWasPaidAlways == Spec => []SoldWasPaid
<1>1. Kept => SoldWasPaid
  BY DEF Kept
<1>2. QED
  BY <1>1, KeptAlways, PTL

\* Nor does any put a key that somebody has a licence for back on sale.
THEOREM LicensedIsUsedAlways == Spec => []LicensedIsUsed
<1>1. Kept => LicensedIsUsed
  BY DEF Kept
<1>2. QED
  BY <1>1, KeptAlways, PTL

\* The foreign keys alone keep the products of orders and keys.
THEOREM ProductOutlivesRowsAlways == Spec => []ProductOutlivesRows
<1>1. Kept => ProductOutlivesRows
  BY DEF Kept
<1>2. QED
  BY <1>1, KeptAlways, PTL

------------------------------------------------------------------------------
(* What the handlers know until two of them overlap or one fails. *)

OneAtATime ==
  /\ \A s, t \in Notifiers : notify[s].pc # "idle" /\ notify[t].pc # "idle" => s = t
  /\ \A a, b \in Activators : activation[a].pc # "idle" /\ activation[b].pc # "idle" => a = b
  /\ \A t \in Notifiers, a \in Activators : notify[t].pc = "idle" \/ activation[a].pc = "idle"

\* A key names the order that has it, or is about to.
Writing(o, k) == \E t \in Notifiers :
  notify[t].pc = "write" /\ notify[t].order = o /\ notify[t].key = k

SalesAgree ==
  /\ \A k \in Keys : keys[k].order # None =>
       orders[keys[k].order].key = k \/ Writing(keys[k].order, k)
  /\ \A t \in Notifiers : LET n == notify[t] IN
       /\ n.pc # "idle" => orders[n.order].key = None
       /\ n.pc = "allocate" => Assignable(n.order, n.key)

\* A licence names the device of its key, or is about to.
Logging(k) == \E a \in Activators : activation[a].pc = "log" /\ activation[a].key = k

BindingsAgree ==
  /\ \A k \in Keys : /\ licensed[k] \subseteq {keys[k].device}
                     /\ keys[k].device # None => keys[k].device \in licensed[k] \/ Logging(k)
                     /\ keys[k].revoked => keys[k].status = "revoked"
  /\ \A a \in Activators : LET x == activation[a] IN
       /\ x.pc = "bind" => keys[x.key].device = None /\ ~keys[x.key].revoked
       /\ x.pc = "log" => keys[x.key].device = x.device

Alone == ~Disturbed => OneAtATime /\ SalesAgree /\ BindingsAgree

LEMMA InitAlone == Init => Alone
  BY DEF Init, Alone, OneAtATime, SalesAgree, BindingsAgree

LEMMA UpsertProductAlone ==
  ASSUME Kept, Alone, NEW p \in Products, NEW active \in BOOLEAN, UpsertProduct(p, active)
  PROVE  Alone'
<1> SUFFICES ASSUME ~Disturbed' PROVE OneAtATime' /\ SalesAgree' /\ BindingsAgree'
  BY DEF Alone
<1>1. ~Disturbed /\ OneAtATime /\ SalesAgree /\ BindingsAgree
  BY DEF UpsertProduct, Alone, Disturbed, Kept, TypeOK
<1>2. OneAtATime'
  BY <1>1 DEF UpsertProduct, Disturbed, AllAnswered, OneAtATime, Kept, TypeOK, CallBack,
              Activating
<1>3. SalesAgree'
  BY <1>1 DEF UpsertProduct, Disturbed, AllAnswered, OneAtATime, SalesAgree, Writing,
              Assignable,
              Kept, TypeOK, KeyRow, CallBack, NotifyHolds, SoldWasPaid
<1>4. BindingsAgree'
  BY <1>1 DEF UpsertProduct, Disturbed, AllAnswered, OneAtATime, BindingsAgree, Logging,
              Kept, TypeOK, KeyRow, Activating, ActivationHolds, BoundIsUsed
<1>5. QED
  BY <1>2, <1>3, <1>4

LEMMA ReadProductAlone ==
  ASSUME Kept, Alone, NEW c \in Clients, NEW p \in Products, NEW next \in {"order", "keys"},
         ReadProduct(c, p, next)
  PROVE  Alone'
<1> SUFFICES ASSUME ~Disturbed' PROVE OneAtATime' /\ SalesAgree' /\ BindingsAgree'
  BY DEF Alone
<1>1. ~Disturbed /\ OneAtATime /\ SalesAgree /\ BindingsAgree
  BY DEF ReadProduct, Alone, Disturbed, Kept, TypeOK
<1>2. OneAtATime'
  BY <1>1 DEF ReadProduct, Disturbed, AllAnswered, OneAtATime, Kept, TypeOK, CallBack,
              Activating
<1>3. SalesAgree'
  BY <1>1 DEF ReadProduct, Disturbed, AllAnswered, OneAtATime, SalesAgree, Writing, Assignable,
              Kept, TypeOK, KeyRow, CallBack, NotifyHolds, SoldWasPaid
<1>4. BindingsAgree'
  BY <1>1 DEF ReadProduct, Disturbed, AllAnswered, OneAtATime, BindingsAgree, Logging,
              Kept, TypeOK, KeyRow, Activating, ActivationHolds, BoundIsUsed
<1>5. QED
  BY <1>2, <1>3, <1>4

LEMMA InsertOrderAlone ==
  ASSUME Kept, Alone, NEW c \in Clients, InsertOrder(c)
  PROVE  Alone'
<1> SUFFICES ASSUME ~Disturbed' PROVE OneAtATime' /\ SalesAgree' /\ BindingsAgree'
  BY DEF Alone
<1>1. ~Disturbed /\ OneAtATime /\ SalesAgree /\ BindingsAgree
  BY DEF InsertOrder, Alone, Disturbed, Kept, TypeOK
<1>2. OneAtATime'
  BY <1>1 DEF InsertOrder, Disturbed, AllAnswered, OneAtATime, Kept, TypeOK, CallBack,
              Activating
<1>3. SalesAgree'
  <2>1. UNCHANGED <<keys, notify>>
    BY DEF InsertOrder
  <2>2. \A o \in Orders : orders'[o].key = orders[o].key
    <3>1. CASE UNCHANGED orders
      BY <3>1
    <3>2. ASSUME NEW o \in Orders, orders' = [orders EXCEPT ![o].status = "pending"]
          PROVE  \A x \in Orders : orders'[x].key = orders[x].key
      BY <3>2 DEF Kept, TypeOK
    <3>3. QED
      BY <3>1, <3>2 DEF InsertOrder
  <2>3. /\ \A k \in Keys : keys[k].order \in Orders \cup {None}
        /\ \A t \in Notifiers : notify[t].pc # "idle" => notify[t].order \in Orders
    BY DEF Kept, TypeOK, KeyRow, NotifyHolds
  <2>4. QED
    BY <1>1, <2>1, <2>2, <2>3 DEF SalesAgree, Writing, Assignable
<1>4. BindingsAgree'
  BY <1>1 DEF InsertOrder, Disturbed, AllAnswered, OneAtATime, BindingsAgree, Logging,
              Kept, TypeOK, KeyRow, Activating, ActivationHolds, BoundIsUsed
<1>5. QED
  BY <1>2, <1>3, <1>4

LEMMA InsertKeyAlone ==
  ASSUME Kept, Alone, NEW c \in Clients, NEW more \in BOOLEAN, InsertKey(c, more)
  PROVE  Alone'
<1> SUFFICES ASSUME ~Disturbed' PROVE OneAtATime' /\ SalesAgree' /\ BindingsAgree'
  BY DEF Alone
<1>1. ~Disturbed /\ OneAtATime /\ SalesAgree /\ BindingsAgree
  BY DEF InsertKey, Alone, Disturbed, Kept, TypeOK
<1>2. OneAtATime'
  BY <1>1 DEF InsertKey, Disturbed, AllAnswered, OneAtATime, Kept, TypeOK, CallBack, Activating
<1>3. SalesAgree'
  BY <1>1 DEF InsertKey, Disturbed, AllAnswered, OneAtATime, SalesAgree, Writing, Assignable,
              Kept, TypeOK, KeyRow, CallBack, NotifyHolds, SoldWasPaid
<1>4. BindingsAgree'
  BY <1>1 DEF InsertKey, Disturbed, AllAnswered, OneAtATime, BindingsAgree, Logging,
              Kept, TypeOK, KeyRow, Activating, ActivationHolds, BoundIsUsed
<1>5. QED
  BY <1>2, <1>3, <1>4

LEMMA InsertKeyFailsAlone ==
  ASSUME Kept, Alone, NEW c \in Clients, InsertKeyFails(c)
  PROVE  Alone'
<1> SUFFICES ASSUME ~Disturbed' PROVE OneAtATime' /\ SalesAgree' /\ BindingsAgree'
  BY DEF Alone
<1>1. ~Disturbed /\ OneAtATime /\ SalesAgree /\ BindingsAgree
  BY DEF InsertKeyFails, Alone, Disturbed, Kept, TypeOK
<1>2. OneAtATime'
  BY <1>1 DEF InsertKeyFails, Disturbed, AllAnswered, OneAtATime, Kept, TypeOK, CallBack,
              Activating
<1>3. SalesAgree'
  BY <1>1 DEF InsertKeyFails, Disturbed, AllAnswered, OneAtATime, SalesAgree, Writing,
              Assignable,
              Kept, TypeOK, KeyRow, CallBack, NotifyHolds, SoldWasPaid
<1>4. BindingsAgree'
  BY <1>1 DEF InsertKeyFails, Disturbed, AllAnswered, OneAtATime, BindingsAgree, Logging,
              Kept, TypeOK, KeyRow, Activating, ActivationHolds, BoundIsUsed
<1>5. QED
  BY <1>2, <1>3, <1>4

LEMMA CountKeysAlone ==
  ASSUME Kept, Alone, NEW c \in Clients, NEW p \in Products, CountKeys(c, p)
  PROVE  Alone'
<1> SUFFICES ASSUME ~Disturbed' PROVE OneAtATime' /\ SalesAgree' /\ BindingsAgree'
  BY DEF Alone
<1>1. ~Disturbed /\ OneAtATime /\ SalesAgree /\ BindingsAgree
  BY DEF CountKeys, Alone, Disturbed, Kept, TypeOK
<1>2. OneAtATime'
  BY <1>1 DEF CountKeys, Disturbed, AllAnswered, OneAtATime, Kept, TypeOK, CallBack, Activating
<1>3. SalesAgree'
  BY <1>1 DEF CountKeys, Disturbed, AllAnswered, OneAtATime, SalesAgree, Writing, Assignable,
              Kept, TypeOK, KeyRow, CallBack, NotifyHolds, SoldWasPaid
<1>4. BindingsAgree'
  BY <1>1 DEF CountKeys, Disturbed, AllAnswered, OneAtATime, BindingsAgree, Logging,
              Kept, TypeOK, KeyRow, Activating, ActivationHolds, BoundIsUsed
<1>5. QED
  BY <1>2, <1>3, <1>4

LEMMA DeleteProductAlone ==
  ASSUME Kept, Alone, NEW c \in Clients, DeleteProduct(c)
  PROVE  Alone'
<1> SUFFICES ASSUME ~Disturbed' PROVE OneAtATime' /\ SalesAgree' /\ BindingsAgree'
  BY DEF Alone
<1>1. ~Disturbed /\ OneAtATime /\ SalesAgree /\ BindingsAgree
  BY DEF DeleteProduct, Alone, Disturbed, Kept, TypeOK
<1>2. OneAtATime'
  BY <1>1 DEF DeleteProduct, Disturbed, AllAnswered, OneAtATime, Kept, TypeOK, CallBack,
              Activating
<1>3. SalesAgree'
  BY <1>1 DEF DeleteProduct, Disturbed, AllAnswered, OneAtATime, SalesAgree, Writing,
              Assignable,
              Kept, TypeOK, KeyRow, CallBack, NotifyHolds, SoldWasPaid
<1>4. BindingsAgree'
  BY <1>1 DEF DeleteProduct, Disturbed, AllAnswered, OneAtATime, BindingsAgree, Logging,
              Kept, TypeOK, KeyRow, Activating, ActivationHolds, BoundIsUsed
<1>5. QED
  BY <1>2, <1>3, <1>4

LEMMA RevokeKeyAlone ==
  ASSUME Kept, Alone, NEW k \in Keys, RevokeKey(k)
  PROVE  Alone'
<1> SUFFICES ASSUME ~Disturbed' PROVE OneAtATime' /\ SalesAgree' /\ BindingsAgree'
  BY DEF Alone
<1>1. ~Disturbed /\ OneAtATime /\ SalesAgree /\ BindingsAgree
  BY DEF RevokeKey, Alone, Disturbed, Kept, TypeOK
<1>2. OneAtATime'
  BY <1>1 DEF RevokeKey, Disturbed, AllAnswered, OneAtATime, Kept, TypeOK, CallBack, Activating
<1>3. SalesAgree'
  <2>1. AllAnswered /\ UNCHANGED <<orders, notify>>
    BY DEF RevokeKey, Disturbed
  <2>2. \A j \in Keys : keys'[j].order = keys[j].order
    BY DEF RevokeKey, Kept, TypeOK, KeyRow
  <2>3. QED
    BY <1>1, <2>1, <2>2 DEF AllAnswered, SalesAgree, Writing
<1>4. BindingsAgree'
  <2>1. AllAnswered /\ UNCHANGED <<licensed, activation>>
    BY DEF RevokeKey, Disturbed
  <2>2. /\ \A j \in Keys : keys'[j].device = keys[j].device
        /\ \A j \in Keys : j # k => keys'[j] = keys[j]
        /\ keys'[k].status = "revoked"
    BY DEF RevokeKey, Kept, TypeOK, KeyRow
  <2>3. QED
    BY <1>1, <2>1, <2>2 DEF AllAnswered, BindingsAgree, Logging
<1>5. QED
  BY <1>2, <1>3, <1>4

LEMMA ChargeAlone ==
  ASSUME Kept, Alone, NEW o \in Orders, Charge(o)
  PROVE  Alone'
<1> SUFFICES ASSUME ~Disturbed' PROVE OneAtATime' /\ SalesAgree' /\ BindingsAgree'
  BY DEF Alone
<1>1. ~Disturbed /\ OneAtATime /\ SalesAgree /\ BindingsAgree
  BY DEF Charge, Alone, Disturbed, Kept, TypeOK
<1>2. OneAtATime'
  BY <1>1 DEF Charge, Disturbed, AllAnswered, OneAtATime, Kept, TypeOK, CallBack, Activating
<1>3. SalesAgree'
  BY <1>1 DEF Charge, Disturbed, AllAnswered, OneAtATime, SalesAgree, Writing, Assignable,
              Kept, TypeOK, KeyRow, CallBack, NotifyHolds, SoldWasPaid
<1>4. BindingsAgree'
  BY <1>1 DEF Charge, Disturbed, AllAnswered, OneAtATime, BindingsAgree, Logging,
              Kept, TypeOK, KeyRow, Activating, ActivationHolds, BoundIsUsed
<1>5. QED
  BY <1>2, <1>3, <1>4

LEMMA ReadOrderAlone ==
  ASSUME Kept, Alone, NEW t \in Notifiers, NEW o \in Orders, ReadOrder(t, o)
  PROVE  Alone'
<1> SUFFICES ASSUME ~Disturbed' PROVE OneAtATime' /\ SalesAgree' /\ BindingsAgree'
  BY DEF Alone
<1>1. ~Disturbed /\ OneAtATime /\ SalesAgree /\ BindingsAgree
  BY DEF ReadOrder, Alone, Disturbed, Kept, TypeOK
<1>2. OneAtATime'
  <2>1. AllAnswered
    BY DEF ReadOrder, Disturbed
  <2>2. \A s \in Notifiers : s # t => notify'[s] = notify[s]
    BY DEF ReadOrder, Kept, TypeOK
  <2>3. QED
    BY <2>1, <2>2 DEF ReadOrder, AllAnswered, OneAtATime
<1>3. SalesAgree'
  BY <1>1 DEF ReadOrder, Disturbed, AllAnswered, OneAtATime, SalesAgree, Writing, Assignable,
              Kept, TypeOK, KeyRow, CallBack, NotifyHolds, SoldWasPaid
<1>4. BindingsAgree'
  BY <1>1 DEF ReadOrder, Disturbed, AllAnswered, OneAtATime, BindingsAgree, Logging,
              Kept, TypeOK, KeyRow, Activating, ActivationHolds, BoundIsUsed
<1>5. QED
  BY <1>2, <1>3, <1>4

LEMMA MarkPaidAlone ==
  ASSUME Kept, Alone, NEW t \in Notifiers, MarkPaid(t)
  PROVE  Alone'
<1> SUFFICES ASSUME ~Disturbed' PROVE OneAtATime' /\ SalesAgree' /\ BindingsAgree'
  BY DEF Alone
<1>1. ~Disturbed /\ OneAtATime /\ SalesAgree /\ BindingsAgree
  BY DEF MarkPaid, Alone, Disturbed, Kept, TypeOK
<1>2. OneAtATime'
  BY <1>1 DEF MarkPaid, Disturbed, AllAnswered, OneAtATime, Kept, TypeOK, CallBack, Activating
<1>3. SalesAgree'
  <2>1. /\ notify[t] \in CallBack /\ notify[t].order \in Orders /\ notify[t].pc = "mark"
        /\ orders[notify[t].order].key = None
    BY <1>1 DEF MarkPaid, Kept, TypeOK, NotifyHolds, SalesAgree
  <2>2. /\ \A s \in Notifiers \ {t} : notify[s].pc = "idle" /\ notify'[s] = notify[s]
        /\ notify'[t].pc \in {"idle", "select"}
        /\ notify'[t].pc # "idle" => notify'[t].order = notify[t].order
    BY <1>1, <2>1 DEF MarkPaid, OneAtATime, Kept, TypeOK, CallBack
  <2>3. keys' = keys /\ \A o \in Orders : orders'[o].key = orders[o].key
    BY <2>1 DEF MarkPaid, Kept, TypeOK
  <2>4. \A k \in Keys : /\ keys[k].order # None => keys[k].order \in Orders
                       /\ ~Writing(keys[k].order, k)
    BY <2>1, <2>2 DEF Kept, TypeOK, KeyRow, Writing
  <2>5. QED
    BY <1>1, <2>1, <2>2, <2>3, <2>4 DEF SalesAgree
<1>4. BindingsAgree'
  BY <1>1 DEF MarkPaid, Disturbed, AllAnswered, OneAtATime, BindingsAgree, Logging,
              Kept, TypeOK, KeyRow, Activating, ActivationHolds, BoundIsUsed
<1>5. QED
  BY <1>2, <1>3, <1>4

LEMMA SelectKeyAlone ==
  ASSUME Kept, Alone, NEW t \in Notifiers, NEW k \in Keys, SelectKey(t, k)
  PROVE  Alone'
<1> SUFFICES ASSUME ~Disturbed' PROVE OneAtATime' /\ SalesAgree' /\ BindingsAgree'
  BY DEF Alone
<1>1. ~Disturbed /\ OneAtATime /\ SalesAgree /\ BindingsAgree
  BY DEF SelectKey, Assignable, Alone, Disturbed, Kept, TypeOK
<1>2. OneAtATime'
  BY <1>1 DEF SelectKey, Disturbed, AllAnswered, OneAtATime, Kept, TypeOK, CallBack, Activating
<1>3. SalesAgree'
  BY <1>1 DEF SelectKey, Disturbed, AllAnswered, OneAtATime, SalesAgree, Writing, Assignable,
              Kept, TypeOK, KeyRow, CallBack, NotifyHolds, SoldWasPaid
<1>4. BindingsAgree'
  BY <1>1 DEF SelectKey, Assignable, Disturbed, AllAnswered, OneAtATime, BindingsAgree, Logging,
              Kept, TypeOK, KeyRow, Activating, ActivationHolds, BoundIsUsed
<1>5. QED
  BY <1>2, <1>3, <1>4

LEMMA OutOfStockAlone ==
  ASSUME Kept, Alone, NEW t \in Notifiers, OutOfStock(t)
  PROVE  Alone'
<1> SUFFICES ASSUME ~Disturbed' PROVE OneAtATime' /\ SalesAgree' /\ BindingsAgree'
  BY DEF Alone
<1>1. ~Disturbed /\ OneAtATime /\ SalesAgree /\ BindingsAgree
  BY DEF OutOfStock, Alone, Disturbed, Kept, TypeOK
<1>2. OneAtATime'
  BY <1>1 DEF OutOfStock, Disturbed, AllAnswered, OneAtATime, Kept, TypeOK, CallBack, Activating
<1>3. SalesAgree'
  <2>1. /\ notify[t].pc = "select"
        /\ \A s \in Notifiers : s # t => notify[s].pc = "idle"
    BY <1>1 DEF OutOfStock, OneAtATime
  <2>2. \A s \in Notifiers : notify'[s].pc = "idle"
    BY <2>1 DEF OutOfStock, Kept, TypeOK
  <2>3. \A k \in Keys : keys[k].order # None => orders[keys[k].order].key = k
    BY <1>1, <2>1 DEF SalesAgree, Writing
  <2>4. UNCHANGED <<orders, keys>>
    BY DEF OutOfStock
  <2>5. QED
    BY <2>2, <2>3, <2>4 DEF SalesAgree
<1>4. BindingsAgree'
  BY <1>1 DEF OutOfStock, Disturbed, AllAnswered, OneAtATime, BindingsAgree, Logging,
              Kept, TypeOK, KeyRow, Activating, ActivationHolds, BoundIsUsed
<1>5. QED
  BY <1>2, <1>3, <1>4

LEMMA AllocateKeyAlone ==
  ASSUME Kept, Alone, NEW t \in Notifiers, AllocateKey(t)
  PROVE  Alone'
<1> SUFFICES ASSUME ~Disturbed' PROVE OneAtATime' /\ SalesAgree' /\ BindingsAgree'
  BY DEF Alone
<1>1. ~Disturbed /\ OneAtATime /\ SalesAgree /\ BindingsAgree
  BY DEF AllocateKey, Alone, Disturbed, Kept, TypeOK
<1>2. OneAtATime'
  BY <1>1 DEF AllocateKey, Disturbed, AllAnswered, OneAtATime, Kept, TypeOK, CallBack,
              Activating
<1>3. SalesAgree'
  <2> DEFINE o == notify[t].order
             k == notify[t].key
  <2>1. o \in Orders /\ k \in Keys /\ notify[t].pc = "allocate"
    BY DEF AllocateKey, Kept, TypeOK, NotifyHolds
  <2>2. /\ \A j \in Keys : j # k => keys'[j] = keys[j]
        /\ keys'[k].order = o
        /\ \A s \in Notifiers : s # t => notify'[s] = notify[s]
        /\ notify'[t].pc = "write" /\ notify'[t].order = o /\ notify'[t].key = k
        /\ UNCHANGED orders
    BY <2>1 DEF AllocateKey, Kept, TypeOK, KeyRow, CallBack
  <2>3. \A s \in Notifiers : s # t => notify[s].pc = "idle"
    BY <1>1, <2>1 DEF OneAtATime
  <2>4. Writing(o, k)'
    BY <2>2 DEF Writing
  <2>5. \A j \in Keys : j # k /\ keys[j].order # None => orders[keys[j].order].key = j
    BY <1>1, <2>1, <2>3 DEF SalesAgree, Writing
  <2>6. orders[o].key = None
    BY <1>1, <2>1 DEF SalesAgree
  <2>7. ASSUME NEW j \in Keys, keys'[j].order # None
        PROVE  (orders[keys[j].order].key = j \/ Writing(keys[j].order, j))'
    <3>1. CASE j = k
      BY <2>2, <3>1 DEF Writing
    <3>2. CASE j # k
      BY <2>2, <2>5, <2>7, <3>2
    <3>3. QED
      BY <3>1, <3>2
  <2>8. \A s \in Notifiers : /\ notify'[s].pc # "idle" => orders'[notify'[s].order].key = None
                             /\ notify'[s].pc # "allocate"
    BY <2>2, <2>3, <2>6
  <2>9. QED
    BY <2>7, <2>8 DEF SalesAgree
<1>4. BindingsAgree'
  BY <1>1 DEF AllocateKey, Disturbed, AllAnswered, OneAtATime, BindingsAgree, Logging,
              Kept, TypeOK, KeyRow, Activating, ActivationHolds, BoundIsUsed
<1>5. QED
  BY <1>2, <1>3, <1>4

LEMMA WriteOrderKeyAlone ==
  ASSUME Kept, Alone, NEW t \in Notifiers, WriteOrderKey(t)
  PROVE  Alone'
<1> SUFFICES ASSUME ~Disturbed' PROVE OneAtATime' /\ SalesAgree' /\ BindingsAgree'
  BY DEF Alone
<1>1. ~Disturbed /\ OneAtATime /\ SalesAgree /\ BindingsAgree
  BY DEF WriteOrderKey, Alone, Disturbed, Kept, TypeOK
<1>2. OneAtATime'
  BY <1>1 DEF WriteOrderKey, Disturbed, AllAnswered, OneAtATime, Kept, TypeOK, CallBack,
              Activating
<1>3. SalesAgree'
  BY <1>1 DEF WriteOrderKey, Disturbed, AllAnswered, OneAtATime, SalesAgree, Writing,
              Assignable,
              Kept, TypeOK, KeyRow, CallBack, NotifyHolds, SoldWasPaid
<1>4. BindingsAgree'
  BY <1>1 DEF WriteOrderKey, Disturbed, AllAnswered, OneAtATime, BindingsAgree, Logging,
              Kept, TypeOK, KeyRow, Activating, ActivationHolds, BoundIsUsed
<1>5. QED
  BY <1>2, <1>3, <1>4

LEMMA ReadKeyAlone ==
  ASSUME Kept, Alone, NEW a \in Activators, NEW k \in Keys, NEW d \in Devices, NEW r \in Requests,
         ReadKey(a, k, d, r)
  PROVE  Alone'
<1> SUFFICES ASSUME ~Disturbed' PROVE OneAtATime' /\ SalesAgree' /\ BindingsAgree'
  BY DEF Alone
<1>1. ~Disturbed /\ OneAtATime /\ SalesAgree /\ BindingsAgree
  BY DEF ReadKey, Alone, Disturbed, Kept, TypeOK
<1>2. OneAtATime'
  <2>1. AllAnswered
    BY DEF ReadKey, Disturbed
  <2>2. \A b \in Activators : b # a => activation'[b] = activation[b]
    BY DEF ReadKey, Kept, TypeOK
  <2>3. QED
    BY <2>1, <2>2 DEF ReadKey, AllAnswered, OneAtATime
<1>3. SalesAgree'
  BY <1>1 DEF ReadKey, Disturbed, AllAnswered, OneAtATime, SalesAgree, Writing, Assignable,
              Kept, TypeOK, KeyRow, CallBack, NotifyHolds, SoldWasPaid
<1>4. BindingsAgree'
  BY <1>1 DEF ReadKey, Disturbed, AllAnswered, OneAtATime, BindingsAgree, Logging,
              Kept, TypeOK, KeyRow, Activating, ActivationHolds, BoundIsUsed
<1>5. QED
  BY <1>2, <1>3, <1>4

LEMMA BindDeviceAlone ==
  ASSUME Kept, Alone, NEW a \in Activators, BindDevice(a)
  PROVE  Alone'
<1> SUFFICES ASSUME ~Disturbed' PROVE OneAtATime' /\ SalesAgree' /\ BindingsAgree'
  BY DEF Alone
<1>1. ~Disturbed /\ OneAtATime /\ SalesAgree /\ BindingsAgree
  BY DEF BindDevice, Alone, Disturbed, Kept, TypeOK
<1>2. OneAtATime'
  BY <1>1 DEF BindDevice, Disturbed, AllAnswered, OneAtATime, Kept, TypeOK, CallBack, Activating
<1>3. SalesAgree'
  BY <1>1 DEF BindDevice, Disturbed, AllAnswered, OneAtATime, SalesAgree, Writing, Assignable,
              Kept, TypeOK, KeyRow, CallBack, NotifyHolds, SoldWasPaid
<1>4. BindingsAgree'
  BY <1>1 DEF BindDevice, Disturbed, AllAnswered, OneAtATime, BindingsAgree, Logging,
              Kept, TypeOK, KeyRow, Activating, ActivationHolds, BoundIsUsed
<1>5. QED
  BY <1>2, <1>3, <1>4

LEMMA LogActivationAlone ==
  ASSUME Kept, Alone, NEW a \in Activators, LogActivation(a)
  PROVE  Alone'
<1> SUFFICES ASSUME ~Disturbed' PROVE OneAtATime' /\ SalesAgree' /\ BindingsAgree'
  BY DEF Alone
<1>1. ~Disturbed /\ OneAtATime /\ SalesAgree /\ BindingsAgree
  BY DEF LogActivation, Alone, Disturbed, Kept, TypeOK
<1>2. OneAtATime'
  BY <1>1 DEF LogActivation, Disturbed, AllAnswered, OneAtATime, Kept, TypeOK, CallBack,
              Activating
<1>3. SalesAgree'
  BY <1>1 DEF LogActivation, Disturbed, AllAnswered, OneAtATime, SalesAgree, Writing,
              Assignable,
              Kept, TypeOK, KeyRow, CallBack, NotifyHolds, SoldWasPaid
<1>4. BindingsAgree'
  BY <1>1 DEF LogActivation, Disturbed, AllAnswered, OneAtATime, BindingsAgree, Logging,
              Kept, TypeOK, KeyRow, Activating, ActivationHolds, BoundIsUsed
<1>5. QED
  BY <1>2, <1>3, <1>4

LEMMA CrashAlone ==
  ASSUME Kept, Alone, Crash
  PROVE  Alone'
<1> SUFFICES ASSUME ~Disturbed' PROVE OneAtATime' /\ SalesAgree' /\ BindingsAgree'
  BY DEF Alone
<1>1. ~Disturbed /\ OneAtATime /\ SalesAgree /\ BindingsAgree
  BY DEF Crash, Alone, Disturbed, Kept, TypeOK
<1>2. OneAtATime'
  BY <1>1 DEF Crash, Disturbed, AllAnswered, OneAtATime, Kept, TypeOK, CallBack, Activating
<1>3. SalesAgree'
  BY <1>1 DEF Crash, Disturbed, AllAnswered, OneAtATime, SalesAgree, Writing, Assignable,
              Kept, TypeOK, KeyRow, CallBack, NotifyHolds, SoldWasPaid
<1>4. BindingsAgree'
  BY <1>1 DEF Crash, Disturbed, AllAnswered, OneAtATime, BindingsAgree, Logging,
              Kept, TypeOK, KeyRow, Activating, ActivationHolds, BoundIsUsed
<1>5. QED
  BY <1>2, <1>3, <1>4

LEMMA StepAlone == Kept /\ Alone /\ [Next]_vars => Alone'
<1> SUFFICES ASSUME Kept, Alone, [Next]_vars PROVE Alone'
  OBVIOUS
<1>1. CASE UNCHANGED vars
  BY <1>1 DEF vars, Alone, Disturbed, OneAtATime, SalesAgree, BindingsAgree, Writing, Logging,
              Assignable
<1>2. CASE Catalogue
  BY <1>2, UpsertProductAlone, ReadProductAlone, InsertOrderAlone, InsertKeyAlone,
     InsertKeyFailsAlone, CountKeysAlone, DeleteProductAlone, RevokeKeyAlone DEF Catalogue
<1>3. CASE PaymentCallBack
  BY <1>3, ReadOrderAlone, MarkPaidAlone, SelectKeyAlone, OutOfStockAlone, AllocateKeyAlone,
     WriteOrderKeyAlone DEF PaymentCallBack
<1>4. CASE Activation
  BY <1>4, ReadKeyAlone, BindDeviceAlone, LogActivationAlone DEF Activation
<1>5. QED
  BY <1>1, <1>2, <1>3, <1>4, ChargeAlone, CrashAlone DEF Next

\* While requests follow one another, the tables agree but for the call that is half-way.
THEOREM AloneAlways == Spec => []Alone
  BY InitKept, StepKept, InitAlone, StepAlone, PTL DEF Spec

\* While requests follow one another, the licences of a key are for its device.
THEOREM LicenceMatchesBindingAlways == Spec => []LicenceMatchesBinding
<1>1. Kept /\ Alone => LicenceMatchesBinding
  BY DEF Kept, TypeOK, Alone, BindingsAgree, LicenceMatchesBinding, Logging, AllAnswered
<1>2. QED
  BY <1>1, KeptAlways, AloneAlways, PTL

------------------------------------------------------------------------------
(* What a call-back that fails half-way leaves. *)

\* The keys that were allocated and that no order names, but for the one that the call-back
\* in progress is about to write to its order.
InHand == {k \in Keys : \E t \in Notifiers : notify[t].pc = "write" /\ notify[t].key = k}
Wasted == {k \in Keys : keys[k].order # None /\ orders[keys[k].order].key # k}

OrderIsOpen == \A t \in Notifiers : LET n == notify[t] IN
  /\ n.pc # "idle" => orders[n.order].key = None
  /\ n.pc = "write" => keys[n.key].order = n.order

CrashesCounted == IsFiniteSet(Wasted \ InHand) /\ Cardinality(Wasted \ InHand) <= crashes

InTurn == ~overlapped => OneAtATime /\ OrderIsOpen /\ CrashesCounted

\* No more keys are wasted than before.
LEMMA FewerWasted ==
  ASSUME TypeOK, CrashesCounted, Wasted' \ InHand' \subseteq Wasted \ InHand, crashes' = crashes
  PROVE  CrashesCounted'
<1>1. /\ IsFiniteSet(Wasted' \ InHand')
      /\ Cardinality(Wasted' \ InHand') <= Cardinality(Wasted \ InHand)
  BY FS_Subset DEF CrashesCounted
<1>2. /\ Cardinality(Wasted' \ InHand') \in Nat /\ Cardinality(Wasted \ InHand) \in Nat
      /\ crashes \in Nat
  BY <1>1, FS_CardinalityType DEF CrashesCounted, TypeOK
<1>3. QED
  BY <1>1, <1>2 DEF CrashesCounted

\* What leaves the allocation of keys and the keys of orders alone.
LEMMA SalesUntouched ==
  ASSUME TypeOK, CrashesCounted, notify' = notify, crashes' = crashes,
         \A k \in Keys : keys'[k].order = keys[k].order,
         \A o \in Orders : orders'[o].key = orders[o].key
  PROVE  CrashesCounted'
<1>1. Wasted' \subseteq Wasted /\ InHand' = InHand
  BY DEF Wasted, InHand, TypeOK, KeyRow
<1>2. QED
  BY <1>1, FewerWasted

\* What leaves the sales alone.
Aside == /\ notify' = notify /\ crashes' = crashes /\ (overlapped => overlapped')
         /\ \A k \in Keys : keys'[k].order = keys[k].order
         /\ \A o \in Orders : orders'[o].key = orders[o].key

\* A call-back or an activation that is in progress, or that finds no other.
CallsBack(t) == /\ notify[t].pc # "idle" \/ overlapped' \/ AllAnswered
                /\ \E n : notify' = [notify EXCEPT ![t] = n]
                /\ activation' = activation /\ (overlapped => overlapped')
Activates(a) == /\ activation[a].pc # "idle" \/ overlapped' \/ AllAnswered
                /\ \E x : activation' = [activation EXCEPT ![a] = x]

LEMMA CatalogueAside ==
  ASSUME Kept, Catalogue
  PROVE  Aside /\ activation' = activation
<1>1. ASSUME NEW p \in Products, NEW active \in BOOLEAN, UpsertProduct(p, active)
      PROVE  Aside /\ activation' = activation
  BY <1>1 DEF UpsertProduct, Aside
<1>2. ASSUME NEW c \in Clients, NEW p \in Products, NEW next, ReadProduct(c, p, next)
      PROVE  Aside /\ activation' = activation
  BY <1>2 DEF ReadProduct, Aside
<1>3. ASSUME NEW c \in Clients, NEW p \in Products, CountKeys(c, p)
      PROVE  Aside /\ activation' = activation
  BY <1>3 DEF CountKeys, Aside
<1>4. ASSUME NEW c \in Clients, InsertOrder(c) PROVE Aside /\ activation' = activation
  BY <1>4 DEF InsertOrder, Aside, Kept, TypeOK
<1>5. ASSUME NEW c \in Clients, DeleteProduct(c) \/ InsertKeyFails(c)
      PROVE  Aside /\ activation' = activation
  BY <1>5 DEF DeleteProduct, InsertKeyFails, Aside
<1>6. ASSUME NEW c \in Clients, NEW more \in BOOLEAN, InsertKey(c, more)
      PROVE  Aside /\ activation' = activation
  BY <1>6 DEF InsertKey, Aside, Kept, TypeOK, KeyRow
<1>7. ASSUME NEW k \in Keys, RevokeKey(k) PROVE Aside /\ activation' = activation
  BY <1>7 DEF RevokeKey, Aside, Kept, TypeOK, KeyRow
<1>8. QED
  BY <1>1, <1>2, <1>3, <1>4, <1>5, <1>6, <1>7 DEF Catalogue

LEMMA ActivationAside ==
  ASSUME Kept, Activation
  PROVE  Aside /\ \E a \in Activators : Activates(a)
<1>1. ASSUME NEW a \in Activators, NEW k \in Keys, NEW d \in Devices, NEW r \in Requests,
             ReadKey(a, k, d, r)
      PROVE  Aside /\ Activates(a)
  BY <1>1 DEF ReadKey, Aside, Activates
<1>2. ASSUME NEW a \in Activators, BindDevice(a) PROVE Aside /\ Activates(a)
  <2>1. Aside
    BY <1>2 DEF BindDevice, Aside, Kept, TypeOK, KeyRow
  <2>2. Activates(a)
    BY <1>2 DEF BindDevice, Activates
  <2>3. QED
    BY <2>1, <2>2
<1>3. ASSUME NEW a \in Activators, LogActivation(a) PROVE Aside /\ Activates(a)
  BY <1>3 DEF LogActivation, Aside, Activates
<1>4. QED
  BY <1>1, <1>2, <1>3 DEF Activation

LEMMA CallBackSteps ==
  ASSUME PaymentCallBack
  PROVE  \E t \in Notifiers : CallsBack(t)
<1>1. ASSUME NEW t \in Notifiers, NEW o \in Orders, ReadOrder(t, o) PROVE CallsBack(t)
  BY <1>1 DEF ReadOrder, CallsBack
<1>2. ASSUME NEW t \in Notifiers, MarkPaid(t) PROVE CallsBack(t)
  BY <1>2 DEF MarkPaid, CallsBack
<1>3. ASSUME NEW t \in Notifiers, NEW k \in Keys, SelectKey(t, k) PROVE CallsBack(t)
  BY <1>3 DEF SelectKey, CallsBack
<1>4. ASSUME NEW t \in Notifiers, OutOfStock(t) \/ WriteOrderKey(t) PROVE CallsBack(t)
  BY <1>4 DEF OutOfStock, WriteOrderKey, CallsBack
<1>5. ASSUME NEW t \in Notifiers, AllocateKey(t) PROVE CallsBack(t)
  BY <1>5 DEF AllocateKey, CallsBack
<1>6. QED
  BY <1>1, <1>2, <1>3, <1>4, <1>5 DEF PaymentCallBack

LEMMA OthersAside ==
  ASSUME (\E o \in Orders : Charge(o)) \/ UNCHANGED vars
  PROVE  Aside /\ activation' = activation
  BY DEF Charge, vars, Aside

\* Of requests that do not overlap, one at most is in progress.
LEMMA StepOneAtATime ==
  ASSUME Kept, OneAtATime, [Next]_vars, ~overlapped'
  PROVE  OneAtATime'
<1>1. ASSUME UNCHANGED <<notify, activation>> PROVE OneAtATime'
  BY <1>1 DEF OneAtATime
<1>2. ASSUME NEW t \in Notifiers, notify[t].pc # "idle" \/ AllAnswered, activation' = activation,
             NEW n, notify' = [notify EXCEPT ![t] = n]
      PROVE  OneAtATime'
  BY <1>2 DEF OneAtATime, AllAnswered, Kept, TypeOK
<1>3. ASSUME NEW a \in Activators, activation[a].pc # "idle" \/ AllAnswered, notify' = notify,
             NEW x, activation' = [activation EXCEPT ![a] = x]
      PROVE  OneAtATime'
  BY <1>3 DEF OneAtATime, AllAnswered, Kept, TypeOK
<1>4. CASE PaymentCallBack
  BY <1>2, <1>4, CallBackSteps DEF CallsBack
<1>5. CASE Activation
  BY <1>3, <1>5, ActivationAside DEF Activates, Aside
<1>6. CASE Crash
  <2>1. \/ \E t \in Notifiers : notify[t].pc # "idle" /\ notify' = [notify EXCEPT ![t] = NoNotify]
                                /\ activation' = activation
        \/ \E a \in Activators : /\ activation[a].pc # "idle" /\ notify' = notify
                                 /\ activation' = [activation EXCEPT ![a] = NoActivation]
        \/ UNCHANGED <<notify, activation>>
    BY <1>6 DEF Crash
  <2>2. QED
    BY <1>1, <1>2, <1>3, <2>1
<1>7. CASE Catalogue \/ (\E o \in Orders : Charge(o)) \/ UNCHANGED vars
  BY <1>1, <1>7, CatalogueAside, OthersAside DEF Aside
<1>8. QED
  BY <1>4, <1>5, <1>6, <1>7 DEF Next

\* Most statements touch neither.
LEMMA UntouchedInTurn ==
  ASSUME Kept, OrderIsOpen, CrashesCounted, notify' = notify, crashes' = crashes,
         \A k \in Keys : keys'[k].order = keys[k].order,
         \A o \in Orders : orders'[o].key = orders[o].key
  PROVE  OrderIsOpen' /\ CrashesCounted'
<1>1. \A t \in Notifiers : /\ notify[t].pc # "idle" => notify[t].order \in Orders
                           /\ notify[t].pc = "write" => notify[t].key \in Keys
  BY DEF Kept, TypeOK, NotifyHolds
<1>2. OrderIsOpen'
  BY <1>1 DEF OrderIsOpen
<1>3. QED
  BY <1>2, SalesUntouched DEF Kept

LEMMA CallBackInTurn ==
  ASSUME Kept, OneAtATime, OrderIsOpen, CrashesCounted, NEW t \in Notifiers, NEW n,
         notify' = [notify EXCEPT ![t] = n], UNCHANGED <<orders, keys, crashes>>,
         notify[t].pc # "write", notify[t].pc # "idle" \/ AllAnswered, n.pc # "write",
         n.pc # "idle" => orders[n.order].key = None
  PROVE  OrderIsOpen' /\ CrashesCounted'
<1>1. /\ notify'[t] = n
      /\ \A s \in Notifiers \ {t} : notify[s].pc = "idle" /\ notify'[s] = notify[s]
  BY DEF OneAtATime, AllAnswered, Kept, TypeOK
<1>2. OrderIsOpen'
  BY <1>1 DEF OrderIsOpen
<1>3. Wasted' \subseteq Wasted /\ InHand = {}
  BY <1>1 DEF Wasted, InHand
<1>4. QED
  BY <1>2, <1>3, FewerWasted DEF Kept

LEMMA ReadOrderInTurn ==
  ASSUME Kept, OneAtATime, OrderIsOpen, CrashesCounted, ~overlapped',
         NEW t \in Notifiers, NEW o \in Orders, ReadOrder(t, o)
  PROVE  OrderIsOpen' /\ CrashesCounted'
<1> DEFINE n == [pc |-> IF orders[o].status = "paid" THEN "select" ELSE "mark",
                 order |-> o, row |-> orders[o], key |-> None]
<1>1. /\ notify[t].pc = "idle" /\ AllAnswered
      /\ notify' = [notify EXCEPT ![t] = n]
  BY DEF ReadOrder
<1>2. orders[o].key = None
  BY DEF ReadOrder, Kept, SoldWasPaid
<1>3. UNCHANGED <<orders, keys, crashes>>
  BY DEF ReadOrder
<1>4. n.pc # "write" /\ n.order = o
  OBVIOUS
<1> HIDE DEF n
<1>5. QED
  BY <1>1, <1>2, <1>3, <1>4, CallBackInTurn

LEMMA MarkPaidInTurn ==
  ASSUME Kept, OneAtATime, OrderIsOpen, CrashesCounted, NEW t \in Notifiers, MarkPaid(t)
  PROVE  OrderIsOpen' /\ CrashesCounted'
<1>1. /\ notify[t] \in CallBack /\ notify[t].order \in Orders /\ notify[t].pc = "mark"
      /\ orders[notify[t].order].key = None
  BY DEF MarkPaid, Kept, TypeOK, NotifyHolds, OrderIsOpen
<1>2. keys' = keys /\ crashes' = crashes /\ \A o \in Orders : orders'[o].key = orders[o].key
  BY <1>1 DEF MarkPaid, Kept, TypeOK
<1>3. /\ \A s \in Notifiers \ {t} : notify[s].pc = "idle" /\ notify'[s] = notify[s]
      /\ notify'[t].pc \in {"idle", "select"}
      /\ notify'[t].pc # "idle" => notify'[t].order = notify[t].order
  BY <1>1 DEF MarkPaid, OneAtATime, Kept, TypeOK, CallBack
<1>4. OrderIsOpen'
  BY <1>1, <1>2, <1>3 DEF OrderIsOpen
<1>5. Wasted' \subseteq Wasted
  BY <1>2 DEF Wasted, Kept, TypeOK, KeyRow
<1>6. InHand = {}
  BY <1>1, <1>3 DEF InHand
<1>7. QED
  BY <1>2, <1>4, <1>5, <1>6, FewerWasted DEF Kept

LEMMA SelectKeyInTurn ==
  ASSUME Kept, OneAtATime, OrderIsOpen, CrashesCounted,
         NEW t \in Notifiers, NEW k \in Keys, SelectKey(t, k)
  PROVE  OrderIsOpen' /\ CrashesCounted'
<1> DEFINE n == [notify[t] EXCEPT !.pc = "allocate", !.key = k]
<1>1. notify[t] \in CallBack /\ notify[t].pc = "select" /\ orders[notify[t].order].key = None
  BY DEF SelectKey, Kept, TypeOK, OrderIsOpen
<1>2. n.pc = "allocate" /\ n.order = notify[t].order
  BY <1>1 DEF CallBack
<1>3. notify' = [notify EXCEPT ![t] = n] /\ UNCHANGED <<orders, keys, crashes>>
  BY DEF SelectKey
<1>4. QED
  BY <1>1, <1>2, <1>3, CallBackInTurn

LEMMA AllocateKeyInTurn ==
  ASSUME Kept, OneAtATime, OrderIsOpen, CrashesCounted, NEW t \in Notifiers, AllocateKey(t)
  PROVE  OrderIsOpen' /\ CrashesCounted'
<1> DEFINE k == notify[t].key
           o == notify[t].order
<1>1. notify[t] \in CallBack /\ k \in Keys /\ o \in Orders /\ orders[o].key = None
  BY DEF AllocateKey, Kept, TypeOK, NotifyHolds, OrderIsOpen
<1>2. /\ notify'[t].pc = "write" /\ notify'[t].key = k /\ notify'[t].order = o
      /\ \A s \in Notifiers \ {t} : notify[s].pc = "idle" /\ notify'[s] = notify[s]
  BY <1>1 DEF AllocateKey, OneAtATime, Kept, TypeOK, CallBack
<1>3. /\ keys'[k].order = o /\ \A l \in Keys \ {k} : keys'[l] = keys[l]
      /\ orders' = orders /\ crashes' = crashes
  BY <1>1 DEF AllocateKey, Kept, TypeOK, KeyRow
<1>4. OrderIsOpen'
  BY <1>1, <1>2, <1>3 DEF OrderIsOpen
<1>5. k \in InHand' /\ InHand = {}
  BY <1>1, <1>2 DEF InHand, AllocateKey
<1>6. Wasted' \ {k} \subseteq Wasted
  BY <1>3 DEF Wasted
<1>7. QED
  BY <1>3, <1>4, <1>5, <1>6, FewerWasted DEF Kept

LEMMA WriteOrderKeyInTurn ==
  ASSUME Kept, OneAtATime, OrderIsOpen, CrashesCounted, NEW t \in Notifiers, WriteOrderKey(t)
  PROVE  OrderIsOpen' /\ CrashesCounted'
<1> DEFINE k == notify[t].key
           o == notify[t].order
<1>1. /\ k \in Keys /\ o \in Orders /\ orders[o].key = None /\ keys[k].order = o
      /\ notify[t].pc = "write"
  BY DEF WriteOrderKey, Kept, TypeOK, NotifyHolds, OrderIsOpen
<1>2. \A s \in Notifiers : /\ s # t => notify[s].pc = "idle"
                           /\ notify'[s].pc = "idle"
  BY <1>1 DEF WriteOrderKey, OneAtATime, Kept, TypeOK
<1>3. /\ orders'[o].key = k /\ \A p \in Orders \ {o} : orders'[p].key = orders[p].key
      /\ keys' = keys /\ crashes' = crashes
  BY <1>1 DEF WriteOrderKey, Kept, TypeOK
<1>4. OrderIsOpen'
  BY <1>2 DEF OrderIsOpen
<1>5. \A l \in Wasted' : l \in Wasted /\ l # k
  <2>1. ASSUME NEW l \in Keys, keys[l].order # None, orders'[keys[l].order].key # l
        PROVE  l # k /\ orders[keys[l].order].key # l
    <3>1. keys[l].order \in Orders
      BY <2>1 DEF Kept, TypeOK, KeyRow
    <3>2. None \notin Keys
      OBVIOUS
    <3>3. QED
      BY <1>1, <1>3, <2>1, <3>1, <3>2
  <2>2. QED
    BY <1>3, <2>1 DEF Wasted
<1>6. InHand = {k}
  BY <1>1, <1>2 DEF InHand
<1>7. QED
  BY <1>3, <1>4, <1>5, <1>6, FewerWasted DEF Kept

\* The key in the hands of a call-back that fails is the only one that is wasted with it.
LEMMA CrashInTurn ==
  ASSUME Kept, OneAtATime, OrderIsOpen, CrashesCounted, Crash
  PROVE  OrderIsOpen' /\ CrashesCounted'
<1>1. \A s \in Notifiers : notify'[s].pc = "idle" \/ notify'[s] = notify[s]
  BY DEF Crash, Kept, TypeOK
<1>2. UNCHANGED <<orders, keys>> /\ crashes' = crashes + 1
  BY DEF Crash
<1>3. OrderIsOpen'
  BY <1>1, <1>2 DEF OrderIsOpen
<1>4. Wasted' = Wasted
  BY <1>2 DEF Wasted
<1>5. \E k : InHand \subseteq {k}
  <2>1. CASE InHand = {}
    BY <2>1
  <2>2. ASSUME NEW k \in InHand PROVE InHand \subseteq {k}
    BY <2>2 DEF InHand, OneAtATime
  <2>3. QED
    BY <2>1, <2>2
<1>6. PICK k : InHand \subseteq {k}
  BY <1>5
<1> DEFINE before == Wasted \ InHand
<1>7. IsFiniteSet(before) /\ Cardinality(before) \in Nat /\ Cardinality(before) <= crashes
  BY FS_CardinalityType DEF CrashesCounted
<1>8. /\ IsFiniteSet(before \cup {k})
      /\ Cardinality(before \cup {k}) \in {Cardinality(before), Cardinality(before) + 1}
  <2> HIDE DEF before
  <2>1. /\ IsFiniteSet(before \cup {k})
        /\ Cardinality(before \cup {k}) =
             IF k \in before THEN Cardinality(before) ELSE Cardinality(before) + 1
    BY <1>7, FS_AddElement, Zenon
  <2>2. QED
    BY <2>1
<1>9. Wasted' \ InHand' \subseteq before \cup {k}
  BY <1>4, <1>6
<1>10. /\ IsFiniteSet(Wasted' \ InHand') /\ Cardinality(Wasted' \ InHand') \in Nat
       /\ Cardinality(Wasted' \ InHand') <= Cardinality(before \cup {k})
  BY <1>8, <1>9, FS_Subset, FS_CardinalityType
<1>11. crashes \in Nat
  BY DEF Kept, TypeOK
<1> HIDE DEF before
<1>12. CrashesCounted'
  BY <1>2, <1>7, <1>8, <1>10, <1>11 DEF CrashesCounted
<1>13. QED
  BY <1>3, <1>12

LEMMA StepInTurn == Kept /\ InTurn /\ [Next]_vars => InTurn'
<1> SUFFICES ASSUME Kept, InTurn, [Next]_vars, ~overlapped'
             PROVE  OneAtATime' /\ OrderIsOpen' /\ CrashesCounted'
  BY DEF InTurn
<1>1. ~overlapped
  <2>1. CASE Crash
    BY <2>1 DEF Crash
  <2>2. QED
    BY <2>1, CatalogueAside, ActivationAside, OthersAside, CallBackSteps
       DEF Next, Aside, CallsBack
<1>2. OneAtATime /\ OrderIsOpen /\ CrashesCounted
  BY <1>1 DEF InTurn
<1>3. CASE Catalogue \/ Activation \/ (\E o \in Orders : Charge(o)) \/ UNCHANGED vars
  <2>1. Aside
    BY <1>3, CatalogueAside, ActivationAside, OthersAside
  <2>2. QED
    BY <1>2, <2>1, StepOneAtATime, UntouchedInTurn DEF Aside
<1>4. CASE PaymentCallBack
  <2>1. ASSUME NEW t \in Notifiers, OutOfStock(t) PROVE OrderIsOpen' /\ CrashesCounted'
    <3>1. notify[t].pc = "select" /\ notify' = [notify EXCEPT ![t] = NoNotify]
      BY <2>1 DEF OutOfStock
    <3>2. NoNotify.pc = "idle" /\ UNCHANGED <<orders, keys, crashes>>
      BY <2>1 DEF OutOfStock
    <3> HIDE DEF NoNotify
    <3>3. QED
      BY <1>2, <3>1, <3>2, CallBackInTurn
  <2>2. QED
    BY <1>2, <1>4, <2>1, StepOneAtATime, ReadOrderInTurn, MarkPaidInTurn, SelectKeyInTurn,
       AllocateKeyInTurn, WriteOrderKeyInTurn DEF PaymentCallBack
<1>5. CASE Crash
  BY <1>2, <1>5, StepOneAtATime, CrashInTurn
<1>6. QED
  BY <1>3, <1>4, <1>5 DEF Next

\* While requests follow one another, the call-backs that failed half-way are at least as many
\* as the keys that were allocated and reached no order, for any number of keys and failures.
THEOREM CrashWastesOneKeyAlways == Spec => []CrashWastesOneKey
<1>1. Init => InTurn
  <2>1. SUFFICES ASSUME Init PROVE OneAtATime /\ OrderIsOpen /\ CrashesCounted
    BY DEF InTurn
  <2>2. Wasted \ InHand = {}
    BY <2>1 DEF Init, Wasted
  <2>3. CrashesCounted
    <3>1. crashes = 0 /\ 0 <= 0
      BY <2>1 DEF Init
    <3>2. IsFiniteSet({}) /\ Cardinality({}) = 0
      BY FS_EmptySet, Zenon
    <3>3. QED
      BY <2>2, <3>1, <3>2, Zenon DEF CrashesCounted
  <2>4. QED
    BY <2>1, <2>3 DEF Init, OneAtATime, OrderIsOpen
<1>2. InTurn => CrashWastesOneKey
  <2>1. AllAnswered => InHand = {}
    BY DEF AllAnswered, InHand
  <2>2. Wasted \ {} = Wasted
    OBVIOUS
  <2>3. QED
    BY <2>1, <2>2 DEF InTurn, CrashesCounted, CrashWastesOneKey, Wasted
<1>3. QED
  BY <1>1, <1>2, InitKept, StepKept, StepInTurn, PTL DEF Spec

------------------------------------------------------------------------------
(* The statements of KeyAllocation. *)

\* The handlers that write neither to the rows the promise is about, nor to an order's status.
Idle == \/ \E p \in Products, active \in BOOLEAN : UpsertProduct(p, active)
        \/ \E c \in Clients, p \in Products : \/ ReadProduct(c, p, "order")
                                              \/ ReadProduct(c, p, "keys")
                                              \/ CountKeys(c, p)
        \/ \E c \in Clients : InsertKeyFails(c) \/ DeleteProduct(c)
        \/ \E o \in Orders : Charge(o)
        \/ \E t \in Notifiers : \/ \E o \in Orders : ReadOrder(t, o)
                                \/ \E k \in Keys : SelectKey(t, k)
                                \/ OutOfStock(t)
        \/ \E a \in Activators : \/ \E k \in Keys, d \in Devices, r \in Requests :
                                      ReadKey(a, k, d, r)
                                 \/ LogActivation(a)
        \/ Crash

LEMMA IdleWritesNothing == Idle => UNCHANGED <<orders, keys>>
<1>1. ASSUME NEW c \in Clients, NEW p \in Products,
             ReadProduct(c, p, "order") \/ ReadProduct(c, p, "keys") \/ CountKeys(c, p)
      PROVE  UNCHANGED <<orders, keys>>
  BY <1>1 DEF ReadProduct, CountKeys
<1>2. ASSUME NEW c \in Clients, InsertKeyFails(c) \/ DeleteProduct(c)
      PROVE  UNCHANGED <<orders, keys>>
  BY <1>2 DEF InsertKeyFails, DeleteProduct
<1>3. ASSUME NEW t \in Notifiers, \/ \E o \in Orders : ReadOrder(t, o)
                                  \/ \E k \in Keys : SelectKey(t, k)
                                  \/ OutOfStock(t)
      PROVE  UNCHANGED <<orders, keys>>
  BY <1>3 DEF ReadOrder, SelectKey, OutOfStock
<1>4. ASSUME NEW a \in Activators,
             \/ \E k \in Keys, d \in Devices, r \in Requests : ReadKey(a, k, d, r)
             \/ LogActivation(a)
      PROVE  UNCHANGED <<orders, keys>>
  BY <1>4 DEF ReadKey, LogActivation
<1>5. QED
  BY <1>1, <1>2, <1>3, <1>4 DEF Idle, UpsertProduct, Charge, Crash

LEMMA InsertOrderPays ==
  ASSUME Kept, NEW c \in Clients, InsertOrder(c)
  PROVE  UNCHANGED KA!vars
<1>1. UNCHANGED keys
  BY DEF InsertOrder
<1>2. ASSUME NEW x \in Orders, orders[x].status = "absent",
             orders' = [orders EXCEPT ![x].status = "pending"]
      PROVE  \A o \in Orders : orders'[o].status = "paid" <=> orders[o].status = "paid"
  BY <1>2 DEF Kept, TypeOK
<1>3. \A o \in Orders : orders'[o].status = "paid" <=> orders[o].status = "paid"
  BY <1>2 DEF InsertOrder
<1>4. QED
  BY <1>1, <1>3 DEF KA!vars

LEMMA InsertKeyAdds ==
  ASSUME Kept, NEW c \in Clients, NEW more \in BOOLEAN, InsertKey(c, more)
  PROVE  KA!Next
<1>1. PICK k \in Keys : keys[k].status = "absent" /\ keys' = [keys EXCEPT ![k].status = "unused"]
  BY DEF InsertKey
<1>2. /\ \A j \in Keys : j # k => keys'[j] = keys[j]
      /\ keys'[k].status = "unused" /\ keys'[k].order = keys[k].order
      /\ keys'[k].device = keys[k].device /\ keys'[k].revoked = keys[k].revoked
      /\ UNCHANGED orders
  BY <1>1 DEF InsertKey, Kept, TypeOK, KeyRow
<1>3. {j \in Keys : keys'[j].status # "absent"} = {j \in Keys : keys[j].status # "absent"} \cup {k}
  BY <1>2
<1>4. /\ [j \in Keys |-> keys'[j].order] = [j \in Keys |-> keys[j].order]
      /\ [j \in Keys |-> keys'[j].device] = [j \in Keys |-> keys[j].device]
      /\ {j \in Keys : keys'[j].revoked} = {j \in Keys : keys[j].revoked}
  BY <1>2
<1>5. KA!AddKeys({k})
  BY <1>2, <1>3, <1>4 DEF KA!AddKeys
<1>6. QED
  BY <1>5 DEF KA!Next

LEMMA RevokeKeyVoids ==
  ASSUME Kept, NEW k \in Keys, RevokeKey(k)
  PROVE  KA!Next
<1>1. /\ \A j \in Keys : j # k => keys'[j] = keys[j]
      /\ keys'[k].status = "revoked" /\ keys'[k].revoked
      /\ keys'[k].order = keys[k].order /\ keys'[k].device = keys[k].device
      /\ keys[k].status # "absent" /\ keys[k].device = None /\ UNCHANGED orders
  BY DEF RevokeKey, Kept, TypeOK, KeyRow
<1>2. /\ [j \in Keys |-> keys'[j].order] = [j \in Keys |-> keys[j].order]
      /\ [j \in Keys |-> keys'[j].device] = [j \in Keys |-> keys[j].device]
      /\ {j \in Keys : keys'[j].status # "absent"} = {j \in Keys : keys[j].status # "absent"}
      /\ {j \in Keys : keys'[j].revoked} = {j \in Keys : keys[j].revoked} \cup {k}
  BY <1>1
<1>3. KA!Void(k)
  BY <1>1, <1>2 DEF KA!Void
<1>4. QED
  BY <1>3 DEF KA!Next

LEMMA MarkPaidPays ==
  ASSUME Kept, NEW t \in Notifiers, MarkPaid(t)
  PROVE  KA!Next
<1>1. PICK o \in Orders : o = notify[t].order
  BY DEF MarkPaid, Kept, TypeOK, NotifyHolds
<1>2. /\ \A x \in Orders : x # o => orders'[x] = orders[x]
      /\ orders'[o].status = "paid" /\ UNCHANGED keys
  BY <1>1 DEF MarkPaid, Kept, TypeOK
<1>3. {x \in Orders : orders'[x].status = "paid"}
        = {x \in Orders : orders[x].status = "paid"} \cup {o}
  BY <1>1, <1>2
<1>4. KA!Pay(o)
  BY <1>2, <1>3 DEF KA!Pay
<1>5. QED
  BY <1>1, <1>4 DEF KA!Next

LEMMA AllocateKeyDelivers ==
  ASSUME Kept, OneAtATime, SalesAgree, NEW t \in Notifiers, AllocateKey(t)
  PROVE  KA!Next
<1>1. PICK o \in Orders, k \in Keys :
        /\ o = notify[t].order /\ k = notify[t].key /\ orders[o].status = "paid"
        /\ notify[t].pc = "allocate" /\ Assignable(o, k) /\ orders[o].key = None
  BY DEF AllocateKey, Kept, TypeOK, NotifyHolds, SalesAgree
<1>2. /\ \A j \in Keys : j # k => keys'[j] = keys[j]
      /\ keys'[k].order = o /\ keys'[k].device = keys[k].device
      /\ keys'[k].status = keys[k].status /\ keys'[k].revoked = keys[k].revoked
      /\ UNCHANGED orders
  BY <1>1 DEF AllocateKey, Kept, TypeOK, KeyRow
<1>3. \A j \in Keys : keys[j].order # o
  BY <1>1 DEF SalesAgree, Writing, OneAtATime
<1>4. /\ [j \in Keys |-> keys'[j].order] = [[j \in Keys |-> keys[j].order] EXCEPT ![k] = o]
      /\ [j \in Keys |-> keys'[j].device] = [j \in Keys |-> keys[j].device]
      /\ {j \in Keys : keys'[j].status # "absent"} = {j \in Keys : keys[j].status # "absent"}
      /\ {j \in Keys : keys'[j].revoked} = {j \in Keys : keys[j].revoked}
      /\ {x \in Orders : orders'[x].status = "paid"}
           = {x \in Orders : orders[x].status = "paid"} \cup {o}
  <2>1. [j \in Keys |-> keys'[j].order] = [[j \in Keys |-> keys[j].order] EXCEPT ![k] = o]
    BY <1>2
  <2>2. /\ [j \in Keys |-> keys'[j].device] = [j \in Keys |-> keys[j].device]
        /\ {j \in Keys : keys'[j].status # "absent"} = {j \in Keys : keys[j].status # "absent"}
        /\ {j \in Keys : keys'[j].revoked} = {j \in Keys : keys[j].revoked}
    BY <1>2
  <2>3. {x \in Orders : orders'[x].status = "paid"}
          = {x \in Orders : orders[x].status = "paid"} \cup {o}
    BY <1>1, <1>2
  <2>4. QED
    BY <2>1, <2>2, <2>3
<1>5. keys[k].status = "unused" /\ keys[k].order = None /\ ~keys[k].revoked /\ keys[k].device = None
  BY <1>1 DEF Assignable, Kept, BoundIsUsed
<1>6. KA!Deliver(o, k)
  BY <1>1, <1>3, <1>4, <1>5 DEF KA!Deliver
<1>7. QED
  BY <1>1, <1>6 DEF KA!Next

LEMMA WriteOrderKeyPays ==
  ASSUME Kept, NEW t \in Notifiers, WriteOrderKey(t)
  PROVE  UNCHANGED KA!vars
<1>1. UNCHANGED keys
  BY DEF WriteOrderKey
<1>2. \A o \in Orders : orders'[o].status = orders[o].status
  BY DEF WriteOrderKey, Kept, TypeOK
<1>3. QED
  BY <1>1, <1>2 DEF KA!vars

LEMMA BindDeviceBinds ==
  ASSUME Kept, BindingsAgree, NEW a \in Activators, BindDevice(a)
  PROVE  KA!Next
<1>1. PICK k \in Keys, d \in Devices :
        /\ k = activation[a].key /\ d = activation[a].device /\ keys[k].status # "absent"
        /\ keys[k].device = None /\ ~keys[k].revoked
  BY DEF BindDevice, Kept, TypeOK, ActivationHolds, BindingsAgree
<1>2. /\ \A j \in Keys : j # k => keys'[j] = keys[j]
      /\ keys'[k].status = "used" /\ keys'[k].device = d
      /\ keys'[k].order = keys[k].order /\ keys'[k].revoked = keys[k].revoked
      /\ UNCHANGED orders
  BY <1>1 DEF BindDevice, Kept, TypeOK, KeyRow
<1>3. /\ [j \in Keys |-> keys'[j].order] = [j \in Keys |-> keys[j].order]
      /\ [j \in Keys |-> keys'[j].device] = [[j \in Keys |-> keys[j].device] EXCEPT ![k] = d]
      /\ {j \in Keys : keys'[j].status # "absent"} = {j \in Keys : keys[j].status # "absent"}
      /\ {j \in Keys : keys'[j].revoked} = {j \in Keys : keys[j].revoked}
  BY <1>1, <1>2
<1>4. KA!Bind(k, d)
  BY <1>1, <1>2, <1>3 DEF KA!Bind
<1>5. QED
  BY <1>1, <1>4 DEF KA!Next

LEMMA InitRefines == Init => KA!Init
  BY DEF Init, KA!Init

LEMMA StepRefines ==
  Kept /\ Alone /\ [Next]_vars => [~Disturbed' => [KA!Next]_(KA!vars)]_vars
<1> SUFFICES ASSUME Kept, Alone, Next, ~Disturbed' PROVE [KA!Next]_(KA!vars)
  OBVIOUS
<1>1. overlapped \in BOOLEAN /\ crashes \in Nat
  BY DEF Kept, TypeOK
<1>2. ~Disturbed
  <2>1. CASE Catalogue
    BY <1>1, <2>1 DEF Catalogue, Disturbed, UpsertProduct, ReadProduct, InsertOrder, InsertKey,
       InsertKeyFails, CountKeys, DeleteProduct, RevokeKey
  <2>2. CASE PaymentCallBack
    BY <1>1, <2>2 DEF PaymentCallBack, Disturbed, ReadOrder, MarkPaid, SelectKey, OutOfStock,
       AllocateKey, WriteOrderKey
  <2>3. CASE Activation
    BY <1>1, <2>3 DEF Activation, Disturbed, ReadKey, BindDevice, LogActivation
  <2>4. CASE Crash \/ \E o \in Orders : Charge(o)
    BY <1>1, <2>4 DEF Crash, Charge, Disturbed
  <2>5. QED
    BY <2>1, <2>2, <2>3, <2>4 DEF Next
<1>3. OneAtATime /\ SalesAgree /\ BindingsAgree
  BY <1>2 DEF Alone
<1>4. CASE Idle
  BY <1>4, IdleWritesNothing DEF KA!vars
<1>5. CASE \E c \in Clients : InsertOrder(c) \/ InsertKey(c, TRUE) \/ InsertKey(c, FALSE)
  BY <1>5, InsertOrderPays, InsertKeyAdds
<1>6. CASE \E k \in Keys : RevokeKey(k)
  BY <1>6, RevokeKeyVoids
<1>7. CASE \E t \in Notifiers : MarkPaid(t) \/ AllocateKey(t) \/ WriteOrderKey(t)
  BY <1>3, <1>7, MarkPaidPays, AllocateKeyDelivers, WriteOrderKeyPays
<1>8. CASE \E a \in Activators : BindDevice(a)
  BY <1>3, <1>8, BindDeviceBinds
<1>9. QED
  BY <1>4, <1>5, <1>6, <1>7, <1>8 DEF Next, Catalogue, PaymentCallBack, Activation, Idle

\* Until two requests overlap or one fails, every statement of the handlers is a step of
\* KeyAllocation or a stutter: delivery happens at the UPDATE of the key, before the order
\* names it.
THEOREM Refines == Spec => RefinesAllocation
  BY InitKept, StepKept, InitAlone, StepAlone, InitRefines, StepRefines, PTL
     DEF Spec, RefinesAllocation

==============================================================================
