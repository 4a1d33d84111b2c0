---------------------------- MODULE NuxtMall_proofs ----------------------------
(***************************************************************************)
(* NuxtMall for every number of products, orders, keys, devices, nonces,   *)
(* requests and handlers.  TypeOK and LocksProtect are inductive together  *)
(* (Held): they say what a handler still knows when it writes.  The        *)
(* safety properties are inductive relative to them, and so is the step    *)
(* simulation of KeyAllocation.                                            *)
(***************************************************************************)
EXTENDS NuxtMall, TLAPS

Held == TypeOK /\ LocksProtect

\* What the shop keeps true beyond its locks.
Sound == /\ KeySoldOnce
         /\ DeliveredWasPaid
         /\ RightProduct
         /\ LicenceMatchesBinding
         /\ RowsMatchBinding
         /\ NonceOnce
         /\ ProductOutlivesRows

USE NoneIsNew, RowsHaveProducts, CrashBound
USE DEF NoRow, NoNotify, NoActivation, NoJob, NoKey, KeyRow, tables

LEMMA InitHeld == Init => Held
  BY DEF Init, Held, LocksProtect, TypeOK, RowsExist, NotifyHolds, ActivationHolds,
         JobHolds, OneHolder

------------------------------------------------------------------------------
(* Held is kept by the catalogue and order handlers. *)

LEMMA UpsertProductHeld ==
  ASSUME Held, NEW p \in Products, NEW active \in BOOLEAN, UpsertProduct(p, active)
  PROVE  Held'
  BY DEF UpsertProduct,
         Held, LocksProtect, TypeOK, RowsExist, NotifyHolds, ActivationHolds,
         JobHolds, OneHolder, Assignable

LEMMA ReadProductHeld ==
  ASSUME Held, NEW c \in Clients, NEW p \in Products, NEW next \in {"order", "keys"},
         ReadProduct(c, p, next, None)
  PROVE  Held'
  BY DEF ReadProduct,
         Held, LocksProtect, TypeOK, RowsExist, NotifyHolds, ActivationHolds,
         JobHolds, OneHolder, Assignable

LEMMA PublicReadProductHeld ==
  ASSUME Held, NEW c \in Clients, NEW p \in Products, NEW n \in Nonces,
         PublicReadProduct(c, p, n)
  PROVE  Held'
  BY DEF PublicReadProduct, ReadProduct, NonceFree,
         Held, LocksProtect, TypeOK, RowsExist, NotifyHolds, ActivationHolds,
         JobHolds, OneHolder, Assignable

LEMMA CountKeysHeld ==
  ASSUME Held, NEW c \in Clients, NEW p \in Products, CountKeys(c, p)
  PROVE  Held'
  BY DEF CountKeys,
         Held, LocksProtect, TypeOK, RowsExist, NotifyHolds, ActivationHolds,
         JobHolds, OneHolder, Assignable

LEMMA DeleteProductHeld ==
  ASSUME Held, NEW c \in Clients, DeleteProduct(c)
  PROVE  Held'
  BY DEF DeleteProduct, Referenced,
         Held, LocksProtect, TypeOK, RowsExist, NotifyHolds, ActivationHolds,
         JobHolds, OneHolder, Assignable

LEMMA JobCrashHeld ==
  ASSUME Held, NEW c \in Clients, JobCrash(c)
  PROVE  Held'
  BY DEF JobCrash,
         Held, LocksProtect, TypeOK, RowsExist, NotifyHolds, ActivationHolds,
         JobHolds, OneHolder, Assignable

LEMMA RevokeKeyHeld ==
  ASSUME Held, NEW k \in Keys, RevokeKey(k)
  PROVE  Held'
  BY DEF RevokeKey, KeyLocked,
         Held, LocksProtect, TypeOK, RowsExist, NotifyHolds, ActivationHolds,
         JobHolds, OneHolder, Assignable

LEMMA ChargeHeld ==
  ASSUME Held, NEW o \in Orders, Charge(o)
  PROVE  Held'
  BY DEF Charge,
         Held, LocksProtect, TypeOK, RowsExist, NotifyHolds, ActivationHolds,
         JobHolds, OneHolder, Assignable

LEMMA CreateKeysHeld ==
  ASSUME Held, NEW c \in Clients, CreateKeys(c)
  PROVE  Held'
<1>1. TypeOK'
  BY SMTT(60) DEF CreateKeys, Held, LocksProtect, TypeOK, RowsExist, NotifyHolds,
     ActivationHolds,
         JobHolds, OneHolder, Assignable
<1>2. RowsExist'
  BY DEF CreateKeys, Held, LocksProtect, TypeOK, RowsExist, NotifyHolds,
     ActivationHolds,
         JobHolds, OneHolder, Assignable
<1>3. NotifyHolds'
  BY DEF CreateKeys, Held, LocksProtect, TypeOK, RowsExist, NotifyHolds,
     ActivationHolds,
         JobHolds, OneHolder, Assignable
<1>4. ActivationHolds'
  BY DEF CreateKeys, Held, LocksProtect, TypeOK, RowsExist, NotifyHolds,
     ActivationHolds,
         JobHolds, OneHolder, Assignable
<1>5. JobHolds'
  BY DEF CreateKeys, Held, LocksProtect, TypeOK, RowsExist, NotifyHolds,
     ActivationHolds,
         JobHolds, OneHolder, Assignable
<1>6. OneHolder'
  BY DEF CreateKeys, Held, LocksProtect, TypeOK, RowsExist, NotifyHolds,
     ActivationHolds,
         JobHolds, OneHolder, Assignable
<1>7. QED
  BY <1>1, <1>2, <1>3, <1>4, <1>5, <1>6 DEF Held, LocksProtect

LEMMA CreateOrderHeld ==
  ASSUME Held, NEW c \in Clients, CreateOrder(c)
  PROVE  Held'
<1>1. UNCHANGED <<product, keys, nonces, activations, notify, activation,
                  charged, granted, licensed, crashes>>
  BY DEF CreateOrder
<1>2. /\ job' = [job EXCEPT ![c] = NoJob]
      /\ job' \in [Clients -> [pc : {"idle", "order", "keys", "delete"},
                               product : Products \cup {None}, nonce : Nonces \cup {None}]]
  BY DEF CreateOrder, Held, TypeOK
<1>3. CASE UNCHANGED orders
  BY <1>1, <1>2, <1>3 DEF Held, LocksProtect, TypeOK, RowsExist, NotifyHolds,
                          ActivationHolds, JobHolds, OneHolder, Assignable
<1>4. ASSUME NEW o \in Orders, orders[o].status = "absent",
             orders' = [orders EXCEPT ![o].status = "pending"]
      PROVE  Held'
  <2>1. orders' = [x \in Orders |-> IF x = o THEN [orders[o] EXCEPT !.status = "pending"]
                                             ELSE orders[x]]
    BY <1>4 DEF Held, TypeOK
  <2>2. TypeOK' /\ RowsExist'
    BY <1>1, <1>2, <1>4, <2>1 DEF Held, LocksProtect, TypeOK, RowsExist
  <2>3. NotifyHolds'
    BY <1>1, <1>4, <2>1 DEF Held, LocksProtect, TypeOK, NotifyHolds, Assignable
  <2>4. ActivationHolds' /\ JobHolds' /\ OneHolder'
    BY <1>1, <1>2 DEF Held, LocksProtect, TypeOK, ActivationHolds, JobHolds, OneHolder
  <2>5. QED
    BY <2>2, <2>3, <2>4 DEF Held, LocksProtect
<1>5. QED
  BY <1>3, <1>4 DEF CreateOrder

------------------------------------------------------------------------------
(* ... by the payment call-backs ... *)

LEMMA NotifyFailedHeld ==
  ASSUME Held, NEW t \in Notifiers, NotifyFailed(t)
  PROVE  Held'
  BY DEF NotifyFailed,
         Held, LocksProtect, TypeOK, RowsExist, NotifyHolds, ActivationHolds,
         JobHolds, OneHolder, Assignable

LEMMA NotifyAgainHeld ==
  ASSUME Held, NEW t \in Notifiers, NotifyAgain(t)
  PROVE  Held'
  BY DEF NotifyAgain,
         Held, LocksProtect, TypeOK, RowsExist, NotifyHolds, ActivationHolds,
         JobHolds, OneHolder, Assignable

LEMMA OutOfStockHeld ==
  ASSUME Held, NEW t \in Notifiers, OutOfStock(t)
  PROVE  Held'
  BY DEF OutOfStock,
         Held, LocksProtect, TypeOK, RowsExist, NotifyHolds, ActivationHolds,
         JobHolds, OneHolder, Assignable

LEMMA NotifyCrashHeld ==
  ASSUME Held, NEW t \in Notifiers, NotifyCrash(t)
  PROVE  Held'
  BY DEF NotifyCrash,
         Held, LocksProtect, TypeOK, RowsExist, NotifyHolds, ActivationHolds,
         JobHolds, OneHolder, Assignable

LEMMA PickKeyHeld ==
  ASSUME Held, NEW t \in Notifiers, NEW k \in Keys, PickKey(t, k)
  PROVE  Held'
<1> DEFINE n == [notify[t] EXCEPT !.pc = "key", !.key = k]
<1>1. /\ notify[t].pc = "order" /\ notify[t].ok /\ Assignable(notify[t].order, k)
      /\ orders[notify[t].order].key = None /\ ~KeyLocked(k)
      /\ notify' = [notify EXCEPT ![t] = n]
      /\ UNCHANGED <<tables, activation, job, charged, granted, licensed, crashes>>
  BY DEF PickKey
<1>2. TypeOK'
  <2> DEFINE Call == [pc : {"idle", "order", "key"}, order : Orders \cup {None},
                      key : Keys \cup {None}, ok : BOOLEAN, paid : BOOLEAN]
  <2>1. notify[t] \in Call /\ notify \in [Notifiers -> Call]
    BY DEF Held, TypeOK
  <2>2. n \in Call
    BY <2>1
  <2>3. notify' \in [Notifiers -> Call]
    <3> HIDE DEF Call, n
    <3>1. QED
      BY <1>1, <2>1, <2>2
  <2>4. QED
    BY <1>1, <2>3 DEF Held, TypeOK
<1>3. RowsExist' /\ ActivationHolds' /\ JobHolds'
  BY <1>1 DEF Held, LocksProtect, RowsExist, ActivationHolds, JobHolds
<1>4. NotifyHolds'
  BY <1>1 DEF Held, LocksProtect, TypeOK, NotifyHolds, Assignable
<1>5. OneHolder'
  BY <1>1 DEF Held, LocksProtect, TypeOK, OneHolder, KeyLocked
<1>6. QED
  BY <1>2, <1>3, <1>4, <1>5 DEF Held, LocksProtect

LEMMA LockOrderHeld ==
  ASSUME Held, NEW t \in Notifiers, NEW o \in Orders, NEW ok \in BOOLEAN,
         ok => o \in charged, LockOrder(t, o, ok)
  PROVE  Held'
<1> DEFINE n == [pc |-> "order", order |-> o, key |-> None, ok |-> ok,
                 paid |-> orders[o].status = "paid"]
<1>1. UNCHANGED <<product, orders, keys, nonces, activations, activation, job,
                  charged, granted, licensed, crashes>>
  BY DEF LockOrder
<1>2. /\ notify' = [s \in Notifiers |-> IF s = t THEN n ELSE notify[s]]
      /\ orders[o].status # "absent"
  BY DEF LockOrder, Held, TypeOK
<1>3. TypeOK'
  BY <1>1, <1>2 DEF Held, TypeOK
<1>4. NotifyHolds'
  BY <1>1, <1>2 DEF Held, LocksProtect, NotifyHolds, Assignable
<1>5. RowsExist' /\ ActivationHolds' /\ JobHolds'
  BY <1>1 DEF Held, LocksProtect, RowsExist, ActivationHolds, JobHolds
<1>6. OneHolder'
  BY <1>1, <1>2 DEF LockOrder, OrderLocked, Held, LocksProtect, ActivationHolds,
     OneHolder
<1>7. QED
  BY <1>3, <1>4, <1>5, <1>6 DEF Held, LocksProtect

LEMMA CommitDeliveryHeld ==
  ASSUME Held, NEW t \in Notifiers, CommitDelivery(t)
  PROVE  Held'
<1> DEFINE o == notify[t].order
           k == notify[t].key
<1>1. o \in Orders /\ k \in Keys
  BY DEF CommitDelivery, Held, LocksProtect, TypeOK, NotifyHolds
<1>2. /\ orders' = [orders EXCEPT ![o] = [status |-> "paid", key |-> k]]
      /\ keys' = [keys EXCEPT ![k].order = o]
      /\ notify' = [notify EXCEPT ![t] = NoNotify]
      /\ UNCHANGED <<product, nonces, activations, activation, job, charged, granted,
                     licensed, crashes>>
  BY DEF CommitDelivery
<1>3. TypeOK'
  <2>1. keys[k] \in KeyRow
    BY <1>1 DEF Held, TypeOK
  <2>2. keys' \in [Keys -> KeyRow]
    BY <1>1, <1>2, <2>1 DEF Held, TypeOK
  <2>3. orders' \in [Orders -> [status : {"absent", "pending", "paid", "failed"},
                               key : Keys \cup {None}]]
    BY <1>1, <1>2 DEF Held, TypeOK
  <2>4. QED
    BY <1>2, <2>2, <2>3 DEF Held, TypeOK
<1>4. RowsExist'
  BY <1>1, <1>2 DEF CommitDelivery, Held, LocksProtect, TypeOK, RowsExist,
     NotifyHolds, Assignable
<1>5. NotifyHolds'
  BY <1>1, <1>2 DEF CommitDelivery, Held, LocksProtect, TypeOK, NotifyHolds,
     OneHolder, Assignable
<1>6. ActivationHolds'
  BY <1>1, <1>2 DEF CommitDelivery, Held, LocksProtect, TypeOK, ActivationHolds,
     OneHolder
<1>7. JobHolds' /\ OneHolder'
  BY <1>2 DEF Held, LocksProtect, TypeOK, ActivationHolds, JobHolds, OneHolder
<1>8. QED
  BY <1>3, <1>4, <1>5, <1>6, <1>7 DEF Held, LocksProtect

------------------------------------------------------------------------------
(* ... and by the activations. *)

LEMMA UseNonceHeld ==
  ASSUME Held, NEW a \in Activators, NEW k \in Keys, NEW d \in Devices,
         NEW n \in Nonces, NEW r \in Requests, NEW matches \in BOOLEAN,
         UseNonce(a, k, d, n, r, matches)
  PROVE  Held'
  BY DEF UseNonce, NonceFree,
         Held, LocksProtect, TypeOK, RowsExist, NotifyHolds, ActivationHolds,
         JobHolds, OneHolder, Assignable

LEMMA RejectActivationHeld ==
  ASSUME Held, NEW a \in Activators, RejectActivation(a)
  PROVE  Held'
  BY DEF RejectActivation,
         Held, LocksProtect, TypeOK, RowsExist, NotifyHolds, ActivationHolds,
         JobHolds, OneHolder, Assignable

LEMMA ActivationCrashHeld ==
  ASSUME Held, NEW a \in Activators, ActivationCrash(a)
  PROVE  Held'
  BY DEF ActivationCrash,
         Held, LocksProtect, TypeOK, RowsExist, NotifyHolds, ActivationHolds,
         JobHolds, OneHolder, Assignable

LEMMA LockKeyHeld ==
  ASSUME Held, NEW a \in Activators, LockKey(a)
  PROVE  Held'
<1> DEFINE k == activation[a].key
<1>1. /\ UNCHANGED <<product, orders, keys, nonces, activations, notify, job, charged,
                     granted, licensed, crashes>>
      /\ activation[a].pc = "nonce"
      /\ keys[k].status # "absent"
      /\ ~KeyLocked(k)
  BY DEF LockKey
<1>2. k \in Keys /\ keys[k] \in KeyRow
  BY <1>1 DEF Held, LocksProtect, TypeOK, ActivationHolds
<1>3. activation' = [b \in Activators |->
                       IF b = a THEN [activation[a] EXCEPT !.pc = "key", !.row = keys[k]]
                                ELSE activation[b]]
  BY DEF LockKey, Held, TypeOK
<1>4. activation[a] \in [pc : {"idle", "nonce", "key"}, key : Keys \cup {None},
                         device : Devices \cup {None}, nonce : Nonces \cup {None},
                         request : Requests \cup {None}, matches : BOOLEAN, row : KeyRow]
  BY DEF Held, TypeOK
<1>5. TypeOK'
  BY <1>1, <1>2, <1>3, <1>4 DEF Held, TypeOK
<1>6. RowsExist' /\ NotifyHolds' /\ JobHolds'
  BY <1>1 DEF Held, LocksProtect, RowsExist, NotifyHolds, JobHolds, Assignable
<1>7. ActivationHolds'
  BY <1>1, <1>2, <1>3, <1>4 DEF Held, LocksProtect, ActivationHolds
<1>8. OneHolder'
  BY <1>1, <1>3, <1>4 DEF KeyLocked, Held, LocksProtect, OneHolder
<1>9. QED
  BY <1>5, <1>6, <1>7, <1>8 DEF Held, LocksProtect

LEMMA CommitActivationHeld ==
  ASSUME Held, NEW a \in Activators, CommitActivation(a)
  PROVE  Held'
<1> DEFINE x == activation[a]
<1>1. /\ x.pc = "key"
      /\ x.key \in Keys /\ x.device \in Devices /\ x.request \in Requests
      /\ x.nonce \in Nonces
  BY DEF CommitActivation, Held, LocksProtect, ActivationHolds
<1>2. TypeOK'
  <2>1. keys' \in [Keys -> KeyRow]
    <3>1. keys[x.key] \in KeyRow
      BY <1>1 DEF Held, TypeOK
    <3>2. CASE x.row.device # None
      BY <3>2 DEF CommitActivation, Held, TypeOK
    <3>3. CASE x.row.device = None
      BY <1>1, <3>1, <3>3 DEF CommitActivation, Held, TypeOK
    <3>4. QED
      BY <3>2, <3>3
  <2>2. /\ granted' \in [Nonces -> Nat]
        /\ licensed' \in [Keys -> SUBSET Devices]
        /\ nonces' \subseteq Nonces
    BY <1>1 DEF CommitActivation, Held, TypeOK
  <2>3. activations' \in [Requests -> [key : Keys \cup {None}, device : Devices \cup {None}]]
    BY <1>1 DEF CommitActivation, Held, TypeOK
  <2>4. activation' \in [Activators -> [pc : {"idle", "nonce", "key"}, key : Keys \cup {None},
                          device : Devices \cup {None}, nonce : Nonces \cup {None},
                          request : Requests \cup {None}, matches : BOOLEAN, row : KeyRow]]
    BY DEF CommitActivation, Held, TypeOK
  <2>5. QED
    BY <2>1, <2>2, <2>3, <2>4 DEF CommitActivation, Held, TypeOK
<1>3. RowsExist'
  BY <1>1 DEF CommitActivation, Held, LocksProtect, TypeOK, RowsExist
<1>4. NotifyHolds'
  BY <1>1 DEF CommitActivation, Held, LocksProtect, TypeOK, NotifyHolds, OneHolder,
     Assignable
<1>5. ActivationHolds'
  BY <1>1 DEF CommitActivation, Held, LocksProtect, TypeOK, ActivationHolds, OneHolder
<1>6. JobHolds'
  BY <1>1 DEF CommitActivation, Held, LocksProtect, TypeOK, JobHolds, OneHolder
<1>7. OneHolder'
  BY <1>1 DEF CommitActivation, Held, LocksProtect, TypeOK, OneHolder
<1>8. QED
  BY <1>2, <1>3, <1>4, <1>5, <1>6, <1>7 DEF Held, LocksProtect

------------------------------------------------------------------------------
LEMMA StepHeld == Held /\ [Next]_vars => Held'
<1> SUFFICES ASSUME Held, [Next]_vars PROVE Held'
  OBVIOUS
<1>1. CASE UNCHANGED vars
  BY <1>1 DEF vars, Held, LocksProtect, TypeOK, RowsExist, NotifyHolds,
     ActivationHolds,
              JobHolds, OneHolder, Assignable
<1>2. CASE Catalogue
  BY <1>2, UpsertProductHeld, ReadProductHeld, PublicReadProductHeld, CountKeysHeld,
     CreateOrderHeld, CreateKeysHeld, DeleteProductHeld, JobCrashHeld, RevokeKeyHeld
     DEF Catalogue
<1>3. CASE \E o \in Orders : Charge(o)
  BY <1>3, ChargeHeld
<1>4. CASE PaymentCallBack
  <2>1. ASSUME NEW t \in Notifiers, NEW o \in Orders,
               NEW state \in {"TRADE_SUCCESS", "TRADE_CLOSED"}, AlipayNotify(t, o, state)
        PROVE  Held'
    BY <2>1, LockOrderHeld DEF AlipayNotify
  <2>2. ASSUME NEW t \in Notifiers, NEW o \in Orders,
               NEW state \in {"SUCCESS", "CLOSED", "missing"}, WechatNotify(t, o, state)
        PROVE  Held'
    <3> DEFINE ok == state \in {"SUCCESS", "missing"}
    <3>1. ok \in BOOLEAN /\ (ok => o \in charged) /\ LockOrder(t, o, ok)
      BY <2>2 DEF WechatNotify
    <3> HIDE DEF ok
    <3>2. QED
      BY <3>1, LockOrderHeld
  <2>3. QED
    BY <1>4, <2>1, <2>2, NotifyFailedHeld, NotifyAgainHeld, OutOfStockHeld,
       CommitDeliveryHeld, NotifyCrashHeld, PickKeyHeld DEF PaymentCallBack
<1>5. CASE Activation
  BY <1>5, UseNonceHeld, LockKeyHeld, RejectActivationHeld, CommitActivationHeld,
     ActivationCrashHeld DEF Activation
<1>6. QED
  BY <1>1, <1>2, <1>3, <1>4, <1>5 DEF Next

\* Whatever the number of handlers, what one of them read under its row locks is
\* still true when it writes, and every row keeps its type.
THEOREM LocksProtectAlways == Spec => [](TypeOK /\ LocksProtect)
<1>1. Held <=> TypeOK /\ LocksProtect
  BY DEF Held
<1>2. QED
  BY <1>1, InitHeld, StepHeld, PTL DEF Spec

\* Every table, and every local of a handler, keeps its type.
THEOREM TypeOKAlways == Spec => []TypeOK
<1>1. TypeOK /\ LocksProtect => TypeOK
  OBVIOUS
<1>2. QED
  BY <1>1, LocksProtectAlways, PTL

Quiet == UNCHANGED <<tables, charged, granted, licensed>>

\* Only these handlers write to the tables: the others read and lock.
LEMMA Writers ==
  ASSUME [Next]_vars
  PROVE  \/ Quiet
         \/ \E p \in Products, active \in BOOLEAN : UpsertProduct(p, active)
         \/ \E c \in Clients : CreateOrder(c)
         \/ \E c \in Clients : CreateKeys(c)
         \/ \E c \in Clients : DeleteProduct(c)
         \/ \E k \in Keys : RevokeKey(k)
         \/ \E o \in Orders : Charge(o)
         \/ \E t \in Notifiers : NotifyFailed(t)
         \/ \E t \in Notifiers : NotifyAgain(t)
         \/ \E t \in Notifiers : CommitDelivery(t)
         \/ \E a \in Activators : CommitActivation(a)
<1>1. CASE UNCHANGED vars
  BY <1>1 DEF vars, Quiet
<1>2. CASE Catalogue
  <2>1. ASSUME NEW c \in Clients, NEW p \in Products,
               \/ ReadProduct(c, p, "order", None)
               \/ ReadProduct(c, p, "keys", None)
               \/ \E n \in Nonces : PublicReadProduct(c, p, n)
               \/ CountKeys(c, p)
        PROVE  Quiet
    BY <2>1 DEF ReadProduct, PublicReadProduct, CountKeys, Quiet
  <2>2. ASSUME NEW c \in Clients, JobCrash(c) PROVE Quiet
    BY <2>2 DEF JobCrash, Quiet
  <2>3. QED
    BY <1>2, <2>1, <2>2 DEF Catalogue
<1>3. CASE \E o \in Orders : Charge(o)
  BY <1>3
<1>4. CASE PaymentCallBack
  <2>1. ASSUME NEW t \in Notifiers, NEW o \in Orders, NEW ok, LockOrder(t, o, ok)
        PROVE  Quiet
    BY <2>1 DEF LockOrder, Quiet
  <2>2. ASSUME NEW t \in Notifiers,
               OutOfStock(t) \/ NotifyCrash(t) \/ \E k \in Keys : PickKey(t, k)
        PROVE  Quiet
    BY <2>2 DEF OutOfStock, NotifyCrash, PickKey, Quiet
  <2>3. ASSUME NEW t \in Notifiers, NEW o \in Orders, NEW state,
               AlipayNotify(t, o, state) \/ WechatNotify(t, o, state)
        PROVE  Quiet
    BY <2>1, <2>3 DEF AlipayNotify, WechatNotify
  <2>4. QED
    BY <1>4, <2>2, <2>3 DEF PaymentCallBack
<1>5. CASE Activation
  <2>1. ASSUME NEW a \in Activators,
               LockKey(a) \/ RejectActivation(a) \/ ActivationCrash(a)
        PROVE  Quiet
    BY <2>1 DEF LockKey, RejectActivation, ActivationCrash, Quiet
  <2>2. ASSUME NEW a \in Activators, NEW k \in Keys, NEW d \in Devices, NEW n \in Nonces,
               NEW r \in Requests, NEW matches \in BOOLEAN, UseNonce(a, k, d, n, r, matches)
        PROVE  Quiet
    BY <2>2 DEF UseNonce, Quiet
  <2>3. QED
    BY <1>5, <2>1, <2>2 DEF Activation
<1>6. QED
  BY <1>1, <1>2, <1>3, <1>4, <1>5 DEF Next

LEMMA InitSound == Init => Sound
  BY DEF Init, Sound, KeySoldOnce, DeliveredWasPaid, RightProduct,
     LicenceMatchesBinding,
         RowsMatchBinding, NonceOnce, ProductOutlivesRows, Referenced

LEMMA UpsertProductSound ==
  ASSUME Held, Sound, NEW p \in Products, NEW active \in BOOLEAN, UpsertProduct(p, active)
  PROVE  Sound'
  BY DEF UpsertProduct, Held, LocksProtect, TypeOK, NotifyHolds, Referenced, Sound,
         KeySoldOnce, DeliveredWasPaid, RightProduct, LicenceMatchesBinding,
         RowsMatchBinding, NonceOnce, ProductOutlivesRows

LEMMA DeleteProductSound ==
  ASSUME Held, Sound, NEW c \in Clients, DeleteProduct(c)
  PROVE  Sound'
  BY DEF DeleteProduct, Held, LocksProtect, TypeOK, NotifyHolds, Referenced, Sound,
         KeySoldOnce, DeliveredWasPaid, RightProduct, LicenceMatchesBinding,
         RowsMatchBinding, NonceOnce, ProductOutlivesRows

LEMMA RevokeKeySound ==
  ASSUME Held, Sound, NEW k \in Keys, RevokeKey(k)
  PROVE  Sound'
  BY DEF RevokeKey, Held, LocksProtect, TypeOK, NotifyHolds, Referenced, Sound,
         KeySoldOnce, DeliveredWasPaid, RightProduct, LicenceMatchesBinding,
         RowsMatchBinding, NonceOnce, ProductOutlivesRows

LEMMA ChargeSound ==
  ASSUME Held, Sound, NEW o \in Orders, Charge(o)
  PROVE  Sound'
  BY DEF Charge, Held, LocksProtect, TypeOK, NotifyHolds, Referenced, Sound,
         KeySoldOnce, DeliveredWasPaid, RightProduct, LicenceMatchesBinding,
         RowsMatchBinding, NonceOnce, ProductOutlivesRows

LEMMA NotifyFailedSound ==
  ASSUME Held, Sound, NEW t \in Notifiers, NotifyFailed(t)
  PROVE  Sound'
  BY DEF NotifyFailed, Held, LocksProtect, TypeOK, NotifyHolds, Referenced, Sound,
         KeySoldOnce, DeliveredWasPaid, RightProduct, LicenceMatchesBinding,
         RowsMatchBinding, NonceOnce, ProductOutlivesRows

LEMMA NotifyAgainSound ==
  ASSUME Held, Sound, NEW t \in Notifiers, NotifyAgain(t)
  PROVE  Sound'
  BY DEF NotifyAgain, Held, LocksProtect, TypeOK, NotifyHolds, Referenced, Sound,
         KeySoldOnce, DeliveredWasPaid, RightProduct, LicenceMatchesBinding,
         RowsMatchBinding, NonceOnce, ProductOutlivesRows

\* A batch gives absent keys the status 'unused' and touches nothing else of them.
LEMMA CreateKeysRows ==
  ASSUME Held, NEW c \in Clients, CreateKeys(c)
  PROVE  \A k \in Keys : /\ keys'[k].order = keys[k].order
                         /\ keys'[k].device = keys[k].device
                         /\ keys'[k].status # keys[k].status =>
                              /\ keys[k].status = "absent"
                              /\ keys'[k].status = "unused"
                              /\ ProductOf[k] = job[c].product
                              /\ product[job[c].product] # "absent"
  BY DEF CreateKeys, Held, TypeOK

LEMMA CreateKeysSound ==
  ASSUME Held, Sound, NEW c \in Clients, CreateKeys(c)
  PROVE  Sound'
<1>1. UNCHANGED <<product, orders, activations, charged, licensed>>
  BY DEF CreateKeys
<1>2. KeySoldOnce' /\ DeliveredWasPaid' /\ RightProduct'
  BY <1>1, CreateKeysRows DEF Sound, KeySoldOnce, DeliveredWasPaid, RightProduct
<1>3. LicenceMatchesBinding'
  BY <1>1, CreateKeysRows DEF Sound, LicenceMatchesBinding
<1>4. RowsMatchBinding'
  BY <1>1, CreateKeysRows DEF Held, LocksProtect, RowsExist, Sound, RowsMatchBinding
<1>5. NonceOnce'
  BY DEF CreateKeys, Held, TypeOK, LocksProtect, JobHolds, Sound, NonceOnce
<1>6. ProductOutlivesRows'
  BY <1>1, CreateKeysRows DEF Sound, ProductOutlivesRows, Referenced
<1>7. QED
  BY <1>2, <1>3, <1>4, <1>5, <1>6 DEF Sound

LEMMA CommitDeliverySound ==
  ASSUME Held, Sound, NEW t \in Notifiers, CommitDelivery(t)
  PROVE  Sound'
<1>1. KeySoldOnce'
  BY DEF CommitDelivery, Held, LocksProtect, TypeOK, NotifyHolds, Assignable, Sound,
     KeySoldOnce
<1>2. DeliveredWasPaid'
  BY DEF CommitDelivery, Held, LocksProtect, TypeOK, NotifyHolds, Sound,
     DeliveredWasPaid
<1>3. RightProduct'
  BY DEF CommitDelivery, Held, LocksProtect, TypeOK, NotifyHolds, Assignable, Sound,
     RightProduct
<1>4. LicenceMatchesBinding'
  BY DEF CommitDelivery, Held, TypeOK, Sound, LicenceMatchesBinding
<1>5. RowsMatchBinding'
  BY DEF CommitDelivery, Held, LocksProtect, TypeOK, RowsExist, Sound,
     RowsMatchBinding
<1>6. NonceOnce'
  BY DEF CommitDelivery, Sound, NonceOnce
<1>7. ProductOutlivesRows'
  BY DEF CommitDelivery, Held, LocksProtect, TypeOK, NotifyHolds, Assignable,
     Referenced, Sound, ProductOutlivesRows
<1>8. QED
  BY <1>1, <1>2, <1>3, <1>4, <1>5, <1>6, <1>7 DEF Sound

LEMMA CommitActivationSound ==
  ASSUME Held, Sound, NEW a \in Activators, CommitActivation(a)
  PROVE  Sound'
<1>1. KeySoldOnce'
  BY DEF CommitActivation, Held, TypeOK, Sound, KeySoldOnce
<1>2. DeliveredWasPaid'
  BY DEF CommitActivation, Sound, DeliveredWasPaid
<1>3. RightProduct'
  BY DEF CommitActivation, Sound, RightProduct
<1>4. LicenceMatchesBinding'
  BY DEF CommitActivation, Held, LocksProtect, TypeOK, ActivationHolds, Acceptable,
     Sound, LicenceMatchesBinding
<1>5. RowsMatchBinding'
  BY DEF CommitActivation, Held, LocksProtect, TypeOK, RowsExist, ActivationHolds,
     Acceptable, Sound, RowsMatchBinding
<1>6. NonceOnce'
  BY DEF CommitActivation, Held, LocksProtect, TypeOK, ActivationHolds, Sound,
     NonceOnce
<1>7. ProductOutlivesRows'
  BY DEF CommitActivation, Held, LocksProtect, TypeOK, ActivationHolds, Referenced,
     Sound, ProductOutlivesRows
<1>8. QED
  BY <1>1, <1>2, <1>3, <1>4, <1>5, <1>6, <1>7 DEF Sound

LEMMA CreateOrderSound ==
  ASSUME Held, Sound, NEW c \in Clients, CreateOrder(c)
  PROVE  Sound'
<1>1. CASE UNCHANGED orders
  BY <1>1 DEF CreateOrder, Sound, KeySoldOnce, DeliveredWasPaid, RightProduct,
              LicenceMatchesBinding, RowsMatchBinding, NonceOnce, ProductOutlivesRows, Referenced
<1>2. ASSUME NEW o \in Orders, orders[o].status = "absent",
             ProductOf[o] = job[c].product, product[job[c].product] # "absent",
             orders' = [orders EXCEPT ![o].status = "pending"]
      PROVE  Sound'
  <2>1. /\ \A x \in Orders : orders'[x].key = orders[x].key
        /\ \A x \in Orders : x # o => orders'[x] = orders[x]
        /\ orders[o].key = None
    BY <1>2 DEF Held, LocksProtect, TypeOK, RowsExist
  <2>2. KeySoldOnce' /\ DeliveredWasPaid' /\ RightProduct'
    BY <1>2, <2>1 DEF CreateOrder, Sound, KeySoldOnce, DeliveredWasPaid, RightProduct
  <2>3. LicenceMatchesBinding' /\ RowsMatchBinding' /\ NonceOnce'
    BY DEF CreateOrder, Sound, LicenceMatchesBinding, RowsMatchBinding, NonceOnce
  <2>4. ProductOutlivesRows'
    BY <1>2, <2>1 DEF CreateOrder, Sound, ProductOutlivesRows, Referenced
  <2>5. QED
    BY <2>2, <2>3, <2>4 DEF Sound
<1>3. QED
  BY <1>1, <1>2 DEF CreateOrder

LEMMA StepSound == Held /\ Sound /\ [Next]_vars => Sound'
<1> SUFFICES ASSUME Held, Sound, [Next]_vars PROVE Sound'
  OBVIOUS
<1>1. CASE Quiet
  BY <1>1 DEF Quiet, Sound, KeySoldOnce, DeliveredWasPaid, RightProduct,
              LicenceMatchesBinding, RowsMatchBinding, NonceOnce, ProductOutlivesRows, Referenced
<1>2. QED
  BY <1>1, Writers, UpsertProductSound, CreateOrderSound, CreateKeysSound,
     DeleteProductSound, RevokeKeySound, ChargeSound, NotifyFailedSound,
     NotifyAgainSound, CommitDeliverySound, CommitActivationSound

\* What the shop promises of its tables: no key is sold twice and no order gets two,
\* a delivered order was charged and got a key of its own product, every licence
\* names the one device of its key, a nonce is answered once and no order or key
\* outlives its product.
THEOREM SoundAlways == Spec => []Sound
  BY InitHeld, InitSound, StepHeld, StepSound, PTL DEF Spec

\* The sale alone, by name.
THEOREM KeySoldOnceAlways == Spec => []KeySoldOnce
<1>1. Sound => KeySoldOnce
  BY DEF Sound
<1>2. QED
  BY <1>1, SoundAlways, PTL

\* However activations and revocations of a key interleave, its licences are for the one
\* device it is bound to.
THEOREM LicenceMatchesBindingAlways == Spec => []LicenceMatchesBinding
<1>1. Sound => LicenceMatchesBinding
  BY DEF Sound
<1>2. QED
  BY <1>1, SoundAlways, PTL

\* However call-backs repeat and interleave, a key was only delivered for a charged order.
THEOREM DeliveredWasPaidAlways == Spec => []DeliveredWasPaid
<1>1. Sound => DeliveredWasPaid
  BY DEF Sound
<1>2. QED
  BY <1>1, SoundAlways, PTL

\* Deliveries, new keys and products that come and go never mix up two products.
THEOREM RightProductAlways == Spec => []RightProduct
<1>1. Sound => RightProduct
  BY DEF Sound
<1>2. QED
  BY <1>1, SoundAlways, PTL

\* Activations that share a request_id leave no row for a device that was turned away.
THEOREM RowsMatchBindingAlways == Spec => []RowsMatchBinding
<1>1. Sound => RowsMatchBinding
  BY DEF Sound
<1>2. QED
  BY <1>1, SoundAlways, PTL

\* A nonce is answered once, by either of the two endpoints, and rolled back with them.
THEOREM NonceOnceAlways == Spec => []NonceOnce
<1>1. Sound => NonceOnce
  BY DEF Sound
<1>2. QED
  BY <1>1, SoundAlways, PTL

\* A product is never deleted under its orders and keys, although the check that precedes
\* the deletion is stale and looks at the keys alone.
THEOREM ProductOutlivesRowsAlways == Spec => []ProductOutlivesRows
<1>1. Sound => ProductOutlivesRows
  BY DEF Sound
<1>2. QED
  BY <1>1, SoundAlways, PTL

------------------------------------------------------------------------------
(* Every handler's write is a step of KeyAllocation. *)

LEMMA InitRefines == Init => KA!Init
  BY DEF Init, KA!Init

LEMMA StepRefines == Held /\ Sound /\ [Next]_vars => [KA!Next]_(KA!vars)
<1> SUFFICES ASSUME Held, Sound, [Next]_vars PROVE [KA!Next]_(KA!vars)
  OBVIOUS
<1>1. CASE Quiet
  BY <1>1 DEF Quiet, KA!vars
<1>2. ASSUME NEW p \in Products, NEW active \in BOOLEAN, UpsertProduct(p, active)
      PROVE  UNCHANGED KA!vars
  BY <1>2 DEF UpsertProduct, KA!vars
<1>3. ASSUME NEW c \in Clients, CreateOrder(c)
      PROVE  UNCHANGED KA!vars
  <2>1. UNCHANGED keys
    BY <1>3 DEF CreateOrder
  <2>2. ASSUME NEW x \in Orders, orders[x].status = "absent",
               orders' = [orders EXCEPT ![x].status = "pending"]
        PROVE  \A o \in Orders : orders'[o].status = "paid" <=> orders[o].status = "paid"
    BY <2>2 DEF Held, TypeOK
  <2>3. \A o \in Orders : orders'[o].status = "paid" <=> orders[o].status = "paid"
    BY <1>3, <2>2 DEF CreateOrder
  <2>4. QED
    BY <2>1, <2>3 DEF KA!vars
<1>4. ASSUME NEW c \in Clients, CreateKeys(c)
      PROVE  [KA!Next]_(KA!vars)
  <2> DEFINE S == {k \in Keys : keys'[k].status # keys[k].status}
  <2>1. UNCHANGED orders
    BY <1>4 DEF CreateKeys
  <2>2. /\ {k \in Keys : keys'[k].status # "absent"} = {k \in Keys : keys[k].status # "absent"} \cup S
        /\ {k \in Keys : keys'[k].status = "revoked"} = {k \in Keys : keys[k].status = "revoked"}
        /\ [k \in Keys |-> keys'[k].order] = [k \in Keys |-> keys[k].order]
        /\ [k \in Keys |-> keys'[k].device] = [k \in Keys |-> keys[k].device]
    BY <1>4, CreateKeysRows
  <2>3. S \in SUBSET Keys
    OBVIOUS
  <2>4. KA!AddKeys(S)
    BY <2>1, <2>2 DEF KA!AddKeys
  <2>5. QED
    BY <2>3, <2>4 DEF KA!Next, KA!AddKeys
<1>5. ASSUME NEW c \in Clients, DeleteProduct(c)
      PROVE  UNCHANGED KA!vars
  BY <1>5 DEF DeleteProduct, KA!vars
<1>6. ASSUME NEW k \in Keys, RevokeKey(k)
      PROVE  KA!Next
  BY <1>6 DEF RevokeKey, KA!Next, KA!Void, Held, TypeOK
<1>7. ASSUME NEW o \in Orders, Charge(o)
      PROVE  UNCHANGED KA!vars
  BY <1>7 DEF Charge, KA!vars
<1>8. ASSUME NEW t \in Notifiers, NotifyFailed(t)
      PROVE  UNCHANGED KA!vars
  BY <1>8 DEF NotifyFailed, KA!vars, Held, TypeOK, LocksProtect, NotifyHolds
<1>9. ASSUME NEW t \in Notifiers, NotifyAgain(t)
      PROVE  UNCHANGED KA!vars
  BY <1>9 DEF NotifyAgain, KA!vars, Held, TypeOK, LocksProtect, NotifyHolds, Sound,
     DeliveredWasPaid
<1>10. ASSUME NEW t \in Notifiers, CommitDelivery(t)
       PROVE  KA!Next
  <2> DEFINE o == notify[t].order
             k == notify[t].key
  <2>1. /\ o \in Orders /\ k \in Keys
        /\ keys[k].status = "unused" /\ keys[k].order = None
        /\ orders[o].key = None
    BY <1>10 DEF CommitDelivery, Held, LocksProtect, NotifyHolds, Assignable
  <2>2. keys[k].device = None
    BY <2>1 DEF Held, TypeOK, Sound, LicenceMatchesBinding
  <2>3. \A j \in Keys : keys[j].order # o
    BY <2>1 DEF Sound, KeySoldOnce
  <2>4. /\ keys' = [keys EXCEPT ![k].order = o]
        /\ orders' = [orders EXCEPT ![o] = [status |-> "paid", key |-> k]]
    BY <1>10 DEF CommitDelivery
  <2>5. /\ \A j \in Keys : /\ keys'[j].status = keys[j].status
                           /\ keys'[j].device = keys[j].device
                           /\ keys'[j].order = IF j = k THEN o ELSE keys[j].order
        /\ \A x \in Orders : orders'[x].status = "paid" <=> x = o \/ orders[x].status = "paid"
    BY <2>1, <2>4 DEF Held, TypeOK
  <2>6. KA!Deliver(o, k)
    BY <2>1, <2>2, <2>3, <2>5 DEF KA!Deliver
  <2>7. QED
    BY <2>1, <2>6 DEF KA!Next, KA!Deliver
<1>11. ASSUME NEW a \in Activators, CommitActivation(a)
       PROVE  [KA!Next]_(KA!vars)
  <2> DEFINE x == activation[a]
  <2>1. /\ x.key \in Keys /\ x.device \in Devices
        /\ x.row = keys[x.key] /\ keys[x.key].status \notin {"absent", "revoked"}
    BY <1>11 DEF CommitActivation, Acceptable, Held, LocksProtect, ActivationHolds
  <2>2. UNCHANGED orders
    BY <1>11 DEF CommitActivation
  <2>3. CASE x.row.device # None
    BY <1>11, <2>2, <2>3 DEF CommitActivation, KA!vars
  <2>4. CASE x.row.device = None
    <3>1. keys' = [keys EXCEPT ![x.key] = [status |-> "used", order |-> keys[x.key].order,
                                           device |-> x.device]]
      BY <1>11, <2>4 DEF CommitActivation
    <3>2. \A j \in Keys : /\ keys'[j].status = IF j = x.key THEN "used" ELSE keys[j].status
                          /\ keys'[j].device = IF j = x.key THEN x.device ELSE keys[j].device
                          /\ keys'[j].order = keys[j].order
      BY <2>1, <3>1 DEF Held, TypeOK
    <3>3. KA!Bind(x.key, x.device)
      BY <2>1, <2>2, <2>4, <3>2 DEF KA!Bind
    <3>4. QED
      BY <2>1, <3>3 DEF KA!Next, KA!Bind
  <2>5. QED
    BY <2>3, <2>4
<1>12. QED
  BY <1>1, <1>2, <1>3, <1>4, <1>5, <1>6, <1>7, <1>8, <1>9, <1>10, <1>11, Writers

\* The service implements KeyAllocation.
THEOREM Refines == Spec => RefinesAllocation
  BY InitHeld, InitSound, StepHeld, StepSound, InitRefines, StepRefines, PTL
     DEF Spec, RefinesAllocation, KA!Spec

================================================================================
