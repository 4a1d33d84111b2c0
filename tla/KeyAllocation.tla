---------------------------- MODULE KeyAllocation ----------------------------
(***************************************************************************)
(* What the channel-code mall promises its customers, with no mention of   *)
(* tables, transactions or requests.  A key (channel code) is delivered to *)
(* at most one paid order and an order receives at most one key; a key is  *)
(* bound to the first device that activates it and to no other; an unbound *)
(* key can be voided by the administrator and is useless from then on.     *)
(*                                                                         *)
(* NuxtMall and NestMall are checked against this specification.           *)
(***************************************************************************)
CONSTANTS Orders, Keys, Devices,
          None                    \* "no order", "no device"

VARIABLES paid,     \* the orders whose payment is recorded
          stock,    \* the keys that exist
          holder,   \* the order each key was delivered to
          bound,    \* the device each key is bound to
          void      \* the keys the administrator has revoked

vars == <<paid, stock, holder, bound, void>>

Init == /\ paid = {}
        /\ stock = {}
        /\ holder = [k \in Keys |-> None]
        /\ bound = [k \in Keys |-> None]
        /\ void = {}

AddKeys(S) == /\ stock' = stock \cup S
              /\ UNCHANGED <<paid, holder, bound, void>>

Pay(o) == /\ paid' = paid \cup {o}
          /\ UNCHANGED <<stock, holder, bound, void>>

\* Delivery records the payment too when both become visible together.
Deliver(o, k) == /\ k \in stock \ void
                 /\ holder[k] = None
                 /\ bound[k] = None
                 /\ \A j \in Keys : holder[j] # o
                 /\ paid' = paid \cup {o}
                 /\ holder' = [holder EXCEPT ![k] = o]
                 /\ UNCHANGED <<stock, bound, void>>

Bind(k, d) == /\ k \in stock \ void
              /\ bound[k] = None
              /\ bound' = [bound EXCEPT ![k] = d]
              /\ UNCHANGED <<paid, stock, holder, void>>

Void(k) == /\ k \in stock
           /\ bound[k] = None
           /\ void' = void \cup {k}
           /\ UNCHANGED <<paid, stock, holder, bound>>

Next == \/ \E S \in SUBSET Keys : AddKeys(S)
        \/ \E o \in Orders : Pay(o)
        \/ \E o \in Orders, k \in Keys : Deliver(o, k)
        \/ \E k \in Keys, d \in Devices : Bind(k, d)
        \/ \E k \in Keys : Void(k)

Spec == Init /\ [][Next]_vars

------------------------------------------------------------------------------
TypeOK == /\ paid \subseteq Orders
          /\ stock \subseteq Keys
          /\ holder \in [Keys -> Orders \cup {None}]
          /\ bound \in [Keys -> Devices \cup {None}]
          /\ void \subseteq Keys

\* No order ever holds two keys.  (That a key has at most one holder is the
\* type of holder.)
OneKeyPerOrder ==
  \A j, k \in Keys : holder[j] # None /\ holder[j] = holder[k] => j = k

\* Only paid orders hold keys.
DeliveredOnlyToPaid == \A k \in Keys : holder[k] # None => holder[k] \in paid

\* A revoked key is on no device.
VoidIsUnbound == \A k \in void : bound[k] = None

\* Only keys that exist are delivered, bound or revoked.
OnlyStock == /\ void \subseteq stock
             /\ \A k \in Keys : holder[k] # None \/ bound[k] # None => k \in stock

Promise == /\ OneKeyPerOrder
           /\ DeliveredOnlyToPaid
           /\ VoidIsUnbound
           /\ OnlyStock
==============================================================================
