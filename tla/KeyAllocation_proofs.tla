------------------------- MODULE KeyAllocation_proofs -------------------------
(* What KeyAllocation promises holds for every set of orders, keys and devices. *)
EXTENDS KeyAllocation, TLAPS

\* The promise is inductive once the types are known.
IInv == TypeOK /\ Promise

LEMMA InitIInv == Init => IInv
  BY DEF Init, IInv, TypeOK, Promise, OneKeyPerOrder, DeliveredOnlyToPaid,
         VoidIsUnbound, OnlyStock

LEMMA AddKeysIInv == ASSUME IInv, NEW S \in SUBSET Keys, AddKeys(S) PROVE IInv'
  BY DEF IInv, AddKeys, TypeOK, Promise, OneKeyPerOrder, DeliveredOnlyToPaid,
         VoidIsUnbound, OnlyStock

LEMMA PayIInv == ASSUME IInv, NEW o \in Orders, Pay(o) PROVE IInv'
  BY DEF IInv, Pay, TypeOK, Promise, OneKeyPerOrder, DeliveredOnlyToPaid,
         VoidIsUnbound, OnlyStock

\* The key had no holder and the order no key: nobody else is touched.
LEMMA DeliverIInv ==
  ASSUME IInv, NEW o \in Orders, NEW k \in Keys, Deliver(o, k)
  PROVE  IInv'
<1>1. holder' = [holder EXCEPT ![k] = o]
  BY DEF Deliver
<1>2. \A j \in Keys : holder'[j] = IF j = k THEN o ELSE holder[j]
  BY <1>1 DEF IInv, TypeOK
<1>3. TypeOK'
  BY DEF IInv, TypeOK, Deliver
<1>4. OneKeyPerOrder'
  BY <1>2 DEF IInv, Promise, Deliver, OneKeyPerOrder
<1>5. DeliveredOnlyToPaid'
  BY <1>2 DEF IInv, Promise, Deliver, DeliveredOnlyToPaid
<1>6. VoidIsUnbound' /\ OnlyStock'
  BY <1>2 DEF IInv, Promise, Deliver, VoidIsUnbound, OnlyStock
<1>7. QED
  BY <1>3, <1>4, <1>5, <1>6 DEF IInv, Promise

LEMMA BindIInv ==
  ASSUME IInv, NEW k \in Keys, NEW d \in Devices, Bind(k, d)
  PROVE  IInv'
  BY DEF IInv, Bind, TypeOK, Promise, OneKeyPerOrder, DeliveredOnlyToPaid,
         VoidIsUnbound, OnlyStock

LEMMA VoidIInv == ASSUME IInv, NEW k \in Keys, Void(k) PROVE IInv'
  BY DEF IInv, Void, TypeOK, Promise, OneKeyPerOrder, DeliveredOnlyToPaid,
         VoidIsUnbound, OnlyStock

LEMMA StepIInv == IInv /\ [Next]_vars => IInv'
<1>1. ASSUME IInv, UNCHANGED vars PROVE IInv'
  BY <1>1 DEF vars, IInv, TypeOK, Promise, OneKeyPerOrder, DeliveredOnlyToPaid,
              VoidIsUnbound, OnlyStock
<1>2. QED
  BY <1>1, AddKeysIInv, PayIInv, DeliverIInv, BindIInv, VoidIInv DEF Next

\* An order never receives two keys, only paid orders receive one, and a revoked
\* key is on no device: the promise of the mall's handlers, whatever their number.
THEOREM Promised == Spec => [](TypeOK /\ Promise)
<1>1. IInv => TypeOK /\ Promise
  BY DEF IInv
<1>2. QED
  BY <1>1, InitIInv, StepIInv, PTL DEF Spec
===============================================================================
