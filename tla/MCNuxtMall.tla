----------------------------- MODULE MCNuxtMall -----------------------------
(* NuxtMall on small instances. *)
EXTENDS NuxtMall, FiniteSets, TLC

\* At most two requests are in progress: a bound on the overlap.
MCTwoAtOnce ==
  Cardinality({t \in Notifiers : notify[t].pc # "idle"})
    + Cardinality({a \in Activators : activation[a].pc # "idle"})
    + Cardinality({c \in Clients : job[c].pc # "idle"}) <= 2

\* Every order and key is of one product ...
MCOneProduct == [x \in Orders \cup Keys |-> CHOOSE p \in Products : TRUE]

\* ... or one order and one key are of a product of their own.
MCTwoProducts == LET p == CHOOSE p \in Products : TRUE
                     q == CHOOSE q \in Products : q # p
                     o == CHOOSE o \in Orders : TRUE
                     k == CHOOSE k \in Keys : TRUE
                 IN [x \in Orders \cup Keys |-> IF x \in {o, k} THEN p ELSE q]

\* Orders, keys and handlers are interchangeable when there is one product.
MCSymmetry == UNION {Permutations(S) : S \in {Orders, Keys, Devices, Nonces, Requests,
                                              Notifiers, Activators, Clients}}

\* Otherwise the handlers, devices, nonces and requests are.
MCRowSymmetry == UNION {Permutations(S) : S \in {Devices, Nonces, Requests, Notifiers,
                                                 Activators, Clients}}
==============================================================================
