----------------------------- MODULE MCNestMall -----------------------------
(* NestMall on small instances, with one product or with one for each row. *)
EXTENDS NestMall, TLC

\* At most two requests are in progress: the bound of the run on the overlap.
MCTwoAtOnce ==
  Cardinality({t \in Notifiers : notify[t].pc # "idle"})
    + Cardinality({a \in Activators : activation[a].pc # "idle"})
    + Cardinality({c \in Clients : job[c].pc # "idle"}) <= 2

MCOneProduct == [x \in Orders \cup Keys |-> CHOOSE p \in Products : TRUE]

\* One order and one key are of a product of their own.
MCTwoProducts == LET p == CHOOSE p \in Products : TRUE
                     q == CHOOSE q \in Products : q # p
                     o == CHOOSE o \in Orders : TRUE
                     k == CHOOSE k \in Keys : TRUE
                 IN [x \in Orders \cup Keys |-> IF x \in {o, k} THEN p ELSE q]

MCSymmetry == UNION {Permutations(S) : S \in {Orders, Keys, Devices, Requests,
                                              Notifiers, Activators, Clients}}
==============================================================================
