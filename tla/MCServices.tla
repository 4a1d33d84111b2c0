------------------------------- MODULE MCServices ------------------------------
(***************************************************************************)
(* A small instance of each part of Services.                              *)
(***************************************************************************)
EXTENDS Services, TLC

\* A share that requests may trade in a market of T+1 and in one of T+0, for cash of which
\* one purchase in each market can be paid and a second one in the same market only after a
\* sale there (the numbers are in the configuration).
MCCurrencyOf == [market \in {"CN", "HK"} |-> IF market = "CN" THEN "CNY" ELSE "HKD"]

\* Every analyst first or last, alone or among the others; the rounds of the five depths.
MCSelections == {<<"market", "social", "news", "fundamentals">>, <<"fundamentals", "social">>,
                 <<"social", "fundamentals", "market">>, <<"news">>}
MCRounds == {<<1, 1>>, <<1, 2>>, <<2, 2>>, <<3, 3>>}

\* The parts that do not run start in one state only.
MCInit ==
  /\ AnyInit
  /\ part # "graph" =>
       setup = [selected |-> <<"news">>, debate |-> 1, risk |-> 1, google |-> FALSE]
  /\ part # "jobs" => kind = "batches" /\ paused

MCSpec == MCInit /\ [][AnyNext]_allVars

\* Midnight matters to what is claimed of requests that follow one another; those that
\* overlap or are cut short are explored on the first day.
MCOneDayOnceDisturbed == disturbed => day = 0

MCSymmetry == Permutations(Handlers)

ASSUME Paper!MarketsHaveCurrencies /\ Paper!AmountsAreNatural /\ Paper!NoneIsNoDocument
ASSUME Code!TimesAreNatural /\ Code!LimitsArePositive
ASSUME Jobs!AgesLeaveAGap
ASSUME SelectionsAreChoices /\ RoundsArePositive
================================================================================
