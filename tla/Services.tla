-------------------------------- MODULE Services -------------------------------
(***************************************************************************)
(* Four parts of the two servers that share no state: the paper trading    *)
(* account, the verification codes, the graph of agents and the scheduled  *)
(* jobs.  A behaviour is one of one part, the others stay as they are at   *)
(* the start, so that a property of one part is a property of the sum and  *)
(* TLC explores each part by itself.  The graph is the part that is        *)
(* extended, and its Init, Next and vars are those of the graph alone.     *)
(***************************************************************************)
EXTENDS TradingGraph, Integers

CONSTANTS
  Handlers,     \* of HTTP requests, of either server
  Codes, Currencies, Markets, CurrencyOf, NextDayMarkets, Prices, Fee, InitialCash,
  MaxRequests, MaxQuantity, MaxDay,
  Targets, SendInterval, Expiry, Minute, MaxFailCount, IpLimit, MaxClock, MaxCodes,
  Kinds, MatchWindow, ZombieAge, MaxRecords, MaxNow, MaxRuns, MaxActs,
  None

VARIABLES
  part,
  accounts, positions, orders, trades, request, started, day, disturbed,
  codes, caller, clock, answers, collided,
  kind, paused, due, run, ending, records, trigger, asked, zombies, now, runs, acts,
  sawCancel, decided

Paper == INSTANCE PaperTrading WITH Requests <- Handlers
Code == INSTANCE VerificationCode WITH Callers <- Handlers
Jobs == INSTANCE ScheduledJobs

paperVars == <<accounts, positions, orders, trades, request, started, day, disturbed>>
codeVars == <<codes, caller, clock, answers, collided>>
jobVars == <<kind, paused, due, run, ending, records, trigger, asked, zombies, now, runs, acts,
             sawCancel, decided>>
allVars == <<part, paperVars, codeVars, vars, jobVars>>

AnyInit ==
  /\ part \in {"paper", "verification", "graph", "jobs"}
  /\ Paper!Init /\ Code!Init /\ Init /\ Jobs!Init

AnyNext ==
  \/ /\ part = "paper" /\ Paper!Next
     /\ UNCHANGED <<part, codeVars, vars, jobVars>>
  \/ /\ part = "verification" /\ Code!Next
     /\ UNCHANGED <<part, paperVars, vars, jobVars>>
  \/ /\ part = "graph" /\ Next
     /\ UNCHANGED <<part, paperVars, codeVars, jobVars>>
  \/ /\ part = "jobs" /\ Jobs!Next
     /\ UNCHANGED <<part, paperVars, codeVars, vars>>

AnySpec == AnyInit /\ [][AnyNext]_allVars

------------------------------------------------------------------------------
\* The types of the variables of each part.
AllTypeOK == Paper!TypeOK /\ Code!TypeOK /\ TypeOK /\ Jobs!TypeOK

\* The cash and the positions of the paper account are what its trades make them
\* (place_order, reset_account).
BooksBalance == Paper!BooksBalance

\* What was bought from the day of its check on is not sold by a request that names a
\* market of T+1 (_get_available_quantity).
SoldWasSettled == Paper!SoldWasSettled

\* No purchase takes the cash below zero, in any interleaving of orders (place_order).
NoDebt == Paper!NoDebt

\* Uses, guesses and numbers of verification codes are bounded, and what requests at the
\* same time add to the bounds is itself bounded (sendCode, verifyCode).
LimitsHold == Code!LimitsHold

\* A new verification code takes the older ones out of use (verifyCode).
OnlyTheNewestCounts == Code!OnlyTheNewestCounts

\* The end of a run, the zombie check and the next run do not overwrite one another's
\* records (_record_job_execution, _check_zombie_tasks).
FinishedIsFinal == Jobs!FinishedIsFinal
================================================================================
