----------------------------- MODULE Services_proofs ---------------------------
(***************************************************************************)
(* The paper trading account and the scheduled jobs, for any numbers of    *)
(* handlers, codes, currencies, records and days, and the types of all     *)
(* four parts.                                                             *)
(*                                                                         *)
(* The books of the account do not balance when requests overlap; what     *)
(* keeps the cash above zero all the same is that nothing negative is ever *)
(* in a document of an account or in the locals of a handler.  While they  *)
(* follow one another, the books balance because the one in progress is    *)
(* ahead of the trades by its own trade and by nothing else.  What keeps   *)
(* a finished record finished is that the two that write without looking   *)
(* again, the end of a run and the check of the zombies, have each found   *)
(* a record of another age.                                                *)
(***************************************************************************)
EXTENDS ServicesCodes_proofs, TradingGraph_proofs

(* Paper trading *)

LEMMA PaperRuns == [AnyNext]_allVars => [Paper!Next]_(Paper!vars)
BY DEF AnyNext, allVars, paperVars, Paper!vars

PaperParameters == /\ Paper!MarketsHaveCurrencies /\ Paper!AmountsAreNatural
                   /\ Paper!NoneIsNoDocument

\* What a balance may be: not below zero where a sale pays its own commission.
Money == {m \in Int : Paper!SalesPayTheirFee => m >= 0}

Ids == 1..MaxRequests
Balances == [Currencies -> Money]
Position == [id : Ids, code : Codes, quantity : Int]
Trade == [id : Ids, code : Codes, market : Markets, side : {"buy", "sell"},
          quantity : Nat, price : Nat, day : Nat, checked : Nat]

\* Program counters at which the account was read, and those at which the price was.
WithPrice == {"position", "pay", "holding", "rules", "available", "hold", "order", "trade"}
WithCash == WithPrice \cup {"price"}
Counters == WithCash \cup {"idle", "account", "create", "wipeAccount", "wipePositions",
                           "wipeOrders", "wipeTrades"}

Locals == [pc : Counters, kind : {"none", "view", "buy", "sell", "reset"}, id : 0..MaxRequests,
           code : Codes \cup {None}, market : Markets \cup {None}, quantity : Nat, price : Nat,
           cash : Balances \cup {None}, position : Position \cup {None}, total : Int,
           day : Nat, today : Nat]

\* What a handler knows of its request.
Holds(l) ==
  /\ l.pc # "idle" => l.id \in Ids /\ l.kind # "none"
  /\ l.kind \in {"buy", "sell"} =>
       l.code \in Codes /\ l.market \in Markets /\ l.quantity \in Nat \ {0}
  /\ l.pc \in WithCash => l.cash \in Balances /\ l.kind \in {"buy", "sell"}
  /\ l.pc \in WithPrice => l.price \in Prices
  /\ l.pc \in {"pay", "hold"} /\ l.kind = "sell" => l.position # None

HandlersKnow == request \in [Handlers -> Locals] /\ \A r \in Handlers : Holds(request[r])

Accounts == accounts \in [DOMAIN accounts -> Balances] /\ DOMAIN accounts \subseteq Ids

Records == /\ positions \subseteq Position
           /\ orders \subseteq Ids
           /\ trades \subseteq Trade
           /\ started \in 0..MaxRequests /\ day \in Nat /\ disturbed \in BOOLEAN

Solvent == Accounts /\ Records /\ HandlersKnow

------------------------------------------------------------------------------
(* Changes of one handler *)

LEMMA Becomes ==
  ASSUME HandlersKnow, NEW r \in Handlers, NEW l \in Locals, Holds(l),
         request' = [request EXCEPT ![r] = l]
  PROVE  HandlersKnow'
  BY DEF HandlersKnow

LEMMA Returns ==
  ASSUME PaperParameters, HandlersKnow, NEW r \in Handlers, Paper!Return(r)
  PROVE  HandlersKnow'
<1>1. Paper!Idle \in Locals /\ Holds(Paper!Idle)
  BY DEF PaperParameters, Paper!AmountsAreNatural, Paper!Idle, Locals, Holds, Counters,
         WithCash, WithPrice
<1>2. QED
  BY <1>1, Becomes DEF Paper!Return

LEMMA GoesTo ==
  ASSUME HandlersKnow, NEW r \in Handlers, NEW pc \in Counters, Paper!GoTo(r, pc),
         Holds([request[r] EXCEPT !.pc = pc])
  PROVE  HandlersKnow'
<1> DEFINE l == [request[r] EXCEPT !.pc = pc]
<1>1. l \in Locals
  BY DEF HandlersKnow, Locals
<1>2. request' = [request EXCEPT ![r] = l]
  BY DEF Paper!GoTo
<1>3. QED
  BY <1>1, <1>2, Becomes

\* A step to a program counter at which no more is known.
LEMMA GoesOn ==
  ASSUME HandlersKnow, NEW r \in Handlers, NEW pc \in Counters \ {"idle"}, Paper!GoTo(r, pc),
         request[r].pc # "idle",
         pc \in WithCash => request[r].pc \in WithCash,
         pc \in WithPrice => request[r].pc \in WithPrice,
         pc \in {"pay", "hold"} /\ request[r].kind = "sell" => request[r].position # None
  PROVE  HandlersKnow'
<1>1. request[r] \in Locals /\ Holds(request[r])
  BY DEF HandlersKnow
<1>2. Holds([request[r] EXCEPT !.pc = pc])
  BY <1>1 DEF Holds, Locals
<1>3. QED
  BY <1>2, GoesTo

LEMMA LocalsAre ==
  ASSUME Solvent, NEW r \in Handlers
  PROVE  /\ request[r] \in Locals /\ Holds(request[r])
         /\ request[r].pc # "idle" => request[r].id \in Ids
         /\ request[r].kind \in {"buy", "sell"} =>
              /\ request[r].code \in Codes /\ request[r].market \in Markets
              /\ request[r].quantity \in Nat \ {0}
         /\ request[r].pc \in WithCash =>
              request[r].cash \in Balances /\ request[r].kind \in {"buy", "sell"}
         /\ request[r].pc \in WithPrice => request[r].price \in Prices
  BY DEF Solvent, HandlersKnow, Holds

------------------------------------------------------------------------------
(* Requests arrive and get the account *)

LEMMA StartSolvent ==
  ASSUME PaperParameters, Solvent, NEW r \in Handlers, NEW new \in Locals,
         NEW pc \in {"account", "wipeAccount"}, Paper!Start(r, new, pc),
         new.kind # "none",
         new.kind \in {"buy", "sell"} =>
           new.code \in Codes /\ new.market \in Markets /\ new.quantity \in Nat \ {0}
  PROVE  Solvent'
<1> DEFINE l == [new EXCEPT !.pc = pc, !.id = started + 1]
<1>1. started + 1 \in Ids /\ started' \in 0..MaxRequests
  BY DEF Paper!Start, Solvent, Records, Ids, PaperParameters, Paper!AmountsAreNatural
<1>2. l \in Locals /\ Holds(l)
  <2>1. started + 1 \in 0..MaxRequests
    BY <1>1 DEF Ids
  <2>2. l \in Locals
    BY <2>1 DEF Locals, Counters, WithCash, WithPrice
  <2>3. /\ l.pc = pc /\ l.id = started + 1
        /\ l.kind = new.kind /\ l.code = new.code /\ l.market = new.market
        /\ l.quantity = new.quantity
    BY DEF Locals
  <2>4. QED
    BY <1>1, <2>2, <2>3 DEF Holds, WithCash, WithPrice
<1>3. HandlersKnow'
  BY <1>2, Becomes DEF Paper!Start, Solvent
<1>4. disturbed' \in BOOLEAN
  BY DEF Paper!Start
<1>5. QED
  BY <1>1, <1>3, <1>4 DEF Paper!Start, Solvent, Accounts, Records

LEMMA IdleIs == PaperParameters => Paper!Idle \in Locals
  BY DEF PaperParameters, Paper!AmountsAreNatural, Paper!Idle, Locals, Counters, WithCash,
         WithPrice

LEMMA ArrivesSolvent ==
  ASSUME PaperParameters, Solvent, NEW r \in Handlers,
         \/ Paper!ViewAccount(r) \/ Paper!ResetAccount(r)
         \/ \E side \in {"buy", "sell"}, code \in Codes, market \in Markets,
              quantity \in 1..MaxQuantity : Paper!PlaceOrder(r, side, code, market, quantity)
  PROVE  Solvent'
<1>1. Paper!Idle \in Locals
  BY IdleIs
<1>2. CASE Paper!ViewAccount(r)
  <2>1. /\ [Paper!Idle EXCEPT !.kind = "view"] \in Locals
        /\ [Paper!Idle EXCEPT !.kind = "view"].kind = "view"
    BY <1>1 DEF Locals
  <2>2. QED
    BY <1>2, <2>1, StartSolvent DEF Paper!ViewAccount
<1>3. CASE Paper!ResetAccount(r)
  <2>1. /\ [Paper!Idle EXCEPT !.kind = "reset"] \in Locals
        /\ [Paper!Idle EXCEPT !.kind = "reset"].kind = "reset"
    BY <1>1 DEF Locals
  <2>2. QED
    BY <1>3, <2>1, StartSolvent DEF Paper!ResetAccount
<1>4. ASSUME NEW side \in {"buy", "sell"}, NEW code \in Codes, NEW market \in Markets,
             NEW quantity \in 1..MaxQuantity,
             Paper!PlaceOrder(r, side, code, market, quantity)
      PROVE  Solvent'
  <2> DEFINE l == [Paper!Idle EXCEPT !.kind = side, !.code = code, !.market = market,
                                     !.quantity = quantity]
  <2>1. quantity \in Nat \ {0}
    BY DEF PaperParameters, Paper!AmountsAreNatural
  <2>2. /\ l \in Locals /\ l.kind = side /\ l.code = code /\ l.market = market
        /\ l.quantity = quantity
    BY <1>1, <2>1 DEF Locals
  <2>3. QED
    BY <1>4, <2>1, <2>2, StartSolvent DEF Paper!PlaceOrder
<1>5. QED
  BY <1>2, <1>3, <1>4

LEMMA WithAccountHolds ==
  ASSUME PaperParameters, Solvent, NEW r \in Handlers, NEW cash \in Balances,
         request[r].pc # "idle", Paper!WithAccount(r, cash)
  PROVE  HandlersKnow'
<1>1. CASE request[r].kind \in {"view", "reset"}
  BY <1>1, Returns DEF Paper!WithAccount, Paper!Return, Solvent
<1>2. CASE request[r].kind \notin {"view", "reset"}
  <2> DEFINE l == [request[r] EXCEPT !.pc = "price", !.cash = cash]
  <2>1. request[r] \in Locals /\ Holds(request[r])
    BY LocalsAre
  <2>2. l \in Locals /\ Holds(l)
    BY <1>2, <2>1 DEF Locals, Holds, Counters, WithCash, WithPrice
  <2>3. QED
    BY <1>2, <2>2, Becomes DEF Paper!WithAccount, Solvent
<1>3. QED
  BY <1>1, <1>2

LEMMA FindAccountSolvent ==
  ASSUME PaperParameters, Solvent, NEW r \in Handlers, Paper!FindAccount(r)
  PROVE  Solvent'
<1>1. UNCHANGED <<accounts, positions, orders, trades, started, day, disturbed>>
  BY DEF Paper!FindAccount, Paper!Others
<1>2. request[r].pc = "account"
  BY DEF Paper!FindAccount, Paper!At
<1>3. HandlersKnow'
  <2>1. CASE accounts = <<>>
    BY <1>2, <2>1, GoesOn DEF Paper!FindAccount, Solvent, Counters, WithCash, WithPrice
  <2>2. CASE accounts # <<>>
    <3>1. PICK id \in DOMAIN accounts : Paper!WithAccount(r, accounts[id])
      BY <2>2 DEF Paper!FindAccount
    <3>2. accounts[id] \in Balances
      BY DEF Solvent, Accounts
    <3>3. QED
      BY <1>2, <3>1, <3>2, WithAccountHolds
  <2>3. QED
    BY <2>1, <2>2
<1>4. QED
  BY <1>1, <1>3 DEF Solvent, Accounts, Records

LEMMA CreateAccountSolvent ==
  ASSUME PaperParameters, Solvent, NEW r \in Handlers, Paper!CreateAccount(r)
  PROVE  Solvent'
<1>1. UNCHANGED <<positions, orders, trades, started, day, disturbed>>
  BY DEF Paper!CreateAccount, Paper!Others
<1>2. request[r].pc # "idle" /\ request[r].id \in Ids
  BY LocalsAre DEF Paper!CreateAccount, Paper!At
<1>3. Paper!NewAccount \in Balances
  BY DEF PaperParameters, Paper!AmountsAreNatural, Paper!NewAccount, Balances, Money
<1>4. HandlersKnow'
  BY <1>2, <1>3, WithAccountHolds DEF Paper!CreateAccount
<1>5. Accounts'
  BY <1>2, <1>3 DEF Paper!CreateAccount, Solvent, Accounts
<1>6. QED
  BY <1>1, <1>4, <1>5 DEF Solvent, Records

------------------------------------------------------------------------------
(* Orders: reads, refusals and records *)

LEMMA ReadPriceSolvent ==
  ASSUME PaperParameters, Solvent, NEW r \in Handlers, Paper!ReadPrice(r)
  PROVE  Solvent'
<1>1. UNCHANGED <<accounts, positions, orders, trades, started, day, disturbed>>
  BY DEF Paper!ReadPrice, Paper!Others
<1>2. CASE Paper!Return(r)
  BY <1>1, <1>2, Returns DEF Solvent, Accounts, Records
<1>3. ASSUME NEW price \in Prices,
             request' = [request EXCEPT ![r].pc = "position", ![r].price = price]
      PROVE  Solvent'
  <2> DEFINE l == [request[r] EXCEPT !.pc = "position", !.price = price]
  <2>1. request[r] \in Locals /\ Holds(request[r]) /\ request[r].pc = "price"
    BY LocalsAre DEF Paper!ReadPrice, Paper!At
  <2>2. price \in Nat
    BY DEF PaperParameters, Paper!AmountsAreNatural
  <2>3. l \in Locals /\ Holds(l)
    BY <2>1, <2>2 DEF Locals, Holds, Counters, WithCash, WithPrice
  <2>4. request' = [request EXCEPT ![r] = l]
    BY <1>3
  <2>5. QED
    BY <1>1, <2>3, <2>4, Becomes DEF Solvent, Accounts, Records
<1>4. QED
  BY <1>2, <1>3 DEF Paper!ReadPrice

LEMMA FoundIs ==
  ASSUME Solvent, NEW code, NEW position \in Paper!Found(Paper!PositionsOf(code))
  PROVE  position \in Position \cup {None}
  BY DEF Solvent, Records, Paper!Found, Paper!PositionsOf

LEMMA ReadPositionSolvent ==
  ASSUME PaperParameters, Solvent, NEW r \in Handlers, Paper!ReadPosition(r)
  PROVE  Solvent'
<1>1. UNCHANGED <<accounts, positions, orders, trades, started, day, disturbed>>
  BY DEF Paper!ReadPosition, Paper!Others
<1>2. PICK position \in Paper!Found(Paper!PositionsOf(request[r].code)) :
        request' = [request EXCEPT ![r].position = position, ![r].day = day,
                                   ![r].pc = IF request[r].kind = "buy" THEN "pay" ELSE "holding"]
  BY DEF Paper!ReadPosition
<1> DEFINE l == [request[r] EXCEPT !.position = position, !.day = day,
                                   !.pc = IF request[r].kind = "buy" THEN "pay" ELSE "holding"]
<1>3. request[r] \in Locals /\ Holds(request[r]) /\ request[r].pc = "position"
  BY LocalsAre DEF Paper!ReadPosition, Paper!At
<1>4. position \in Position \cup {None} /\ day \in Nat
  BY FoundIs DEF Solvent, Records
<1>5. l \in Locals /\ Holds(l)
  BY <1>3, <1>4 DEF Locals, Holds, Counters, WithCash, WithPrice
<1>6. request' = [request EXCEPT ![r] = l]
  BY <1>2
<1>7. QED
  BY <1>1, <1>5, <1>6, Becomes DEF Solvent, Accounts, Records

LEMMA ReadHoldingSolvent ==
  ASSUME PaperParameters, Solvent, NEW r \in Handlers, Paper!ReadHolding(r)
  PROVE  Solvent'
<1>1. UNCHANGED <<accounts, positions, orders, trades, started, day, disturbed>>
  BY DEF Paper!ReadHolding, Paper!Others
<1>2. PICK position \in Paper!Found(Paper!PositionsOf(request[r].code)) :
        request' = [request EXCEPT ![r].total = IF position = None THEN 0 ELSE position.quantity,
                                   ![r].pc = IF /\ position # None
                                                /\ request[r].market \in NextDayMarkets
                                             THEN "rules" ELSE "available"]
  BY DEF Paper!ReadHolding
<1> DEFINE total == IF position = None THEN 0 ELSE position.quantity
           pc == IF position # None /\ request[r].market \in NextDayMarkets
                 THEN "rules" ELSE "available"
           l == [request[r] EXCEPT !.total = total, !.pc = pc]
<1>3. request[r] \in Locals /\ Holds(request[r]) /\ request[r].pc = "holding"
  BY LocalsAre DEF Paper!ReadHolding, Paper!At
<1>4. total \in Int
  BY FoundIs DEF Position
<1>5. l \in Locals /\ Holds(l)
  BY <1>3, <1>4 DEF Locals, Holds, Counters, WithCash, WithPrice
<1>6. request' = [request EXCEPT ![r] = l]
  BY <1>2
<1>7. QED
  BY <1>1, <1>5, <1>6, Becomes DEF Solvent, Accounts, Records

LEMMA LookUpDateSolvent ==
  ASSUME PaperParameters, Solvent, NEW r \in Handlers, Paper!LookUpDate(r)
  PROVE  Solvent'
<1> DEFINE l == [request[r] EXCEPT !.today = day, !.pc = "available"]
<1>1. UNCHANGED <<accounts, positions, orders, trades, started, day, disturbed>>
  BY DEF Paper!LookUpDate, Paper!Others
<1>2. request[r] \in Locals /\ Holds(request[r]) /\ request[r].pc = "rules"
  BY LocalsAre DEF Paper!LookUpDate, Paper!At
<1>3. day \in Nat
  BY DEF Solvent, Records
<1>4. l \in Locals /\ Holds(l)
  BY <1>2, <1>3 DEF Locals, Holds, Counters, WithCash, WithPrice
<1>5. request' = [request EXCEPT ![r] = l]
  BY DEF Paper!LookUpDate
<1>6. QED
  BY <1>1, <1>4, <1>5, Becomes DEF Solvent, Accounts, Records

LEMMA CheckHoldingSolvent ==
  ASSUME PaperParameters, Solvent, NEW r \in Handlers, Paper!CheckHolding(r)
  PROVE  Solvent'
<1>1. UNCHANGED <<accounts, positions, orders, trades, started, day, disturbed>>
  BY DEF Paper!CheckHolding, Paper!Others
<1>2. request[r].pc = "available"
  BY DEF Paper!CheckHolding, Paper!At
<1>3. Paper!Return(r) \/ (Paper!GoTo(r, "pay") /\ request[r].position # None)
  BY DEF Paper!CheckHolding
<1>4. HandlersKnow'
  BY <1>2, <1>3, Returns, GoesOn DEF Solvent, Counters, WithCash, WithPrice
<1>5. QED
  BY <1>1, <1>4 DEF Solvent, Accounts, Records

LEMMA RefuseBuySolvent ==
  ASSUME PaperParameters, Solvent, NEW r \in Handlers, Paper!RefuseBuy(r)
  PROVE  Solvent'
<1>1. UNCHANGED <<accounts, positions, orders, trades, started, day, disturbed>>
  BY DEF Paper!RefuseBuy, Paper!Refuse, Paper!Others
<1>2. HandlersKnow'
  BY Returns DEF Paper!RefuseBuy, Paper!Refuse, Solvent
<1>3. QED
  BY <1>1, <1>2 DEF Solvent, Accounts, Records

LEMMA RecordOrderSolvent ==
  ASSUME PaperParameters, Solvent, NEW r \in Handlers, Paper!RecordOrder(r)
  PROVE  Solvent'
<1>1. UNCHANGED <<accounts, positions, trades, started, day, disturbed>>
  BY DEF Paper!RecordOrder, Paper!Others
<1>2. request[r].pc = "order" /\ request[r].id \in Ids
  BY LocalsAre DEF Paper!RecordOrder, Paper!At
<1>3. orders' \subseteq Ids
  BY <1>2 DEF Paper!RecordOrder, Solvent, Records
<1>4. HandlersKnow'
  BY <1>2, GoesOn DEF Paper!RecordOrder, Solvent, Counters, WithCash, WithPrice
<1>5. QED
  BY <1>1, <1>3, <1>4 DEF Solvent, Accounts, Records

LEMMA RecordTradeSolvent ==
  ASSUME PaperParameters, Solvent, NEW r \in Handlers, Paper!RecordTrade(r)
  PROVE  Solvent'
<1>1. UNCHANGED <<accounts, positions, orders, started, day, disturbed>>
  BY DEF Paper!RecordTrade, Paper!Others
<1>2. /\ request[r].id \in Ids /\ request[r].code \in Codes /\ request[r].market \in Markets
      /\ request[r].kind \in {"buy", "sell"}
      /\ request[r].quantity \in Nat /\ request[r].price \in Nat
      /\ request[r].day \in Nat /\ request[r].today \in Nat
  BY LocalsAre
     DEF Paper!RecordTrade, Paper!At, WithCash, WithPrice, PaperParameters,
         Paper!AmountsAreNatural, Locals
<1>3. trades' \subseteq Trade
  BY <1>2 DEF Paper!RecordTrade, Solvent, Records, Trade
<1>4. HandlersKnow'
  BY Returns DEF Paper!RecordTrade, Solvent
<1>5. QED
  BY <1>1, <1>3, <1>4 DEF Solvent, Accounts, Records

------------------------------------------------------------------------------
(* Orders: the account and the positions *)

\* update_one keeps the type of the accounts when the new cash has it.
LEMMA ReplaceAccounts ==
  ASSUME Solvent, NEW cash, NEW id \in DOMAIN accounts,
         accounts' = [accounts EXCEPT ![id] = cash], cash \in Balances
  PROVE  Accounts'
  BY DEF Solvent, Accounts

LEMMA PayForBuySolvent ==
  ASSUME PaperParameters, Solvent, NEW r \in Handlers, Paper!PayForBuy(r)
  PROVE  Solvent'
<1> DEFINE currency == CurrencyOf[request[r].market]
           paid == Paper!Notional(r) + Fee
<1>1. UNCHANGED <<positions, orders, trades, started, day, disturbed>>
  BY DEF Paper!PayForBuy, Paper!Others
<1>2. request[r].pc = "pay" /\ request[r].kind = "buy"
  BY DEF Paper!PayForBuy, Paper!At
<1>3. /\ request[r].cash \in Balances /\ request[r].market \in Markets
      /\ request[r].quantity \in Nat /\ request[r].price \in Nat
  BY <1>2, LocalsAre DEF WithCash, WithPrice, PaperParameters, Paper!AmountsAreNatural
<1>4. currency \in Currencies /\ request[r].cash[currency] \in Int /\ paid \in Nat
  BY <1>3
     DEF PaperParameters, Paper!MarketsHaveCurrencies, Paper!AmountsAreNatural, Paper!Notional,
         Balances, Money
<1>5. request[r].cash[currency] - paid \in Nat
  BY <1>4 DEF Paper!PayForBuy, Paper!Affordable
<1>6. Accounts'
  <2>1. CASE accounts = <<>>
    BY <2>1 DEF Paper!PayForBuy, Paper!UpdateAccount, Solvent, Accounts
  <2>2. CASE accounts # <<>>
    <3>1. PICK id \in DOMAIN accounts :
            accounts' = [accounts EXCEPT ![id] =
                           [@ EXCEPT ![currency] = request[r].cash[currency] - paid]]
      BY <2>2 DEF Paper!PayForBuy, Paper!UpdateAccount
    <3>2. [accounts[id] EXCEPT ![currency] = request[r].cash[currency] - paid] \in Balances
      BY <1>4, <1>5 DEF Solvent, Accounts, Balances, Money
    <3>3. QED
      BY <3>1, <3>2, ReplaceAccounts
  <2>3. QED
    BY <2>1, <2>2
<1>7. HandlersKnow'
  BY <1>2, GoesOn DEF Paper!PayForBuy, Solvent, Counters, WithCash, WithPrice
<1>8. QED
  BY <1>1, <1>6, <1>7 DEF Solvent, Records

LEMMA FeeIsCovered ==
  ASSUME PaperParameters, NEW price \in Prices, NEW quantity \in Nat \ {0}
  PROVE  price * quantity - Fee \in Money
<1>1. price \in Nat /\ Fee \in Nat
  BY DEF PaperParameters, Paper!AmountsAreNatural
<1>2. price * quantity \in Nat /\ price <= price * quantity
  BY <1>1
<1>3. Paper!SalesPayTheirFee => Fee <= price
  BY DEF Paper!SalesPayTheirFee
<1>4. QED
  BY <1>1, <1>2, <1>3 DEF Money

LEMMA PayForSaleSolvent ==
  ASSUME PaperParameters, Solvent, NEW r \in Handlers, Paper!PayForSale(r)
  PROVE  Solvent'
<1> DEFINE currency == CurrencyOf[request[r].market]
           proceeds == Paper!Notional(r) - Fee
<1>1. UNCHANGED <<positions, orders, trades, started, day, disturbed>>
  BY DEF Paper!PayForSale, Paper!Others
<1>2. request[r].pc = "pay" /\ request[r].kind = "sell"
  BY DEF Paper!PayForSale, Paper!At
<1>3. /\ request[r].market \in Markets
      /\ request[r].quantity \in Nat \ {0} /\ request[r].price \in Prices
  BY <1>2, LocalsAre DEF WithCash, WithPrice
<1>4. currency \in Currencies
  BY <1>3 DEF PaperParameters, Paper!MarketsHaveCurrencies
<1>5. proceeds \in Money
  BY <1>3, FeeIsCovered DEF Paper!Notional
<1>6. Accounts'
  <2>1. CASE accounts = <<>>
    BY <2>1 DEF Paper!PayForSale, Paper!UpdateAccount, Solvent, Accounts
  <2>2. CASE accounts # <<>>
    <3>1. PICK id \in DOMAIN accounts :
            accounts' = [accounts EXCEPT ![id] =
                           [accounts[id] EXCEPT ![currency] = accounts[id][currency] + proceeds]]
      BY <2>2 DEF Paper!PayForSale, Paper!UpdateAccount
    <3>2. [accounts[id] EXCEPT ![currency] = accounts[id][currency] + proceeds] \in Balances
      BY <1>4, <1>5 DEF Solvent, Accounts, Balances, Money
    <3>3. QED
      BY <3>1, <3>2, ReplaceAccounts
  <2>3. QED
    BY <2>1, <2>2
<1>7. request[r].position # None
  BY <1>2 DEF Solvent, HandlersKnow, Holds
<1>8. HandlersKnow'
  BY <1>2, <1>7, GoesOn DEF Paper!PayForSale, Solvent, Counters, WithCash, WithPrice
<1>9. QED
  BY <1>1, <1>6, <1>8 DEF Solvent, Records

LEMMA ReplacedPositions ==
  ASSUME Solvent, NEW old, NEW quantity \in Int, Paper!ReplacePosition(old, quantity)
  PROVE  positions' \subseteq Position
  BY DEF Solvent, Records, Paper!ReplacePosition, Position

LEMMA HoldBoughtSolvent ==
  ASSUME PaperParameters, Solvent, NEW r \in Handlers, Paper!HoldBought(r)
  PROVE  Solvent'
<1> DEFINE old == request[r].position
<1>1. UNCHANGED <<accounts, orders, trades, started, day, disturbed>>
  BY DEF Paper!HoldBought, Paper!Others
<1>2. request[r].pc = "hold" /\ request[r].kind = "buy"
  BY DEF Paper!HoldBought, Paper!At
<1>3. /\ request[r].id \in Ids /\ request[r].code \in Codes /\ request[r].quantity \in Nat
      /\ old \in Position \cup {None}
  BY <1>2, LocalsAre DEF Locals
<1>4. positions' \subseteq Position
  <2>1. CASE old = None
    BY <1>3, <2>1 DEF Paper!HoldBought, Solvent, Records, Position
  <2>2. CASE old # None
    <3>1. old.quantity + request[r].quantity \in Int
      BY <1>3, <2>2 DEF Position
    <3>2. QED
      BY <2>2, <3>1, ReplacedPositions DEF Paper!HoldBought
  <2>3. QED
    BY <2>1, <2>2
<1>5. HandlersKnow'
  BY <1>2, GoesOn DEF Paper!HoldBought, Solvent, Counters, WithCash, WithPrice
<1>6. QED
  BY <1>1, <1>4, <1>5 DEF Solvent, Accounts, Records

LEMMA HoldUnsoldSolvent ==
  ASSUME PaperParameters, Solvent, NEW r \in Handlers, Paper!HoldUnsold(r)
  PROVE  Solvent'
<1> DEFINE old == request[r].position
           left == old.quantity - request[r].quantity
<1>1. UNCHANGED <<accounts, orders, trades, started, day, disturbed>>
  BY DEF Paper!HoldUnsold, Paper!Others
<1>2. request[r].pc = "hold" /\ request[r].kind = "sell"
  BY DEF Paper!HoldUnsold, Paper!At
<1>3. old \in Position /\ request[r].quantity \in Nat
  BY <1>2, LocalsAre DEF Locals, Holds
<1>4. left \in Int
  BY <1>3 DEF Position
<1>5. positions' \subseteq Position
  BY <1>4, ReplacedPositions DEF Paper!HoldUnsold, Solvent, Records
<1>6. HandlersKnow'
  BY <1>2, GoesOn DEF Paper!HoldUnsold, Solvent, Counters, WithCash, WithPrice
<1>7. QED
  BY <1>1, <1>5, <1>6 DEF Solvent, Accounts, Records

------------------------------------------------------------------------------
(* Resets, interruptions and days *)

LEMMA ResetSolvent ==
  ASSUME PaperParameters, Solvent, NEW r \in Handlers, Paper!Reset(r)
  PROVE  Solvent'
<1>1. HandlersKnow'
  BY GoesOn
     DEF Paper!Reset, Paper!WipeAccount, Paper!WipePositions, Paper!WipeOrders,
         Paper!WipeTrades, Paper!At, Solvent, Counters, WithCash, WithPrice
<1>2. /\ accounts' \in {accounts, <<>>}
      /\ positions' \in {positions, {}} /\ orders' \in {orders, {}} /\ trades' \in {trades, {}}
      /\ UNCHANGED <<started, day, disturbed>>
  BY DEF Paper!Reset, Paper!WipeAccount, Paper!WipePositions, Paper!WipeOrders,
         Paper!WipeTrades, Paper!Others
<1>3. Accounts'
  <2>1. CASE accounts' = accounts
    BY <2>1 DEF Solvent, Accounts
  <2>2. CASE accounts' = <<>>
    BY <2>2 DEF Accounts
  <2>3. QED
    BY <1>2, <2>1, <2>2
<1>4. Records'
  BY <1>2 DEF Solvent, Records
<1>5. QED
  BY <1>1, <1>3, <1>4 DEF Solvent

LEMMA CutShortSolvent ==
  ASSUME PaperParameters, Solvent, NEW r \in Handlers, Paper!CutShort(r)
  PROVE  Solvent'
<1>1. HandlersKnow'
  BY Returns DEF Paper!CutShort, Solvent
<1>2. QED
  BY <1>1 DEF Paper!CutShort, Solvent, Accounts, Records

LEMMA NextDaySolvent ==
  ASSUME PaperParameters, Solvent, Paper!NextDay
  PROVE  Solvent'
  BY DEF Paper!NextDay, Solvent, Accounts, Records, HandlersKnow

------------------------------------------------------------------------------
(* The invariant *)

LEMMA InitSolvent == PaperParameters /\ Paper!Init => Solvent
<1> SUFFICES ASSUME PaperParameters, Paper!Init PROVE Solvent
  OBVIOUS
<1>1. Paper!Idle \in Locals /\ Holds(Paper!Idle)
  BY IdleIs DEF Paper!Idle, Holds, WithCash, WithPrice
<1>2. HandlersKnow
  BY <1>1 DEF Paper!Init, HandlersKnow
<1>3. Accounts
  BY DEF Paper!Init, Accounts
<1>4. Records
  <2>1. started \in 0..MaxRequests /\ day \in Nat
    BY DEF Paper!Init, PaperParameters, Paper!AmountsAreNatural
  <2>2. disturbed \in BOOLEAN
    BY DEF Paper!Init
  <2>3. positions \subseteq Position /\ orders \subseteq Ids /\ trades \subseteq Trade
    BY DEF Paper!Init
  <2>4. QED
    BY <2>1, <2>2, <2>3 DEF Records
<1>5. QED
  BY <1>2, <1>3, <1>4 DEF Solvent

LEMMA StepSolvent == PaperParameters /\ Solvent /\ [Paper!Next]_(Paper!vars) => Solvent'
<1> SUFFICES ASSUME PaperParameters, Solvent, [Paper!Next]_(Paper!vars) PROVE Solvent'
  OBVIOUS
<1>1. ASSUME NEW r \in Handlers, Paper!Account(r) \/ Paper!ReadPrice(r) \/ Paper!ReadPosition(r)
      PROVE  Solvent'
  BY <1>1, FindAccountSolvent, CreateAccountSolvent, ReadPriceSolvent, ReadPositionSolvent
     DEF Paper!Account
<1>2. ASSUME NEW r \in Handlers, Paper!Buy(r) \/ Paper!Sell(r)
      PROVE  Solvent'
  BY <1>2, RefuseBuySolvent, PayForBuySolvent, HoldBoughtSolvent, ReadHoldingSolvent,
     LookUpDateSolvent, CheckHoldingSolvent, PayForSaleSolvent, HoldUnsoldSolvent
     DEF Paper!Buy, Paper!Sell
<1>3. ASSUME NEW r \in Handlers, Paper!Record(r) \/ Paper!Reset(r) \/ Paper!CutShort(r)
      PROVE  Solvent'
  BY <1>3, RecordOrderSolvent, RecordTradeSolvent, ResetSolvent, CutShortSolvent
     DEF Paper!Record
<1>4. CASE UNCHANGED Paper!vars
  BY <1>4 DEF Paper!vars, Solvent, Accounts, Records, HandlersKnow
<1>5. QED
  BY <1>1, <1>2, <1>3, <1>4, ArrivesSolvent, NextDaySolvent DEF Paper!Next

\* No interleaving of orders, resets and interruptions of any number of handlers takes the
\* cash below zero, where the least sale pays its own commission (place_order).
THEOREM NoDebtAlways == PaperParameters => (AnySpec => []NoDebt)
<1> SUFFICES ASSUME PaperParameters PROVE AnySpec => []NoDebt
  OBVIOUS
<1>1. AnyInit => Solvent
  BY InitSolvent DEF AnyInit
<1>2. Solvent /\ [AnyNext]_allVars => Solvent'
  BY PaperRuns, StepSolvent
<1>3. Solvent => NoDebt
  BY DEF Solvent, Accounts, Balances, Money, NoDebt, Paper!NoDebt
<1>4. QED
  BY <1>1, <1>2, <1>3, PTL DEF AnySpec

------------------------------------------------------------------------------
(* Sums over finite sets, whose facts follow from there being no smallest set that is wrong *)

\* The values of w over a set, added up in the order in which CHOOSE picks the elements: how
\* the folds of the community modules add, for any values.
Picked(s) == CHOOSE x \in s : TRUE

Sums(w, S, g) ==
  g = [s \in SUBSET S |-> IF s = {} THEN 0 ELSE w[Picked(s)] + g[s \ {Picked(s)}]]

Total(w, S) == (CHOOSE g : Sums(w, S, g))[S]

LEMMA SomeIsSmallest ==
  ASSUME NEW S, IsFiniteSet(S), NEW T \in SUBSET (SUBSET S), T # {}
  PROVE  \E s \in T : \A t \in T : t \subseteq s => t = s
<1>1. T \subseteq FiniteSubsetsOf(S)
  BY FS_Subset DEF FiniteSubsetsOf
<1>2. PICK s \in T : \A t \in T : ~ (<<t, s>> \in StrictSubsetOrdering(S))
  BY <1>1, FS_StrictSubsetOrderingWellFounded, WFMin
<1>3. QED
  BY <1>2 DEF StrictSubsetOrdering

LEMMA PickedIs ==
  ASSUME NEW s, s # {}
  PROVE  Picked(s) \in s
  BY DEF Picked

LEMMA SumsAt ==
  ASSUME NEW w, NEW S, NEW g, Sums(w, S, g), NEW s \in SUBSET S
  PROVE  g[s] = IF s = {} THEN 0 ELSE w[Picked(s)] + g[s \ {Picked(s)}]
  BY DEF Sums

\* Two solutions agree where both are defined.
LEMMA SumsAgree ==
  ASSUME NEW w, NEW S, NEW T, NEW g, NEW h, Sums(w, S, g), Sums(w, T, h),
         NEW U, IsFiniteSet(U), U \subseteq S, U \subseteq T
  PROVE  g[U] = h[U]
<1> DEFINE Wrong == {s \in SUBSET U : g[s] # h[s]}
<1>1. SUFFICES ASSUME Wrong # {} PROVE FALSE
  OBVIOUS
<1>2. PICK s \in Wrong : \A t \in Wrong : t \subseteq s => t = s
  <2>1. Wrong \in SUBSET (SUBSET U)
    OBVIOUS
  <2> HIDE DEF Wrong
  <2>2. QED
    BY <1>1, <2>1, SomeIsSmallest
<1>3. s \in SUBSET S /\ s \in SUBSET T
  OBVIOUS
<1>4. s # {}
  BY <1>3, SumsAt
<1>5. s \ {Picked(s)} \notin Wrong
  <2>1. Picked(s) \in s
    BY <1>4, PickedIs
  <2>2. QED
    BY <1>2, <2>1
<1>6. g[s \ {Picked(s)}] = h[s \ {Picked(s)}]
  BY <1>5
<1>7. g[s] = w[Picked(s)] + g[s \ {Picked(s)}] /\ h[s] = w[Picked(s)] + h[s \ {Picked(s)}]
  BY <1>3, <1>4, SumsAt
<1>8. QED
  BY <1>6, <1>7

LEMMA SumsExist ==
  ASSUME NEW w, NEW S, IsFiniteSet(S)
  PROVE  \E g : Sums(w, S, g)
<1> DEFINE Wrong == {s \in SUBSET S : ~ \E g : Sums(w, s, g)}
<1>1. SUFFICES ASSUME Wrong # {} PROVE FALSE
  OBVIOUS
<1>2. PICK T \in Wrong : \A t \in Wrong : t \subseteq T => t = T
  <2>1. Wrong \in SUBSET (SUBSET S)
    OBVIOUS
  <2> HIDE DEF Wrong
  <2>2. QED
    BY <1>1, <2>1, SomeIsSmallest
<1> DEFINE of(s) == CHOOSE g : Sums(w, s, g)
           last == w[Picked(T)] + of(T \ {Picked(T)})[T \ {Picked(T)}]
           g == [s \in SUBSET T |-> IF s = {} THEN 0 ELSE IF s = T THEN last ELSE of(s)[s]]
<1>3. ASSUME NEW s \in SUBSET T, s # T PROVE Sums(w, s, of(s))
  <2>1. s \notin Wrong
    BY <1>2, <1>3
  <2>2. \E h : Sums(w, s, h)
    BY <2>1
  <2>3. QED
    BY <2>2, Zenon
<1>4. ASSUME NEW s \in SUBSET T, s # {}
      PROVE  g[s] = w[Picked(s)] + g[s \ {Picked(s)}]
  <2> DEFINE r == s \ {Picked(s)}
  <2>1. r \in SUBSET T /\ r # T /\ r # s /\ IsFiniteSet(r)
    BY <1>4, PickedIs, FS_Subset
  <2>2. Sums(w, r, of(r))
    BY <1>3, <2>1
  <2>3. g[r] = of(r)[r]
    BY <2>1, <2>2, SumsAt
  <2>4. CASE s = T
    BY <1>4, <2>3, <2>4
  <2>5. CASE s # T
    <3>1. Sums(w, s, of(s))
      BY <1>3, <2>5
    <3>2. of(s)[r] = of(r)[r]
      BY <2>1, <2>2, <3>1, SumsAgree
    <3>3. g[s] = of(s)[s]
      BY <1>4, <2>5
    <3>4. of(s)[s] = w[Picked(s)] + of(s)[r]
      BY <1>4, <3>1, SumsAt
    <3>5. QED
      BY <2>3, <3>2, <3>3, <3>4
  <2>6. QED
    BY <2>4, <2>5
<1>5. Sums(w, T, g)
  <2> HIDE DEF of, last
  <2>1. g = [s \in SUBSET T |-> IF s = {} THEN 0 ELSE w[Picked(s)] + g[s \ {Picked(s)}]]
    BY <1>4, Zenon
  <2>2. QED
    BY <2>1, Zenon DEF Sums
<1>6. QED
  BY <1>2, <1>5

LEMMA TotalSolves ==
  ASSUME NEW w, NEW S, IsFiniteSet(S)
  PROVE  Sums(w, S, CHOOSE g : Sums(w, S, g))
  BY SumsExist

LEMMA TotalIs ==
  ASSUME NEW w, NEW S, IsFiniteSet(S)
  PROVE  Total(w, S) = IF S = {} THEN 0 ELSE w[Picked(S)] + Total(w, S \ {Picked(S)})
<1> DEFINE g == CHOOSE g : Sums(w, S, g)
           T == S \ {Picked(S)}
           h == CHOOSE h : Sums(w, T, h)
<1>1. IsFiniteSet(T)
  BY FS_Subset
<1>2. Sums(w, S, g) /\ Sums(w, T, h)
  BY <1>1, TotalSolves
<1>3. g[T] = h[T]
  <2> HIDE DEF g, h
  <2>1. QED
    BY <1>1, <1>2, SumsAgree
<1>4. g[S] = IF S = {} THEN 0 ELSE w[Picked(S)] + g[T]
  <2>1. S \in SUBSET S
    OBVIOUS
  <2> HIDE DEF g, h, T
  <2>2. g[S] = IF S = {} THEN 0 ELSE w[Picked(S)] + g[S \ {Picked(S)}]
    <3>1. Sums(w, S, g)
      BY <1>2
    <3>2. QED
      BY <2>1, <3>1 DEF Sums
  <2>3. QED
    BY <2>2 DEF T
<1>5. QED
  BY <1>3, <1>4 DEF Total

\* Whichever element is taken away, the total falls by its value.
LEMMA TotalAdds ==
  ASSUME NEW w, NEW S, IsFiniteSet(S), \A x \in S : w[x] \in Int
  PROVE  Total(w, S) \in Int /\ \A y \in S : Total(w, S) = w[y] + Total(w, S \ {y})
<1> DEFINE Good(s) == Total(w, s) \in Int /\ \A y \in s : Total(w, s) = w[y] + Total(w, s \ {y})
           Wrong == {s \in SUBSET S : ~Good(s)}
<1>1. SUFFICES ASSUME Wrong # {} PROVE FALSE
  OBVIOUS
<1>2. PICK s \in Wrong : \A t \in Wrong : t \subseteq s => t = s
  <2>1. Wrong \in SUBSET (SUBSET S)
    OBVIOUS
  <2> HIDE DEF Wrong
  <2>2. QED
    BY <1>1, <2>1, SomeIsSmallest
<1>3. IsFiniteSet(s) /\ \A t \in SUBSET s : IsFiniteSet(t)
  BY FS_Subset
<1>4. ASSUME NEW t \in SUBSET s, t # s PROVE Good(t)
  BY <1>2, <1>4
<1> HIDE DEF Wrong
<1>5. s # {}
  <2>1. SUFFICES ASSUME s = {} PROVE Good(s)
    BY <1>2 DEF Wrong
  <2>2. Total(w, s) = 0
    BY <1>3, <2>1, TotalIs
  <2>3. QED
    BY <2>1, <2>2
<1> DEFINE x == Picked(s)
<1>6. x \in s /\ w[x] \in Int /\ Total(w, s) = w[x] + Total(w, s \ {x})
  BY <1>2, <1>3, <1>5, PickedIs, TotalIs DEF Wrong
<1> HIDE DEF x
<1>7. Total(w, s) \in Int
  BY <1>4, <1>6
<1>8. ASSUME NEW y \in s PROVE Total(w, s) = w[y] + Total(w, s \ {y})
  <2> DEFINE rest == Total(w, (s \ {x}) \ {y})
  <2>1. CASE y = x
    BY <1>6, <2>1
  <2>2. CASE y # x
    <3>1. (s \ {x}) \ {y} = (s \ {y}) \ {x}
      OBVIOUS
    <3>2. Good(s \ {x}) /\ Good(s \ {y}) /\ Good((s \ {x}) \ {y})
      BY <1>4, <1>6
    <3>3. Total(w, s \ {x}) = w[y] + rest
      BY <2>2, <3>2
    <3>4. Total(w, s \ {y}) = w[x] + rest
      BY <1>6, <2>2, <3>1, <3>2
    <3>5. w[y] \in Int /\ rest \in Int
      BY <1>2, <3>2 DEF Wrong
    <3> HIDE DEF rest
    <3>6. QED
      BY <1>6, <3>3, <3>4, <3>5
  <2>3. QED
    BY <2>1, <2>2
<1>9. QED
  BY <1>2, <1>7, <1>8 DEF Wrong

LEMMA TotalOfMore ==
  ASSUME NEW w, NEW S, IsFiniteSet(S), NEW x, x \notin S, \A y \in S \cup {x} : w[y] \in Int
  PROVE  Total(w, S \cup {x}) = Total(w, S) + w[x]
<1>1. IsFiniteSet(S \cup {x}) /\ (S \cup {x}) \ {x} = S
  BY FS_AddElement
<1>2. Total(w, S \cup {x}) = w[x] + Total(w, S)
  BY <1>1, TotalAdds
<1>3. Total(w, S) \in Int /\ w[x] \in Int
  BY TotalAdds
<1>4. QED
  BY <1>2, <1>3

LEMMA TotalOfBoth ==
  ASSUME NEW w, NEW S, NEW T, IsFiniteSet(S), IsFiniteSet(T), S \cap T = {},
         \A y \in S \cup T : w[y] \in Int
  PROVE  Total(w, S \cup T) = Total(w, S) + Total(w, T)
<1> DEFINE Wrong == {t \in SUBSET T : Total(w, S \cup t) # Total(w, S) + Total(w, t)}
<1>1. SUFFICES ASSUME Wrong # {} PROVE FALSE
  OBVIOUS
<1>2. PICK t \in Wrong : \A r \in Wrong : r \subseteq t => r = t
  <2>1. Wrong \in SUBSET (SUBSET T)
    OBVIOUS
  <2> HIDE DEF Wrong
  <2>2. QED
    BY <1>1, <2>1, SomeIsSmallest
<1>3. Total(w, S) \in Int
  BY TotalAdds
<1>4. t # {}
  <2>1. SUFFICES ASSUME t = {} PROVE Total(w, S \cup t) = Total(w, S) + Total(w, t)
    OBVIOUS
  <2>2. S \cup t = S /\ Total(w, t) = 0
    BY <2>1, FS_EmptySet, TotalIs
  <2>3. QED
    BY <1>3, <2>2
<1>5. PICK x \in t : TRUE
  BY <1>4
<1> DEFINE r == t \ {x}
<1>6. r \notin Wrong /\ r \in SUBSET T
  BY <1>2, <1>5
<1>7. /\ IsFiniteSet(r) /\ IsFiniteSet(S \cup r) /\ x \notin r /\ x \notin S \cup r
      /\ r \cup {x} = t /\ (S \cup r) \cup {x} = S \cup t
  BY <1>5, <1>6, FS_Subset, FS_Union
<1>8. /\ Total(w, t) = Total(w, r) + w[x] /\ Total(w, S \cup t) = Total(w, S \cup r) + w[x]
      /\ Total(w, r) \in Int /\ w[x] \in Int
  <2>1. (\A y \in t : w[y] \in Int) /\ (\A y \in S \cup t : w[y] \in Int)
    OBVIOUS
  <2> HIDE DEF r
  <2>2. Total(w, r) \in Int
    BY <1>7, <2>1, TotalAdds
  <2>3. QED
    BY <1>5, <1>7, <2>1, <2>2, TotalOfMore
<1>9. Total(w, S \cup r) = Total(w, S) + Total(w, r)
  BY <1>6
<1>10. Total(w, S \cup t) = Total(w, S) + Total(w, t)
  <2> HIDE DEF r, Wrong
  <2>1. QED
    BY <1>3, <1>8, <1>9
<1>11. QED
  BY <1>10

LEMMA TotalOfNaturals ==
  ASSUME NEW w, NEW S, IsFiniteSet(S), \A y \in S : w[y] \in Nat
  PROVE  Total(w, S) \in Nat
<1> DEFINE Wrong == {t \in SUBSET S : Total(w, t) \notin Nat}
<1>1. SUFFICES ASSUME Wrong # {} PROVE FALSE
  OBVIOUS
<1>2. PICK t \in Wrong : \A r \in Wrong : r \subseteq t => r = t
  <2>1. Wrong \in SUBSET (SUBSET S)
    OBVIOUS
  <2> HIDE DEF Wrong
  <2>2. QED
    BY <1>1, <2>1, SomeIsSmallest
<1>3. IsFiniteSet(t) /\ t # {}
  <2>1. IsFiniteSet(t)
    BY FS_Subset
  <2>2. t = {} => Total(w, t) = 0
    BY <2>1, TotalIs
  <2>3. QED
    BY <2>2, <2>1
<1>4. PICK x \in t : TRUE
  BY <1>3
<1>5. t \ {x} \notin Wrong
  BY <1>2, <1>4
<1>6. Total(w, t) = w[x] + Total(w, t \ {x})
  BY <1>3, <1>4, TotalAdds
<1>7. QED
  BY <1>4, <1>5, <1>6

LEMMA FoldIs ==
  ASSUME NEW w, NEW S, IsFiniteSet(S), NEW g, Sums(w, S, g)
  PROVE  g[S] = Total(w, S)
  BY TotalSolves, SumsAgree DEF Total

------------------------------------------------------------------------------
(* What the account, the positions and the locals are while requests follow one another *)

\* Requests follow one another as long as none overlapped another and none was cut short.
InProgress == {r \in Handlers : request[r].pc # "idle"}
OneRequest == \A r, s \in InProgress : r = s

\* The locals of the one request in progress.
Current == IF InProgress = {} THEN Paper!Idle ELSE request[CHOOSE r \in InProgress : TRUE]

\* The sums of CashMatchesTrades, and those of PositionMatchesTrades and SoldWasSettled.
Earnings(S) == Paper!MapThenSumSet(LAMBDA t : t.quantity * t.price - Fee, S)
Spendings(S) == Paper!MapThenSumSet(LAMBDA t : t.quantity * t.price + Fee, S)

TradesIn(currency, side) == {t \in trades : t.side = side /\ CurrencyOf[t.market] = currency}
Earned(currency) == Earnings(TradesIn(currency, "sell"))
Spent(currency) == Spendings(TradesIn(currency, "buy"))

Sold(code) == Paper!Sum(Paper!TradesOf(code, "sell"))
BoughtBefore(code, date) == Paper!Sum({t \in Paper!TradesOf(code, "buy") : t.day < date})
SoldUpTo(t) == Paper!Sum({s \in Paper!TradesOf(t.code, "sell") : s.id <= t.id})
SettledFor(t) ==
  Paper!Sum({b \in Paper!TradesOf(t.code, "buy") : b.id < t.id /\ b.day < t.checked})
Held(code) == Paper!Sum(Paper!TradesOf(code, "buy")) - Paper!Sum(Paper!TradesOf(code, "sell"))

\* Program counters from which on the account, and the positions, are ahead of the trades.
Paid == {"hold", "order", "trade"}
Booked == {"order", "trade"}
Wiping == {"wipePositions", "wipeOrders", "wipeTrades"}

\* By how much the cash and the holdings are ahead of the trades: an order pays first, then
\* changes the position, and records its trade last.
CashAhead(l, currency) ==
  IF l.pc \notin Paid \/ CurrencyOf[l.market] # currency THEN 0
  ELSE IF l.kind = "buy" THEN -(l.price * l.quantity + Fee) ELSE l.price * l.quantity - Fee

HeldAhead(l, code) ==
  IF l.pc \notin Booked \/ l.code # code THEN 0
  ELSE IF l.kind = "buy" THEN l.quantity ELSE -l.quantity

\* There is at most one account, and its cash is what the trades left of the initial cash,
\* with what the request in progress has paid ahead of its trade; before it pays, the cash it
\* has read is still that of the account.
CashIs(l) == \A id \in DOMAIN accounts :
  /\ \A other \in DOMAIN accounts : other = id
  /\ \A currency \in Currencies :
       accounts[id][currency] =
         InitialCash + Earned(currency) - Spent(currency) + CashAhead(l, currency)
  /\ l.pc \in WithCash \ Paid => l.cash = accounts[id]

\* Without an account there is no trade, but in a reset.
AccountIs(l) ==
  /\ l.pc \in Wiping \cup {"create"} => accounts = <<>>
  /\ l.pc \in WithCash => accounts # <<>>
  /\ accounts = <<>> /\ l.pc \notin Wiping => trades = {}

\* A code has one position, with what is held, or none when that is nothing.
PositionIs(code, held) ==
  /\ held >= 0
  /\ {p.quantity : p \in Paper!PositionsOf(code)} = IF held = 0 THEN {} ELSE {held}
  /\ \A p, q \in Paper!PositionsOf(code) : p = q

\* The positions are what the trades and the request in progress make them, or a reset has
\* removed them.
HoldingsAre(l) ==
  /\ l.pc \in {"wipeOrders", "wipeTrades"} => positions = {}
  /\ l.pc \notin {"wipeOrders", "wipeTrades"} =>
       \A code \in Codes : PositionIs(code, Held(code) + HeldAhead(l, code))

\* The request in progress is the last one, and it has not left a trade or a position yet.
NumbersAre(l) ==
  /\ l.pc # "idle" => l.id = started
  /\ IsFiniteSet(trades)
  /\ \A t \in trades : t.id <= started /\ (l.pc # "idle" => t.id # started)
  /\ \A p \in positions : p.id <= started /\ (l.pc \notin Booked \cup {"idle"} => p.id # started)
  /\ \A p, q \in positions : p.id = q.id => p = q

\* The position an order has read is still the one there is, and a sale that goes through is
\* of no more than is held and, in a market of T+1, was bought before the day of its check.
OrderKnows(l) ==
  /\ l.pc \in {"holding", "rules", "available", "pay", "hold"} =>
       l.position \in Paper!Found(Paper!PositionsOf(l.code))
  /\ l.pc \in {"rules", "available"} => l.total = Held(l.code)
  /\ l.kind = "sell" /\ l.pc \in Paid \cup {"pay"} =>
       /\ l.quantity <= Held(l.code)
       /\ l.market \in NextDayMarkets =>
            Sold(l.code) + l.quantity <= BoughtBefore(l.code, l.today)

SettledInTime == \A t \in trades :
  t.side = "sell" /\ t.market \in NextDayMarkets => SoldUpTo(t) <= SettledFor(t)

Alone(l) == /\ CashIs(l) /\ AccountIs(l) /\ HoldingsAre(l) /\ NumbersAre(l) /\ OrderKnows(l)
            /\ SettledInTime

\* The inductive invariant.
Accounted == ~disturbed => OneRequest /\ Alone(Current)

------------------------------------------------------------------------------
(* Sums of trades *)

\* What a trade counts for in each sum.
Quantities == [t \in Trade |-> t.quantity]
Proceeds == [t \in Trade |-> t.quantity * t.price - Fee]
Costs == [t \in Trade |-> t.quantity * t.price + Fee]

LEMMA SumIsTotal ==
  ASSUME NEW S \in SUBSET Trade, IsFiniteSet(S)
  PROVE  Paper!Sum(S) = Total(Quantities, S)
<1> DEFINE Of(g) == g = [s \in SUBSET S |-> IF s = {} THEN 0
                       ELSE (CHOOSE x \in s : TRUE).quantity + g[s \ {CHOOSE x \in s : TRUE}]]
           f == CHOOSE g : Of(g)
<1>1. Paper!Sum(S) = f[S]
  BY DEF Paper!Sum, Paper!MapThenSumSet, Paper!MapThenFoldSet
<1>2. ASSUME NEW g PROVE Of(g) <=> Sums(Quantities, S, g)
  <2>1. ASSUME NEW s \in SUBSET S, s # {}
        PROVE  (CHOOSE x \in s : TRUE).quantity = Quantities[Picked(s)]
    BY <2>1, PickedIs DEF Picked, Quantities
  <2>2. QED
    BY <2>1 DEF Sums, Picked
<1> HIDE DEF Of
<1>3. \E g : Of(g)
  BY <1>2, SumsExist
<1>4. Of(f)
  BY <1>3, Zenon
<1>5. Sums(Quantities, S, f)
  BY <1>2, <1>4
<1> HIDE DEF f
<1>6. QED
  BY <1>1, <1>5, FoldIs

LEMMA EarningsAreTotal ==
  ASSUME NEW S \in SUBSET Trade, IsFiniteSet(S)
  PROVE  Earnings(S) = Total(Proceeds, S)
<1> DEFINE Of(g) == g = [s \in SUBSET S |-> IF s = {} THEN 0
                       ELSE ((CHOOSE x \in s : TRUE).quantity * (CHOOSE x \in s : TRUE).price - Fee)
                            + g[s \ {CHOOSE x \in s : TRUE}]]
           f == CHOOSE g : Of(g)
<1>1. Earnings(S) = f[S]
  BY DEF Earnings, Paper!MapThenSumSet, Paper!MapThenFoldSet
<1>2. ASSUME NEW g PROVE Of(g) <=> Sums(Proceeds, S, g)
  <2>1. ASSUME NEW s \in SUBSET S, s # {}
        PROVE  (CHOOSE x \in s : TRUE).quantity * (CHOOSE x \in s : TRUE).price - Fee
                 = Proceeds[Picked(s)]
    BY <2>1, PickedIs DEF Picked, Proceeds
  <2>2. QED
    BY <2>1 DEF Sums, Picked
<1> HIDE DEF Of
<1>3. \E g : Of(g)
  BY <1>2, SumsExist
<1>4. Of(f)
  BY <1>3, Zenon
<1>5. Sums(Proceeds, S, f)
  BY <1>2, <1>4
<1> HIDE DEF f
<1>6. QED
  BY <1>1, <1>5, FoldIs
LEMMA SpendingsAreTotal ==
  ASSUME NEW S \in SUBSET Trade, IsFiniteSet(S)
  PROVE  Spendings(S) = Total(Costs, S)
<1> DEFINE Of(g) == g = [s \in SUBSET S |-> IF s = {} THEN 0
                       ELSE ((CHOOSE x \in s : TRUE).quantity * (CHOOSE x \in s : TRUE).price + Fee)
                            + g[s \ {CHOOSE x \in s : TRUE}]]
           f == CHOOSE g : Of(g)
<1>1. Spendings(S) = f[S]
  BY DEF Spendings, Paper!MapThenSumSet, Paper!MapThenFoldSet
<1>2. ASSUME NEW g PROVE Of(g) <=> Sums(Costs, S, g)
  <2>1. ASSUME NEW s \in SUBSET S, s # {}
        PROVE  (CHOOSE x \in s : TRUE).quantity * (CHOOSE x \in s : TRUE).price + Fee
                 = Costs[Picked(s)]
    BY <2>1, PickedIs DEF Picked, Costs
  <2>2. QED
    BY <2>1 DEF Sums, Picked
<1> HIDE DEF Of
<1>3. \E g : Of(g)
  BY <1>2, SumsExist
<1>4. Of(f)
  BY <1>3, Zenon
<1>5. Sums(Costs, S, f)
  BY <1>2, <1>4
<1> HIDE DEF f
<1>6. QED
  BY <1>1, <1>5, FoldIs

LEMMA AmountsAre ==
  ASSUME PaperParameters, NEW t \in Trade
  PROVE  /\ Quantities[t] = t.quantity /\ Quantities[t] \in Nat
         /\ Proceeds[t] = t.quantity * t.price - Fee /\ Proceeds[t] \in Int
         /\ Costs[t] = t.quantity * t.price + Fee /\ Costs[t] \in Int
<1>1. t.quantity \in Nat /\ t.price \in Nat /\ Fee \in Nat
  BY DEF Trade, PaperParameters, Paper!AmountsAreNatural
<1>2. t.quantity * t.price \in Int
  BY <1>1
<1>3. QED
  BY <1>1, <1>2 DEF Quantities, Proceeds, Costs

\* What adding a trade makes of the sums.
LEMMA SumsGrow ==
  ASSUME PaperParameters, NEW S \in SUBSET Trade, IsFiniteSet(S), NEW t \in Trade, t \notin S
  PROVE  /\ Paper!Sum(S) \in Nat /\ Paper!Sum(S \cup {t}) = Paper!Sum(S) + t.quantity
         /\ Earnings(S) \in Int /\ Earnings(S \cup {t}) = Earnings(S) + (t.quantity * t.price - Fee)
         /\ Spendings(S) \in Int
         /\ Spendings(S \cup {t}) = Spendings(S) + (t.quantity * t.price + Fee)
<1>1. IsFiniteSet(S \cup {t}) /\ S \cup {t} \in SUBSET Trade
  BY FS_AddElement
<1>2. \A x \in S \cup {t} : /\ Quantities[x] \in Nat /\ Quantities[x] \in Int
                            /\ Proceeds[x] \in Int /\ Costs[x] \in Int
  BY <1>1, AmountsAre
<1>3. /\ Total(Quantities, S) \in Nat
      /\ Total(Quantities, S \cup {t}) = Total(Quantities, S) + t.quantity
  BY <1>2, AmountsAre, TotalOfNaturals, TotalOfMore
<1>4. /\ Total(Proceeds, S) \in Int
      /\ Total(Proceeds, S \cup {t}) = Total(Proceeds, S) + (t.quantity * t.price - Fee)
  <2>1. Total(Proceeds, S) \in Int
    BY <1>2, TotalAdds
  <2>2. Total(Proceeds, S \cup {t}) = Total(Proceeds, S) + Proceeds[t]
    BY <1>2, TotalOfMore
  <2>3. QED
    BY <2>1, <2>2, AmountsAre
<1>5. /\ Total(Costs, S) \in Int
      /\ Total(Costs, S \cup {t}) = Total(Costs, S) + (t.quantity * t.price + Fee)
  <2>1. Total(Costs, S) \in Int
    BY <1>2, TotalAdds
  <2>2. Total(Costs, S \cup {t}) = Total(Costs, S) + Costs[t]
    BY <1>2, TotalOfMore
  <2>3. QED
    BY <2>1, <2>2, AmountsAre
<1>6. ASSUME NEW U \in {S, S \cup {t}}
      PROVE  /\ Paper!Sum(U) = Total(Quantities, U)
             /\ Earnings(U) = Total(Proceeds, U)
             /\ Spendings(U) = Total(Costs, U)
  BY <1>1, SumIsTotal, EarningsAreTotal, SpendingsAreTotal
<1>7. QED
  BY <1>3, <1>4, <1>5, <1>6

LEMMA NumbersOf ==
  ASSUME PaperParameters, NEW S \in SUBSET Trade, IsFiniteSet(S)
  PROVE  Paper!Sum(S) \in Nat /\ Earnings(S) \in Int /\ Spendings(S) \in Int
<1>1. \A x \in S : Quantities[x] \in Nat /\ Proceeds[x] \in Int /\ Costs[x] \in Int
  BY AmountsAre
<1>2. Total(Quantities, S) \in Nat /\ Total(Proceeds, S) \in Int /\ Total(Costs, S) \in Int
  BY <1>1, TotalOfNaturals, TotalAdds
<1>3. QED
  BY <1>2, SumIsTotal, EarningsAreTotal, SpendingsAreTotal

LEMMA SumOfBoth ==
  ASSUME PaperParameters, NEW S \in SUBSET Trade, IsFiniteSet(S),
         NEW T \in SUBSET Trade, IsFiniteSet(T),
         S \cap T = {}
  PROVE  Paper!Sum(S \cup T) = Paper!Sum(S) + Paper!Sum(T)
<1>1. IsFiniteSet(S \cup T) /\ S \cup T \in SUBSET Trade
  BY FS_Union
<1>2. \A x \in S \cup T : Quantities[x] \in Int
  BY <1>1, AmountsAre
<1>3. QED
  BY <1>1, <1>2, TotalOfBoth, SumIsTotal

LEMMA NothingSums ==
  ASSUME PaperParameters
  PROVE  Paper!Sum({}) = 0 /\ Earnings({}) = 0 /\ Spendings({}) = 0
<1>1. IsFiniteSet({}) /\ {} \in SUBSET Trade
  BY FS_EmptySet
<1>2. \A w : Total(w, {}) = 0
  BY <1>1, TotalIs
<1>3. QED
  BY <1>1, <1>2, SumIsTotal, EarningsAreTotal, SpendingsAreTotal

------------------------------------------------------------------------------
(* One request at a time *)

\* The parts of an order's trades, and of a currency's, are finite sets of trades.
LEMMA PartsAre ==
  ASSUME Solvent, NumbersAre(Current)
  PROVE  /\ trades \in SUBSET Trade /\ IsFiniteSet(trades)
         /\ \A code, side : /\ IsFiniteSet(Paper!TradesOf(code, side))
                           /\ Paper!TradesOf(code, side) \in SUBSET Trade
         /\ \A currency, side : /\ IsFiniteSet(TradesIn(currency, side))
                               /\ TradesIn(currency, side) \in SUBSET Trade
<1>1. trades \in SUBSET Trade /\ IsFiniteSet(trades)
  BY DEF Solvent, Records, NumbersAre
<1>2. \A S \in SUBSET trades : IsFiniteSet(S) /\ S \in SUBSET Trade
  BY <1>1, FS_Subset
<1>3. \A code, side : Paper!TradesOf(code, side) \in SUBSET trades
  BY DEF Paper!TradesOf
<1>4. \A currency, side : TradesIn(currency, side) \in SUBSET trades
  BY DEF TradesIn
<1>5. QED
  BY <1>1, <1>2, <1>3, <1>4

LEMMA NumbersInTurn ==
  ASSUME PaperParameters, Solvent, NumbersAre(Current)
  PROVE  /\ \A code : Held(code) \in Int
         /\ \A currency : Earned(currency) \in Int /\ Spent(currency) \in Int
         /\ \A code : Sold(code) \in Nat
         /\ \A code, date : BoughtBefore(code, date) \in Nat
<1>1. \A code, side : Paper!Sum(Paper!TradesOf(code, side)) \in Nat
  BY PartsAre, NumbersOf
<1>2. \A currency, side : /\ Earnings(TradesIn(currency, side)) \in Int
                          /\ Spendings(TradesIn(currency, side)) \in Int
  BY PartsAre, NumbersOf
<1>3. \A code, date : BoughtBefore(code, date) \in Nat
  <2>1. SUFFICES ASSUME NEW code, NEW date PROVE BoughtBefore(code, date) \in Nat
    OBVIOUS
  <2> DEFINE bought == {t \in Paper!TradesOf(code, "buy") : t.day < date}
  <2>2. bought \in SUBSET Trade /\ IsFiniteSet(bought)
    <3>1. /\ Paper!TradesOf(code, "buy") \in SUBSET Trade
          /\ IsFiniteSet(Paper!TradesOf(code, "buy"))
      BY PartsAre
    <3>2. bought \in SUBSET Paper!TradesOf(code, "buy")
      OBVIOUS
    <3> HIDE DEF bought
    <3>3. QED
      BY <3>1, <3>2, FS_Subset
  <2>3. BoughtBefore(code, date) = Paper!Sum(bought)
    BY DEF BoughtBefore
  <2> HIDE DEF bought
  <2>4. QED
    BY <2>2, <2>3, NumbersOf
<1>4. QED
  BY <1>1, <1>2, <1>3 DEF Held, Sold, Earned, Spent

\* The sums are of the trades alone.
LEMMA SumsStay ==
  ASSUME UNCHANGED trades
  PROVE  /\ \A code : Held(code)' = Held(code)
         /\ \A currency : Earned(currency)' = Earned(currency) /\ Spent(currency)' = Spent(currency)
         /\ \A code : Sold(code)' = Sold(code)
         /\ \A code, date : BoughtBefore(code, date)' = BoughtBefore(code, date)
         /\ \A t : SoldUpTo(t)' = SoldUpTo(t) /\ SettledFor(t)' = SettledFor(t)
<1>1. \A code, side : Paper!TradesOf(code, side)' = Paper!TradesOf(code, side)
  BY DEF Paper!TradesOf
<1>2. \A currency, side : TradesIn(currency, side)' = TradesIn(currency, side)
  BY DEF TradesIn
<1>3. QED
  BY <1>1, <1>2 DEF Held, Sold, Earned, Spent, SoldUpTo, SettledFor, BoughtBefore

LEMMA CurrentIs ==
  ASSUME OneRequest, NEW r \in Handlers, request[r].pc # "idle"
  PROVE  Current = request[r]
  BY DEF OneRequest, Current, InProgress

LEMMA CurrentBecomes ==
  ASSUME HandlersKnow, NEW r \in Handlers, NEW m,
         \A s \in Handlers \ {r} : request[s].pc = "idle",
         request' = [request EXCEPT ![r] = m], m.pc = "idle" => m = Paper!Idle
  PROVE  OneRequest' /\ Current' = m
<1>1. request'[r] = m /\ \A s \in Handlers \ {r} : request'[s].pc = "idle"
  BY DEF HandlersKnow
<1>2. InProgress' = IF m.pc = "idle" THEN {} ELSE {r}
  BY <1>1 DEF InProgress
<1>3. OneRequest'
  BY <1>2 DEF OneRequest
<1>4. CASE m.pc = "idle"
  <2>1. Paper!Idle' = Paper!Idle
    BY DEF Paper!Idle
  <2>2. QED
    BY <1>2, <1>3, <1>4, <2>1, Zenon DEF Current
<1>5. CASE m.pc # "idle"
  <2>1. InProgress' = {r}
    BY <1>2, <1>5
  <2>2. (CHOOSE s \in InProgress' : TRUE) = r
    BY <2>1
  <2>3. Current' = request'[CHOOSE s \in InProgress' : TRUE]
    BY <2>1, Zenon DEF Current
  <2>4. QED
    BY <1>1, <1>3, <2>2, <2>3
<1>6. QED
  BY <1>3, <1>4, <1>5

LEMMA OthersIdle ==
  ASSUME OneRequest, NEW r \in Handlers, request[r].pc # "idle"
  PROVE  \A s \in Handlers \ {r} : request[s].pc = "idle"
  BY DEF OneRequest, InProgress

\* A step that changes neither the positions nor the trades.
LEMMA RestStays ==
  ASSUME NEW m, Current' = m, UNCHANGED <<positions, trades, started>>,
         HoldingsAre(m), NumbersAre(m), OrderKnows(m), SettledInTime
  PROVE  HoldingsAre(Current)' /\ NumbersAre(Current)' /\ OrderKnows(Current)' /\ SettledInTime'
<1>1. HoldingsAre(Current)'
  <2>1. \A code : Paper!PositionsOf(code)' = Paper!PositionsOf(code)
    BY DEF Paper!PositionsOf
  <2>2. QED
    BY <2>1, SumsStay DEF HoldingsAre, PositionIs, HeldAhead
<1>2. NumbersAre(Current)'
  BY DEF NumbersAre
<1>3. OrderKnows(Current)'
  <2>1. Paper!Found(Paper!PositionsOf(m.code))' = Paper!Found(Paper!PositionsOf(m.code))
    BY DEF Paper!Found, Paper!PositionsOf
  <2>2. QED
    BY <2>1, SumsStay DEF OrderKnows
<1>4. SettledInTime'
  BY SumsStay DEF SettledInTime
<1>5. QED
  BY <1>1, <1>2, <1>3, <1>4

\* A step that only changes the locals.
LEMMA LocalsChange ==
  ASSUME NEW m, Current' = m, Alone(m), UNCHANGED <<accounts, positions, trades, started>>
  PROVE  Alone(Current)'
<1>1. CashIs(Current)'
  BY SumsStay DEF Alone, CashIs, CashAhead
<1>2. AccountIs(Current)'
  BY DEF Alone, AccountIs
<1>3. QED
  BY <1>1, <1>2, RestStays DEF Alone

------------------------------------------------------------------------------
(* A request that has written nothing yet *)

\* A request that has written nothing leaves nothing behind.
LEMMA NothingPending ==
  ASSUME NEW l, l.pc \notin Paid \cup Wiping, Alone(l)
  PROVE  Alone(Paper!Idle)
<1> DEFINE m == Paper!Idle
<1>1. m.pc = "idle" /\ m.kind = "none"
  BY DEF Paper!Idle
<1> HIDE DEF m
<1>2. \A currency : CashAhead(m, currency) = CashAhead(l, currency)
  BY <1>1 DEF CashAhead, Paid
<1>3. \A code : HeldAhead(m, code) = HeldAhead(l, code)
  BY <1>1 DEF HeldAhead, Paid, Booked
<1>4. CashIs(m) /\ AccountIs(m)
  BY <1>1, <1>2 DEF Alone, CashIs, AccountIs, Paid, Wiping, WithCash, WithPrice
<1>5. HoldingsAre(m)
  BY <1>1, <1>3 DEF Alone, HoldingsAre, Wiping
<1>6. NumbersAre(m)
  BY <1>1 DEF Alone, NumbersAre, Booked
<1>7. OrderKnows(m)
  BY <1>1 DEF OrderKnows, Paid
<1>8. QED
  BY <1>4, <1>5, <1>6, <1>7 DEF Alone, m

\* What the step of a request before it writes has to show.
LEMMA StepBeforeWriting ==
  ASSUME NEW l, l.pc \notin Paid \cup Wiping \cup {"idle"}, Alone(l),
         NEW m, m.pc \notin Paid \cup Wiping \cup {"idle"}, m.id = l.id,
         AccountIs(m), m.pc \in WithCash => \A id \in DOMAIN accounts : m.cash = accounts[id],
         OrderKnows(m)
  PROVE  Alone(m)
<1>1. \A currency : CashAhead(m, currency) = CashAhead(l, currency)
  BY DEF CashAhead
<1>2. \A code : HeldAhead(m, code) = HeldAhead(l, code)
  BY DEF HeldAhead, Paid, Booked
<1>3. CashIs(m)
  BY <1>1 DEF Alone, CashIs
<1>4. HoldingsAre(m)
  BY <1>2 DEF Alone, HoldingsAre, Wiping
<1>5. NumbersAre(m)
  BY DEF Alone, NumbersAre, Paid, Booked
<1>6. QED
  BY <1>3, <1>4, <1>5 DEF Alone

LEMMA BecomesAlone ==
  ASSUME Solvent, OneRequest, NEW r \in Handlers, request[r].pc # "idle",
         UNCHANGED <<accounts, positions, trades, started, day>>,
         NEW m, request' = [request EXCEPT ![r] = m], m.pc = "idle" => m = Paper!Idle, Alone(m)
  PROVE  OneRequest' /\ Alone(Current)'
<1>1. OneRequest' /\ Current' = m
  BY OthersIdle, CurrentBecomes DEF Solvent
<1>2. QED
  BY <1>1, LocalsChange

LEMMA ReturnsAlone ==
  ASSUME Solvent, OneRequest, Alone(Current), NEW r \in Handlers,
         request[r].pc \notin Paid \cup Wiping \cup {"idle"}, Paper!Return(r),
         UNCHANGED <<accounts, positions, trades, started, day>>
  PROVE  OneRequest' /\ Alone(Current)'
<1>1. Alone(request[r])
  BY CurrentIs
<1>2. Alone(Paper!Idle)
  BY <1>1, NothingPending
<1>3. QED
  BY <1>2, BecomesAlone DEF Paper!Return

LEMMA FindAccountAlone ==
  ASSUME Solvent, OneRequest, Alone(Current), NEW r \in Handlers, Paper!FindAccount(r)
  PROVE  OneRequest' /\ Alone(Current)'
<1> DEFINE l == request[r]
<1>1. UNCHANGED <<accounts, positions, orders, trades, started, day, disturbed>> /\ l.pc = "account"
  BY DEF Paper!FindAccount, Paper!Others, Paper!At
<1>2. Alone(l) /\ l \in Locals
  BY <1>1, CurrentIs, LocalsAre
<1>3. CASE accounts = <<>>
  <2> DEFINE m == [l EXCEPT !.pc = "create"]
  <2>1. request' = [request EXCEPT ![r] = m]
    BY <1>3 DEF Paper!FindAccount, Paper!GoTo
  <2>2. m.pc = "create" /\ m.id = l.id
    BY <1>2 DEF Locals
  <2>3. AccountIs(m)
    BY <1>1, <1>2, <1>3, <2>2 DEF Alone, AccountIs, Wiping, WithCash, WithPrice
  <2> HIDE DEF m
  <2>4. Alone(m)
    BY <1>1, <1>2, <2>2, <2>3, StepBeforeWriting
       DEF Paid, Wiping, WithCash, WithPrice, OrderKnows
  <2>5. QED
    BY <1>1, <2>1, <2>2, <2>4, BecomesAlone
<1>4. CASE accounts # <<>>
  <2>1. PICK id \in DOMAIN accounts : Paper!WithAccount(r, accounts[id])
    BY <1>4 DEF Paper!FindAccount
  <2>2. CASE l.kind \in {"view", "reset"}
    BY <1>1, <2>1, <2>2, ReturnsAlone DEF Paper!WithAccount, Paper!Return, Paid, Wiping
  <2>3. CASE l.kind \notin {"view", "reset"}
    <3> DEFINE m == [l EXCEPT !.pc = "price", !.cash = accounts[id]]
    <3>1. request' = [request EXCEPT ![r] = m]
      BY <2>1, <2>3 DEF Paper!WithAccount
    <3>2. m.pc = "price" /\ m.id = l.id /\ m.cash = accounts[id]
      BY <1>2 DEF Locals
    <3> HIDE DEF m
    <3>3. AccountIs(m)
      BY <1>1, <1>2, <1>4, <3>2 DEF AccountIs, Wiping, WithCash, WithPrice
    <3>4. \A other \in DOMAIN accounts : m.cash = accounts[other]
      BY <1>2, <3>2 DEF Alone, CashIs
    <3>5. Alone(m)
      BY <1>1, <1>2, <3>2, <3>3, <3>4, StepBeforeWriting DEF Paid, Wiping, OrderKnows
    <3>6. QED
      BY <1>1, <3>1, <3>2, <3>5, BecomesAlone
  <2>4. QED
    BY <2>2, <2>3
<1>5. QED
  BY <1>3, <1>4

LEMMA ReadPriceAlone ==
  ASSUME Solvent, OneRequest, Alone(Current), NEW r \in Handlers, Paper!ReadPrice(r)
  PROVE  OneRequest' /\ Alone(Current)'
<1> DEFINE l == request[r]
<1>1. UNCHANGED <<accounts, positions, orders, trades, started, day, disturbed>> /\ l.pc = "price"
  BY DEF Paper!ReadPrice, Paper!Others, Paper!At
<1>2. Alone(l) /\ l \in Locals
  BY <1>1, CurrentIs, LocalsAre
<1>3. CASE Paper!Return(r)
  BY <1>1, <1>3, ReturnsAlone DEF Paid, Wiping
<1>4. ASSUME NEW price \in Prices,
             request' = [request EXCEPT ![r].pc = "position", ![r].price = price]
      PROVE  OneRequest' /\ Alone(Current)'
  <2> DEFINE m == [l EXCEPT !.pc = "position", !.price = price]
  <2>1. request' = [request EXCEPT ![r] = m]
    BY <1>4
  <2>2. m.pc = "position" /\ m.id = l.id /\ m.cash = l.cash
    BY <1>2 DEF Locals
  <2> HIDE DEF m
  <2>3. AccountIs(m) /\ \A id \in DOMAIN accounts : m.cash = accounts[id]
    BY <1>1, <1>2, <2>2 DEF Alone, AccountIs, CashIs, Paid, Wiping, WithCash, WithPrice
  <2>4. Alone(m)
    BY <1>1, <1>2, <2>2, <2>3, StepBeforeWriting DEF Paid, Wiping, OrderKnows
  <2>5. QED
    BY <1>1, <2>1, <2>2, <2>4, BecomesAlone
<1>5. QED
  BY <1>3, <1>4 DEF Paper!ReadPrice

LEMMA ReadPositionAlone ==
  ASSUME Solvent, OneRequest, Alone(Current), NEW r \in Handlers, Paper!ReadPosition(r)
  PROVE  OneRequest' /\ Alone(Current)'
<1> DEFINE l == request[r]
<1>1. /\ UNCHANGED <<accounts, positions, orders, trades, started, day, disturbed>>
      /\ l.pc = "position"
  BY DEF Paper!ReadPosition, Paper!Others, Paper!At
<1>2. Alone(l) /\ l \in Locals
  BY <1>1, CurrentIs, LocalsAre
<1>3. PICK position \in Paper!Found(Paper!PositionsOf(l.code)) :
        request' = [request EXCEPT ![r].position = position, ![r].day = day,
                                   ![r].pc = IF l.kind = "buy" THEN "pay" ELSE "holding"]
  BY DEF Paper!ReadPosition
<1> DEFINE m == [l EXCEPT !.position = position, !.day = day,
                          !.pc = IF l.kind = "buy" THEN "pay" ELSE "holding"]
<1>4. request' = [request EXCEPT ![r] = m]
  BY <1>3
<1>5. /\ m.pc = (IF l.kind = "buy" THEN "pay" ELSE "holding")
      /\ m.id = l.id /\ m.cash = l.cash /\ m.kind = l.kind /\ m.code = l.code
      /\ m.position = position
  BY <1>2 DEF Locals
<1> HIDE DEF m
<1>6. AccountIs(m) /\ \A id \in DOMAIN accounts : m.cash = accounts[id]
  BY <1>1, <1>2, <1>5 DEF Alone, AccountIs, CashIs, Paid, Wiping, WithCash, WithPrice
<1>7. OrderKnows(m)
  BY <1>3, <1>5 DEF OrderKnows, Paid
<1>8. Alone(m)
  BY <1>1, <1>2, <1>5, <1>6, <1>7, StepBeforeWriting DEF Paid, Wiping
<1>9. QED
  BY <1>1, <1>4, <1>5, <1>8, BecomesAlone

\* What the position of a code shows.
LEMMA PositionShows ==
  ASSUME PaperParameters, Solvent, NEW code, NEW held \in Int, PositionIs(code, held),
         NEW position \in Paper!Found(Paper!PositionsOf(code))
  PROVE  /\ position = None => held = 0 /\ Paper!PositionsOf(code) = {}
         /\ position # None => /\ held > 0 /\ Paper!PositionsOf(code) = {position}
                               /\ position \in Position /\ position.code = code
                               /\ position.quantity = held
<1>1. Paper!PositionsOf(code) \subseteq Position /\ None \notin Position
  BY DEF Solvent, Records, Paper!PositionsOf, PaperParameters, Paper!NoneIsNoDocument, Position, Ids
<1>2. CASE Paper!PositionsOf(code) = {}
  <2>1. position = None
    BY <1>2 DEF Paper!Found
  <2>2. held = 0
    BY <1>2 DEF PositionIs
  <2>3. QED
    BY <1>2, <2>1, <2>2
<1>3. CASE Paper!PositionsOf(code) # {}
  <2>1. position \in Paper!PositionsOf(code)
    BY <1>3 DEF Paper!Found
  <2>2. Paper!PositionsOf(code) = {position}
    BY <2>1 DEF PositionIs
  <2>3. position.quantity \in {p.quantity : p \in Paper!PositionsOf(code)}
    BY <2>1
  <2>4. held # 0 /\ position.quantity = held
    BY <2>3 DEF PositionIs
  <2>5. held > 0
    BY <2>4 DEF PositionIs
  <2>6. position.code = code
    BY <2>1 DEF Paper!PositionsOf
  <2>7. QED
    BY <1>1, <2>1, <2>2, <2>4, <2>5, <2>6
<1>4. QED
  BY <1>2, <1>3

LEMMA ReadHoldingAlone ==
  ASSUME PaperParameters, Solvent, OneRequest, Alone(Current), NEW r \in Handlers,
         Paper!ReadHolding(r)
  PROVE  OneRequest' /\ Alone(Current)'
<1> DEFINE l == request[r]
<1>1. UNCHANGED <<accounts, positions, orders, trades, started, day, disturbed>> /\ l.pc = "holding"
  BY DEF Paper!ReadHolding, Paper!Others, Paper!At
<1>2. Alone(l) /\ l \in Locals /\ l.code \in Codes
  BY <1>1, CurrentIs, LocalsAre DEF WithCash, WithPrice
<1>3. PICK position \in Paper!Found(Paper!PositionsOf(l.code)) :
        request' = [request EXCEPT ![r].total = IF position = None THEN 0 ELSE position.quantity,
                                   ![r].pc = IF /\ position # None
                                                /\ l.market \in NextDayMarkets
                                             THEN "rules" ELSE "available"]
  BY DEF Paper!ReadHolding
<1> DEFINE total == IF position = None THEN 0 ELSE position.quantity
           pc == IF position # None /\ l.market \in NextDayMarkets THEN "rules" ELSE "available"
           m == [l EXCEPT !.total = total, !.pc = pc]
<1>4. total = Held(l.code)
  <2>1. PositionIs(l.code, Held(l.code)) /\ Held(l.code) \in Int
    <3>1. HeldAhead(l, l.code) = 0
      BY <1>1 DEF HeldAhead, Booked
    <3>2. Held(l.code) \in Int
      BY <1>1, CurrentIs, NumbersInTurn DEF Alone
    <3>3. PositionIs(l.code, Held(l.code) + HeldAhead(l, l.code))
      BY <1>1, <1>2 DEF Alone, HoldingsAre
    <3>4. Held(l.code) + 0 = Held(l.code)
      BY <3>2
    <3>5. QED
      BY <3>1, <3>2, <3>3, <3>4
  <2>2. QED
    BY <2>1, PositionShows
<1>5. request' = [request EXCEPT ![r] = m]
  BY <1>3
<1>6. /\ m.pc \in {"rules", "available"} /\ m.total = total /\ m.position = l.position
      /\ m.id = l.id /\ m.cash = l.cash /\ m.kind = l.kind /\ m.code = l.code
  BY <1>2 DEF Locals
<1> HIDE DEF m, total
<1>7. AccountIs(m) /\ \A id \in DOMAIN accounts : m.cash = accounts[id]
  BY <1>1, <1>2, <1>6 DEF Alone, AccountIs, CashIs, Paid, Wiping, WithCash, WithPrice
<1>8. OrderKnows(m)
  BY <1>1, <1>2, <1>4, <1>6 DEF Alone, OrderKnows, Paid
<1>9. Alone(m)
  BY <1>1, <1>2, <1>6, <1>7, <1>8, StepBeforeWriting DEF Paid, Wiping
<1>10. QED
  BY <1>1, <1>5, <1>6, <1>9, BecomesAlone

\* What was bought is what was bought before a day and from it on.
LEMMA DaysSplit ==
  ASSUME PaperParameters, Solvent, NumbersAre(Current), NEW code, NEW date \in Nat
  PROVE  /\ Held(code) = BoughtBefore(code, date) + Paper!BoughtSince(code, date) - Sold(code)
         /\ Paper!BoughtSince(code, date) \in Nat
<1> DEFINE bought == Paper!TradesOf(code, "buy")
           before == {t \in bought : t.day < date}
           since == {t \in trades : t.code = code /\ t.side = "buy" /\ t.day >= date}
<1>1. trades \in SUBSET Trade
  BY DEF Solvent, Records
<1>2. \A t \in trades : t.day \in Nat
  BY <1>1 DEF Trade
<1>3. bought = before \cup since /\ before \cap since = {}
  BY <1>1, <1>2 DEF Paper!TradesOf
<1>4. /\ IsFiniteSet(before) /\ before \in SUBSET Trade
      /\ IsFiniteSet(since) /\ since \in SUBSET Trade
  <2>1. before \in SUBSET trades /\ since \in SUBSET trades
    BY DEF Paper!TradesOf
  <2> HIDE DEF before, since
  <2>2. QED
    BY <2>1, PartsAre, FS_Subset
<1>5. /\ BoughtBefore(code, date) = Paper!Sum(before)
      /\ Paper!BoughtSince(code, date) = Paper!Sum(since)
      /\ Held(code) = Paper!Sum(bought) - Sold(code)
  BY DEF BoughtBefore, Paper!BoughtSince, Sold, Held
<1> HIDE DEF bought, before, since
<1>6. Paper!Sum(bought) = Paper!Sum(before) + Paper!Sum(since)
  BY <1>3, <1>4, SumOfBoth
<1>7. Paper!Sum(before) \in Nat /\ Paper!Sum(since) \in Nat /\ Sold(code) \in Nat
  BY <1>4, NumbersOf, NumbersInTurn
<1>8. QED
  BY <1>5, <1>6, <1>7

LEMMA LookUpDateAlone ==
  ASSUME Solvent, OneRequest, Alone(Current), NEW r \in Handlers, Paper!LookUpDate(r)
  PROVE  OneRequest' /\ Alone(Current)'
<1> DEFINE l == request[r]
           m == [l EXCEPT !.today = day, !.pc = "available"]
<1>1. UNCHANGED <<accounts, positions, orders, trades, started, day, disturbed>> /\ l.pc = "rules"
  BY DEF Paper!LookUpDate, Paper!Others, Paper!At
<1>2. Alone(l) /\ l \in Locals
  BY <1>1, CurrentIs, LocalsAre
<1>3. request' = [request EXCEPT ![r] = m]
  BY DEF Paper!LookUpDate
<1>4. /\ m.pc = "available" /\ m.total = l.total /\ m.position = l.position
      /\ m.id = l.id /\ m.cash = l.cash /\ m.kind = l.kind /\ m.code = l.code
  BY <1>2 DEF Locals
<1> HIDE DEF m
<1>5. AccountIs(m) /\ \A id \in DOMAIN accounts : m.cash = accounts[id]
  BY <1>1, <1>2, <1>4 DEF Alone, AccountIs, CashIs, Paid, Wiping, WithCash, WithPrice
<1>6. OrderKnows(m)
  BY <1>1, <1>2, <1>4 DEF Alone, OrderKnows, Paid
<1>7. Alone(m)
  BY <1>1, <1>2, <1>4, <1>5, <1>6, StepBeforeWriting DEF Paid, Wiping
<1>8. QED
  BY <1>1, <1>3, <1>4, <1>7, BecomesAlone

LEMMA CheckHoldingAlone ==
  ASSUME PaperParameters, Solvent, OneRequest, Alone(Current), NEW r \in Handlers,
         Paper!CheckHolding(r)
  PROVE  OneRequest' /\ Alone(Current)'
<1> DEFINE l == request[r]
<1>1. /\ UNCHANGED <<accounts, positions, orders, trades, started, day, disturbed>>
      /\ l.pc = "available"
  BY DEF Paper!CheckHolding, Paper!Others, Paper!At
<1>2. Alone(l) /\ l \in Locals /\ l.quantity \in Nat \ {0}
  BY <1>1, CurrentIs, LocalsAre DEF WithCash, WithPrice
<1>3. CASE Paper!Return(r)
  BY <1>1, <1>3, ReturnsAlone DEF Paid, Wiping
<1>4. CASE Paper!Available(r) >= l.quantity /\ Paper!GoTo(r, "pay")
  <2> DEFINE m == [l EXCEPT !.pc = "pay"]
  <2>1. request' = [request EXCEPT ![r] = m]
    BY <1>4 DEF Paper!GoTo
  <2>2. /\ m.pc = "pay" /\ m.position = l.position /\ m.quantity = l.quantity
        /\ m.id = l.id /\ m.cash = l.cash /\ m.kind = l.kind /\ m.code = l.code
        /\ m.market = l.market /\ m.today = l.today
    BY <1>2 DEF Locals
  <2> HIDE DEF m
  <2>3. AccountIs(m) /\ \A id \in DOMAIN accounts : m.cash = accounts[id]
    BY <1>1, <1>2, <2>2 DEF Alone, AccountIs, CashIs, Paid, Wiping, WithCash, WithPrice
  <2>4. l.total = Held(l.code)
    BY <1>1, <1>2 DEF Alone, OrderKnows
  <2>5. /\ Held(l.code) = BoughtBefore(l.code, l.today) + Paper!BoughtSince(l.code, l.today)
                           - Sold(l.code)
        /\ Paper!BoughtSince(l.code, l.today) \in Nat
        /\ BoughtBefore(l.code, l.today) \in Nat /\ Sold(l.code) \in Nat
    BY <1>1, <1>2, CurrentIs, DaysSplit, NumbersInTurn DEF Alone, Locals
  <2>6. l.quantity <= Held(l.code)
    BY <1>2, <1>4, <2>4, <2>5 DEF Paper!Available
  <2>7. l.market \in NextDayMarkets =>
          Sold(l.code) + l.quantity <= BoughtBefore(l.code, l.today)
    BY <1>2, <1>4, <2>4, <2>5 DEF Paper!Available
  <2>8. OrderKnows(m)
    BY <1>1, <1>2, <2>2, <2>6, <2>7 DEF Alone, OrderKnows
  <2>9. Alone(m)
    BY <1>1, <1>2, <2>2, <2>3, <2>8, StepBeforeWriting DEF Paid, Wiping
  <2>10. QED
    BY <1>1, <2>1, <2>2, <2>9, BecomesAlone
<1>5. Paper!Available(r) \in Int
  <2>1. l.total \in Int /\ Paper!BoughtSince(l.code, l.today) \in Nat
    BY <1>1, <1>2, CurrentIs, DaysSplit DEF Alone, Locals
  <2>2. QED
    BY <2>1 DEF Paper!Available
<1>6. QED
  BY <1>2, <1>3, <1>4, <1>5 DEF Paper!CheckHolding

LEMMA RefuseBuyAlone ==
  ASSUME Solvent, OneRequest, Alone(Current), NEW r \in Handlers, Paper!RefuseBuy(r)
  PROVE  OneRequest' /\ Alone(Current)'
<1>1. /\ UNCHANGED <<accounts, positions, orders, trades, started, day, disturbed>>
      /\ request[r].pc = "pay" /\ Paper!Return(r)
  BY DEF Paper!RefuseBuy, Paper!Refuse, Paper!Others, Paper!At
<1>2. QED
  BY <1>1, ReturnsAlone DEF Paid, Wiping

LEMMA RecordOrderAlone ==
  ASSUME Solvent, OneRequest, Alone(Current), NEW r \in Handlers, Paper!RecordOrder(r)
  PROVE  OneRequest' /\ Alone(Current)'
<1> DEFINE l == request[r]
           m == [l EXCEPT !.pc = "trade"]
<1>1. UNCHANGED <<accounts, positions, trades, started, day, disturbed>> /\ l.pc = "order"
  BY DEF Paper!RecordOrder, Paper!Others, Paper!At
<1>2. Alone(l) /\ l \in Locals
  BY <1>1, CurrentIs, LocalsAre
<1>3. request' = [request EXCEPT ![r] = m]
  BY DEF Paper!RecordOrder, Paper!GoTo
<1>4. /\ m.pc = "trade" /\ m.quantity = l.quantity /\ m.price = l.price
      /\ m.id = l.id /\ m.kind = l.kind /\ m.code = l.code
      /\ m.market = l.market /\ m.today = l.today
  BY <1>2 DEF Locals
<1> HIDE DEF m
<1>5. \A currency : CashAhead(m, currency) = CashAhead(l, currency)
  BY <1>1, <1>4 DEF CashAhead, Paid
<1>6. \A code : HeldAhead(m, code) = HeldAhead(l, code)
  BY <1>1, <1>4 DEF HeldAhead, Booked
<1>7. CashIs(m) /\ AccountIs(m)
  BY <1>1, <1>2, <1>4, <1>5 DEF Alone, CashIs, AccountIs, Paid, Wiping, WithCash, WithPrice
<1>8. HoldingsAre(m) /\ NumbersAre(m)
  BY <1>1, <1>2, <1>4, <1>6 DEF Alone, HoldingsAre, NumbersAre, Booked
<1>9. OrderKnows(m)
  BY <1>1, <1>2, <1>4 DEF Alone, OrderKnows, Paid
<1>10. Alone(m)
  BY <1>2, <1>7, <1>8, <1>9 DEF Alone
<1>11. QED
  BY <1>1, <1>3, <1>4, <1>10, BecomesAlone

------------------------------------------------------------------------------
(* Payments, positions and records of an order *)

LEMMA NoAccounts ==
  ASSUME Solvent
  PROVE  accounts = <<>> <=> DOMAIN accounts = {}
  BY DEF Solvent, Accounts

LEMMA CreateAccountAlone ==
  ASSUME PaperParameters, Solvent, OneRequest, Alone(Current), NEW r \in Handlers,
         Paper!CreateAccount(r)
  PROVE  OneRequest' /\ Alone(Current)'
<1> DEFINE l == request[r]
           m == IF l.kind \in {"view", "reset"} THEN Paper!Idle
                ELSE [l EXCEPT !.pc = "price", !.cash = Paper!NewAccount]
<1>1. UNCHANGED <<positions, orders, trades, started, day, disturbed>> /\ l.pc = "create"
  BY DEF Paper!CreateAccount, Paper!Others, Paper!At
<1>2. Alone(l) /\ l \in Locals /\ accounts = <<>> /\ trades = {}
  BY <1>1, CurrentIs, LocalsAre DEF Alone, AccountIs, Wiping
<1>3. request' = [request EXCEPT ![r] = m]
  BY DEF Paper!CreateAccount, Paper!WithAccount
<1>4. /\ m.pc \in {"price", "idle"} /\ (m.pc = "price" => m.cash = Paper!NewAccount /\ m.id = l.id)
      /\ (m.pc = "idle" => m = Paper!Idle)
  BY <1>2 DEF Locals, Paper!Idle
<1> HIDE DEF m
<1>5. OneRequest' /\ Current' = m
  BY <1>1, <1>3, <1>4, OthersIdle, CurrentBecomes DEF Solvent
<1>6. DOMAIN accounts' = {l.id} /\ accounts'[l.id] = Paper!NewAccount /\ accounts' # <<>>
  <2>1. DOMAIN accounts = {}
    BY <1>2
  <2>2. accounts' = [id \in {l.id} |-> Paper!NewAccount]
    BY <2>1 DEF Paper!CreateAccount
  <2>3. DOMAIN accounts' = {l.id} /\ accounts'[l.id] = Paper!NewAccount
    BY <2>2
  <2>4. DOMAIN <<>> = {}
    OBVIOUS
  <2>5. QED
    BY <2>3, <2>4
<1>7. CashIs(Current)'
  <2>1. \A currency, side : TradesIn(currency, side) = {}
    BY <1>2 DEF TradesIn
  <2>2. \A currency : Earned(currency) = 0 /\ Spent(currency) = 0
    BY <2>1, NothingSums DEF Earned, Spent
  <2>3. \A currency : Earned(currency)' = 0 /\ Spent(currency)' = 0
    BY <1>1, <2>2, SumsStay
  <2>4. \A currency \in Currencies : Paper!NewAccount[currency] = InitialCash + 0 - 0 + 0
    BY DEF Paper!NewAccount, PaperParameters, Paper!AmountsAreNatural
  <2>5. \A currency : CashAhead(m, currency) = 0
    BY <1>4 DEF CashAhead, Paid
  <2>6. \A currency : CashAhead(Current, currency)' = 0
    BY <1>5, <2>5 DEF CashAhead
  <2>7. QED
    BY <1>4, <1>5, <1>6, <2>3, <2>4, <2>6 DEF CashIs, WithCash, WithPrice
<1>8. AccountIs(Current)'
  BY <1>4, <1>5, <1>6 DEF AccountIs, Wiping
<1>9. HoldingsAre(m) /\ NumbersAre(m) /\ OrderKnows(m)
  <2>1. \A code : HeldAhead(m, code) = HeldAhead(l, code)
    BY <1>1, <1>4 DEF HeldAhead, Booked
  <2>2. HoldingsAre(m)
    BY <1>1, <1>2, <1>4, <2>1 DEF Alone, HoldingsAre
  <2>3. NumbersAre(m)
    BY <1>1, <1>2, <1>4 DEF Alone, NumbersAre, Booked
  <2>4. OrderKnows(m)
    BY <1>4 DEF OrderKnows, Paid, Paper!Idle
  <2>5. QED
    BY <2>2, <2>3, <2>4
<1>10. QED
  BY <1>1, <1>2, <1>5, <1>7, <1>8, <1>9, RestStays DEF Alone

\* A payment: the one account gets the cash of one currency, and the request goes on.
LEMMA PaymentAlone ==
  ASSUME PaperParameters, Solvent, OneRequest, Alone(Current), NEW r \in Handlers,
         request[r].pc = "pay", Paper!GoTo(r, "hold"),
         NEW id \in DOMAIN accounts, NEW cash \in Int,
         accounts' = [accounts EXCEPT ![id][CurrencyOf[request[r].market]] = cash],
         cash = accounts[id][CurrencyOf[request[r].market]]
                  + (IF request[r].kind = "buy" THEN -(request[r].price * request[r].quantity + Fee)
                     ELSE request[r].price * request[r].quantity - Fee),
         UNCHANGED <<positions, orders, trades, started, day, disturbed>>
  PROVE  OneRequest' /\ Alone(Current)'
<1> DEFINE l == request[r]
           m == [l EXCEPT !.pc = "hold"]
           of == CurrencyOf[l.market]
<1>1. Alone(l) /\ l \in Locals
  BY CurrentIs, LocalsAre
<1>2. request' = [request EXCEPT ![r] = m]
  BY DEF Paper!GoTo
<1>3. /\ m.pc = "hold" /\ m.quantity = l.quantity /\ m.price = l.price
      /\ m.id = l.id /\ m.kind = l.kind /\ m.code = l.code /\ m.position = l.position
      /\ m.market = l.market /\ m.today = l.today
  BY <1>1 DEF Locals
<1> HIDE DEF m
<1>4. OneRequest' /\ Current' = m
  BY <1>2, <1>3, OthersIdle, CurrentBecomes DEF Solvent
<1>5. /\ DOMAIN accounts' = {id} /\ accounts' # <<>>
      /\ \A currency \in Currencies :
           accounts'[id][currency] = IF currency = of THEN cash ELSE accounts[id][currency]
  <2>1. DOMAIN accounts = {id}
    BY <1>1 DEF Alone, CashIs
  <2>2. accounts[id] \in Balances
    BY DEF Solvent, Accounts
  <2>3. DOMAIN accounts' = {id}
    BY <2>1
  <2>4. DOMAIN <<>> = {}
    OBVIOUS
  <2>5. accounts'[id] = [accounts[id] EXCEPT ![of] = cash]
    OBVIOUS
  <2>6. QED
    BY <2>2, <2>3, <2>4, <2>5 DEF Balances
<1>6. CashIs(Current)'
  <2>1. SUFFICES ASSUME NEW currency \in Currencies
                 PROVE  accounts'[id][currency] = InitialCash + Earned(currency)' - Spent(currency)'
                                                    + CashAhead(m, currency)
    <3>1. m.pc \notin WithCash \ Paid
      BY <1>3 DEF Paid
    <3>2. \A c : CashAhead(Current, c)' = CashAhead(m, c)
      BY <1>4 DEF CashAhead
    <3>3. QED
      BY <1>4, <1>5, <3>1, <3>2 DEF CashIs
  <2>2. Earned(currency)' = Earned(currency) /\ Spent(currency)' = Spent(currency)
    BY SumsStay
  <2>3. Earned(currency) \in Int /\ Spent(currency) \in Int /\ InitialCash \in Int
    BY <1>1, CurrentIs, NumbersInTurn DEF Alone, PaperParameters, Paper!AmountsAreNatural
  <2>4. accounts[id][currency] = InitialCash + Earned(currency) - Spent(currency) + 0
    BY <1>1 DEF Alone, CashIs, CashAhead, Paid
  <2>5. CASE currency # of
    <3>1. CashAhead(m, currency) = 0
      BY <1>3, <2>5 DEF CashAhead
    <3>2. QED
      BY <1>5, <2>2, <2>4, <2>5, <3>1
  <2>6. CASE currency = of
    <3> DEFINE amount == IF l.kind = "buy" THEN -(l.price * l.quantity + Fee)
                         ELSE l.price * l.quantity - Fee
    <3>1. CashAhead(m, currency) = amount
      BY <1>3, <2>6 DEF CashAhead, Paid
    <3>2. cash = accounts[id][currency] + amount
      BY <2>6
    <3>3. amount \in Int
      <4>1. l.price \in Nat /\ l.quantity \in Nat /\ Fee \in Nat
        BY <1>1 DEF Locals, PaperParameters, Paper!AmountsAreNatural
      <4>2. l.price * l.quantity \in Nat
        BY <4>1
      <4>3. QED
        BY <4>1, <4>2
    <3> HIDE DEF amount, l, of
    <3>4. accounts'[id][currency] = cash
      BY <1>5, <2>6
    <3>5. cash = InitialCash + Earned(currency) - Spent(currency) + amount
      BY <2>3, <2>4, <3>2, <3>3
    <3>6. QED
      BY <2>2, <3>1, <3>4, <3>5
  <2>7. QED
    BY <2>5, <2>6
<1>7. AccountIs(Current)'
  BY <1>3, <1>4, <1>5 DEF AccountIs, Wiping
<1>8. HoldingsAre(m) /\ NumbersAre(m) /\ OrderKnows(m)
  <2>1. \A code : HeldAhead(m, code) = HeldAhead(l, code)
    BY <1>3 DEF HeldAhead, Booked
  <2>2. HoldingsAre(m)
    BY <1>1, <1>3, <2>1 DEF Alone, HoldingsAre
  <2>3. NumbersAre(m)
    BY <1>1, <1>3 DEF Alone, NumbersAre, Booked
  <2>4. OrderKnows(m)
    BY <1>1, <1>3 DEF Alone, OrderKnows, Paid
  <2>5. QED
    BY <2>2, <2>3, <2>4
<1>9. QED
  BY <1>1, <1>4, <1>6, <1>7, <1>8, RestStays DEF Alone

LEMMA PayForBuyAlone ==
  ASSUME PaperParameters, Solvent, OneRequest, Alone(Current), NEW r \in Handlers,
         Paper!PayForBuy(r)
  PROVE  OneRequest' /\ Alone(Current)'
<1> DEFINE l == request[r]
           of == CurrencyOf[l.market]
           cost == l.price * l.quantity + Fee
<1>1. /\ UNCHANGED <<positions, orders, trades, started, day, disturbed>>
      /\ l.pc = "pay" /\ l.kind = "buy" /\ Paper!GoTo(r, "hold")
  BY DEF Paper!PayForBuy, Paper!Others, Paper!At
<1>2. Alone(l) /\ accounts # <<>>
  BY <1>1, CurrentIs DEF Alone, AccountIs, WithCash, WithPrice
<1>3. PICK id \in DOMAIN accounts :
        accounts' = [accounts EXCEPT ![id][of] = l.cash[of] - cost]
  BY <1>2 DEF Paper!PayForBuy, Paper!UpdateAccount, Paper!Notional
<1>4. l.cash = accounts[id]
  BY <1>1, <1>2 DEF Alone, CashIs, WithCash, WithPrice, Paid
<1>5. l.cash[of] \in Int /\ cost \in Int
  <2>1. l.cash \in Balances /\ l.market \in Markets
    BY <1>1, LocalsAre DEF WithCash, WithPrice
  <2>2. of \in Currencies
    BY <2>1 DEF PaperParameters, Paper!MarketsHaveCurrencies
  <2>3. l.price \in Nat /\ l.quantity \in Nat /\ Fee \in Nat
    BY LocalsAre DEF Locals, PaperParameters, Paper!AmountsAreNatural
  <2>4. l.price * l.quantity \in Nat
    BY <2>3
  <2>5. QED
    BY <2>1, <2>2, <2>3, <2>4 DEF Balances, Money
<1> DEFINE left == l.cash[of] - cost
<1>6. /\ left \in Int
      /\ left = accounts[id][of]
                  + (IF l.kind = "buy" THEN -cost ELSE l.price * l.quantity - Fee)
  <2> HIDE DEF cost, of
  <2>1. QED
    BY <1>1, <1>4, <1>5
<1>7. QED
  BY <1>1, <1>3, <1>6, PaymentAlone

LEMMA PayForSaleAlone ==
  ASSUME PaperParameters, Solvent, OneRequest, Alone(Current), NEW r \in Handlers,
         Paper!PayForSale(r)
  PROVE  OneRequest' /\ Alone(Current)'
<1> DEFINE l == request[r]
           of == CurrencyOf[l.market]
           proceeds == l.price * l.quantity - Fee
<1>1. /\ UNCHANGED <<positions, orders, trades, started, day, disturbed>>
      /\ l.pc = "pay" /\ l.kind = "sell" /\ Paper!GoTo(r, "hold")
  BY DEF Paper!PayForSale, Paper!Others, Paper!At
<1>2. Alone(l) /\ accounts # <<>>
  BY <1>1, CurrentIs DEF Alone, AccountIs, WithCash, WithPrice
<1>3. PICK id \in DOMAIN accounts :
        accounts' = [accounts EXCEPT ![id][of] = accounts[id][of] + proceeds]
  BY <1>2 DEF Paper!PayForSale, Paper!UpdateAccount, Paper!Notional
<1>4. accounts[id][of] \in Int /\ proceeds \in Int
  <2>1. accounts[id] \in Balances /\ l.market \in Markets
    BY <1>1, LocalsAre DEF WithCash, WithPrice, Solvent, Accounts
  <2>2. of \in Currencies
    BY <2>1 DEF PaperParameters, Paper!MarketsHaveCurrencies
  <2>3. l.price \in Nat /\ l.quantity \in Nat /\ Fee \in Nat
    BY LocalsAre DEF Locals, PaperParameters, Paper!AmountsAreNatural
  <2>4. l.price * l.quantity \in Nat
    BY <2>3
  <2>5. QED
    BY <2>1, <2>2, <2>3, <2>4 DEF Balances, Money
<1> DEFINE more == accounts[id][of] + proceeds
<1>5. /\ more \in Int
      /\ more = accounts[id][of]
                  + (IF l.kind = "buy" THEN -(l.price * l.quantity + Fee) ELSE proceeds)
  <2> HIDE DEF proceeds, of
  <2>1. QED
    BY <1>1, <1>4
<1>6. QED
  BY <1>1, <1>3, <1>5, PaymentAlone

\* The position of a code becomes the documents of a set, of at most one.
LEMMA HoldingChanges ==
  ASSUME NEW l, NEW m, HoldingsAre(l), NumbersAre(l), Current' = m,
         l.pc = "hold", m.pc = "order", m.id = l.id, m.kind = l.kind, m.code = l.code,
         m.quantity = l.quantity,
         UNCHANGED <<trades, started, day>>,
         NEW held, held = Held(l.code) + (IF l.kind = "buy" THEN l.quantity ELSE -l.quantity),
         NEW docs, positions' = (positions \ Paper!PositionsOf(l.code)) \cup docs,
         held >= 0, {p.quantity : p \in docs} = IF held = 0 THEN {} ELSE {held},
         \A p, q \in docs : p = q,
         \A p \in docs : /\ p.code = l.code /\ p.id <= started
                         /\ \A q \in positions \ Paper!PositionsOf(l.code) : q.id # p.id
  PROVE  HoldingsAre(Current)' /\ NumbersAre(Current)'
<1>1. HoldingsAre(Current)'
  <2>1. Paper!PositionsOf(l.code)' = docs
    BY DEF Paper!PositionsOf
  <2>2. \A other : other # l.code => Paper!PositionsOf(other)' = Paper!PositionsOf(other)
    BY DEF Paper!PositionsOf
  <2>3. ASSUME NEW other \in Codes
        PROVE  PositionIs(other, Held(other) + HeldAhead(m, other))'
    <3>1. CASE other = l.code
      <4>1. PositionIs(l.code, held)'
        BY <2>1 DEF PositionIs
      <4>2. Held(l.code)' + HeldAhead(m, l.code) = held
        BY SumsStay DEF HeldAhead, Booked
      <4>3. QED
        BY <3>1, <4>1, <4>2 DEF PositionIs
    <3>2. CASE other # l.code
      <4>1. PositionIs(other, Held(other) + HeldAhead(l, other))
        BY DEF HoldingsAre
      <4>2. Held(other)' + HeldAhead(m, other) = Held(other) + HeldAhead(l, other)
        BY <3>2, SumsStay DEF HeldAhead, Booked
      <4>3. QED
        BY <2>2, <3>2, <4>1, <4>2 DEF PositionIs
    <3>3. QED
      BY <3>1, <3>2
  <2>4. QED
    BY <2>3 DEF HoldingsAre
<1>2. NumbersAre(Current)'
  <2>1. \A p, q \in positions' : p.id = q.id => p = q
    BY DEF NumbersAre
  <2>2. QED
    BY <2>1 DEF NumbersAre, Booked
<1>3. QED
  BY <1>1, <1>2

LEMMA HoldingAlone ==
  ASSUME PaperParameters, Solvent, OneRequest, Alone(Current), NEW r \in Handlers,
         request[r].pc = "hold", Paper!GoTo(r, "order"),
         UNCHANGED <<accounts, trades, started, day>>,
         NEW held, held = Held(request[r].code) + (IF request[r].kind = "buy"
                                                   THEN request[r].quantity
                                                   ELSE -request[r].quantity),
         NEW docs,
         positions' = (positions \ Paper!PositionsOf(request[r].code)) \cup docs,
         held >= 0, {p.quantity : p \in docs} = IF held = 0 THEN {} ELSE {held},
         \A p, q \in docs : p = q,
         \A p \in docs :
           /\ p.code = request[r].code /\ p.id <= started
           /\ \A q \in positions \ Paper!PositionsOf(request[r].code) : q.id # p.id
  PROVE  OneRequest' /\ Alone(Current)'
<1> DEFINE l == request[r]
           m == [l EXCEPT !.pc = "order"]
<1>1. Alone(l) /\ l \in Locals
  BY CurrentIs, LocalsAre
<1>2. request' = [request EXCEPT ![r] = m]
  BY DEF Paper!GoTo
<1>3. /\ m.pc = "order" /\ m.quantity = l.quantity /\ m.price = l.price
      /\ m.id = l.id /\ m.kind = l.kind /\ m.code = l.code
      /\ m.market = l.market /\ m.today = l.today
  BY <1>1 DEF Locals
<1> HIDE DEF m
<1>4. OneRequest' /\ Current' = m
  BY <1>2, <1>3, OthersIdle, CurrentBecomes DEF Solvent
<1>5. HoldingsAre(Current)' /\ NumbersAre(Current)'
  <2>1. HoldingsAre(l) /\ NumbersAre(l)
    BY <1>1 DEF Alone
  <2> HIDE DEF l
  <2>2. QED
    BY <1>3, <1>4, <2>1, HoldingChanges DEF l
<1>6. CashIs(Current)' /\ AccountIs(Current)'
  <2>1. \A currency : CashAhead(m, currency) = CashAhead(l, currency)
    BY <1>3 DEF CashAhead, Paid
  <2>2. CashIs(m) /\ AccountIs(m)
    BY <1>1, <1>3, <2>1 DEF Alone, CashIs, AccountIs, Paid, Wiping, WithCash, WithPrice
  <2>3. QED
    BY <1>4, <2>2, SumsStay DEF CashIs, CashAhead, AccountIs
<1>7. OrderKnows(Current)' /\ SettledInTime'
  <2>1. OrderKnows(m) /\ SettledInTime
    BY <1>1, <1>3 DEF Alone, OrderKnows, Paid
  <2>2. QED
    BY <1>3, <1>4, <2>1, SumsStay DEF OrderKnows, SettledInTime
<1>8. QED
  BY <1>4, <1>5, <1>6, <1>7 DEF Alone

\* What an order knows of the position when it writes it.
LEMMA OrderHolds ==
  ASSUME PaperParameters, Solvent, OneRequest, Alone(Current), NEW r \in Handlers,
         request[r].pc = "hold", NEW code, code = request[r].code,
         NEW old, old = request[r].position
  PROVE  /\ Held(code) \in Int /\ request[r].quantity \in Nat \ {0} /\ code \in Codes
         /\ request[r].id = started
         /\ old = None => Held(code) = 0 /\ Paper!PositionsOf(code) = {}
         /\ old # None => /\ Paper!PositionsOf(code) = {old} /\ old \in Position
                          /\ old.code = code /\ old.quantity = Held(code) /\ Held(code) > 0
                          /\ \A p \in positions : p.id = old.id => p = old
<1> DEFINE l == request[r]
<1>1. Alone(l) /\ code \in Codes /\ l.quantity \in Nat \ {0} /\ l.id = started
  BY CurrentIs, LocalsAre DEF WithCash, WithPrice, Alone, NumbersAre
<1>2. Held(code) \in Int
  BY NumbersInTurn DEF Alone
<1>3. PositionIs(code, Held(code))
  <2>1. HeldAhead(l, code) = 0
    BY DEF HeldAhead, Booked
  <2>2. PositionIs(code, Held(code) + HeldAhead(l, code))
    BY <1>1 DEF Alone, HoldingsAre
  <2>3. Held(code) + 0 = Held(code)
    BY <1>2
  <2>4. QED
    BY <2>1, <2>2, <2>3
<1>4. old \in Paper!Found(Paper!PositionsOf(code))
  BY <1>1 DEF Alone, OrderKnows
<1>5. old # None => old \in positions
  BY <1>2, <1>3, <1>4, PositionShows DEF Paper!PositionsOf
<1>6. \A p, q \in positions : p.id = q.id => p = q
  BY <1>1 DEF Alone, NumbersAre
<1>7. QED
  BY <1>1, <1>2, <1>3, <1>4, <1>5, <1>6, PositionShows

LEMMA ReplaceIs ==
  ASSUME NEW code, NEW old \in Position, Paper!PositionsOf(code) = {old},
         \A p \in positions : p.id = old.id => p = old,
         NEW quantity, Paper!ReplacePosition(old, quantity)
  PROVE  positions' = (positions \ Paper!PositionsOf(code))
                         \cup {[old EXCEPT !.quantity = quantity]}
<1>1. old \in positions
  BY DEF Paper!PositionsOf
<1>2. \A p \in positions : (IF p.id = old.id THEN [p EXCEPT !.quantity = quantity] ELSE p)
                             = IF p = old THEN [old EXCEPT !.quantity = quantity] ELSE p
  OBVIOUS
<1>3. positions' = {IF p = old THEN [old EXCEPT !.quantity = quantity] ELSE p : p \in positions}
  BY <1>2 DEF Paper!ReplacePosition
<1>4. QED
  BY <1>1, <1>3

\* The old position with another quantity.
LEMMA ReplacedAlone ==
  ASSUME PaperParameters, Solvent, OneRequest, Alone(Current), NEW r \in Handlers,
         request[r].pc = "hold", Paper!GoTo(r, "order"),
         UNCHANGED <<accounts, trades, started, day>>,
         request[r].position # None,
         NEW held \in Nat \ {0},
         held = request[r].position.quantity
                  + (IF request[r].kind = "buy" THEN request[r].quantity ELSE -request[r].quantity),
         Paper!ReplacePosition(request[r].position, held)
  PROVE  OneRequest' /\ Alone(Current)'
<1> DEFINE code == request[r].code
           old == request[r].position
           doc == [old EXCEPT !.quantity = held]
<1>1. /\ Paper!PositionsOf(code) = {old} /\ old \in Position /\ old.code = code
      /\ old.quantity = Held(code) /\ \A p \in positions : p.id = old.id => p = old
  BY OrderHolds
<1>2. positions' = (positions \ Paper!PositionsOf(code)) \cup {doc}
  BY <1>1, ReplaceIs
<1>3. doc.id = old.id /\ doc.code = code /\ doc.quantity = held
  BY <1>1 DEF Position
<1>4. old.id <= started
  BY <1>1, CurrentIs DEF Alone, NumbersAre, Paper!PositionsOf
<1>5. \A q \in positions \ Paper!PositionsOf(code) : q.id # old.id
  BY <1>1
<1>6. held = Held(code) + (IF request[r].kind = "buy" THEN request[r].quantity
                           ELSE -request[r].quantity)
  BY <1>1
<1> DEFINE docs == {doc}
<1>7. /\ {p.quantity : p \in docs} = IF held = 0 THEN {} ELSE {held}
      /\ \A p, q \in docs : p = q
      /\ \A p \in docs : /\ p.code = code /\ p.id <= started
                         /\ \A q \in positions \ Paper!PositionsOf(code) : q.id # p.id
      /\ held >= 0
  <2> HIDE DEF doc
  <2>1. QED
    BY <1>3, <1>4, <1>5
<1>8. positions' = (positions \ Paper!PositionsOf(code)) \cup docs
  BY <1>2
<1> HIDE DEF docs
<1>9. QED
  BY <1>6, <1>7, <1>8, HoldingAlone

LEMMA HoldBoughtAlone ==
  ASSUME PaperParameters, Solvent, OneRequest, Alone(Current), NEW r \in Handlers,
         Paper!HoldBought(r)
  PROVE  OneRequest' /\ Alone(Current)'
<1> DEFINE l == request[r]
           old == l.position
           code == l.code
<1>1. /\ l.pc = "hold" /\ l.kind = "buy" /\ Paper!GoTo(r, "order")
      /\ UNCHANGED <<accounts, orders, trades, started, day, disturbed>>
  BY DEF Paper!HoldBought, Paper!Others, Paper!At
<1>2. /\ Held(code) \in Int /\ l.quantity \in Nat \ {0} /\ l.id = started
      /\ old = None => Held(code) = 0 /\ Paper!PositionsOf(code) = {}
      /\ old # None => old.quantity = Held(code) /\ Held(code) > 0
  BY <1>1, OrderHolds
<1>3. CASE old = None
  <2> DEFINE doc == [id |-> l.id, code |-> code, quantity |-> l.quantity]
  <2>1. positions' = (positions \ Paper!PositionsOf(code)) \cup {doc}
    BY <1>2, <1>3 DEF Paper!HoldBought
  <2>2. doc.id = started /\ doc.code = code /\ doc.quantity = l.quantity /\ started \in Int
    BY <1>2 DEF Solvent, Records
  <2>3. \A q \in positions : q.id # started
    BY <1>1, CurrentIs DEF Alone, NumbersAre, Booked
  <2> DEFINE held == l.quantity
             docs == {doc}
  <2>4. held = Held(code) + l.quantity /\ held >= 0 /\ held # 0
    BY <1>2, <1>3
  <2>5. /\ {p.quantity : p \in docs} = IF held = 0 THEN {} ELSE {held}
        /\ \A p, q \in docs : p = q
        /\ \A p \in docs : /\ p.code = code /\ p.id <= started
                           /\ \A q \in positions \ Paper!PositionsOf(code) : q.id # p.id
    <3> HIDE DEF doc
    <3>1. QED
      BY <2>2, <2>3, <2>4
  <2>6. positions' = (positions \ Paper!PositionsOf(code)) \cup docs
    BY <2>1
  <2> HIDE DEF docs, held
  <2>7. QED
    BY <1>1, <2>4, <2>5, <2>6, HoldingAlone
<1>4. CASE old # None
  <2>1. Paper!ReplacePosition(old, old.quantity + l.quantity)
    BY <1>4 DEF Paper!HoldBought
  <2>2. old.quantity + l.quantity \in Nat \ {0}
    BY <1>2, <1>4
  <2>3. QED
    BY <1>1, <1>4, <2>1, <2>2, ReplacedAlone
<1>5. QED
  BY <1>3, <1>4

LEMMA HoldUnsoldAlone ==
  ASSUME PaperParameters, Solvent, OneRequest, Alone(Current), NEW r \in Handlers,
         Paper!HoldUnsold(r)
  PROVE  OneRequest' /\ Alone(Current)'
<1> DEFINE l == request[r]
           old == l.position
           code == l.code
           left == old.quantity - l.quantity
<1>1. /\ l.pc = "hold" /\ l.kind = "sell" /\ Paper!GoTo(r, "order")
      /\ UNCHANGED <<accounts, orders, trades, started, day, disturbed>>
  BY DEF Paper!HoldUnsold, Paper!Others, Paper!At
<1>2. old # None
  BY <1>1, LocalsAre DEF Holds
<1>3. /\ Held(code) \in Int /\ l.quantity \in Nat \ {0} /\ Paper!PositionsOf(code) = {old}
      /\ old.quantity = Held(code) /\ \A p \in positions : p.id = old.id => p = old
  BY <1>1, <1>2, OrderHolds
<1>4. l.quantity <= Held(code)
  BY <1>1, CurrentIs DEF Alone, OrderKnows, Paid
<1>5. CASE left = 0
  <2>1. positions' = {p \in positions : p.id # old.id}
    BY <1>5 DEF Paper!HoldUnsold
  <2> DEFINE held == 0
             docs == {}
  <2>2. positions' = (positions \ Paper!PositionsOf(code)) \cup docs
    BY <1>3, <2>1
  <2>3. held = Held(code) + (-l.quantity) /\ held >= 0
    BY <1>3, <1>5
  <2>4. /\ {p.quantity : p \in docs} = IF held = 0 THEN {} ELSE {held}
        /\ \A p, q \in docs : p = q
        /\ \A p \in docs : /\ p.code = code /\ p.id <= started
                           /\ \A q \in positions \ Paper!PositionsOf(code) : q.id # p.id
    OBVIOUS
  <2>5. l.kind # "buy"
    BY <1>1
  <2> HIDE DEF docs, held
  <2>6. QED
    BY <1>1, <2>2, <2>3, <2>4, <2>5, HoldingAlone
<1>6. CASE left # 0
  <2>1. Paper!ReplacePosition(old, left)
    BY <1>6 DEF Paper!HoldUnsold
  <2>2. left \in Nat \ {0} /\ left = old.quantity + (-l.quantity)
    BY <1>3, <1>4, <1>6
  <2> HIDE DEF left
  <2>3. QED
    BY <1>1, <1>2, <2>1, <2>2, ReplacedAlone
<1>7. QED
  BY <1>5, <1>6

\* What a new trade makes of the sums.
LEMMA TradeSums ==
  ASSUME PaperParameters, Solvent, NumbersAre(Current), NEW x \in Trade, x \notin trades,
         trades' = trades \cup {x}
  PROVE  /\ \A code : Held(code)' = Held(code) + (IF x.code # code THEN 0
                                                 ELSE IF x.side = "buy" THEN x.quantity
                                                 ELSE -x.quantity)
         /\ \A currency : /\ Earned(currency)' =
                               IF x.side = "sell" /\ CurrencyOf[x.market] = currency
                               THEN Earned(currency) + (x.quantity * x.price - Fee)
                               ELSE Earned(currency)
                          /\ Spent(currency)' =
                               IF x.side = "buy" /\ CurrencyOf[x.market] = currency
                               THEN Spent(currency) + (x.quantity * x.price + Fee)
                               ELSE Spent(currency)
<1>1. \A S \in SUBSET trades :
        /\ Paper!Sum(S) \in Nat /\ Paper!Sum(S \cup {x}) = Paper!Sum(S) + x.quantity
        /\ Earnings(S \cup {x}) = Earnings(S) + (x.quantity * x.price - Fee)
        /\ Spendings(S \cup {x}) = Spendings(S) + (x.quantity * x.price + Fee)
  <2>1. SUFFICES ASSUME NEW S \in SUBSET trades
                 PROVE  /\ Paper!Sum(S) \in Nat /\ Paper!Sum(S \cup {x}) = Paper!Sum(S) + x.quantity
                        /\ Earnings(S \cup {x}) = Earnings(S) + (x.quantity * x.price - Fee)
                        /\ Spendings(S \cup {x}) = Spendings(S) + (x.quantity * x.price + Fee)
    OBVIOUS
  <2>2. IsFiniteSet(S) /\ S \in SUBSET Trade /\ x \notin S
    BY PartsAre, FS_Subset
  <2>3. QED
    BY <2>2, SumsGrow
<1>2. \A code : Held(code)' = Held(code) + (IF x.code # code THEN 0
                                           ELSE IF x.side = "buy" THEN x.quantity
                                           ELSE -x.quantity)
  <2>1. SUFFICES ASSUME NEW code
                 PROVE  Held(code)' = Held(code) + (IF x.code # code THEN 0
                                                    ELSE IF x.side = "buy" THEN x.quantity
                                                    ELSE -x.quantity)
    OBVIOUS
  <2> DEFINE bought == Paper!TradesOf(code, "buy")
             sold == Paper!TradesOf(code, "sell")
  <2>2. bought \in SUBSET trades /\ sold \in SUBSET trades
    BY DEF Paper!TradesOf
  <2>3. Paper!TradesOf(code, "buy")' =
          IF x.side = "buy" /\ x.code = code THEN bought \cup {x} ELSE bought
    BY DEF Paper!TradesOf
  <2>4. Paper!TradesOf(code, "sell")' =
          IF x.side = "sell" /\ x.code = code THEN sold \cup {x} ELSE sold
    BY DEF Paper!TradesOf
  <2>5. /\ Held(code) = Paper!Sum(bought) - Paper!Sum(sold)
        /\ Held(code)' = Paper!Sum(Paper!TradesOf(code, "buy")')
                           - Paper!Sum(Paper!TradesOf(code, "sell")')
    BY DEF Held
  <2>6. x.side \in {"buy", "sell"} /\ x.quantity \in Nat
    BY DEF Trade
  <2> HIDE DEF bought, sold
  <2>7. /\ Paper!Sum(bought) \in Nat /\ Paper!Sum(bought \cup {x}) = Paper!Sum(bought) + x.quantity
        /\ Paper!Sum(sold) \in Nat /\ Paper!Sum(sold \cup {x}) = Paper!Sum(sold) + x.quantity
    BY <1>1, <2>2
  <2>8. CASE x.code # code
    BY <2>3, <2>4, <2>5, <2>7, <2>8
  <2>9. CASE x.code = code /\ x.side = "buy"
    BY <2>3, <2>4, <2>5, <2>6, <2>7, <2>9
  <2>10. CASE x.code = code /\ x.side = "sell"
    <3>1. Held(code)' = Paper!Sum(bought) - (Paper!Sum(sold) + x.quantity)
      BY <2>3, <2>4, <2>5, <2>7, <2>10
    <3>2. Held(code) = Paper!Sum(bought) - Paper!Sum(sold)
      BY <2>5
    <3>3. Held(code)' = Held(code) + (-x.quantity)
      BY <2>6, <2>7, <3>1, <3>2
    <3>4. QED
      BY <2>10, <3>3
  <2>11. QED
    BY <2>6, <2>8, <2>9, <2>10
<1>3. \A currency : Earned(currency)' = IF x.side = "sell" /\ CurrencyOf[x.market] = currency
                                        THEN Earned(currency) + (x.quantity * x.price - Fee)
                                        ELSE Earned(currency)
  <2>1. SUFFICES ASSUME NEW currency
                 PROVE  Earned(currency)' = IF x.side = "sell" /\ CurrencyOf[x.market] = currency
                                            THEN Earned(currency) + (x.quantity * x.price - Fee)
                                            ELSE Earned(currency)
    OBVIOUS
  <2>2. TradesIn(currency, "sell") \in SUBSET trades
    BY DEF TradesIn
  <2>3. TradesIn(currency, "sell")' = IF x.side = "sell" /\ CurrencyOf[x.market] = currency
                                      THEN TradesIn(currency, "sell") \cup {x}
                                      ELSE TradesIn(currency, "sell")
    BY DEF TradesIn
  <2>4. QED
    BY <1>1, <2>2, <2>3 DEF Earned
<1>4. \A currency : Spent(currency)' = IF x.side = "buy" /\ CurrencyOf[x.market] = currency
                                       THEN Spent(currency) + (x.quantity * x.price + Fee)
                                       ELSE Spent(currency)
  <2>1. SUFFICES ASSUME NEW currency
                 PROVE  Spent(currency)' = IF x.side = "buy" /\ CurrencyOf[x.market] = currency
                                           THEN Spent(currency) + (x.quantity * x.price + Fee)
                                           ELSE Spent(currency)
    OBVIOUS
  <2>2. TradesIn(currency, "buy") \in SUBSET trades
    BY DEF TradesIn
  <2>3. TradesIn(currency, "buy")' = IF x.side = "buy" /\ CurrencyOf[x.market] = currency
                                     THEN TradesIn(currency, "buy") \cup {x}
                                     ELSE TradesIn(currency, "buy")
    BY DEF TradesIn
  <2>4. QED
    BY <1>1, <2>2, <2>3 DEF Spent
<1>5. QED
  BY <1>2, <1>3, <1>4

\* The trade that the account and the positions were ahead by.
LEMMA TradeFollows ==
  ASSUME PaperParameters, Solvent, NumbersAre(Current), NEW l \in Locals, Alone(l),
         l.pc = "trade", l.kind \in {"buy", "sell"}, l.code \in Codes,
         NEW x \in Trade, x \notin trades, trades' = trades \cup {x},
         x.id = l.id, x.code = l.code, x.market = l.market, x.side = l.kind,
         x.quantity = l.quantity, x.price = l.price, x.checked = l.today,
         NEW m, m.pc = "idle", m.kind = "none", Current' = m,
         UNCHANGED <<accounts, positions, started, day>>
  PROVE  Alone(Current)'
<1>1. /\ \A code : Held(code)' = Held(code) + HeldAhead(l, code)
      /\ \A code : HeldAhead(m, code) = 0
      /\ \A currency : CashAhead(m, currency) = 0
      /\ \A code : Held(code) \in Int /\ HeldAhead(l, code) \in Int
  <2>1. l.quantity \in Nat
    BY DEF Locals
  <2>2. QED
    BY <2>1, TradeSums, NumbersInTurn DEF HeldAhead, CashAhead, Booked, Paid
<1>2. CashIs(Current)'
  <2>1. SUFFICES ASSUME NEW id \in DOMAIN accounts, NEW currency \in Currencies
                 PROVE  accounts[id][currency] =
                          InitialCash + Earned(currency)' - Spent(currency)' + 0
    BY <1>1 DEF Alone, CashIs, WithCash, WithPrice, CashAhead, Paid
  <2>2. accounts[id][currency] =
          InitialCash + Earned(currency) - Spent(currency) + CashAhead(l, currency)
    BY DEF Alone, CashIs
  <2>3. /\ Earned(currency) \in Int /\ Spent(currency) \in Int /\ InitialCash \in Int /\ Fee \in Int
        /\ l.quantity \in Nat /\ l.price \in Nat
    BY NumbersInTurn DEF PaperParameters, Paper!AmountsAreNatural, Locals
  <2> DEFINE amount == l.quantity * l.price
  <2>4. amount \in Int /\ amount = l.price * l.quantity
    BY <2>3
  <2>5. /\ Earned(currency)' = IF l.kind = "sell" /\ CurrencyOf[l.market] = currency
                               THEN Earned(currency) + (amount - Fee) ELSE Earned(currency)
        /\ Spent(currency)' = IF l.kind = "buy" /\ CurrencyOf[l.market] = currency
                              THEN Spent(currency) + (amount + Fee) ELSE Spent(currency)
    BY TradeSums
  <2>6. CashAhead(l, currency) = IF CurrencyOf[l.market] # currency THEN 0
                                 ELSE IF l.kind = "buy" THEN -(amount + Fee) ELSE amount - Fee
    BY <2>4 DEF CashAhead, Paid
  <2> HIDE DEF amount
  <2>7. QED
    BY <2>2, <2>3, <2>4, <2>5, <2>6
<1>3. AccountIs(Current)'
  BY DEF Alone, AccountIs, WithCash, WithPrice, Wiping
<1>4. HoldingsAre(Current)'
  <2>1. \A code : Paper!PositionsOf(code)' = Paper!PositionsOf(code)
    BY DEF Paper!PositionsOf
  <2>2. ASSUME NEW code \in Codes PROVE PositionIs(code, Held(code) + HeldAhead(m, code))'
    <3>1. PositionIs(code, Held(code) + HeldAhead(l, code))
      BY DEF Alone, HoldingsAre
    <3>2. Held(code)' + HeldAhead(m, code) = Held(code) + HeldAhead(l, code)
      BY <1>1
    <3>3. QED
      BY <2>1, <3>1, <3>2 DEF PositionIs
  <2>3. QED
    BY <2>2 DEF HoldingsAre
<1>5. NumbersAre(Current)'
  <2>1. IsFiniteSet(trades') /\ started \in Nat
    BY FS_AddElement DEF NumbersAre, Solvent, Records
  <2>2. \A t \in trades' : t.id <= started
    BY <2>1 DEF Alone, NumbersAre
  <2>3. QED
    BY <2>1, <2>2 DEF Alone, NumbersAre, Booked
<1>6. OrderKnows(Current)'
  BY DEF OrderKnows, Paid
<1>7. SettledInTime'
  <2>1. SUFFICES ASSUME NEW t \in trades', t.side = "sell", t.market \in NextDayMarkets
                 PROVE  SoldUpTo(t)' <= SettledFor(t)'
    BY DEF SettledInTime
  <2>2. x.id = started /\ started \in Int /\ \A u \in trades : u.id \in Int /\ u.id < started
    <3>1. x.id = started /\ \A u \in trades : u.id <= started /\ u.id # started
      BY DEF Alone, NumbersAre
    <3>2. started \in Int /\ \A u \in trades : u.id \in Int
      BY DEF Solvent, Records, Trade, Ids
    <3>3. QED
      BY <3>1, <3>2
  <2>3. CASE t \in trades
    <3>1. {s \in Paper!TradesOf(t.code, "sell")' : s.id <= t.id}
            = {s \in Paper!TradesOf(t.code, "sell") : s.id <= t.id}
      BY <2>2, <2>3 DEF Paper!TradesOf
    <3>2. {b \in Paper!TradesOf(t.code, "buy")' : b.id < t.id /\ b.day < t.checked}
            = {b \in Paper!TradesOf(t.code, "buy") : b.id < t.id /\ b.day < t.checked}
      BY <2>2, <2>3 DEF Paper!TradesOf
    <3>3. SoldUpTo(t)' = SoldUpTo(t) /\ SettledFor(t)' = SettledFor(t)
      BY <3>1, <3>2 DEF SoldUpTo, SettledFor
    <3>4. SoldUpTo(t) <= SettledFor(t)
      BY <2>1, <2>3 DEF Alone, SettledInTime
    <3>5. QED
      BY <3>3, <3>4
  <2>4. CASE t = x
    <3> DEFINE sold == Paper!TradesOf(x.code, "sell")
    <3>1. {s \in Paper!TradesOf(x.code, "sell")' : s.id <= x.id} = sold \cup {x}
      BY <2>1, <2>2, <2>4 DEF Paper!TradesOf
    <3>2. {b \in Paper!TradesOf(x.code, "buy")' : b.id < x.id /\ b.day < x.checked}
            = {b \in Paper!TradesOf(x.code, "buy") : b.day < x.checked}
      BY <2>1, <2>2, <2>4 DEF Paper!TradesOf
    <3>3. SoldUpTo(x)' = Paper!Sum(sold \cup {x})
      BY <3>1 DEF SoldUpTo
    <3>4. SettledFor(x)' = BoughtBefore(x.code, x.checked)
      BY <3>2 DEF SettledFor, BoughtBefore
    <3>5. Paper!Sum(sold \cup {x}) = Sold(x.code) + x.quantity
      <4>1. sold \in SUBSET Trade /\ IsFiniteSet(sold)
        BY PartsAre
      <4>2. x \notin sold
        BY DEF Paper!TradesOf
      <4>3. Sold(x.code) = Paper!Sum(sold)
        BY DEF Sold
      <4> HIDE DEF sold
      <4>4. QED
        BY <4>1, <4>2, <4>3, SumsGrow
    <3>6. Sold(x.code) + x.quantity <= BoughtBefore(x.code, x.checked)
      BY <2>1, <2>4 DEF Alone, OrderKnows, Paid
    <3>7. QED
      BY <2>4, <3>3, <3>4, <3>5, <3>6
  <2>5. QED
    BY <2>3, <2>4
<1>8. QED
  BY <1>2, <1>3, <1>4, <1>5, <1>6, <1>7 DEF Alone

LEMMA RecordTradeAlone ==
  ASSUME PaperParameters, Solvent, OneRequest, Alone(Current), NEW r \in Handlers,
         Paper!RecordTrade(r)
  PROVE  OneRequest' /\ Alone(Current)'
<1> DEFINE l == request[r]
           x == [id |-> l.id, code |-> l.code, market |-> l.market, side |-> l.kind,
                 quantity |-> l.quantity, price |-> l.price, day |-> l.day,
                 checked |-> l.today]
<1>1. /\ l.pc = "trade" /\ Paper!Return(r) /\ trades' = trades \cup {x}
      /\ UNCHANGED <<accounts, positions, orders, started, day, disturbed>>
  BY DEF Paper!RecordTrade, Paper!Others, Paper!At
<1>2. /\ l \in Locals /\ Alone(l) /\ l.kind \in {"buy", "sell"} /\ l.id \in Ids
      /\ l.code \in Codes /\ l.market \in Markets
  BY <1>1, CurrentIs, LocalsAre DEF WithCash, WithPrice
<1>3. x \in Trade
  BY <1>2 DEF Trade, Locals, Solvent, Records
<1>4. x \notin trades
  BY <1>1, <1>2 DEF Alone, NumbersAre
<1>5. OneRequest' /\ Current' = Paper!Idle
  BY <1>1, OthersIdle, CurrentBecomes DEF Solvent, Paper!Return
<1>6. Paper!Idle.pc = "idle" /\ Paper!Idle.kind = "none"
  BY DEF Paper!Idle
<1>7. /\ x.id = l.id /\ x.code = l.code /\ x.market = l.market /\ x.side = l.kind
      /\ x.quantity = l.quantity /\ x.price = l.price /\ x.checked = l.today
  OBVIOUS
<1>8. NumbersAre(Current)
  BY DEF Alone
<1> HIDE DEF x, l
<1>9. Alone(Current)'
  BY <1>1, <1>2, <1>3, <1>4, <1>5, <1>6, <1>7, <1>8, TradeFollows
<1>10. QED
  BY <1>5, <1>9

------------------------------------------------------------------------------
(* Resets, days and arrivals *)

\* A step of a reset.
LEMMA ResetStep ==
  ASSUME Solvent, OneRequest, Alone(Current), NEW r \in Handlers, request[r].pc # "idle",
         NEW pc \in Counters \ {"idle"}, Paper!GoTo(r, pc)
  PROVE  /\ OneRequest' /\ Alone(request[r])
         /\ \E m : /\ Current' = m /\ m.pc = pc /\ m.id = request[r].id /\ m.kind = request[r].kind
                   /\ m.code = request[r].code /\ m.quantity = request[r].quantity
<1> DEFINE m == [request[r] EXCEPT !.pc = pc]
<1>1. request[r] \in Locals
  BY LocalsAre
<1>2. /\ m.pc = pc /\ m.id = request[r].id /\ m.kind = request[r].kind
      /\ m.code = request[r].code /\ m.quantity = request[r].quantity
  BY <1>1 DEF Locals
<1>3. request' = [request EXCEPT ![r] = m]
  BY DEF Paper!GoTo
<1> HIDE DEF m
<1>4. OneRequest' /\ Current' = m
  BY <1>2, <1>3, OthersIdle, CurrentBecomes DEF Solvent
<1>5. QED
  BY <1>2, <1>4, CurrentIs

LEMMA WipeAccountAlone ==
  ASSUME Solvent, OneRequest, Alone(Current), NEW r \in Handlers, Paper!WipeAccount(r)
  PROVE  OneRequest' /\ Alone(Current)'
<1> DEFINE l == request[r]
<1>1. /\ l.pc = "wipeAccount" /\ Paper!GoTo(r, "wipePositions") /\ accounts' = <<>>
      /\ UNCHANGED <<positions, orders, trades, started, day, disturbed>>
  BY DEF Paper!WipeAccount, Paper!Others, Paper!At
<1>2. OneRequest' /\ Alone(l)
  BY <1>1, ResetStep DEF Counters
<1>3. PICK m : Current' = m /\ m.pc = "wipePositions" /\ m.id = l.id
  BY <1>1, ResetStep DEF Counters
<1>4. HoldingsAre(m) /\ NumbersAre(m) /\ OrderKnows(m)
  <2>1. \A code : HeldAhead(m, code) = HeldAhead(l, code)
    BY <1>1, <1>3 DEF HeldAhead, Booked
  <2>2. QED
    BY <1>1, <1>2, <1>3, <2>1 DEF Alone, HoldingsAre, NumbersAre, OrderKnows, Booked, Paid
<1>5. CashIs(Current)'
  <2>1. DOMAIN <<>> = {}
    OBVIOUS
  <2>2. DOMAIN accounts' = {}
    BY <1>1, <2>1
  <2>3. QED
    BY <2>2 DEF CashIs
<1>6. AccountIs(Current)'
  BY <1>1, <1>3 DEF AccountIs, Wiping, WithCash, WithPrice
<1>7. QED
  BY <1>1, <1>2, <1>3, <1>4, <1>5, <1>6, RestStays DEF Alone

LEMMA WipePositionsAlone ==
  ASSUME Solvent, OneRequest, Alone(Current), NEW r \in Handlers, Paper!WipePositions(r)
  PROVE  OneRequest' /\ Alone(Current)'
<1> DEFINE l == request[r]
<1>1. /\ l.pc = "wipePositions" /\ Paper!GoTo(r, "wipeOrders") /\ positions' = {}
      /\ UNCHANGED <<accounts, orders, trades, started, day, disturbed>>
  BY DEF Paper!WipePositions, Paper!Others, Paper!At
<1>2. OneRequest' /\ Alone(l)
  BY <1>1, ResetStep DEF Counters
<1>3. PICK m : Current' = m /\ m.pc = "wipeOrders" /\ m.id = l.id
  BY <1>1, ResetStep DEF Counters
<1>4. CashIs(Current)'
  <2>1. accounts = <<>>
    BY <1>1, <1>2 DEF Alone, AccountIs, Wiping
  <2>2. DOMAIN <<>> = {}
    OBVIOUS
  <2>3. DOMAIN accounts' = {}
    BY <1>1, <2>1, <2>2
  <2>4. QED
    BY <2>3 DEF CashIs
<1>5. AccountIs(Current)'
  BY <1>1, <1>2, <1>3 DEF Alone, AccountIs, Wiping, WithCash, WithPrice
<1>6. HoldingsAre(Current)' /\ OrderKnows(Current)'
  BY <1>1, <1>3 DEF HoldingsAre, OrderKnows, Paid
<1>7. NumbersAre(Current)'
  BY <1>1, <1>2, <1>3 DEF Alone, NumbersAre
<1>8. SettledInTime'
  BY <1>1, <1>2, SumsStay DEF Alone, SettledInTime
<1>9. QED
  BY <1>2, <1>4, <1>5, <1>6, <1>7, <1>8 DEF Alone

LEMMA WipeOrdersAlone ==
  ASSUME Solvent, OneRequest, Alone(Current), NEW r \in Handlers, Paper!WipeOrders(r)
  PROVE  OneRequest' /\ Alone(Current)'
<1> DEFINE l == request[r]
<1>1. /\ l.pc = "wipeOrders" /\ Paper!GoTo(r, "wipeTrades")
      /\ UNCHANGED <<accounts, positions, trades, started, day, disturbed>>
  BY DEF Paper!WipeOrders, Paper!Others, Paper!At
<1>2. OneRequest' /\ Alone(l)
  BY <1>1, ResetStep DEF Counters
<1>3. PICK m : Current' = m /\ m.pc = "wipeTrades" /\ m.id = l.id
  BY <1>1, ResetStep DEF Counters
<1>4. CashIs(m)
  <2>1. accounts = <<>>
    BY <1>1, <1>2 DEF Alone, AccountIs, Wiping
  <2>2. DOMAIN <<>> = {}
    OBVIOUS
  <2>3. QED
    BY <2>1, <2>2 DEF CashIs
<1>5. AccountIs(m) /\ HoldingsAre(m) /\ NumbersAre(m) /\ OrderKnows(m)
  BY <1>1, <1>2, <1>3 DEF Alone, AccountIs, HoldingsAre, NumbersAre, OrderKnows, Wiping, Paid,
                          Booked, WithCash, WithPrice
<1>6. Alone(m)
  BY <1>2, <1>4, <1>5 DEF Alone
<1>7. QED
  BY <1>1, <1>2, <1>3, <1>6, LocalsChange

LEMMA WipeTradesAlone ==
  ASSUME PaperParameters, Solvent, OneRequest, Alone(Current), NEW r \in Handlers,
         Paper!WipeTrades(r)
  PROVE  OneRequest' /\ Alone(Current)'
<1> DEFINE l == request[r]
<1>1. /\ l.pc = "wipeTrades" /\ Paper!GoTo(r, "account") /\ trades' = {}
      /\ UNCHANGED <<accounts, positions, orders, started, day, disturbed>>
  BY DEF Paper!WipeTrades, Paper!Others, Paper!At
<1>2. OneRequest' /\ Alone(l)
  BY <1>1, ResetStep DEF Counters
<1>3. PICK m : Current' = m /\ m.pc = "account" /\ m.id = l.id
  BY <1>1, ResetStep DEF Counters
<1>4. accounts = <<>> /\ positions = {}
  BY <1>1, <1>2 DEF Alone, AccountIs, HoldingsAre, Wiping
<1>5. CashIs(Current)' /\ AccountIs(Current)'
  <2>1. DOMAIN <<>> = {}
    OBVIOUS
  <2>2. DOMAIN accounts' = {}
    BY <1>1, <1>4, <2>1
  <2>3. QED
    BY <1>1, <1>3, <1>4, <2>2 DEF CashIs, AccountIs, Wiping, WithCash, WithPrice
<1>6. \A code : Held(code)' = 0
  <2>1. \A code, side : Paper!TradesOf(code, side)' = {}
    BY <1>1 DEF Paper!TradesOf
  <2>2. Paper!Sum({}) = 0
    BY NothingSums
  <2>3. QED
    BY <2>1, <2>2 DEF Held
<1>7. HoldingsAre(Current)'
  <2>1. \A code : Paper!PositionsOf(code)' = {}
    BY <1>1, <1>4 DEF Paper!PositionsOf
  <2>2. \A code : HeldAhead(m, code) = 0
    BY <1>3 DEF HeldAhead, Booked
  <2>3. QED
    BY <1>3, <1>6, <2>1, <2>2 DEF HoldingsAre, PositionIs, HeldAhead, Booked
<1>8. NumbersAre(Current)'
  BY <1>1, <1>2, <1>3, <1>4, FS_EmptySet DEF Alone, NumbersAre
<1>9. OrderKnows(Current)' /\ SettledInTime'
  BY <1>1, <1>3 DEF OrderKnows, SettledInTime, Paid
<1>10. QED
  BY <1>2, <1>5, <1>7, <1>8, <1>9 DEF Alone

LEMMA StartAlone ==
  ASSUME PaperParameters, Solvent, Accounted, NEW r \in Handlers, NEW new \in Locals,
         NEW pc \in {"account", "wipeAccount"}, Paper!Start(r, new, pc)
  PROVE  Accounted'
<1> DEFINE m == [new EXCEPT !.pc = pc, !.id = started + 1]
<1>1. /\ UNCHANGED <<accounts, positions, orders, trades, day>>
      /\ started' = started + 1 /\ request[r].pc = "idle"
      /\ request' = [request EXCEPT ![r] = m]
      /\ disturbed' = (disturbed \/ \E other \in Handlers \ {r} : request[other].pc # "idle")
  BY DEF Paper!Start, Paper!At
<1>2. m.pc = pc /\ m.id = started + 1
  BY DEF Locals
<1> HIDE DEF m
<1>3. SUFFICES ASSUME ~disturbed' PROVE OneRequest' /\ Alone(Current)'
  BY DEF Accounted
<1>4. ~disturbed /\ \A s \in Handlers \ {r} : request[s].pc = "idle"
  BY <1>1, <1>3
<1>5. OneRequest' /\ Current' = m
  BY <1>1, <1>2, <1>4, CurrentBecomes DEF Solvent
<1> DEFINE idle == Paper!Idle
<1>6. Alone(idle) /\ idle.pc = "idle"
  <2>1. InProgress = {}
    BY <1>1, <1>4 DEF InProgress
  <2>2. Current = idle
    BY <2>1 DEF Current
  <2>3. QED
    BY <1>4, <2>2 DEF Accounted, Paper!Idle
<1> HIDE DEF idle
<1>7. m.pc \notin Paid \cup Wiping \cup WithCash \cup {"create", "idle"}
  BY <1>2 DEF Paid, Wiping, WithCash, WithPrice
<1>8. /\ \A currency : CashAhead(m, currency) = 0 /\ CashAhead(idle, currency) = 0
      /\ \A code : HeldAhead(m, code) = 0 /\ HeldAhead(idle, code) = 0
  BY <1>6, <1>7 DEF CashAhead, HeldAhead, Paid, Booked
<1>9. CashIs(Current)'
  <2>1. CashIs(m)
    BY <1>6, <1>7, <1>8 DEF Alone, CashIs
  <2>2. QED
    BY <1>1, <1>5, <2>1, SumsStay DEF CashIs, CashAhead
<1>10. AccountIs(Current)'
  BY <1>1, <1>5, <1>6, <1>7 DEF Alone, AccountIs, Wiping
<1>11. HoldingsAre(Current)'
  <2>1. HoldingsAre(m)
    BY <1>6, <1>7, <1>8 DEF Alone, HoldingsAre, Wiping
  <2>2. \A code : Paper!PositionsOf(code)' = Paper!PositionsOf(code)
    BY <1>1 DEF Paper!PositionsOf
  <2>3. \A code : Held(code)' = Held(code)
    BY <1>1, SumsStay
  <2>4. QED
    BY <1>1, <1>5, <2>1, <2>2, <2>3 DEF HoldingsAre, PositionIs, HeldAhead
<1>12. NumbersAre(Current)'
  <2>1. /\ \A t \in trades : t.id <= started /\ t.id \in Int
        /\ \A p \in positions : p.id <= started /\ p.id \in Int
        /\ started \in Int
    BY <1>6 DEF Alone, NumbersAre, Solvent, Records, Trade, Position, Ids
  <2>2. /\ \A t \in trades : t.id <= started + 1 /\ t.id # started + 1
        /\ \A p \in positions : p.id <= started + 1 /\ p.id # started + 1
    BY <2>1
  <2>3. QED
    BY <1>1, <1>2, <1>5, <1>6, <2>2 DEF Alone, NumbersAre
<1>13. OrderKnows(Current)'
  BY <1>2, <1>5, <1>7 DEF OrderKnows, Paid
<1>14. SettledInTime'
  BY <1>1, <1>6, SumsStay DEF Alone, SettledInTime
<1>15. QED
  BY <1>5, <1>9, <1>10, <1>11, <1>12, <1>13, <1>14 DEF Alone

LEMMA ArrivesAlone ==
  ASSUME PaperParameters, Solvent, Accounted, NEW r \in Handlers,
         \/ Paper!ViewAccount(r) \/ Paper!ResetAccount(r)
         \/ \E side \in {"buy", "sell"}, code \in Codes, market \in Markets,
              quantity \in 1..MaxQuantity : Paper!PlaceOrder(r, side, code, market, quantity)
  PROVE  Accounted'
<1>1. Paper!Idle \in Locals
  BY IdleIs
<1>2. CASE Paper!ViewAccount(r)
  <2>1. [Paper!Idle EXCEPT !.kind = "view"] \in Locals
    BY <1>1 DEF Locals
  <2>2. QED
    BY <1>2, <2>1, StartAlone DEF Paper!ViewAccount
<1>3. CASE Paper!ResetAccount(r)
  <2>1. [Paper!Idle EXCEPT !.kind = "reset"] \in Locals
    BY <1>1 DEF Locals
  <2>2. QED
    BY <1>3, <2>1, StartAlone DEF Paper!ResetAccount
<1>4. ASSUME NEW side \in {"buy", "sell"}, NEW code \in Codes, NEW market \in Markets,
             NEW quantity \in 1..MaxQuantity,
             Paper!PlaceOrder(r, side, code, market, quantity)
      PROVE  Accounted'
  <2> DEFINE l == [Paper!Idle EXCEPT !.kind = side, !.code = code, !.market = market,
                                     !.quantity = quantity]
  <2>1. quantity \in Nat
    BY DEF PaperParameters, Paper!AmountsAreNatural
  <2>2. l \in Locals
    BY <1>1, <2>1 DEF Locals
  <2>3. QED
    BY <1>4, <2>2, StartAlone DEF Paper!PlaceOrder
<1>5. QED
  BY <1>2, <1>3, <1>4

LEMMA InitAccounted == PaperParameters /\ Paper!Init => Accounted
<1> SUFFICES ASSUME PaperParameters, Paper!Init PROVE OneRequest /\ Alone(Current)
  BY DEF Accounted
<1>1. /\ accounts = <<>> /\ positions = {} /\ trades = {} /\ started = 0
      /\ \A r \in Handlers : request[r].pc = "idle"
  BY DEF Paper!Init, Paper!Idle
<1>2. InProgress = {}
  BY <1>1 DEF InProgress
<1> DEFINE m == Paper!Idle
<1>3. Current = m /\ m.pc = "idle" /\ m.kind = "none"
  BY <1>2 DEF Current, Paper!Idle
<1> HIDE DEF m
<1>4. \A code : Held(code) = 0
  <2>1. \A code, side : Paper!TradesOf(code, side) = {}
    BY <1>1 DEF Paper!TradesOf
  <2>2. Paper!Sum({}) = 0
    BY NothingSums
  <2>3. QED
    BY <2>1, <2>2 DEF Held
<1>5. CashIs(m) /\ AccountIs(m)
  <2>1. DOMAIN <<>> = {}
    OBVIOUS
  <2>2. QED
    BY <1>1, <1>3, <2>1 DEF CashIs, AccountIs, Wiping, WithCash, WithPrice
<1>6. HoldingsAre(m)
  BY <1>1, <1>3, <1>4 DEF HoldingsAre, HeldAhead, Booked, PositionIs, Paper!PositionsOf
<1>7. NumbersAre(m)
  BY <1>1, <1>3, FS_EmptySet DEF NumbersAre
<1>8. OrderKnows(m) /\ SettledInTime
  BY <1>1, <1>3 DEF OrderKnows, SettledInTime, Paid
<1>9. QED
  BY <1>2, <1>3, <1>5, <1>6, <1>7, <1>8 DEF Alone, OneRequest

\* Midnight, like a step of the rest of the system, leaves alone all that is counted: what a
\* sale may sell is decided by the day it looked up.
LEMMA StutterAlone ==
  ASSUME Accounted, UNCHANGED <<accounts, positions, trades, request, started, disturbed>>
  PROVE  Accounted'
<1> SUFFICES ASSUME ~disturbed' PROVE OneRequest' /\ Alone(Current)'
  BY DEF Accounted
<1>2. OneRequest /\ Alone(Current)
  BY DEF Accounted
<1>3. OneRequest'
  BY <1>2 DEF OneRequest, InProgress
<1>4. Current' = Current
  BY DEF Current, InProgress, Paper!Idle
<1>5. PICK m : m = Current
  OBVIOUS
<1>6. Alone(m) /\ Current' = m
  BY <1>2, <1>4, <1>5
<1>7. Alone(Current)'
  BY <1>6, LocalsChange
<1>8. QED
  BY <1>3, <1>7

\* An interrupted request is a disturbance, and there is no way back from one.
LEMMA DisturbedStays ==
  ASSUME Paper!Next, disturbed
  PROVE  disturbed'
<1>1. ASSUME NEW r \in Handlers, NEW new, NEW pc, Paper!Start(r, new, pc)
      PROVE  disturbed'
  BY <1>1, Zenon DEF Paper!Start
<1>2. ASSUME NEW r \in Handlers, Paper!CutShort(r) PROVE disturbed'
  BY <1>2 DEF Paper!CutShort
<1>3. ASSUME NEW r \in Handlers, Paper!Account(r) \/ Paper!ReadPrice(r) \/ Paper!ReadPosition(r)
      PROVE  disturbed' = disturbed
  BY <1>3 DEF Paper!Account, Paper!FindAccount, Paper!CreateAccount, Paper!ReadPrice,
              Paper!ReadPosition, Paper!Others
<1>4. ASSUME NEW r \in Handlers, Paper!Buy(r) \/ Paper!Sell(r)
      PROVE  disturbed' = disturbed
  BY <1>4 DEF Paper!Buy, Paper!RefuseBuy, Paper!Refuse, Paper!PayForBuy, Paper!HoldBought,
              Paper!Sell, Paper!ReadHolding, Paper!LookUpDate, Paper!CheckHolding, Paper!PayForSale,
              Paper!HoldUnsold, Paper!Others
<1>5. ASSUME NEW r \in Handlers, Paper!Record(r) \/ Paper!Reset(r)
      PROVE  disturbed' = disturbed
  BY <1>5 DEF Paper!Record, Paper!RecordOrder, Paper!RecordTrade, Paper!Reset,
              Paper!WipeAccount, Paper!WipePositions, Paper!WipeOrders, Paper!WipeTrades,
              Paper!Others
<1>6. Paper!NextDay => disturbed' = disturbed
  BY DEF Paper!NextDay
<1>7. QED
  BY <1>1, <1>2, <1>3, <1>4, <1>5, <1>6
     DEF Paper!Next, Paper!ViewAccount, Paper!ResetAccount, Paper!PlaceOrder

LEMMA StepAccounted ==
  PaperParameters /\ Solvent /\ Accounted /\ [Paper!Next]_(Paper!vars) => Accounted'
<1> SUFFICES ASSUME PaperParameters, Solvent, Accounted, [Paper!Next]_(Paper!vars)
             PROVE  Accounted'
  OBVIOUS
<1>1. CASE UNCHANGED Paper!vars
  BY <1>1, StutterAlone DEF Paper!vars
<1>2. CASE Paper!Next
  <2>1. CASE disturbed'
    BY <2>1 DEF Accounted
  <2>2. CASE ~disturbed'
    <3>1. OneRequest /\ Alone(Current)
      BY <1>2, <2>2, DisturbedStays DEF Accounted
    <3>2. ASSUME NEW r \in Handlers,
                 \/ Paper!Account(r) \/ Paper!ReadPrice(r) \/ Paper!ReadPosition(r)
          PROVE  Accounted'
      BY <3>1, <3>2, FindAccountAlone, CreateAccountAlone, ReadPriceAlone, ReadPositionAlone
         DEF Paper!Account, Accounted
    <3>3. ASSUME NEW r \in Handlers, Paper!Buy(r) PROVE Accounted'
      BY <3>1, <3>3, RefuseBuyAlone, PayForBuyAlone, HoldBoughtAlone DEF Paper!Buy, Accounted
    <3>4. ASSUME NEW r \in Handlers, Paper!Sell(r) PROVE Accounted'
      BY <3>1, <3>4, ReadHoldingAlone, LookUpDateAlone, CheckHoldingAlone,
         PayForSaleAlone, HoldUnsoldAlone DEF Paper!Sell, Accounted
    <3>5. ASSUME NEW r \in Handlers, Paper!Record(r) PROVE Accounted'
      BY <3>1, <3>5, RecordOrderAlone, RecordTradeAlone DEF Paper!Record, Accounted
    <3>6. ASSUME NEW r \in Handlers, Paper!Reset(r) PROVE Accounted'
      BY <3>1, <3>6, WipeAccountAlone, WipePositionsAlone, WipeOrdersAlone, WipeTradesAlone
         DEF Paper!Reset, Accounted
    <3>7. ASSUME Paper!NextDay PROVE Accounted'
      BY <3>7, StutterAlone DEF Paper!NextDay
    <3>8. \A r \in Handlers : ~Paper!CutShort(r)
      BY <2>2 DEF Paper!CutShort
    <3>9. QED
      BY <1>2, <3>2, <3>3, <3>4, <3>5, <3>6, <3>7, <3>8, ArrivesAlone DEF Paper!Next
  <2>3. QED
    BY <2>1, <2>2
<1>3. QED
  BY <1>1, <1>2

LEMMA AlwaysAccounted == PaperParameters => (AnySpec => [](Solvent /\ Accounted))
<1> SUFFICES ASSUME PaperParameters PROVE AnySpec => [](Solvent /\ Accounted)
  OBVIOUS
<1>1. AnyInit => Solvent /\ Accounted
  BY InitSolvent, InitAccounted DEF AnyInit
<1>2. Solvent /\ Accounted /\ [AnyNext]_allVars => Solvent' /\ Accounted'
  BY PaperRuns, StepSolvent, StepAccounted
<1>3. QED
  BY <1>1, <1>2, PTL DEF AnySpec

LEMMA AtMostOne ==
  ASSUME NEW S, \A p, q \in S : p = q
  PROVE  Paper!Cardinality(S) <= 1
<1>1. Paper!Cardinality(S) = Cardinality(S)
  BY DEF Paper!Cardinality, Cardinality
<1>2. CASE S = {}
  <2>1. Paper!Cardinality(S) = 0
    BY <1>1, <1>2, FS_EmptySet
  <2>2. QED
    BY <2>1
<1>3. CASE S # {}
  <2>1. PICK p : S = {p}
    BY <1>3
  <2>2. Cardinality({p}) = 1
    BY FS_Singleton
  <2>3. Paper!Cardinality(S) = 1
    BY <1>1, <2>1, <2>2
  <2>4. QED
    BY <2>3
<1>4. QED
  BY <1>2, <1>3

LEMMA AccountedBalances == PaperParameters /\ Solvent /\ Accounted => BooksBalance
<1> SUFFICES ASSUME PaperParameters, Solvent, Accounted, ~disturbed, Paper!Settled
             PROVE  Paper!CashMatchesTrades /\ Paper!PositionMatchesTrades
  BY DEF BooksBalance, Paper!BooksBalance, Paper!CashMatchesTrades, Paper!PositionMatchesTrades
<1> DEFINE m == Paper!Idle
<1>1. Alone(m) /\ m.pc = "idle"
  <2>1. InProgress = {}
    BY DEF InProgress, Paper!Settled, Paper!At
  <2>2. QED
    BY <2>1 DEF Accounted, Current, Paper!Idle
<1>2. /\ \A code : Held(code) \in Int
      /\ \A currency : Earned(currency) \in Int /\ Spent(currency) \in Int
      /\ InitialCash \in Int
  <2>1. Current = m
    BY DEF InProgress, Paper!Settled, Paper!At, Current
  <2>2. QED
    BY <1>1, <2>1, NumbersInTurn DEF Alone, PaperParameters, Paper!AmountsAreNatural
<1> HIDE DEF m
<1>3. Paper!CashMatchesTrades
  <2>1. ASSUME NEW id \in DOMAIN accounts, NEW currency \in Currencies
        PROVE  accounts[id][currency] = InitialCash + Earned(currency) - Spent(currency)
    <3>1. CashAhead(m, currency) = 0
      BY <1>1 DEF CashAhead, Paid
    <3>2. accounts[id][currency] = InitialCash + Earned(currency) - Spent(currency) + 0
      BY <1>1, <3>1 DEF Alone, CashIs
    <3>3. QED
      BY <1>2, <3>2
  <2>2. QED
    BY <2>1 DEF Paper!CashMatchesTrades, Earned, Spent, Earnings, Spendings, TradesIn
<1>4. Paper!PositionMatchesTrades
  <2>1. ASSUME NEW code \in Codes PROVE PositionIs(code, Held(code))
    <3>1. HeldAhead(m, code) = 0
      BY <1>1 DEF HeldAhead, Booked
    <3>2. PositionIs(code, Held(code) + 0)
      BY <1>1, <3>1 DEF Alone, HoldingsAre
    <3>3. Held(code) + 0 = Held(code)
      BY <1>2
    <3>4. QED
      BY <3>2, <3>3
  <2>2. ASSUME NEW code \in Codes PROVE Paper!Cardinality(Paper!PositionsOf(code)) <= 1
    BY <2>1, AtMostOne DEF PositionIs
  <2>3. QED
    BY <2>1, <2>2 DEF Paper!PositionMatchesTrades, PositionIs, Held
<1>5. QED
  BY <1>3, <1>4

\* However many orders, refusals and resets follow one another, whenever none is in progress
\* the cash of each currency and the position of each code are what the trades make them
\* (place_order, reset_account).
THEOREM BooksBalanceAlways == PaperParameters => (AnySpec => []BooksBalance)
<1> SUFFICES ASSUME PaperParameters PROVE AnySpec => []BooksBalance
  OBVIOUS
<1>1. QED
  BY AlwaysAccounted, AccountedBalances, PTL

\* However many orders in whatever markets, resets and midnights there are, between requests
\* or within one: as long as requests follow one another, a sale whose request names a market
\* of T+1 leaves what was bought from the day of its check on (_get_available_quantity).
THEOREM SoldWasSettledAlways == PaperParameters => (AnySpec => []SoldWasSettled)
<1> SUFFICES ASSUME PaperParameters PROVE AnySpec => []SoldWasSettled
  OBVIOUS
<1>1. Accounted => SoldWasSettled
  BY DEF Accounted, Alone, SettledInTime, SoldUpTo, SettledFor, SoldWasSettled,
         Paper!SoldWasSettled
<1>2. QED
  BY <1>1, AlwaysAccounted, PTL

------------------------------------------------------------------------------
(* Scheduled jobs *)

LEMMA JobsRun == [AnyNext]_allVars => [Jobs!Next]_(Jobs!vars)
BY DEF AnyNext, allVars, jobVars, Jobs!vars, Jobs!job, Jobs!counters, Jobs!history

BoundsOK == {MaxNow, MaxRuns, MaxActs} \subseteq Nat

Statuses == {"running", "success", "failed", "missed", "deleted"}
Row == [status : Statuses, cancel : BOOLEAN, timestamp : 0..MaxNow]
Rows == DOMAIN records

JobTypes ==
  /\ kind \in Kinds
  /\ paused \in BOOLEAN /\ due \in BOOLEAN /\ trigger \in BOOLEAN /\ sawCancel \in BOOLEAN
  /\ run \in {"idle", "check", "work", "progress"}
  /\ now \in 0..MaxNow /\ runs \in 0..MaxRuns /\ acts \in 0..MaxActs

\* What names a record names one that is there.
RecordTypes ==
  /\ records \in Seq(Row)
  /\ ending \in {Jobs!NoEnd} \cup [status : {"success", "failed", "missed"},
                              record : {0} \cup Rows, pc : {"find", "write"}]
  /\ asked \in {Jobs!Nothing} \cup [op : {"cancel", "fail", "delete"}, record : Rows]
  /\ zombies \subseteq Rows /\ decided \subseteq Rows

JobTypeInv == JobTypes /\ RecordTypes

LEMMA Grown ==
  ASSUME RecordTypes, records' \in Seq(Row), Rows \subseteq Rows',
         ending' \in {Jobs!NoEnd, ending}, asked' \in {Jobs!Nothing, asked},
         zombies' \subseteq zombies, decided' \subseteq decided \cup Rows
  PROVE  RecordTypes'
<1>1. ending' \in {Jobs!NoEnd} \cup [status : {"success", "failed", "missed"},
                               record : {0} \cup Rows', pc : {"find", "write"}]
  BY DEF RecordTypes
<1>2. asked' \in {Jobs!Nothing} \cup [op : {"cancel", "fail", "delete"}, record : Rows']
  BY DEF RecordTypes
<1>3. zombies' \subseteq Rows' /\ decided' \subseteq Rows'
  BY DEF RecordTypes
<1>4. QED
  BY <1>1, <1>2, <1>3 DEF RecordTypes, Jobs!NoEnd, Jobs!Nothing

LEMMA Inserted ==
  ASSUME RecordTypes, now \in 0..MaxNow, NEW status \in Statuses, Jobs!Insert(status)
  PROVE  /\ records' \in Seq(Row) /\ Rows \subseteq Rows'
         /\ \A i \in Rows : records'[i] = records[i]
<1> DEFINE row == [status |-> status, cancel |-> FALSE, timestamp |-> now]
<1>1. row \in Row
  BY DEF Row
<1>2. records \in Seq(Row) /\ records' = Append(records, row)
  BY DEF RecordTypes, Jobs!Insert
<1>3. QED
  BY <1>1, <1>2 DEF Rows

LEMMA StatusSet ==
  ASSUME RecordTypes, NEW i \in Rows, NEW status \in Statuses, Jobs!SetStatus(i, status)
  PROVE  /\ records' \in Seq(Row) /\ Rows' = Rows
         /\ \A j \in Rows \ {i} : records'[j] = records[j]
         /\ records'[i].timestamp = records[i].timestamp
         /\ records'[i].status \in {records[i].status, status}
         /\ records[i].status = "deleted" => records'[i] = records[i]
<1>1. CASE records[i].status = "deleted"
  BY <1>1 DEF Jobs!SetStatus, RecordTypes, Rows
<1>2. CASE records[i].status # "deleted"
  <2>1. records' = [records EXCEPT ![i].status = status] /\ records \in Seq(Row)
    BY <1>2 DEF Jobs!SetStatus, RecordTypes
  <2>2. records[i] \in Row
    BY <2>1 DEF Rows
  <2>3. [records[i] EXCEPT !.status = status] \in Row
    BY <2>2 DEF Row
  <2>4. records' = [records EXCEPT ![i] = [records[i] EXCEPT !.status = status]]
    BY <2>1
  <2>5. QED
    BY <1>2, <2>1, <2>2, <2>3, <2>4 DEF Rows, Row
<1>3. QED
  BY <1>1, <1>2

------------------------------------------------------------------------------
LEMMA JobInitTyped == BoundsOK /\ Jobs!Init => JobTypeInv
<1> SUFFICES ASSUME BoundsOK, Jobs!Init PROVE JobTypeInv
  OBVIOUS
<1>1. MaxNow \in Nat /\ MaxRuns \in Nat /\ MaxActs \in Nat
  BY DEF BoundsOK
<1>2. JobTypes
  <2>1. now \in 0..MaxNow /\ runs \in 0..MaxRuns /\ acts \in 0..MaxActs
    BY <1>1 DEF Jobs!Init
  <2>2. QED
    BY <2>1, Zenon DEF Jobs!Init, JobTypes
<1>3. RecordTypes
  BY DEF Jobs!Init, RecordTypes, Rows
<1>4. QED
  BY <1>2, <1>3 DEF JobTypeInv

LEMMA JobTyped ==
  ASSUME BoundsOK, JobTypes, [Jobs!Next]_(Jobs!vars)
  PROVE  JobTypes'
<1>1. MaxNow \in Nat /\ MaxRuns \in Nat /\ MaxActs \in Nat
  BY DEF BoundsOK
<1>2. kind' = kind
  BY DEF Jobs!Next, Jobs!Pause, Jobs!Resume, Jobs!TriggerJob, Jobs!RecordTrigger,
         Jobs!BecomeDue, Jobs!StartRun, Jobs!MissRun, Jobs!ShouldStop, Jobs!Work,
         Jobs!UpdateProgress, Jobs!UpdateJobProgress, Jobs!EndRun, Jobs!FindRunning,
         Jobs!RecordEnd, Jobs!ReadRecord, Jobs!WriteRecord, Jobs!FindZombies, Jobs!FailZombie,
         Jobs!Tick, Jobs!Restart, Jobs!vars, Jobs!job
<1>3. paused' \in BOOLEAN /\ due' \in BOOLEAN /\ trigger' \in BOOLEAN
  BY DEF JobTypes, Jobs!Next, Jobs!Pause, Jobs!Resume, Jobs!TriggerJob, Jobs!RecordTrigger,
         Jobs!BecomeDue, Jobs!StartRun, Jobs!MissRun, Jobs!ShouldStop, Jobs!Work,
         Jobs!UpdateProgress, Jobs!UpdateJobProgress, Jobs!EndRun, Jobs!FindRunning,
         Jobs!RecordEnd, Jobs!ReadRecord, Jobs!WriteRecord, Jobs!FindZombies, Jobs!FailZombie,
         Jobs!Tick, Jobs!Restart, Jobs!vars, Jobs!job
<1>4. sawCancel' \in BOOLEAN
  BY DEF JobTypes, Jobs!Next, Jobs!Pause, Jobs!Resume, Jobs!TriggerJob, Jobs!RecordTrigger,
         Jobs!BecomeDue, Jobs!StartRun, Jobs!MissRun, Jobs!ShouldStop, Jobs!Work,
         Jobs!UpdateProgress, Jobs!UpdateJobProgress, Jobs!EndRun, Jobs!FindRunning,
         Jobs!RecordEnd, Jobs!ReadRecord, Jobs!WriteRecord, Jobs!FindZombies, Jobs!FailZombie,
         Jobs!Tick, Jobs!Restart, Jobs!vars, Jobs!history
<1>5. run' \in {"idle", "check", "work", "progress"}
  BY DEF JobTypes, Jobs!Next, Jobs!Pause, Jobs!Resume, Jobs!TriggerJob, Jobs!RecordTrigger,
         Jobs!BecomeDue, Jobs!StartRun, Jobs!MissRun, Jobs!ShouldStop, Jobs!Work,
         Jobs!UpdateProgress, Jobs!UpdateJobProgress, Jobs!EndRun, Jobs!EndsWith,
         Jobs!FindRunning, Jobs!RecordEnd, Jobs!ReadRecord, Jobs!WriteRecord, Jobs!FindZombies,
         Jobs!FailZombie, Jobs!Tick, Jobs!Restart, Jobs!vars
<1>6. now' = now \/ Jobs!Tick
  BY DEF Jobs!Next, Jobs!Pause, Jobs!Resume, Jobs!TriggerJob, Jobs!RecordTrigger,
         Jobs!BecomeDue, Jobs!StartRun, Jobs!MissRun, Jobs!ShouldStop, Jobs!Work,
         Jobs!UpdateProgress, Jobs!UpdateJobProgress, Jobs!EndRun, Jobs!FindRunning,
         Jobs!RecordEnd, Jobs!ReadRecord, Jobs!WriteRecord, Jobs!FindZombies, Jobs!FailZombie,
         Jobs!Restart, Jobs!vars
<1>7. runs' = runs \/ (runs' = runs + 1 /\ runs < MaxRuns)
  <2>1. CASE Jobs!StartRun
    BY <2>1 DEF Jobs!StartRun
  <2>2. CASE ~Jobs!StartRun
    BY <2>2
       DEF Jobs!Next, Jobs!Pause, Jobs!Resume, Jobs!TriggerJob, Jobs!RecordTrigger,
           Jobs!BecomeDue, Jobs!MissRun, Jobs!ShouldStop, Jobs!Work, Jobs!UpdateProgress,
           Jobs!UpdateJobProgress, Jobs!EndRun, Jobs!FindRunning, Jobs!RecordEnd,
           Jobs!ReadRecord, Jobs!WriteRecord, Jobs!FindZombies, Jobs!FailZombie, Jobs!Tick,
           Jobs!Restart, Jobs!vars, Jobs!counters
  <2>3. QED
    BY <2>1, <2>2
<1>8. acts' = acts \/ Jobs!Request
  BY DEF Jobs!Next, Jobs!Pause, Jobs!Resume, Jobs!TriggerJob, Jobs!RecordTrigger,
         Jobs!BecomeDue, Jobs!StartRun, Jobs!MissRun, Jobs!ShouldStop, Jobs!Work,
         Jobs!UpdateProgress, Jobs!UpdateJobProgress, Jobs!EndRun, Jobs!FindRunning,
         Jobs!RecordEnd, Jobs!ReadRecord, Jobs!WriteRecord, Jobs!FindZombies, Jobs!FailZombie,
         Jobs!Tick, Jobs!Restart, Jobs!vars, Jobs!counters
<1>9. now' \in 0..MaxNow /\ runs' \in 0..MaxRuns /\ acts' \in 0..MaxActs
  BY <1>1, <1>6, <1>7, <1>8 DEF JobTypes, Jobs!Tick, Jobs!Request
<1>10. QED
  BY <1>2, <1>3, <1>4, <1>5, <1>9 DEF JobTypes

------------------------------------------------------------------------------
\* The last of some records is one of them.
LEMMA LatestIsOne ==
  ASSUME RecordTypes, NEW ids \in SUBSET Rows, ids # {}
  PROVE  Jobs!Latest(ids) \in ids
<1>1. Len(records) \in Nat /\ ids \in SUBSET (0..Len(records))
  BY DEF RecordTypes, Rows
<1>2. \E i \in ids : \A j \in ids : j <= i
  BY <1>1, SomeIsLargest
<1>3. QED
  BY <1>2 DEF Jobs!Latest

LEMMA RecordTyped ==
  ASSUME JobTypeInv, [Jobs!Next]_(Jobs!vars)
  PROVE  RecordTypes'
<1>1. JobTypes /\ RecordTypes
  BY DEF JobTypeInv
<1>2. CASE UNCHANGED <<records, ending, asked, zombies, decided>>
  BY <1>1, <1>2 DEF RecordTypes, Rows
<1>3. CASE Jobs!RecordTrigger
  <2>1. Jobs!Insert("running") /\ UNCHANGED <<ending, asked, zombies, decided>>
    BY <1>3 DEF Jobs!RecordTrigger, Jobs!history
  <2>2. QED
    BY <1>1, <2>1, Inserted, Grown DEF JobTypes, Statuses
<1>4. CASE Jobs!MissRun \/ Jobs!ShouldStop \/ Jobs!UpdateProgress \/ Jobs!EndRun
  <2>1. UNCHANGED <<records, asked, zombies, decided>>
    BY <1>4 DEF Jobs!MissRun, Jobs!ShouldStop, Jobs!UpdateProgress, Jobs!EndRun, Jobs!history
  <2>2. \/ ending' = ending
        \/ \E status \in {"success", "failed", "missed"}, pc \in {"find", "write"} :
             ending' = [status |-> status, record |-> 0, pc |-> pc]
    BY <1>4 DEF Jobs!MissRun, Jobs!ShouldStop, Jobs!UpdateProgress, Jobs!EndRun, Jobs!EndsWith
  <2>3. QED
    BY <1>1, <2>1, <2>2 DEF RecordTypes, Rows
<1>5. CASE Jobs!UpdateJobProgress
  <2> DEFINE ids == Jobs!With({"running", "success", "failed"})
  <2>1. UNCHANGED <<ending, asked, zombies, decided>>
    BY <1>5 DEF Jobs!UpdateJobProgress
  <2>2. \/ Jobs!Insert("running")
        \/ UNCHANGED records
        \/ ids # {} /\ Jobs!SetStatus(Jobs!Latest(ids), "running")
    BY <1>5 DEF Jobs!UpdateJobProgress
  <2>3. CASE Jobs!Insert("running")
    BY <1>1, <2>1, <2>3, Inserted, Grown DEF JobTypes, Statuses
  <2>4. CASE ids # {} /\ Jobs!SetStatus(Jobs!Latest(ids), "running")
    <3>1. ids \in SUBSET Rows
      BY DEF Jobs!With, Rows
    <3>2. Jobs!Latest(ids) \in Rows
      BY <1>1, <2>4, <3>1, LatestIsOne
    <3>3. QED
      BY <1>1, <2>1, <2>4, <3>2, StatusSet, Grown DEF Statuses
  <2>5. QED
    BY <1>2, <2>1, <2>2, <2>3, <2>4
<1>6. CASE Jobs!FindRunning
  <2>1. UNCHANGED <<records, asked, zombies, decided>> /\ ending.pc = "find"
    BY <1>6 DEF Jobs!FindRunning, Jobs!history
  <2>2. ending \in [status : {"success", "failed", "missed"}, record : {0} \cup Rows,
                    pc : {"find", "write"}]
    BY <1>1, <2>1 DEF RecordTypes, Jobs!NoEnd
  <2>3. PICK i \in {0} \cup Rows : ending' = [ending EXCEPT !.pc = "write", !.record = i]
    <3>1. Jobs!Matching \in SUBSET Rows
      BY DEF Jobs!Matching, Jobs!With, Rows
    <3>2. Jobs!Matching # {} => Jobs!Latest(Jobs!Matching) \in Rows
      BY <1>1, <3>1, LatestIsOne
    <3>3. QED
      BY <1>6, <3>2 DEF Jobs!FindRunning
  <2>4. ending' \in [status : {"success", "failed", "missed"}, record : {0} \cup Rows,
                     pc : {"find", "write"}]
    BY <2>2, <2>3
  <2>5. QED
    BY <1>1, <2>1, <2>4 DEF RecordTypes, Rows
<1>7. CASE Jobs!RecordEnd
  <2>1. ending' = Jobs!NoEnd /\ UNCHANGED <<asked, zombies, decided>> /\ ending.pc = "write"
    BY <1>7 DEF Jobs!RecordEnd, Jobs!history
  <2>2. ending.status \in Statuses /\ ending.record \in {0} \cup Rows
    BY <1>1, <2>1 DEF RecordTypes, Jobs!NoEnd, Statuses
  <2>3. CASE ending.record = 0
    <3>1. Jobs!Insert(ending.status)
      BY <1>7, <2>3 DEF Jobs!RecordEnd
    <3>2. QED
      BY <1>1, <2>1, <2>2, <3>1, Inserted, Grown DEF JobTypes
  <2>4. CASE ending.record # 0
    <3>1. Jobs!SetStatus(ending.record, ending.status) /\ ending.record \in Rows
      BY <1>7, <2>2, <2>4 DEF Jobs!RecordEnd
    <3>2. QED
      BY <1>1, <2>1, <2>2, <3>1, StatusSet, Grown
  <2>5. QED
    BY <2>3, <2>4
<1>8. CASE \E i \in DOMAIN records, op \in {"cancel", "fail", "delete"} : Jobs!ReadRecord(op, i)
  <2>1. PICK i \in Rows, op \in {"cancel", "fail", "delete"} : Jobs!ReadRecord(op, i)
    BY <1>8 DEF Rows
  <2>2. UNCHANGED <<records, ending, zombies, decided>> /\ asked' = [op |-> op, record |-> i]
    BY <2>1 DEF Jobs!ReadRecord, Jobs!history
  <2>3. QED
    BY <1>1, <2>2 DEF RecordTypes, Rows
<1>9. CASE Jobs!WriteRecord
  <2> DEFINE i == asked.record
  <2>1. i \in Rows /\ asked.op \in {"cancel", "fail", "delete"}
    BY <1>1, <1>9 DEF Jobs!WriteRecord, RecordTypes
  <2>2. /\ UNCHANGED <<ending, zombies>> /\ asked' = Jobs!Nothing
        /\ decided' \subseteq decided \cup Rows
    BY <1>9, <2>1 DEF Jobs!WriteRecord
  <2>3. CASE asked.op = "cancel"
    <3>1. records' = [records EXCEPT ![i].cancel = TRUE] /\ records \in Seq(Row)
      BY <1>1, <1>9, <2>3 DEF Jobs!WriteRecord, RecordTypes
    <3>2. records' = [records EXCEPT ![i] = [records[i] EXCEPT !.cancel = TRUE]]
      BY <3>1
    <3>3. records[i] \in Row
      BY <2>1, <3>1 DEF Rows
    <3>4. [records[i] EXCEPT !.cancel = TRUE] \in Row
      BY <3>3, Zenon DEF Row
    <3>5. records' \in Seq(Row) /\ Rows' = Rows
      BY <2>1, <3>1, <3>2, <3>4 DEF Rows
    <3>6. QED
      BY <1>1, <2>2, <3>5, Grown
  <2>4. CASE asked.op # "cancel"
    <3>1. PICK status \in {"failed", "deleted"} : Jobs!SetStatus(i, status)
      BY <1>9, <2>1, <2>4, Zenon DEF Jobs!WriteRecord
    <3>2. QED
      BY <1>1, <2>1, <2>2, <3>1, StatusSet, Grown DEF Statuses
  <2>5. QED
    BY <2>3, <2>4
<1>10. CASE Jobs!FindZombies
  <2>1. UNCHANGED <<records, ending, asked, decided>> /\ zombies' \subseteq Rows
    BY <1>10 DEF Jobs!FindZombies, Jobs!With, Rows, Jobs!history
  <2>2. QED
    BY <1>1, <2>1 DEF RecordTypes, Rows
<1>11. CASE \E i \in DOMAIN records : Jobs!FailZombie(i)
  <2>1. PICK i \in Rows : Jobs!FailZombie(i)
    BY <1>11 DEF Rows
  <2>2. /\ UNCHANGED <<ending, asked, decided>> /\ zombies' \subseteq zombies
        /\ Jobs!SetStatus(i, "failed")
    BY <2>1 DEF Jobs!FailZombie, Jobs!history
  <2>3. QED
    BY <1>1, <2>2, StatusSet, Grown DEF Statuses
<1>12. CASE Jobs!Restart
  <2>1. /\ ending' = Jobs!NoEnd /\ asked' = Jobs!Nothing /\ zombies' = {}
        /\ UNCHANGED <<records, decided>>
    BY <1>12 DEF Jobs!Restart
  <2>2. QED
    BY <1>1, <2>1 DEF RecordTypes, Rows
<1>13. CASE \/ Jobs!Pause \/ Jobs!Resume \/ Jobs!TriggerJob \/ Jobs!BecomeDue
            \/ Jobs!StartRun \/ Jobs!Work \/ Jobs!Tick \/ UNCHANGED Jobs!vars
  BY <1>2, <1>13
     DEF Jobs!Pause, Jobs!Resume, Jobs!TriggerJob, Jobs!BecomeDue, Jobs!StartRun, Jobs!Work,
         Jobs!Tick, Jobs!vars, Jobs!history
<1>14. QED
  BY <1>3, <1>4, <1>5, <1>6, <1>7, <1>8, <1>9, <1>10, <1>11, <1>12, <1>13 DEF Jobs!Next

------------------------------------------------------------------------------
\* Nobody has ended the run of this record, unless a person decided about it.
Undecided(i) == records[i].status \in {"running", "deleted"} \/ i \in decided

\* What the end of a run is about to write, and what the zombie check is about to write:
\* the first record is young, the others are old, and none is finished.
ApartByAge ==
  kind = "batches" =>
    /\ \A i \in Rows : ending.pc = "write" /\ ending.record = i =>
         Undecided(i) /\ records[i].timestamp >= now - MatchWindow
    /\ \A i \in zombies : Undecided(i) /\ records[i].timestamp < now - ZombieAge

\* What a step may do to a record of a synchronisation in batches.
RecordStep(i) ==
  /\ i \in Rows' /\ records'[i].timestamp = records[i].timestamp
  /\ \/ records'[i].status \in {records[i].status, "deleted"}
     \/ i \in decided'
     \/ i \in zombies /\ i \notin zombies'
     \/ ending.pc = "write" /\ ending.record = i /\ ending' = Jobs!NoEnd

LEMMA EveryRecordStep ==
  ASSUME JobTypeInv, [Jobs!Next]_(Jobs!vars), kind = "batches", NEW i \in Rows
  PROVE  RecordStep(i)
<1>1. JobTypes /\ RecordTypes
  BY DEF JobTypeInv
<1>2. CASE UNCHANGED records
  BY <1>2 DEF RecordStep, Rows
<1>3. CASE Jobs!RecordTrigger
  BY <1>1, <1>3, Inserted DEF Jobs!RecordTrigger, RecordStep, JobTypes, Statuses
<1>4. CASE Jobs!RecordEnd
  <2>1. ending' = Jobs!NoEnd /\ ending.pc = "write"
    BY <1>4 DEF Jobs!RecordEnd
  <2>2. ending.status \in Statuses /\ ending.record \in {0} \cup Rows
    BY <1>1, <2>1 DEF RecordTypes, Jobs!NoEnd, Statuses
  <2>3. CASE ending.record = 0
    BY <1>1, <1>4, <2>2, <2>3, Inserted DEF Jobs!RecordEnd, RecordStep, JobTypes
  <2>4. CASE ending.record # 0
    <3>1. Jobs!SetStatus(ending.record, ending.status) /\ ending.record \in Rows
      BY <1>4, <2>2, <2>4 DEF Jobs!RecordEnd
    <3>2. QED
      BY <1>1, <2>1, <2>2, <3>1, StatusSet DEF RecordStep
  <2>5. QED
    BY <2>3, <2>4
<1>5. CASE Jobs!WriteRecord
  <2> DEFINE k == asked.record
  <2>1. k \in Rows /\ asked.op \in {"cancel", "fail", "delete"}
    BY <1>1, <1>5 DEF Jobs!WriteRecord, RecordTypes
  <2>2. CASE asked.op = "cancel"
    <3>1. records' = [records EXCEPT ![k].cancel = TRUE] /\ records \in Seq(Row)
      BY <1>1, <1>5, <2>2 DEF Jobs!WriteRecord, RecordTypes
    <3>2. records[i] \in Row
      BY <3>1 DEF Rows
    <3>3. Rows' = Rows /\ records'[i].timestamp = records[i].timestamp
          /\ records'[i].status = records[i].status
      BY <2>1, <3>1, <3>2 DEF Rows, Row
    <3>4. QED
      BY <3>3 DEF RecordStep
  <2>3. CASE asked.op = "fail"
    <3>1. Jobs!SetStatus(k, "failed") /\ k \in decided'
      BY <1>5, <2>3 DEF Jobs!WriteRecord
    <3>2. QED
      BY <1>1, <2>1, <3>1, StatusSet DEF RecordStep, Statuses
  <2>4. CASE asked.op = "delete"
    <3>1. Jobs!SetStatus(k, "deleted")
      BY <1>5, <2>4 DEF Jobs!WriteRecord
    <3>2. QED
      BY <1>1, <2>1, <3>1, StatusSet DEF RecordStep, Statuses
  <2>5. QED
    BY <2>1, <2>2, <2>3, <2>4
<1>6. CASE \E k \in DOMAIN records : Jobs!FailZombie(k)
  <2>1. PICK k \in Rows : Jobs!FailZombie(k)
    BY <1>6 DEF Rows
  <2>2. Jobs!SetStatus(k, "failed") /\ k \in zombies /\ k \notin zombies'
    BY <2>1 DEF Jobs!FailZombie
  <2>3. QED
    BY <1>1, <2>2, StatusSet DEF RecordStep, Statuses
<1>7. CASE (\E k \in DOMAIN records, op \in {"cancel", "fail", "delete"} : Jobs!ReadRecord(op, k))
  BY <1>2, <1>7 DEF Jobs!ReadRecord
<1>8. ~Jobs!UpdateJobProgress
  BY DEF Jobs!UpdateJobProgress
<1>9. CASE \/ Jobs!Pause \/ Jobs!Resume \/ Jobs!TriggerJob \/ Jobs!BecomeDue \/ Jobs!StartRun
           \/ Jobs!MissRun \/ Jobs!ShouldStop \/ Jobs!Work \/ Jobs!UpdateProgress \/ Jobs!EndRun
           \/ Jobs!FindRunning \/ Jobs!FindZombies \/ Jobs!Tick \/ Jobs!Restart
           \/ UNCHANGED Jobs!vars
  BY <1>2, <1>9
     DEF Jobs!Pause, Jobs!Resume, Jobs!TriggerJob, Jobs!BecomeDue, Jobs!StartRun, Jobs!MissRun,
         Jobs!ShouldStop, Jobs!Work, Jobs!UpdateProgress, Jobs!EndRun, Jobs!FindRunning,
         Jobs!FindZombies, Jobs!Tick, Jobs!Restart, Jobs!vars
<1>10. QED
  BY <1>3, <1>4, <1>5, <1>6, <1>7, <1>8, <1>9 DEF Jobs!Next

LEMMA DecidedGrows ==
  ASSUME [Jobs!Next]_(Jobs!vars)
  PROVE  decided \subseteq decided' /\ kind' = kind
<1>1. decided' = decided \/ Jobs!WriteRecord
  BY DEF Jobs!Next, Jobs!Pause, Jobs!Resume, Jobs!TriggerJob, Jobs!RecordTrigger,
         Jobs!BecomeDue, Jobs!StartRun, Jobs!MissRun, Jobs!ShouldStop, Jobs!Work,
         Jobs!UpdateProgress, Jobs!UpdateJobProgress, Jobs!EndRun, Jobs!FindRunning,
         Jobs!RecordEnd, Jobs!ReadRecord, Jobs!FindZombies, Jobs!FailZombie, Jobs!Tick,
         Jobs!Restart, Jobs!vars, Jobs!history
<1>2. kind' = kind
  BY DEF Jobs!Next, Jobs!Pause, Jobs!Resume, Jobs!TriggerJob, Jobs!RecordTrigger,
         Jobs!BecomeDue, Jobs!StartRun, Jobs!MissRun, Jobs!ShouldStop, Jobs!Work,
         Jobs!UpdateProgress, Jobs!UpdateJobProgress, Jobs!EndRun, Jobs!FindRunning,
         Jobs!RecordEnd, Jobs!ReadRecord, Jobs!WriteRecord, Jobs!FindZombies, Jobs!FailZombie,
         Jobs!Tick, Jobs!Restart, Jobs!vars, Jobs!job
<1>3. QED
  BY <1>1, <1>2 DEF Jobs!WriteRecord

LEMMA StaysApartByAge ==
  ASSUME Jobs!AgesLeaveAGap, JobTypeInv, ApartByAge, [Jobs!Next]_(Jobs!vars)
  PROVE  ApartByAge'
<1> SUFFICES ASSUME kind = "batches" PROVE ApartByAge'
  BY DecidedGrows DEF ApartByAge
<1>1. /\ MatchWindow \in Nat /\ ZombieAge \in Nat /\ MatchWindow <= ZombieAge
      /\ now \in Nat /\ \A i \in Rows : records[i].timestamp \in Nat
  <2>1. MatchWindow \in Nat /\ ZombieAge \in Nat /\ MatchWindow <= ZombieAge
    BY DEF Jobs!AgesLeaveAGap
  <2>2. now \in Nat
    BY DEF JobTypeInv, JobTypes
  <2>3. \A i \in Rows : records[i] \in Row
    BY DEF JobTypeInv, RecordTypes, Rows
  <2>4. QED
    BY <2>1, <2>2, <2>3 DEF Row
<1>2. zombies \subseteq Rows /\ (ending.pc = "write" => ending.record \in {0} \cup Rows)
  BY DEF JobTypeInv, RecordTypes, Jobs!NoEnd
<1>3. now' = now \/ (ending = Jobs!NoEnd /\ ending' = Jobs!NoEnd /\ zombies = {} /\ zombies' = {})
  BY DEF Jobs!Next, Jobs!Pause, Jobs!Resume, Jobs!TriggerJob, Jobs!RecordTrigger,
         Jobs!BecomeDue, Jobs!StartRun, Jobs!MissRun, Jobs!ShouldStop, Jobs!Work,
         Jobs!UpdateProgress, Jobs!UpdateJobProgress, Jobs!EndRun, Jobs!FindRunning,
         Jobs!RecordEnd, Jobs!ReadRecord, Jobs!WriteRecord, Jobs!FindZombies, Jobs!FailZombie,
         Jobs!Tick, Jobs!Restart, Jobs!vars
<1>4. \A i \in zombies : ~(ending.pc = "write" /\ ending.record = i)
  BY <1>1, <1>2 DEF ApartByAge, Rows, JobTypeInv, RecordTypes
<1>5. ASSUME NEW i \in Rows, Undecided(i), ~(i \in zombies /\ i \notin zombies'),
             ~(ending.pc = "write" /\ ending.record = i /\ ending' = Jobs!NoEnd)
      PROVE  Undecided(i)' /\ records'[i].timestamp = records[i].timestamp
  BY <1>5, EveryRecordStep, DecidedGrows DEF Undecided, RecordStep
<1>6. zombies' \subseteq zombies \/ Jobs!FindZombies
  BY DEF Jobs!Next, Jobs!Pause, Jobs!Resume, Jobs!TriggerJob, Jobs!RecordTrigger,
         Jobs!BecomeDue, Jobs!StartRun, Jobs!MissRun, Jobs!ShouldStop, Jobs!Work,
         Jobs!UpdateProgress, Jobs!UpdateJobProgress, Jobs!EndRun, Jobs!FindRunning,
         Jobs!RecordEnd, Jobs!ReadRecord, Jobs!WriteRecord, Jobs!FailZombie, Jobs!Tick,
         Jobs!Restart, Jobs!vars
<1>7. \A i \in zombies' : Undecided(i)' /\ records'[i].timestamp < now' - ZombieAge
  <2>1. CASE Jobs!FindZombies
    BY <2>1 DEF Jobs!FindZombies, Jobs!With, Undecided, Jobs!history
  <2>2. CASE zombies' \subseteq zombies
    BY <1>2, <1>3, <1>4, <1>5, <2>2 DEF ApartByAge
  <2>3. QED
    BY <1>6, <2>1, <2>2
<1>8. ending' = ending \/ ending'.record = 0 \/ Jobs!FindRunning
  <2>1. CASE \/ Jobs!MissRun \/ Jobs!ShouldStop \/ Jobs!UpdateProgress
             \/ Jobs!EndRun \/ Jobs!RecordEnd \/ Jobs!Restart
    BY <2>1
       DEF Jobs!MissRun, Jobs!ShouldStop, Jobs!UpdateProgress, Jobs!EndRun, Jobs!EndsWith,
           Jobs!RecordEnd, Jobs!Restart, Jobs!NoEnd
  <2>2. CASE ~ (\/ Jobs!MissRun \/ Jobs!ShouldStop \/ Jobs!UpdateProgress
                \/ Jobs!EndRun \/ Jobs!RecordEnd \/ Jobs!Restart)
    BY <2>2
       DEF Jobs!Next, Jobs!Pause, Jobs!Resume, Jobs!TriggerJob, Jobs!RecordTrigger,
           Jobs!BecomeDue, Jobs!StartRun, Jobs!Work, Jobs!UpdateJobProgress, Jobs!ReadRecord,
           Jobs!WriteRecord, Jobs!FindZombies, Jobs!FailZombie, Jobs!Tick, Jobs!vars
  <2>3. QED
    BY <2>1, <2>2
<1>9. ASSUME NEW i \in Rows', ending'.pc = "write", ending'.record = i
      PROVE  Undecided(i)' /\ records'[i].timestamp >= now' - MatchWindow
  <2>1. i # 0
    <3>1. RecordTypes'
      BY RecordTyped
    <3>2. QED
      BY <3>1 DEF RecordTypes, Rows
  <2>2. CASE Jobs!FindRunning
    <3>1. Jobs!Matching \in SUBSET Rows
      BY DEF Jobs!Matching, Jobs!With, Rows
    <3>2. Jobs!Matching # {} => Jobs!Latest(Jobs!Matching) \in Jobs!Matching
      BY <3>1, LatestIsOne DEF JobTypeInv
    <3>3. ending \in [status : {"success", "failed", "missed"}, record : {0} \cup Rows,
                      pc : {"find", "write"}]
      BY <2>2 DEF Jobs!FindRunning, JobTypeInv, RecordTypes, Jobs!NoEnd
    <3>4. i \in Jobs!Matching
      BY <1>9, <2>1, <2>2, <3>2, <3>3 DEF Jobs!FindRunning
    <3>5. UNCHANGED <<records, now, decided>>
      BY <2>2 DEF Jobs!FindRunning, Jobs!history
    <3>6. QED
      BY <3>4, <3>5 DEF Jobs!Matching, Jobs!With, Undecided
  <2>3. CASE ending' = ending
    <3>1. i \in Rows
      BY <1>2, <1>9, <2>1, <2>3
    <3>2. Undecided(i) /\ records[i].timestamp >= now - MatchWindow /\ i \notin zombies
      BY <1>4, <1>9, <2>3, <3>1 DEF ApartByAge
    <3>3. ending' # Jobs!NoEnd
      BY <1>9 DEF Jobs!NoEnd
    <3>4. QED
      BY <1>3, <1>5, <3>1, <3>2, <3>3
  <2>4. QED
    BY <1>8, <1>9, <2>1, <2>2, <2>3
<1>10. QED
  BY <1>7, <1>9 DEF ApartByAge

\* The end of a run, the zombie check, the next run and a restart do not overwrite a record
\* of a synchronisation in batches that is finished, at any speed of the clock and for any
\* ages that leave a gap (_record_job_execution, _check_zombie_tasks).
THEOREM FinishedIsFinalAlways ==
  BoundsOK /\ Jobs!AgesLeaveAGap => (AnySpec => FinishedIsFinal)
<1> SUFFICES ASSUME BoundsOK, Jobs!AgesLeaveAGap PROVE AnySpec => FinishedIsFinal
  OBVIOUS
<1> DEFINE JobInv == JobTypeInv /\ ApartByAge
           RecordStays == \A i \in DOMAIN records :
             /\ kind = "batches"
             /\ records[i].status \in {"success", "failed", "missed"}
             => \/ records'[i].status \in {records[i].status, "deleted"}
                \/ i \in decided \cup decided'
<1>1. AnyInit => JobInv
  BY JobInitTyped DEF AnyInit, Jobs!Init, ApartByAge, Jobs!NoEnd
<1>2. JobInv /\ [AnyNext]_allVars => JobInv'
  BY JobsRun, JobTyped, RecordTyped, StaysApartByAge DEF JobTypeInv
<1>3. JobInv /\ [AnyNext]_allVars => [RecordStays]_(Jobs!vars)
  <2>1. SUFFICES ASSUME JobInv, [Jobs!Next]_(Jobs!vars), NEW i \in Rows, kind = "batches",
                        records[i].status \in {"success", "failed", "missed"}
                 PROVE  \/ records'[i].status \in {records[i].status, "deleted"}
                        \/ i \in decided \cup decided'
    BY JobsRun DEF Rows
  <2>2. RecordStep(i)
    BY <2>1, EveryRecordStep
  <2>3. i \in zombies \/ (ending.pc = "write" /\ ending.record = i) => i \in decided
    <3>1. i # 0
      BY <2>1 DEF Rows, JobTypeInv, RecordTypes
    <3>2. QED
      BY <2>1, <3>1 DEF ApartByAge, Undecided
  <2>4. QED
    BY <2>2, <2>3 DEF RecordStep
<1>4. QED
  BY <1>1, <1>2, <1>3, PTL DEF AnySpec, FinishedIsFinal, Jobs!FinishedIsFinal

------------------------------------------------------------------------------
(* Types *)

LEMMA PaperTypesFollow == Solvent => Paper!TypeOK
<1> SUFFICES ASSUME Solvent PROVE Paper!TypeOK
  OBVIOUS
<1>1. \A id \in DOMAIN accounts : id \in 1..MaxRequests /\ accounts[id] \in [Currencies -> Int]
  BY DEF Solvent, Accounts, Balances, Money, Ids
<1>2. \A r \in Handlers :
        /\ request[r].kind \in {"none", "view", "buy", "sell", "reset"}
        /\ request[r].market \in Markets \cup {None}
        /\ request[r].cash \in [Currencies -> Int] \cup {None}
        /\ request[r].position \in [id : 1..MaxRequests, code : Codes, quantity : Int] \cup {None}
  BY DEF Solvent, HandlersKnow, Locals, Balances, Money, Position, Ids
<1>3. QED
  BY <1>1, <1>2 DEF Paper!TypeOK, Solvent, Records, Position, Trade, Ids

LEMMA CodeTypesFollow == CodeTypeInv => Code!TypeOK
<1> SUFFICES ASSUME CodeTypeInv PROVE Code!TypeOK
  OBVIOUS
<1>1. answers \in [DOMAIN codes -> Tally]
  BY DEF CodeTypeInv
<1>2. QED
  BY <1>1 DEF CodeTypeInv, CodeRow, Tally, Issued, Serving, Code!At, Code!TypeOK

LEMMA JobTypesFollow == JobTypeInv => Jobs!TypeOK
<1> SUFFICES ASSUME JobTypeInv PROVE Jobs!TypeOK
  OBVIOUS
<1>1. ending \in [status : {"none", "success", "failed", "missed"},
                  record : {0} \cup DOMAIN records, pc : {"none", "find", "write"}]
  BY DEF JobTypeInv, RecordTypes, Rows, Jobs!NoEnd
<1>2. asked \in [op : {"none", "cancel", "fail", "delete"}, record : {0} \cup DOMAIN records]
  BY DEF JobTypeInv, RecordTypes, Rows, Jobs!Nothing
<1>3. records \in Seq(Row) /\ zombies \cup decided \subseteq DOMAIN records
  BY DEF JobTypeInv, RecordTypes, Rows
<1>4. QED
  BY <1>1, <1>2, <1>3, Zenon DEF JobTypeInv, JobTypes, Row, Statuses, Jobs!TypeOK

\* The rows, records and documents of every part, and the locals of its handlers, keep their
\* types in every interleaving.
THEOREM AllTypesOK ==
  PaperParameters /\ Code!TimesAreNatural /\ Parameters /\ BoundsOK => (AnySpec => []AllTypeOK)
<1> SUFFICES ASSUME PaperParameters, Code!TimesAreNatural, Parameters, BoundsOK
             PROVE  AnySpec => []AllTypeOK
  OBVIOUS
<1>1. AnyInit => Solvent /\ CodeTypeInv /\ Loops /\ JobTypeInv
  BY InitSolvent, CodeInitTyped, InitLoops, JobInitTyped DEF AnyInit
<1>2. Solvent /\ [AnyNext]_allVars => Solvent'
  BY StepSolvent, PaperRuns
<1>3. CodeTypeInv /\ [AnyNext]_allVars => CodeTypeInv'
  BY CodesTyped, CodesRun
<1>4. Loops /\ [AnyNext]_allVars => Loops'
  <2>1. [AnyNext]_allVars => [Next]_vars
    BY DEF AnyNext, allVars, vars
  <2>2. QED
    BY <2>1, StepLoops
<1>5. JobTypeInv /\ [AnyNext]_allVars => JobTypeInv'
  BY JobTyped, RecordTyped, JobsRun DEF JobTypeInv
<1>6. Solvent /\ CodeTypeInv /\ Loops /\ JobTypeInv => AllTypeOK
  BY PaperTypesFollow, CodeTypesFollow, JobTypesFollow DEF AllTypeOK, Loops
<1>7. QED
  BY <1>1, <1>2, <1>3, <1>4, <1>5, <1>6, PTL DEF AnySpec
================================================================================
