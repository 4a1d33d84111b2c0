----------------------------- MODULE PaperTrading ------------------------------
(***************************************************************************)
(* The paper trading account of one user (TradingAgents-CN,                *)
(* app/routers/paper.py): market orders filled at once against MongoDB     *)
(* documents of the account, the positions, the orders and the trades.     *)
(* Every MongoDB call is awaited by itself and there is no transaction, so *)
(* a step is one call; a request may also be cut short between two calls.  *)
(* Average costs and profits, which no check reads, are left out.          *)
(***************************************************************************)
EXTENDS Integers, FiniteSets, FiniteSetsExt

CONSTANTS Codes, Currencies,
          Markets,        \* that a request may name
          CurrencyOf,     \* the currency of each market
          NextDayMarkets, \* CN, whose rules say T+1
          Prices,         \* prices the quotes may show
          Fee,            \* commission of an order
          InitialCash,
          Requests,       \* request handlers of the server
          MaxRequests, MaxQuantity, MaxDay,   \* bounds
          None

MarketsHaveCurrencies ==
  CurrencyOf \in [Markets -> Currencies] /\ NextDayMarkets \subseteq Markets
AmountsAreNatural ==
  /\ Prices \subseteq Nat \ {0}
  /\ {Fee, InitialCash, MaxRequests, MaxQuantity, MaxDay} \subseteq Nat
NoneIsNoDocument == None \notin [id : 1..MaxRequests, code : Codes, quantity : Int]

VARIABLES
  accounts,    \* paper_accounts: the cash of each document, by the request that inserted it
  positions,   \* paper_positions: [id, code, quantity]
  orders,      \* paper_orders: the requests that were filled
  trades,      \* paper_trades: [id, code, market, side, quantity, price, day], and as history
               \* the day on which what the sale may sell was looked up
  request,     \* the locals of each handler
  started,     \* number of requests so far
  day,         \* today
  disturbed    \* history: two requests overlapped, or one was cut short

vars == <<accounts, positions, orders, trades, request, started, day, disturbed>>

Idle == [pc |-> "idle", kind |-> "none", id |-> 0, code |-> None, market |-> None,
         quantity |-> 0, price |-> 0, cash |-> None, position |-> None, total |-> 0,
         day |-> 0, today |-> 0]

NewAccount == [c \in Currencies |-> InitialCash]

Init == /\ accounts = <<>>
        /\ positions = {}
        /\ orders = {}
        /\ trades = {}
        /\ request = [r \in Requests |-> Idle]
        /\ started = 0
        /\ day = 0
        /\ disturbed = FALSE

At(r, pc) == request[r].pc = pc
GoTo(r, pc) == request' = [request EXCEPT ![r].pc = pc]
Return(r) == request' = [request EXCEPT ![r] = Idle]
Notional(r) == request[r].price * request[r].quantity
Others == <<started, day, disturbed>>

\* find_one: any document that matches, or None.
Found(docs) == IF docs = {} THEN {None} ELSE docs
PositionsOf(code) == {p \in positions : p.code = code}

------------------------------------------------------------------------------
(* A request arrives *)

Start(r, new, pc) ==
  /\ At(r, "idle")
  /\ started < MaxRequests
  /\ started' = started + 1
  /\ request' = [request EXCEPT ![r] = [new EXCEPT !.pc = pc, !.id = started + 1]]
  /\ disturbed' = (disturbed \/ \E other \in Requests \ {r} : ~At(other, "idle"))
  /\ UNCHANGED <<accounts, positions, orders, trades, day>>

ViewAccount(r) == Start(r, [Idle EXCEPT !.kind = "view"], "account")

\* The market is a field of the request, or found from the shape of the code; a position
\* is of a code only.
PlaceOrder(r, side, code, market, quantity) ==
  Start(r, [Idle EXCEPT !.kind = side, !.code = code, !.market = market,
                        !.quantity = quantity], "account")

ResetAccount(r) == Start(r, [Idle EXCEPT !.kind = "reset"], "wipeAccount")

------------------------------------------------------------------------------
(* _get_or_create_account *)

WithAccount(r, cash) ==
  request' = [request EXCEPT ![r] = IF @.kind \in {"view", "reset"} THEN Idle
                                    ELSE [@ EXCEPT !.pc = "price", !.cash = cash]]

FindAccount(r) ==
  /\ At(r, "account")
  /\ IF accounts = <<>> THEN GoTo(r, "create")
     ELSE \E id \in DOMAIN accounts : WithAccount(r, accounts[id])
  /\ UNCHANGED <<accounts, positions, orders, trades, Others>>

CreateAccount(r) ==
  /\ At(r, "create")
  /\ accounts' = [id \in DOMAIN accounts \cup {request[r].id} |->
                    IF id = request[r].id THEN NewAccount ELSE accounts[id]]
  /\ WithAccount(r, NewAccount)
  /\ UNCHANGED <<positions, orders, trades, Others>>

------------------------------------------------------------------------------
(* place_order *)

ReadPrice(r) ==
  /\ At(r, "price")
  /\ \/ Return(r)      \* no quote: 400
     \/ \E price \in Prices :       \* one at or below zero is refused as well
          request' = [request EXCEPT ![r].pc = "position", ![r].price = price]
  /\ UNCHANGED <<accounts, positions, orders, trades, Others>>

ReadPosition(r) ==
  /\ At(r, "position")
  /\ \E position \in Found(PositionsOf(request[r].code)) :
       request' = [request EXCEPT ![r].position = position,
                                  ![r].day = day,       \* now_iso
                                  ![r].pc = IF request[r].kind = "buy" THEN "pay" ELSE "holding"]
  /\ UNCHANGED <<accounts, positions, orders, trades, Others>>

Refuse(r) ==
  /\ Return(r)
  /\ UNCHANGED <<accounts, positions, orders, trades, Others>>

\* Fault: the commission is not counted.
MutFeeUnchecked(r) == request[r].cash[CurrencyOf[request[r].market]] >= Notional(r)

Affordable(r) == request[r].cash[CurrencyOf[request[r].market]] >= Notional(r) + Fee

RefuseBuy(r) == At(r, "pay") /\ request[r].kind = "buy" /\ ~Affordable(r) /\ Refuse(r)

\* update_one changes one matching document, if there is one.
UpdateAccount(currency, cash) ==
  IF accounts = <<>> THEN UNCHANGED accounts
  ELSE \E id \in DOMAIN accounts : accounts' = [accounts EXCEPT ![id][currency] = cash[id]]

\* $set of what is left of the cash that was read.
PayForBuy(r) ==
  LET currency == CurrencyOf[request[r].market]
      left == request[r].cash[currency] - (Notional(r) + Fee) IN
  /\ At(r, "pay")
  /\ request[r].kind = "buy"
  /\ Affordable(r)
  /\ UpdateAccount(currency, [id \in DOMAIN accounts |-> left])
  /\ GoTo(r, "hold")
  /\ UNCHANGED <<positions, orders, trades, Others>>

\* An update by _id, which changes nothing when the document is gone.
ReplacePosition(old, quantity) ==
  positions' = {IF p.id = old.id THEN [p EXCEPT !.quantity = quantity] ELSE p : p \in positions}

\* Fault: a second purchase replaces the first.
MutFirstLotOnly(r) ==
  LET old == request[r].position IN
  /\ At(r, "hold")
  /\ request[r].kind = "buy"
  /\ IF old = None
     THEN positions' = positions \cup {[id |-> request[r].id, code |-> request[r].code,
                                        quantity |-> request[r].quantity]}
     ELSE ReplacePosition(old, request[r].quantity)
  /\ GoTo(r, "order")
  /\ UNCHANGED <<accounts, orders, trades, Others>>

HoldBought(r) ==
  LET old == request[r].position IN
  /\ At(r, "hold")
  /\ request[r].kind = "buy"
  /\ IF old = None
     THEN positions' = positions \cup {[id |-> request[r].id, code |-> request[r].code,
                                        quantity |-> request[r].quantity]}
     ELSE ReplacePosition(old, old.quantity + request[r].quantity)
  /\ GoTo(r, "order")
  /\ UNCHANGED <<accounts, orders, trades, Others>>

\* _get_available_quantity: the position once more; in a market of T+1 the rules and the
\* date, then the purchases from that date on.
ReadHolding(r) ==
  /\ At(r, "holding")
  /\ \E position \in Found(PositionsOf(request[r].code)) :
       request' = [request EXCEPT ![r].total = IF position = None THEN 0 ELSE position.quantity,
                                  ![r].pc = IF /\ position # None
                                               /\ request[r].market \in NextDayMarkets
                                            THEN "rules" ELSE "available"]
  /\ UNCHANGED <<accounts, positions, orders, trades, Others>>

LookUpDate(r) ==
  /\ At(r, "rules")
  /\ request' = [request EXCEPT ![r].today = day, ![r].pc = "available"]
  /\ UNCHANGED <<accounts, positions, orders, trades, Others>>

Sum(ts) == MapThenSumSet(LAMBDA t : t.quantity, ts)
BoughtSince(code, today) ==
  Sum({t \in trades : t.code = code /\ t.side = "buy" /\ t.day >= today})

\* Fault: what was bought today can be sold.
MutSettlesAtOnce(r) == request[r].total

Available(r) ==
  LET settled == request[r].total - BoughtSince(request[r].code, request[r].today) IN
  IF request[r].market \in NextDayMarkets THEN (IF settled > 0 THEN settled ELSE 0)
  ELSE request[r].total

\* A sale without enough, and one whose first look found no position (an exception).
CheckHolding(r) ==
  /\ At(r, "available")
  /\ IF Available(r) < request[r].quantity \/ request[r].position = None
     THEN Return(r)
     ELSE GoTo(r, "pay")
  /\ UNCHANGED <<accounts, positions, orders, trades, Others>>

\* $inc of the cash.
PayForSale(r) ==
  LET currency == CurrencyOf[request[r].market] IN
  /\ At(r, "pay")
  /\ request[r].kind = "sell"
  /\ UpdateAccount(currency, [id \in DOMAIN accounts |->
                                accounts[id][currency] + (Notional(r) - Fee)])
  /\ GoTo(r, "hold")
  /\ UNCHANGED <<positions, orders, trades, Others>>

HoldUnsold(r) ==
  LET old == request[r].position
      left == old.quantity - request[r].quantity IN
  /\ At(r, "hold")
  /\ request[r].kind = "sell"
  /\ IF left = 0 THEN positions' = {p \in positions : p.id # old.id}
     ELSE ReplacePosition(old, left)
  /\ GoTo(r, "order")
  /\ UNCHANGED <<accounts, orders, trades, Others>>

RecordOrder(r) ==
  /\ At(r, "order")
  /\ orders' = orders \cup {request[r].id}
  /\ GoTo(r, "trade")
  /\ UNCHANGED <<accounts, positions, trades, Others>>

RecordTrade(r) ==
  /\ At(r, "trade")
  /\ trades' = trades \cup
       {[id |-> request[r].id, code |-> request[r].code, market |-> request[r].market,
         side |-> request[r].kind, quantity |-> request[r].quantity,
         price |-> request[r].price, day |-> request[r].day, checked |-> request[r].today]}
  /\ Return(r)
  /\ UNCHANGED <<accounts, positions, orders, Others>>

------------------------------------------------------------------------------
(* reset_account: four delete_many, then a new account *)

\* Fault: a reset keeps the positions.
MutPositionsStay(r) ==
  /\ At(r, "wipePositions")
  /\ GoTo(r, "wipeOrders")
  /\ UNCHANGED <<accounts, positions, orders, trades, Others>>

WipeAccount(r) ==
  /\ At(r, "wipeAccount")
  /\ accounts' = <<>>
  /\ GoTo(r, "wipePositions")
  /\ UNCHANGED <<positions, orders, trades, Others>>

WipePositions(r) ==
  /\ At(r, "wipePositions")
  /\ positions' = {}
  /\ GoTo(r, "wipeOrders")
  /\ UNCHANGED <<accounts, orders, trades, Others>>

WipeOrders(r) ==
  /\ At(r, "wipeOrders")
  /\ orders' = {}
  /\ GoTo(r, "wipeTrades")
  /\ UNCHANGED <<accounts, positions, trades, Others>>

WipeTrades(r) ==
  /\ At(r, "wipeTrades")
  /\ trades' = {}
  /\ GoTo(r, "account")
  /\ UNCHANGED <<accounts, positions, orders, Others>>

------------------------------------------------------------------------------
\* The database connection is lost, or the server stops.
CutShort(r) ==
  /\ ~At(r, "idle")
  /\ Return(r)
  /\ disturbed' = TRUE
  /\ UNCHANGED <<accounts, positions, orders, trades, started, day>>

\* Midnight, which does not wait for requests.
NextDay == /\ day < MaxDay
           /\ day' = day + 1
           /\ UNCHANGED <<accounts, positions, orders, trades, request, started, disturbed>>

Account(r) == FindAccount(r) \/ CreateAccount(r)
Buy(r) == RefuseBuy(r) \/ PayForBuy(r) \/ HoldBought(r)
Sell(r) == ReadHolding(r) \/ LookUpDate(r) \/ CheckHolding(r) \/ PayForSale(r) \/ HoldUnsold(r)
Record(r) == RecordOrder(r) \/ RecordTrade(r)
Reset(r) == WipeAccount(r) \/ WipePositions(r) \/ WipeOrders(r) \/ WipeTrades(r)

Next ==
  \/ \E r \in Requests :
       \/ ViewAccount(r) \/ ResetAccount(r)
       \/ \E side \in {"buy", "sell"}, code \in Codes, market \in Markets,
             quantity \in 1..MaxQuantity : PlaceOrder(r, side, code, market, quantity)
       \/ Account(r) \/ ReadPrice(r) \/ ReadPosition(r) \/ Buy(r) \/ Sell(r) \/ Record(r)
       \/ Reset(r) \/ CutShort(r)
  \/ NextDay

Spec == Init /\ [][Next]_vars

------------------------------------------------------------------------------
(* Properties *)

SalesPayTheirFee == \A price \in Prices : Fee <= price
Settled == \A r \in Requests : At(r, "idle")
TradesOf(code, side) == {t \in trades : t.code = code /\ t.side = side}

\* Types of the collections and of the locals of the handlers.
TypeOK ==
  /\ \A id \in DOMAIN accounts : id \in 1..MaxRequests /\ accounts[id] \in [Currencies -> Int]
  /\ positions \subseteq [id : 1..MaxRequests, code : Codes, quantity : Int]
  /\ orders \subseteq 1..MaxRequests
  /\ trades \subseteq [id : 1..MaxRequests, code : Codes, market : Markets,
                       side : {"buy", "sell"}, quantity : Nat, price : Nat,
                       day : Nat, checked : Nat]
  /\ started \in 0..MaxRequests
  /\ day \in Nat
  /\ disturbed \in BOOLEAN
  /\ \A r \in Requests :
       /\ request[r].kind \in {"none", "view", "buy", "sell", "reset"}
       /\ request[r].market \in Markets \cup {None}
       /\ request[r].cash \in [Currencies -> Int] \cup {None}
       /\ request[r].position \in [id : 1..MaxRequests, code : Codes, quantity : Int] \cup {None}

\* While the user's requests follow one another, the cash of each currency is what the
\* trades left of the initial cash, through sales, purchases, refusals and resets.
CashMatchesTrades ==
  ~disturbed /\ Settled => \A id \in DOMAIN accounts, currency \in Currencies :
    LET of(side) == {t \in trades : t.side = side /\ CurrencyOf[t.market] = currency}
        earned == MapThenSumSet(LAMBDA t : t.quantity * t.price - Fee, of("sell"))
        spent == MapThenSumSet(LAMBDA t : t.quantity * t.price + Fee, of("buy"))
    IN accounts[id][currency] = InitialCash + earned - spent

\* While the user's requests follow one another, a code has one position, which holds what
\* was bought and not yet sold, and none when that is nothing.
PositionMatchesTrades ==
  ~disturbed /\ Settled => \A code \in Codes :
    LET held == Sum(TradesOf(code, "buy")) - Sum(TradesOf(code, "sell")) IN
    /\ held >= 0
    /\ {p.quantity : p \in PositionsOf(code)} = IF held = 0 THEN {} ELSE {held}
    /\ Cardinality(PositionsOf(code)) <= 1

\* Even when requests overlap or are cut short, the cash that a purchase writes was read
\* and found sufficient, so no balance is ever below zero where the least sale pays its own
\* commission (the code checks nothing of a sale that does not).
NoDebt == SalesPayTheirFee =>
  \A id \in DOMAIN accounts, currency \in Currencies : accounts[id][currency] >= 0

\* Cash and holdings are what the trades make them.
BooksBalance == CashMatchesTrades /\ PositionMatchesTrades

\* While the user's requests follow one another, a sale whose request names a market of T+1
\* leaves what was bought from the day of its check on: all that was sold of the code up to
\* and with it, in any market, was bought under an earlier date.  Nothing is claimed of a
\* sale that names another market, which the code does not check (paper.py:171), although
\* the position is the same; and the day is that of the check, not the one the sale is
\* dated with, which is the day before when midnight falls between the two.
SoldWasSettled ==
  ~disturbed => \A t \in trades : t.side = "sell" /\ t.market \in NextDayMarkets =>
    Sum({s \in TradesOf(t.code, "sell") : s.id <= t.id})
      <= Sum({b \in TradesOf(t.code, "buy") : b.id < t.id /\ b.day < t.checked})

================================================================================
