# DeployApp: TLA+ models, checks and proofs

The repository holds three programs that share a product: a service that sells *channel codes*
(activation keys) and binds them to devices (`nuxtjs/server`, Nuxt over PostgreSQL); a NestJS
port of that service with accounts and roles (`apps/backend`); and the program the keys
unlock, the stock-analysis system `TradingAgents-CN` (FastAPI, Redis, MongoDB, worker processes,
LangGraph agents). They do not call one another; each is modelled by itself.

Contents: 1 inventory, 2 modules and code, 3 runs, 4 fairness, 5 proofs, 6 what disagrees with
the documents, 7 what is not modelled, 8 plan.

## 1. Inventory

| Component | State | Operations | Hard because | Correct when | Model |
|---|---|---|---|---|---|
| Activation service, `nuxtjs/server` | PostgreSQL: `activation_products`, `activation_keys`, `orders`, `activations`, `used_nonces` | upsert/delete product, create/revoke keys, create order, Alipay and WeChat call-backs, `/api/activate` | transactions with row locks and `SKIP LOCKED`, repeated call-backs, rollback, reads that a later statement relies on | a key is sold once, to a charged order, for the product ordered; bound to one device; every nonce good once; a charged order gets a key while there is one | `NuxtMall` |
| Shop of `apps/backend` (`mall.service.ts`) | the same tables through Prisma | the same operations | the same protocol with no transaction and no lock: every statement commits by itself | as above when requests do not overlap; what is left of it when they do | `NestMall` |
| Verification codes (`verification.service.ts`) | `auth_verification_codes` | send, verify | interval, expiry, failure counter and single use are read, then written | a code is used once, guessed a bounded number of times, and only the newest counts | `VerificationCode` |
| Analysis queue and workers (`queue_service.py`, `analysis_worker.py`) | Redis list, sets, hashes, keys with a time to live | enqueue, batch, dequeue, acknowledge, cancel, clean up | one Redis command at a time from several processes; killed workers; time-outs | a task is analysed once, no slot leaks, limits hold, no task is lost | `AnalysisQueue` |
| In-process analyses (`simple_analysis_service.py`, `memory_state_manager.py`, `tracker.py`) | dictionary behind a lock, MongoDB documents, tracker; thread pool | create, execute, report progress, mark, delete, clean up | event loop, pool threads and administrators write three stores; restarts; failed MongoDB calls | the stores agree at rest; an end is final; a completed analysis has its report; every analysis ends | `AnalysisTasks` |
| Paper trading (`paper.py`) | MongoDB accounts, positions, orders, trades | buy, sell, view, reset | read, check, `$set`/`$inc` in separate calls | cash and positions are what the trades add up to; no debt; T+1 | `PaperTrading` |
| Scheduler (`scheduler_service.py`) and Tushare synchronisation | APScheduler job, `scheduler_executions`, cancel flags | pause, resume, trigger, cancel, fail, delete, zombie check, progress | records written by listeners, runs, people and a timer, matched by age | a finished record stays so; a cancelled run stops | `ScheduledJobs` |
| Trading graph (`tradingagents/graph`) and agents | agent state, tool-call and debate counters | nodes and conditional edges | tool loops and debates driven by arbitrary model answers, under a recursion limit | the graph ends, reports precede the debate, every side is heard alike | `TradingGraph` |
| Accounts, roles, menus, blacklists of `apps/backend` | `users`, roles, menus, ... | create, update, delete | several tables, no transaction | references stay valid | - |
| Quote ingestion, basic-data synchronisation | running flag, MongoDB | full/forced sync, ingestion, source rotation | flag cleared by whichever run ends first | one sync at a time; quota respected | - |
| Rate limits (`rate_limit.py`, `rate_limiter.py`) | Redis counters, a deque | check | window renewed by each request | at most N calls per window | - |
| Streams and notifications | WebSocket lists, Redis pub/sub, MongoDB | connect, publish, trim | subscriber and publisher race | no final event is missed | - |
| Data sources, caches, configuration, UIs, scripts | - | - | external data and presentation | - | - |

Interactions inside the modelled parts: in the shops, handlers meet only at the rows of the
database; the payment provider calls back any number of times, in any order. In the queue, HTTP
handlers, work loops and cleanup loops meet only at Redis keys; a work loop and a cleanup loop live
in one process and die together. In the API process, the coroutine of an analysis hands over to a
thread of a pool, the call-backs of the graph write from that thread, and administrators write to the
same entries; all of it ends with the process, except MongoDB and the saved trackers. The scheduler,
its runs and the people who look at them meet at the records of `scheduler_executions`.

## 2. Modules and code

| Module | Models | Role |
|---|---|---|
| `KeyAllocation` | the promise of the shop, no tables or requests | abstract specification |
| `KeyAllocation_proofs` | | its invariants, proved |
| `NuxtMall` | `nuxtjs/server` | detailed specification, implements `KeyAllocation` |
| `NuxtMall_proofs` | | invariants and refinement, proved |
| `NestMall` | `apps/backend/src/mall` | detailed specification; implements `KeyAllocation` only until requests overlap or fail |
| `NestMall_proofs` | | what holds under every overlap and failure, and the refinement without them, proved |
| `VerificationCode` | `apps/backend/src/auth-verification` | detailed specification |
| `AnalysisQueue`, `AnalysisQueue_proofs` | queue and workers of `TradingAgents-CN` | detailed specification; all its safety properties proved, some without kills or cleanup loops |
| `AnalysisTasks`, `AnalysisTasks_proofs` | analyses within its API process | detailed specification; all its safety properties proved |
| `PaperTrading` | paper trading account of one user | detailed specification |
| `ScheduledJobs` | a scheduled synchronisation, its runs and records | detailed specification |
| `TradingGraph`, `TradingGraph_proofs` | the graph of agents | detailed specification; all its invariants proved |
| `MCNuxtMall`, `MCNestMall`, `MCAnalysisQueue` | | instances for TLC: which product a row, or which user a task, belongs to; bounds on the overlap; symmetry |
| `Services` | `PaperTrading`, `VerificationCode`, `TradingGraph`, `ScheduledJobs` | their sum, and the properties of each part as properties of the sum |
| `ServicesCodes_proofs`, `Services_proofs` | | theorems of the verification codes; of the paper account and the jobs |
| `MCServices` | | a small instance of `Services` |

`Services` is a sum, not a product: the four parts share no variable, a behaviour picks one of them
(`part`) and the others stay at their initial state. One run then explores each part by itself, and its
invariants are those of the parts. Theorems are about `AnySpec`; the run checks `MCSpec`, which starts the
parts that do not run in a single state, so every behaviour of the run is one of `AnySpec`. The parts that interact (a shop and its allocation, the queue and its
workers, a job and its records) are each composed within one module.

Operators whose name starts with `Mut` are faulty versions of the definition that follows them
(a dropped guard, a missing write). They are used by no specification here; replacing the definition
by its `Mut` version must make a named property fail, which shows that the property depends on
that line of the code. Operator names follow the source where it has names.

**NuxtMall.** A handler is a process with a record (`notify`, `activation`, `job`) that holds its
program counter and what it has read. A step is a statement at which handlers can meet: a
read that another handler can invalidate, the acquisition of a row lock, a commit. Under READ
COMMITTED nobody sees what a transaction wrote before its COMMIT, so its UPDATEs are part of the
commit step; the rows it has locked are those its record names. Thus
`LockOrder -> PickKey -> CommitDelivery` is `SELECT ... FOR UPDATE`, `FOR UPDATE SKIP LOCKED`,
`COMMIT`; `OutOfStock` is the 409 that rolls back the `paid` of the same transaction as well;
`UseNonce -> LockKey -> CommitActivation | RejectActivation` is `/api/activate`. `ORDER BY
created_at` is abstracted to any assignable key. The test of `allocated_user_id` in
`activate.post.ts:42` never fires, since the SELECT does not return that column, and is left out.
`ReadProduct` starts both two-statement handlers that lock nothing. Lost connections are
`NotifyCrash`, `ActivationCrash` and `JobCrash`: the transaction is rolled back.
`charged` is the provider's knowledge (external), `granted` and `licensed` are history.

**NestMall.** The same tables; each awaited statement is a step and commits at once, so there are
no locks in the model because there are none in the code. `Crash` ends a call-back or an activation
between two statements and keeps what it wrote. The history variable `overlapped` and the counter
`crashes` say whether a request arrived before another was answered and whether one failed half-way:
some properties are claimed only while neither has happened, and the difference is what the missing
transactions cost. The table `used_nonces` of this service is created and never used.

**AnalysisQueue.** A step is one Redis command. All processes share one record `proc[p]` (program
counter, operation, task), because `ack_task`, `_handle_expired_task` and `cancel_task` begin alike:
`UnmarkUser -> UnmarkGlobal -> ClearTimeout`, then `proc[p].op` says how they go on. An HGETALL of
which only the (immutable) user is used is folded into the step before it. `visibility[t]` keeps
`timeout_at` and the second in which Redis drops the key apart: HSET leaves an old time to live alone,
EXPIRE sets it, `DropKey` happens in that second before the clock moves on (`Tick`), as late or as
early within it as the interleaving has it. `Crash(w)` kills a work loop with the cleanup loop of its
process at any command; a Redis error inside `dequeue_task` has the same effect on the task. An
analysis is one step that succeeds or fails; `runs` counts how often a task was handed to a worker.

**VerificationCode.** `sendCode` is three SQL statements (the latest row of the target, the count of the
address, the INSERT), `verifyCode` two (the latest row, then the UPDATE of `used_at` or of `fail_count`);
each is a step, and `caller[c]` holds the row that was read. The hash of the presented code is either right
or wrong. `provider.send` comes after the INSERT and changes only the answer: a message that could not be
sent still leaves a row that supersedes the older ones.

**AnalysisTasks.** `at[t]` says where the coroutine of a task is. The stages that are nothing but a list of
progress updates (`Stage`) go through the list one store at a time: tracker, memory, MongoDB.
`NodeDone -> NodeToMongo -> NodeToMemory` is the call-back of the graph, which only ever raises the
percentage; the pool is a FIFO `queue` before `PoolSize` threads. A MongoDB call either succeeds or is a
*mishap*, whose exception the code logs and forgets; requests of administrators and restarts are mishaps too,
so one bound (`MaxMishaps`) limits their number together. `CleanupRecords` changes nothing because MongoDB
rejects the filter of `simple_analysis_service.py:2219` (`{"$or": [..., {"started_at": ...}]}` nested under a
field). `touched` and `troubled` are history: what somebody else wrote, and what a failed call left out.

**PaperTrading.** A step is one MongoDB call; `request[r]` holds the locals of a handler. The kind of a
request and its place decide the next call, so `PlaceOrder` is
`FindAccount (-> CreateAccount) -> ReadPrice -> ReadPosition -> PayForBuy -> HoldBought -> RecordOrder -> RecordTrade`
or, for a sale, `ReadHolding (-> LookUpDate) -> CheckHolding -> PayForSale -> HoldUnsold -> ...`. The market is a field of
the request and decides the currency and whether the sale looks at what was bought today; a position is of a code only, so
one position can be bought through one market and sold through another. `ReadPosition` takes the timestamp of the order
(`now_iso`), `LookUpDate` the date of the check (`today`), and midnight (`NextDay`) falls before, between or after them, like
any other step. `find_one` and `update_one`
pick any matching document, since two overlapping first requests may both insert an account. `CutShort` loses the
connection between two calls. `disturbed` is history: requests overlapped, or one was cut short; so is the field `checked`
of a trade, the day on which its sale was checked. `SoldWasSettled` says of a sale that names a market of T+1 (and while requests
follow one another) that what was sold of the code up to and with it, through any market, was bought earlier under a date
before the day of that check. It says nothing of a sale that names another market, which the code lets through, and it
speaks of the day of the check, because a sale during which midnight falls is dated the day before.

**ScheduledJobs.** `run` is the run of the job (APScheduler allows one), `ending` the coroutine that records
its end, `asked` a request between its read and its write, `zombies` what the check has found and not yet
failed, `records` the documents in the order of their timestamps. `Kinds` are the two ways in which the Tushare
service reports progress: batches through `_should_stop` and `_update_progress`, items through `update_job_progress`.
`Tick` waits for the end of a recording and of a check: a call to MongoDB takes less than the 25 minutes between
the two ages.

**TradingGraph.** An action is one node of the LangGraph graph together with the conditional edge that follows
it. What a model answers is a record of what the nodes and edges tell apart: a long or short report, a tool
call or none, results of tools or none (`MarketAnswers` ... `FundamentalsAnswers`, one set for each analyst,
and different for Google's models). A report may be empty (`"blank"`) wherever the node passes on the content of the
model's message: any analyst's answer without a call, the social analyst's message that calls a tool, and the news analyst's,
which keeps the content of a message that calls tools (`news_analyst.py:392`), goes on with a clean message and is not
visited again. `ReportsComeFirst` therefore claims that every report is written before the next analyst and the
debates start, in the order of the selection, and not that it says anything. `spoken` counts speeches and stands for the histories of the debate. `Fail` is
any exception of a node, which ends the analysis.

## 3. Runs

| Run | Instance | Shows |
|---|---|---|
| `nuxt_delivery` | 2 orders, 2 keys, 2 call-backs, 1 activation, 1 client, 1 lost connection | `TypeOK`; `KeySoldOnce`, `DeliveredWasPaid`; every step is a step of `KeyAllocation` or changes nothing it sees (`RefinesAllocation`) |
| `nuxt_activation` | 2 products, 1 order, 2 keys, 2 devices, 2 nonces, 2 requests, 2 activations, a call-back and 2 clients, any two at a time | licences match the binding, the `activations` rows too, a nonce is good once, no row outlives its product, the key delivered is of the product ordered, and what was read under a lock is still true at the write (`LocksProtect`) |
| `nuxt_live` | 2 rival orders for 1 key, 2 call-backs, 1 activation, 1 lost connection | every transaction ends; a charged order gets a key or there is none left |
| `nest_callbacks` | 2 orders, 2 keys, 2 call-backs, 1 activation, 2 clients, any two at a time, 1 failure | keys are assigned only to charged orders of their product, a licensed key stays used, no row outlives its product; without overlap a failure wastes at most one key; until requests overlap or fail the handlers implement `KeyAllocation` |
| `nest_two_devices` | 1 key, 2 devices | **violation** of `OneDevicePerKey` |
| `queue_workers` | 2 tasks of one user, 2 workers, 1 submitter, 1 canceller, user limit 1 | analysed once, no slot leaks, no queued task unreachable, sets agree with statuses, every task ends |
| `queue_killed_worker` | 2 tasks, 1 worker with its cleanup loop, 1 kill, batches of up to 2, clock to 2 | limit respected although kills leak slots; no task twice in the list; an answered batch is whole |
| `queue_user_limit` | 2 tasks of one user, 2 workers, limit 1 | **violation** of `UserLimitHolds` |
| `queue_lost_task` | 1 task, 1 worker with its cleanup loop, 1 kill, clock to 3 | **violation** of `ProcessingIsWatched` |
| `services` | see *Bounds*; each part by itself | `TypeOK` of the four parts. Paper account: `BooksBalance`, `SoldWasSettled`, `NoDebt`. Codes: `LimitsHold`, `OnlyTheNewestCounts`. Graph: `NeverGivesUp`, `ReportsComeFirst`, `SidesAreHeardAlike`. Jobs: `FinishedIsFinal` |
| `analyses_end` | 2 analyses, 1 thread, 1 mishap | `StoresAgree`, `AnnouncedIsSaved`, `NothingIsRevived`; every analysis ends unless a restart takes it |
| `cancelled_job` | items, 2 runs, 2 requests of people | **violation** of `CancelledStops` |

*Bounds.* `MaxCrashes` bounds lost connections and kills, `MaxTime`, `MaxClock`, `MaxNow` and `MaxDay` the clocks,
`BatchSize` the symbols of a batch, `MaxMishaps`, `MaxActs`, `MaxRuns`, `MaxRequests`, `MaxCodes` and `MaxRecords` the
events of their kind; everything else is the size of a set. Two processes of each kind and two rows they can
compete for are enough for every race between two handlers, and the handlers of these programs look at
one order, one key or one task at a time; what holds for any number of them is what section 5 proves.
`MCTwoAtOnce` limits two runs to two requests in progress at a time, out of five different ones.
A user limit of 1 with two workers is the smallest instance in which a task is put back, and
a visibility timeout of one second with a clock to 2 the smallest in which a key whose EXPIRE was lost is found
overdue and its task requeued.

* Analyses: two tasks compete for one thread; the single reported level 45 lies between the fixed
  percentages, so that a call-back raises the percentage and a second one is refused. The one mishap is a failed call, a
  restart or a request; the theorems allow any mixture of them.
* Paper: three requests of two handlers, one code of price 2 and commission 1, which requests may trade through a market of
  T+1 and through one of T+0, each with its currency. The initial cash 5 pays for one purchase in a currency and not for a second,
  so that affordability is decided by what was written before. Two days, with midnight at any step, let a purchase settle. The
  constraint `MCOneDayOnceDisturbed` keeps requests that overlap or are cut short to the first day: `NoDebt`, the one
  property of the account claimed of them, reads no dates, and its theorem needs no such bound. This part has most of the run's 1.5 million states.
* Codes: one phone; the interval (1) is shorter than the minute (2), or the limit of the address would never be what
  refuses; the code expires within the clock; one wrong guess locks.
* Graph: all four analysts, and the sequences in which each of them is first and last; four pairs of rounds, which
  include those of the five research depths; both kinds of models. LangGraph's limit in the code is 100; the run uses
  36, the least that these choices need, so that one superfluous step is seen. Theorem `NeverGivesUpAlways` gives 42 for any four
  analysts and three rounds of both debates.
* Jobs: time goes past the matching window (0) and the zombie age (1), with a time between them at which a record is of
  neither; two records, of which the second is made by whoever comes first; one run of each kind, two requests of people.

`CHECK_DEADLOCK FALSE` is set in the runs of the queue, of `services`, `analyses_end` and `cancelled_job`: these systems
really stop when everything is finished or a bound is reached.
Symmetry is used in runs without liveness, on sets whose members the instance treats alike.

`queue_killed_worker` has one worker on purpose: with two the limit is not kept (`queue_user_limit`).

## 4. Fairness

* `NuxtMall.FairSpec`: weak fairness for the steps of a transaction that waits for nobody; strong fairness
  for `LockKey`, because PostgreSQL queues the waiters of a row lock and grants it in turn; strong fairness
  for the successful call-back of a charged order, because both providers repeat a notification until it is
  answered with success. Nothing is assumed of customers, administrators and crashes (which are bounded).
  `Delivered` is claimed only if activations end at last: `SKIP LOCKED` passes over a key that an activation
  has locked and then rejects, so a client that keeps locking the last key could keep a call-back from it
  for ever; the provider's retries alone do not rule that out.
* `AnalysisQueue.FairSpec`: weak fairness for each work loop, which polls for ever and whose analyses end,
  and for a cancellation that was begun. Nobody is obliged to submit or to cancel. It is used without kills.
* `AnalysisTasks.FairSpec`: weak fairness of `Run(t)` for each task: the event loop and the threads of the pool go on,
  and an analysis reaches the end of its graph, whose steps are limited (`NeverGivesUp` and its theorem). The pool
  is first come, first served. Nothing is assumed of administrators and restarts.

## 5. Proofs

All theorems hold for every value of the constants that satisfies the assumptions named here
(shops: `RowsHaveProducts`, each row has a product; `NoneIsNew`, `None` is no row; `CrashBound`).

* `KeyAllocation_proofs!Promised`: the abstract specification keeps `TypeOK` and `Promise` (only paid orders
  hold keys, no order holds two, a void key is on no device). The promise is inductive with its type.
* `NuxtMall_proofs!LocksProtectAlways`: `TypeOK /\ LocksProtect`. None of the safety properties is inductive by
  itself: `CommitDelivery` writes what `LockOrder` and `PickKey` read several steps ago. `LocksProtect` says,
  for each program counter, what the handler still knows (the order is not yet delivered, the key still assignable,
  the key row is the one read, the nonce unused) and that a locked row or an uncommitted nonce has one owner.
  There is one lemma per action (`...Held`).
* `SoundAlways`: `KeySoldOnce`, `DeliveredWasPaid`, `RightProduct`, `LicenceMatchesBinding`, `RowsMatchBinding`,
  `NonceOnce` and `ProductOutlivesRows` are inductive relative to it; `Writers` first shows that only nine actions
  write to the tables, so only these need a lemma (`...Sound`). Each property has a theorem of its own
  (`KeySoldOnceAlways`, `NonceOnceAlways`, ...).
* `Refines`: `Spec => RefinesAllocation`. The initial states map to initial states and, under `Held` and
  `Sound`, every step maps to a step of `KeyAllocation` or to a stutter (`StepRefines`).
* `NestMall_proofs` has two invariants because the service has no transactions. `Kept` is what every interleaving and every
  failure keeps: the rows, and of a handler's stale locals only what nobody can undo (a paid order stays paid, an
  allocated key stays allocated, a bound key stays bound). It gives `SoldWasPaidAlways`, `LicensedIsUsedAlways` and
  `ProductOutlivesRowsAlways` with no assumption on the order of requests. `Alone` holds while `~Disturbed`: one
  call-back or activation runs (`OneAtATime`), and the tables agree but for the statement it has yet to make
  (`SalesAgree`, `BindingsAgree`). It gives `LicenceMatchesBindingAlways` and `Refines`: the step that reads a row
  changes nothing, `AllocateKey` delivers, `BindDevice` binds, and `WriteOrderKey` is a stutter.
* `TradingGraph_proofs`, under `Parameters` (the selections are sequences of different analysts, the rounds are
  positive). `Loops` relates the count of an analyst's tool calls to the node that runs and to the call
  the last message may hold, and says which analysts have written their reports; `Talks` derives the speakers' shares from the
  count and the last speaker of a debate (the count modulo the size of the team); both are inductive. They give
  `TypeOKAlways`, `ReportsComeFirstAlways` and `SidesAreHeardAlikeAlways`. `Paces` bounds `steps` from above by what the
  turn, the tool calls and the speeches can have used; with `LimitSuffices` (the limit covers the sum of the longest
  loops, the debates and the fixed nodes) it gives `NeverGivesUpAlways`.
* `NestMall_proofs` has a third invariant, `InTurn`, for `CrashWastesOneKeyAlways`: while no requests overlap, the keys that
  are allocated to an order and that no order names (`Wasted`), without the one in the hands of the call-back in progress
  (`InHand`), are no more than the crashes (`CrashesCounted`), and the order of that call-back has no key yet (`OrderIsOpen`).
  A crash moves the key in hand to the wasted ones and is itself counted.
* `AnalysisQueue_proofs`. The types and `AnsweredBatchIsWhole` (from `BatchesAreFilled`: the hash of a batch that was answered
  lists the tasks that were pushed) hold with everything that may fail (`TypeCorrect`, `BatchesAreWhole`). So does
  `UsersAreBounded`: no user ever holds more than `UserLimit` plus the number of workers minus one slots, since each worker
  may be between the second check and the mark (`SlotsAreBounded` counts these workers with the slots); one worker
  therefore keeps the limit (`OneWorkerKeepsLimit`). The other promises need a condition that the code does not meet by
  itself, and it is named: `SlotsAreGivenBack` needs `NoKills` (a slot is held by a process that will give it back, `SlotsAreHeld`);
  `QueuedStaysReachable`, `TasksRunOnce` and `OutcomesStayTrue` need `NoCleanup` (every queued task is in the list or in the hands of a process,
  `QueuedIsCarried`; there is one copy of a task, `OneHolder`; each outcome is recorded or about to be, `OneOutcome`), since a cleanup loop takes a task from a slow worker and
  `MarkQueued` may overwrite an outcome that came between it and the push; `OneCopyInList` needs `OneLoop`, a single cleanup loop (`OneCopy`).
* `AnalysisTasks_proofs`, with no assumption: `TypeCorrect` (`TypeInv`: nobody waits twice for the pool, and a stage
  that has begun has its tracker), `AnnouncedWasSaved` (`CompletedIsSaved`: whoever announces has saved the report or
  met a failed call), `NothingRevived` (an action property), `StoresStayTogether` (`CopiesAgree`: what each store
  shows at each place of the coroutine, for the analyses that nobody else touched).
* `ServicesCodes_proofs!LimitsAlwaysHold`, for a finite number of handlers: an allowance is read at one await and spent at
  a later one, so what is invariant is what was spent *plus* the requests that may still spend it: uses of a code
  (`UsesCounted`), wrong guesses (`GuessesCounted`), codes of a target (`SendingCounted`) and of the address within a minute (`AddressCounted`)
  stay within the limit plus one for each handler that overlaps (`Racing`). `Apart` says that two handlers are busy only
  after an overlap, `InOrder` that no row is older than the row before it. `OnlyTheNewestAlwaysCounts` (`Informed`): a verification that succeeds has read the
  newest row that existed when it looked. `SameNumber` is there because the `Cardinality` of an instance is a
  symbol of its own.
* `Services_proofs!NoDebtAlways`, under `PaperParameters` (`MarketsHaveCurrencies`, `AmountsAreNatural`; `NoneIsNoDocument`, `None` is no document of a position). The
  books do not balance when requests overlap, so nothing like them is inductive in every interleaving. What is: no document of an
  account and no copy of its cash in the locals of a handler is negative (`Solvent`, where the least sale pays its commission,
  the condition of `NoDebt`). A purchase writes the difference that
  it found sufficient in its own copy, a sale adds its proceeds to whatever is there, a reset removes.
* `Services_proofs!BooksBalanceAlways` and `SoldWasSettledAlways`, under `PaperParameters`, from `Solvent` and `Accounted`. Both
  properties speak of the states in which no request is in progress, so the invariant has to say what the account is in the middle of an
  order: an order pays, changes its position and records its trade in that order, one await each, so the cash (`CashAhead`) and the holdings
  (`HeldAhead`) are ahead of the trades by the order in progress and by nothing else. `Accounted` also says that there is one
  account and one document of each position, that the cash, position and total an order has read are still the ones in the
  database (`CashIs`, `OrderKnows`), what a reset has removed so far (`AccountIs`, `HoldingsAre`), and that a sale
  let through in a market of T+1 is, together with all that was sold, of no more than was bought before the date it looked up
  (`OrderKnows`; `DaysSplit` relates this to the purchases since that date that the code subtracts). The sums are folds, whose
  induction theorems the provers cannot use; instead `Total` is a fold over any finite set of any values, and
  each of its laws (`TotalAdds`, `TotalOfMore`, `TotalOfBoth`, `TotalOfNaturals`) holds because no smallest set can break it
  (`SomeIsSmallest`, from the well-foundedness of strict inclusion). `SumIsTotal` and its companions say that the folds of the model are totals,
  `TradeSums` what one more trade makes of each.
* `Services_proofs!FinishedIsFinalAlways`, under `BoundsOK` and `AgesLeaveAGap` (the zombie age exceeds the matching window, 30 and 5
  minutes in the code): the end of a run and the zombie check write without looking again, but each has picked
  a record of another age, and neither lets the clock move on before it has written (`ApartByAge`).
* `Services_proofs!AllTypesOK` is the type invariant of all four parts.

Model-checked only: liveness (`Delivered`, `HandlersFinish`, `EveryTaskFinishes`, `EveryAnalysisEnds`), which TLAPS does not
treat. Every other property of a passing run is proved.

## 6. Where the code and what is said of it differ

* `mall.service.ts:702` - two overlapping activations of a key are both answered, for two devices, though
  the controller says that a second device is refused (`nest_two_devices`).
* `queue_service.py:117` - the comment above the second check says it prevents the race; the check and the mark
  are separate commands and the race remains (`queue_user_limit`).
* `queue/helpers.py:54` - the visibility key expires in Redis in the second in which the cleanup loop would
  first act on it; the task of a killed worker stays `processing` and keeps a slot of its user (`queue_lost_task`).
  The cleanup loop does act when the EXPIRE was lost, or came a second after the HSET.
* `scheduler_service.py:1158` - `update_job_progress` raises the exception that is to stop a cancelled run inside its own
  `try`, which catches it; the run works on although the request was answered that it would stop at its next check
  (`cancelled_job`).

Reached by the models, with no run of their own:

* `apps/backend`: a revocation between the read and the write of an activation is overwritten, two call-backs sell one
  key, and out of stock is answered with success. A message that `provider.send` could not deliver leaves a row that
  takes the last good code out of use; log-in and registration use up the code before their later checks.
* Queue: the global limit is not looked at by `dequeue_task`, a kill right after RPOP loses the task, a cancelled task
  that is being analysed ends up completed, a task requeued while its slow worker is alive runs twice, and a batch
  refused half-way leaves its first tasks running. Documents also speak of priorities and of automatic
  retries (`API_ARCHITECTURE_UPGRADE.md:24,27`); the queue has neither, and `max_retries` of the worker is never read.
* Analyses: the cleanup of old analyses never changes MongoDB (`simple_analysis_service.py:2219`, see above), and a running one it
  marks in memory is set to running again by its next update; `mark_task_as_failed` fails a completed analysis too; the
  percentage falls from 20 to 7 when the thread starts although `PROGRESS_TRACKING_SOLUTION.md:270` says it only grows.
* Paper: two purchases at once pay once, two sales at once sell more than there is, a reset during an order leaves a
  position or a trade behind; a sale whose commission exceeds its proceeds is not refused (`paper.py:468`). With one request after
  the other, a share bought today can be sold today by a request that names `HK` or `US`, though the comment of `paper.py:170`
  says that what was bought today cannot be sold, and the proceeds are then in that market's currency; and a sale that
  midnight interrupts after 390 and before 176 sells what was bought on the day it is dated with.
* Graph: the news report is empty when a model that is not Google's answers with nothing but a tool call; the tool
  is not run.
* Jobs: triggering a paused job resumes it for good; a run longer than five minutes leaves two records; a cancellation of a record
  whose run is over stops the next run; `update_job_progress` reopens a finished record.

## 7. Not modelled

See `components` in `PROJECT.json`. In short: accounts, passwords, tokens, signatures and listings of the shops
(computation, or single statements); prompts, the texts of language models and data providers; configuration and other
create-read-update-delete services, by far most lines of the repository; user interfaces, scripts and deployment. The
heartbeat of the worker is written and never read. MongoDB documents of `analysis_service.py`, average costs and profits of
positions, the steps and estimates of the tracker, and the streams that only read it are left out of the modules of
their components.

## 8. Plan

1. An abstract `TaskQueue` (submit, start, finish) that `AnalysisQueue` implements without kills and cleanup loops.
2. `SyncService` and `RateLimit`: running flag with `force`; window with renewed time to live.
3. The MongoDB documents of batches beside the queue (`analysis_service.py`).
