# Maschina, specified

Maschina lets an owner give a *machine* a wallet, a recipe and a budget, and have it trade on Solana
unattended. The value of the system is what it refuses to do: trade twice for one occasion, spend more
than was granted, move money nobody has a record of, say that something happened which did not. These
modules specify the part of the code that has to keep those promises while nodes die, leases lapse, calls
throw and the chain forks. TLC checks them on small instances; TLAPS proves all that need no fairness for
every value of the constants.

Paths below are relative to the repository. `PROJECT.json` maps each definition to the lines it models.

## 1. The system

Events in an append-only **record** (Postgres) are the state of everything: a machine's budget, its state
and its limits are folds over its events. Around the record there are processes:

    price watcher --queueRun--> runs table <--claim/renew/report-- daemon (work loop, machine runner)
    (orchestrator)                                                     | propose
                                                                       v
                                        orchestrator: propose route, lease check
                                                                       | signer client
                                                                       v
               signer:  whileHalted -> withRules -> withBudget -> chainSigner -> submitOnce
                           |             |            |              |            |
                         halts        record        record         wallet      chain, record

### 1.1 Components, their state and their operations

| Component (source) | State it keeps | Operations that change it | Correct when |
|---|---|---|---|
| Run queue and leases (`packages/db/src/runs.ts`, orchestrator claim, renew and report routes) | one row per (machine, occurrence): state, holder, epoch, expiry | `queueRun`, `claimDueRun`, `renewLease`, `reportRun` | an epoch belongs to one node; a run is closed once, with its outcome; a node that lost its lease is not heard |
| Daemon work loop (`services/daemon/src/work-loop.ts`) | the run in hand, whether it is lost | claim, started, renewal beat, final report, giving up | a live node finishes what it claims; two never work on one run |
| Record and fence (`packages/db/src/record.ts`, `read-events.ts`) | the events | `appendEvent` (fenced by epoch and expiry), `appendOwnerEvent`, `appendChainOutcome` | only the holder of the current lease speaks for a run; the fold sees events in the order they were decided |
| Machine runner (`services/daemon/src/machine-runner.ts`) | none of its own | one proposal per lease of a run, and its outcome | one occasion buys once |
| Propose route and signer client (`services/orchestrator/src/propose-route.ts`, `signer-client.ts`) | none | lease check, forward, time out | a node that lost its run cannot trade |
| Signer layers (`services/signer/src/while-halted.ts`, `with-rules.ts`, `with-budget.ts`, `compose.ts`) | none; everything is in the record | refuse, pause the machine, hold, give back | nothing is signed that the halt, the rules or the budget forbid; whatever throws, money in doubt stays held and money not in doubt comes back |
| Chain signer and submit-once (`chain-signer.ts`, `submit-once.ts`) | none | sign, write down, send, ask, settle or release | one transaction per trade, never one the record does not know |
| Trade ledger and budget (`packages/db/src/ledger.ts`, `signer-record.ts`, `packages/runtime/src/machine-budget.ts`, `packages/rules/src/budget.ts`) | trade events; `trade_submissions` | `reserveForTrade`, `recordSubmission`, `settleTrade`, `releaseTrade` under the machine's row lock | held and spent money never exceed the grant |
| Confirmation reader (`packages/solana/src/confirm.ts`, `rpc.ts`) | the question it is at | none, it reads | "landed" and "expired" are final |
| Halts (`packages/db/src/halts.ts`) | halts in force | `engageHalt`, `releaseHalt`, `stopEveryMachine` | what arrives during a halt is not signed |
| Lifecycle (`packages/db/src/owner-machines.ts`, `packages/runtime/src/lifecycle.ts`, `machine-state.ts`) | draft, ready, running, paused, stopped, by fold | fund, start, pause, resume, stop; the rules' pause; the operators' stop | an owner is told what the record says; stopped is final |
| Sweeps (`services/signer/src/sweep.ts`, `services/orchestrator/src/bank-profit.ts`, `packages/db/src/sweeps.ts`) | sweep events, submissions | `sweepOnce`, `sweepProfit` | the same profit is never banked twice; never capital |
| Withdrawals (`services/signer/src/withdraw-everything.ts`, `withdraw.ts`, `packages/db/src/withdrawals.ts`) | withdrawal events, submissions | `withdrawEverything` | what is said of a transfer is what the chain did |
| Price watcher (`services/orchestrator/src/price-watcher.ts`, `packages/runtime/src/price-trigger.ts`, `kinds/following-range.ts`) | in memory: what each level has seen; in the record: where the band stands | `watchPrices`, `observePrice`, `recordRecentre` | no run and no move for a crossing that did not happen; one position; rest after a loss |
| Paper trading (`services/orchestrator/src/paper-signer.ts`) | trade events without a chain | price, hold, record | never signs; obeys the budget |
| Machine creation (`services/provisioner/src/create-machine.ts`) | wallets at the provider, the machine's row | `createMachine` | no machine without a wallet with its policy |
| Sign-in (`packages/db/src/sign-in.ts`, `owners.ts`, `people.ts`, gateway `session.ts`) | nonces, sessions, owners and their wallets | `issueNonce`, `spendNonce`, `createOwner`, `startSession`, `endSession`, `linkWallet` | a nonce is answered once; a wallet has one owner |
| Alerts (`packages/db/src/alerts.ts`, `services/bots/src/alerts.ts`) | delivered marks, `since` in memory | `pendingAlerts`, `tellOnce`, `markDelivered` | told in order; told twice only when the mark was lost |
| AI trader (`services/gateway/src/trader-runner.ts`, `packages/db/src/trader-runs.ts`, `packages/manager/src/trader/*`) | runs as JSON; in memory: who is busy, who was ended | begin, end, tick, save | the book adds up; no tick is lost to another; an ended run stays ended; one run at a time |
| Retuning (`packages/db/src/retune.ts`) | the machine's definition | `retuneMachine` | only while paused |
| Gateway, apps, SDK, contracts | caches | requests | plumbing over the above |

### 1.2 What makes it hard

* **Leases.** A node that is only slow is indistinguishable from a dead one. Two clocks decide whether a
  lease is over (the orchestrator's in the statements of `runs.ts`, the database's in `appendEvent`), and
  `renewLease` asks neither: a lapsed lease that nobody took revives.
* **Awaits.** A proposal crosses about ten awaits between the orchestrator's lease check and the chain. The
  halt, the rules and the daily cap are read at the front; the run, the budget and the signature are read
  again, under a lock, at the back. Any of them can change in between, and any await can throw.
* **Money in doubt.** After a signature exists, "it did not happen" can be said only by the chain.
* **The chain.** It grows and forks between two questions about the same transaction, and a fork can undo
  what a node answered a moment ago.
* **Two orders.** An event is visible when its transaction commits and is replayed by when that transaction
  began. A transaction that waited for the machine's row is decided late and replayed early.
* **Loops.** Three loops (the traders', the bots', the watcher's) read, wait, and act on what they read. What
  they keep in memory is gone with a restart; what they read may be old when it is used.
* **Balances.** A sweep or a withdrawal is worked out from a balance read off the chain, with no lock against
  the trades and transfers of the meantime.
* **Crashes.** The signer keeps nothing in memory that matters, but nothing picks its work up either.

## 2. The modules

| Module | Models | Role |
|---|---|---|
| `Leases` | the `runs` table, the fence and the daemons | component; also the base `TradePath` extends |
| `TradePath` | a trade from the node to the chain, over `Leases` | composition; the core |
| `Escrow` | what the trade path promises about money, with nothing about how | abstract specification |
| `Confirm` | `confirmSignature` against a moving chain | component |
| `Record` | the order in which a record is replayed | shared by the two below |
| `Ledger` | the budget with its amounts, over a record with two orders | component |
| `Lifecycle` | what a machine is doing, over the same record, and who may change it | component |
| `SignIn` | nonces, sessions, owners and their wallets | component |
| `Funds` | sweeps and withdrawals against trades and the chain | component |
| `Watcher` | the price watcher, a following machine, its runs and its owner | component |
| `Trader` | the paper AI traders of one owner | component |
| `Alerts` | the bots' loop | component |
| `MCDatabase` | `Leases`, `Ledger`, `Lifecycle` and `SignIn` side by side | model checking |
| `MCLoops` | `Trader`, `Alerts` and `Watcher` side by side | model checking |
| `MCLeases`, `MCTradePath`, `MCFunds` | symmetry sets | model checking |
| `Leases_proofs`, `TradePath_proofs`, `Escrow_proofs`, `Confirm_proofs`, `Funds_proofs` | | theorems about the one module |
| `Database_proofs`, `Loops_proofs` | | theorems about the modules of `MCDatabase` (but `Leases`) and of `MCLoops` |
| `Folding_proofs` | | lemmas the last two share: sums over finite sets, folds over sequences |

`MCDatabase` and `MCLoops` check components that share nothing in one run: a variable says which of them
moves in a behaviour, and the others keep their initial state, so each behaviour is one of a component by
itself. No interleaving is lost, because no component there reads what another writes. Sets of different
components share model values, so that one small group of permutations is a symmetry of all of them.

### 2.1 `Leases`

`run[r]` is the row of an occurrence, with `left` for how long the database thinks the lease lasts.
Relative time keeps the state space small and says the same as timestamps, because the statements only
compare an expiry with a clock. Every statement but `appendEvent` is given the orchestrator's clock; the
difference is an offset `d` chosen anew at every call within `MaxSkew`. `node[n]` is what a daemon
believes. `reports` is the run events of the record, each with the lease it was written under, and
`granted` is a history of every lease given (no code keeps it; only properties read it).

One action per statement: `QueueRun`, `ClaimDueRun`, `RenewLease`, `ReportStarted`, `ReportEnd`.
A report is one transaction that locks the row, checks the holder and the orchestrator's clock (`Holds`),
appends through the fence with the database's clock (`Fenced`) and closes the row; the action is all of
it or, when a check fails, none. `ClaimAnswerLost` is a claim whose answer never reaches the node,
`Forget` a daemon that crashed and restarted or whose loop gave up on the run; both count as faults.
Due times are taken as past: the watcher queues runs for now. `Tick` is time.

### 2.2 `TradePath`

`req[q]` is a proposal at the signer, `pc` the await it is at:

    halt -> rules -> afford -> hold -> submit -> sign -> record -> send -> confirm -> settle | release
      \______\________\__ pause, refuse      \_______\________ refuseHeld -> giveBack
                                        any throw from submit on: broken -> undo | error

| pc, action | code |
|---|---|
| `Propose` | `machine-runner.ts` proposes once per lease of a run, with a fresh trade id; `propose-route.ts` asks `holdsRun` |
| `halt`, `CheckHalt` | `while-halted.ts` |
| `rules`, `JudgeFacts` and `afford`, `JudgeBudget` | `with-rules.ts` over `signer-record.ts factsFor`, which reads the events and then, in a second statement, the budget; two steps because the record moves in between |
| `pause`, `refuse` | the rules' own pause of the machine; `recordRefusal` |
| `hold`, `Hold` | `with-budget.ts` through `reserveForTrade` under the machine's lock |
| `submit` ... `send` | `chain-signer.ts` and `submit-once.ts`; the signature is recorded under the lock and before sending |
| `confirm` | `confirmSignature`, with the answers module `Confirm` justifies |
| `settle`, `release` | `settleTrade`, `releaseTrade`, which are filed under no lease |
| `broken`, `undo`, `giveBack` | the catch in `with-budget.ts`: with a signature in the record the money stays held, without one it is given back |

`Throw` can happen at every pc. `SignerCrash` drops every request at once and nothing resumes them, as in
the code. `Redeliver` brings the same proposal again: no service does, but `submitOnce` and
`recordSubmission` are written for it.

`facts`, `signature`, `open` and `paid` are the record: the trade events, `trade_submissions`, and the
budget `machineBudget` folds from the events (a trade that holds budget, a trade that was paid for). `tx`
is what the chain knows, by attempt.

Abstractions, and why they are sound for the properties here:
* All runs belong to one machine. Machines share nothing on this path but halts.
* Each trade is a buy of one unit of budget. Amounts matter only in comparisons with what is left.
* Each database transaction is one step: each takes the machine's row lock or is one statement. `now()`
  inside a transaction is its start, so the fence may judge an expiry a little earlier than it commits;
  the runs that lapse between two steps include every order the fence distinguishes.
* Rules other than state, daily cap and budget are one nondeterministic refusal, with or without a pause.
* The record is folded in writing order. The code folds by `occurred_at`: `Ledger` and `Lifecycle` are about that.
* `Confirm` takes "failed" as final. Section 6 says when the code does not have that.
* Whether a node may still act on its run is over-approximated: it may propose as long as it believes it holds it.

### 2.3 `Escrow` and the refinement

`Escrow` has one stage per trade (none, held, out, paid, freed) and one fate per trade on the chain. It
promises that money is set aside before anything can be sent, at most `Capacity` at a time, and that it
comes back only while nothing can have been sent or once what was sent is dead. `TradePath` instantiates
it as `Purse`: a trade's stage is read **from the recorded events alone** (`StageOf`), not from `open` and
`paid`, and its fate from `tx`. `KeepsEscrow == Purse!EscrowSpec` says every step of the composition is an
escrow step or a stutter.

### 2.4 `Confirm`

The chain is external: a tip that grows and may fork down to the confirmed height, confirmed and
finalized heights that only grow, and one transaction that can enter a block no higher than `RealLast`.
The caller asks the questions of `confirmSignature` in its order, one per step: the recent status, the
block height (`rpc.ts` names no commitment, so the answer is the confirmed height or the finalized one, as the
client and the node have it, at every asking anew), the history, whether the blockhash is still good (at
confirmed), again after a sleep; `TimeOut` ends it with "unknown".
`blockhash` is chosen at the start: trades carry it, resumed sweeps and withdrawals do not. `didItLand`,
which no service calls, is left out.

### 2.5 `Ledger` and `Lifecycle`

Both are one machine's record, as a sequence in the order of commits, each event with the moment its
transaction began; `ReadEvents` puts each event in the place that the number of events before it
(`ReadBefore`) gives it, which is `order by occurred_at, id`. A transaction begins (`Begin`, `BeginAct`), takes the machine's
row and reads everything committed by then (`LockMachine`, `TakeRow`), and writes and ends in one step.
What the signer writes of the chain (`SettleTrade`, `ReleaseTrade`) and the rules' pause take no row.

`Ledger`: `Apply` is one turn of `machineBudget` and its arms are the functions of `rules/src/budget.ts`:
a grant is never below what is committed, a hold that does not fit holds nothing, a cost above the hold
settles the hold, what a sale brings home makes room up to the grant. Buys hold the amount and a fee
allowance; what sending costs may exceed it (`Fees`). Nothing in `reserveForTrade` or its caller asks whether
a trade was accepted before, so `ReserveForTrade` may be asked for the same trade again, in the same words:
the replay passes over a second intent while the first holds, and one that comes after the trade's end holds
anew. A trade ends once, by the one signature it has.

`Lifecycle`: `Allowed` and `Moved` are the strict table of `lifecycle.ts`, by which a change is accepted
and answered; `Follow` is the forgiving fold of `machine-state.ts`. `PauseMachine` asks nothing. The
operators' stop selects from a snapshot (`FindRunning`) before it waits for rows.

### 2.6 `SignIn`

A request (`asked[r]`) is `verify` or `linkWallet`, one statement per step, with the time it took when it
arrived. `Spendable` is the condition of the update that spends a nonce, `Linkable` that of the one that
sets a wallet; `CreateOwner` is the insert and, on conflict, the select after it, which is one step because
wallets are never taken away. `Abandon` is a request that goes no further. The message is taken as signed.

### 2.7 `Funds`

Three accounts and the bought tokens of one machine. `banker` is `bankProfit`'s pass for it: `Candidate`
picks it and its open sweep, `Ask` reaches the signer, `Rest` ends the pass. `handler[h]` is a request in
the signer: a sweep is `measured` (balance read), decided from the record (`Decide`: `floatOf`, `sweepDue`),
built, signed and in the record (`Submit`), sent, asked about (`Answer`). A withdrawal empties the vault, then
the trading account, then sends the SOL home, each read when its turn comes; `WithdrawFunds` sends SOL alone. Trades land and are written down at any time in between.
`Answer` takes the chain's answer as the truth; how it is read is `Confirm`'s subject. A sweep's transaction
that asks for more than there is fails; a withdrawal's closes the account, which works only if it is empty.

### 2.8 `Watcher`

One machine of the following kind. `look` is a pass of `watchPrices`: what the record said when it began
(`ReadMachine`), then a price, then a level that fires. `ObservePrice` is `observePrice`: armed on the far
side, clear by a margin, not twice too soon. `Fire` queues a run or moves the band, and its answer may be
lost, or another machine's firing in the same pass fail after it, and with it goes everything the look had seen. Runs decide
from the record when a node gets to them, and buy, sell or fail any time later; a run whose lease lapses after it
decided is taken over and decides again, with the first trade still on its way (`TakeOver`). Prices are small numbers and distances are amounts, not percentages.
`crossed`, `unearned`, `overlapped` and `rushed` are histories.

### 2.9 `Trader`

`rows` is `trader_runs`; `round` is what the loop read; `ticks` are the ticks under way, each with the state
it was handed. A tick prices, sells what its exits say, may pause the trader, thinks (any sequence of tool
calls) and is saved whole. `BeginRun`/`MakeRow`/`FirstTick` and `ReadToEnd`/`MarkEnded`/`SaveStopped` are
`begin` and `end`, cut where they wait. `RestartGateway` forgets everything but the rows.

### 2.10 `Alerts`

Events begin, and commit or not, in any order. `Look` is the query with its window, oldest first, and the
owner's own pauses left out after the window is cut; `SendAlert`, `CouldNotSend`, `MarkTold` and `CouldNotMark`
are the outcomes of sending and marking, the lost answers included.

## 3. What the runs check

| Run | Bounds | Question and answer |
|---|---|---|
| `database`: leases | 2 nodes, 2 runs, lease 2, skew 1, 2 epochs per run, 1 fault | `OneHolderPerEpoch`, `ClosedWithItsOutcome`, `OnlyTheHolderReports` with arbitrarily late nodes |
| `database`: ledger | 2 open transactions, 3 trades, amounts 1 and 3, grants 2 and 4, fee allowance 1, fees 0 and 2, 5 moments | `BudgetIsWhole` in whatever order; `AcceptedIsHeld` and `DeployedWithinGrant` while the two orders agree |
| `database`: lifecycle | 2 open transactions, 5 moments | `ToldAsItIs`, `StoppedIsFinal` |
| `database`: sign-in | 2 wallets, 2 nonces, 2 owners, 3 requests, time 2 | `NonceAnsweredOnce`, `SignedInAsItself` |
| `leases_timely` | 2 nodes, 2 runs, lease 3, skew 1, 3 epochs, 2 faults | with nodes that keep their beat: `OneWorkerPerRun`, and `EveryRunCloses` |
| `trade_path` | 2 nodes, 1 run, 2 epochs, 2 trades, grant for 1, 1 fault | `SentOnceAndRecorded`, `RecordTellsTheTruth`, `SpendsAreCovered`, `NeverOverGrant`, `KeepsEscrow` with the run taken over between any two steps |
| `trade_path_live` | 1 node, 1 trade delivered twice, grant for 2 | `SentOnceAndRecorded` with both deliveries in the signer at once; `EveryProposalAnswered`, `HaltStopsWhatArrives` |
| `confirm` | height 5, expiry 2, 2 forks, with and without the blockhash | `ExpiredNeverLands`, `LandedStays`, `TheChainAnswers` |
| `funds` | 1 buy, 1 sale, 2 sweeps, 1 withdrawal, 2 requests at once, 1 fault | `BankedOnceWhileUp`, `TransfersAreTrue` |
| `funds_live` | 1 buy, 2 sweeps, 2 requests, 1 fault | `SweepsAreFinished` |
| `loops`: trader | 2 runs, 2 requests, 1 token, 2 fills, 1 restart | `BookAddsUp`, `SavedTicksAreKept`, `EndedStaysEnded` |
| `loops`: alerts | 3 events, window 2, 2 sends of each | `ToldTwiceOnlyUnmarked`, `ToldInOrder` |
| `loops`: watcher | 3 prices, 2 recipes, 3 runs, those taken over included | `FiresOnCrossings`, `OnePosition`, `RestsAfterTheFloor` |
| `one_buy`, `bank_twice`, `sol_denied`, `one_run` | as small as shows it | statements of the repository the code does not keep (section 6) |

Why the bounds are enough for what is asked:
* Two nodes and two epochs are a take-over: an old holder and a new one. A third epoch
  (`leases_timely`) adds a take-over of a take-over, and a fault for each.
* Skew 1 with lease 2 lets each clock call over what the other calls alive, at a claim and at a report. With
  lease 3, `leases_timely` is at the edge of what its theorem assumes (`SkewWithinLease`).
* Two trades against a grant for one is the smallest contention for budget. The two can be under one
  lease, or under successive ones of two nodes, the first proposal still in flight.
* One fault is a crash of the signer, of the node, or a lost claim, at any step. A crash after a crash
  finds the same record.
* Two deliveries are what it takes for both to find no signature, with a grant for two so that the second is
  not stopped by what the first holds.
* Three trades, two of them open in transactions at once, against a grant that one fills: contention, a
  release or a sale that makes room, and a third that uses it. Fees above the allowance and a lowered grant
  are in it. Five moments begin a grant, three trades and an ending, or a start, two changes, a rules' pause
  and a stop, in any order of commit.
* Two nonces and two wallets let requests name the wrong one; three requests are a race and a late third.
* Two sweeps are a sweep and its repetition; two requests in the signer let them meet each other or the withdrawal.
* One token and two fills are a buy and a sale in either of two ticks; two requests are two begins, or a
  begin and an end, around them.
* Three events against a window of two is a window that is full, with an event left to commit late.
* Three prices put a level at, below and above the price; three runs are two buys that overlap and a sale;
  a taken-over run counts as one more.
* Five heights pass the expiry, confirm past it and finalize past it, with two forks in between.

Deadlock checking is off where all runs may be done (`Leases`), the caller has its answer and the chain has
reached its bound (`Confirm`), or a bound on trades, moments, requests, events or runs is used up (the
others). It is on in `TradePath`, where owners or halts can always move.

Every property of these runs has a mutant in `PROJECT.json`: a variant of one definition, in the same
module, marked "Variant" there, with which TLC finds the property violated.

## 4. Fairness

* `TimelySpec`: weak fairness of time and of each node's steps (claim, report, renew) is a daemon whose loop runs.
  `BeatInTime` lets time pass only while no working node's lease is about to end: the beat of
  `work-loop.ts` renews several times per lease. It constrains live nodes only; a node that forgot its run
  lets the lease lapse. `EveryRunCloses` would be false without it, and `Spec`, which does not assume it,
  is what every safety property is checked under.
* `LiveSignerSpec`: weak fairness of each request's next step, and of the chain deciding. A request is a
  promise chain with timeouts on its calls; a call that never answers ends as `Throw`. Nothing is assumed
  of nodes, owners, operators or time.
* `TimelyFunds`: each request in the signer goes on, the loop's pass comes round, and a transaction that was
  sent lands or expires. `Candidate` is strongly fair: the query skips a machine that is leased when it looks,
  and a machine cannot be leased at every look, because runs are short and leases end (`Lease /\ leased`).
  Nothing is assumed of owners, trades or calls that are lost.
* `ConfirmFair`: the chain grows and settles, and the caller asks again. `TimeOut` is not forced, so
  `TheChainAnswers` says that the chain alone would end the wait.

## 5. What is proved

For every value of the constants allowed by the named assumptions (`LeasesAssumption`,
`TradePathAssumption`, `EscrowAssumption`, `ConfirmAssumption`, `SignInAssumption`, `FundsAssumption`,
`WatcherAssumption`, `TraderAssumption`, `AlertsAssumption`, `LedgerAssumption`, `LifecycleAssumption`):

| Theorem | Statement | Argument |
|---|---|---|
| `TypeCorrect`, `EpochsAreExclusive`, `OutcomesAreExact`, `OnlyTheHolderIsHeard` (`Leases_proofs`) | the four properties of `Leases` in run `database` | `IInv` |
| `OneNodeAtWork` | `OneWorkerPerRun` under `TimelySpec`, if `SkewWithinLease` | `TimelyInv` |
| `TradeTypeCorrect` (`TradePath_proofs`) | types of the composition | one lemma per group of actions; the queue's part reuses `NextTypeOK` |
| `SentAtMostOnce` | `SentOnceAndRecorded`, for any number of deliveries | `SInv` |
| `HaltsStopWhatArrives` | `HaltStopsWhatArrives`, for any number of deliveries and without fairness | while the halt stays, no step leaves `Stopping` |
| `SpendsCovered`, `RecordIsTrue` (`TradePath_proofs`) | `SpendsAreCovered` and `RecordTellsTheTruth`, with one delivery per proposal | `MInv` |
| `TradePathKeepsEscrow` | `TradePath` implements `Escrow` (`KeepsEscrow`), with one delivery | under `MInv`, every step maps to an escrow step or a stutter |
| `GrantIsKept` | `NeverOverGrant`, with one delivery | from the step mapping, and that only `SetAside` commits |
| `GrantIsNeverExceeded`, `NoSpendIsUnknown` (`Escrow_proofs`) | the grant bounds what is committed, and what can land is committed | `PInv` |
| `ExpiryIsFinal`, `LandingIsFinal` (`Confirm_proofs`) | under `Honest` (the claimed expiry is not below the real one) | `CInv` |
| `ConfirmTypeCorrect` | `ConfirmTypeOK` | inductive by itself |
| `BudgetStaysWhole` (`Database_proofs`) | `BudgetIsWhole`, in whatever order the events are read | every event makes a whole budget of a whole one (`ApplyIsWhole`), hence every replay does (`ReplayIsWhole`) |
| `AcceptedTradesAreHeld`, `GrantIsALimit` | `AcceptedIsHeld` and `DeployedWithinGrant` | `LedgerInv`, and `HoldsChangePlaces` |
| `StoppedForGood`, `OwnersAreToldTheRecord` | `StoppedIsFinal`, `ToldAsItIs` | `LifeInv`, `StoppedOnce` and `WrittenLast` |
| `DatabaseTypeCorrect` | `DatabaseTypeOK` | the three invariants, whichever table moves |
| `NoncesAreSpentOnce`, `WalletsHaveOneOwner`, `SignInTypeCorrect` | `NonceAnsweredOnce`, `SignedInAsItself` and the types | `SignInInv` |
| `TransfersTellTheTruth` (`Funds_proofs`) | `TransfersAreTrue`, for any trades, sweeps, withdrawals, requests and faults | `FundsInv`, one lemma per way a step changes a request and its transfer |
| `ProfitIsBankedOnce`, `FundsTypeCorrect` | `BankedOnceWhileUp` and the types | `BankInv` |
| `WatcherFiresOnCrossings`, `WatcherBuysOnce`, `WatcherRests` (`Loops_proofs`) | the three properties of `Watcher` | `WatcherInv`, and bounds on division for the band and the basis |
| `BooksAddUp`, `SavedTicksStay`, `EndedRunsStayEnded`, `TraderTypeCorrect` | `BookAddsUp`, `SavedTicksAreKept`, `EndedStaysEnded` and the types of `Trader` | `TraderInv`, and that the sum of the holdings' costs changes by what one of them does |
| `NeverTwiceUnlessUnmarked`, `HeardInOrder` | `ToldTwiceOnlyUnmarked`, `ToldInOrder` | `AlertsInv`, and that the window is a set of the earliest in time |
| `LoopsTypeCorrect` | `LoopsTypeOK` | the three invariants, whichever loop moves |

The inductive invariants:
* `IInv`: exclusivity of epochs is not inductive alone. What makes it so is `EpochBound`: every lease and
  every report carries an epoch no larger than its row's, so the next epoch is new. With it, a report
  accepted under the row's epoch is under the latest lease, and one outcome per run follows from the row
  being closed in the same step.
* `SInv`: whoever is about to send (pc `send`), or has a transaction on the chain, is the one whose
  signature is recorded. `RecordSubmission` gives it to one
  attempt only, since `Unsigned` is asked in the step that writes it; the other steps neither change a
  signature nor enter `send`.
* `MInv` has two halves for each trade. `Place`: where its request is tells what the record has (nothing
  before the hold; an intent, no end and held money from `submit` to `release`; a signature from `send`
  on; a landed transaction at `settle` and a dead one at `release`). `Books`: wherever the request is, or
  when a crash or a throw has ended it, record, chain and budget agree (no transaction without a recorded
  signature; no denial of one that can land; `open` and `paid` are what the events say). `Place` alone says
  nothing of an abandoned trade, and `Books` alone does not survive `undo` or `settle`, which write without
  asking the chain again. The money of two trades meets only in `Hold`, whose guard is the grant.
  The hypothesis `OneDelivery` (`MaxAttempts = 1`) is needed: section 6 says what a second delivery can do.
* `PInv`: what the chain did agrees with the stage of the money, so committed money covers whatever can
  land, and the bound on `Committed` carries over.
* `CInv`: finalized <= confirmed <= tip; from the moment the history is searched, the confirmed chain is
  past the expiry, by whichever height was read, so that no new block can hold the transaction; and a landed one is in a confirmed
  block, which forks do not reach.
* `LedgerInv`: the budget is what a replay makes of the record, and an event may be read in the middle of it. Two
  facts keep that in hand. `ReadAmong`: one event more leaves the reading of the others as it was and comes
  before those that began later. `HoldsChangePlaces`: where those are all holds, it makes no difference that it comes
  before them, because a hold that fits after others fits before them (`FitsBefore`), and they still fit behind it. That is
  why `InOrder` may let two holds change places and nothing else. `TxnKept` gives the premise: whoever has the row
  knows what is available (`NothingSince` says until when), so what it accepts fits at the end (`Smooth`). A trade's end
  finds its hold (`OpenAreHeld`), and what each event adds to a stretch of the record is at most what it adds to `settled`
  (`DeployedIsSettled`), since a credit is cut at zero and never the other way. `SameWords` is that a trade asked about
  twice is asked about in the same words, so that the first hold is the second's too.
* `LifeInv`: whoever has the row saw the state the record gives, unless the rules' pause was written behind it (`ActKept`).
  An event begun after all others is read last (`WrittenLast`), so what its writer was told is what the fold makes of it.
  That a stop is final needs no invariant: no event follows a stop anywhere else (`StoppedOnce`), in any order.
* `SignInInv`: `ProvedIsSpent` (where a request got past its proof, the row of its nonce is spent, if it is still
  there) makes the update that spends a row the only way past; `LinkingOwners` (who asks for a wallet is an owner) and
  `OneOwner` carry `HasItsWallet` (whoever was told of an owner finds the wallet there) over every other request's
  steps. Forgetting rows is harmless because a nonce is never issued twice.
* `FundsInv`: that the record is true (`Truth`) rests on who may write it. `Alone` and `Fresh` say that a transfer
  without a signature is one request's only and unknown to the chain; a request past that point finds the signature
  there, so two of them on one sweep only repeat the chain's answer. `OneEach` and `Ahead` keep a withdrawal's later
  accounts untouched until its one request comes to them; `Picked` keeps the loop from asking about a sweep that
  is still being worked out. No balance is in it; that is `BankInv`.
* `TimelyInv`: whoever works on a run has the latest lease of it with more than `MaxSkew` left, so no clock calls
  it over and nobody can claim the run. `BeatInTime` is what keeps the remainder above the skew as time passes. A
  claim judged by a clock that is ahead gives a lease that is shorter by the skew, hence twice the skew in
  `SkewWithinLease`.
* `BankInv`: `AddsUp` bounds what the machine has by what it was granted and earned less what was swept, through
  every trade, transfer and withdrawal. While the orchestrator stays up, `OneSweep` says the one sweep that is worked
  on, or on its way, is the one the loop waits for; so no other sweep moves between a balance's reading and the landing,
  and `WithinEarned` carries what was read then to the landing. A restart breaks `OneSweep`, and only that.
* `WatcherInv`: `SeenKept` (what is armed was crossed), `OneBuying` (unless two decisions overlapped, at most one
  run is buying and only of an empty band) and `ReadBefore` (a level or a run to buy was read before the last
  sale, or of a machine that was not resting).
* `TraderInv`: of each tick, `TickIsAhead` (it has every fill its row has, unless it was handed an old row or the
  run was ended since); of the loop's memory, one tick per run; of ended runs, that nothing which may still save
  is under way without the mark. `Balances` is carried by each book wherever it is kept.
* `AlertsInv`: what a look is still to tell is worth telling, in order and not delivered; `NothingSkipped`
  says that what is earlier than any of it is in it, told, failed or late. That a window filled from the front cannot
  skip is a fact about cardinalities of finite sets of moments.

The theorems about `Escrow` reach the model of the code through `TradePathKeepsEscrow`.

Sums and folds are recursive functions over subsets in the community modules, and no induction theorem of the library
can be used for them here. `Folding_proofs` goes around it: among the sizes at which a sum or a fold would not be what
one element more makes of it there is a least one (`LeastOf`, from well-foundedness of `<`), and there is none. What `Ledger` and
`Lifecycle` make of a record of any length rests on that (`FoldOfOneMore`), what `Trader`'s books hold on `SumOfOneMore`.

Every invariant and action property that a passing run checks, and the refinement, is stated by a theorem. Only
model-checked is what needs fairness, because TLAPS does not do `ENABLED`: `EveryRunCloses`, `EveryProposalAnswered`,
`TheChainAnswers` and `SweepsAreFinished`. The theorems about money in `TradePath` assume one delivery per proposal; with
two, the runs check `SentOnceAndRecorded`, which is proved for any number, and section 6 says what does not hold.

## 6. Where the repository says more than the code does

Four runs check a sentence of the repository and find a behaviour that does not keep it.

1. `one_buy`. "The occurrence key is what stops the same buy happening twice" (`schema/runs.ts:4`). The key
   stops the run from being queued twice. A lease that lapses after the proposal went out is taken over, and
   the second node proposes under a new trade id: both can land.
2. `bank_twice`. "Three rules keep it from ever banking the same profit twice" (`bank-profit.ts:8`). A sweep is
   resumed by its id only once it has a signature. An orchestrator that restarts while the signer is still
   working on its request asks again with a new id; both requests read the same balance, both sweeps can
   land, and the second one takes the stake. `BankedOnceWhileUp` is what does hold.
3. `sol_denied`. "Unresolved is not the same as failed, and an owner is told which. The money may still move"
   (`withdraw.ts:196`). The lines above it write `withdrawal.failed` for an unanswered transfer before they tell
   the caller otherwise, and the SOL can move after. `withdraw-everything.ts:272-276` leaves the same case open.
4. `one_run`. "Only one runs at a time per owner" (`trader-runner.ts:150`). The newest run is read and a new one
   saved with nothing between them: two requests both make one. `end` then ends the newest only.

Observed in the models and not kept as runs.

On the trade path:
* "so a cut off node cannot reserve" (`ledger.ts:29`): the signer asks who holds the run *now* and reserves under
  that epoch, so a proposal made under an old lease rides on its successor's.
* The daily cap counts completed trades and is read before the lock: two proposals judged before either
  completes exceed it together.
* "which recovery releases" (`with-budget.ts:14-15`): no service runs a recovery, so a crash or an unknown answer
  leaves the hold for ever. The error is on the safe side, and the budget shrinks with each.
* A halt is read once, at the front; what is past that step is signed after a halt is engaged.
  `HaltStopsWhatArrives` is the property that does hold.
* A refusal by the budget (`Hold`) is answered and not recorded, unlike every other refusal.
* A second delivery that is refused frees the hold of a first one on its way, because `trade.refused`
  releases whatever its trade holds. Nothing in the services delivers twice, so `KeepsEscrow` is asked with
  one delivery.

On the chain:
* A failure is believed at `processed`, unlike a success (`confirm.ts:122`); a fork can replace the block, and the
  transaction then land and work, with its money already given back.
* With an understated expiry, a transaction can land after the history was searched and before the blockhash
  is found stale, and is declared expired. `Honest` excludes it. Asking about the blockhash first and
  searching the history after would close it. `didItLand` searches the history before it reads the height
  and has the same gap; no service calls it.

In the record:
* Events are replayed by the start of their transaction. A trade accepted late and replayed early, ahead of
  the release or the grant that made room for it, holds nothing when it is replayed (`InOrder` in `Ledger`
  excludes it). The budget stays whole either way.
* Two changes of a machine's state by its owner can be decided in one order and replayed in the other: the
  owner is told "paused", and the record says the machine runs (`CommittedAsBegun` in `Lifecycle` excludes it).
* The rules' pause is written without asking what the machine is doing, so not every event was "allowed at
  the time" (`lifecycle.ts:6-7`).
* "so a machine cannot be started by somebody else halfway through" (`halts.ts:95`): machines to stop are selected
  from a snapshot, and one whose start is not committed yet is not in it and runs on. No service calls it.
* The paper signer writes its intent without the machine's lock and without asking the budget, so two paper
  runs can both be recorded against the last of it; the replay lets only one hold.

In `Funds`:
* A sweep that lands between the vault's emptying and the trading account's reading leaves its money in the
  vault, although the answer says nothing was left behind. Asking again takes it home.
* A machine that is stopped with a sweep open is no candidate any more, so the sweep is never written down
  as finished. `SweepsAreFinished` is stated up to that.
* A paused machine's trade may be in flight when its wallet is emptied.

In the loops:
* Bots: a restart moves `since`, so what happened while they were down, or failed to send before, is never
  told. Fifty pauses of an owner's own fill the window and nothing after them is found.
* Traders: a tick handed a row that was old already saves over what was saved since (`late`); `end` can take
  back a fill in the same way. "that tick's save must not bring them back to life" (`trader-runner.ts:58`) is kept by a check before
  the save, so a save already on its way when the run is marked ended can commit after the stop and bring the run
  back (`EndedStaysEnded` is stated up to that). After a tool paused the trader, the AI's tools go on. A sale's network fee can take
  the cash below zero.
* Watcher: "A running one may be halfway through a run that read the old recipe" (`retune.ts:8`) is why only a
  paused machine is retuned, but a pause does not wait for a run in flight either. The band may move while a buy is
  not in the record yet. A sell run that was late may sell at a loss. A buy decided from a level read before the sale may
  buy in the rest, and two buy runs that overlap, or one run taken over while its first buy is in flight, exceed one
  position. A move of the band decided from a level read before the sale at the floor gives it an anchor and ends the
  rest early. A firing whose answer was lost fires again. A crossing during a restart is missed.

## 7. Not modelled, and the plan

What the modules cover is where the system decides something that others depend on: the record, the queue, the
signer, the loops and the sign-in. Most of the repository's lines are elsewhere and are left out for good:
* the apps and the web site with their components and translations, the SDK, contracts, configuration and
  telemetry: they show state or carry it, and decide nothing that outlives a request;
* the gateway's reads, views and caches;
* parsing and building of transaction bytes, but for what the chain makes of them;
* what a language model proposes, beyond the choices a tool call has; feeds and prompts;
* the wallet provider and the chain beyond what this repository can observe of them;
* `packages/runtime` `run-loop.ts`, `recovery.ts` and `classify.ts`, which no service calls.

Left to model, in this order:
1. Machine creation: the provider's calls and the one insert.
2. The other kinds of machine, and pure operators against reference definitions: `machinePnl`, schedules, quotes.

Left to prove: what a restart of the orchestrator costs at most (`ProfitIsBankedOnce` is about the time before one), and
what of the money in `TradePath` survives a second delivery.
