# Forge: a TLA+ verification project

TLA+ modules, TLC runs and TLAPS proofs about Forge, a self-hosted suite of
Solana bots: one that keeps liquidity in concentrated pools, one that lends
USDC, around a proxy (Nexus) through which all of them reach the chain. Paths of
source files are relative to `src/`. `PROJECT.json` maps every definition that
models code to its lines.

Contents: 1 the system, 2 the hard behaviours, 3 modules and code, 4 runs and
bounds, 5 fairness and deadlock, 6 proofs, 7 where code and comments disagree,
8 what is not modelled, 9 plan.

## 1. The system

Forge is a set of Node.js processes and cron scripts on one machine. They share
SQLite databases, small JSON files, lock files, one wallet per bot, and HTTP.

| Component | State it keeps | Operations | Talks to | What makes it correct |
|---|---|---|---|---|
| **Nexus: transaction queue** (`core/nexus/tx-queue.js`, endpoints in `server.js`, client `core/tx-queue-client.js`) | in memory: results by ticket, FIFO, `processing`; per client call: last known signature, deadline | submit, run the next job, poll for confirmation, clean up; client: submit, poll, give up | RPC node; every program that moves capital | one transaction in flight, FIFO, an error says the truth about the chain |
| **Nexus: upstream traffic** (rate limiter, caches, dedup, fallback endpoint, lanes) | token buckets, caches, active endpoint | proxy an RPC or HTTP request | RPC nodes, exchange APIs | quota kept, no stale answer after a write, fallback does not flap |
| **Premium payments** (`core/premium/premium-pay.js`) | `premium_pay_log` (a row per hour), switches | hourly payment, check of an unconfirmed one | cron, settings server, tx queue | an hour is paid once, a payment is never forgotten |
| **Premium server** (provider side) | subscribers, messages | activation, tokens, delivery | relays | not modelled |
| **Liquidity bot** (`bots/liquidity/bin/bot.js`) | `positions`, `ts_executions`, `capital_flows`; pool configuration | tick: claims, rebalancing, protections, exits | tx queue, lock files, cleanup and manual scripts | capital is never lost sight of, one owner of the wallet at a time |
| **Rebalancing** (`_doRebalance`, `_openNewPosition`, `_finishRebalanceOpen` of `bot.js`, `lib/rebalance-shift.js`, `lib/pnl-anchor.js`) | row of the position, transactions, `kv` notes of a pending rebalance, of failed openings and of what was freed; ledger of freed capital | claim, close, swap, open, pay in, sweep, book; later from the ledger | wallet (others use it too), locks, exits, manual actions | a close is followed by an opening, nothing of others is paid in, the books say what is in the position |
| **Trailing stop trigger** (`lib/trailing-stop.js`, `lib/fast-stop-check.js`, `lib/refresh-state.js`, `lib/db.js`) | `hwm_usd`, `entry_usd`, `d2_armed_at` and the ratios of a position, its snapshots, `quote_source`, reset clicks | measure, settle a capital flow, carry over a rebalance, check | tick, rebalancing, `cleanup.js`, `deposit.js`, `withdraw.js`, settings server | distances to the references change with the market alone; what falls is sold |
| **Trailing stop exit** (`lib/trailing-stop.js`, `lib/exit-finalizer.js`, `closePosition` of `lib/pool-adapter/orca.js`) | a row of `ts_executions` with its step | withdraw, sell, send, book, resume | tx queue, books | what was released is sold, sent and booked once, across crashes |
| **Other exits** (TVL protection, retirement, emergency) | their own step rows, mint reservations | the same with other triggers | finalizer | as above |
| **Wallet locks** (`lib/cleanup-lock.js`) | five lock files with pid and time | acquire, check, release | bot, `cleanup.js`, `deposit.js`, `withdraw.js`, `close-and-reopen.js` | programs that sell the wallet's tokens exclude each other, an orphan blocks nobody |
| **Lending bot** (`bots/lending`) | positions, baseline of the wallet, streaks in memory, `move.lock` | hourly tick, sync every five minutes, manual move, deposit, withdrawal | protocol APIs, settings server | books agree with the pools, an endangered pool is emptied, funds are invested |
| **Settings server and daemon** (`bots/settings`) | job states, sessions | start and watch jobs, edit settings | all bots | one finance job at a time |
| **Cron runner** (`bin/forge-cron.js`) | a lock file per job, list of missed slots, job states | start what is due, make up for what an update suspended | installer (`deploy.lock`) | no job beside itself, no slot lost |
| **Installer, update, migrations** (`bin/setup.sh`, `bin/setup-lib`, `bin/update-check.js`, `lib/migrations`) | versions, `deploy.lock`, applied migrations | deploy, roll back, migrate | systemd, cron runner | nothing runs on half a program, a migration runs once |
| **Wallet monitor, health check, dashboards** | balances, reports | read | bots | not modelled |

How they interact: every transaction is signed by a bot and goes through
`submitAndConfirm()` into the queue (`TxQueue`); its contract (`TxSubmission`)
is what the payment script relies on (`PremiumPay` instantiates it). The exits
of the liquidity bot (`TsExit`) run in the bot's process under the locks of
`WalletLocks`; `TrailingStop` decides when one starts, and `Rebalance` gives a
position its successor, on whose row the references of `TrailingStop` go on. The cron runner (`CronRunner`) starts the payment script and
the cleanup.

## 2. The hard behaviours

* **Await interleaving** in one process: submits arrive while the queue's loop
  awaits an RPC answer; tick and sync of the lending bot overlap at every await.
* **Several processes on files**: check-then-write lock files, a stale pid, a
  lock overwritten by another owner; two runs of the payment script.
* **A transaction whose fate is unknown**: an answer lost, a timeout, a blockhash
  that may still be valid. An error must not be taken for "did not happen".
* **Crash between the chain and the database**: the steps of an exit, the row of
  a payment, the booking of a withdrawal.
* **Stale reads**: protocol APIs that report an older balance, `walletUsdc` read
  several awaits before its use.
* **Long sequences**: slots missed over several ticks of an update, exits resumed
  again and again, openings that fail after a close and are made up for on a later
  tick, flows and rebalances between two measurements.
* **Money of others**: one wallet for all pools, while a rebalance is between its
  close and its opening.

`PROJECT.json` lists the hazards with the line where each bites and the
properties that would notice.

## 3. Modules and code

| Module | Models | State to code | Actions to code |
|---|---|---|---|
| `TxSubmission` | the promise of `submitAndConfirm()` | `outcome` of a call, `fate` of its transaction | a call begins and returns |
| `TxQueue` | queue, `/tx/submit`, `/tx/status`, client; chain external | `results`, `queue`, `processing`, `ticketCounter` are the fields of `TxQueue`; `loop[t]` is the `_processNext()` call that the submit of `t` made; `client`, `lastKnownSignature`, `clientLeft` the locals of the client | `Submit`, `NextJob`, `SendOk`, `SendError`, `ConfirmResult`, `Cleanup` are the handlers between two awaits; `ClientPoll`... the branches of the poll loop |
| `PremiumPay` | `premium-pay.js`, switches, `POST /enable` | `row`, `confirmed`, `graceLeft` are `premium_pay_log`; `pc` etc. a run of the script | one action per stretch between two awaits |
| `TsExit` | one exit with all its transactions and records | `step`, `rec`, `recUsdc` are `ts_executions`; `pc`, `coins`, `usdc`, `left` are locals that a crash loses | `Claim`, `Decrease`, `Burn`, `Book`, `MarkClosed`, `Sell`, `Pay`, `Finish`...; `Resume` starts from the row |
| `WalletLocks` | `cleanup-lock.js` and every place that takes, checks or releases a lock | `file[k]` is the pid in a lock file, `old` says it is older than its limit | check, write and release of each role |
| `Lending` | the lending bot around one pool | `open`, `booked` are the active row, `base` the baseline in `kv`, `zero`, `reappear` the streaks, `lag` an older answer the API may still give | every stretch between two awaits of `tick`, `sync` and the manual jobs |
| `Rebalance` | `_doRebalance`, `_openNewPosition`, `_finishRebalanceOpen`, the top-up from the ledger, `reconcilePositions` | `row`, `capital`, `note`, `shift` are the database, `pc`, `after`, `base`, `freed`, `done`, `fails` the memory of the process, `held`, `stray`, `wallet`, `foreign` the chain | one action per stretch between two awaits, named after what it does: `Claim`, `CloseDone`, `CloseBooked`, `StartReopen`, `Swapped`, `OpenDone`, `OpenBooked`, `PayIn`, `Sweep`, `Finish`, `TopUp`, `Settle`, `Adopt` after `Crash` |
| `TrailingStop` | references of a position and every place that moves or compares them | `row` are the columns of `positions`, `snap` the newest `position_snapshots`, `known` the `kv` entry of the price source, `bot.state` the state a tick carries across awaits, `flow` a capital flow of another process | `StartTick`, `CheckBefore`, `ReadState`, `StartRebalance`, `CarryOver`, `Baseline`, `TopUp`, `Claim`, `TakeSnapshot`, `CheckAfter`; `FastFilter`, `Confirm`; `Begin`, `Lands`, `Settle`, `Rebase`, `MeasureAgain`; `Click` |
| `CronRunner` | `forge-cron.js` and the update lock | `lock`, `pending`, `deploy` are the files, `pc`, `todo`, `running`, `ended` a process | tick, `Remember`, `Take`, `Skip`, `Launch`, `Finish`, `End`, kill |

Modelling choices that matter:

* **Time** is a set of countdowns in one unit (`TxQueue`, `PremiumPay`) or a
  nondeterministic "has grown old" (`WalletLocks`, `TsExit`). The order of the
  constants is what counts: 60 s to confirm, 90 s at the client, 5 minutes until
  a result is freed, 60 to 90 s for a blockhash (`TimingAssumption`), 5 minutes
  of grace for an unconfirmed payment (`GraceAssumption`).
* **Failures** are chosen with the initial state (`faults`, `around`,
  `setup.faults`, `torn`, `slow`), so that one run covers behaviours with and
  without them, and a property can say under which it holds.
* **Amounts** are small integers, each above the dust limits of the code. Prices,
  slippage and quotes are left out; a sale in several tranches is not.
* **Values as logarithms** (`TrailingStop`): the code multiplies references by
  factors and stores ratios. On a geometric grid a factor is a summand and a ratio
  a difference, so the model stays exact and in integers. A gain of `First` above
  the entry and a drawdown of `First` below the mark are the same distance there.
* **History variables** (`released`, `sold`, `sent`; `owed`, `paused`; `truth`) are
  read by properties only. `truth` follows what was paid in and what the market
  did, without looking at the references of the code.

Simplifications: `TxQueue` has one client call per transaction, and
`getStats`/`destroy` are left out. `PremiumPay` leaves prices and recipients
out. `TsExit` has one position per pool; dust limits are left out; unseen
decreases (the code only logs them) are part of `unseen`. The tolerance of
`capToPosition()` (`EXIT_CAP_TOLERANCE_PCT`, 0.5 % of what the position released)
is one part in `CapShare`, rounded down to units; in the code that is 200. In `WalletLocks` the
sweep in `checkLock()` is as good as the absence of the file; a time of check
to unlink race of two system calls is left out. `Lending` has one pool and one
manual job at a time, no yield, no ranking, no minimum deposit, no cooldown
withdrawals and no `bot_paused`; the id of the row an exit closes is the flag
`captured`. `Rebalance` has one pool and counts in units of 5 USDC; the mix of the
two tokens and swaps are without value, ranges and quotes are left out. A running
cleanup, which delays a top-up from the ledger just as `manual.lock` does, is no
event of its own; a start value the user books into the ledger (`seedUsdc`), and
forced top-ups of less than a unit, are left out.
`TrailingStop` has one position; a flow begins only when a snapshot exists, the
measurement after a rebalance is at the current price, the automatic cooldown of
rebalances outlasts the next snapshot (`young`), and as fees are a summand of the
logarithm, their share of the value is not modelled. In `CronRunner` any jobs may be due at any minute, the synchronous
part of a runner is over within its minute, and `cron-state.json` is left out.

## 4. Runs and bounds

| Run | Instance | Shows |
|---|---|---|
| `queue` | 3 tickets (symmetric), no fault but failing sends, reverts and late landings; timeouts 1/2/3 | `KeepsPromise`: the queue and its client implement `TxSubmission`; FIFO; "failed" is final; a polling client finds its ticket |
| `queue_faults` | 2 tickets, rejected polls, lost and slow send answers, HTTP errors, restarts | one transaction in flight, no open ticket without its result; every call ends, every ticket is finished, every result freed |
| `premium_pay` | 1 run at a time, 2 hours, 3 payments; without faults and with kills and broken promises | no hour paid twice, no payment forgotten, a confirmed row is true |
| `premium_pay_kill` | the same with kills | **violated**: an hour is paid twice after a kill |
| `exit` | 8 configurations; three kinds of circumstances: crashes at every await where the code can recover, thin markets, everything | capital known, no run sells more than the cap allows, proceeds sold, booked and delivered once, no record undone, exits complete |
| `exit_transfer` | an exit that sends two tokens | **violated**: a token is sent twice |
| `wallet_locks` | bot, 1 cleanup, a deposit or withdrawal and a reopening; who may be torn between check and write; which locks may outlive their limit | who may work beside whom; an orphan blocks nobody; an exit starts |
| `wallet_locks_manual` | 1 manual action, no torn check | **violated**: an exit sells while a manual action works |
| `lending` | 10 setups, each with the tasks, events and faults one group of properties is about | while nobody else is at work the row is exact; an endangered pool is emptied, books catch up, funds are invested |
| `rebalance` | 18 circumstances (below); principal 3, foreign 1, cap 5, threshold 2, 3 failed openings | the ledger never owes more than the wallet holds for it, the books are exact when nothing is lost, a fresh close is not refused its opening, a closed pool is reopened or given up |
| `stop` | 10 setups (below); up to 4 moves of market, source and user, 2 flows or rebalances; first stage 2, second 1, band 2 | distances to mark and entry are what the market made of them, stage 2 is armed by the gain alone, a flow never triggers an exit, nothing stays below its stop |
| `cron` | 2 jobs, 2 runners, `PENDING_MAX_AGE_MS` = 1 minute, 1 kill; unwritable logs, nothing, or kills and a program missing in the update | no job beside itself, missed slots made up for, jobs go on |

Why the bounds are enough. Three tickets are needed for two that wait behind
one (an order between two waiting ones can only be wrong then); faults act on
one ticket beside another, so two do. Two hours let the hour roll over with a
payment open, three payments let a retry be retried. Two units of token A make
a sale in tranches and one of token B tell the sides apart; two foreign units
per mint let an exit sell what is not its own, and with `CapShare` = 2 two units of
a token allow one more, so that a sale within the tolerance and one of the whole
wallet differ. Two manual actions are needed
for one that unlinks the other's lock. In `lending` one unit of funds (two for
partial withdrawals and limits) tells "all", "some" and "nothing" apart; the
ten setups are explained in `MCLending`: `Quiet` (tick and sync overlap over
new funds), `First` (first start, lagging and failed reads, exit with sending),
`Flaps` (endangered and good again, two units), `Killed` (a move that dies, also after its
transaction), `Moved` and `Taken` (manual jobs), `Unseen` (jobs whose transaction
lands though the call throws), `Lossy` (landings nobody learns of), `Crashes`
(restart), `User` (the pool is switched). Two runners and two jobs let a job
outlast its minute while another is carried over. The circumstances of
`rebalance` are `Failing` (burns and openings fail, an exit elsewhere blocks),
`Shared` (money of others in the wallet, forced rebalances and top-ups), `CutOff`
(balances that cannot be read, forced top-ups), `ByHand` (manual closes, forced
rebalances and top-ups), `Refusing` (closes are refused or land unseen, burns fail, fees of openings
cannot be read), `Unbooked` (fees that cannot be read, also of a close),
`Claiming` (there are open fees, claims and closes are refused, claims land unseen),
`Dying` (a crash at every await but that of the top-up's fee), each for a pool with USDC and one without, `Blind` (openings and
payments that land unseen) and `Busy` (others while the bot is at work); three
units of principal tell freed, paid in and left over apart, a threshold of 2
lets the ledger hold an amount too small to pay. The setups of `stop` are
`Deposits`, `Withdrawals`, `Rebalanced`, `Clicked`, `Opened` (opening snapshots)
and `Sources` (the price source changes and the fallback deviates), where the code
keeps its promise, and `Shown`, `Overlapping`, `Dying` and `ToppedUp`, where
`DropStops` holds although it does not; two flows let the second find the ratio of
the first, four moves let the price leave a distance of the width of the band and
come back. Bounds in guards: `MaxJobs`, `MaxRestarts`, `setup.funds` (`Lending`),
`MaxKills` (`CronRunner`), `Principal`, `Foreign`, `Cap`, `MaxFails` (`Rebalance`),
`maxMoves`, `maxFlows` (`TrailingStop`), the sets of tickets, payments and hours. Every action of every module is taken in some
passing run, and every property is refuted by a mutant of the code that
`PROJECT.json` names.

`Kept` in `TrailingStop` names the circumstances under which the references are
promised to be exact. Each exclusion but one is there because TLC refutes the
property without it; section 7 says what happens there. The exception, fees
beside a measured deposit, is excluded because the logarithms leave it open.

The type invariants of `TxQueue`, `PremiumPay`, `TsExit`, `WalletLocks`,
`CronRunner`, `Lending`, `Rebalance` and `TrailingStop` are proved and not model-checked again. The bounds of `stop` that
matter for its three safety invariants are lifted by the proofs: the runs found
`Kept` and the invariant, the theorems hold for any number of moves and flows.

The refutations behind the conditions: with `Faults = {"pollThrow"}` the queue
run refutes `FailedIsFinal`, with `{"restart"}` `PlainErrorIsSafe`; two runs of
the payment script at a time (`Runs = {r1, r2}`) refute `NeverPaidTwice`; with
`"gone"` `MadeUp`, with `"kill"` `NoOverlap` would be refuted if they did not
leave these faults out.

## 5. Fairness and deadlock

* `TxQueue`: weak fairness of every loop step and client step (Node runs a
  continuation whose promise is settled; every RPC call has a timeout), of the
  clean-up timer and of the clock. No fairness for landing, sends that succeed,
  or restarts.
* `TsExit`: the bot's tick goes on and a failed exit is resumed by the 15-minute
  timer (weak fairness of the synchronous steps and of `Resume`); a transaction
  that is tried again and again is landed and seen in the end (strong fairness of
  `Claim`, `Decrease`, `Burn`/`Rescue`, `Book`, `MarkClosed`, `Swap`, `Pay`),
  because the code retries for ever and no failure it meets is permanent.
* `WalletLocks`: strong fairness of the bot's steps, which compete for locks
  with others, weak of the start of cleanups and manual actions; none for the
  end of a cleanup, which may hang: `ExitStarts` holds all the same.
* `Lending`: timers fire and tasks go on (weak fairness per task); an API that is
  asked again and again answers, an answer that is accepted comes, and a
  withdrawal that is tried again and again succeeds, each in the end (strong
  fairness of `Query`, of an accepting `Apply` and of `Withdraw`); manual jobs end.
* `CronRunner`: a process goes on with its code. That a job ends is **not**
  assumed: jobs have no time limit, and `JobsGoOn` says only that the job runs
  again and again or is still running.

* `Rebalance`: the main loop goes on (weak fairness of the bot's steps); an opening
  that is tried again and again finds its price, swaps and lands in the end
  (strong fairness of `StartReopen`, `ReopenPriceKnown`, `Swapped`, `OpenDone`),
  because the code retries at every tick until it gives the pool up.
* `TrailingStop`: the tick, a fast check and a flow of another process go on (weak
  fairness); ticks start again and again though manual actions hold their locks
  in between, a state is read and a snapshot is due in the end (strong fairness of
  `StartTick`, `ReadState`, `SnapshotDue`). None for the market, and none for the
  fast check.

Deadlock is checked except in `TsExit`, where the exit really ends, in `Rebalance`,
where a pool is switched off, and in `TrailingStop`, where the exit takes over.

## 6. Proofs

Proved with TLAPS for every value of the constants that satisfies the named
assumptions:

| Module | Theorems | Argument |
|---|---|---|
| `TxQueue_proofs` | `Typing`, `OneAtATime`, `StrictFifo`, `OpenTicketsKept`, `StatusTrue`, `TicketFound`, `ErrorsTrue`, `PromiseKept` | `QInv`: at most one `_processNext()` call is between awaits, and while it is, `processing` is set and only its job is in flight; the queue holds exactly the tickets with status "queued", in the order of their numbers. None of the three properties is inductive alone: FIFO needs the order of the queue, single flight needs the one loop. All faults are included. Then `Certain` (a signature is known only of a ticket whose send was answered; needs "pollThrow" absent), `Found` (a result outlives the poll loop still to come; needs "restart" absent, and `TimingAssumption`) and `Faithful` (the blockhash of a ticket ends before its call; needs no fault), together `SInv`, on which the refinement of `TxSubmission` rests: `Settles` and `FatesStay` (a fate is decided once), `PromiseStep` (every step is one of the promise). |
| `PremiumPay_proofs` | `Typing`, `PaidOnce`, `Tracked`, `RowsTrue` | `IInv`: every payment that landed or still can is in the row of its hour or awaited by the run (`SettledInLog`, `AwaitOK`); a run that is about to pay has seen a row that can no longer land (`PayersClear`); the grace period outlasts the blockhash (`RowOK`, from `GraceAssumption`). `PaidOnce` and `Tracked` are about orderly behaviours: one run, no fault. `RowsTrue` (`ConfirmedRowLanded`) needs only that runs do not overlap, and holds with kills and broken promises: its strengthening `RowTrue` adds that a run about to check a payment checks the one still in its row. |
| `TsExit_proofs` | `Typing`, `NeverEarly`, `KnownCapital`, `LogIsHarmless`, `CappedSale`, `BothBooksShowIt`, `OneDelivery`, `NothingUndone`, `BookedAtMostOnce` | `EarlyInv`: past the withdrawal the position is closed; `KnownInv` says at each point of the run where the released amounts are (memory, row). `OrderInv` says which step of the row a run can be at; with it a resume sells what the record says and the tolerance of the cap, no more. `CappedSale` has two halves: `RunInv`, for every configuration and whatever fails, adds up what a run has sold and has yet to sell; `SoldInv`, over all runs, needs a sale that is one transaction and is seen when it lands, and holds with a crash at every await. `WalletInv` is the balance of both mints over the whole exit, `SaleInv`, `BookInv` and `PayInv` say for every step of the row, and for every place of the run, what was sold, booked and paid so far; all three rest on the sale being one transaction (`OneSaleMode`), without which section 7 has the counterexample. The last two theorems need no such condition: with `OrderInv` and `Unbroken` (a withdrawal at work has no record yet) no resume, crash or unseen landing takes a record back (`RecordStands`), and so the capital flow is what the row says, booked once. |
| `Rebalance_proofs` | `TypeCorrect`, `NoForeignMoneySpent`, `NothingForgotten`, `NoFreshCloseRefused` | `ShiftCovered` looks at the wallet and the ledger alone; inductive is `Funds`, a bound on the wallet for each stretch of a rebalance: beside `Bound` (the money of others and of the ledger) it holds the claim before a close, close and claim after it, the capital of an opening under way, then its rest; and, in a pool with USDC, no less than the base measured before. `Marks` says where these bounds hand over to each other across ticks (notes, claims, age of the close). `Balanced` has the same bounds as equations when nothing is lost, which gives the exact half of `BooksExact` with `Booked`, as long as every balance can be read; that the book value never exceeds what the position holds is part of `Marks`, and survives a read that cuts the reconcile loop off (`PayInCut`). `Remembered`: a close younger than half an hour is booked or about to be. Any principal, cap, threshold, amounts of others and number of failures. |
| `Lending_proofs` | `Typing`, `RowFollows` | `Typing` includes all overlaps, lags, losses, kills and restarts, and so that no withdrawal or deposit overdraws pool or wallet. `FInv`: a single task applies what is still in the pool, the pool an exit empties is the one of the row it closes, and row and pool differ by the transaction on its way. |
| `WalletLocks_proofs` | `Typing`, `BlockedForCause`, `YieldingBot`, `CleanupApart` | `Owned`: a file that names a live process names one that is inside the section that file guards; `BotHolds`: the bot has the lock of its operation; from both, the pairwise exclusions. Any number of cleanups and manual actions. |
| `CronRunner_proofs` | `Typing`, `NoJobTwice`, `SlotsMadeUp` | `Held`: without kills the lock of a job that runs, or has ended before its `finish()`, names its runner; `Noted`: one runner at a time is at its synchronous part, while none launches jobs the list is exactly what is owed, and while one does, what is owed is with it. Any number of jobs and runners, any age limit. |
| `TrailingStop_proofs` | `Typing`, `Exactness`, `Armament`, `NoFalseExit` | `TInv`: the types with `Present`: where the code uses a row, a snapshot or a state carried over an await, there is one; all setups, those where the references go wrong included. `KInv`, for all setups of `Kept`, any number of moves, flows and rebalances, any thresholds and band. `References` is what makes `ReferencesExact` inductive: at rest the references are exact at the newest snapshot, or their ratios stand for gap and gain (`Open`); while a rebalance has no row to write to, the bot carries them; and the truth goes by the value of that snapshot less what a flow under way has `Moved`. `Frame` says that bot and flow take turns and that what each carries from step to step is still true when it is used (`bot.state.liq`, `flow.liq`, `flow.lp`). `Measuring` is the arithmetic of a measurement, `Leaving` that of a ratio left behind; `Fires` takes the reason of a stop from both. |

The assumptions are the `ASSUME`s of the modules, which TLC evaluates on every
run: names of constants are distinct, limits are naturals, and the two timing
assumptions above.

Every invariant and action property of the passing runs is proved. Two proof attempts found
what TLC had not: in `Rebalance` neither `ShiftCovered` nor `BooksExact` follows
without `ClaimsApart`, for two rebalances within a quarter of an hour count one
claim twice (section 7), and the circumstances of the run did not let them follow
each other with fees; and fees still open at the close leave the same NFT to be
adopted by a restart as a burn that fails. The conditions of the two properties say so now.

Only model-checked: liveness (`CallEnds`, `TicketDone`, `ResultFreed`,
`Completes`, `ExitStarts`, `EndangeredEmptied`, `BooksCatchUp`, `FundsInvested`,
`JobsGoOn`, `Reopened`, `DropStops`), which the prover does not do under fairness. Of
`Lending` no safety is claimed for the time of an overlap, where the row may be
wrong for a while (that it does not stay so is `BooksCatchUp`).

## 7. Where code and comments disagree

Shown by runs that are expected to fail (findings in `PROJECT.json`):

* `premium_pay_kill`: the settings server kills the payment script after 25 s,
  inside an await of up to 90 s; the payment lands, no row names it, and the next
  run pays the hour again.
* `exit_transfer`: the transfer step sends two tokens and records once; a failure
  between them makes the resume send the first again. The header calls the steps
  idempotent.
* `wallet_locks_manual`: an exit waits for a cleanup only and the opening of a
  position takes no lock and looks at none; either runs beside a manual action at
  work on the same wallet.

Met while modelling, visible by changing a constant, or stated in a property's
condition:

* **Queue.** A rejected fetch in the confirmation poll ends as an ordinary error
  after the transaction was sent; after a restart of Nexus the client reports a
  plain error for a transaction that may land. Both break the promise of
  `submitAndConfirm()` and make `PremiumPay`'s fault "plainError" real.
* **Premium.** Two runs at a time pay twice; nothing but the schedule of cron and
  the user keeps them apart. The open payment of the hour before is not settled
  by a run of the next hour.
* **Exits.** The sentence "Ein Exit swappt nie mehr, als die eigene Position gerade
  freigegeben hat" (`exit-finalizer.js:775-776`) is meant up to the tolerance the
  next paragraph explains (780-793), and only within one run: `SaleCapped` says so,
  and lets an exit of two tokens, or in tranches, sell again what a run sold before
  it failed. A swap of two volatile tokens that fails after the first books only
  the second; a sale that was not seen is repeated with foreign tokens; an unseen
  decrease is only logged; fees claimed by an attempt that failed are never
  booked; a close row older than 30 minutes keeps its `usd_value` NULL; with two
  volatile tokens and a receiver a second sale can be stuck for ever.
* **Locks.** A second manual action overwrites and unlinks the first one's
  `manual.lock`, also when it is refused; a cleanup may start while a manual
  action waits up to 90 s; a cleanup never checks its own lock; a rebalancing
  does not check the cleanup's; resumed exits ignore it.
* **Rebalancing.** A fresh opening after a manual close ends in a ReferenceError
  once the position is open and booked: `guardTargetUsdc` (`bot.js:2734`) is
  defined nowhere (`OpenUnbooked`). If the fee of a payment from the ledger cannot
  be read (`bot.js:1007`), or the process dies before the settlement (1087), the
  same amount is paid a day later, out of money of others, against
  `rebalance-shift.js:11-13`. The balance reads of the reconcile loop
  (`bot.js:1539-1541`, 1627-1628) are in no `try`: one that throws after a payment
  leaves before `updatePositionCapital` (1685-1688), and `_finishRebalanceOpen` with
  it, before the marks are carried over (3002, 3006) and the row of
  `rebalance_history` is written (3015). The book value is too low, the rest stands
  in no ledger, the trailing stop starts from anew and no cooldown holds
  (`PayInCut`), although the comment at 2926-2927 says the rest must not be missing
  from the books. `BooksExact` promises only its first half there. If the fee of the close cannot be read (3222), no row
  of the close exists, the opening is refused, the pool is switched off and the
  capital lies in the wallet. An opening that landed unseen is followed by a
  second. An NFT that is left because its burn failed, or because fees
  were still open at the close, is adopted at a restart with capital null, and the
  next rebalance of a volatile pool takes the whole wallet for it. A claim of the
  last 15 minutes is counted by every opening that is made up for
  (`rebalance-shift.js:151-152`, `199-203`), whichever close it came before: after two
  rebalances in that time, which takes a forced or a manual one (the cooldown is
  120 minutes, `config.js:439`), the same claim is paid in twice (`ClaimsApart`).
  What others bring into the wallet during a rebalance without volatile tokens counts
  as freed. The flag of a forced rebalance is deleted before
  the locks are looked at.
* **Trailing stop, trigger.** The references are exact except where `Kept` is
  false; TLC has a behaviour for each of these:
  - A top-up from the ledger scales the references (`bot.js:1086-1098`), and the same
    tick then takes a snapshot from the state read before it (about 966): the old
    liquidity against the new mark, and check 2/2 may sell the whole position. The
    comment at 1086-1087 says the new level is measured at once.
  - The same with a bulk state read before a manual deposit that ends before the
    pool's snapshot, although the comment at `bot.js:921-925` sees this excluded.
  - A deposit of the cleanup that has landed and is not yet settled
    (`deposit-lib.js:671`) while a tick measures: the mark rises and is scaled again.
  - A change of the price source scales the marks of all pools of the quote
    (`refresh-state.js:187`), whose last snapshots are still by the old one: check
    1/2 compares the two.
  - The values before a rebalance or a withdrawal are without the open fees
    (`bot.js:3190`, `withdraw.js:373`, `_lastMeasuredLpValue`), the mark has them: the
    distance is overstated by the fees.
  - A ratio that is still open when a rebalance begins is lost, for the mark is
    NULL then (`bot.js:3190`), and so are entry and drawdown.
  - A withdrawal whose fee cannot be read (`withdraw.js:535`), or that dies before
    the rebase, looks like a drawdown of its size at the next tick.
  - The target of a reset click is not scaled when a deposit or a rebalance comes
    in between, and the click is dropped silently if the mark rises first.
  - The band of 50 % takes greater drawdowns for broken data and resets the
    references, while thresholds up to 90 % may be set. What the market does between
    the last snapshot and a flow is lost with the ratio. `insertCapitalFlow` comes
    after the settlement of a deposit, so the opening snapshots still count in it;
    nor are they scaled at a change of the price source.
* **Other exits** (read, not modelled). The resume of a TVL exit happens at a start
  of the bot only (`bot.js:670`); a failed full exit leaves an inactive pool with an
  open position until then. `isTvlLevelExecutedForPosition` counts failed rows. A
  partial withdrawal whose landing was not recorded is repeated by the resume.
* **Lending.** A zero answer that comes between the landing of a withdrawal and its
  booking counts 1 in a streak that nothing clears while there is no row
  (`bot.js:690`), so that the first lagging answer after the next deposit closes the
  fresh row, although the comment at `bot.js:152` wants two answers. With a deposit
  limit the rest is below the new baseline and is not found again
  (`bot.js:1034-1037` says otherwise). USDC that lay in the wallet before the first start is invested
  after the bot's own first deposit: the wallet is below the baseline, which is
  blamed on a manual action and reset to 0 (`bot.js:962-963` says otherwise). A
  failed balance read counts as 0 and resets the baseline. A second payment of
  exactly the deposited amount before the next read is stranded, like the amount
  of a deposit that failed or was skipped. The comment that the baseline is set
  only after a restart is wrong, since it persists. Proceeds of an exit that are
  to be sent may be invested by an overlapping sync before they are. Two
  snapshots that see a deposit which has landed but is not booked may book it
  twice, for ever. The reappear streak is not reset by zero answers. After a
  partial withdrawal a late answer keeps the row too high for ever. A killed move
  leaves `move.lock`, which nothing clears: guard exits pause until somebody
  removes it. A manual job whose transaction landed although its call threw books
  nothing (`JobLost`); the snapshots have to find it. A move closes all rows even for partial amounts. `disablePool`
  swallows its errors. `bin/deposit.js` checks neither `poolEnabled` nor takes a
  lock. `auto-deploy-paused.flag` is read by nobody but the settings route.
* **Cron.** A tick that falls between `rm -rf` and the end of the copy of an
  update (`bin/setup-lib/deploy.sh:253-256`) finds no program, so its slot is not
  remembered, although the comment at `bin/forge-cron.js:53-55` promises that
  missed jobs are made up for (`"gone"`). A killed runner leaves its jobs running
  under a lock that the next one takes for stale (`"kill"`). Two runners whose
  jobs end together may lose an entry of `cron-state.json`. `deploy.lock` is
  tested for existence although it holds a pid: after a power failure in an
  update all jobs are suspended until somebody removes it. The rollback
  (`deploy.sh:95-125`) takes no lock, and an update waits for no running job. The
  age of a missed job counts from its first slot, so a fresh slot of the same job
  is dropped with it. A reused pid makes a stale lock look alive.

## 8. Not modelled

See `components` in `PROJECT.json` for each part and its reason. In short: price
and range arithmetic, SDK calls and API parsing (data, no control), SQL reports
and dashboards (read only), the provider's relay protocol (I/O), the installer's
shell scripts except for their lock.

## 9. Plan

Done in this order, the programs that move money first: `TxQueue` with
`TxSubmission`, `PremiumPay`, `TsExit`, `WalletLocks`, `Lending`, `CronRunner`,
`Rebalance`, `TrailingStop`.

Next modules:

1. `ExitReservation` with the TVL protection and retirement exits: partial
   withdrawals, step rows, mint reservations between exits; the TVL exit is not
   resumed by the 15-minute timer (`bot.js:4485-4498`), only at a start.
2. `NexusServices`: the fallback endpoint (two good probes, ten minutes), the
   token bucket with its penalty, dedup of notifications.
3. `ReinvestPending`: proceeds reserved for a reinvestment, and the cleanup that
   must not sell them.
4. Finance jobs and the control daemon of the settings server; migrations
   (a crash between a migration and its record); health share; premium activation.

Small ones are checked in composite instances beside a module of another
process, whose state they do not share.

Next theorems: the safety of the modules to come; what the books of `Lending` still
promise while tick and sync overlap.
