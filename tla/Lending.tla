------------------------------- MODULE Lending -------------------------------
(***************************************************************************)
(* The lending bot (src/bots/lending) around one pool: its two scheduled   *)
(* tasks, which overlap at every await (the hourly tick, the sync every    *)
(* five minutes), the reconciliation of its books with what the protocol's *)
(* API reports, the guard exit, the automatic deposit of new funds, and    *)
(* the manual jobs that hold move.lock.  Amounts are whole units, each well *)
(* above DUST_THRESHOLD_USDC, MIN_DEPLOY_USDC and MIN_PLAUSIBLE_JUMP; yield *)
(* is left out.  A move has its other end in a pool outside the model.     *)
(***************************************************************************)
EXTENDS Integers

CONSTANTS
  Setups,     \* settings, events and faults a run may meet
  MaxJobs,    \* bound: manual jobs
  MaxRestarts \* bound: restarts of the bot

Tasks == {"tick", "sync"}
Kinds == {"move", "withdraw", "deposit"}
Healths == {"good", "low", "thin", "unknown"}
Events == {"user", "day", "sol"}
Faults == {"lag", "read", "lost", "restart", "kill"}
NoBase == -1
NoLag == -1

(* lying: USDC in the wallet which the bot has seen at its first start, or  *)
(* NoBase before that start; funds: bound on what comes in, at once or not; *)
(* cap: maximum deposit of a run (0: none); sends: the guards have an       *)
(* address; partial: manual withdrawals may leave something in the pool;    *)
(* turns: what measurements may come to say of the pool, which is good at   *)
(* first; running: the tasks that come due meanwhile; jobs: manual jobs the  *)
(* user starts; events: the user enables and disables, a day passes, SOL is *)
(* topped up.                                                               *)
ASSUME LendingAssumption ==
  /\ \A s \in Setups :
       s \in [lying : Int, funds : Nat, once : BOOLEAN, cap : Nat, sends : BOOLEAN,
              partial : BOOLEAN, turns : SUBSET Healths, running : SUBSET Tasks, jobs : SUBSET Kinds,
              events : SUBSET Events, faults : SUBSET Faults]
  /\ \A s \in Setups : s.lying >= NoBase
  /\ MaxJobs \in Nat /\ MaxRestarts \in Nat

VARIABLES
  setup,                 \* of Setups; never changes
  wallet, chain, lag,    \* USDC in the wallet, in the pool, an older value of it the API may report once
  open, booked, recent,  \* the active row of positions and its amount; deposits booked in 24 hours
  zero, reappear,        \* _zeroBalanceStreak, _reappearStreak
  base,                  \* kv auto_deploy_last_wallet
  health, enabled,       \* measurements against the guards; poolEnabled
  lock,                  \* move.lock exists
  pc, read, seen, amount,\* per task: where it is, walletUsdc, position reported, exit or deposit
  guard, captured,       \* the tick: guard of its exit; the row it will close is still the active one
  job,                   \* the manual job
  income, jobs, restarts \* counters for the bounds

money == <<wallet, chain, lag>>
books == <<open, booked, recent>>
streaks == <<zero, reappear>>
pool == <<health, enabled>>
taskVars == <<pc, read, seen, amount>>
exitVars == <<guard, captured>>
jobVars == <<job, lock, jobs>>
outside == <<setup, income, restarts>>
vars == <<setup, wallet, chain, lag, open, booked, recent, zero, reappear, base, health, enabled, lock,
          pc, read, seen, amount, guard, captured, job, income, jobs, restarts>>

NoJob == [pc |-> "none", kind |-> "move", pos |-> 0, amt |-> 0]
Least(x, y) == IF x < y THEN x ELSE y
Lying == IF setup.lying = NoBase THEN 0 ELSE setup.lying
AllFunds == Lying + setup.funds

TypeOK ==
  /\ setup \in Setups
  /\ wallet \in Nat /\ chain \in Nat /\ lag \in Int
  /\ open \in BOOLEAN /\ booked \in Int /\ recent \in Nat
  /\ zero \in {0, 1} /\ reappear \in {0, 1}
  /\ base \in Int /\ base >= NoBase
  /\ health \in Healths /\ enabled \in BOOLEAN /\ lock \in BOOLEAN
  /\ pc \in [Tasks -> {"idle", "query", "apply", "exit", "withdraw", "book", "send", "topup",
                       "deploy", "deposit", "credit"}]
  /\ read \in [Tasks -> Nat] /\ seen \in [Tasks -> Nat] /\ amount \in [Tasks -> Nat]
  /\ guard \in {"tvl", "liquidity"} /\ captured \in BOOLEAN
  /\ job \in [pc : {"none", "work", "book", "deposit", "credit"}, kind : Kinds, pos : Nat, amt : Nat]
  /\ income \in Nat /\ jobs \in Nat /\ restarts \in Nat

Init ==
  /\ setup \in Setups
  /\ wallet = Lying /\ base = setup.lying
  /\ chain = 0 /\ lag = NoLag
  /\ open = FALSE /\ booked = 0 /\ recent = 0
  /\ zero = 0 /\ reappear = 0
  /\ health = "good" /\ enabled = TRUE /\ lock = FALSE
  /\ pc = [t \in Tasks |-> "idle"]
  /\ read = [t \in Tasks |-> 0] /\ seen = [t \in Tasks |-> 0] /\ amount = [t \in Tasks |-> 0]
  /\ guard = "tvl" /\ captured = FALSE
  /\ job = NoJob
  /\ income = 0 /\ jobs = 0 /\ restarts = 0

Happens(e) == e \in setup.events
Faulty(f) == f \in setup.faults
Endangered == health \in {"low", "thin"}
Investable == enabled /\ health = "good"

-----------------------------------------------------------------------------
(* Chain and books.                                                         *)

(* A transaction moves n USDC into the pool (n < 0: out of it); for a while *)
(* the API may go on reporting what was there before.                       *)
Flow(n) ==
  /\ wallet >= n /\ chain + n >= 0
  /\ wallet' = wallet - n /\ chain' = chain + n
  /\ lag' = IF Faulty("lag") THEN chain ELSE NoLag

(* A transaction that failed, or whose landing its sender has not learnt.   *)
Lost(n) == UNCHANGED money \/ (Faulty("lost") /\ Flow(n))

(* closePosition of the active row: an exit that holds it closes nothing.   *)
CloseRow == open' = FALSE /\ booked' = 0 /\ captured' = FALSE

(* mutant: a second deposit replaces the first *)
CreditReplaces(n) ==
  /\ open' = TRUE /\ booked' = n
  /\ recent' = Least(recent + n, AllFunds)

(* addToPosition or addPosition, and the deposit in transactions.           *)
Credit(n) ==
  /\ open' = TRUE /\ booked' = (IF open THEN booked + n ELSE n)
  /\ recent' = Least(recent + n, AllFunds)

(* What the API may report; it has caught up afterwards.                    *)
Reports == {chain} \cup (IF lag = NoLag THEN {} ELSE {lag})

Goto(t, label) == pc' = [pc EXCEPT ![t] = label]
Leave(t) ==
  /\ Goto(t, "idle")
  /\ read' = [read EXCEPT ![t] = 0] /\ seen' = [seen EXCEPT ![t] = 0]
  /\ amount' = [amount EXCEPT ![t] = 0]

-----------------------------------------------------------------------------
(* takePortfolioSnapshot.                                                   *)

AfterSnapshot(t) == IF t = "tick" THEN "exit" ELSE "deploy"

(* usdcBalance stays 0 when the balance cannot be read.                     *)
Begin(t) ==
  /\ t \in setup.running /\ pc[t] = "idle"
  /\ \E w \in {wallet} \cup (IF Faulty("read") THEN {0} ELSE {}) : read' = [read EXCEPT ![t] = w]
  /\ Goto(t, "query")
  /\ UNCHANGED <<money, books, streaks, base, pool, seen, amount, exitVars, jobVars, outside>>

Query(t) ==
  /\ pc[t] = "query"
  /\ \E v \in Reports : seen' = [seen EXCEPT ![t] = v]
  /\ lag' = NoLag
  /\ Goto(t, "apply")
  /\ UNCHANGED <<wallet, chain, books, streaks, base, pool, read, amount, exitVars, jobVars, outside>>

QueryFails(t) ==
  /\ pc[t] = "query"
  /\ Goto(t, AfterSnapshot(t))
  /\ UNCHANGED <<money, books, streaks, base, pool, read, seen, amount, exitVars, jobVars, outside>>

(* mutant: an empty pool is taken for a stale answer every time *)
SeesNothingNeverCloses(t) ==
  /\ seen[t] = 0
  /\ zero' = (IF open THEN 1 ELSE zero)
  /\ UNCHANGED <<reappear, recent, open, booked, captured>>

(* Nothing reported, but a row: the second time in a row closes it.         *)
SeesNothing(t) ==
  /\ seen[t] = 0
  /\ UNCHANGED <<reappear, recent>>
  /\ \/ open /\ zero = 0 /\ zero' = 1 /\ UNCHANGED <<open, booked, captured>>
     \/ open /\ zero = 1 /\ zero' = 0 /\ CloseRow
     \/ ~open /\ UNCHANGED <<zero, open, booked, captured>>

(* mutant: without the reconciliation *)
SeesUnbookedIgnored(t) ==
  /\ seen[t] > 0 /\ ~open
  /\ zero' = 0
  /\ UNCHANGED <<reappear, recent, captured, open, booked>>

(* Capital reported without a row: the second time opens one.               *)
SeesUnbooked(t) ==
  /\ seen[t] > 0 /\ ~open
  /\ zero' = 0
  /\ UNCHANGED <<recent, captured>>
  /\ \/ reappear = 0 /\ reappear' = 1 /\ UNCHANGED <<open, booked>>
     \/ reappear = 1 /\ reappear' = 0 /\ open' = TRUE /\ booked' = seen[t]

(* Less than booked is taken for a stale answer; so is more than the        *)
(* deposits of a day explain, until the time since the last update does.    *)
SeesBooked(t) ==
  /\ seen[t] > 0 /\ open
  /\ zero' = 0 /\ reappear' = 0
  /\ UNCHANGED <<open, recent, captured>>
  /\ \/ seen[t] >= booked /\ booked' = seen[t]
     \/ (seen[t] < booked \/ seen[t] > booked + recent) /\ UNCHANGED booked

Apply(t) ==
  /\ pc[t] = "apply"
  /\ SeesNothing(t) \/ SeesUnbooked(t) \/ SeesBooked(t)
  /\ Goto(t, AfterSnapshot(t))
  /\ seen' = [seen EXCEPT ![t] = 0]
  /\ UNCHANGED <<money, base, pool, read, amount, guard, jobVars, outside>>

-----------------------------------------------------------------------------
(* checkAndAutoExit and checkAndTopupSol: steps of the tick.                *)

(* Nothing to protect, or move.lock; a pool without a row is only disabled. *)
ExitSkipped(t) ==
  /\ pc[t] = "exit"
  /\ lock \/ ~open \/ ~Endangered
  /\ enabled' = (enabled /\ ~(~lock /\ ~open /\ health = "low"))
  /\ Goto(t, "topup")
  /\ UNCHANGED <<money, books, streaks, base, health, read, seen, amount, exitVars, jobVars, outside>>

ExitDue(t) ==
  /\ pc[t] = "exit"
  /\ ~lock /\ open /\ Endangered
  /\ guard' = (IF health = "low" THEN "tvl" ELSE "liquidity")
  /\ captured' = TRUE
  /\ Goto(t, "withdraw")
  /\ UNCHANGED <<money, books, streaks, base, pool, read, seen, amount, jobVars, outside>>

Withdraw(t) ==
  /\ pc[t] = "withdraw" /\ chain > 0
  /\ Flow(-chain)
  /\ amount' = [amount EXCEPT ![t] = chain]
  /\ Goto(t, "book")
  /\ UNCHANGED <<books, streaks, base, pool, read, seen, exitVars, jobVars, outside>>

(* Only counted and reported, also when the transaction lands all the same; *)
(* the next tick tries again.                                               *)
WithdrawFails(t) ==
  /\ pc[t] = "withdraw"
  /\ Lost(-chain)
  /\ captured' = FALSE
  /\ Goto(t, "topup")
  /\ UNCHANGED <<books, streaks, base, pool, read, seen, amount, guard, jobVars, outside>>

(* The rows read before the withdrawal are closed; the TVL guard disables.  *)
BookExit(t) ==
  /\ pc[t] = "book"
  /\ IF captured THEN CloseRow ELSE UNCHANGED <<open, booked, captured>>
  /\ enabled' = (enabled /\ guard # "tvl")
  /\ Goto(t, "send")
  /\ UNCHANGED <<money, recent, streaks, base, health, read, seen, amount, guard, jobVars, outside>>

(* sendUsdc of what is left of the proceeds; a failure is only reported.    *)
Send(t) ==
  /\ pc[t] = "send"
  /\ \/ setup.sends /\ wallet' = wallet - Least(amount[t], wallet)
     \/ wallet' = wallet
  /\ amount' = [amount EXCEPT ![t] = 0]
  /\ Goto(t, "topup")
  /\ UNCHANGED <<chain, lag, books, streaks, base, pool, read, seen, exitVars, jobVars, outside>>

(* The wallet's USDC may pay for SOL; the deposit still goes by the balance *)
(* read in the snapshot.                                                    *)
TopUp(t) ==
  /\ pc[t] = "topup"
  /\ wallet' \in {wallet} \cup (IF Happens("sol") /\ wallet > 0 THEN {wallet - 1} ELSE {})
  /\ Goto(t, "deploy")
  /\ UNCHANGED <<chain, lag, books, streaks, base, pool, read, seen, amount, exitVars, jobVars, outside>>

-----------------------------------------------------------------------------
(* checkAndDeployNewFunds, with the wallet as the snapshot saw it.          *)

(* mutant: rounding takes a unit away *)
NewFundsRounded(t) == read[t] - base - 1

NewFunds(t) == read[t] - base
Planned(t) == IF setup.cap > 0 THEN Least(NewFunds(t), setup.cap) ELSE NewFunds(t)

DeployPaused(t) ==
  /\ pc[t] = "deploy" /\ lock
  /\ Leave(t)
  /\ UNCHANGED <<money, books, streaks, base, pool, exitVars, jobVars, outside>>

(* The very first start, or no new funds: the balance is remembered, or 0   *)
(* if it is less than remembered.                                           *)
NothingNew(t) ==
  /\ pc[t] = "deploy" /\ ~lock
  /\ base = NoBase \/ NewFunds(t) < 1
  /\ base' = (IF base # NoBase /\ read[t] < base THEN 0 ELSE read[t])
  /\ Leave(t)
  /\ UNCHANGED <<money, books, streaks, pool, exitVars, jobVars, outside>>

(* The baseline moves before the pool is looked at.                         *)
FindFunds(t) ==
  /\ pc[t] = "deploy" /\ ~lock
  /\ base # NoBase /\ NewFunds(t) >= 1
  /\ base' = base + Planned(t)
  /\ IF Investable
       THEN /\ amount' = [amount EXCEPT ![t] = Planned(t)]
            /\ Goto(t, "deposit")
            /\ UNCHANGED <<read, seen>>
       ELSE Leave(t)
  /\ UNCHANGED <<money, books, streaks, pool, exitVars, jobVars, outside>>

Deposit(t) ==
  /\ pc[t] = "deposit"
  /\ Flow(amount[t])
  /\ Goto(t, "credit")
  /\ UNCHANGED <<books, streaks, base, pool, read, seen, amount, exitVars, jobVars, outside>>

(* The simulation refuses what the wallet does not hold; only logged.       *)
DepositFails(t) ==
  /\ pc[t] = "deposit"
  /\ \/ wallet < amount[t] /\ UNCHANGED money
     \/ Faulty("lost") /\ Lost(amount[t])
  /\ Leave(t)
  /\ UNCHANGED <<books, streaks, base, pool, exitVars, jobVars, outside>>

BookDeposit(t) ==
  /\ pc[t] = "credit"
  /\ Credit(amount[t])
  /\ Leave(t)
  /\ UNCHANGED <<money, streaks, base, pool, exitVars, jobVars, outside>>

-----------------------------------------------------------------------------
(* Manual jobs: bin/move.js, bin/withdraw.js, bin/deposit.js.  The lock is  *)
(* written without a look at it; a pool that is disabled takes no deposit.  *)

JobEnds == job' = NoJob /\ lock' = FALSE

JobBegin(k) ==
  /\ job.pc = "none" /\ jobs < MaxJobs /\ k \in setup.jobs
  /\ k = "deposit" => enabled
  /\ jobs' = jobs + 1
  /\ \E v \in Reports :
       /\ k # "deposit" => v > 0
       /\ job' = [pc |-> "work", kind |-> k, pos |-> IF k = "deposit" THEN 0 ELSE v, amt |-> 0]
  /\ lock' = TRUE
  /\ lag' = NoLag
  /\ UNCHANGED <<wallet, chain, books, streaks, base, pool, taskVars, exitVars, outside>>

JobWithdraw ==
  /\ job.pc = "work" /\ job.kind # "deposit"
  /\ \E n \in 1..chain :
       /\ setup.partial \/ n = chain
       /\ Flow(-n)
       /\ job' = [job EXCEPT !.pc = "book", !.amt = n]
  /\ UNCHANGED <<books, streaks, base, pool, taskVars, exitVars, lock, jobs, outside>>

(* A move closes the row of its source whatever it took out of it; a        *)
(* withdrawal closes it if it took all the position it had read, and else   *)
(* subtracts.                                                               *)
JobBook ==
  /\ job.pc = "book"
  /\ IF job.kind = "move" \/ job.pos - job.amt <= 0
       THEN CloseRow
       ELSE booked' = (IF open THEN booked - job.amt ELSE booked) /\ UNCHANGED <<open, captured>>
  /\ IF job.kind = "move"
       THEN job' = [job EXCEPT !.pc = "deposit"] /\ UNCHANGED lock
       ELSE JobEnds
  /\ UNCHANGED <<money, recent, streaks, base, pool, taskVars, guard, jobs, outside>>

(* The second half of a move, into a pool outside the model, may fail.      *)
JobMovesOn ==
  /\ job.pc = "deposit"
  /\ wallet' \in {wallet} \cup (IF wallet >= job.amt THEN {wallet - job.amt} ELSE {})
  /\ JobEnds
  /\ UNCHANGED <<chain, lag, books, streaks, base, pool, taskVars, exitVars, jobs, outside>>

JobDeposit ==
  /\ job.pc = "work" /\ job.kind = "deposit"
  /\ \E n \in 1..wallet :
       /\ Flow(n)
       /\ job' = [job EXCEPT !.pc = "credit", !.amt = n]
  /\ UNCHANGED <<books, streaks, base, pool, taskVars, exitVars, lock, jobs, outside>>

JobBookDeposit ==
  /\ job.pc = "credit"
  /\ Credit(job.amt)
  /\ JobEnds
  /\ UNCHANGED <<money, streaks, base, pool, taskVars, exitVars, jobs, outside>>

(* The transaction of a job fails, or lands without its job learning it.    *)
JobLost ==
  \/ UNCHANGED money
  \/ /\ Faulty("lost") /\ job.pc = "work"
     /\ \/ job.kind = "deposit" /\ \E n \in 1..wallet : Flow(n)
        \/ job.kind # "deposit" /\ \E n \in 1..chain : (setup.partial \/ n = chain) /\ Flow(-n)

(* Only reported; nothing is booked.                                        *)
JobFails ==
  /\ job.pc = "work"
  /\ JobLost
  /\ JobEnds
  /\ UNCHANGED <<books, streaks, base, pool, taskVars, exitVars, jobs, outside>>

(* A killed move leaves move.lock behind; the settings server removes that  *)
(* of the other jobs (onDone).                                              *)
JobDies ==
  /\ Faulty("kill") /\ job.pc # "none"
  /\ JobLost
  /\ job' = NoJob /\ lock' = (job.kind = "move")
  /\ UNCHANGED <<books, streaks, base, pool, taskVars, exitVars, jobs, outside>>

-----------------------------------------------------------------------------
(* The world outside, the user, and a restart of the bot.                   *)

Arrive(n) ==
  /\ income + n <= setup.funds
  /\ setup.once => income = 0
  /\ income' = income + n /\ wallet' = wallet + n
  /\ UNCHANGED <<chain, lag, books, streaks, base, pool, taskVars, exitVars, jobVars, setup, restarts>>

Measured(h) ==
  /\ h \in setup.turns \ {health}
  /\ health' = h
  /\ UNCHANGED <<money, books, streaks, base, enabled, taskVars, exitVars, jobVars, outside>>

DayPasses ==
  /\ Happens("day") /\ recent > 0
  /\ recent' = 0
  /\ UNCHANGED <<money, open, booked, streaks, base, pool, taskVars, exitVars, jobVars, outside>>

(* Enabling halves the thresholds the pool is below.                        *)
UserEnables ==
  /\ Happens("user") /\ ~enabled
  /\ enabled' = TRUE /\ health' = (IF Endangered THEN "good" ELSE health)
  /\ UNCHANGED <<money, books, streaks, base, taskVars, exitVars, jobVars, outside>>

(* Refused while a row holds capital.                                       *)
UserDisables ==
  /\ Happens("user") /\ enabled /\ ~(open /\ booked > 0)
  /\ enabled' = FALSE
  /\ UNCHANGED <<money, books, streaks, base, health, taskVars, exitVars, jobVars, outside>>

Restart ==
  /\ Faulty("restart") /\ restarts < MaxRestarts
  /\ restarts' = restarts + 1
  /\ pc' = [t \in Tasks |-> "idle"]
  /\ read' = [t \in Tasks |-> 0] /\ seen' = [t \in Tasks |-> 0] /\ amount' = [t \in Tasks |-> 0]
  /\ zero' = 0 /\ reappear' = 0 /\ captured' = FALSE
  /\ UNCHANGED <<setup, money, books, base, pool, guard, jobVars, income>>

Task(t) ==
  \/ Begin(t) \/ Query(t) \/ QueryFails(t) \/ Apply(t)
  \/ ExitSkipped(t) \/ ExitDue(t) \/ Withdraw(t) \/ WithdrawFails(t) \/ BookExit(t) \/ Send(t) \/ TopUp(t)
  \/ DeployPaused(t) \/ NothingNew(t) \/ FindFunds(t)
  \/ Deposit(t) \/ DepositFails(t) \/ BookDeposit(t)

Job ==
  \/ JobWithdraw \/ JobBook \/ JobMovesOn \/ JobDeposit \/ JobBookDeposit \/ JobFails

World ==
  \/ \E k \in Kinds : JobBegin(k)
  \/ JobDies
  \/ \E n \in 1..setup.funds : Arrive(n)
  \/ \E h \in Healths : Measured(h)
  \/ DayPasses \/ UserEnables \/ UserDisables
  \/ Restart

Next == (\E t \in Tasks : Task(t)) \/ Job \/ World

Spec == Init /\ [][Next]_vars

(* The timers fire again and every await of a task or a job ends; the API   *)
(* answers, and a withdrawal succeeds, as often as it is tried; a value     *)
(* refused as implausible is accepted in the end, since the time that has   *)
(* passed since the last update raises the threshold.                       *)
Fairness ==
  /\ \A t \in Tasks : WF_vars(Task(t)) /\ SF_vars(Query(t))
  /\ \A t \in Tasks : SF_vars(Withdraw(t)) /\ SF_vars(Apply(t) /\ booked' = seen[t])
  /\ WF_vars(Job)

FairSpec == Spec /\ Fairness

-----------------------------------------------------------------------------
(* Properties.                                                              *)

(* Nobody else is at work: one task comes due at a time, no manual job, and *)
(* what was sent has landed and is reported.                                *)
Undivided ==
  /\ \A t, u \in setup.running : t = u
  /\ setup.jobs = {} /\ setup.faults \subseteq {"read"}

(* Between a transaction and its booking.                                   *)
OnItsWay(t) ==
  IF pc[t] = "credit" THEN amount[t] ELSE IF pc[t] = "book" THEN -amount[t] ELSE 0

(* Then the row is exact at every moment, but for the transaction that is   *)
(* being booked, through any sequence of deposits, exits, failed reads and  *)
(* switches: whatever BooksCatchUp repairs comes from an overlap or a fault.*)
BooksFollow ==
  Undivided => chain = (IF open THEN booked ELSE 0) + OnItsWay("tick") + OnItsWay("sync")

(* A pool that stays below a guard ends up empty, also of what a deposit on *)
(* its way, a lagging answer, a lost row or a manual job has left there,    *)
(* unless a killed move has left its lock.                                  *)
EndangeredEmptied ==
  (~Faulty("kill") /\ "tick" \in setup.running) =>
    \A h \in {"low", "thin"} : <>[](health = h) => <>[](chain = 0)

(* A deposit is about to be credited to a row that claims too much already: *)
(* an answer of the API that came between the transaction and its booking   *)
(* has opened it, or a withdrawal has died before it was booked, or landed  *)
(* unseen.                                                                  *)
Overbooked ==
  /\ open
  /\ \/ job.pc = "credit" /\ booked + job.amt > chain
     \/ \E t \in Tasks : pc[t] = "credit" /\ booked + amount[t] > chain

(* Once nothing more happens to the pool, the row comes to hold what is in  *)
(* it, whatever was lost, killed or reported late in between, as long as no *)
(* withdrawal was partial and no deposit was credited twice: a row that     *)
(* says less grows, one of an empty pool is closed, a missing one is opened.*)
BooksCatchUp ==
  (~setup.partial /\ []~Overbooked) =>
    ((\E h \in Healths : <>[](health = h)) =>
        <>[](IF open THEN booked = chain ELSE chain = 0))

(* What comes in on a quiet day, at once and without a limit, is invested,  *)
(* however the tick and the sync overlap.                                   *)
FundsInvested ==
  (setup.once /\ setup.cap = 0 /\ setup.jobs = {} /\ setup.faults = {} /\ setup.lying # NoBase) =>
    ([](Investable) => (wallet > Lying ~> wallet <= Lying))
=============================================================================
