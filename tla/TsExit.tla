------------------------------- MODULE TsExit -------------------------------
(***************************************************************************)
(* One trailing stop exit of the liquidity bot: the state machine in the   *)
(* table ts_executions, executeTs() and resumePendingTsExecutions()        *)
(* (src/bots/liquidity/lib/trailing-stop.js) with the steps they share     *)
(* with the other exits (exit-finalizer.js) and closePosition() of         *)
(* pool-adapter/orca.js.  A step is one or more chain transactions and a   *)
(* row written after them; a run that fails or dies is resumed from the    *)
(* row.  Amounts are whole units worth one USDC each.                      *)
(***************************************************************************)
EXTENDS Naturals

CONSTANTS
  Configs,      \* configurations the exit may have: config_snapshot
  Circumstances,\* what may happen around it
  Principal,    \* liquidity of the position, per side
  Foreign,      \* units of every mint that other pools have in the wallet
  CapShare      \* a sale may exceed its coins by one part in so many (the code: 200)

Sides == {"A", "B"}
Mints == {"A", "B", "USDC"}
Awaits == {"wait", "claim", "decrease", "burn", "book", "markClosed", "swap", "pay"}
Legs == {"claim", "decrease", "burn", "swap", "pay"}
Steps == {"none", "preparing", "drained", "withdrawn", "swapped", "transferred", "complete"}

(* fee: fees of token A the position has earned; thin: a sale may take      *)
(* several tranches (EXIT_SWAP_MAX_CHUNKS); crashAt: awaits at which the    *)
(* process may die; unseen: transactions that may land although the run     *)
(* never learns it; late: more than 30 minutes may pass after the close.    *)
ASSUME ExitAssumption ==
  /\ Configs \subseteq [volatile : BOOLEAN, autoSwap : BOOLEAN, sendTo : BOOLEAN]
  /\ Circumstances \subseteq [fee : Nat, thin : BOOLEAN, crashAt : SUBSET Awaits,
                              unseen : SUBSET Legs, late : BOOLEAN]
  /\ Principal \in [Sides -> Nat] /\ Principal["A"] > 0
  /\ Foreign \in Nat /\ CapShare \in Nat \ {0}

VARIABLES
  cfg, around,            \* of Configs and Circumstances; they never change
  liquidity, fees, nft,   \* on chain: principal in it, open fees, it exists
  wallet,                 \* per mint
  dbOpen, active,         \* positions.closed_at IS NULL, pool.active
  step, rec, recUsdc,     \* ts_executions: step, ts_coins_a/b, swapped_usdc
  errored,                \* ts_executions: error_msg is set
  closeRow, closeUsd,     \* the close_position row and its usd_value (0: NULL)
  fresh,                  \* that row is younger than 30 minutes
  flow,                   \* capital_flows of the exit
  pc, coins, usdc,        \* the run: where it is, tsCoinsA/B, swappedUsdc
  side, left, chunk,      \* the run: token it sells or sends, amounts
  drainTx, out,           \* the run: decreaseTxHash, capitalOut
  message,                \* what the last failed run told the user
  released, sold, sent    \* history: out of the position, sold, sent away

setup == <<cfg, around>>
chainVars == <<liquidity, fees, nft>>
poolVars == <<dbOpen, active>>
rowVars == <<step, rec, recUsdc, errored>>
bookVars == <<closeRow, closeUsd, flow>>
runVars == <<pc, coins, usdc, side, left, chunk, drainTx, out>>
history == <<released, sold, sent>>
vars == <<setup, chainVars, wallet, poolVars, rowVars, bookVars, fresh, runVars, message, history>>

Zero == [s \in Sides |-> 0]
Least(x, y) == IF x < y THEN x ELSE y

(* Token B of a pair with USDC is USDC, which only the pairs of two         *)
(* volatile tokens sell (sellSideOf).                                       *)
MintOf(s) == IF s = "B" /\ ~cfg.volatile THEN "USDC" ELSE s
Sells(s) == s = "A" \/ cfg.volatile

TypeOK ==
  /\ cfg \in Configs /\ around \in Circumstances
  /\ liquidity \in BOOLEAN /\ fees \in Nat /\ nft \in BOOLEAN
  /\ wallet \in [Mints -> Nat]
  /\ dbOpen \in BOOLEAN /\ active \in BOOLEAN
  /\ step \in Steps /\ rec \in [Sides -> Nat] /\ recUsdc \in Nat /\ errored \in BOOLEAN
  /\ closeRow \in BOOLEAN /\ closeUsd \in Nat /\ fresh \in BOOLEAN /\ flow \in Nat
  /\ pc \in Awaits \cup {"idle", "withdraw", "sell", "swapped", "send", "transferred", "finish"}
  /\ coins \in [Sides -> Nat] /\ usdc \in Nat
  /\ side \in Sides /\ left \in Nat /\ chunk \in Nat
  /\ drainTx \in BOOLEAN /\ out \in BOOLEAN
  /\ message \in {"none", "log", "visible"}
  /\ released \in [Sides -> Nat] /\ sold \in [Sides -> Nat] /\ sent \in [Mints -> Nat]

Init ==
  /\ cfg \in Configs /\ around \in Circumstances
  /\ liquidity = TRUE /\ fees = around.fee /\ nft = TRUE
  /\ wallet = [m \in Mints |-> Foreign]
  /\ dbOpen = TRUE /\ active = TRUE
  /\ step = "none" /\ rec = Zero /\ recUsdc = 0 /\ errored = FALSE
  /\ closeRow = FALSE /\ closeUsd = 0 /\ fresh = TRUE /\ flow = 0
  /\ pc = "idle" /\ coins = Zero /\ usdc = 0
  /\ side = "A" /\ left = 0 /\ chunk = 0
  /\ drainTx = FALSE /\ out = FALSE
  /\ message = "none"
  /\ released = Zero /\ sold = Zero /\ sent = [m \in Mints |-> 0]

-----------------------------------------------------------------------------
(* How a run stops before its end.                                          *)

ForgetRun ==
  /\ pc' = "idle" /\ coins' = Zero /\ usdc' = 0
  /\ side' = "A" /\ left' = 0 /\ chunk' = 0
  /\ drainTx' = FALSE /\ out' = FALSE

(* The catch branch: error_msg, then notifyExitFailure(), which is only     *)
(* logged unless the run knows that capital has left the position.          *)
Fail ==
  /\ ForgetRun
  /\ errored' = TRUE
  /\ message' = IF out THEN "visible" ELSE "log"
  /\ UNCHANGED <<step, rec, recUsdc>>

Die == ForgetRun /\ message' = "none" /\ UNCHANGED rowVars

-----------------------------------------------------------------------------
(* What the transactions do (external: the chain).                          *)

ClaimEffect ==
  /\ fees' = 0
  /\ wallet' = [wallet EXCEPT !["A"] = @ + fees]
  /\ released' = [released EXCEPT !["A"] = @ + fees]
  /\ UNCHANGED <<liquidity, nft, sold, sent>>

DecreaseEffect ==
  /\ liquidity /\ nft
  /\ liquidity' = FALSE
  /\ wallet' = [m \in Mints |->
       wallet[m] + (IF m = "A" THEN Principal["A"] ELSE 0)
                 + (IF m = MintOf("B") THEN Principal["B"] ELSE 0)]
  /\ released' = [s \in Sides |-> released[s] + Principal[s]]
  /\ UNCHANGED <<fees, nft, sold, sent>>

(* Only an empty position without open fees can be closed.                  *)
BurnEffect ==
  /\ nft /\ ~liquidity /\ fees = 0
  /\ nft' = FALSE
  /\ UNCHANGED <<liquidity, fees, wallet, history>>

SwapEffect ==
  /\ wallet[side] >= chunk
  /\ wallet' = [wallet EXCEPT ![side] = @ - chunk, !["USDC"] = @ + chunk]
  /\ sold' = [sold EXCEPT ![side] = @ + chunk]
  /\ UNCHANGED <<chainVars, released, sent>>

PayMint == IF cfg.autoSwap THEN "USDC" ELSE MintOf(side)
PayEffect ==
  /\ wallet[PayMint] >= left
  /\ wallet' = [wallet EXCEPT ![PayMint] = @ - left]
  /\ sent' = [sent EXCEPT ![PayMint] = @ + left]
  /\ UNCHANGED <<chainVars, released, sold>>

-----------------------------------------------------------------------------
(* Starting and resuming.                                                   *)

(* shouldTriggerTs() of a tick or of the fast check; executeTs() then waits *)
(* for a cleanup.                                                           *)
Trigger ==
  /\ pc = "idle" /\ step = "none" /\ dbOpen /\ active
  /\ pc' = "wait"
  /\ UNCHANGED <<setup, chainVars, wallet, poolVars, rowVars, bookVars, fresh, coins, usdc,
                 side, left, chunk, drainTx, out, message, history>>

StartExit ==
  /\ pc = "wait"
  /\ step' = "preparing" /\ active' = FALSE
  /\ pc' = "withdraw"
  /\ UNCHANGED <<setup, chainVars, wallet, dbOpen, rec, recUsdc, errored, bookVars, fresh,
                 coins, usdc, side, left, chunk, drainTx, out, message, history>>

AfterSwap == IF cfg.sendTo THEN "send" ELSE "finish"
AfterWithdraw == IF cfg.autoSwap THEN "sell" ELSE AfterSwap

CapitalOutSteps == {"drained", "withdrawn", "swapped", "transferred"}
(* Mutant: the end of the sale is not looked at, and the sale repeated.     *)
ResumeAtSale == CASE step \in {"preparing", "drained"} -> "withdraw"
                  [] step \in {"withdrawn", "swapped"} -> AfterWithdraw
                  [] step = "transferred" -> "finish"
ResumeAt == CASE step \in {"preparing", "drained"} -> "withdraw"
              [] step = "withdrawn" -> AfterWithdraw
              [] step = "swapped" -> AfterSwap
              [] step = "transferred" -> "finish"

IncompleteWithCapital == step \in CapitalOutSteps
Incomplete == step \notin {"none", "complete"}

(* resumePendingTsExecutions(): at startup, every 15 minutes, and shortly   *)
(* after a failure.                                                         *)
Resume ==
  /\ pc = "idle" /\ Incomplete
  /\ pc' = ResumeAt
  /\ coins' = rec /\ usdc' = recUsdc
  /\ out' = (step \in CapitalOutSteps)
  /\ message' = "none"
  /\ UNCHANGED <<setup, chainVars, wallet, poolVars, rowVars, bookVars, fresh,
                 side, left, chunk, drainTx, history>>

(* withdraw.js or a manual close, while no exit runs: the position is gone. *)
ManualWithdraw ==
  /\ pc \in {"idle", "wait"} /\ dbOpen /\ liquidity
  /\ liquidity' = FALSE /\ nft' = FALSE /\ fees' = 0 /\ dbOpen' = FALSE
  /\ UNCHANGED <<setup, wallet, active, rowVars, bookVars, fresh, runVars, message, history>>

-----------------------------------------------------------------------------
(* stepWithdraw().                                                          *)

WithdrawnQuiet(c) ==
  /\ step' = "withdrawn" /\ rec' = c /\ coins' = c
  /\ dbOpen' = FALSE
  /\ pc' = AfterWithdraw
  /\ UNCHANGED <<active, recUsdc, errored, usdc, side, left, chunk, out>>
Withdrawn(c) ==
  /\ step' = "withdrawn" /\ rec' = c /\ coins' = c
  /\ dbOpen' = FALSE
  /\ out' = (out \/ c["A"] > 0 \/ c["B"] > 0)
  /\ pc' = AfterWithdraw
  /\ UNCHANGED <<active, recUsdc, errored, usdc, side, left, chunk>>

StepWithdraw ==
  /\ pc = "withdraw"
  /\ \/ step = "drained" /\ Withdrawn(rec) /\ UNCHANGED drainTx
     \/ step # "drained" /\ ~dbOpen /\ Withdrawn(Zero) /\ UNCHANGED drainTx
     \/ /\ step # "drained" /\ dbOpen
        /\ pc' = "claim" /\ coins' = Zero
        /\ UNCHANGED <<poolVars, rowVars, usdc, side, left, chunk, drainTx, out>>
  /\ UNCHANGED <<setup, chainVars, wallet, bookVars, fresh, message, history>>

(* prepareExitAndClaimFees(): without SOL the exit fails; a claim that      *)
(* fails or is skipped does not stop it.                                    *)
Claim ==
  /\ pc = "claim"
  /\ pc' = "decrease"
  /\ \/ ClaimEffect /\ coins' = [coins EXCEPT !["A"] = fees]
     \/ UNCHANGED <<chainVars, wallet, history, coins>>
  /\ UNCHANGED <<setup, poolVars, rowVars, bookVars, fresh, usdc, side, left, chunk,
                 drainTx, out, message>>

PlusFeesAgain(c) == [s \in Sides |-> c[s] + c[s] + Principal[s]]
Plus(c) == [s \in Sides |-> c[s] + Principal[s]]

(* closePosition(), first leg; an empty position needs none.                *)
Decrease ==
  /\ pc = "decrease" /\ nft
  /\ \/ DecreaseEffect /\ drainTx' = TRUE /\ coins' = Plus(coins)
     \/ ~liquidity /\ UNCHANGED <<chainVars, wallet, history, drainTx, coins>>
  /\ pc' = "burn"
  /\ UNCHANGED <<setup, poolVars, rowVars, bookVars, fresh, usdc, side, left, chunk, out, message>>

(* Second leg: the empty NFT.  getTxFee() is awaited before the row.        *)
Burn ==
  /\ pc = "burn" /\ BurnEffect
  /\ pc' = "book"
  /\ UNCHANGED <<setup, poolVars, rowVars, bookVars, fresh, coins, usdc, side, left, chunk,
                 drainTx, out, message>>

Book ==
  /\ pc = "book"
  /\ closeRow' = TRUE
  /\ Withdrawn(coins)
  /\ UNCHANGED <<setup, chainVars, wallet, closeUsd, flow, fresh, drainTx, message, history>>

RescueAborts ==
  /\ pc = "burn" /\ drainTx
  /\ Fail
  /\ UNCHANGED <<setup, chainVars, wallet, poolVars, bookVars, fresh, history>>

(* withPartialExit(), recordDrainedClose(), step 'drained': the burn failed *)
(* after the capital was taken out.                                         *)
Rescue ==
  /\ pc = "burn" /\ drainTx
  /\ \/ UNCHANGED <<chainVars, wallet, history>>
     \/ "burn" \in around.unseen /\ BurnEffect
  /\ closeRow' = TRUE
  /\ step' = "drained" /\ rec' = coins
  /\ pc' = "markClosed"
  /\ UNCHANGED <<setup, poolVars, recUsdc, errored, closeUsd, flow, fresh, coins, usdc,
                 side, left, chunk, drainTx, out, message>>

MarkClosed ==
  /\ pc = "markClosed"
  /\ Withdrawn(coins)
  /\ UNCHANGED <<setup, chainVars, wallet, bookVars, fresh, drainTx, message, history>>

-----------------------------------------------------------------------------
(* executeSwapStep().                                                       *)

(* capToPosition(): a little more than what the position released, for the  *)
(* estimate may be short of it (EXIT_CAP_TOLERANCE_PCT).                    *)
CapOf(fromPosition) == fromPosition + fromPosition \div CapShare

(* With sendTo exactly the coins of the exit, else what the cap allows of   *)
(* the wallet, whoever owns it.                                             *)
SellWholeBalance == IF ~Sells(side) THEN 0
                    ELSE IF cfg.sendTo THEN coins[side] ELSE wallet[side]
SellAmount == IF ~Sells(side) THEN 0
              ELSE IF cfg.sendTo THEN coins[side]
              ELSE Least(wallet[side], CapOf(coins[side]))
ChunkSizes(amount) == {amount} \cup (IF around.thin THEN {1} ELSE {})

Sell ==
  /\ pc = "sell"
  /\ \/ /\ SellAmount > 0
        /\ pc' = "swap" /\ left' = SellAmount
        /\ chunk' \in ChunkSizes(SellAmount)
        /\ UNCHANGED side
     \/ /\ SellAmount = 0
        /\ IF side = "A" THEN pc' = "sell" /\ side' = "B"
                         ELSE pc' = "swapped" /\ UNCHANGED side
        /\ UNCHANGED <<left, chunk>>
  /\ UNCHANGED <<setup, chainVars, wallet, poolVars, rowVars, bookVars, fresh, coins, usdc,
                 drainTx, out, message, history>>

Swap ==
  /\ pc = "swap" /\ SwapEffect
  /\ usdc' = usdc + chunk
  /\ left' = left - chunk
  /\ IF left > chunk THEN UNCHANGED <<pc, side>>
     ELSE IF side = "A" THEN pc' = "sell" /\ side' = "B"
                        ELSE pc' = "swapped" /\ UNCHANGED side
  /\ UNCHANGED <<setup, poolVars, rowVars, bookVars, fresh, coins, chunk, drainTx, out, message>>

(* The USDC side of the position is added to what the sale brought.         *)
TotalOfSale == usdc
Total == usdc + (IF cfg.volatile THEN 0 ELSE coins["B"])

(* onSwapped: step 'swapped' and recordExitProceeds().                      *)
EndSwap ==
  /\ pc = "swapped"
  /\ step' = "swapped" /\ recUsdc' = Total /\ usdc' = Total
  /\ flow' = flow + Total
  /\ closeUsd' = IF closeRow /\ fresh /\ closeUsd = 0 THEN Total ELSE closeUsd
  /\ pc' = AfterSwap /\ side' = "A"
  /\ UNCHANGED <<setup, chainVars, wallet, poolVars, rec, errored, closeRow, fresh, coins,
                 left, chunk, drainTx, out, message, history>>

-----------------------------------------------------------------------------
(* executeTransferStep() and the end.                                       *)

SendWholeBalance == IF ~cfg.autoSwap THEN coins[side]
                    ELSE IF side = "A" THEN wallet["USDC"] ELSE 0
SendAmount == IF ~cfg.autoSwap THEN coins[side]
              ELSE IF side = "A" THEN Least(usdc, wallet["USDC"]) ELSE 0

Send ==
  /\ pc = "send"
  /\ \/ /\ SendAmount > 0
        /\ pc' = "pay" /\ left' = SendAmount /\ UNCHANGED side
     \/ /\ SendAmount = 0
        /\ IF side = "A" THEN pc' = "send" /\ side' = "B"
                         ELSE pc' = "transferred" /\ UNCHANGED side
        /\ UNCHANGED left
  /\ UNCHANGED <<setup, chainVars, wallet, poolVars, rowVars, bookVars, fresh, coins, usdc,
                 chunk, drainTx, out, message, history>>

Pay ==
  /\ pc = "pay" /\ PayEffect
  /\ left' = 0
  /\ IF side = "A" THEN pc' = "send" /\ side' = "B"
                   ELSE pc' = "transferred" /\ UNCHANGED side
  /\ UNCHANGED <<setup, poolVars, rowVars, bookVars, fresh, coins, usdc, chunk, drainTx, out, message>>

EndTransfer ==
  /\ pc = "transferred"
  /\ step' = "transferred" /\ pc' = "finish"
  /\ UNCHANGED <<setup, chainVars, wallet, poolVars, rec, recUsdc, errored, bookVars, fresh,
                 coins, usdc, side, left, chunk, drainTx, out, message, history>>

Finish ==
  /\ pc = "finish"
  /\ step' = "complete" /\ errored' = FALSE
  /\ ForgetRun
  /\ UNCHANGED <<setup, chainVars, wallet, poolVars, rec, recUsdc, bookVars, fresh, message, history>>

-----------------------------------------------------------------------------
(* What goes wrong.                                                         *)

(* A call throws and nothing has landed: no SOL, slippage, no balance, the  *)
(* position account is gone.  A failed burn after a decrease is a Rescue.   *)
Refused ==
  /\ pc \in Legs /\ ~(pc = "burn" /\ drainTx)
  /\ Fail
  /\ UNCHANGED <<setup, chainVars, wallet, poolVars, bookVars, fresh, history>>

Effect == \/ pc = "claim" /\ ClaimEffect
          \/ pc = "decrease" /\ DecreaseEffect
          \/ pc = "burn" /\ BurnEffect
          \/ pc = "swap" /\ SwapEffect
          \/ pc = "pay" /\ PayEffect

(* A transaction lands, but its call throws (unconfirmed) or the process    *)
(* dies before it returns.                                                  *)
LandsUnseen ==
  /\ pc \in around.unseen /\ Effect
  /\ Die \/ (Fail /\ ~(pc = "burn" /\ drainTx))
  /\ UNCHANGED <<setup, poolVars, bookVars, fresh>>

(* The process dies while nothing is under way.                             *)
Crash ==
  /\ pc \in around.crashAt
  /\ Die
  /\ UNCHANGED <<setup, chainVars, wallet, poolVars, bookVars, fresh, history>>

(* Half an hour after the close, setCloseProceeds() no longer finds it.     *)
WindowPasses ==
  /\ around.late /\ closeRow /\ fresh /\ fresh' = FALSE
  /\ UNCHANGED <<setup, chainVars, wallet, poolVars, rowVars, bookVars, runVars, message, history>>

Withdrawal == StepWithdraw \/ Claim \/ Decrease \/ Burn \/ Book \/ Rescue \/ MarkClosed
Proceed == Sell \/ Swap \/ EndSwap \/ Send \/ Pay \/ EndTransfer \/ Finish

Next ==
  \/ Trigger \/ StartExit \/ Resume \/ ManualWithdraw
  \/ Withdrawal \/ Proceed
  \/ Refused \/ LandsUnseen \/ Crash \/ WindowPasses

Spec == Init /\ [][Next]_vars

(* The bot keeps running and resumes every 15 minutes; a transaction that   *)
(* is tried again and again lands eventually.                               *)
Fairness ==
  /\ WF_vars(StartExit) /\ WF_vars(Resume) /\ WF_vars(StepWithdraw)
  /\ SF_vars(Claim) /\ SF_vars(Decrease) /\ SF_vars(Burn \/ Rescue) /\ SF_vars(Book)
  /\ SF_vars(MarkClosed) /\ WF_vars(Sell) /\ SF_vars(Swap) /\ WF_vars(EndSwap)
  /\ WF_vars(Send) /\ SF_vars(Pay) /\ WF_vars(EndTransfer) /\ WF_vars(Finish)

FairSpec == Spec /\ Fairness

-----------------------------------------------------------------------------
(* Properties.  What several transactions do between two records cannot be  *)
(* told by a resume: where a property depends on that, it says so.          *)

TotalReleased == released["A"] + released["B"]

(* What the exit has earned: its sales and the USDC side of the position.   *)
Earned == sold["A"] + (IF cfg.volatile THEN sold["B"] ELSE released["B"])

(* The withdrawal is not interrupted between the chain and its record, no   *)
(* landing is missed, no fees are claimed by an attempt that fails.         *)
Undisturbed ==
  /\ around.unseen = {} /\ around.crashAt \cap {"burn", "book"} = {}
  /\ around.fee = 0

(* The swap step and the transfer step are one transaction each.            *)
OneSale == cfg.autoSwap => ~cfg.volatile /\ ~around.thin
OnePayment == cfg.sendTo => cfg.autoSwap

(* Capital that has left the position is known to the row whenever no run   *)
(* is at work: a resume sells all of it (LIQ#0312, stepWithdraw).           *)
CapitalKnown ==
  Undisturbed /\ pc = "idle" /\ TotalReleased > 0 =>
    step \in CapitalOutSteps \cup {"complete"} /\ rec = released

(* Nothing is recorded as taken out before it was (closePositionOrRescue).  *)
NeverKnownBeforeOut ==
  /\ \A s \in Sides : rec[s] <= released[s] /\ coins[s] <= released[s]
  /\ step \notin {"none", "preparing", "drained"} => ~dbOpen

(* A completed exit has sold what it released, up to the tolerance of the   *)
(* cap, and both bookings (recordExitProceeds) show what it earned.         *)
ProceedsBooked ==
  Undisturbed /\ OneSale /\ ~around.late
    /\ step = "complete" /\ cfg.autoSwap /\ TotalReleased > 0 =>
      /\ \A s \in Sides :
           Sells(s) => released[s] <= sold[s] /\ sold[s] <= CapOf(released[s])
      /\ flow = Earned /\ closeUsd = Earned

(* No run sells more than what its position released and the tolerance of   *)
(* capToPosition(), in one sale or in many; nor does an exit, over all its  *)
(* resumes, when its sale is one transaction whose landing is not missed:   *)
(* beyond that, the tokens of others in the wallet stay there.              *)
Selling == {"sell", "swap", "swapped"}
SoldByRun == usdc + (IF pc = "swap" THEN left ELSE 0)
SaleCapped ==
  /\ pc \in Selling =>
       SoldByRun <= CapOf(released["A"]) + (IF cfg.volatile THEN CapOf(released["B"]) ELSE 0)
  /\ OneSale /\ "swap" \notin around.unseen =>
       \A s \in Sides : sold[s] <= CapOf(released[s])

(* What the receiver is owed: what the exit earned, or its tokens.          *)
Due(m) == IF cfg.autoSwap THEN (IF m = "USDC" THEN Earned ELSE 0)
          ELSE (IF m = "A" THEN released["A"] ELSE 0)
             + (IF m = MintOf("B") THEN released["B"] ELSE 0)

(* The receiver gets nothing twice (header of exit-finalizer.js, lines      *)
(* 18-20: both steps are idempotent).                                       *)
NeverSentTwice == \A m \in Mints : sent[m] <= Due(m)

(* The receiver gets what is due, once, whatever is resumed.                *)
DeliveredOnce ==
  Undisturbed /\ OneSale /\ OnePayment =>
    /\ NeverSentTwice
    /\ step = "complete" /\ cfg.sendTo => \A m \in Mints : sent[m] = Due(m)

(* A failure that is only logged has moved nothing (notifyExitFailure).     *)
LogMeansNothingMoved ==
  Undisturbed /\ message = "log" /\ step # "complete" => TotalReleased = 0

(* Resumes, failures, crashes and unseen landings never undo a record: the  *)
(* row never goes back, its coins stay once they are written, and one step, *)
(* from 'withdrawn' to 'swapped', is all that ever books proceeds           *)
(* (recordExitProceeds), so that no exit books them twice.                  *)
Late == {"swapped", "transferred", "complete"}
Prefixes ==
  {{"none"}, {"none", "preparing"}, {"none", "preparing", "drained"}, Steps \ Late,
   Steps \ {"transferred", "complete"}, Steps \ {"complete"}}
Stands ==
  /\ \A S \in Prefixes : step \notin S => step' \notin S
  /\ step \notin {"none", "preparing"} => rec' = rec
  /\ UNCHANGED <<recUsdc, flow, closeUsd>> \/ (step = "withdrawn" /\ step' = "swapped")
RecordStands == [][Stands]_vars

(* Every exit that was started completes.                                   *)
Completes ==
  (step = "preparing" /\ Undisturbed /\ OneSale /\ OnePayment) ~> (step = "complete")
=============================================================================
