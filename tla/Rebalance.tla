------------------------------ MODULE Rebalance ------------------------------
(***************************************************************************)
(* The life of one position of the liquidity bot between its opening and   *)
(* an exit (src/bots/liquidity/bin/bot.js): _doRebalance() closes it and   *)
(* opens a new one around the price, _openNewPosition() makes up for an    *)
(* opening that did not happen, _finishRebalanceOpen() pays rests into the *)
(* new position and books what stays in the wallet, _shiftTopUpIfDue()     *)
(* pays that rest in later (lib/rebalance-shift.js).  Every await is a     *)
(* state of its own; one unit is 5 USDC, the smallest rest the code        *)
(* handles; token mix and swaps do not change value.                       *)
(***************************************************************************)
EXTENDS Naturals

CONSTANTS
  Circumstances,  \* what may happen around the bot
  Principal,      \* units in the position at the start
  Foreign,        \* units of others in the wallet, at the start and at most
  Cap,            \* bound: fees accrue only below this many units in all,
                  \* a rebalance starts only while the ledger owes no more
  Threshold,      \* SHIFT_TOPUP_MIN_USDC in units
  MaxFails        \* MAX_OPEN_POSITION_FAILS

RebalanceAwaits == {"baseline", "claim", "close", "closeFee", "burntFee",
                    "price", "swap", "open", "openFee"}
ReopenAwaits == {"rPrice", "rSwap", "rOpen", "rFee"}
FinishAwaits == {"reconcile", "sweep", "sweepFee", "finish"}
TopUpAwaits == {"topUp", "topFee"}
Awaits == RebalanceAwaits \cup ReopenAwaits \cup FinishAwaits \cup TopUpAwaits

FeeAwaits == {"closeFee", "openFee", "rFee", "sweepFee", "topFee"}

(* volatile: neither token is USDC; may: what can go wrong -- a leg up to   *)
(* the close is refused, a burn fails, a leg after the close fails, the     *)
(* wallet cannot be read during the payments; unseen: legs that may land    *)
(* although the call throws; noFee: awaits where the fee may not be         *)
(* readable; crashAt: awaits at which the process may die; events: what     *)
(* others do, "meanwhile": even while the bot is at work.                   *)
Mishaps == {"refuse", "burn", "fail", "read"}
Legs == {"claim", "close", "open", "payIn", "topUp"}
Events == {"others", "meanwhile", "fees", "exit", "manual", "force", "forceTopUp"}
ASSUME RebalanceAssumption ==
  /\ Circumstances \subseteq [volatile : BOOLEAN, may : SUBSET Mishaps,
                              unseen : SUBSET Legs,
                              noFee : SUBSET FeeAwaits, crashAt : SUBSET Awaits,
                              events : SUBSET Events]
  /\ Principal \in Nat \ {0} /\ Foreign \in Nat /\ Cap \in Nat
  /\ Threshold \in Nat \ {0} /\ MaxFails \in Nat \ {0}

VARIABLES
  around,          \* of Circumstances; it never changes
  held, fees,      \* on chain: units in the position, its open fees
  stray, lost,     \* on chain: an NFT without an open row, units in it
  price,           \* in or out of the range of the position
  wallet, foreign, \* units in the wallet, those of others among them
  row, capital,    \* the newest row of positions: open or closed, capital_usdc
  note, closed,    \* close_position of that row: note, amount
  claimed,         \* claim with note 'vor-rebalance' before that close
  recent, age,     \* a close_position is younger than 30 min; age of the close
  shift,           \* balance of the shift ledger: leftovers minus settles
  cool, tried,     \* last rebalance, last top-up too young for another one
  active, refused, \* pool.active; why it is off: an opening was refused
  pending,         \* the flag rebalance-pending-<pool>
  force, manual,   \* the flag force-rebalance-<pool>, manual.lock
  block,           \* foreignExitBlock(): an exit elsewhere reserves a token
  pc, after,       \* the bot: the await it is in, what the opening follows
  base, keep,      \* baseWalletA/B, claimedKeepA/B
  freed, done,     \* newCapital, what of it is in the new position
  fails            \* _openPositionFailCount

chain == <<held, fees, stray, lost, price>>
money == <<wallet, foreign>>
rows == <<row, capital, note, closed, claimed, recent, age>>
ledger == <<shift, cool, tried>>
flags == <<refused, pending, force>>
others == <<manual, block>>
run == <<pc, after, base, keep, freed, done>>
vars == <<around, chain, money, rows, ledger, active, flags, others, run, fails>>

May(m) == m \in around.may
Event(e) == e \in around.events
Unseen(leg) == leg \in around.unseen
NoFee == pc \in around.noFee
Least(x, y) == IF x < y THEN x ELSE y
Above(x, y) == IF x > y THEN x - y ELSE 0

TypeOK ==
  /\ around \in Circumstances
  /\ held \in Nat /\ fees \in Nat /\ stray \in BOOLEAN /\ lost \in Nat
  /\ price \in {"in", "out"}
  /\ wallet \in Nat /\ foreign \in Nat
  /\ row \in {"open", "closed"} /\ capital \in Nat
  /\ note \in {"none", "rebalance", "burnOpen", "manual"}
  /\ closed \in Nat /\ claimed \in Nat /\ recent \in BOOLEAN /\ age \in 0..2
  /\ shift \in Nat /\ cool \in BOOLEAN /\ tried \in BOOLEAN
  /\ active \in BOOLEAN /\ refused \in BOOLEAN /\ pending \in BOOLEAN
  /\ force \in BOOLEAN /\ manual \in BOOLEAN /\ block \in BOOLEAN
  /\ pc \in {"idle"} \cup Awaits /\ after \in {"none", "rebalance", "retry", "fresh"}
  /\ base \in Nat /\ keep \in Nat /\ freed \in Nat /\ done \in Nat
  /\ fails \in 0..MaxFails

Init ==
  /\ around \in Circumstances
  /\ held = Principal /\ fees = 0 /\ stray = FALSE /\ lost = 0 /\ price = "in"
  /\ wallet = Foreign /\ foreign = Foreign
  /\ row = "open" /\ capital = Principal
  /\ note = "none" /\ closed = 0 /\ claimed = 0 /\ recent = FALSE /\ age = 2
  /\ shift = 0 /\ cool = FALSE /\ tried = FALSE
  /\ active = TRUE /\ refused = FALSE /\ pending = FALSE
  /\ force = FALSE /\ manual = FALSE /\ block = FALSE
  /\ pc = "idle" /\ after = "none" /\ base = 0 /\ keep = 0 /\ freed = 0 /\ done = 0
  /\ fails = 0

GoIdle == /\ pc' = "idle" /\ after' = "none"
        /\ base' = 0 /\ keep' = 0 /\ freed' = 0 /\ done' = 0

-----------------------------------------------------------------------------
(* _doRebalance(): why it starts, and what it gives up for.                 *)

Wanted(reason) == IF reason = "manual" THEN force ELSE price = "out" /\ ~cool

StartRebalance(reason) ==
  /\ pc = "idle" /\ active /\ row = "open" /\ Wanted(reason)
  /\ ~block /\ ~manual /\ shift <= Cap
  /\ force' = (force /\ reason # "manual")
  /\ pc' = "baseline" /\ after' = "rebalance"
  /\ UNCHANGED <<around, chain, money, rows, ledger, active, refused, pending,
                 others, base, keep, freed, done, fails>>

(* The flag is deleted before _doRebalance() looks at the locks.            *)
RequestDropped ==
  /\ pc = "idle" /\ active /\ row = "open" /\ force /\ (block \/ manual)
  /\ force' = FALSE
  /\ UNCHANGED <<around, chain, money, rows, ledger, active, refused, pending,
                 others, run, fails>>

(* What lies in the wallet before is left alone, except with two volatile   *)
(* tokens: there the amounts of the close are the bound.                    *)
Baseline ==
  /\ pc = "baseline"
  /\ base' = IF around.volatile THEN 0 ELSE wallet
  /\ pc' = IF fees > 0 THEN "claim" ELSE "close"
  /\ UNCHANGED <<around, chain, money, rows, ledger, active, flags, others, after,
                 keep, freed, done, fails>>

ClaimEffect == fees' = 0 /\ wallet' = wallet + fees

Claim ==
  /\ pc = "claim" /\ pc' = "close"
  /\ \/ ClaimEffect /\ keep' = fees /\ claimed' = fees
     \/ May("refuse") /\ UNCHANGED <<fees, wallet, keep, claimed>>
     \/ Unseen("claim") /\ ClaimEffect /\ UNCHANGED <<keep, claimed>>
  /\ UNCHANGED <<around, held, stray, lost, price, foreign, row, capital, note,
                 closed, recent, age, ledger, active, flags, others, after, base,
                 freed, done, fails>>

DrainEffect == held' = 0 /\ wallet' = wallet + held

(* The row is closed at once, the transaction row only after its fee has    *)
(* been read.  A position with open fees cannot be burnt.                   *)
CloseDone ==
  /\ pc = "close" /\ fees = 0
  /\ DrainEffect
  /\ row' = "closed" /\ closed' = held /\ note' = "none" /\ age' = 0
  /\ pc' = "closeFee"
  /\ UNCHANGED <<around, fees, stray, lost, price, foreign, capital, claimed, recent,
                 ledger, active, flags, others, after, base, keep, freed, done, fails>>

CloseBooked ==
  /\ pc = "closeFee"
  /\ note' = "rebalance" /\ recent' = TRUE /\ pending' = FALSE
  /\ pc' = "price"
  /\ UNCHANGED <<around, chain, money, row, capital, closed, claimed, age, ledger, active,
                 refused, force, others, after, base, keep, freed, done, fails>>

(* err.partialExit: the liquidity is out, the NFT is not burnt.             *)
BurnFails ==
  /\ pc = "close" /\ held > 0 /\ (May("burn") \/ fees > 0)
  /\ DrainEffect
  /\ closed' = held
  /\ pc' = "burntFee"
  /\ UNCHANGED <<around, fees, stray, lost, price, foreign, row, capital, note, claimed,
                 recent, age, ledger, active, flags, others, after, base, keep, freed,
                 done, fails>>

BurntBooked ==
  /\ pc = "burntFee"
  /\ row' = "closed" /\ note' = "burnOpen" /\ recent' = TRUE /\ age' = 0
  /\ stray' = TRUE /\ pending' = FALSE
  /\ pc' = "price"
  /\ UNCHANGED <<around, held, fees, lost, price, money, capital, closed, claimed, ledger,
                 active, refused, force, others, after, base, keep, freed, done, fails>>

(* The catch branch of the close, also when only the fee could not be read. *)
CloseFails ==
  /\ \/ pc = "close" /\ May("refuse") /\ UNCHANGED <<held, wallet>>
     \/ pc = "close" /\ Unseen("close") /\ held > 0 /\ DrainEffect
     \/ pc = "close" /\ fees > 0 /\ held = 0 /\ UNCHANGED <<held, wallet>>
     \/ pc = "closeFee" /\ NoFee /\ UNCHANGED <<held, wallet>>
  /\ pending' = TRUE
  /\ GoIdle
  /\ UNCHANGED <<around, fees, stray, lost, price, foreign, rows, ledger, active,
                 refused, force, others, fails>>

-----------------------------------------------------------------------------
(* The new position: what it may take, and the ways not to open it.         *)

(* Mutant: the capital is all there is in the wallet.                       *)
DeliveredAll(known) == wallet

(* volatileRebalanceCapital(): what the close is known to have delivered,   *)
(* else the old book value, else the wallet.                                *)
Delivered(known) ==
  IF known > 0 THEN Least(known, wallet)
  ELSE IF capital > 0 THEN Least(capital, wallet) ELSE wallet

PriceKnown ==
  /\ pc = "price"
  /\ freed' = IF around.volatile THEN Delivered(closed + keep) ELSE Above(wallet, base)
  /\ pc' = "swap"
  /\ UNCHANGED <<around, chain, money, rows, ledger, active, flags, others, after,
                 base, keep, done, fails>>

(* abortedRebalanceContext(): the newest position was closed by a           *)
(* rebalance within a day.  _isPreservationReopen(): only then, or after    *)
(* any close of the last half hour, the bot opens at all.                   *)
Aborted == row = "closed" /\ age < 2 /\ note \in {"rebalance", "burnOpen"}
(* Mutant: a close of the last half hour does not count.                    *)
PreservationAborted == Aborted
Preservation == recent \/ Aborted

StartReopen ==
  /\ pc = "idle" /\ active /\ row = "closed" /\ Preservation /\ ~block
  /\ pc' = "rPrice"
  /\ UNCHANGED <<around, chain, money, rows, ledger, active, flags, others, after,
                 base, keep, freed, done, fails>>

(* Mutant: the refused pool stays on.                                       *)
RefuseOnly ==
  /\ pc = "idle" /\ active /\ row = "closed" /\ ~Preservation
  /\ refused' = TRUE
  /\ UNCHANGED <<around, chain, money, rows, ledger, active, pending, force, others, run, fails>>

Refuse ==
  /\ pc = "idle" /\ active /\ row = "closed" /\ ~Preservation
  /\ active' = FALSE /\ refused' = TRUE
  /\ UNCHANGED <<around, chain, money, rows, ledger, pending, force, others, run, fails>>

ReopenTarget == Delivered(IF Aborted THEN closed + claimed ELSE 0)
TooPoor == ~Aborted /\ 10 * wallet < 3 * capital

ReopenPriceKnown ==
  /\ pc = "rPrice" /\ ~TooPoor
  /\ freed' = ReopenTarget
  /\ after' = IF Aborted THEN "retry" ELSE "fresh"
  /\ pc' = "rSwap"
  /\ UNCHANGED <<around, chain, money, rows, ledger, active, flags, others, base, keep,
                 done, fails>>

(* _recordOpenPositionAbort() and the catch branches: the third failure in  *)
(* a row switches the pool off.                                             *)
Counted ==
  IF fails + 1 < MaxFails THEN fails' = fails + 1 /\ UNCHANGED active
                          ELSE fails' = 0 /\ active' = FALSE
Uncounted == UNCHANGED <<fails, active>>

(* Without a price, a swap or a free wallet the opening is left to the next *)
(* tick; _openNewPosition() counts what _doRebalance() only reports, though *)
(* not a wallet that cannot be read.                                        *)
NotNow ==
  /\ \/ pc \in {"price", "rPrice", "swap", "rSwap"} /\ May("fail") /\ Uncounted
     \/ pc \in {"swap", "rSwap"} /\ block /\ Uncounted
     \/ pc = "rPrice" /\ TooPoor /\ Counted
     \/ pc = "rSwap" /\ May("fail") /\ Counted
  /\ GoIdle
  /\ UNCHANGED <<around, chain, money, rows, ledger, flags, others>>

Swapped ==
  /\ pc \in {"swap", "rSwap"} /\ ~block
  /\ pc' = IF pc = "swap" THEN "open" ELSE "rOpen"
  /\ UNCHANGED <<around, chain, money, rows, ledger, active, flags, others, after,
                 base, keep, freed, done, fails>>

Openable == 1..Least(freed, Above(wallet, base))

(* What lies in the wallet after a fresh opening belongs to everybody; a    *)
(* fresh position starts a new chain, and the ledger with it.               *)
OpenDone(d) ==
  /\ pc \in {"open", "rOpen"}
  /\ wallet' = wallet - d /\ held' = d /\ fees' = 0 /\ price' = "in"
  /\ row' = "open" /\ capital' = d /\ done' = d /\ fails' = 0
  /\ foreign' = IF after = "fresh" THEN wallet - d ELSE foreign
  /\ shift' = IF after = "fresh" THEN 0 ELSE shift
  /\ pc' = IF pc = "open" THEN "openFee" ELSE "rFee"
  /\ UNCHANGED <<around, stray, lost, note, closed, claimed, recent, age, cool, tried,
                 active, flags, others, after, base, keep, freed>>

(* An expired transaction is not counted, any other error is.               *)
OpenFails ==
  /\ pc \in {"open", "rOpen"}
  /\ \/ (May("fail") \/ Openable = {}) /\ UNCHANGED <<wallet, stray, lost>>
     \/ /\ Unseen("open") /\ ~stray
        /\ \E d \in Openable : /\ wallet' = wallet - d
                               /\ stray' = TRUE /\ lost' = d
  /\ Counted \/ (Openable # {} /\ Uncounted)
  /\ GoIdle
  /\ UNCHANGED <<around, held, fees, price, foreign, rows, ledger, flags, others>>

(* Without its row in rebalance_history a position continues the chain only *)
(* through the note of the close, and only through 'rebalance'.             *)
Unlinked == note = "burnOpen" /\ after \in {"rebalance", "retry"}
            /\ pc \in {"openFee", "rFee"} \cup FinishAwaits
KeepChain == shift' = IF Unlinked THEN 0 ELSE shift

OpenBooked ==
  /\ pc = "openFee" \/ (pc = "rFee" /\ after = "retry")
  /\ pc' = IF block THEN "sweep" ELSE "reconcile"
  /\ UNCHANGED <<around, chain, money, rows, ledger, active, flags, others, after,
                 base, keep, freed, done, fails>>

(* In _openNewPosition() the fee is read inside the try block: the opening  *)
(* counts as failed.  A fresh opening always ends there, on a name that is  *)
(* defined nowhere (guardTargetUsdc).                                       *)
OpenUnbooked ==
  /\ \/ pc = "openFee" /\ NoFee /\ Uncounted
     \/ pc = "rFee" /\ (NoFee \/ after = "fresh") /\ Counted
  /\ KeepChain /\ GoIdle
  /\ UNCHANGED <<around, chain, money, rows, cool, tried, flags, others>>

-----------------------------------------------------------------------------
(* _finishRebalanceOpen(): pay in what is left, book the rest.              *)

Leftover == Above(freed, done)

PayEffect(x) == wallet' = wallet - x /\ held' = held + x

PayIn(x) ==
  /\ pc = "reconcile" /\ x <= Least(Leftover, Above(wallet, base))
  /\ PayEffect(x) /\ done' = done + x
  /\ UNCHANGED <<around, fees, stray, lost, price, foreign, rows, ledger, active, flags,
                 others, pc, after, base, keep, freed, fails>>

(* The book value follows when the loop ends by itself, or because a swap   *)
(* or a payment failed.                                                     *)
PayInEnds ==
  /\ pc = "reconcile"
  /\ \/ UNCHANGED <<wallet, held>>
     \/ /\ Unseen("payIn")
        /\ \E x \in 1..Least(Leftover, Above(wallet, base)) : PayEffect(x)
  /\ capital' = done
  /\ pc' = "sweep"
  /\ UNCHANGED <<around, fees, stray, lost, price, foreign, row, note, closed, claimed,
                 recent, age, ledger, active, flags, others, after, base, keep, freed,
                 done, fails>>

(* The loop reads the wallet before it swaps and again before it pays, and  *)
(* catches neither: what it has paid in is then in no book value, and the   *)
(* rebalance without its row in the history, hence its rest in no ledger.   *)
PayInCut ==
  /\ pc = "reconcile" /\ May("read")
  /\ KeepChain /\ GoIdle
  /\ UNCHANGED <<around, chain, money, rows, cool, tried, active, flags, others, fails>>

(* sweepResidualIntoPosition() never throws; its budget is the rest.        *)
Sweep(x) ==
  /\ pc = "sweep" /\ x <= Least(Leftover, wallet)
  /\ PayEffect(x) /\ done' = done + x /\ capital' = done + x
  /\ pc' = "sweepFee"
  /\ UNCHANGED <<around, fees, stray, lost, price, foreign, row, note, closed, claimed,
                 recent, age, ledger, active, flags, others, after, base, keep, freed, fails>>

NoSweep ==
  /\ pc = "sweep"
  /\ \/ UNCHANGED <<wallet, held>>
     \/ Unseen("payIn") /\ \E x \in 1..Least(Leftover, wallet) : PayEffect(x)
  /\ pc' = "finish"
  /\ UNCHANGED <<around, fees, stray, lost, price, foreign, rows, ledger, active, flags,
                 others, after, base, keep, freed, done, fails>>

SweepBooked ==
  /\ pc = "sweepFee" /\ pc' = "finish"
  /\ UNCHANGED <<around, chain, money, rows, ledger, active, flags, others, after,
                 base, keep, freed, done, fails>>

SweepUnbooked ==
  /\ pc = "sweepFee" /\ NoFee
  /\ KeepChain /\ GoIdle
  /\ UNCHANGED <<around, chain, money, rows, cool, tried, active, flags, others, fails>>

(* Mutant: the rest of a late opening is not booked.                        *)
FinishFirstTry ==
  /\ pc = "finish"
  /\ shift' = (IF after = "rebalance" THEN shift + Leftover ELSE shift) /\ cool' = TRUE
  /\ GoIdle
  /\ UNCHANGED <<around, chain, money, rows, tried, active, flags, others, fails>>

(* insertRebalanceHistory() with leftover_usdc.                             *)
Finish ==
  /\ pc = "finish"
  /\ shift' = shift + Leftover /\ cool' = TRUE
  /\ GoIdle
  /\ UNCHANGED <<around, chain, money, rows, tried, active, flags, others, fails>>

-----------------------------------------------------------------------------
(* _shiftTopUpIfDue(): the attempt is recorded first, the settlement last.  *)

(* Asked for by hand (force-shift-topup), neither threshold nor waiting     *)
(* times count.  A running cleanup delays it like manual.lock.              *)
StartTopUp ==
  /\ pc = "idle" /\ active /\ row = "open" /\ price = "in" /\ ~manual
  /\ \/ shift >= Threshold /\ ~tried /\ ~cool
     \/ shift > 0 /\ Event("forceTopUp")
  /\ tried' = TRUE
  /\ pc' = "topUp"
  /\ UNCHANGED <<around, chain, money, rows, shift, cool, active, flags, others, after,
                 base, keep, freed, done, fails>>

TopUp(x) ==
  /\ pc = "topUp" /\ x <= Least(shift, wallet)
  /\ PayEffect(x) /\ capital' = capital + x /\ done' = x
  /\ pc' = "topFee"
  /\ UNCHANGED <<around, fees, stray, lost, price, foreign, row, note, closed, claimed,
                 recent, age, ledger, active, flags, others, after, base, keep, freed, fails>>

Settle ==
  /\ pc = "topFee"
  /\ shift' = shift - done
  /\ GoIdle
  /\ UNCHANGED <<around, chain, money, rows, cool, tried, active, flags, others, fails>>

TopUpEnds ==
  /\ \/ pc = "topUp" /\ UNCHANGED <<wallet, held>>
     \/ pc = "topUp" /\ Unseen("topUp") /\ \E x \in 1..Least(shift, wallet) : PayEffect(x)
     \/ pc = "topFee" /\ NoFee /\ UNCHANGED <<wallet, held>>
  /\ GoIdle
  /\ UNCHANGED <<around, fees, stray, lost, price, foreign, rows, ledger, active, flags,
                 others, fails>>

-----------------------------------------------------------------------------
(* The process dies and starts again; reconcilePositions() then makes a row *)
(* for any position NFT of an active pool without an open one.              *)

Adopt ==
  /\ row' = "open" /\ held' = lost /\ capital' = lost
  /\ stray' = FALSE /\ lost' = 0
  /\ price' \in {"in", "out"}
  /\ shift' = IF note = "rebalance" THEN shift ELSE 0

Crash ==
  /\ pc \in around.crashAt
  /\ IF active /\ row = "closed" /\ stray
       THEN Adopt
       ELSE KeepChain /\ UNCHANGED <<row, held, capital, stray, lost, price>>
  /\ GoIdle /\ fails' = 0
  /\ UNCHANGED <<around, fees, money, note, closed, claimed, recent, age, cool, tried,
                 active, flags, others>>

-----------------------------------------------------------------------------
(* What happens around the bot.                                             *)

Quiet == UNCHANGED <<around, active, run, fails, refused>>

Drift ==
  /\ pc = "idle" /\ row = "open"
  /\ price' \in {"in", "out"} \ {price}
  /\ Quiet /\ UNCHANGED <<held, fees, stray, lost, money, rows, ledger, pending, force, others>>

FeesAccrue ==
  /\ Event("fees") /\ row = "open" /\ held > 0 /\ fees = 0 /\ held + wallet + lost < Cap
  /\ fees' = 1
  /\ Quiet /\ UNCHANGED <<held, stray, lost, price, money, rows, ledger, pending, force, others>>

(* Money of others comes and goes.                                          *)
OthersMove ==
  /\ Event("others") /\ (pc = "idle" \/ Event("meanwhile"))
  /\ \/ foreign < Foreign /\ foreign' = foreign + 1 /\ wallet' = wallet + 1
     \/ foreign > 0 /\ wallet > 0 /\ foreign' = foreign - 1 /\ wallet' = wallet - 1
  /\ Quiet /\ UNCHANGED <<chain, rows, ledger, pending, force, others>>

(* An exit elsewhere begins or ends.                                        *)
ExitElsewhere ==
  /\ Event("exit") /\ block' = ~block
  /\ Quiet /\ UNCHANGED <<chain, money, rows, ledger, pending, force, manual>>

(* A tool takes manual.lock while the bot holds none of its locks.          *)
ManualLock ==
  /\ Event("manual")
  /\ (manual \/ pc \in {"idle"} \cup ReopenAwaits)
  /\ manual' = ~manual
  /\ Quiet /\ UNCHANGED <<chain, money, rows, ledger, pending, force, block>>

(* close-and-reopen.js closes and leaves the opening to the bot.            *)
ManualClose ==
  /\ manual /\ pc = "idle" /\ row = "open"
  /\ held' = 0 /\ fees' = 0 /\ wallet' = wallet + held + fees
  /\ row' = "closed" /\ note' = "manual" /\ closed' = held /\ recent' = TRUE /\ age' = 0
  /\ Quiet /\ UNCHANGED <<stray, lost, price, foreign, capital, claimed, ledger, pending,
                          force, others>>

Request ==
  /\ Event("force") /\ ~force /\ force' = TRUE
  /\ Quiet /\ UNCHANGED <<chain, money, rows, ledger, pending, others>>

(* A claim counts for a close of the next minutes.                          *)
Forgotten == claimed' = IF row = "open" THEN 0 ELSE claimed

HalfAnHour ==
  /\ pc = "idle"
  /\ recent' = FALSE /\ cool' = FALSE /\ pending' = FALSE /\ Forgotten
  /\ age' = IF age = 0 THEN 1 ELSE age
  /\ Quiet /\ UNCHANGED <<chain, money, row, capital, note, closed, shift, tried, force, others>>

Day ==
  /\ pc = "idle"
  /\ recent' = FALSE /\ cool' = FALSE /\ pending' = FALSE /\ Forgotten
  /\ age' = 2 /\ tried' = FALSE
  /\ Quiet /\ UNCHANGED <<chain, money, row, capital, note, closed, shift, force, others>>

(* The zombie job burns an empty NFT.                                       *)
ZombieBurnt ==
  /\ stray /\ lost = 0 /\ stray' = FALSE
  /\ Quiet /\ UNCHANGED <<held, fees, lost, price, money, rows, ledger, pending, force, others>>

-----------------------------------------------------------------------------
(* The bot, the world, and the whole.                                       *)

Reasons == {"range", "manual"}
Units == 1..Cap

Rebalancing ==
  \/ \E reason \in Reasons : StartRebalance(reason)
  \/ RequestDropped \/ Baseline \/ Claim
  \/ CloseDone \/ CloseBooked \/ BurnFails \/ BurntBooked \/ CloseFails

Opening ==
  \/ PriceKnown \/ StartReopen \/ Refuse \/ ReopenPriceKnown \/ NotNow \/ Swapped
  \/ \E d \in Openable : OpenDone(d)
  \/ OpenFails \/ OpenBooked \/ OpenUnbooked

Finishing ==
  \/ \E x \in Units : PayIn(x) \/ Sweep(x)
  \/ PayInEnds \/ PayInCut \/ NoSweep \/ SweepBooked \/ SweepUnbooked \/ Finish

ToppingUp ==
  \/ StartTopUp \/ \E x \in Units : TopUp(x)
  \/ Settle \/ TopUpEnds

Bot == Rebalancing \/ Opening \/ Finishing \/ ToppingUp

World ==
  \/ Drift \/ FeesAccrue \/ OthersMove \/ ExitElsewhere \/ ManualLock \/ ManualClose
  \/ Request \/ HalfAnHour \/ Day \/ ZombieBurnt

Next == Bot \/ Crash \/ World

Spec == Init /\ [][Next]_vars

(* Every call of the bot ends, and its ticks go on; what is tried again and *)
(* again succeeds in the end.                                               *)
Fairness ==
  /\ WF_vars(Bot) /\ SF_vars(StartReopen) /\ SF_vars(ReopenPriceKnown)
  /\ SF_vars(Swapped) /\ SF_vars(\E d \in Openable : OpenDone(d))

FairSpec == Spec /\ Fairness

-----------------------------------------------------------------------------
(* Properties.                                                              *)

(* A claim is known to belong to the close it comes before: every rebalance *)
(* with fees is booked, and only the price starts one, so that the cooldown *)
(* keeps two of them apart.  Else a claim may be counted twice, for         *)
(* abortedRebalanceContext() takes any of the last quarter of an hour.      *)
ClaimsApart ==
  Event("fees") => /\ around.noFee \cup around.crashAt = {} /\ ~May("read")
                   /\ around.events \cap {"force", "manual"} = {}

(* Circumstances under which the bot can know what it has moved: an opening *)
(* or a payment that lands is seen to land, a payment from the ledger is    *)
(* settled, a claim is known to belong to a close, an NFT that could not be *)
(* burnt is not taken for a position at a restart, and in a USDC pool       *)
(* nothing else moves during a rebalance.                                   *)
Traceable ==
  /\ around.unseen \subseteq {"claim", "close"}
  /\ "topFee" \notin around.noFee \cup around.crashAt
  /\ ClaimsApart
  /\ May("burn") => around.crashAt = {}
  /\ Event("meanwhile") => around.volatile

(* What the ledger owes to the position is in the wallet, besides what      *)
(* belongs to others: a rebalance, a second try and a later payment never   *)
(* take money of others, whatever was refused, failed or cut off before.    *)
Owed == IF pc = "topFee" THEN Above(shift, done) ELSE shift
ShiftCovered == Traceable => wallet >= foreign + Owed

(* As long as the legs up to the close succeed and nothing gets lost, the   *)
(* book value never exceeds what the position holds; and unless a read of   *)
(* the wallet cuts the payments off, not a unit is forgotten: what a        *)
(* rebalance leaves in the wallet is what the ledger says, and the book     *)
(* value is what the position holds.                                        *)
NothingLost ==
  /\ ClaimsApart /\ around.may \subseteq {"burn", "fail", "read"} /\ around.unseen = {}
  /\ around.noFee = {} /\ around.crashAt = {} /\ "meanwhile" \notin around.events
BooksExact ==
  (NothingLost /\ pc = "idle" /\ row = "open") =>
    /\ capital <= held
    /\ ~May("read") => wallet = foreign + shift /\ capital = held

CloseIsSeen == "closeFee" \notin around.noFee \cup around.crashAt

(* An opening is refused, and the pool switched off, only when the close is *)
(* no longer fresh (the comment in _openNewPosition, bot.js:2398), as long  *)
(* as the fee of the close can be read.                                     *)
RefusedOnlyLate ==
  [][(CloseIsSeen /\ ~refused /\ refused') => age > 0]_vars

(* A pool whose position was closed is opened again or given up, unless an  *)
(* exit elsewhere keeps it waiting.                                         *)
Reopened == (<>[]~block) => (row = "closed" /\ active ~> row = "open" \/ ~active)
=============================================================================
