---------------------------- MODULE TrailingStop ----------------------------
(***************************************************************************)
(* What triggers an exit of the liquidity bot: the high-water mark of a    *)
(* position and its entry reference (src/bots/liquidity/lib/db.js), their  *)
(* way through capital flows, rebalances, reset clicks and changes of the  *)
(* price source (lib/refresh-state.js, lib/trailing-stop.js), the check    *)
(* before and after each tick of the bot and the fast check in between     *)
(* (bin/bot.js, lib/fast-stop-check.js).                                   *)
(*                                                                         *)
(* Values are LOGARITHMS: one unit is one step of a geometric grid, a      *)
(* ratio of the code is a difference here, a factor is a summand.  The     *)
(* value of a position is liquidity times price, so its logarithm is the   *)
(* sum of both; open fees are a further summand.                           *)
(***************************************************************************)
EXTENDS Integers, FiniteSetsExt

CONSTANTS
  Setups,    \* what may happen to the position
  None,      \* null of the code
  First,     \* distance of the first stage (thresholdPct)
  Second,    \* of the second, narrower stage (thresholdPct2)
  Band       \* a distance beyond it is taken for broken data (50 %, 200 %)

(* flows: kinds of capital flows; may: what else happens -- "overlap": the  *)
(* bot and another process at a time; "die": a process ends, or a balance   *)
(* it cannot read ends a rebalance, between a change on chain and its       *)
(* settlement; "forced": a user has it rebalanced before the cooldown,      *)
(* which outlasts the next snapshot, is over; "shown": the dashboard shows  *)
(* a gain of First; "net": the opening left a snapshot.                     *)
(* deviation: of the fallback price from the pool price; minimum: value set *)
(* for the pool.  Bounds: maxMoves, of the market, of fees, of the source   *)
(* and clicks; maxFlows, capital flows and rebalances.                      *)
FlowKinds == {"measured", "legacy", "withdraw"}
Circumstances == {"rebalance", "fees", "click", "topUp", "forced", "overlap",
                  "die", "shown", "net"}

Opt(S) == S \cup {None}

(* The mark and the entry with the ratio each left behind when it was set   *)
(* to NULL, d2_armed_at, the greatest value of the snapshots the opening    *)
(* left behind (None once it may not be used any more), whether hwm_at is   *)
(* later than the click, positions.liquidity; young: reopened by a          *)
(* rebalance and not measured since.                                        *)
Rows == [hwm : Opt(Int), ratio : Opt((-Band)..0),
         entry : Opt(Int), eratio : Opt((-Band)..Band),
         armed : BOOLEAN, seen : Opt(Int), late : BOOLEAN, liq : Int, young : BOOLEAN]
States == [liq : Int, price : Int, fee : Nat]
Snapshots == [liq : Int, price : Int, fee : Nat, src : {"pool", "oracle"}]

ASSUME StopAssumption ==
  /\ Setups \subseteq [flows : SUBSET FlowKinds, may : SUBSET Circumstances,
                       deviation : Int, minimum : Int \cup {None},
                       maxMoves : Nat, maxFlows : Nat]
  /\ None \notin Int \cup Rows \cup States \cup Snapshots
  /\ First \in Nat /\ Second \in Nat /\ 0 < Second /\ Second < First /\ First <= Band
  /\ Band \in Nat

VARIABLES
  setup,    \* of Setups; it never changes
  chain,    \* liquidity of the position, price, open fees, source in use
  row,      \* the open position's row, None while a rebalance has none
  known,    \* kv quote_source: the source the references are scaled to
  snap,     \* the newest row of position_snapshots
  minimum,  \* minimumValueUsd, None once cleared
  click,    \* target of a reset click not yet processed
  bot,      \* where the bot is and what it carries from await to await
  flow,     \* the other process: a capital flow under way
  stopped,  \* why the exit was triggered
  moves, flows,  \* counters of the bounds
  truth     \* HISTORY: what the references should say, see below

vars == <<setup, chain, row, known, snap, minimum, click, bot, flow, stopped,
          moves, flows, truth>>
still == <<setup, stopped>>

May(what) == what \in setup.may
Places == {"wait", "check1", "process", "closed", "reopened", "baseline",
           "snapshot", "check2", "confirm"}

TypeOK ==
  /\ setup \in Setups
  /\ chain \in Snapshots
  /\ row \in Opt(Rows)
  /\ known \in {"pool", "oracle"}
  /\ snap \in Opt(Snapshots)
  /\ minimum \in Opt(Int) /\ click \in Opt(Int)
  /\ bot \in [at : Places, state : Opt(States), late : BOOLEAN,
              hwm : Opt(Int), entry : Opt(Int), armed : BOOLEAN]
  /\ flow \in [at : {"none", "begun", "landed", "rebased"}, kind : FlowKinds,
               liq : Int, lp : Opt(Int), price : Int]
  /\ stopped \in {"no", "drawdown", "minimum"}
  /\ moves \in 0..setup.maxMoves /\ flows \in 0..setup.maxFlows
  /\ truth \in [paid : Int, at : Int, gap : Opt(Int), gain : Opt(Int), earned : BOOLEAN,
               asked : Int]

Waiting == [at |-> "wait", state |-> None, late |-> FALSE,
            hwm |-> None, entry |-> None, armed |-> FALSE]
NoFlow == [at |-> "none", kind |-> "measured", liq |-> 0, lp |-> None, price |-> 0]
FreshRow(liq) == [hwm |-> None, ratio |-> None, entry |-> None, eratio |-> None,
                  armed |-> FALSE, seen |-> None, late |-> FALSE, liq |-> liq, young |-> TRUE]
OpeningSnap == [liq |-> 0, price |-> 0, fee |-> 0, src |-> "pool"]

Init ==
  /\ setup \in Setups
  /\ chain = [liq |-> 0, price |-> 0, fee |-> 0, src |-> "pool"]
  /\ row = [FreshRow(0) EXCEPT !.young = FALSE, !.seen = IF May("net") THEN 0 ELSE None]
  /\ snap = IF May("net") THEN OpeningSnap ELSE None
  /\ known = "pool" /\ minimum = setup.minimum /\ click = None
  /\ bot = Waiting /\ flow = NoFlow /\ stopped = "no"
  /\ moves = 0 /\ flows = 0
  /\ truth = [paid |-> 0, at |-> 0, gap |-> IF May("net") THEN 0 ELSE None,
              gain |-> None, earned |-> FALSE, asked |-> 0]

-----------------------------------------------------------------------------
(* Values.                                                                  *)

Dev(src) == IF src = "oracle" THEN setup.deviation ELSE 0
SnapLp == IF snap = None THEN None ELSE snap.liq + snap.price + Dev(snap.src)
StopValue == IF snap = None THEN None ELSE SnapLp + snap.fee
Value(s) == s.liq + s.price + Dev(chain.src) + s.fee
Read == [liq |-> chain.liq, price |-> chain.price, fee |-> chain.fee]

-----------------------------------------------------------------------------
(* The references.                                                          *)

(* A factor on both of them; a ratio still open stays as it is.             *)
ScaledMarkOnly(r, f) == [r EXCEPT !.hwm = IF @ = None THEN None ELSE @ + f]
Scaled(r, f) == [r EXCEPT !.hwm = IF @ = None THEN None ELSE @ + f,
                          !.entry = IF @ = None THEN None ELSE @ + f]

Reconciled(r) == IF r = None THEN None ELSE Scaled(r, Dev(chain.src) - Dev(known))

MarkRatio(lp, hwm) ==
  IF lp = None \/ hwm = None \/ lp - hwm < -Band THEN None ELSE Min({0, lp - hwm})
EntryRatio(lp, entry) ==
  IF lp = None \/ entry = None \/ lp - entry \notin (-Band)..Band THEN None ELSE lp - entry

(* What is not yet established is left alone, an open ratio with it.        *)
RebasedNot(r, lp) == r
Rebased(r, lp) ==
  LET e == IF r.entry = None THEN r
           ELSE [r EXCEPT !.entry = None, !.eratio = EntryRatio(lp, r.entry)]
  IN IF r.hwm = None THEN e
     ELSE [e EXCEPT !.hwm = None, !.ratio = MarkRatio(lp, r.hwm), !.late = FALSE]

CarriedDisarmed(r, lp, hwm, entry, armed) ==
  [r EXCEPT !.ratio = MarkRatio(lp, hwm), !.eratio = EntryRatio(lp, entry)]
Carried(r, lp, hwm, entry, armed) ==
  [r EXCEPT !.ratio = MarkRatio(lp, hwm), !.eratio = EntryRatio(lp, entry), !.armed = armed]

(* A measured value: the entry is set once, the mark never falls.           *)
Marked(r, v) ==
  IF r.hwm # None THEN Max({r.hwm, v})
  ELSE IF r.ratio # None THEN v - r.ratio
  ELSE IF r.seen # None THEN Max({r.seen, v}) ELSE v
Updated(r, v) ==
  [r EXCEPT
    !.entry = IF @ # None THEN @ ELSE IF r.eratio # None THEN v - r.eratio ELSE v,
    !.eratio = IF r.entry = None THEN None ELSE @,
    !.hwm = Marked(r, v),
    !.ratio = IF r.hwm = None THEN None ELSE @,
    !.seen = None,
    !.young = FALSE,
    !.late = @ \/ Marked(r, v) # r.hwm]

(* evaluateSecondStageArming() by the mark, or by what the dashboard shows. *)
Armed(r) == [r EXCEPT !.armed = @ \/ r.hwm >= r.entry + First \/ May("shown")]

-----------------------------------------------------------------------------
(* What the references should say: paid, the liquidity capital flows and    *)
(* rebalances moved; at, the last value measured, of the market alone; gap, *)
(* how far below its mark the position is, and gain, how far above its      *)
(* entry.  Both change with the market alone.  A flow that only leaves a    *)
(* ratio behind keeps both until the next measurement (the move in between  *)
(* is the "Messluecke" of the comments), and none at all beyond the band.   *)
(* earned: the mark has been First above the entry since the last reset;    *)
(* asked: the value shown when the click was made.                          *)

(* The market alone: the value without what was paid in, a claimed fee that *)
(* was paid in again counts as the fee it was.                              *)
Market(s, t) == s.price + s.fee + chain'.liq - t.paid

Seen(t, r, value) ==
  LET d   == value - t.at
      gap == IF t.gap = None THEN 0
             ELSE IF r.hwm # None \/ r.seen # None THEN Max({0, t.gap - d}) ELSE t.gap
      gain == IF t.gain = None THEN 0 ELSE IF r.entry # None THEN t.gain + d ELSE t.gain
  IN [t EXCEPT !.at = value, !.gap = gap, !.gain = gain, !.earned = @ \/ gap + gain >= First]

Transferred(t) ==
  [t EXCEPT !.gap = IF @ # None /\ @ > Band THEN None ELSE @,
            !.gain = IF @ # None /\ @ \notin (-Band)..Band THEN None ELSE @]

Paid(t, d) == [t EXCEPT !.paid = @ + d]

-----------------------------------------------------------------------------
(* Measurements: a snapshot, then the references (both synchronous).        *)

Written(s) == snap' = [liq |-> s.liq, price |-> s.price, fee |-> s.fee, src |-> chain.src]

MeasuredRow(r, s) == Armed(Updated([Reconciled(r) EXCEPT !.liq = s.liq], Value(s)))
Measure(r, s, t) ==
  /\ Written(s) /\ known' = chain.src
  /\ row' = MeasuredRow(r, s)
  /\ truth' = Seen(t, r, Market(s, t))

(* settleCapitalFlow(): the references move by the factor of the liquidity, *)
(* then the new level is measured at the price of the transaction; or, when *)
(* that cannot be read, the ratio is kept and the snapshot is an estimate,  *)
(* unless the one before it is too old for that.                            *)
Fees == IF snap = None THEN 0 ELSE snap.fee
SettleMeasured(r, liq, price, t) ==
  Measure(Scaled(r, 1), [liq |-> liq + 1, price |-> price, fee |-> Fees], t)

Estimate(r, delta, price) ==
  \/ /\ Written([liq |-> snap.liq + delta, price |-> price, fee |-> snap.fee])
     /\ row' = Reconciled(r) /\ known' = chain.src
  \/ row' = r /\ UNCHANGED <<snap, known>>
SettleLegacy(r, lp, price, t) ==
  Estimate(Rebased(r, lp), 1, price) /\ truth' = Transferred(t)

-----------------------------------------------------------------------------
(* The trigger.                                                             *)

PctFirst(r) == First
Pct(r) == IF r.armed THEN Second ELSE First

Verdict(r, v) ==
  IF r = None \/ v = None THEN "no"
  ELSE IF r.hwm = None THEN "no"
  ELSE IF v < r.hwm - Pct(r) THEN "drawdown"
  ELSE IF minimum # None /\ r.hwm >= minimum /\ v < minimum THEN "minimum"
  ELSE "no"

(* _trailingStopCheck(): by the newest snapshot.                            *)
Check(from, to) ==
  /\ bot.at = from /\ stopped = "no"
  /\ stopped' = Verdict(row, StopValue)
  /\ bot' = IF stopped' # "no" THEN Waiting
            ELSE IF to = "process" THEN [bot EXCEPT !.at = to, !.late = row.late]
            ELSE Waiting
  /\ UNCHANGED <<setup, chain, row, known, snap, minimum, click, flow, moves, flows, truth>>

-----------------------------------------------------------------------------
(* A tick: bulk read, check 1/2, processPool() with that state, check 2/2.  *)

Alone == flow.at = "none" \/ May("overlap")
At(place) == stopped = "no" /\ bot.at = place
Goto(place) == bot' = [bot EXCEPT !.at = place]

StartTick ==
  /\ At("wait") /\ Alone
  /\ \E s \in {None, Read} : bot' = [Waiting EXCEPT !.at = "check1", !.state = s]
  /\ UNCHANGED <<still, chain, row, known, snap, minimum, click, flow, moves, flows, truth>>

CheckBefore == Check("check1", "process")
CheckAfter == Check("check2", "wait")

ReadState ==
  /\ At("process") /\ bot.state = None
  /\ bot' = [bot EXCEPT !.state = Read]
  /\ UNCHANGED <<still, chain, row, known, snap, minimum, click, flow, moves, flows, truth>>

(* The state cannot be read, no snapshot is due, a manual action holds its  *)
(* lock: the tick ends without a measurement.                               *)
NoSnapshot ==
  /\ At("process") /\ Goto("check2")
  /\ UNCHANGED <<still, chain, row, known, snap, minimum, click, flow, moves, flows, truth>>

(* _doRebalance(): the values are taken from the row and the last snapshot, *)
(* without the fees; the new row starts without references.                 *)
StartRebalance ==
  /\ At("process") /\ May("rebalance") /\ bot.state # None /\ flows < setup.maxFlows
  /\ row.young => May("forced")
  /\ flows' = flows + 1
  /\ bot' = [bot EXCEPT !.at = "closed", !.hwm = row.hwm, !.entry = row.entry, !.armed = row.armed]
  /\ row' = None
  /\ chain' = [chain EXCEPT !.fee = 0]
  /\ UNCHANGED <<still, known, snap, minimum, click, flow, moves, truth>>

Reopen ==
  /\ At("closed") /\ Goto("reopened")
  /\ \E d \in {0, -1} : /\ chain' = [chain EXCEPT !.liq = @ + d]
                        /\ row' = FreshRow(chain.liq + d)
                        /\ truth' = Paid(truth, d)
  /\ UNCHANGED <<still, known, snap, minimum, click, flow, moves, flows>>

CarryOver ==
  /\ At("reopened") /\ Goto("baseline")
  /\ row' = Carried(row, SnapLp, bot.hwm, bot.entry, bot.armed)
  /\ truth' = Transferred(truth)
  /\ UNCHANGED <<still, chain, known, snap, minimum, click, flow, moves, flows>>

Baseline ==
  /\ At("baseline") /\ Goto("check2") /\ UNCHANGED chain
  /\ \/ Measure(row, Read, truth)
     \/ UNCHANGED <<row, known, snap, truth>>
  /\ UNCHANGED <<still, minimum, click, flow, moves, flows>>

(* _shiftTopUpIfDue(): bot.state keeps the liquidity before it.             *)
TopUp ==
  /\ At("process") /\ May("topUp") /\ bot.state # None /\ snap # None /\ flows < setup.maxFlows
  /\ flows' = flows + 1
  /\ chain' = [chain EXCEPT !.liq = @ + 1]
  /\ \/ SettleMeasured(row, bot.state.liq, chain.price, Paid(truth, 1))
     \/ SettleLegacy(row, SnapLp, bot.state.price, Paid(truth, 1))
  /\ Goto("snapshot")
  /\ UNCHANGED <<still, minimum, click, flow, moves>>

(* The claimed fees are paid in again; the state is kept up to date.        *)
Claim ==
  /\ At("process") /\ bot.state # None /\ bot.state.fee > 0
  /\ chain' = [chain EXCEPT !.liq = @ + chain.fee, !.fee = 0]
  /\ bot' = [bot EXCEPT !.at = "snapshot",
                         !.state = [@ EXCEPT !.liq = chain'.liq, !.fee = 0]]
  /\ UNCHANGED <<still, row, known, snap, minimum, click, flow, moves, flows, truth>>

SnapshotDue ==
  /\ At("process") /\ bot.state # None /\ Goto("snapshot")
  /\ UNCHANGED <<still, chain, row, known, snap, minimum, click, flow, moves, flows, truth>>

(* A click is dropped when the row read at the start of the tick is newer;  *)
(* otherwise both references go to the target, or lower, and stage 2 is     *)
(* off.  The request goes either way.                                       *)
Applied == click # None /\ ~bot.late
ResetRow(r, target) ==
  [r EXCEPT !.hwm = target, !.entry = target, !.eratio = None, !.armed = FALSE,
            !.late = TRUE]
TakeSnapshot ==
  /\ At("snapshot") /\ Goto("check2") /\ UNCHANGED chain
  /\ Written(bot.state) /\ known' = chain.src /\ click' = None
  /\ LET v == Value(bot.state)
         target == Min({click, v})
         value == Market(bot.state, truth)
     IN IF Applied
        THEN /\ row' = ResetRow([Reconciled(row) EXCEPT !.liq = bot.state.liq], target)
             /\ truth' = [truth EXCEPT !.at = value, !.earned = FALSE,
                                       !.gap = Min({truth.asked - value, 0}),
                                       !.gain = Max({value - truth.asked, 0})]
        ELSE /\ row' = MeasuredRow(row, bot.state)
             /\ truth' = Seen(truth, row, value)
  /\ UNCHANGED <<still, minimum, flow, moves, flows>>

(* runFastStopRound(): price and stored liquidity filter, a full read       *)
(* confirms.  The filter compares with the row as it was read.              *)
FastFilter ==
  /\ At("wait") /\ Alone /\ row # None /\ snap # None
  /\ row.hwm # None
  /\ row' = Reconciled(row) /\ known' = chain.src
  /\ LET v == row.liq + chain.price + Dev(chain.src) + snap.fee
     IN bot' = IF Verdict(row, v) = "no" THEN bot ELSE [bot EXCEPT !.at = "confirm"]
  /\ UNCHANGED <<still, chain, snap, minimum, click, flow, moves, flows, truth>>

Confirm ==
  /\ At("confirm") /\ bot' = Waiting /\ UNCHANGED chain
  /\ \/ /\ Measure(row, Read, truth)
        /\ stopped' = Verdict(row', Value(Read))
     \/ UNCHANGED <<row, known, snap, truth, stopped>>
  /\ UNCHANGED <<setup, minimum, click, flow, moves, flows>>

(* The process dies, or a balance read of the reconcile loop throws,        *)
(* between the new row and what it inherits.                                *)
Dies ==
  /\ At("reopened") /\ May("die") /\ bot' = Waiting
  /\ UNCHANGED <<still, chain, row, known, snap, minimum, click, flow, moves, flows, truth>>

-----------------------------------------------------------------------------
(* A capital flow by another process: cleanup, deposit.js, withdraw.js.     *)

Begin ==
  /\ stopped = "no" /\ flow.at = "none" /\ flows < setup.maxFlows
  /\ bot.at = "wait" \/ May("overlap")
  /\ row # None /\ snap # None
  /\ \E k \in setup.flows :
       flow' = [at |-> "begun", kind |-> k, liq |-> chain.liq, lp |-> SnapLp,
                price |-> chain.price]
  /\ flows' = flows + 1
  /\ UNCHANGED <<still, chain, row, known, snap, minimum, click, bot, moves, truth>>

Sign == IF flow.kind = "withdraw" THEN -1 ELSE 1
Lands ==
  /\ stopped = "no" /\ flow.at = "begun"
  /\ chain' = [chain EXCEPT !.liq = @ + Sign]
  /\ truth' = Paid(truth, Sign)
  /\ flow' = [flow EXCEPT !.at = "landed",
                          !.price = IF flow.kind = "measured" THEN chain.price ELSE @]
  /\ UNCHANGED <<still, row, known, snap, minimum, click, bot, moves, flows>>

NoNet(r) == [r EXCEPT !.seen = None]

(* insertCapitalFlow(), which ends the use of the opening snapshots, comes  *)
(* after the settlement of a deposit.                                       *)
Settle ==
  /\ stopped = "no" /\ flow.at = "landed" /\ flow.kind # "withdraw" /\ row # None
  /\ UNCHANGED chain
  /\ IF flow.kind = "measured" THEN SettleMeasured(row, flow.liq, flow.price, truth)
     ELSE SettleLegacy(NoNet(row), flow.lp, flow.price, truth)
  /\ flow' = NoFlow
  /\ UNCHANGED <<still, minimum, click, bot, moves, flows>>

Rebase ==
  /\ stopped = "no" /\ flow.at = "landed" /\ flow.kind = "withdraw" /\ row # None
  /\ row' = Rebased(NoNet(row), flow.lp)
  /\ truth' = Transferred(truth)
  /\ flow' = [flow EXCEPT !.at = "rebased"]
  /\ UNCHANGED <<still, chain, known, snap, minimum, click, bot, moves, flows>>

MeasureAgain ==
  /\ stopped = "no" /\ flow.at = "rebased" /\ row # None
  /\ UNCHANGED chain
  /\ \/ Measure(row, [Read EXCEPT !.price = flow.price], truth)
     \/ Estimate(row, -1, flow.price) /\ UNCHANGED truth
  /\ minimum' = None /\ flow' = NoFlow
  /\ UNCHANGED <<still, click, bot, moves, flows>>

FlowDies ==
  /\ stopped = "no" /\ flow.at \in {"landed", "rebased"} /\ May("die")
  /\ flow' = NoFlow
  /\ UNCHANGED <<still, chain, row, known, snap, minimum, click, bot, moves, flows, truth>>

-----------------------------------------------------------------------------
(* The market, the price source and the user.                               *)

Move ==
  /\ stopped = "no" /\ moves < setup.maxMoves /\ moves' = moves + 1
  /\ \/ \E d \in {-1, 1} : chain' = [chain EXCEPT !.price = @ + d]
     \/ May("fees") /\ chain' = [chain EXCEPT !.fee = @ + 1]
     \/ setup.deviation # 0
           /\ chain' = [chain EXCEPT !.src = IF @ = "pool" THEN "oracle" ELSE "pool"]
  /\ UNCHANGED <<still, row, known, snap, minimum, click, bot, flow, flows, truth>>

Click ==
  /\ stopped = "no" /\ May("click") /\ moves < setup.maxMoves /\ moves' = moves + 1
  /\ row # None /\ snap # None
  /\ click' = StopValue /\ row' = [row EXCEPT !.late = FALSE]
  /\ truth' = [truth EXCEPT !.asked = truth.at]
  /\ UNCHANGED <<still, chain, known, snap, minimum, bot, flow, flows>>

-----------------------------------------------------------------------------
Tick ==
  \/ StartTick \/ CheckBefore \/ CheckAfter \/ ReadState \/ NoSnapshot
  \/ StartRebalance \/ Reopen \/ CarryOver \/ Baseline \/ TopUp \/ Claim
  \/ SnapshotDue \/ TakeSnapshot
OtherProcess == Begin \/ Lands \/ Settle \/ Rebase \/ MeasureAgain \/ FlowDies
Next == Tick \/ FastFilter \/ Confirm \/ Dies \/ OtherProcess \/ Move \/ Click

Spec == Init /\ [][Next]_vars

(* The loop of the bot and a flow that was begun go on, the wait between two *)
(* ticks has an end; a state can be read and a snapshot is due again and    *)
(* again.                                                                   *)
Fairness ==
  /\ WF_vars(Tick \/ Confirm) /\ SF_vars(StartTick)
  /\ WF_vars(Lands \/ Settle \/ Rebase \/ MeasureAgain)
  /\ SF_vars(ReadState) /\ SF_vars(SnapshotDue)
FairSpec == Spec /\ Fairness

-----------------------------------------------------------------------------
(* Properties.                                                              *)

(* Where the code keeps its promise: nothing is cut off, bot and flows do   *)
(* not meet, nothing is paid in during a tick, fees are not mixed with      *)
(* values that leave them out, no flow comes before the first measurement   *)
(* of a position with opening snapshots, a ratio is resolved before the     *)
(* next one is taken, a reset is not overtaken by a flow.                   *)
Kept ==
  /\ setup.may \cap {"topUp", "forced", "overlap", "die"} = {}
  /\ May("fees") => setup.flows = {} /\ ~May("rebalance")
  /\ May("net") => setup.flows = {}
  /\ May("rebalance") => setup.flows \subseteq {"measured"} /\ ~May("click")
  /\ May("click") => setup.flows = {}
  /\ setup.deviation # 0 => setup.flows \subseteq {"measured"}
                             /\ setup.may \cap {"rebalance", "click", "net"} = {}

(* The distance between the newest measurement and the mark, and between    *)
(* it and the entry, is what the market made of it: capital flows,          *)
(* rebalances, reinvested fees and changes of the price source keep both    *)
(* (settleCapitalFlow, carryHwmToRebalancedPosition,                        *)
(* scaleReferencesForQuotePriceChange).                                     *)
ReferencesExact ==
  (Kept /\ row # None /\ snap # None) =>
    LET now == StopValue - Dev(snap.src)
    IN /\ row.hwm # None => row.hwm - Dev(known) - now = truth.gap
       /\ row.entry # None => now - (row.entry - Dev(known)) = truth.gain

(* Stage 2 is armed if and only if the position has been First above its    *)
(* entry since the last reset, over all its rebalances.                     *)
ArmedByGain ==
  (Kept /\ ~May("shown") /\ row # None /\ bot.at # "reopened") =>
    (row.armed <=> truth.earned)

(* The stop fires because of the market: a position is never sold for what  *)
(* was paid out of it, paid in or moved into a new one.                     *)
NoFalseStop ==
  (Kept /\ setup.deviation = 0) =>
    CASE stopped = "drawdown" -> truth.gap > IF truth.earned \/ May("shown") THEN Second ELSE First
      [] stopped = "minimum" -> "withdraw" \in setup.flows => truth.paid >= 0
      [] OTHER -> TRUE

(* A position that falls below its stop and stays there is sold: nothing is *)
(* below its stop for ever.                                                 *)
Below ==
  /\ stopped = "no" /\ row # None
  /\ row.hwm # None
  /\ Value(Read) - Dev(chain.src) < row.hwm - Dev(known) - IF row.armed THEN Second ELSE First
DropStops == []<>~Below
=============================================================================
