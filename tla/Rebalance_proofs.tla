--------------------------- MODULE Rebalance_proofs ---------------------------
(***************************************************************************)
(* Proofs about Rebalance: that no pool of any size and in none of the     *)
(* circumstances spends money of others for a position, that its books are *)
(* exact when nothing gets lost, and that a fresh close is never refused   *)
(* its reopening.                                                          *)
(***************************************************************************)
EXTENDS Rebalance, TLAPS

-----------------------------------------------------------------------------
(* Type correctness: a settlement is never more than the ledger owes.       *)

FlagTypes ==
  /\ stray \in BOOLEAN /\ recent \in BOOLEAN /\ cool \in BOOLEAN /\ tried \in BOOLEAN
  /\ active \in BOOLEAN /\ refused \in BOOLEAN /\ pending \in BOOLEAN
  /\ force \in BOOLEAN /\ manual \in BOOLEAN /\ block \in BOOLEAN

AmountTypes ==
  /\ around \in Circumstances
  /\ held \in Nat /\ fees \in Nat /\ lost \in Nat /\ price \in {"in", "out"}
  /\ wallet \in Nat /\ foreign \in Nat
  /\ row \in {"open", "closed"} /\ capital \in Nat
  /\ note \in {"none", "rebalance", "burnOpen", "manual"}
  /\ closed \in Nat /\ claimed \in Nat /\ age \in 0..2 /\ shift \in Nat
  /\ pc \in {"idle"} \cup Awaits /\ after \in {"none", "rebalance", "retry", "fresh"}
  /\ base \in Nat /\ keep \in Nat /\ freed \in Nat /\ done \in Nat
  /\ fails \in 0..MaxFails
  /\ pc = "topFee" => done <= shift

Typed == FlagTypes /\ AmountTypes

LEMMA TypedMeans == Typed => TypeOK
  BY DEF Typed, FlagTypes, AmountTypes, TypeOK

LEMMA Limits == Cap \in Nat /\ MaxFails \in Nat /\ MaxFails > 0
  BY RebalanceAssumption

LEMMA TypeInit == Init => Typed
<1> SUFFICES ASSUME Init PROVE Typed
  OBVIOUS
<1>1. FlagTypes
  BY Zenon DEF Init, FlagTypes
<1>2. AmountTypes
  BY RebalanceAssumption DEF Init, AmountTypes
<1> QED BY <1>1, <1>2 DEF Typed

LEMMA TypeRebalancing == ASSUME Typed, Rebalancing PROVE Typed'
<1> USE DEF Typed, chain, money, rows, ledger, flags, others, run, Awaits, RebalanceAwaits,
            ReopenAwaits, FinishAwaits, TopUpAwaits
<1>1. ASSUME NEW reason \in Reasons, StartRebalance(reason) PROVE Typed'
  <2>1. FlagTypes'
    BY <1>1, Zenon DEF StartRebalance, FlagTypes
  <2>2. AmountTypes'
    BY <1>1 DEF StartRebalance, AmountTypes
  <2> QED BY <2>1, <2>2
<1>2. CASE RequestDropped
  <2>1. FlagTypes'
    BY <1>2, Zenon DEF RequestDropped, FlagTypes
  <2>2. AmountTypes'
    BY <1>2 DEF RequestDropped, AmountTypes
  <2> QED BY <2>1, <2>2
<1>3. CASE Baseline
  <2>1. FlagTypes'
    BY <1>3, Zenon DEF Baseline, FlagTypes
  <2>2. AmountTypes'
    BY <1>3 DEF Baseline, AmountTypes
  <2> QED BY <2>1, <2>2
<1>4. CASE Claim
  <2>1. FlagTypes'
    BY <1>4, Zenon DEF Claim, FlagTypes
  <2>2. AmountTypes'
    BY <1>4 DEF Claim, ClaimEffect, AmountTypes
  <2> QED BY <2>1, <2>2
<1>5. CASE CloseDone
  <2>1. FlagTypes'
    BY <1>5, Zenon DEF CloseDone, FlagTypes
  <2>2. AmountTypes'
    BY <1>5 DEF CloseDone, DrainEffect, AmountTypes
  <2> QED BY <2>1, <2>2
<1>6. CASE CloseBooked
  <2>1. FlagTypes'
    BY <1>6, Zenon DEF CloseBooked, FlagTypes
  <2>2. AmountTypes'
    BY <1>6 DEF CloseBooked, AmountTypes
  <2> QED BY <2>1, <2>2
<1>7. CASE BurnFails
  <2>1. FlagTypes'
    BY <1>7, Zenon DEF BurnFails, FlagTypes
  <2>2. AmountTypes'
    BY <1>7 DEF BurnFails, DrainEffect, AmountTypes
  <2> QED BY <2>1, <2>2
<1>8. CASE BurntBooked
  <2>1. FlagTypes'
    BY <1>8, Zenon DEF BurntBooked, FlagTypes
  <2>2. AmountTypes'
    BY <1>8 DEF BurntBooked, AmountTypes
  <2> QED BY <2>1, <2>2
<1>9. CASE CloseFails
  <2>1. FlagTypes'
    BY <1>9, Zenon DEF CloseFails, FlagTypes
  <2>2. AmountTypes'
    BY <1>9 DEF CloseFails, DrainEffect, GoIdle, AmountTypes
  <2> QED BY <2>1, <2>2
<1> QED BY <1>1, <1>2, <1>3, <1>4, <1>5, <1>6, <1>7, <1>8, <1>9 DEF Rebalancing

(* ... of an opening, at once or on a later tick, ...                       *)
LEMMA TypeOpening == ASSUME Typed, Opening PROVE Typed'
<1> USE DEF Typed, chain, money, rows, ledger, flags, others, run, Awaits, RebalanceAwaits,
            ReopenAwaits, FinishAwaits, TopUpAwaits
<1>1. CASE PriceKnown
  <2>1. FlagTypes'
    BY <1>1, Zenon DEF PriceKnown, FlagTypes
  <2>2. AmountTypes'
    BY <1>1 DEF PriceKnown, Delivered, Least, Above, AmountTypes
  <2> QED BY <2>1, <2>2
<1>2. CASE StartReopen
  <2>1. FlagTypes'
    BY <1>2, Zenon DEF StartReopen, FlagTypes
  <2>2. AmountTypes'
    BY <1>2 DEF StartReopen, AmountTypes
  <2> QED BY <2>1, <2>2
<1>3. CASE Refuse
  <2>1. FlagTypes'
    BY <1>3, Zenon DEF Refuse, FlagTypes
  <2>2. AmountTypes'
    BY <1>3 DEF Refuse, AmountTypes
  <2> QED BY <2>1, <2>2
<1>4. CASE ReopenPriceKnown
  <2>1. FlagTypes'
    BY <1>4, Zenon DEF ReopenPriceKnown, FlagTypes
  <2>2. AmountTypes'
    BY <1>4 DEF ReopenPriceKnown, ReopenTarget, Delivered, Least, AmountTypes
  <2> QED BY <2>1, <2>2
<1>5. CASE NotNow
  <2>1. FlagTypes'
    BY <1>5, Zenon DEF NotNow, FlagTypes, Counted, Uncounted
  <2>2. AmountTypes'
    BY <1>5, Limits DEF NotNow, Counted, Uncounted, GoIdle, AmountTypes
  <2> QED BY <2>1, <2>2
<1>6. CASE Swapped
  <2>1. FlagTypes'
    BY <1>6, Zenon DEF Swapped, FlagTypes
  <2>2. AmountTypes'
    BY <1>6 DEF Swapped, AmountTypes
  <2> QED BY <2>1, <2>2
<1>7. ASSUME NEW d \in Openable, OpenDone(d) PROVE Typed'
  <2>1. FlagTypes'
    BY <1>7, Zenon DEF OpenDone, FlagTypes
  <2>2. AmountTypes'
    BY <1>7, Limits DEF OpenDone, Openable, Least, Above, AmountTypes
  <2> QED BY <2>1, <2>2
<1>8. CASE OpenFails
  <2>1. FlagTypes'
    BY <1>8, Zenon DEF OpenFails, FlagTypes, Counted, Uncounted
  <2>2. AmountTypes'
    BY <1>8, Limits DEF OpenFails, Openable, Least, Above, Counted, Uncounted,
       GoIdle, AmountTypes
  <2> QED BY <2>1, <2>2
<1>9. CASE OpenBooked
  <2>1. FlagTypes'
    BY <1>9, Zenon DEF OpenBooked, FlagTypes
  <2>2. AmountTypes'
    BY <1>9 DEF OpenBooked, AmountTypes
  <2> QED BY <2>1, <2>2
<1>10. CASE OpenUnbooked
  <2>1. FlagTypes'
    BY <1>10, Zenon DEF OpenUnbooked, FlagTypes, Counted, Uncounted
  <2>2. AmountTypes'
    BY <1>10, Limits DEF OpenUnbooked, KeepChain, Counted, Uncounted, GoIdle,
       AmountTypes
  <2> QED BY <2>1, <2>2
<1> QED BY <1>1, <1>2, <1>3, <1>4, <1>5, <1>6, <1>7, <1>8, <1>9, <1>10 DEF Opening

(* ... of what follows an opening, ...                                      *)
LEMMA TypeFinishing == ASSUME Typed, Finishing PROVE Typed'
<1> USE DEF Typed, chain, money, rows, ledger, flags, others, run, Awaits, RebalanceAwaits,
            ReopenAwaits, FinishAwaits, TopUpAwaits
<1>1. ASSUME NEW x \in Units, PayIn(x) PROVE Typed'
  <2>1. FlagTypes'
    BY <1>1, Zenon DEF PayIn, FlagTypes
  <2>2. AmountTypes'
    BY <1>1 DEF PayIn, PayEffect, Units, Least, AmountTypes, Leftover, Above
  <2> QED BY <2>1, <2>2
<1>2. ASSUME NEW x \in Units, Sweep(x) PROVE Typed'
  <2>1. FlagTypes'
    BY <1>2, Zenon DEF Sweep, FlagTypes
  <2>2. AmountTypes'
    BY <1>2, Limits DEF Sweep, PayEffect, Units, Least, AmountTypes, Leftover, Above
  <2> QED BY <2>1, <2>2
<1>3. CASE PayInEnds
  <2>1. FlagTypes'
    BY <1>3, Zenon DEF PayInEnds, FlagTypes
  <2>2. AmountTypes'
    BY <1>3 DEF PayInEnds, PayEffect, Least, AmountTypes, Leftover, Above
  <2> QED BY <2>1, <2>2
<1>4. CASE NoSweep
  <2>1. FlagTypes'
    BY <1>4, Zenon DEF NoSweep, FlagTypes
  <2>2. AmountTypes'
    BY <1>4 DEF NoSweep, PayEffect, Least, AmountTypes, Leftover, Above
  <2> QED BY <2>1, <2>2
<1>5. CASE SweepBooked
  <2>1. FlagTypes'
    BY <1>5, Zenon DEF SweepBooked, FlagTypes
  <2>2. AmountTypes'
    BY <1>5 DEF SweepBooked, AmountTypes
  <2> QED BY <2>1, <2>2
<1>6. CASE SweepUnbooked
  <2>1. FlagTypes'
    BY <1>6, Zenon DEF SweepUnbooked, FlagTypes
  <2>2. AmountTypes'
    BY <1>6 DEF SweepUnbooked, KeepChain, GoIdle, AmountTypes
  <2> QED BY <2>1, <2>2
<1>7. CASE Finish
  <2>1. FlagTypes'
    BY <1>7, Zenon DEF Finish, FlagTypes
  <2>2. AmountTypes'
    BY <1>7 DEF Finish, GoIdle, AmountTypes, Leftover, Above
  <2> QED BY <2>1, <2>2
<1>8. CASE PayInCut
  <2>1. FlagTypes'
    BY <1>8, Zenon DEF PayInCut, FlagTypes
  <2>2. AmountTypes'
    BY <1>8 DEF PayInCut, KeepChain, GoIdle, AmountTypes
  <2> QED BY <2>1, <2>2
<1> QED BY <1>1, <1>2, <1>3, <1>4, <1>5, <1>6, <1>7, <1>8 DEF Finishing

(* ... of a later payment, ...                                              *)
LEMMA TypeToppingUp == ASSUME Typed, ToppingUp PROVE Typed'
<1> USE DEF Typed, chain, money, rows, ledger, flags, others, run, Awaits, RebalanceAwaits,
            ReopenAwaits, FinishAwaits, TopUpAwaits
<1>1. CASE StartTopUp
  <2>1. FlagTypes'
    BY <1>1, Zenon DEF StartTopUp, FlagTypes
  <2>2. AmountTypes'
    BY <1>1 DEF StartTopUp, AmountTypes
  <2> QED BY <2>1, <2>2
<1>2. ASSUME NEW x \in Units, TopUp(x) PROVE Typed'
  <2>1. FlagTypes'
    BY <1>2, Zenon DEF TopUp, FlagTypes
  <2>2. AmountTypes'
    BY <1>2 DEF TopUp, PayEffect, Units, Least, AmountTypes
  <2> QED BY <2>1, <2>2
<1>3. CASE Settle
  <2>1. FlagTypes'
    BY <1>3, Zenon DEF Settle, FlagTypes
  <2>2. AmountTypes'
    BY <1>3 DEF Settle, GoIdle, AmountTypes
  <2> QED BY <2>1, <2>2
<1>4. CASE TopUpEnds
  <2>1. FlagTypes'
    BY <1>4, Zenon DEF TopUpEnds, FlagTypes
  <2>2. AmountTypes'
    BY <1>4 DEF TopUpEnds, PayEffect, Least, GoIdle, AmountTypes
  <2> QED BY <2>1, <2>2
<1> QED BY <1>1, <1>2, <1>3, <1>4 DEF ToppingUp

(* ... and what happens around the bot.                                     *)
LEMMA TypeWorld == ASSUME Typed, World PROVE Typed'
<1> USE DEF Typed, chain, money, rows, ledger, flags, others, run, Awaits, RebalanceAwaits,
            ReopenAwaits, FinishAwaits, TopUpAwaits
<1>1. CASE Drift
  <2>1. FlagTypes'
    BY <1>1, Zenon DEF Drift, Quiet, FlagTypes
  <2>2. AmountTypes'
    BY <1>1 DEF Drift, Quiet, AmountTypes
  <2> QED BY <2>1, <2>2
<1>2. CASE FeesAccrue
  <2>1. FlagTypes'
    BY <1>2, Zenon DEF FeesAccrue, Quiet, FlagTypes
  <2>2. AmountTypes'
    BY <1>2 DEF FeesAccrue, Quiet, AmountTypes
  <2> QED BY <2>1, <2>2
<1>3. CASE OthersMove
  <2>1. FlagTypes'
    BY <1>3, Zenon DEF OthersMove, Quiet, FlagTypes
  <2>2. AmountTypes'
    BY <1>3 DEF OthersMove, Quiet, AmountTypes
  <2> QED BY <2>1, <2>2
<1>4. CASE ExitElsewhere
  <2>1. FlagTypes'
    BY <1>4, Zenon DEF ExitElsewhere, Quiet, FlagTypes
  <2>2. AmountTypes'
    BY <1>4 DEF ExitElsewhere, Quiet, AmountTypes
  <2> QED BY <2>1, <2>2
<1>5. CASE ManualLock
  <2>1. FlagTypes'
    BY <1>5, Zenon DEF ManualLock, Quiet, FlagTypes
  <2>2. AmountTypes'
    BY <1>5 DEF ManualLock, Quiet, AmountTypes
  <2> QED BY <2>1, <2>2
<1>6. CASE ManualClose
  <2>1. FlagTypes'
    BY <1>6, Zenon DEF ManualClose, Quiet, FlagTypes
  <2>2. AmountTypes'
    BY <1>6 DEF ManualClose, Quiet, AmountTypes
  <2> QED BY <2>1, <2>2
<1>7. CASE Request
  <2>1. FlagTypes'
    BY <1>7, Zenon DEF Request, Quiet, FlagTypes
  <2>2. AmountTypes'
    BY <1>7 DEF Request, Quiet, AmountTypes
  <2> QED BY <2>1, <2>2
<1>8. CASE HalfAnHour
  <2>1. FlagTypes'
    BY <1>8, Zenon DEF HalfAnHour, Quiet, FlagTypes
  <2>2. AmountTypes'
    BY <1>8 DEF HalfAnHour, Quiet, AmountTypes, Forgotten
  <2> QED BY <2>1, <2>2
<1>9. CASE Day
  <2>1. FlagTypes'
    BY <1>9, Zenon DEF Day, Quiet, FlagTypes
  <2>2. AmountTypes'
    BY <1>9 DEF Day, Quiet, AmountTypes, Forgotten
  <2> QED BY <2>1, <2>2
<1>10. CASE ZombieBurnt
  <2>1. FlagTypes'
    BY <1>10, Zenon DEF ZombieBurnt, Quiet, FlagTypes
  <2>2. AmountTypes'
    BY <1>10 DEF ZombieBurnt, Quiet, AmountTypes
  <2> QED BY <2>1, <2>2
<1> QED BY <1>1, <1>2, <1>3, <1>4, <1>5, <1>6, <1>7, <1>8, <1>9, <1>10 DEF World

LEMMA TypeCrash == ASSUME Typed, Crash PROVE Typed'
<1> USE DEF Typed, ledger, flags, others, Crash, Adopt
<1>1. FlagTypes'
  BY Zenon DEF FlagTypes
<1>2. AmountTypes'
  BY Limits DEF AmountTypes, money, GoIdle, KeepChain
<1> QED BY <1>1, <1>2

LEMMA TypeStep == ASSUME Typed, [Next]_vars PROVE Typed'
<1>1. CASE UNCHANGED vars
  <2>1. FlagTypes'
    BY <1>1, Zenon DEF Typed, FlagTypes, vars, chain, rows, ledger, flags, others
  <2>2. AmountTypes'
    BY <1>1 DEF Typed, AmountTypes, vars, chain, money, rows, ledger, run
  <2> QED BY <2>1, <2>2 DEF Typed
<1> QED
  BY <1>1, TypeRebalancing, TypeOpening, TypeFinishing, TypeToppingUp,
     TypeCrash, TypeWorld
  DEF Next, Bot

(* The amounts are never negative and every part of the state keeps its     *)
(* type: no subtraction of the code goes below zero.                        *)
THEOREM TypeCorrect == Spec => []TypeOK
<1>1. Spec => []Typed
  BY TypeInit, TypeStep, PTL DEF Spec
<1> QED BY <1>1, TypedMeans, PTL

-----------------------------------------------------------------------------
(* A fresh close is remembered until it is half an hour old: from the       *)
(* moment its row is closed the bot is either on its way to book it, or has *)
(* booked it.                                                               *)

Remembered == CloseIsSeen => (age = 0 => recent \/ pc = "closeFee")

LEMMA RememberedStep == ASSUME Remembered, [Next]_vars PROVE Remembered'
<1> SUFFICES ASSUME CloseIsSeen', age' = 0 PROVE recent' \/ pc' = "closeFee"
  BY DEF Remembered
<1> USE DEF Remembered, CloseIsSeen, chain, money, rows, ledger, flags, others, run
<1>1. CASE Rebalancing
  <2>1. CASE CloseDone \/ CloseBooked \/ BurntBooked
    BY <2>1 DEF CloseDone, CloseBooked, BurntBooked
  <2>2. CASE CloseFails
    BY <2>2 DEF CloseFails, NoFee
  <2>3. ASSUME NEW reason \in Reasons, StartRebalance(reason)
        PROVE recent' \/ pc' = "closeFee"
    BY <2>3 DEF StartRebalance
  <2>4. CASE RequestDropped \/ Baseline \/ Claim \/ BurnFails
    BY <2>4 DEF RequestDropped, Baseline, Claim, BurnFails
  <2> QED BY <1>1, <2>1, <2>2, <2>3, <2>4 DEF Rebalancing
<1>2. CASE Opening
  BY <1>2 DEF Opening, PriceKnown, StartReopen, Refuse, ReopenPriceKnown,
     NotNow, Swapped,
     OpenDone, OpenFails, OpenBooked, OpenUnbooked
<1>3. CASE Finishing \/ ToppingUp
  BY <1>3 DEF Finishing, ToppingUp, PayIn, Sweep, PayInEnds, PayInCut, NoSweep, SweepBooked,
     SweepUnbooked, Finish, StartTopUp, TopUp, Settle, TopUpEnds
<1>4. CASE Crash
  BY <1>4 DEF Crash
<1>5. CASE World
  BY <1>5 DEF World, Drift, FeesAccrue, OthersMove, ExitElsewhere, ManualLock,
     ManualClose, Request, HalfAnHour, Day, ZombieBurnt, Quiet
<1>6. CASE UNCHANGED vars
  BY <1>6 DEF vars
<1> QED BY <1>1, <1>2, <1>3, <1>4, <1>5, <1>6 DEF Next, Bot

(* Refuse is the only step that refuses.                                    *)
LEMMA OnlyRefuse == ASSUME [Next]_vars, ~refused, refused' PROVE Refuse
<1> USE DEF chain, money, rows, ledger, flags, others, run
<1>1. CASE Rebalancing
  BY <1>1 DEF Rebalancing, StartRebalance, RequestDropped, Baseline, Claim,
     CloseDone,
     CloseBooked, BurnFails, BurntBooked, CloseFails
<1>2. CASE Opening
  BY <1>2 DEF Opening, PriceKnown, StartReopen, ReopenPriceKnown, NotNow, Swapped,
     OpenDone, OpenFails, OpenBooked, OpenUnbooked
<1>3. CASE Finishing \/ ToppingUp
  BY <1>3 DEF Finishing, ToppingUp, PayIn, Sweep, PayInEnds, PayInCut, NoSweep, SweepBooked,
     SweepUnbooked, Finish, StartTopUp, TopUp, Settle, TopUpEnds
<1>4. CASE Crash
  BY <1>4 DEF Crash
<1>5. CASE World
  BY <1>5 DEF World, Drift, FeesAccrue, OthersMove, ExitElsewhere, ManualLock,
     ManualClose, Request, HalfAnHour, Day, ZombieBurnt, Quiet
<1>6. CASE UNCHANGED vars
  BY <1>6 DEF vars
<1> QED BY <1>1, <1>2, <1>3, <1>4, <1>5, <1>6 DEF Next, Bot

(* The pool is switched off for want of a close only when the last close is *)
(* older than half an hour, provided the fee of the close can be read.      *)
THEOREM NoFreshCloseRefused == Spec => RefusedOnlyLate
<1>1. Init => Remembered
  BY DEF Init, Remembered
<1>2. Spec => []Remembered
  BY <1>1, RememberedStep, PTL DEF Spec
<1>3. ASSUME Typed, Remembered, [Next]_vars
      PROVE  (CloseIsSeen /\ ~refused /\ refused') => age > 0
  <2> SUFFICES ASSUME CloseIsSeen, ~refused, refused' PROVE age > 0
    OBVIOUS
  <2>1. Refuse
    BY <1>3, OnlyRefuse
  <2>2. pc = "idle" /\ ~recent
    BY <2>1 DEF Refuse, Preservation
  <2>3. age # 0
    BY <1>3, <2>2 DEF Remembered
  <2> QED BY <1>3, <2>3 DEF Typed, AmountTypes
<1>4. Spec => []Typed
  BY TypeInit, TypeStep, PTL DEF Spec
<1>5. Typed /\ Remembered /\ [Next]_vars
      => [(CloseIsSeen /\ ~refused /\ refused') => age > 0]_vars
  BY <1>3
<1> QED BY <1>2, <1>4, <1>5, PTL DEF Spec, RefusedOnlyLate

-----------------------------------------------------------------------------
(* Whose money it is.  Everything below holds in circumstances in which the *)
(* bot can know what it has moved; Clear says what they come down to.       *)

Clear ==
  /\ ~Unseen("open") /\ ~Unseen("payIn") /\ ~Unseen("topUp")
  /\ "topFee" \notin around.noFee /\ "topFee" \notin around.crashAt
  /\ Event("fees") => /\ around.noFee = {} /\ around.crashAt = {} /\ ~May("read")
                      /\ ~Event("force") /\ ~Event("manual")
  /\ May("burn") => around.crashAt = {}
  /\ Event("meanwhile") => around.volatile

LEMMA ClearCircumstances == Traceable => Clear
  BY DEF Traceable, ClaimsApart, Clear, Unseen, Event, May

SpendAwaits == {"swap", "open", "rSwap", "rOpen"}
PaidAwaits == {"openFee", "rFee"} \cup FinishAwaits
BaseAwaits == {"claim", "close", "closeFee", "burntFee", "price"}
ByRebalance == {"rebalance", "burnOpen"}

(* Where a position stands, apart from the amounts: an NFT is left behind   *)
(* only where no restart can adopt it, fees, requests and manual closes     *)
(* come only where the circumstances have them, a fresh opening follows no  *)
(* rebalance with fees, a closed row leaves nothing in the position, and an *)
(* open one no less than its book value, unless a close landed unseen.      *)
Marks ==
  /\ (stray \/ pc = "burntFee") => around.crashAt = {}
  /\ (fees > 0 \/ claimed > 0) => Event("fees")
  /\ force => Event("force")
  /\ (manual \/ note = "manual") => Event("manual")
  /\ (recent \/ pc = "closeFee") => age = 0
  /\ pc = "rPrice" => (recent \/ (age < 2 /\ note \in ByRebalance))
  /\ (row = "closed" /\ Event("fees")) => (pc = "closeFee" \/ note \in ByRebalance)
  /\ after = "fresh" => (pc \in {"rSwap", "rOpen", "rFee"} /\ ~Event("fees"))
  /\ pc \in SpendAwaits \cup {"closeFee", "price", "rPrice"} => row = "closed"
  /\ pc \in TopUpAwaits => row = "open"
  /\ (row = "closed" \/ pc = "burntFee") => held = 0
  /\ keep <= claimed /\ (pc = "idle" => keep = 0)
  /\ capital > 0
  /\ (~Unseen("close") /\ row = "open" /\ pc # "burntFee") => capital <= held
  /\ pc \in PaidAwaits => (held = done /\ capital <= done)

(* The units in the wallet the bot may not touch.                           *)
Bound == foreign + Owed

CloseBehind ==
  pc \in {"closeFee", "burntFee", "price"} \/ (row = "closed" /\ note \in ByRebalance)
ClaimBehind ==
  pc \in {"baseline", "claim", "close"}
  \/ (row = "open" /\ ~cool /\ pc \in {"idle"} \cup TopUpAwaits)

(* What is in the wallet beyond that: at least the book value of what is    *)
(* not in the position, the claim before a close that may come, close and   *)
(* claim after it, the capital of an opening under way, its rest.           *)
Funds ==
  /\ wallet >= Bound
  /\ wallet + held >= Bound + capital
  /\ (~around.volatile /\ pc \in BaseAwaits) => (wallet >= base /\ base >= foreign + shift)
  /\ ClaimBehind => wallet >= Bound + claimed
  /\ CloseBehind => wallet >= Bound + closed + claimed
  /\ (after # "fresh" /\ pc \in SpendAwaits) => wallet >= Bound + freed
  /\ (after # "fresh" /\ pc \in PaidAwaits) => wallet >= Bound + Leftover

Safe == Clear /\ Marks /\ Funds

(* A claim and a close bring the units they are booked with; the base of a  *)
(* USDC pool is the wallet before both.                                     *)
LEMMA SafeRebalancing == ASSUME Typed, Safe, Rebalancing PROVE Safe'
<1> USE DEF Typed, FlagTypes, AmountTypes, Safe, Clear, Marks, Funds, Bound,
            Owed, Leftover, Above, Least, CloseBehind, ClaimBehind,
            SpendAwaits, PaidAwaits, BaseAwaits, FinishAwaits, TopUpAwaits,
            ByRebalance, Event, May, Unseen, NoFee, chain, money, rows,
            ledger, flags, others, run
<1>1. ASSUME NEW reason \in Reasons, StartRebalance(reason) PROVE Safe'
  BY <1>1 DEF StartRebalance, Wanted
<1>2. CASE RequestDropped BY <1>2 DEF RequestDropped
<1>3. CASE Baseline BY <1>3 DEF Baseline
<1>4. CASE Claim BY <1>4 DEF Claim, ClaimEffect
<1>5. CASE CloseDone BY <1>5 DEF CloseDone, DrainEffect
<1>6. CASE CloseBooked BY <1>6 DEF CloseBooked
<1>7. CASE BurnFails BY <1>7 DEF BurnFails, DrainEffect
<1>8. CASE BurntBooked BY <1>8 DEF BurntBooked
<1>9. CASE CloseFails BY <1>9 DEF CloseFails, DrainEffect, GoIdle
<1> QED BY <1>1, <1>2, <1>3, <1>4, <1>5, <1>6, <1>7, <1>8, <1>9 DEF
       Rebalancing

(* What an opening may take is what claim and close have brought, or the    *)
(* book value where their amounts are unknown; it takes no more.            *)
LEMMA SafeOpening == ASSUME Typed, Safe, Opening PROVE Safe'
<1> USE DEF Typed, FlagTypes, AmountTypes, Safe, Clear, Marks, Funds, Bound,
            Owed, Leftover, Above, Least, CloseBehind, ClaimBehind,
            SpendAwaits, PaidAwaits, BaseAwaits, FinishAwaits, TopUpAwaits,
            ByRebalance, Event, May, Unseen, NoFee, chain, money, rows,
            ledger, flags, others, run
<1>1. CASE PriceKnown BY <1>1 DEF PriceKnown, Delivered
<1>2. CASE StartReopen BY <1>2 DEF StartReopen, Preservation, Aborted
<1>3. CASE Refuse BY <1>3 DEF Refuse
<1>4. CASE ReopenPriceKnown
  BY <1>4 DEF ReopenPriceKnown, ReopenTarget, Delivered, Aborted
<1>5. CASE NotNow BY <1>5 DEF NotNow, Counted, Uncounted, GoIdle
<1>6. CASE Swapped BY <1>6 DEF Swapped
<1>7. ASSUME NEW d \in Openable, OpenDone(d) PROVE Safe'
  BY <1>7 DEF OpenDone, Openable
<1>8. CASE OpenFails
  BY <1>8 DEF OpenFails, Openable, Counted, Uncounted, GoIdle
<1>9. CASE OpenBooked BY <1>9 DEF OpenBooked
<1>10. CASE OpenUnbooked
  BY <1>10 DEF OpenUnbooked, KeepChain, Counted, Uncounted, GoIdle, Unlinked
<1> QED BY <1>1, <1>2, <1>3, <1>4, <1>5, <1>6, <1>7, <1>8, <1>9, <1>10 DEF
       Opening

(* Payments shrink the rest as they shrink the wallet, and what is booked   *)
(* in the ledger at the end is a rest that is there.                        *)
LEMMA SafeFinishing == ASSUME Typed, Safe, Finishing PROVE Safe'
<1> USE DEF Typed, FlagTypes, AmountTypes, Safe, Clear, Marks, Funds, Bound,
            Owed, Leftover, Above, Least, CloseBehind, ClaimBehind,
            SpendAwaits, PaidAwaits, BaseAwaits, FinishAwaits, TopUpAwaits,
            ByRebalance, Event, May, Unseen, NoFee, chain, money, rows,
            ledger, flags, others, run
<1>1. ASSUME NEW x \in Units, PayIn(x) PROVE Safe'
  BY <1>1 DEF PayIn, PayEffect, Units
<1>2. ASSUME NEW x \in Units, Sweep(x) PROVE Safe'
  BY <1>2 DEF Sweep, PayEffect, Units
<1>3. CASE PayInEnds BY <1>3 DEF PayInEnds, PayEffect
<1>4. CASE NoSweep BY <1>4 DEF NoSweep, PayEffect
<1>5. CASE SweepBooked BY <1>5 DEF SweepBooked
<1>6. CASE SweepUnbooked BY <1>6 DEF SweepUnbooked, KeepChain, GoIdle
<1>7. CASE Finish BY <1>7 DEF Finish, GoIdle
<1>8. CASE PayInCut BY <1>8 DEF PayInCut, KeepChain, GoIdle
<1> QED BY <1>1, <1>2, <1>3, <1>4, <1>5, <1>6, <1>7, <1>8 DEF Finishing

(* A payment from the ledger is not owed any more before it is settled.     *)
LEMMA SafeToppingUp == ASSUME Typed, Safe, ToppingUp PROVE Safe'
<1> USE DEF Typed, FlagTypes, AmountTypes, Safe, Clear, Marks, Funds, Bound,
            Owed, Leftover, Above, Least, CloseBehind, ClaimBehind,
            SpendAwaits, PaidAwaits, BaseAwaits, FinishAwaits, TopUpAwaits,
            ByRebalance, Event, May, Unseen, NoFee, chain, money, rows,
            ledger, flags, others, run
<1>1. CASE StartTopUp BY <1>1 DEF StartTopUp
<1>2. ASSUME NEW x \in Units, TopUp(x) PROVE Safe'
  BY <1>2 DEF TopUp, PayEffect, Units
<1>3. CASE Settle BY <1>3 DEF Settle, GoIdle
<1>4. CASE TopUpEnds BY <1>4 DEF TopUpEnds, PayEffect, GoIdle
<1> QED BY <1>1, <1>2, <1>3, <1>4 DEF ToppingUp

(* Others move nothing but their own money, and nothing at all while a base *)
(* is remembered; half an hour makes an old claim forgotten.                *)
LEMMA SafeWorld == ASSUME Typed, Safe, World PROVE Safe'
<1> USE DEF Typed, FlagTypes, AmountTypes, Safe, Clear, Marks, Funds, Bound,
            Owed, Leftover, Above, Least, CloseBehind, ClaimBehind,
            SpendAwaits, PaidAwaits, BaseAwaits, FinishAwaits, TopUpAwaits,
            ByRebalance, Event, May, Unseen, NoFee, chain, money, rows,
            ledger, flags, others, run
<1>1. CASE Drift BY <1>1 DEF Drift, Quiet
<1>2. CASE FeesAccrue BY <1>2 DEF FeesAccrue, Quiet
<1>3. CASE OthersMove BY <1>3 DEF OthersMove, Quiet
<1>4. CASE ExitElsewhere BY <1>4 DEF ExitElsewhere, Quiet
<1>5. CASE ManualLock BY <1>5 DEF ManualLock, Quiet
<1>6. CASE ManualClose BY <1>6 DEF ManualClose, Quiet
<1>7. CASE Request BY <1>7 DEF Request, Quiet
<1>8. CASE HalfAnHour BY <1>8 DEF HalfAnHour, Forgotten, Quiet
<1>9. CASE Day BY <1>9 DEF Day, Forgotten, Quiet
<1>10. CASE ZombieBurnt BY <1>10 DEF ZombieBurnt, Quiet
<1> QED BY <1>1, <1>2, <1>3, <1>4, <1>5, <1>6, <1>7, <1>8, <1>9, <1>10 DEF
       World

(* No restart finds an NFT to adopt; what is cut off owes less, not more.   *)
LEMMA SafeCrash == ASSUME Typed, Safe, Crash PROVE Safe'
<1> USE DEF Typed, AmountTypes, Safe, Crash, money, ledger, flags, others, GoIdle, KeepChain,
            FinishAwaits, TopUpAwaits
<1>1. ~stray
  BY DEF Marks
<1>2. Clear'
  BY DEF Clear, Unseen, Event, May
<1>3. Marks'
  BY <1>1 DEF Marks, SpendAwaits, PaidAwaits, ByRebalance, Clear, Event, Unseen
<1>4. Funds'
  BY <1>1 DEF Funds, Marks, Bound, Owed, Leftover, Above, CloseBehind, ClaimBehind,
     SpendAwaits, PaidAwaits, BaseAwaits, ByRebalance, Clear, Event
<1> QED BY <1>2, <1>3, <1>4

LEMMA SafeInit == ASSUME Init, Traceable PROVE Safe
<1>1. Clear
  BY ClearCircumstances
<1>2. Marks
  BY RebalanceAssumption
  DEF Init, Marks, SpendAwaits, PaidAwaits, FinishAwaits, TopUpAwaits
<1>3. Funds
  BY RebalanceAssumption
  DEF Init, Funds, Bound, Owed, CloseBehind, ClaimBehind, SpendAwaits, PaidAwaits, BaseAwaits,
      ByRebalance, FinishAwaits, TopUpAwaits
<1> QED BY <1>1, <1>2, <1>3 DEF Safe

LEMMA SafeStep == ASSUME Typed, Safe, [Next]_vars PROVE Safe'
<1>1. CASE UNCHANGED vars
  <2> USE <1>1 DEF vars, chain, money, rows, ledger, flags, others, run
  <2>1. Clear'
    BY DEF Safe, Clear, Unseen, Event, May
  <2>2. Marks'
    BY DEF Safe, Marks, Event, Unseen
  <2>3. Funds'
    BY DEF Safe, Funds, Bound, Owed, Leftover, CloseBehind, ClaimBehind
  <2> QED BY <2>1, <2>2, <2>3 DEF Safe
<1> QED
  BY <1>1, SafeRebalancing, SafeOpening, SafeFinishing, SafeToppingUp,
     SafeCrash, SafeWorld
  DEF Next, Bot

(* The circumstances never change.                                          *)
LEMMA SameCircumstances == ASSUME [Next]_vars PROVE around' = around
<1> USE DEF chain, vars
<1>1. CASE Rebalancing
  BY <1>1 DEF Rebalancing, StartRebalance, RequestDropped, Baseline, Claim,
     CloseDone,
     CloseBooked, BurnFails, BurntBooked, CloseFails
<1>2. CASE Opening
  BY <1>2 DEF Opening, PriceKnown, StartReopen, Refuse, ReopenPriceKnown,
     NotNow, Swapped,
     OpenDone, OpenFails, OpenBooked, OpenUnbooked
<1>3. CASE Finishing \/ ToppingUp
  BY <1>3 DEF Finishing, ToppingUp, PayIn, Sweep, PayInEnds, PayInCut, NoSweep, SweepBooked,
     SweepUnbooked, Finish, StartTopUp, TopUp, Settle, TopUpEnds
<1>4. CASE Crash
  BY <1>4 DEF Crash
<1>5. CASE World
  BY <1>5 DEF World, Drift, FeesAccrue, OthersMove, ExitElsewhere, ManualLock,
     ManualClose, Request, HalfAnHour, Day, ZombieBurnt, Quiet
<1> QED BY <1>1, <1>2, <1>3, <1>4, <1>5 DEF Next, Bot

(* However large the position, the rests and the money of others, and       *)
(* whatever is refused, fails or is cut off: as long as the bot can know    *)
(* what it has moved, the wallet holds all that belongs to others and all   *)
(* that the ledger owes.                                                    *)
THEOREM NoForeignMoneySpent == Spec => []ShiftCovered
<1> DEFINE Kept == Typed /\ (Traceable => Safe)
<1>1. Init => Kept
  BY TypeInit, SafeInit
<1>2. Kept /\ [Next]_vars => Kept'
  <2> SUFFICES ASSUME Kept, [Next]_vars PROVE Kept'
    OBVIOUS
  <2>1. Traceable' => Traceable
    BY SameCircumstances DEF Traceable, ClaimsApart, Event, May
  <2> QED BY <2>1, TypeStep, SafeStep
<1>3. Kept => ShiftCovered
  BY DEF ShiftCovered, Safe, Funds, Bound
<1> HIDE DEF Kept
<1> QED BY <1>1, <1>2, <1>3, PTL DEF Spec

-----------------------------------------------------------------------------
(* The books.  When no leg up to the close is refused, every fee and every  *)
(* balance is read and the process never dies, the bounds above are         *)
(* equations.                                                               *)

Lossless ==
  /\ ~May("refuse") /\ ~May("read")
  /\ around.unseen = {} /\ around.noFee = {} /\ around.crashAt = {}
  /\ ~Event("meanwhile")

LEMMA LosslessCircumstances ==
  NothingLost => Traceable /\ ~Unseen("close") /\ (~May("read") => Lossless)
  BY DEF NothingLost, Traceable, Lossless, ClaimsApart, May, Event, Unseen

(* A closed row is a booked close, an open one a position with its book     *)
(* value in it, and a claim is forgotten before the next one.               *)
Booked ==
  /\ row = "closed" => (pc = "closeFee" \/ note \in ByRebalance \cup {"manual"})
  /\ pc \in {"baseline", "claim", "close"} \cup TopUpAwaits \cup PaidAwaits => row = "open"
  /\ (row = "open" /\ ~cool /\ pc \in {"idle"} \cup TopUpAwaits) => claimed = 0
  /\ pc \in {"baseline", "claim"} => claimed = 0
  /\ pc \in {"close", "closeFee", "burntFee", "price"} => keep = claimed
  /\ CloseBehind => closed > 0
  /\ (row = "open" /\ pc # "burntFee") => held > 0
  /\ (row = "open" /\ pc \notin {"burntFee", "reconcile"}) => held = capital

(* What is in the wallet beside the money of others and of the ledger.      *)
Balanced ==
  /\ (row = "open" /\ pc \in {"idle", "baseline", "claim"} \cup TopUpAwaits) => wallet = Bound
  /\ pc = "close" => wallet = Bound + claimed
  /\ CloseBehind => wallet = Bound + closed + claimed
  /\ (~around.volatile /\ pc \in BaseAwaits) => base = foreign + shift
  /\ (after # "fresh" /\ pc \in SpendAwaits) => wallet = Bound + freed
  /\ (after # "fresh" /\ pc \in PaidAwaits) => (wallet = Bound + Leftover /\ done <= freed)
  /\ (after = "fresh" /\ pc = "rFee") => wallet = Bound

Exact == Lossless /\ Booked /\ Balanced

(* Without refusals a close follows every claim, and the claim is its own.  *)
LEMMA ExactRebalancing == ASSUME Typed, Safe, Exact, Rebalancing PROVE Exact'
<1> USE DEF Typed, FlagTypes, AmountTypes, Safe, Clear, Marks, Funds, Exact,
            Lossless, Booked, Balanced, Bound, Owed, Leftover, Above, Least,
            CloseBehind, ClaimBehind, SpendAwaits, PaidAwaits, BaseAwaits,
            FinishAwaits, TopUpAwaits, ByRebalance, Event, May, Unseen, NoFee,
            chain, money, rows, ledger, flags, others, run
<1>1. ASSUME NEW reason \in Reasons, StartRebalance(reason) PROVE Exact'
  BY <1>1 DEF StartRebalance, Wanted
<1>2. CASE RequestDropped BY <1>2 DEF RequestDropped
<1>3. CASE Baseline BY <1>3 DEF Baseline
<1>4. CASE Claim BY <1>4 DEF Claim, ClaimEffect
<1>5. CASE CloseDone BY <1>5 DEF CloseDone, DrainEffect
<1>6. CASE CloseBooked BY <1>6 DEF CloseBooked
<1>7. CASE BurnFails BY <1>7 DEF BurnFails, DrainEffect
<1>8. CASE BurntBooked BY <1>8 DEF BurntBooked
<1>9. CASE CloseFails BY <1>9 DEF CloseFails, DrainEffect, GoIdle
<1> QED BY <1>1, <1>2, <1>3, <1>4, <1>5, <1>6, <1>7, <1>8, <1>9 DEF
       Rebalancing

(* Without losses the opening takes up exactly what was freed.              *)
LEMMA ExactOpening == ASSUME Typed, Safe, Exact, Opening PROVE Exact'
<1> USE DEF Typed, FlagTypes, AmountTypes, Safe, Clear, Marks, Funds, Exact,
            Lossless, Booked, Balanced, Bound, Owed, Leftover, Above, Least,
            CloseBehind, ClaimBehind, SpendAwaits, PaidAwaits, BaseAwaits,
            FinishAwaits, TopUpAwaits, ByRebalance, Event, May, Unseen, NoFee,
            chain, money, rows, ledger, flags, others, run
<1>1. CASE PriceKnown BY <1>1 DEF PriceKnown, Delivered
<1>2. CASE StartReopen BY <1>2 DEF StartReopen, Preservation, Aborted
<1>3. CASE Refuse BY <1>3 DEF Refuse
<1>4. CASE ReopenPriceKnown
  BY <1>4 DEF ReopenPriceKnown, ReopenTarget, Delivered, Aborted
<1>5. CASE NotNow BY <1>5 DEF NotNow, Counted, Uncounted, GoIdle
<1>6. CASE Swapped BY <1>6 DEF Swapped
<1>7. ASSUME NEW d \in Openable, OpenDone(d) PROVE Exact'
  BY <1>7 DEF OpenDone, Openable
<1>8. CASE OpenFails
  BY <1>8 DEF OpenFails, Openable, Counted, Uncounted, GoIdle
<1>9. CASE OpenBooked BY <1>9 DEF OpenBooked
<1>10. CASE OpenUnbooked
  BY <1>10 DEF OpenUnbooked, KeepChain, Counted, Uncounted, GoIdle, Unlinked
<1> QED BY <1>1, <1>2, <1>3, <1>4, <1>5, <1>6, <1>7, <1>8, <1>9, <1>10 DEF
       Opening

(* What is neither paid in nor in the position becomes the rest.            *)
LEMMA ExactFinishing == ASSUME Typed, Safe, Exact, Finishing PROVE Exact'
<1> USE DEF Typed, FlagTypes, AmountTypes, Safe, Clear, Marks, Funds, Exact,
            Lossless, Booked, Balanced, Bound, Owed, Leftover, Above, Least,
            CloseBehind, ClaimBehind, SpendAwaits, PaidAwaits, BaseAwaits,
            FinishAwaits, TopUpAwaits, ByRebalance, Event, May, Unseen, NoFee,
            chain, money, rows, ledger, flags, others, run
<1>1. ASSUME NEW x \in Units, PayIn(x) PROVE Exact'
  BY <1>1 DEF PayIn, PayEffect, Units
<1>2. ASSUME NEW x \in Units, Sweep(x) PROVE Exact'
  BY <1>2 DEF Sweep, PayEffect, Units
<1>3. CASE PayInEnds BY <1>3 DEF PayInEnds, PayEffect
<1>4. CASE NoSweep BY <1>4 DEF NoSweep, PayEffect
<1>5. CASE SweepBooked BY <1>5 DEF SweepBooked
<1>6. CASE SweepUnbooked BY <1>6 DEF SweepUnbooked, KeepChain, GoIdle
<1>7. CASE Finish BY <1>7 DEF Finish, GoIdle
<1>8. CASE PayInCut BY <1>8 DEF PayInCut, KeepChain, GoIdle
<1> QED BY <1>1, <1>2, <1>3, <1>4, <1>5, <1>6, <1>7, <1>8 DEF Finishing

(* A payment raises book value and position alike.                          *)
LEMMA ExactToppingUp == ASSUME Typed, Safe, Exact, ToppingUp PROVE Exact'
<1> USE DEF Typed, FlagTypes, AmountTypes, Safe, Clear, Marks, Funds, Exact,
            Lossless, Booked, Balanced, Bound, Owed, Leftover, Above, Least,
            CloseBehind, ClaimBehind, SpendAwaits, PaidAwaits, BaseAwaits,
            FinishAwaits, TopUpAwaits, ByRebalance, Event, May, Unseen, NoFee,
            chain, money, rows, ledger, flags, others, run
<1>1. CASE StartTopUp BY <1>1 DEF StartTopUp
<1>2. ASSUME NEW x \in Units, TopUp(x) PROVE Exact'
  BY <1>2 DEF TopUp, PayEffect, Units
<1>3. CASE Settle BY <1>3 DEF Settle, GoIdle
<1>4. CASE TopUpEnds BY <1>4 DEF TopUpEnds, PayEffect, GoIdle
<1> QED BY <1>1, <1>2, <1>3, <1>4 DEF ToppingUp

(* A manual close is followed by a fresh opening, with a new ledger.        *)
LEMMA ExactWorld == ASSUME Typed, Safe, Exact, World PROVE Exact'
<1> USE DEF Typed, FlagTypes, AmountTypes, Safe, Clear, Marks, Funds, Exact,
            Lossless, Booked, Balanced, Bound, Owed, Leftover, Above, Least,
            CloseBehind, ClaimBehind, SpendAwaits, PaidAwaits, BaseAwaits,
            FinishAwaits, TopUpAwaits, ByRebalance, Event, May, Unseen, NoFee,
            chain, money, rows, ledger, flags, others, run
<1>1. CASE Drift BY <1>1 DEF Drift, Quiet
<1>2. CASE FeesAccrue BY <1>2 DEF FeesAccrue, Quiet
<1>3. CASE OthersMove BY <1>3 DEF OthersMove, Quiet
<1>4. CASE ExitElsewhere BY <1>4 DEF ExitElsewhere, Quiet
<1>5. CASE ManualLock BY <1>5 DEF ManualLock, Quiet
<1>6. CASE ManualClose BY <1>6 DEF ManualClose, Quiet
<1>7. CASE Request BY <1>7 DEF Request, Quiet
<1>8. CASE HalfAnHour BY <1>8 DEF HalfAnHour, Forgotten, Quiet
<1>9. CASE Day BY <1>9 DEF Day, Forgotten, Quiet
<1>10. CASE ZombieBurnt BY <1>10 DEF ZombieBurnt, Quiet
<1> QED BY <1>1, <1>2, <1>3, <1>4, <1>5, <1>6, <1>7, <1>8, <1>9, <1>10 DEF
       World

LEMMA ExactInit == ASSUME Init, NothingLost, ~May("read") PROVE Exact
<1>1. Lossless
  BY LosslessCircumstances
<1>2. Booked
  BY RebalanceAssumption
  DEF Init, Booked, CloseBehind, PaidAwaits, FinishAwaits, TopUpAwaits
<1>3. Balanced
  BY RebalanceAssumption
  DEF Init, Balanced, Bound, Owed, CloseBehind, SpendAwaits, PaidAwaits, BaseAwaits,
      FinishAwaits, TopUpAwaits
<1> QED BY <1>1, <1>2, <1>3 DEF Exact

LEMMA ExactStep == ASSUME Typed, Safe, Exact, [Next]_vars PROVE Exact'
<1>1. CASE UNCHANGED vars
  <2> USE <1>1 DEF vars, chain, money, rows, ledger, flags, others, run
  <2>1. Lossless'
    BY DEF Exact, Lossless, Event, May
  <2>2. Booked'
    BY DEF Exact, Booked, CloseBehind
  <2>3. Balanced'
    BY DEF Exact, Balanced, Bound, Owed, Leftover, CloseBehind
  <2> QED BY <2>1, <2>2, <2>3 DEF Exact
<1>2. CASE Crash
  BY <1>2 DEF Crash, Exact, Lossless
<1> QED
  BY <1>1, <1>2, ExactRebalancing, ExactOpening, ExactFinishing, ExactToppingUp,
     ExactWorld
  DEF Next, Bot

(* Whenever the bot is not at work and nothing got lost, the book value is  *)
(* at most what the position holds; and where every balance can be read,    *)
(* the ledger says to the last unit what a rebalance has left in the        *)
(* wallet, and the book value is what the position holds: an opening that   *)
(* is made up for takes, pays in and books the same as one of the same run. *)
THEOREM NothingForgotten == Spec => []BooksExact
<1> DEFINE Kept == /\ Typed
                   /\ NothingLost => Safe
                   /\ NothingLost /\ ~May("read") => Exact
<1>1. Init => Kept
  BY TypeInit, SafeInit, ExactInit, LosslessCircumstances
<1>2. Kept /\ [Next]_vars => Kept'
  <2> SUFFICES ASSUME Kept, [Next]_vars PROVE Kept'
    OBVIOUS
  <2>1. (NothingLost' => NothingLost) /\ (May("read")' <=> May("read"))
    BY SameCircumstances DEF NothingLost, ClaimsApart, Event, May
  <2> QED BY <2>1, TypeStep, SafeStep, ExactStep
<1>3. Kept => BooksExact
  <2> SUFFICES ASSUME Kept, NothingLost, pc = "idle", row = "open"
               PROVE  /\ capital <= held
                      /\ ~May("read") => wallet = foreign + shift /\ capital = held
    BY DEF BooksExact
  <2>1. capital <= held
    BY LosslessCircumstances DEF Safe, Marks
  <2>2. ASSUME ~May("read") PROVE wallet = foreign + shift /\ capital = held
    BY <2>2 DEF Exact, Booked, Balanced, Bound, Owed
  <2> QED BY <2>1, <2>2
<1> HIDE DEF Kept
<1> QED BY <1>1, <1>2, <1>3, PTL DEF Spec

=============================================================================
